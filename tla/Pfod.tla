-------------------------------- MODULE Pfod --------------------------------
(***************************************************************************)
(* Payment free of delivery: the two legs of a trade, submitted one by one  *)
(* and matched on the trade id (src/routes/pfod.ts), and the one-step       *)
(* settlement a match fires (src/workflows/pfod.ts).                        *)
(*                                                                          *)
(* A leg is stored under its trade and side, so a new submission replaces   *)
(* the one before it whatever became of that; submissions are numbered to   *)
(* tell them apart.  A handler runs to its end in one step.                 *)
(***************************************************************************)
EXTENDS Dcw, Sequences

CONSTANTS
    Trades,          \* the trade ids clients use
    InitialWallets,  \* the wallets the store holds when the trades begin
    Amounts,         \* the amounts (and currencies) of legs
    Window,          \* PFOD_MATCH_WINDOW_SEC
    MaxTime,         \* bound: clock readings
    MaxLegs          \* bound: submissions

ASSUME PfodAssumption ==
    /\ InitialWallets \in WalletMaps
    /\ Amounts \subseteq Nat
    /\ Window \in Nat
    /\ MaxTime \in Nat
    /\ MaxLegs \in Nat

VARIABLES
    wallet,        \* the wallets map of the store
    leg,           \* the PFOD drafts, by trade and side
    transactions,  \* the settled transactions, oldest first
    legs,          \* the submissions so far
    clock          \* Date.now()

vars == <<wallet, leg, transactions, legs, clock>>

Sides == {"DELI", "RECE"}

LegRecords == [n       : 0 .. MaxLegs,
               status  : {"ABSENT", "PENDING_MATCH", "SETTLED", "EXPIRED"},
               amount  : Amounts \cup {0},
               wallet  : Aliases \cup {NoAlias},
               expires : 0 .. MaxTime + Window]

NoLeg == [n |-> 0, status |-> "ABSENT", amount |-> 0, wallet |-> NoAlias, expires |-> 0]

\* ref is the pair of submissions a transaction settled; the code's own id is the
\* trade's, which a later pair of legs of the same trade repeats.
Transactions == [type : {"PFOD"}, trade : Trades, amount : Amounts, debited : Aliases,
                 credited : Aliases, ref : (1 .. MaxLegs) \X (1 .. MaxLegs)]

TypeOK ==
    /\ wallet \in WalletMaps
    /\ leg \in [Trades \X Sides -> LegRecords]
    /\ transactions \in Seq(Transactions)
    /\ legs \in 0 .. MaxLegs
    /\ clock \in 0 .. MaxTime

Init ==
    /\ wallet = InitialWallets
    /\ leg = [l \in Trades \X Sides |-> NoLeg]
    /\ transactions = <<>>
    /\ legs = 0
    /\ clock = 0

-----------------------------------------------------------------------------
\* tryMatch, on the legs as storeLeg left them.

NewLeg(amount, w) ==
    [n |-> legs + 1, status |-> "PENDING_MATCH", amount |-> amount, wallet |-> w,
     expires |-> clock + Window]

Stored(trade, side, amount, w) == [leg EXCEPT ![<<trade, side>>] = NewLeg(amount, w)]

IsExpired(l) == l.expires < clock

\* Both legs are there and neither is past its window.
Present(stored, trade) ==
    \A s \in Sides : stored[<<trade, s>>] # NoLeg /\ ~ IsExpired(stored[<<trade, s>>])

\* Expiry is looked at before the status, whatever the status is.
MarkExpired(stored, trade) ==
    IF \A s \in Sides : stored[<<trade, s>>] # NoLeg
      THEN [l \in DOMAIN stored |->
               IF l[1] = trade /\ IsExpired(stored[l])
                 THEN [stored[l] EXCEPT !.status = "EXPIRED"]
                 ELSE stored[l]]
      ELSE stored

\* Mutants: the status of the legs, the amounts, or a lapsed window are not looked at.
MatchesSettled(stored, trade) ==
    /\ Present(stored, trade)
    /\ stored[<<trade, "DELI">>].amount = stored[<<trade, "RECE">>].amount

MatchesAnyAmount(stored, trade) ==
    /\ Present(stored, trade)
    /\ \A s \in Sides : stored[<<trade, s>>].status = "PENDING_MATCH"

MatchesExpired(stored, trade) ==
    /\ Present(stored, trade)
    /\ \A s \in Sides : stored[<<trade, s>>].status # "SETTLED"
    /\ stored[<<trade, "DELI">>].amount = stored[<<trade, "RECE">>].amount

\* The legs are present, pending and agree on the amount.
Matches(stored, trade) ==
    /\ Present(stored, trade)
    /\ \A s \in Sides : stored[<<trade, s>>].status = "PENDING_MATCH"
    /\ stored[<<trade, "DELI">>].amount = stored[<<trade, "RECE">>].amount

\* The submitter of RECE pays the submitter of DELI.  The debit is checked for the
\* owner of the debited wallet, whoever submitted the legs.
Payer(stored, trade) == stored[<<trade, "RECE">>].wallet

Payee(stored, trade) == stored[<<trade, "DELI">>].wallet

Payable(stored, trade) ==
    /\ HasWallet(wallet, Payee(stored, trade))
    /\ HasWallet(wallet, Payer(stored, trade))
    /\ CanDebitAmount(wallet, Payer(stored, trade), stored[<<trade, "DELI">>].amount,
                      wallet[Payer(stored, trade)].owner)

Settles(stored, trade) ==
    LET amount == stored[<<trade, "DELI">>].amount
    IN  /\ Matches(stored, trade)
        /\ Payable(stored, trade)
        /\ wallet' = Moved(wallet, Payer(stored, trade), Payee(stored, trade), amount)
        /\ transactions' = Append(transactions,
                                  [type |-> "PFOD", trade |-> trade, amount |-> amount,
                                   debited |-> Payer(stored, trade),
                                   credited |-> Payee(stored, trade),
                                   ref |-> <<stored[<<trade, "DELI">>].n,
                                             stored[<<trade, "RECE">>].n>>])
        /\ leg' = [l \in DOMAIN stored |->
                      IF l[1] = trade THEN [stored[l] EXCEPT !.status = "SETTLED"]
                                      ELSE stored[l]]

\* Waiting for the counterpart, expired, already settled, inconsistent or not
\* covered: the new leg stays as it is unless its window has passed.
Waits(stored, trade) ==
    /\ ~ (Matches(stored, trade) /\ Payable(stored, trade))
    /\ leg' = MarkExpired(stored, trade)
    /\ UNCHANGED <<wallet, transactions>>

Submit(trade, side, amount, w) ==
    /\ legs < MaxLegs
    /\ legs' = legs + 1
    /\ HasWallet(wallet, w)
    /\ LET stored == Stored(trade, side, amount, w)
       IN  Settles(stored, trade) \/ Waits(stored, trade)
    /\ UNCHANGED clock

\* POST initpfoddeli: over any earlier DELI leg of the trade.
Deliver(trade, amount, w) == Submit(trade, "DELI", amount, w)

\* Mutant: any earlier DELI leg will do.
ReceiveAnyway(trade, amount, w) ==
    /\ leg[<<trade, "DELI">>] # NoLeg
    /\ Submit(trade, "RECE", amount, w)

\* POST initpfodrece: refused unless the trade has a DELI leg waiting.
Receive(trade, amount, w) ==
    /\ leg[<<trade, "DELI">>].status = "PENDING_MATCH"
    /\ Submit(trade, "RECE", amount, w)

-----------------------------------------------------------------------------

ClockMoves ==
    /\ clock' \in (0 .. MaxTime) \ {clock}
    /\ UNCHANGED <<wallet, leg, transactions, legs>>

\* POST admin/reset; the numbers of submissions go on.
Reset ==
    /\ wallet' = NoWallets
    /\ leg' = [l \in Trades \X Sides |-> NoLeg]
    /\ transactions' = <<>>
    /\ UNCHANGED <<legs, clock>>

Next ==
    \/ \E t \in Trades, x \in Amounts, w \in Aliases : Deliver(t, x, w) \/ Receive(t, x, w)
    \/ ClockMoves
    \/ Reset

Spec == Init /\ [][Next]_vars

-----------------------------------------------------------------------------
\* Properties.

\* A submission pays at most once: however often the legs of a trade are
\* submitted again, no leg takes part in two settlements.
LegsPayOnce ==
    \A i, j \in DOMAIN transactions : \A k \in 1 .. 2 :
        transactions[i].ref[k] = transactions[j].ref[k] => i = j

\* The receiving leg stored for a trade is settled exactly by the transaction that
\* names it, for its amount and out of its wallet -- or its window has passed.
ReceiptsMatchPayments ==
    \A t \in Trades :
        LET r == leg[<<t, "RECE">>]
            paid == {i \in DOMAIN transactions : transactions[i].ref[2] = r.n}
        IN  /\ r.status = "SETTLED" => paid # {}
            /\ r.status \in {"ABSENT", "PENDING_MATCH"} => paid = {}
            /\ \A i \in paid : /\ transactions[i].trade = t
                               /\ transactions[i].amount = r.amount
                               /\ transactions[i].debited = r.wallet

\* A leg that was marked EXPIRED is never paid, though the clock may turn back:
\* it has to be submitted again.
ExpiredStaysUnpaid ==
    [][\A t \in Trades, s \in Sides :
          leg[<<t, s>>].status = "EXPIRED" =>
              \/ leg'[<<t, s>>].status # "SETTLED"
              \/ leg'[<<t, s>>].n # leg[<<t, s>>].n]_vars

\* A leg is settled together with its counterpart, or not at all: a settled
\* delivery still finds the receipt it was matched with, settled too unless
\* expiry has overtaken it.
SettledTogether ==
    \A t \in Trades :
        leg[<<t, "DELI">>].status = "SETTLED" =>
            /\ leg[<<t, "RECE">>].status = "SETTLED"
            /\ \E i \in DOMAIN transactions :
                  transactions[i].ref = <<leg[<<t, "DELI">>].n, leg[<<t, "RECE">>].n>>

\* An unmatched leg past its window is marked EXPIRED (pfod.ts 32-33): only an
\* unmatched one.
OnlyUnmatchedExpire ==
    [][\A t \in Trades, s \in Sides :
          leg[<<t, s>>].status = "SETTLED" => leg'[<<t, s>>].status # "EXPIRED"]_vars

Ledger == INSTANCE CashLedger WITH
              Accounts <- Aliases,
              NoRef    <- <<0, 0>>,
              open     <- {a \in Aliases : HasWallet(wallet, a)},
              balance  <- [a \in Aliases |-> wallet[a].balance],
              posted   <- transactions

\* From the wallets the store began with, cash moves only by the recorded payment
\* of a matched pair.
LedgerSteps == [][Ledger!Next]_(Ledger!ledgerVars)
=============================================================================
