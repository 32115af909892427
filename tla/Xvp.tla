-------------------------------- MODULE Xvp --------------------------------
(***************************************************************************)
(* The cash leg of a hash-linked exchange: src/workflows/xvp.ts under the   *)
(* per-id lock of src/workflows/xvp-lock.ts, called by src/routes/xvp.ts.   *)
(*                                                                          *)
(* Each call of init fixes the terms of an agreement and draws fresh secrets *)
(* and a fresh payment id; the number of the call stands for all three, and *)
(* xvp[id] is the record the store keeps under the id the client chose.     *)
(* Payments and queries wait their turn in the lock of the id; a payment    *)
(* holds it across the await of onPaymentAdmitted, and goes on afterwards   *)
(* with the record it read before.  init and the administrator's reset do   *)
(* not take the lock, and the wall clock may turn back at any time.         *)
(***************************************************************************)
EXTENDS Dcw, Sequences

CONSTANTS
    Xvps,            \* the ids clients choose
    Calls,           \* payments and queries, each sent at most once
    InitialWallets,  \* the wallets the store holds when the XvPs begin
    Amounts,         \* what a payment must repeat of an init: amount, currency, seller
    Sellers,         \* the wallets inits name as the seller's
    Timeouts,        \* the timeoutSec of an init
    MaxTime,         \* bound: clock readings
    MaxInits,        \* bound: calls of init
    ReuseIds         \* whether clients may init an id again

ASSUME XvpAssumption ==
    /\ InitialWallets \in WalletMaps
    /\ \A a \in Aliases : ~ HasWallet(InitialWallets, a) => InitialWallets[a] = NoDcw
    /\ Amounts \subseteq Nat
    /\ Sellers \subseteq Aliases
    /\ Timeouts \subseteq Nat
    /\ MaxTime \in Nat
    /\ MaxInits \in Nat
    /\ ReuseIds \in BOOLEAN

VARIABLES
    wallet,        \* the wallets map of the store
    xvp,           \* the XVP drafts, by id
    transactions,  \* the settled transactions, oldest first
    terms,         \* what the nth init agreed, never updated by the code
    clock,         \* this.now()
    call,          \* the payments and queries
    queue          \* by id, the calls at the lock in order of arrival

vars == <<wallet, xvp, transactions, terms, clock, call, queue>>

-----------------------------------------------------------------------------

Agreements == 1 .. MaxInits

Terms == [id : Xvps, amount : Amounts, buyer : Entities, seller : Aliases,
          deadline : Nat]

\* n is the agreement the record is of, 0 when there is no record.
Records == [n         : Agreements \cup {0},
            status    : {"ABSENT", "INITIALIZED", "SETTLED", "EXPIRED"},
            attempted : BOOLEAN,
            payer     : Aliases \cup {NoAlias}]

NoRecord == [n |-> 0, status |-> "ABSENT", attempted |-> FALSE, payer |-> NoAlias]

Kinds == {"PAYMENT", "GET", "QUERY_EXECUTION", "QUERY_CANCELLATION"}

Keys == {"EXECUTION", "CANCELLATION"} \X Agreements

NoKey == <<"NONE", 0>>

Statuses == {"PENDING", "SETTLED", "UNSETTLED", "BURNED", "REFUSED", "NOT_FOUND"}

\* A call: what it asks, where it is, the agreement it found once admitted or
\* answered, and its answer.
CallStates == [kind   : Kinds,
               phase  : {"QUEUED", "ADMITTED", "ANSWERED"},
               id     : Xvps,
               buyer  : Entities \cup {NoEntity},
               from   : Aliases \cup {NoAlias},
               caller : Entities \cup {NoEntity},
               amount : Amounts \cup {0},
               n      : Agreements \cup {0},
               status : Statuses \cup {"NONE"},
               key    : Keys \cup {NoKey}]

NotSent == [kind |-> "NONE", phase |-> "UNSENT"]

Transactions == [type : {"XVP"}, amount : Amounts, debited : Aliases,
                 credited : Aliases, ref : Agreements]

TypeOK ==
    /\ wallet \in WalletMaps
    /\ xvp \in [Xvps -> Records]
    /\ transactions \in Seq(Transactions)
    /\ terms \in Seq(Terms) /\ Len(terms) <= MaxInits
    /\ clock \in 0 .. MaxTime
    /\ call \in [Calls -> CallStates \cup {NotSent}]
    /\ queue \in [Xvps -> Seq(Calls)]

Init ==
    /\ wallet = InitialWallets
    /\ xvp = [id \in Xvps |-> NoRecord]
    /\ transactions = <<>>
    /\ terms = <<>>
    /\ clock = 0
    /\ call = [c \in Calls |-> NotSent]
    /\ queue = [id \in Xvps |-> <<>>]

-----------------------------------------------------------------------------
\* init: no lock, and no look at what the id already holds.

Register(id, amount, buyer, seller, timeout) ==
    /\ Len(terms) < MaxInits
    /\ ReuseIds \/ \A n \in DOMAIN terms : terms[n].id # id
    /\ terms' = Append(terms, [id |-> id, amount |-> amount, buyer |-> buyer,
                               seller |-> seller, deadline |-> clock + timeout])
    /\ xvp' = [xvp EXCEPT ![id] = [n |-> Len(terms) + 1, status |-> "INITIALIZED",
                                   attempted |-> FALSE, payer |-> NoAlias]]
    /\ UNCHANGED <<transactions, clock, call, queue>>

\* POST igw/xvps: the seller's wallet has to exist.
InitCashToken(id, amount, buyer, seller, timeout) ==
    /\ HasWallet(wallet, seller)
    /\ Register(id, amount, buyer, seller, timeout)
    /\ UNCHANGED wallet

\* POST igw/direct-rtgs/xvps: an unknown seller wallet is opened for the seller.
InitDirectRtgs(id, amount, buyer, seller, sellerBic, manager, timeout) ==
    /\ wallet' = IF HasWallet(wallet, seller)
                   THEN wallet
                   ELSE CreateDcw(wallet, seller, sellerBic, manager, "VALID")
    /\ Register(id, amount, buyer, seller, timeout)

-----------------------------------------------------------------------------
\* The lock: a call takes its place when it arrives, and runs at the head.

Request(kind, id, buyer, from, caller, amount) ==
    [kind |-> kind, phase |-> "QUEUED", id |-> id, buyer |-> buyer, from |-> from,
     caller |-> caller, amount |-> amount, n |-> 0, status |-> "NONE", key |-> NoKey]

Arrive(c, request) ==
    /\ call[c] = NotSent
    /\ call' = [call EXCEPT ![c] = request]
    /\ queue' = [queue EXCEPT ![request.id] = Append(@, c)]
    /\ UNCHANGED <<wallet, xvp, transactions, terms, clock>>

AtHead(c) == queue[call[c].id] # <<>> /\ Head(queue[call[c].id]) = c

\* Mutant: nobody waits for the lock.
StartsAtOnce(c) == call[c].phase = "QUEUED"

Starts(c) == call[c].phase = "QUEUED" /\ AtHead(c)

\* The lock is released whether the call succeeds or throws.
Release(c) == queue' = [queue EXCEPT ![call[c].id] = Tail(@)]

\* Mutant: a call that throws keeps the lock.
AnswerInLock(c, n, status, key) ==
    /\ call' = [call EXCEPT ![c].phase = "ANSWERED", ![c].n = n,
                            ![c].status = status, ![c].key = key]
    /\ IF status = "REFUSED" THEN UNCHANGED queue ELSE Release(c)

Answer(c, n, status, key) ==
    /\ call' = [call EXCEPT ![c].phase = "ANSWERED", ![c].n = n,
                            ![c].status = status, ![c].key = key]
    /\ Release(c)

\* Mutant: the deadline overrides a settled status.
ObservedAlways(r) ==
    IF r # NoRecord /\ terms[r.n].deadline < clock
      THEN [r EXCEPT !.status = "EXPIRED"]
      ELSE r

\* The record after maybeExpire: a deadline strictly in the past expires it.
Observed(r) ==
    IF r.status = "INITIALIZED" /\ terms[r.n].deadline < clock
      THEN [r EXCEPT !.status = "EXPIRED"]
      ELSE r

Found(c) == xvp[call[c].id]

-----------------------------------------------------------------------------
\* Queries.

SendQuery(c, kind, id) ==
    Arrive(c, Request(kind, id, NoEntity, NoAlias, NoEntity, 0))

\* What GET payment reports of a record, and the key it discloses.
PaymentStatus(r) ==
    CASE r.status = "SETTLED"     -> "SETTLED"
      [] r.status = "INITIALIZED" -> "PENDING"
      [] OTHER                    -> IF r.attempted THEN "UNSETTLED" ELSE "BURNED"

Disclosed(kind, r) ==
    CASE kind = "QUERY_EXECUTION" /\ PaymentStatus(r) = "SETTLED" ->
             <<"EXECUTION", r.n>>
      [] kind = "QUERY_CANCELLATION" /\ PaymentStatus(r) \in {"UNSETTLED", "BURNED"} ->
             <<"CANCELLATION", r.n>>
      [] OTHER -> NoKey

\* GET xvps/{id} shows neither status nor key, but it too observes the expiry.
AnswerQuery(c) ==
    LET r == Observed(Found(c))
    IN  /\ call[c].kind # "PAYMENT"
        /\ Starts(c)
        /\ xvp' = [xvp EXCEPT ![call[c].id] = r]
        /\ IF r = NoRecord
             THEN Answer(c, 0, "NOT_FOUND", NoKey)
             ELSE Answer(c, r.n,
                         IF call[c].kind = "GET" THEN "NONE" ELSE PaymentStatus(r),
                         Disclosed(call[c].kind, r))
        /\ UNCHANGED <<wallet, transactions, terms, clock>>

-----------------------------------------------------------------------------
\* Payment.

\* POST igw/xvps/{id}/payment: the buyer's wallet is resolved before the lock is
\* asked for, by the BIC in the body; the caller comes from the JWT.
SendPayment(c, id, buyer, from, caller, amount) ==
    /\ HasWallet(wallet, from)
    /\ wallet[from].owner = buyer
    /\ Arrive(c, Request("PAYMENT", id, buyer, from, caller, amount))

\* Mutants: whoever names a wallet of theirs pays; a settled agreement is paid again.
AdmissibleForAll(c) ==
    /\ Found(c) # NoRecord
    /\ Observed(Found(c)).status = "INITIALIZED"
    /\ call[c].amount = terms[Found(c).n].amount

AdmissibleAgain(c) ==
    /\ Found(c) # NoRecord
    /\ call[c].buyer = terms[Found(c).n].buyer
    /\ call[c].amount = terms[Found(c).n].amount

Admissible(c) ==
    /\ Found(c) # NoRecord
    /\ Observed(Found(c)).status = "INITIALIZED"
    /\ call[c].buyer = terms[Found(c).n].buyer
    /\ call[c].amount = terms[Found(c).n].amount

\* Admitted: the lock is kept across the await.
Admit(c) ==
    /\ call[c].kind = "PAYMENT"
    /\ Starts(c)
    /\ Admissible(c)
    /\ call' = [call EXCEPT ![c].phase = "ADMITTED", ![c].n = Found(c).n]
    /\ UNCHANGED <<wallet, xvp, transactions, terms, clock, queue>>

\* A late, unknown or mismatched payment.
Refuse(c) ==
    /\ call[c].kind = "PAYMENT"
    /\ Starts(c)
    /\ ~ Admissible(c)
    /\ xvp' = [xvp EXCEPT ![call[c].id] = Observed(Found(c))]
    /\ Answer(c, 0, "REFUSED", NoKey)
    /\ UNCHANGED <<wallet, transactions, terms, clock>>

\* Mutants: the attempt is forgotten; SETTLED is written before the cash moves.
MarkedNot(r) == r

MarkedEarly(r) ==
    IF r = NoRecord THEN r ELSE [r EXCEPT !.attempted = TRUE, !.status = "SETTLED"]

\* markPaymentAttempted and updateDraft write to whatever the id holds by now,
\* and to nothing when it holds no record.
Marked(r) == IF r = NoRecord THEN r ELSE [r EXCEPT !.attempted = TRUE]

MarkedSettled(r, from) ==
    IF r = NoRecord
      THEN r
      ELSE [r EXCEPT !.attempted = TRUE, !.status = "SETTLED", !.payer = from]

\* The seller can be credited and the buyer debited, by the admitted terms.
CanSettle(c) ==
    /\ HasWallet(wallet, terms[call[c].n].seller)
    /\ CanDebitAmount(wallet, call[c].from, terms[call[c].n].amount, call[c].caller)

Settle(c) ==
    LET t == terms[call[c].n]
    IN  /\ call[c].phase = "ADMITTED"
        /\ CanSettle(c)
        /\ wallet' = Moved(wallet, call[c].from, t.seller, t.amount)
        /\ xvp' = [xvp EXCEPT ![call[c].id] = MarkedSettled(@, call[c].from)]
        /\ transactions' = Append(transactions,
                                  [type |-> "XVP", amount |-> t.amount,
                                   debited |-> call[c].from,
                                   credited |-> t.seller, ref |-> call[c].n])
        /\ Answer(c, call[c].n, "SETTLED", <<"EXECUTION", call[c].n>>)
        /\ UNCHANGED <<terms, clock>>

\* Rights or funds are missing, or a wallet is gone: the attempt stays on record.
Fail(c) ==
    /\ call[c].phase = "ADMITTED"
    /\ ~ CanSettle(c)
    /\ xvp' = [xvp EXCEPT ![call[c].id] = Marked(@)]
    /\ Answer(c, call[c].n, "REFUSED", NoKey)
    /\ UNCHANGED <<wallet, transactions, terms, clock>>

-----------------------------------------------------------------------------

\* The wall clock goes on, jumps, or is set back.
ClockMoves ==
    /\ clock' \in (0 .. MaxTime) \ {clock}
    /\ UNCHANGED <<wallet, xvp, transactions, terms, call, queue>>

\* POST admin/reset wipes the store; the calls under way are not told.
Reset ==
    /\ wallet' = NoWallets
    /\ xvp' = [id \in Xvps |-> NoRecord]
    /\ transactions' = <<>>
    /\ UNCHANGED <<terms, clock, call, queue>>

NewXvp ==
    \E id \in Xvps, x \in Amounts, b \in Entities, s \in Sellers, t \in Timeouts :
        \/ InitCashToken(id, x, b, s, t)
        \/ \E o \in Entities, m \in NCBs : InitDirectRtgs(id, x, b, s, o, m, t)

NewCall(c) ==
    \/ \E id \in Xvps, k \in Kinds \ {"PAYMENT"} : SendQuery(c, k, id)
    \/ \E id \in Xvps, b \in Entities, w \in Aliases, e \in Entities \cup {NoEntity},
          x \in Amounts : SendPayment(c, id, b, w, e, x)

\* A call that holds the lock, or is next to hold it, goes on.
Progress(c) == AnswerQuery(c) \/ Admit(c) \/ Refuse(c) \/ Settle(c) \/ Fail(c)

Next ==
    \/ NewXvp
    \/ \E c \in Calls : NewCall(c) \/ Progress(c)
    \/ ClockMoves
    \/ Reset

Spec == Init /\ [][Next]_vars

\* The event loop runs the continuation of a call once it is due.
FairSpec == Spec /\ \A c \in Calls : WF_vars(Progress(c))

-----------------------------------------------------------------------------
\* Properties.

Answered(c) == call[c].phase = "ANSWERED"

Known(key) == \E c \in Calls : Answered(c) /\ call[c].key = key

\* The payments that moved the cash of agreement n; their answers outlive a reset.
Payers(n) == {c \in Calls : /\ Answered(c)
                            /\ call[c].kind = "PAYMENT"
                            /\ call[c].n = n
                            /\ call[c].status = "SETTLED"}

\* The two secrets of an agreement never both leave the store, in whatever order
\* payments, queries, expiry, clock changes, new inits and resets come: whoever
\* holds the cancellation key knows that the cash never moved and never will
\* (xvp.ts 119-124, DOMAIN-MODEL 4).
CancellationMeansUnpaid ==
    \A n \in Agreements :
        Known(<<"CANCELLATION", n>>) =>
            /\ ~ Known(<<"EXECUTION", n>>)
            /\ Payers(n) = {}
            /\ \A i \in DOMAIN transactions : transactions[i].ref # n

\* Whoever holds the execution key knows that the cash of that agreement moved,
\* once: when ids are not used twice.
ExecutionMeansPaid ==
    \A n \in Agreements :
        Known(<<"EXECUTION", n>>) => \E c \in Calls : Payers(n) = {c}

\* BURNED is only reported of an agreement no payment was ever admitted for, and
\* UNSETTLED only after one was admitted and failed; a late payment does not
\* count (DOMAIN-MODEL 4, PaymentStatus).
ReportsTellAttempts ==
    \A c \in Calls :
        LET attempts == {d \in Calls : /\ call[d] # NotSent
                                       /\ call[d].kind = "PAYMENT"
                                       /\ call[d].n = call[c].n}
        IN  Answered(c) =>
                /\ call[c].status = "BURNED" => attempts = {}
                /\ call[c].status = "UNSETTLED" =>
                     \E d \in attempts : Answered(d) /\ call[d].status = "REFUSED"

\* A settled agreement has one transaction, for the amount and to the seller it
\* fixed, out of the wallet one payment of its buyer's named, made by the owner of
\* that wallet.  (Whether the wallet is the buyer's is looked at when the payment
\* arrives: after a reset its alias may be another's, whose payment it then is.)
PaidAsAgreed ==
    /\ \A i, j \in DOMAIN transactions : transactions[i].ref = transactions[j].ref => i = j
    /\ \A i \in DOMAIN transactions :
          LET tx == transactions[i]
              t  == terms[tx.ref]
          IN  /\ tx.amount = t.amount
              /\ tx.credited = t.seller
              /\ \E c \in Calls : /\ Payers(tx.ref) = {c}
                                 /\ call[c].buyer = t.buyer
                                 /\ call[c].from = tx.debited
                                 /\ call[c].caller = wallet[tx.debited].owner
              /\ xvp[t.id].n = tx.ref => xvp[t.id].status = "SETTLED"
                                         /\ xvp[t.id].payer = tx.debited

\* SETTLED and EXPIRED are terminal: no later reading of the clock, not even one
\* that moves backwards, and no late payment recomputes them (xvp.ts 237-241).
TerminalStatuses ==
    [][\A id \in Xvps :
          xvp[id].status \in {"SETTLED", "EXPIRED"} =>
              xvp'[id].status = xvp[id].status \/ xvp'[id] = NoRecord]_vars

\* Every call that arrives is answered: a payment that fails releases the lock, and
\* those queued behind it get their turn (xvp-lock.ts 26-34).
EveryCallAnswered ==
    \A c \in Calls : call[c].phase = "QUEUED" ~> Answered(c)

Ledger == INSTANCE CashLedger WITH
              Accounts <- Aliases,
              NoRef    <- 0,
              open     <- {a \in Aliases : HasWallet(wallet, a)},
              balance  <- [a \in Aliases |-> wallet[a].balance],
              posted   <- transactions

\* From the wallets the store began with, cash moves only by recorded payments of
\* agreements, each posted at most once between two resets.
LedgerSteps == [][Ledger!Next]_(Ledger!ledgerVars)
=============================================================================
