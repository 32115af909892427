----------------------------- MODULE PfodProofs -----------------------------
(***************************************************************************)
(* The legs of PFoD and the transactions that settle them, for every set of *)
(* trades, wallets and amounts, every window and any number of submissions. *)
(***************************************************************************)
EXTENDS Pfod, SequenceTheorems, TLAPS

-----------------------------------------------------------------------------
\* The inductive invariant.  Its parts speak of any map of legs, since a
\* submission is stored before the match is tried.

Keys == Trades \X Sides

\* The place of a side in the pair a transaction settled.
Place(side) == IF side = "DELI" THEN 1 ELSE 2

\* A leg is absent or one of the first k submissions, and each submission is one leg.
Numbered(stored, k) ==
    /\ \A l \in Keys : \/ stored[l] = NoLeg
                       \/ /\ stored[l].n \in 1 .. k
                          /\ stored[l].status # "ABSENT"
                          /\ stored[l].amount \in Amounts
    /\ \A l, m \in Keys : stored[l].n = stored[m].n => stored[l] = NoLeg \/ l = m

\* Only submissions that were made are settled.
RefsMade == \A i \in DOMAIN transactions : \A p \in 1 .. 2 : transactions[i].ref[p] \in 1 .. legs

\* No transaction settled a leg that still waits for its match.
PendingUnpaid(stored) ==
    \A t \in Trades, s \in Sides :
        stored[<<t, s>>].status = "PENDING_MATCH" =>
            \A i \in DOMAIN transactions : transactions[i].ref[Place(s)] # stored[<<t, s>>].n

\* A settled receipt has its transaction.
SettledPaid(stored) ==
    \A t \in Trades :
        stored[<<t, "RECE">>].status = "SETTLED" =>
            \E i \in DOMAIN transactions : transactions[i].ref[2] = stored[<<t, "RECE">>].n

\* The transaction that settled the receipt a trade holds says what the receipt says.
PaidByReceipt(stored) ==
    \A t \in Trades : \A i \in DOMAIN transactions :
        transactions[i].ref[2] = stored[<<t, "RECE">>].n =>
            /\ transactions[i].trade = t
            /\ transactions[i].amount = stored[<<t, "RECE">>].amount
            /\ transactions[i].debited = stored[<<t, "RECE">>].wallet

\* A settled delivery was settled with the receipt its trade holds.
Together(stored) ==
    \A t \in Trades :
        stored[<<t, "DELI">>].status = "SETTLED" =>
            /\ stored[<<t, "RECE">>].status = "SETTLED"
            /\ \E i \in DOMAIN transactions :
                  transactions[i].ref = <<stored[<<t, "DELI">>].n, stored[<<t, "RECE">>].n>>

LegsAgree(stored) ==
    PendingUnpaid(stored) /\ SettledPaid(stored) /\ PaidByReceipt(stored) /\ Together(stored)

IInv == TypeOK /\ RefsMade /\ LegsPayOnce /\ Numbered(leg, legs) /\ LegsAgree(leg)

-----------------------------------------------------------------------------
\* Storing a leg, and marking what has expired.

LEMMA KeysTyped ==
    ASSUME NEW t \in Trades, NEW s \in Sides
    PROVE  <<t, s>> \in Keys
BY DEF Keys

\* A stored leg is new: what the map says of the others stays true.
LEMMA StoredAgrees ==
    ASSUME IInv, legs < MaxLegs, NEW trade \in Trades, NEW side \in Sides,
           NEW amount \in Amounts, NEW w \in Aliases,
           side = "RECE" => leg[<<trade, "DELI">>].status = "PENDING_MATCH"
    PROVE  /\ Stored(trade, side, amount, w) \in [Keys -> LegRecords]
           /\ Numbered(Stored(trade, side, amount, w), legs + 1)
           /\ LegsAgree(Stored(trade, side, amount, w))
           /\ Stored(trade, side, amount, w)[<<trade, "DELI">>].status = "PENDING_MATCH"
<1> DEFINE here == <<trade, side>>
           new == NewLeg(amount, w)
           stored == Stored(trade, side, amount, w)
<1>1. here \in Keys /\ leg \in [Keys -> LegRecords] /\ legs \in Nat /\ MaxLegs \in Nat
  BY PfodAssumption DEF Keys, IInv, TypeOK
<1>2. /\ new \in LegRecords /\ new # NoLeg
      /\ new.n = legs + 1 /\ new.status = "PENDING_MATCH" /\ new.amount = amount
  <2>1. clock + Window \in 0 .. MaxTime + Window /\ legs + 1 \in 0 .. MaxLegs
    BY <1>1, PfodAssumption DEF IInv, TypeOK
  <2> QED
    BY <1>1, <2>1 DEF NewLeg, LegRecords, NoLeg
<1>3. stored = [leg EXCEPT ![here] = new]
  BY DEF Stored
<1> HIDE DEF new, stored
<1>4. /\ stored \in [Keys -> LegRecords]
      /\ stored[here] = new /\ \A l \in Keys : l # here => stored[l] = leg[l]
  BY <1>1, <1>2, <1>3
<1>5. \A l \in Keys : \/ leg[l] = NoLeg
                    \/ /\ leg[l].n \in 1 .. legs
                       /\ leg[l].status # "ABSENT"
                       /\ leg[l].amount \in Amounts
  BY DEF IInv, Numbered
<1>6. \A i \in DOMAIN transactions : \A p \in 1 .. 2 : transactions[i].ref[p] # new.n
  BY <1>1, <1>2 DEF IInv, RefsMade
<1>7. \A l \in Keys : leg[l].n # new.n
  BY <1>1, <1>2, <1>5 DEF NoLeg
<1>8. Numbered(stored, legs + 1)
  <2>1. ASSUME NEW l \in Keys
        PROVE  \/ stored[l] = NoLeg
               \/ /\ stored[l].n \in 1 .. legs + 1
                  /\ stored[l].status # "ABSENT"
                  /\ stored[l].amount \in Amounts
    BY <1>1, <1>2, <1>4, <1>5, l = here \/ l # here
  <2>2. ASSUME NEW l \in Keys, NEW m \in Keys, stored[l].n = stored[m].n
        PROVE  stored[l] = NoLeg \/ l = m
    <3>1. leg[l].n = leg[m].n => leg[l] = NoLeg \/ l = m
      BY DEF IInv, Numbered
    <3> QED
      BY <1>4, <1>7, <2>2, <3>1
  <2> QED
    BY <2>1, <2>2 DEF Numbered
<1>9. stored[<<trade, "DELI">>].status = "PENDING_MATCH"
  <2>1. <<trade, "DELI">> \in Keys
    BY DEF Keys, Sides
  <2>2. CASE side = "DELI"
    BY <1>2, <1>4, <2>2
  <2>3. CASE side # "DELI"
    <3>1. side = "RECE" /\ <<trade, "DELI">> # here
      BY <2>3 DEF Sides
    <3> QED
      BY <1>4, <2>1, <3>1
  <2> QED
    BY <2>2, <2>3
<1>10. PendingUnpaid(stored)
  <2> SUFFICES ASSUME NEW t \in Trades, NEW s \in Sides,
                      stored[<<t, s>>].status = "PENDING_MATCH",
                      NEW i \in DOMAIN transactions
               PROVE  transactions[i].ref[Place(s)] # stored[<<t, s>>].n
    BY DEF PendingUnpaid
  <2>1. <<t, s>> \in Keys /\ Place(s) \in 1 .. 2
    BY KeysTyped DEF Place
  <2>2. <<t, s>> # here => leg[<<t, s>>].status = "PENDING_MATCH" /\ stored[<<t, s>>] = leg[<<t, s>>]
    BY <1>4, <2>1
  <2>3. <<t, s>> # here => transactions[i].ref[Place(s)] # leg[<<t, s>>].n
    BY <2>2 DEF IInv, LegsAgree, PendingUnpaid
  <2> QED
    BY <1>4, <1>6, <2>1, <2>2, <2>3
<1>11. \A t \in Trades : <<t, "RECE">> \in Keys /\ <<t, "DELI">> \in Keys
  BY DEF Keys, Sides
<1>12. SettledPaid(stored)
  <2> SUFFICES ASSUME NEW t \in Trades, stored[<<t, "RECE">>].status = "SETTLED"
               PROVE  \E i \in DOMAIN transactions : transactions[i].ref[2] = stored[<<t, "RECE">>].n
    BY DEF SettledPaid
  <2>1. <<t, "RECE">> # here
    BY <1>2, <1>4
  <2> QED
    BY <1>4, <1>11, <2>1 DEF IInv, LegsAgree, SettledPaid
<1>13. PaidByReceipt(stored)
  <2> SUFFICES ASSUME NEW t \in Trades, NEW i \in DOMAIN transactions,
                      transactions[i].ref[2] = stored[<<t, "RECE">>].n
               PROVE  /\ transactions[i].trade = t
                      /\ transactions[i].amount = stored[<<t, "RECE">>].amount
                      /\ transactions[i].debited = stored[<<t, "RECE">>].wallet
    BY DEF PaidByReceipt
  <2>1. <<t, "RECE">> # here
    BY <1>4, <1>6
  <2>2. stored[<<t, "RECE">>] = leg[<<t, "RECE">>]
    BY <1>4, <1>11, <2>1
  <2> QED
    BY <2>2 DEF IInv, LegsAgree, PaidByReceipt
<1>14. Together(stored)
  <2> SUFFICES ASSUME NEW t \in Trades, stored[<<t, "DELI">>].status = "SETTLED"
               PROVE  /\ stored[<<t, "RECE">>].status = "SETTLED"
                      /\ \E i \in DOMAIN transactions :
                            transactions[i].ref = <<stored[<<t, "DELI">>].n,
                                                    stored[<<t, "RECE">>].n>>
    BY DEF Together
  <2>1. t # trade
    BY <1>9
  <2>2. stored[<<t, "DELI">>] = leg[<<t, "DELI">>] /\ stored[<<t, "RECE">>] = leg[<<t, "RECE">>]
    BY <1>4, <1>11, <2>1
  <2> QED
    BY <2>2 DEF IInv, LegsAgree, Together
<1> QED
  BY <1>4, <1>8, <1>9, <1>10, <1>12, <1>13, <1>14 DEF LegsAgree, stored

\* Marking what has expired changes the status of legs, to EXPIRED only, and never
\* under a trade whose delivery waits for its match.
LEMMA MarkedAgrees ==
    ASSUME TypeOK, NEW stored \in [Keys -> LegRecords], NEW trade \in Trades, NEW k,
           Numbered(stored, k), LegsAgree(stored),
           stored[<<trade, "DELI">>].status = "PENDING_MATCH"
    PROVE  /\ MarkExpired(stored, trade) \in [Keys -> LegRecords]
           /\ Numbered(MarkExpired(stored, trade), k)
           /\ LegsAgree(MarkExpired(stored, trade))
<1> DEFINE marked == MarkExpired(stored, trade)
<1>1. CASE marked = stored
  BY <1>1
<1>2. CASE marked # stored
  <2>1. /\ \A s \in Sides : stored[<<trade, s>>] # NoLeg
        /\ marked = [l \in Keys |-> IF l[1] = trade /\ IsExpired(stored[l])
                                      THEN [stored[l] EXCEPT !.status = "EXPIRED"]
                                      ELSE stored[l]]
    BY <1>2 DEF MarkExpired
  <2>2. \A l \in Keys : l[1] = trade => stored[l] # NoLeg
    BY <2>1 DEF Keys
  <2>3. \A l \in Keys : /\ stored[l] \in LegRecords
                        /\ [stored[l] EXCEPT !.status = "EXPIRED"] \in LegRecords
                        /\ [stored[l] EXCEPT !.status = "EXPIRED"].n = stored[l].n
                        /\ [stored[l] EXCEPT !.status = "EXPIRED"].status = "EXPIRED"
                        /\ [stored[l] EXCEPT !.status = "EXPIRED"].amount = stored[l].amount
                        /\ [stored[l] EXCEPT !.status = "EXPIRED"].wallet = stored[l].wallet
    BY DEF LegRecords
  <2>4. \A l \in Keys : /\ marked[l] \in LegRecords
                        /\ marked[l].n = stored[l].n
                        /\ marked[l].amount = stored[l].amount
                        /\ marked[l].wallet = stored[l].wallet
                        /\ marked[l] = stored[l]
                           \/ (l[1] = trade /\ marked[l].status = "EXPIRED" /\ stored[l] # NoLeg)
    BY <2>1, <2>2, <2>3
  <2>5. marked \in [Keys -> LegRecords]
    BY <2>1, <2>4
  <2> HIDE DEF marked
  <2>6. Numbered(marked, k)
    BY <2>4 DEF Numbered
  <2>7. \A t \in Trades, s \in Sides : <<t, s>> \in Keys /\ <<t, s>>[1] = t
    BY DEF Keys
  <2>8. \A t \in Trades : <<t, "RECE">> \in Keys /\ <<t, "DELI">> \in Keys
    BY DEF Keys, Sides
  <2>9. PendingUnpaid(marked)
    BY <2>4, <2>7 DEF PendingUnpaid, LegsAgree
  <2>10. SettledPaid(marked)
    <3> SUFFICES ASSUME NEW t \in Trades, marked[<<t, "RECE">>].status = "SETTLED"
                 PROVE  \E i \in DOMAIN transactions :
                            transactions[i].ref[2] = marked[<<t, "RECE">>].n
      BY DEF SettledPaid
    <3>1. stored[<<t, "RECE">>].status = "SETTLED"
      BY <2>4, <2>8
    <3>2. \E i \in DOMAIN transactions :
              transactions[i].ref[2] = stored[<<t, "RECE">>].n
      BY <3>1 DEF SettledPaid, LegsAgree
    <3> QED
      BY <2>4, <2>8, <3>2
  <2>11. PaidByReceipt(marked)
    <3> SUFFICES ASSUME NEW t \in Trades, NEW i \in DOMAIN transactions,
                        transactions[i].ref[2] = marked[<<t, "RECE">>].n
                 PROVE  /\ transactions[i].trade = t
                        /\ transactions[i].amount = marked[<<t, "RECE">>].amount
                        /\ transactions[i].debited = marked[<<t, "RECE">>].wallet
      BY DEF PaidByReceipt
    <3>1. transactions[i].ref[2] = stored[<<t, "RECE">>].n
      BY <2>4, <2>8
    <3>2. /\ transactions[i].trade = t
          /\ transactions[i].amount = stored[<<t, "RECE">>].amount
          /\ transactions[i].debited = stored[<<t, "RECE">>].wallet
      BY <3>1 DEF LegsAgree, PaidByReceipt
    <3> QED
      BY <2>4, <2>8, <3>2
  <2>12. Together(marked)
    <3> SUFFICES ASSUME NEW t \in Trades, marked[<<t, "DELI">>].status = "SETTLED"
                 PROVE  marked[<<t, "DELI">>] = stored[<<t, "DELI">>]
                        /\ marked[<<t, "RECE">>] = stored[<<t, "RECE">>]
      BY DEF Together, LegsAgree
    <3>1. marked[<<t, "DELI">>] = stored[<<t, "DELI">>]
      BY <2>4, <2>8
    <3>2. t # trade
      BY <3>1
    <3>3. <<t, "RECE">>[1] = t
      OBVIOUS
    <3> QED
      BY <2>4, <2>8, <3>1, <3>2, <3>3
  <2> QED
    BY <2>5, <2>6, <2>9, <2>10, <2>11, <2>12 DEF LegsAgree, marked
<1> QED
  BY <1>1, <1>2

-----------------------------------------------------------------------------
\* The steps.

\* A transfer between two wallets leaves the wallets what they were.
LEMMA MovedTyped ==
    ASSUME NEW w \in WalletMaps, NEW a \in Aliases, NEW b \in Aliases,
           NEW x \in Nat, x <= w[a].balance
    PROVE  Moved(w, a, b, x) \in WalletMaps
<1> DEFINE between == Debited(w, a, x)
<1>1. w[a].balance \in Nat
  BY DEF WalletMaps, Dcws
<1>2. between \in WalletMaps
  BY <1>1 DEF Debited, WalletMaps, Dcws
<1>3. Moved(w, a, b, x) = Credited(between, b, x)
  BY DEF Moved
<1> HIDE DEF between
<1>4. between \in [Aliases -> Dcws] /\ between[b] \in Dcws
  BY <1>2 DEF WalletMaps
<1>5. [between[b] EXCEPT !.balance = @ + x] \in Dcws
  BY <1>4 DEF Dcws
<1>6. [between EXCEPT ![b].balance = @ + x] \in [Aliases -> Dcws]
  BY <1>4, <1>5
<1> QED
  BY <1>3, <1>6 DEF Credited, WalletMaps


\* A submission is stored, and matched or not; a match settles two legs nobody has
\* settled before, with each other.
LEMMA SubmitIInv ==
    ASSUME IInv, NEW trade \in Trades, NEW side \in Sides,
           NEW amount \in Amounts, NEW w \in Aliases, Submit(trade, side, amount, w),
           side = "RECE" => leg[<<trade, "DELI">>].status = "PENDING_MATCH"
    PROVE  IInv'
<1> DEFINE stored == Stored(trade, side, amount, w)
           deli == stored[<<trade, "DELI">>]
           rece == stored[<<trade, "RECE">>]
           tx == [type |-> "PFOD", trade |-> trade, amount |-> deli.amount,
                  debited |-> rece.wallet, credited |-> deli.wallet, ref |-> <<deli.n, rece.n>>]
<1>1. /\ legs < MaxLegs /\ legs' = legs + 1 /\ UNCHANGED clock
      /\ Settles(stored, trade) \/ Waits(stored, trade)
  BY DEF Submit
<1>2. /\ stored \in [Keys -> LegRecords]
      /\ Numbered(stored, legs + 1)
      /\ LegsAgree(stored)
      /\ deli.status = "PENDING_MATCH"
  BY <1>1, StoredAgrees
<1>3. /\ \A t \in Trades : <<t, "RECE">> \in Keys /\ <<t, "DELI">> \in Keys
      /\ \A t \in Trades, s \in Sides : <<t, s>> \in Keys /\ <<t, s>>[1] = t
      /\ legs \in Nat /\ MaxLegs \in Nat
  BY PfodAssumption DEF Keys, Sides, IInv, TypeOK
<1>4. legs' \in 0 .. MaxLegs /\ clock' \in 0 .. MaxTime
  BY <1>1, <1>3 DEF IInv, TypeOK
<1> HIDE DEF stored
<1>5. CASE Waits(stored, trade)
  <2>1. leg' = MarkExpired(stored, trade) /\ UNCHANGED <<wallet, transactions>>
    BY <1>5 DEF Waits
  <2>2. leg' \in [Keys -> LegRecords] /\ Numbered(leg', legs + 1) /\ LegsAgree(leg')
    BY <1>2, <2>1, MarkedAgrees DEF IInv
  <2>3. TypeOK'
    BY <1>4, <2>1, <2>2 DEF IInv, TypeOK, Keys
  <2>4. RefsMade' /\ LegsPayOnce'
    BY <1>1, <1>3, <2>1 DEF IInv, RefsMade, LegsPayOnce
  <2>5. Numbered(leg, legs)'
    BY <1>1, <2>2 DEF Numbered
  <2>6. LegsAgree(leg)'
    <3>1. PendingUnpaid(leg)' /\ SettledPaid(leg)'
      BY <2>1, <2>2 DEF LegsAgree, PendingUnpaid, SettledPaid
    <3>2. PaidByReceipt(leg)' /\ Together(leg)'
      BY <2>1, <2>2 DEF LegsAgree, PaidByReceipt, Together
    <3> QED
      BY <3>1, <3>2 DEF LegsAgree
  <2> QED
    BY <2>3, <2>4, <2>5, <2>6 DEF IInv
<1>6. CASE Settles(stored, trade)
  <2>1. /\ rece.status = "PENDING_MATCH" /\ deli.status = "PENDING_MATCH"
        /\ deli # NoLeg /\ rece # NoLeg /\ deli.amount = rece.amount
    BY <1>6 DEF Settles, Matches, Present, Sides
  <2>2. /\ deli \in LegRecords /\ rece \in LegRecords
        /\ deli.n \in 1 .. legs + 1 /\ rece.n \in 1 .. legs + 1
        /\ deli.amount \in Amounts
    BY <1>2, <1>3, <2>1 DEF Numbered
  <2>3. /\ wallet' = Moved(wallet, rece.wallet, deli.wallet, deli.amount)
        /\ transactions' = Append(transactions, tx)
        /\ leg' = [l \in Keys |->
                      IF l[1] = trade THEN [stored[l] EXCEPT !.status = "SETTLED"]
                                      ELSE stored[l]]
    BY <1>2, <1>6 DEF Settles, Payer, Payee
  <2>4. /\ rece.wallet \in Aliases /\ deli.wallet \in Aliases
        /\ deli.amount <= wallet[rece.wallet].balance
    BY <1>6 DEF Settles, Payable, HasWallet, CanDebitAmount, Payer, Payee
  <2>5. wallet' \in WalletMaps
    BY <2>2, <2>3, <2>4, MovedTyped, PfodAssumption DEF IInv, TypeOK
  <2>6. tx \in Transactions /\ tx.ref = <<deli.n, rece.n>>
    BY <1>1, <1>3, <2>2, <2>4 DEF Transactions
  <2>7. /\ transactions' \in Seq(Transactions)
        /\ \A i \in DOMAIN transactions' :
              \/ transactions'[i] = tx /\ i = Len(transactions) + 1
              \/ i \in DOMAIN transactions /\ transactions'[i] = transactions[i]
        /\ \A i \in DOMAIN transactions :
              i \in DOMAIN transactions' /\ transactions'[i] = transactions[i]
        /\ \E i \in DOMAIN transactions' : transactions'[i] = tx
    <3>1. transactions \in Seq(Transactions)
      BY DEF IInv, TypeOK
    <3> HIDE DEF tx
    <3>2. /\ Append(transactions, tx) \in Seq(Transactions)
          /\ Len(Append(transactions, tx)) = Len(transactions) + 1
          /\ \A i \in 1 .. Len(transactions) : Append(transactions, tx)[i] = transactions[i]
          /\ Append(transactions, tx)[Len(transactions) + 1] = tx
      BY <2>6, <3>1, AppendProperties
    <3>3. DOMAIN transactions' = 1 .. Len(transactions) + 1 /\ Len(transactions) \in Nat
          /\ DOMAIN transactions = 1 .. Len(transactions)
      BY <2>3, <3>1, <3>2, LenProperties
    <3>4. \A i \in DOMAIN transactions' :
              \/ transactions'[i] = tx /\ i = Len(transactions) + 1
              \/ i \in DOMAIN transactions /\ transactions'[i] = transactions[i]
      <4>1. \A i \in DOMAIN transactions' : i \in DOMAIN transactions \/ i = Len(transactions) + 1
        BY <3>3
      <4> QED
        BY <2>3, <3>2, <3>3, <4>1
    <3>5. /\ \A i \in DOMAIN transactions :
                 i \in DOMAIN transactions' /\ transactions'[i] = transactions[i]
          /\ Len(transactions) + 1 \in DOMAIN transactions'
          /\ transactions'[Len(transactions) + 1] = tx
      <4>1. \A i \in DOMAIN transactions : i \in DOMAIN transactions'
        BY <3>3
      <4> QED
        BY <2>3, <3>2, <3>3, <4>1
    <3> QED
      BY <2>3, <3>2, <3>4, <3>5
  <2>8. \A l \in Keys : l[1] = trade => stored[l] # NoLeg
    BY <1>3, <2>1 DEF Keys, Sides
  <2>9. \A l \in Keys : /\ leg'[l] \in LegRecords
                        /\ leg'[l].n = stored[l].n
                        /\ leg'[l].amount = stored[l].amount
                        /\ leg'[l].wallet = stored[l].wallet
                        /\ l[1] = trade => leg'[l].status = "SETTLED" /\ stored[l] # NoLeg
                        /\ l[1] # trade => leg'[l] = stored[l]
    <3>1. \A l \in Keys : /\ stored[l] \in LegRecords
                          /\ [stored[l] EXCEPT !.status = "SETTLED"] \in LegRecords
                          /\ [stored[l] EXCEPT !.status = "SETTLED"].n = stored[l].n
                          /\ [stored[l] EXCEPT !.status = "SETTLED"].status = "SETTLED"
                          /\ [stored[l] EXCEPT !.status = "SETTLED"].amount = stored[l].amount
                          /\ [stored[l] EXCEPT !.status = "SETTLED"].wallet = stored[l].wallet
      BY <1>2 DEF LegRecords
    <3> QED
      BY <2>3, <2>8, <3>1
  <2>10. leg' \in [Keys -> LegRecords]
    BY <2>3, <2>9
  <2>11. /\ \A i \in DOMAIN transactions : transactions[i].ref[1] # deli.n
         /\ \A i \in DOMAIN transactions : transactions[i].ref[2] # rece.n
    BY <1>2, <2>1 DEF LegsAgree, PendingUnpaid, Place, Sides
  <2>12. \A l \in Keys : /\ stored[l].n = deli.n => stored[l] = NoLeg \/ l = <<trade, "DELI">>
                         /\ stored[l].n = rece.n => stored[l] = NoLeg \/ l = <<trade, "RECE">>
    BY <1>2, <1>3 DEF Numbered
  <2>13. tx.ref[1] = deli.n /\ tx.ref[2] = rece.n /\ tx.trade = trade
         /\ tx.amount = rece.amount /\ tx.debited = rece.wallet
    BY <2>1
  <2>22. \A t \in Trades : /\ leg'[<<t, "RECE">>].n = stored[<<t, "RECE">>].n
                            /\ leg'[<<t, "RECE">>].amount = stored[<<t, "RECE">>].amount
                            /\ leg'[<<t, "RECE">>].wallet = stored[<<t, "RECE">>].wallet
                            /\ leg'[<<t, "DELI">>].n = stored[<<t, "DELI">>].n
    BY <1>3, <2>9
  <2> HIDE DEF tx, deli, rece
  <2>14. TypeOK'
    BY <1>4, <2>5, <2>7, <2>10 DEF TypeOK, Keys
  <2>15. RefsMade'
    <3>1. \A p \in 1 .. 2 : tx.ref[p] \in 1 .. legs + 1
      BY <2>2, <2>13
    <3>2. \A i \in DOMAIN transactions : \A p \in 1 .. 2 :
             transactions[i].ref[p] \in 1 .. legs + 1
      BY <1>3 DEF IInv, RefsMade
    <3> QED
      BY <1>1, <2>7, <3>1, <3>2 DEF RefsMade
  <2>16. LegsPayOnce'
    <3> SUFFICES ASSUME NEW i \in DOMAIN transactions', NEW j \in DOMAIN transactions',
                        NEW p \in 1 .. 2,
                        transactions'[i].ref[p] = transactions'[j].ref[p]
                 PROVE  i = j
      BY DEF LegsPayOnce
    <3>1. p = 1 \/ p = 2
      OBVIOUS
    <3>2. \A q \in DOMAIN transactions : transactions[q].ref[p] # tx.ref[p]
      BY <2>11, <2>13, <3>1
    <3>3. \A q, r \in DOMAIN transactions :
             transactions[q].ref[p] = transactions[r].ref[p] => q = r
      BY DEF IInv, LegsPayOnce
    <3> QED
      BY <2>7, <3>2, <3>3
  <2>17. Numbered(leg, legs)'
    <3>1. ASSUME NEW l \in Keys
          PROVE  \/ leg'[l] = NoLeg
                 \/ leg'[l].n \in 1 .. legs' /\ leg'[l].status # "ABSENT"
                    /\ leg'[l].amount \in Amounts
      BY <1>1, <1>2, <2>9 DEF Numbered
    <3>2. ASSUME NEW l \in Keys, NEW m \in Keys, leg'[l].n = leg'[m].n
          PROVE  leg'[l] = NoLeg \/ l = m
      BY <1>2, <2>9, <3>2 DEF Numbered
    <3> QED
      BY <3>1, <3>2 DEF Numbered
  <2>18. PendingUnpaid(leg)'
    <3> SUFFICES ASSUME NEW t \in Trades, NEW s \in Sides,
                        leg'[<<t, s>>].status = "PENDING_MATCH",
                        NEW i \in DOMAIN transactions'
                 PROVE  transactions'[i].ref[Place(s)] # leg'[<<t, s>>].n
      BY DEF PendingUnpaid
    <3>1. /\ leg'[<<t, s>>] = stored[<<t, s>>] /\ stored[<<t, s>>] # NoLeg
          /\ t # trade
      BY <1>3, <2>9 DEF NoLeg
    <3>2. i \in DOMAIN transactions => transactions[i].ref[Place(s)] # stored[<<t, s>>].n
      BY <1>2, <3>1 DEF LegsAgree, PendingUnpaid
    <3>3. tx.ref[Place(s)] # stored[<<t, s>>].n
      <4>1. <<t, s>> # <<trade, "DELI">> /\ <<t, s>> # <<trade, "RECE">>
        BY <3>1
      <4> QED
        BY <1>3, <2>12, <2>13, <3>1, <4>1 DEF Place
    <3> QED
      BY <2>7, <3>1, <3>2, <3>3
  <2>19. SettledPaid(leg)'
    <3> SUFFICES ASSUME NEW t \in Trades, leg'[<<t, "RECE">>].status = "SETTLED"
                 PROVE  \E i \in DOMAIN transactions' :
                            transactions'[i].ref[2] = stored[<<t, "RECE">>].n
      BY <2>22 DEF SettledPaid
    <3>1. CASE t = trade
      BY <2>7, <2>13, <3>1 DEF rece
    <3>2. CASE t # trade
      <4>1. stored[<<t, "RECE">>].status = "SETTLED"
        BY <1>3, <2>9, <3>2
      <4> QED
        BY <1>2, <2>7, <4>1 DEF LegsAgree, SettledPaid
    <3> QED
      BY <3>1, <3>2
  <2>20. PaidByReceipt(leg)'
    <3> SUFFICES ASSUME NEW t \in Trades, NEW i \in DOMAIN transactions',
                        transactions'[i].ref[2] = leg'[<<t, "RECE">>].n
                 PROVE  /\ transactions'[i].trade = t
                        /\ transactions'[i].amount = leg'[<<t, "RECE">>].amount
                        /\ transactions'[i].debited = leg'[<<t, "RECE">>].wallet
      BY DEF PaidByReceipt
    <3> SUFFICES /\ transactions'[i].trade = t
                 /\ transactions'[i].amount = stored[<<t, "RECE">>].amount
                 /\ transactions'[i].debited = stored[<<t, "RECE">>].wallet
      BY <2>22
    <3>3. transactions'[i].ref[2] = stored[<<t, "RECE">>].n
      BY <2>22
    <3>1. CASE i \in DOMAIN transactions /\ transactions'[i] = transactions[i]
      BY <1>2, <3>1, <3>3 DEF LegsAgree, PaidByReceipt
    <3>2. CASE transactions'[i] = tx
      <4>1. rece.n = stored[<<t, "RECE">>].n
        BY <2>13, <3>2, <3>3
      <4>2. t = trade
        <5>1. rece = NoLeg \/ <<trade, "RECE">> = <<t, "RECE">>
          BY <1>2, <1>3, <4>1 DEF Numbered, rece
        <5> QED
          BY <2>1, <5>1
      <4> QED
        BY <2>13, <3>2, <4>2 DEF rece
    <3> QED
      BY <2>7, <3>1, <3>2
  <2>21. Together(leg)'
    <3> SUFFICES ASSUME NEW t \in Trades, leg'[<<t, "DELI">>].status = "SETTLED"
                 PROVE  /\ leg'[<<t, "RECE">>].status = "SETTLED"
                        /\ \E i \in DOMAIN transactions' :
                              transactions'[i].ref = <<stored[<<t, "DELI">>].n,
                                                       stored[<<t, "RECE">>].n>>
      BY <2>22 DEF Together
    <3>1. CASE t = trade
      BY <1>3, <2>6, <2>7, <2>9, <3>1 DEF rece, deli
    <3>2. CASE t # trade
      <4>1. stored[<<t, "DELI">>] = leg'[<<t, "DELI">>] /\ stored[<<t, "RECE">>] = leg'[<<t, "RECE">>]
        BY <1>3, <2>9, <3>2
      <4> QED
        BY <1>2, <2>7, <4>1 DEF LegsAgree, Together
    <3> QED
      BY <3>1, <3>2
  <2> QED
    BY <2>14, <2>15, <2>16, <2>17, <2>18, <2>19, <2>20, <2>21 DEF IInv, LegsAgree
<1> QED
  BY <1>1, <1>5, <1>6

\* No leg and no transaction, as at the start and after a reset.
Empty ==
    /\ wallet \in WalletMaps
    /\ leg = [l \in Trades \X Sides |-> NoLeg]
    /\ transactions = <<>>
    /\ legs \in 0 .. MaxLegs
    /\ clock \in 0 .. MaxTime

LEMMA EmptyIInv == Empty => IInv
<1> SUFFICES ASSUME Empty PROVE IInv
  OBVIOUS
<1>1. \A l \in Keys : leg[l] = NoLeg
  BY DEF Empty, Keys
<1>2. NoLeg \in LegRecords /\ NoLeg.status = "ABSENT"
  BY PfodAssumption DEF NoLeg, LegRecords
<1>3. TypeOK
  BY <1>2 DEF Empty, TypeOK
<1>4. RefsMade /\ LegsPayOnce
  BY DEF Empty, RefsMade, LegsPayOnce
<1>5. Numbered(leg, legs)
  BY <1>1 DEF Numbered
<1>6. \A t \in Trades, s \in Sides : leg[<<t, s>>].status = "ABSENT"
  BY <1>1, <1>2, KeysTyped
<1>7. PendingUnpaid(leg)
  BY <1>6 DEF PendingUnpaid
<1>8. SettledPaid(leg) /\ Together(leg)
  BY <1>6 DEF SettledPaid, Together, Sides
<1>9. PaidByReceipt(leg)
  BY DEF Empty, PaidByReceipt
<1> QED
  BY <1>3, <1>4, <1>5, <1>7, <1>8, <1>9 DEF IInv, LegsAgree

LEMMA InitIInv == Init => IInv
BY EmptyIInv, PfodAssumption DEF Init, Empty

LEMMA ResetIInv == IInv /\ Reset => IInv'
<1>1. IInv /\ Reset => Empty'
  BY DEF Reset, Empty, IInv, TypeOK, NoWallets, NoDcw, WalletMaps, Dcws, Validities
<1> QED
  BY <1>1, EmptyIInv, PTL

\* The reading of the clock is in no part of the invariant but its type.
LEMMA SameIInv ==
    ASSUME IInv, UNCHANGED <<wallet, leg, transactions, legs>>, clock' \in 0 .. MaxTime
    PROVE  IInv'
<1>1. TypeOK'
  BY DEF IInv, TypeOK
<1>2. RefsMade' /\ LegsPayOnce'
  BY DEF IInv, RefsMade, LegsPayOnce
<1>3. Numbered(leg, legs)'
  BY DEF IInv, Numbered
<1>4. PendingUnpaid(leg)' /\ SettledPaid(leg)'
  BY DEF IInv, LegsAgree, PendingUnpaid, SettledPaid
<1>5. PaidByReceipt(leg)' /\ Together(leg)'
  BY DEF IInv, LegsAgree, PaidByReceipt, Together
<1> QED
  BY <1>1, <1>2, <1>3, <1>4, <1>5 DEF IInv, LegsAgree

LEMMA NextIInv == IInv /\ [Next]_vars => IInv'
<1> SUFFICES ASSUME IInv, [Next]_vars PROVE IInv'
  OBVIOUS
<1>1. ASSUME NEW t \in Trades, NEW x \in Amounts, NEW w \in Aliases, Deliver(t, x, w)
      PROVE  IInv'
  BY <1>1, SubmitIInv DEF Deliver, Sides
<1>2. ASSUME NEW t \in Trades, NEW x \in Amounts, NEW w \in Aliases, Receive(t, x, w)
      PROVE  IInv'
  BY <1>2, SubmitIInv DEF Receive, Sides
<1>3. CASE ClockMoves
  BY <1>3, SameIInv DEF ClockMoves
<1>4. CASE Reset
  BY <1>4, ResetIInv
<1>5. CASE UNCHANGED vars
  BY <1>5, SameIInv DEF vars, IInv, TypeOK
<1> QED
  BY <1>1, <1>2, <1>3, <1>4, <1>5 DEF Next

-----------------------------------------------------------------------------
\* The ledger: only the settlement of a pair and the reset concern it.

LedgerStep == [Ledger!Next]_(Ledger!ledgerVars)

\* The balances as the ledger sees them.
Balances == [a \in Aliases |-> wallet[a].balance]

\* What a transfer does to the wallets and their balances.
LEMMA BalancesMove ==
    ASSUME wallet \in WalletMaps, NEW a \in Aliases, NEW b \in Aliases, NEW x \in Nat,
           wallet' = Moved(wallet, a, b, x)
    PROVE  /\ \A c \in Aliases : wallet'[c].owner = wallet[c].owner
           /\ \A c \in Aliases : c # a /\ c # b => wallet'[c].balance = wallet[c].balance
           /\ Balances' = [[Balances EXCEPT ![a] = @ - x] EXCEPT ![b] = @ + x]
<1> DEFINE between == Debited(wallet, a, x)
<1>1. wallet \in [Aliases -> Dcws] /\ Balances = [c \in Aliases |-> wallet[c].balance]
  BY DEF WalletMaps, Balances
<1>2. Balances' = [c \in Aliases |-> wallet'[c].balance]
  BY DEF Balances
<1>3. /\ DOMAIN between = Aliases
      /\ \A c \in Aliases :
            /\ between[c] = [wallet[c] EXCEPT !.balance = between[c].balance]
            /\ between[c].owner = wallet[c].owner
            /\ between[c].balance = [Balances EXCEPT ![a] = @ - x][c]
  BY <1>1 DEF Debited, Dcws
<1>4. wallet' = [between EXCEPT ![b] = [between[b] EXCEPT !.balance = between[b].balance + x]]
  BY DEF Moved, Credited
<1> HIDE DEF between
<1>5. \A c \in Aliases :
          /\ wallet'[c].owner = wallet[c].owner
          /\ wallet'[c].balance = IF c = b THEN between[c].balance + x ELSE between[c].balance
  BY <1>1, <1>3, <1>4 DEF Dcws
<1>6. Balances' = [[Balances EXCEPT ![a] = @ - x] EXCEPT ![b] = @ + x]
  BY <1>1, <1>2, <1>3, <1>5
<1>7. ASSUME NEW c \in Aliases, c # a, c # b PROVE wallet'[c].balance = wallet[c].balance
  BY <1>1, <1>3, <1>5, <1>7
<1> QED
  BY <1>5, <1>6, <1>7

\* What is appended comes last.
LEMMA LastOfAppend ==
    ASSUME NEW S, NEW seq \in Seq(S), NEW e \in S
    PROVE  LET longer == Append(seq, e)
           IN  longer # <<>> /\ longer[Len(longer)] = e
<1>1. /\ Append(seq, e) \in Seq(S) /\ Len(Append(seq, e)) = Len(seq) + 1
      /\ Append(seq, e)[Len(seq) + 1] = e
  BY AppendProperties
<1>2. Len(seq) \in Nat /\ Append(seq, e) # <<>>
  BY <1>1, LenProperties, AppendProperties
<1> QED
  BY <1>1, <1>2

\* A recorded payment, covered and moving exactly its amount, is a posting.
LEMMA PostStep ==
    ASSUME TypeOK, NEW tx \in Transactions,
           transactions' = Append(transactions, tx),
           \A a \in Aliases : wallet'[a].owner = wallet[a].owner,
           HasWallet(wallet, tx.debited), tx.amount <= wallet[tx.debited].balance,
           HasWallet(wallet, tx.credited),
           \A i \in DOMAIN transactions : transactions[i].ref # tx.ref,
           Balances' = [[Balances EXCEPT ![tx.debited] = @ - tx.amount]
                                  EXCEPT ![tx.credited] = @ + tx.amount]
    PROVE  LedgerStep
<1>1. {a \in Aliases : HasWallet(wallet, a)}' = {a \in Aliases : HasWallet(wallet, a)}
  BY DEF HasWallet
<1>2. transactions' # <<>> /\ transactions'[Len(transactions')] = tx
  <2>1. transactions \in Seq(Transactions)
    BY DEF TypeOK
  <2>2. LET longer == Append(transactions, tx)
        IN  longer # <<>> /\ longer[Len(longer)] = tx
    BY <2>1, LastOfAppend
  <2> QED
    BY <2>2
<1>3. Ledger!Debits(tx) /\ Ledger!Credits(tx)
  BY DEF Transactions, Ledger!Debits, Ledger!Credits
<1>4. Ledger!Covered(tx)
  BY DEF Ledger!Covered, HasWallet
<1>5. tx.credited \in {a \in Aliases : HasWallet(wallet, a)}
  BY DEF HasWallet
<1>6. Ledger!NotPostedYet(tx.ref)
  BY DEF Ledger!NotPostedYet
<1>7. Balances' = Ledger!AfterCredit(Ledger!AfterDebit(Balances, tx), tx)
  BY <1>3 DEF Ledger!AfterCredit, Ledger!AfterDebit
<1>8. Ledger!Post(transactions'[Len(transactions')])
  BY <1>1, <1>2, <1>4, <1>5, <1>6, <1>7 DEF Ledger!Post, Balances
<1> QED
  BY <1>2, <1>8 DEF LedgerStep, Ledger!Next

\* A pair that is settled is new to the ledger: its delivery waited for a match, so no
\* transaction names it.
LEMMA SubmitLedger ==
    ASSUME IInv, NEW trade \in Trades, NEW side \in Sides,
           NEW amount \in Amounts, NEW w \in Aliases, Submit(trade, side, amount, w),
           side = "RECE" => leg[<<trade, "DELI">>].status = "PENDING_MATCH"
    PROVE  LedgerStep
<1> DEFINE stored == Stored(trade, side, amount, w)
           deli == stored[<<trade, "DELI">>]
           rece == stored[<<trade, "RECE">>]
           tx == [type |-> "PFOD", trade |-> trade, amount |-> deli.amount,
                  debited |-> rece.wallet, credited |-> deli.wallet, ref |-> <<deli.n, rece.n>>]
<1>1. /\ legs < MaxLegs
      /\ Settles(stored, trade) \/ Waits(stored, trade)
  BY DEF Submit
<1>2. /\ stored \in [Keys -> LegRecords]
      /\ Numbered(stored, legs + 1)
      /\ LegsAgree(stored)
      /\ deli.status = "PENDING_MATCH"
  BY <1>1, StoredAgrees
<1>3. /\ <<trade, "DELI">> \in Keys /\ <<trade, "RECE">> \in Keys
      /\ legs \in Nat /\ MaxLegs \in Nat
  BY PfodAssumption DEF Keys, Sides, IInv, TypeOK
<1> HIDE DEF stored
<1>4. CASE Waits(stored, trade)
  BY <1>4 DEF Waits, LedgerStep, Ledger!ledgerVars
<1>5. CASE Settles(stored, trade)
  <2>1. /\ deli # NoLeg /\ rece # NoLeg
        /\ HasWallet(wallet, deli.wallet) /\ HasWallet(wallet, rece.wallet)
        /\ deli.amount <= wallet[rece.wallet].balance
        /\ wallet' = Moved(wallet, rece.wallet, deli.wallet, deli.amount)
        /\ transactions' = Append(transactions, tx)
    BY <1>5 DEF Settles, Matches, Present, Sides, Payable, Payer, Payee, CanDebitAmount
  <2>2. /\ deli.n \in 1 .. MaxLegs /\ rece.n \in 1 .. MaxLegs
        /\ deli.amount \in Amounts /\ deli.amount \in Nat
    <3>1. /\ deli.n \in 1 .. legs + 1 /\ rece.n \in 1 .. legs + 1
          /\ deli.amount \in Amounts
      BY <1>2, <1>3, <2>1 DEF Numbered
    <3>2. 1 .. legs + 1 \subseteq 1 .. MaxLegs
      BY <1>1, <1>3
    <3>3. Amounts \subseteq Nat
      BY PfodAssumption
    <3> HIDE DEF deli, rece
    <3> QED
      BY <3>1, <3>2, <3>3
  <2>3. \A i \in DOMAIN transactions : transactions[i].ref[1] # deli.n
    BY <1>2 DEF LegsAgree, PendingUnpaid, Place, Sides
  <2> HIDE DEF deli, rece
  <2>4. /\ tx \in Transactions
        /\ tx.amount = deli.amount /\ tx.debited = rece.wallet
        /\ tx.credited = deli.wallet /\ tx.ref[1] = deli.n
    BY <2>1, <2>2 DEF Transactions, HasWallet
  <2>5. /\ \A a \in Aliases : wallet'[a].owner = wallet[a].owner
        /\ Balances' = [[Balances EXCEPT ![rece.wallet] = @ - deli.amount]
                                  EXCEPT ![deli.wallet] = @ + deli.amount]
    <3>1. wallet \in WalletMaps /\ rece.wallet \in Aliases /\ deli.wallet \in Aliases
      BY <2>1 DEF HasWallet, IInv, TypeOK
    <3> QED
      BY <2>1, <2>2, <3>1, BalancesMove
  <2> HIDE DEF tx
  <2>6. \A i \in DOMAIN transactions : transactions[i].ref # tx.ref
    BY <2>3, <2>4
  <2> QED
    BY <2>1, <2>4, <2>5, <2>6, PostStep DEF IInv
<1> QED
  BY <1>1, <1>4, <1>5

LEMMA ResetLedger == ASSUME Reset PROVE Ledger!Reset
<1>1. /\ wallet' = NoWallets /\ transactions' = <<>>
      /\ \A a \in Aliases : ~ HasWallet(wallet', a) /\ wallet'[a].balance = 0
  BY DEF Reset, NoWallets, NoDcw, HasWallet
<1>2. {a \in Aliases : HasWallet(wallet, a)}' = {}
  BY <1>1 DEF HasWallet
<1>3. [a \in Aliases |-> wallet[a].balance]' = [a \in Aliases |-> 0]
  BY <1>1
<1> QED
  BY <1>1, <1>2, <1>3 DEF Ledger!Reset

LEMMA NextLedger == ASSUME IInv, [Next]_vars PROVE LedgerStep
<1>1. CASE \E t \in Trades, x \in Amounts, w \in Aliases : Deliver(t, x, w) \/ Receive(t, x, w)
  BY <1>1, SubmitLedger DEF Deliver, Receive, Sides
<1>2. CASE ClockMoves \/ UNCHANGED vars
  BY <1>2 DEF ClockMoves, vars, LedgerStep, Ledger!ledgerVars
<1>3. CASE Reset
  BY <1>3, ResetLedger DEF LedgerStep, Ledger!Next
<1> QED
  BY <1>1, <1>2, <1>3 DEF Next

-----------------------------------------------------------------------------
\* Theorems.

\* The invariant holds in every behaviour.
THEOREM Invariance == Spec => []IInv
BY InitIInv, NextIInv, PTL DEF Spec

\* Wallets, legs and transactions keep their types.
THEOREM TypeCorrectness == Spec => []TypeOK
<1>1. IInv => TypeOK
  BY DEF IInv
<1> QED
  BY <1>1, Invariance, PTL

\* No leg takes part in two settlements, however often it is submitted again
\* (tryMatch, settlePfod).
THEOREM PaysOnce == Spec => []LegsPayOnce
<1>1. IInv => LegsPayOnce
  BY DEF IInv
<1> QED
  BY <1>1, Invariance, PTL

\* A stored receipt is settled exactly by the transaction that names it.
THEOREM ReceiptsArePaid == Spec => []ReceiptsMatchPayments
<1>1. IInv => ReceiptsMatchPayments
  <2> SUFFICES ASSUME IInv, NEW t \in Trades
               PROVE  LET r == leg[<<t, "RECE">>]
                          paid == {i \in DOMAIN transactions : transactions[i].ref[2] = r.n}
                      IN  /\ r.status = "SETTLED" => paid # {}
                          /\ r.status \in {"ABSENT", "PENDING_MATCH"} => paid = {}
                          /\ \A i \in paid : /\ transactions[i].trade = t
                                             /\ transactions[i].amount = r.amount
                                             /\ transactions[i].debited = r.wallet
    BY DEF ReceiptsMatchPayments
  <2>1. <<t, "RECE">> \in Keys
    BY DEF Keys, Sides
  <2>2. leg[<<t, "RECE">>].status = "ABSENT" => leg[<<t, "RECE">>].n = 0
    BY <2>1 DEF IInv, Numbered, NoLeg
  <2>3. \A i \in DOMAIN transactions : transactions[i].ref[2] # 0
    BY DEF IInv, RefsMade
  <2>4. leg[<<t, "RECE">>].status = "PENDING_MATCH" =>
           \A i \in DOMAIN transactions : transactions[i].ref[2] # leg[<<t, "RECE">>].n
    BY DEF IInv, LegsAgree, PendingUnpaid, Place, Sides
  <2> QED
    BY <2>2, <2>3, <2>4 DEF IInv, LegsAgree, SettledPaid, PaidByReceipt
<1> QED
  BY <1>1, Invariance, PTL

\* A delivery is settled together with the receipt its trade holds, or not at all.
THEOREM SettledAsPairs == Spec => []SettledTogether
<1>1. IInv => SettledTogether
  BY DEF IInv, LegsAgree, Together, SettledTogether
<1> QED
  BY <1>1, Invariance, PTL

\* An expired leg is settled by no submission but its own replacement.
LEMMA ExpiredStep ==
    ASSUME IInv, [Next]_vars, NEW t \in Trades, NEW s \in Sides,
           leg[<<t, s>>].status = "EXPIRED"
    PROVE  \/ leg'[<<t, s>>].status # "SETTLED"
           \/ leg'[<<t, s>>].n # leg[<<t, s>>].n
<1> DEFINE l == <<t, s>>
<1>1. /\ l \in Keys /\ l[1] = t
      /\ leg \in [Keys -> LegRecords] /\ legs \in Nat
      /\ leg[l] # NoLeg /\ leg[l].n \in 1 .. legs
  BY DEF Keys, IInv, TypeOK, Numbered, NoLeg
<1>2. ASSUME NEW trade \in Trades, NEW side \in Sides, NEW amount \in Amounts,
             NEW w \in Aliases, Submit(trade, side, amount, w),
             side = "RECE" => leg[<<trade, "DELI">>].status = "PENDING_MATCH"
      PROVE  leg'[l].status # "SETTLED" \/ leg'[l].n # leg[l].n
  <2> DEFINE stored == Stored(trade, side, amount, w)
  <2>1. legs < MaxLegs /\ (Settles(stored, trade) \/ Waits(stored, trade))
    BY <1>2 DEF Submit
  <2>2. stored \in [Keys -> LegRecords]
    BY <1>2, <2>1, StoredAgrees
  <2>3. IF l = <<trade, side>> THEN stored[l].n = legs + 1 ELSE stored[l] = leg[l]
    BY <1>1 DEF Stored, NewLeg
  <2> HIDE DEF stored
  <2>4. stored[l] = leg[l] \/ stored[l].n # leg[l].n
    BY <1>1, <2>3
  <2>5. CASE Waits(stored, trade)
    <3>1. leg' = MarkExpired(stored, trade)
      BY <2>5 DEF Waits
    <3>2. /\ [stored[l] EXCEPT !.status = "EXPIRED"].status = "EXPIRED"
          /\ [stored[l] EXCEPT !.status = "EXPIRED"].n = stored[l].n
      BY <1>1, <2>2 DEF LegRecords
    <3>3. leg'[l] = stored[l] \/ leg'[l] = [stored[l] EXCEPT !.status = "EXPIRED"]
      BY <1>1, <2>2, <3>1 DEF MarkExpired
    <3>4. leg'[l].n = stored[l].n /\ (leg'[l] = stored[l] \/ leg'[l].status = "EXPIRED")
      BY <3>2, <3>3
    <3> QED
      BY <2>4, <3>4
  <2>6. CASE Settles(stored, trade)
    <3>1. /\ \A other \in Sides : stored[<<trade, other>>].status = "PENDING_MATCH"
          /\ leg' = [m \in Keys |-> IF m[1] = trade
                                      THEN [stored[m] EXCEPT !.status = "SETTLED"]
                                      ELSE stored[m]]
      BY <2>2, <2>6 DEF Settles, Matches
    <3>2. [stored[l] EXCEPT !.status = "SETTLED"].n = stored[l].n
      BY <1>1, <2>2 DEF LegRecords
    <3>3. CASE t = trade
      <4>1. leg'[l].n = stored[l].n /\ stored[l].status = "PENDING_MATCH"
        BY <1>1, <3>1, <3>2, <3>3
      <4> QED
        BY <2>4, <4>1
    <3>4. CASE t # trade
      <4>1. leg'[l] = stored[l]
        BY <1>1, <3>1, <3>4
      <4> QED
        BY <2>4, <4>1
    <3> QED
      BY <3>3, <3>4
  <2> QED
    BY <2>1, <2>5, <2>6
<1>3. CASE \E u \in Trades, x \in Amounts, w \in Aliases : Deliver(u, x, w) \/ Receive(u, x, w)
  BY <1>2, <1>3 DEF Deliver, Receive, Sides
<1>4. CASE ClockMoves \/ UNCHANGED vars
  BY <1>4 DEF ClockMoves, vars
<1>5. CASE Reset
  <2>1. leg'[l] = NoLeg
    BY <1>1, <1>5 DEF Reset, Keys
  <2> QED
    BY <2>1 DEF NoLeg
<1> QED
  BY <1>3, <1>4, <1>5 DEF Next

\* A leg marked EXPIRED is not paid until it is submitted again, whatever the clock
\* does (isExpired is looked at, and the mark written, before the status).
THEOREM ExpiredIsUnpaid == Spec => ExpiredStaysUnpaid
<1>1. IInv /\ [Next]_vars =>
         [\A t \in Trades, s \in Sides :
             leg[<<t, s>>].status = "EXPIRED" =>
                 \/ leg'[<<t, s>>].status # "SETTLED"
                 \/ leg'[<<t, s>>].n # leg[<<t, s>>].n]_vars
  BY ExpiredStep
<1> QED
  BY <1>1, Invariance, PTL DEF Spec, ExpiredStaysUnpaid

\* Every step is one of the ledger: cash moves only by the recorded payment of a pair
\* of legs that had none (settlePfod), and only the reset takes it back.
THEOREM LedgerRefinement == Spec => LedgerSteps
<1>1. IInv /\ [Next]_vars => LedgerStep
  BY NextLedger
<1> QED
  BY <1>1, Invariance, PTL DEF Spec, LedgerStep, LedgerSteps
=============================================================================
