------------------------ MODULE SettlementLedgerProofs ------------------------
(***************************************************************************)
(* Settlement and CashLedger, for every set of wallets, users and amounts.  *)
(* Every step of the workflows is one of the ledger but for one kind: a     *)
(* debit that commits before its credit throws.  Cash may therefore be lost *)
(* but is never created, and when every request names the wallet it credits *)
(* Settlement implements CashLedger, the transactions account for each      *)
(* balance exactly, and the cash in all wallets is what was issued.         *)
(***************************************************************************)
EXTENDS SettlementProofs, Integers, FiniteSetTheorems, WellFoundedInduction

\* What the wallet aliases of a request have to be for conservation to hold.
NamesCreditedWallet == CreditAliases \subseteq Aliases

\* A wallet that was not created holds nothing.
AbsentWalletsEmpty == \A a \in Aliases : ~ HasWallet(wallet, a) => wallet[a].balance = 0

\* No draft names the empty alias as the wallet it credits.
CreditedNamed ==
    \A id \in DraftIds : draft[id].status # "ABSENT" => draft[id].credited # NoAlias

\* What keeps the steps of Settlement within the ledger's, but for a credit that
\* throws; and what keeps credits from throwing.
WInv == IInv /\ AbsentWalletsEmpty

LInv == WInv /\ CreditedNamed

\* A debit has committed and the credit that should follow it throws.
LosesCredit ==
    \/ \E u \in Users, id \in DraftIds : ApproveLosesCredit(u, id)
    \/ \E u \in Users, d \in DebitAliases, c \in CreditAliases, x \in Amounts :
          ExecuteLosesCredit(u, d, c, x)

\* One step of the ledger, or of no concern to it.
LedgerStep == [Ledger!Next]_(Ledger!ledgerVars)

-----------------------------------------------------------------------------
\* Steps of the ledger.

\* A draft's amount is a natural number.
LEMMA NaturalAmounts == Amounts \cup {0} \subseteq Nat
BY SettlementAssumption

\* A step that opens no wallet, moves no cash and records nothing is a stutter.
LEMMA QuietStep ==
    ASSUME AbsentWalletsEmpty, UNCHANGED transactions,
           \A a \in Aliases : /\ wallet'[a].owner = wallet[a].owner
                              /\ wallet'[a].balance = wallet[a].balance
    PROVE  LedgerStep /\ AbsentWalletsEmpty'
<1>1. /\ {a \in Aliases : HasWallet(wallet, a)}' = {a \in Aliases : HasWallet(wallet, a)}
      /\ [a \in Aliases |-> wallet[a].balance]' = [a \in Aliases |-> wallet[a].balance]
      /\ AbsentWalletsEmpty'
  BY DEF HasWallet, AbsentWalletsEmpty
<1>. QED
  BY <1>1 DEF LedgerStep, Ledger!ledgerVars

\* A new wallet opens an account.
LEMMA OpenStep ==
    ASSUME TypeOK, AbsentWalletsEmpty, UNCHANGED transactions,
           NEW a \in Aliases, NEW o \in Entities, NEW m \in NCBs, NEW v \in Validities,
           ~ HasWallet(wallet, a), wallet' = CreateDcw(wallet, a, o, m, v)
    PROVE  LedgerStep /\ AbsentWalletsEmpty'
<1>1. wallet \in WalletMaps /\ wallet[a].balance = 0
  BY DEF TypeOK, AbsentWalletsEmpty
<1>2. /\ \A b \in Aliases : HasWallet(wallet', b) <=> HasWallet(wallet, b) \/ b = a
      /\ \A b \in Aliases : wallet'[b].balance = wallet[b].balance
  BY <1>1, DcwAssumption DEF CreateDcw, HasWallet, WalletMaps
<1>3. AbsentWalletsEmpty'
  BY <1>2 DEF AbsentWalletsEmpty, HasWallet
<1>4. Ledger!Open(a)
  <2>1. {b \in Aliases : HasWallet(wallet, b)}'
            = {b \in Aliases : HasWallet(wallet, b)} \cup {a}
    BY <1>2 DEF HasWallet
  <2>2. [b \in Aliases |-> wallet[b].balance]' = [b \in Aliases |-> wallet[b].balance]
    BY <1>2
  <2>. QED
    BY <2>1, <2>2 DEF Ledger!Open
<1>. QED
  BY <1>3, <1>4 DEF LedgerStep, Ledger!Next

\* The balances as the ledger sees them.
Balances == [a \in Aliases |-> wallet[a].balance]

\* A recorded transaction, covered and moving exactly its amount, is a posting.
LEMMA PostStep ==
    ASSUME TypeOK, AbsentWalletsEmpty, NEW tx \in Transactions,
           transactions' = Append(transactions, tx),
           \A a \in Aliases : wallet'[a].owner = wallet[a].owner,
           tx.type # "FUNDING" =>
               HasWallet(wallet, tx.debited) /\ tx.amount <= wallet[tx.debited].balance,
           tx.type # "DEFUNDING" => HasWallet(wallet, tx.credited),
           tx.ref = NoRef \/ \A i \in DOMAIN transactions : transactions[i].ref # tx.ref,
           Balances' = Ledger!AfterCredit(Ledger!AfterDebit(Balances, tx), tx)
    PROVE  LedgerStep /\ AbsentWalletsEmpty'
<1>1. {a \in Aliases : HasWallet(wallet, a)}' = {a \in Aliases : HasWallet(wallet, a)}
  BY DEF HasWallet
<1>2. transactions' # <<>> /\ transactions'[Len(transactions')] = tx
  BY DEF TypeOK
<1>3. Ledger!Covered(tx)
  BY DEF Ledger!Covered, Ledger!Debits, HasWallet
<1>4. Ledger!Credits(tx) => tx.credited \in {a \in Aliases : HasWallet(wallet, a)}
  BY DEF Ledger!Credits, HasWallet
<1>5. Ledger!NotPostedYet(tx.ref)
  BY DEF Ledger!NotPostedYet
<1>6. Ledger!Post(transactions'[Len(transactions')])
  BY <1>1, <1>2, <1>3, <1>4, <1>5
  DEF Ledger!Post, Ledger!Covered, Ledger!NotPostedYet, Balances
<1>7. AbsentWalletsEmpty'
  <2>1. SUFFICES ASSUME NEW a \in Aliases, ~ HasWallet(wallet, a)
                 PROVE  wallet'[a].balance = 0
    BY DEF AbsentWalletsEmpty, HasWallet
  <2>2. /\ Ledger!Debits(tx) => a # tx.debited
        /\ Ledger!Credits(tx) => a # tx.credited
    BY <2>1 DEF Ledger!Debits, Ledger!Credits
  <2>3. Ledger!AfterCredit(Ledger!AfterDebit(Balances, tx), tx)[a] = Balances[a]
    BY <2>2 DEF Ledger!AfterCredit, Ledger!AfterDebit, Balances
  <2>4. Balances'[a] = wallet'[a].balance /\ Balances[a] = wallet[a].balance
    BY DEF Balances
  <2>. QED
    BY <2>1, <2>3, <2>4 DEF AbsentWalletsEmpty
<1>. QED
  BY <1>2, <1>6, <1>7 DEF LedgerStep, Ledger!Next

\* What the wallet operations do to the balances.
LEMMA BalancesMove ==
    ASSUME TypeOK, NEW a \in Aliases, NEW x \in Nat
    PROVE  /\ wallet' = Credited(wallet, a, x) =>
                  Balances' = [Balances EXCEPT ![a] = @ + x]
           /\ wallet' = Debited(wallet, a, x) =>
                  Balances' = [Balances EXCEPT ![a] = @ - x]
           /\ \A b \in Aliases : wallet' = Moved(wallet, a, b, x) =>
                  Balances' = [[Balances EXCEPT ![a] = @ - x] EXCEPT ![b] = @ + x]
           /\ \A b \in Aliases : \/ wallet' = Credited(wallet, a, x)
                                 \/ wallet' = Debited(wallet, a, x)
                                 \/ wallet' = Moved(wallet, a, b, x)
                                 => \A c \in Aliases : wallet'[c].owner = wallet[c].owner
<1>1. wallet \in [Aliases -> Dcws] /\ Balances = [c \in Aliases |-> wallet[c].balance]
  BY DEF TypeOK, WalletMaps, Balances
<1>2. Balances' = [c \in Aliases |-> wallet'[c].balance]
  BY DEF Balances
<1>3. ASSUME wallet' = Credited(wallet, a, x)
      PROVE  /\ Balances' = [Balances EXCEPT ![a] = @ + x]
             /\ \A c \in Aliases : wallet'[c].owner = wallet[c].owner
  BY <1>1, <1>2, <1>3 DEF Credited, Dcws
<1>4. ASSUME wallet' = Debited(wallet, a, x)
      PROVE  /\ Balances' = [Balances EXCEPT ![a] = @ - x]
             /\ \A c \in Aliases : wallet'[c].owner = wallet[c].owner
  BY <1>1, <1>2, <1>4 DEF Debited, Dcws
<1>5. ASSUME NEW b \in Aliases, wallet' = Moved(wallet, a, b, x)
      PROVE  /\ Balances' = [[Balances EXCEPT ![a] = @ - x] EXCEPT ![b] = @ + x]
             /\ \A c \in Aliases : wallet'[c].owner = wallet[c].owner
  <2>. DEFINE between == Debited(wallet, a, x)
  <2>1. /\ DOMAIN between = Aliases
        /\ \A c \in Aliases :
              /\ between[c] = [wallet[c] EXCEPT !.balance = between[c].balance]
              /\ between[c].owner = wallet[c].owner
              /\ between[c].balance = [Balances EXCEPT ![a] = @ - x][c]
    BY <1>1 DEF Debited, Dcws
  <2>2. wallet' = [between EXCEPT ![b] = [between[b] EXCEPT !.balance = between[b].balance + x]]
    BY <1>5 DEF Moved, Credited
  <2>. HIDE DEF between
  <2>3. \A c \in Aliases :
            /\ wallet'[c].owner = wallet[c].owner
            /\ wallet'[c].balance = IF c = b THEN between[c].balance + x ELSE between[c].balance
    BY <1>1, <2>1, <2>2 DEF Dcws
  <2>. QED
    BY <1>1, <1>2, <2>1, <2>3
<1>. QED
  BY <1>3, <1>4, <1>5

-----------------------------------------------------------------------------
\* The steps of Settlement.

\* Both invariants hold of the empty store, which is the empty ledger.
LEMMA InitLedger == Init => LInv /\ Ledger!Init
<1>. SUFFICES ASSUME Init PROVE LInv /\ Ledger!Init
  OBVIOUS
<1>1. IInv
  BY InitIInv
<1>2. wallet = [a \in Aliases |-> NoDcw] /\ \A a \in Aliases : ~ HasWallet(wallet, a)
  BY DEF Init, NoWallets, HasWallet, NoDcw
<1>3. AbsentWalletsEmpty
  BY <1>2 DEF AbsentWalletsEmpty, NoDcw
<1>4. CreditedNamed
  BY DEF Init, CreditedNamed, NoDraft
<1>5. Ledger!Init
  BY <1>2 DEF Init, Ledger!Init, NoDcw
<1>. QED
  BY <1>1, <1>3, <1>4, <1>5 DEF LInv, WInv

\* A lost credit records nothing, raises no balance and touches no absent wallet.
LEMMA LostCredit ==
    ASSUME TypeOK, AbsentWalletsEmpty, LosesCredit
    PROVE  /\ AbsentWalletsEmpty'
           /\ UNCHANGED transactions
           /\ \A a \in Aliases : wallet'[a].balance <= wallet[a].balance
           /\ \E d \in Aliases, x \in Nat : \A a \in Aliases :
                  wallet'[a].balance
                      = IF a = d THEN wallet[a].balance - x ELSE wallet[a].balance
<1>1. PICK d \in Aliases, x \in Nat :
          /\ HasWallet(wallet, d)
          /\ x <= wallet[d].balance
          /\ wallet' = Debited(wallet, d, x)
          /\ UNCHANGED transactions
  <2>1. CASE \E u \in Users, id \in DraftIds : ApproveLosesCredit(u, id)
    <3>1. PICK u \in Users, id \in DraftIds : ApproveLosesCredit(u, id)
      BY <2>1
    <3>2. draft[id].amount \in Nat
      <4>1. draft[id] \in Drafts
        BY DEF TypeOK
      <4>. QED
        BY <4>1, NaturalAmounts DEF Drafts
    <3>. QED
      BY <3>1, <3>2 DEF ApproveLosesCredit, CanDebitAmount, CanDebit, HasWallet
  <2>2. CASE \E u \in Users, a \in DebitAliases, c \in CreditAliases, y \in Amounts :
                ExecuteLosesCredit(u, a, c, y)
    BY <2>2, SettlementAssumption
    DEF ExecuteLosesCredit, CanDebitAmount, CanDebit, HasWallet
  <2>. QED
    BY <2>1, <2>2 DEF LosesCredit
<1>2. \A a \in Aliases : /\ wallet[a].balance \in Nat
                         /\ wallet'[a].owner = wallet[a].owner
                         /\ wallet'[a].balance
                                = IF a = d THEN wallet[a].balance - x ELSE wallet[a].balance
  BY <1>1 DEF TypeOK, WalletMaps, Dcws, Debited
<1>3. AbsentWalletsEmpty'
  BY <1>1, <1>2 DEF AbsentWalletsEmpty, HasWallet
<1>4. \A a \in Aliases : wallet'[a].balance <= wallet[a].balance
  BY <1>1, <1>2
<1>5. \E e \in Aliases, y \in Nat : \A a \in Aliases :
          wallet'[a].balance = IF a = e THEN wallet[a].balance - y ELSE wallet[a].balance
  BY <1>1, <1>2
<1>. QED
  BY <1>1, <1>3, <1>4, <1>5

\* A creation opens at most the account a funding request names.
LEMMA CreateLedger ==
    ASSUME WInv, NEW u \in Users, Create(u)
    PROVE  LedgerStep /\ AbsentWalletsEmpty'
<1>1. ASSUME UNCHANGED <<wallet, transactions>> PROVE LedgerStep /\ AbsentWalletsEmpty'
  BY <1>1, QuietStep DEF WInv
<1>2. ASSUME NEW c \in CreditAliases, NEW x \in Amounts, NEW m \in NCBs,
             CreateFunding(u, c, x, m)
      PROVE  LedgerStep /\ AbsentWalletsEmpty'
  <2>1. CASE EntityOf[u] # NoEntity /\ c # NoAlias /\ ~ HasWallet(wallet, c)
    <3>1. c \in Aliases /\ EntityOf[u] \in Entities /\ "VALID" \in Validities
      BY <2>1, SettlementAssumption DEF Validities
    <3>. QED
      BY <1>2, <2>1, <3>1, OpenStep DEF CreateFunding, WInv, IInv
  <2>2. CASE ~ (EntityOf[u] # NoEntity /\ c # NoAlias /\ ~ HasWallet(wallet, c))
    BY <1>1, <1>2, <2>2 DEF CreateFunding
  <2>. QED
    BY <2>1, <2>2
<1>3. CASE \E c \in CreditAliases, x \in Amounts, m \in NCBs : CreateFunding(u, c, x, m)
  BY <1>2, <1>3
<1>4. CASE \E d \in DebitAliases, x \in Amounts : CreateDefunding(u, d, x)
  BY <1>1, <1>4 DEF CreateDefunding
<1>5. CASE \E d \in DebitAliases, c \in CreditAliases, x \in Amounts,
              r \in {"PAYMENT", "OPERATION"}, n \in BOOLEAN : CreateTransfer(u, d, c, x, r, n)
  BY <1>1, <1>5 DEF CreateTransfer
<1>6. CASE \E d \in DebitAliases, c \in CreditAliases, x \in Amounts :
              CreateDirectRtgs(u, d, c, x)
  BY <1>1, <1>6 DEF CreateDirectRtgs
<1>. QED
  BY <1>3, <1>4, <1>5, <1>6 DEF Create

\* An approval posts the transaction it records.
LEMMA TransitionLedger ==
    ASSUME WInv, NEW u \in Users, NEW id \in DraftIds, Transition(u, id)
    PROVE  AbsentWalletsEmpty' /\ (LedgerStep \/ LosesCredit)
<1>. DEFINE from   == draft[id].debited
            to     == draft[id].credited
            amount == draft[id].amount
            tx == [type |-> id[1], amount |-> amount, debited |-> from,
                   credited |-> to, ref |-> id, user |-> u]
<1>1. draft[id] \in Drafts /\ amount \in Amounts \cup {0} /\ id[1] \in TwoStepTypes
  BY DEF WInv, IInv, TypeOK, Drafts, DraftIds
<1>2. amount \in Nat
  BY <1>1, NaturalAmounts
<1>3. ASSUME Pending(id), from \in Aliases \cup {Issuance}, to \in Aliases \cup {Issuance},
             RecordApproval(u, id)
      PROVE  /\ tx \in Transactions
             /\ transactions' = Append(transactions, tx)
             /\ \A i \in DOMAIN transactions : transactions[i].ref # tx.ref
  <2>1. tx \in Transactions /\ transactions' = Append(transactions, tx)
    BY <1>1, <1>3 DEF Transactions, RecordApproval
  <2>2. \A i \in DOMAIN transactions : transactions[i].ref # id
    <3>1. id # NoRef /\ draft[id].status # "SETTLED"
      BY <1>3 DEF DraftIds, NoRef, TwoStepTypes, Pending
    <3>. QED
      BY <3>1, SettledRefs DEF WInv
  <2>. QED
    BY <2>1, <2>2
<1>4. ASSUME ApproveFunding(u, id) PROVE LedgerStep /\ AbsentWalletsEmpty'
  <2>1. /\ id[1] = "FUNDING" /\ from = Issuance
        /\ to \in Aliases /\ HasWallet(wallet, to) /\ Pending(id)
    BY <1>4 DEF WInv, IInv, DraftShape, ApproveFunding, MayApprove, Pending, HasWallet
  <2>2. /\ Balances' = [Balances EXCEPT ![to] = @ + amount]
        /\ \A c \in Aliases : wallet'[c].owner = wallet[c].owner
    BY <1>2, <1>4, <2>1, BalancesMove DEF ApproveFunding, WInv, IInv
  <2>3. Ledger!AfterCredit(Ledger!AfterDebit(Balances, tx), tx)
            = [Balances EXCEPT ![to] = @ + amount]
    BY <2>1 DEF Ledger!AfterCredit, Ledger!AfterDebit, Ledger!Debits, Ledger!Credits
  <2>4. /\ tx \in Transactions
        /\ transactions' = Append(transactions, tx)
        /\ \A i \in DOMAIN transactions : transactions[i].ref # tx.ref
    BY <1>3, <1>4, <2>1 DEF ApproveFunding
  <2>5. tx.type = "FUNDING" /\ tx.credited = to
    BY <2>1
  <2>. HIDE DEF tx
  <2>. QED
    BY <2>1, <2>2, <2>3, <2>4, <2>5, PostStep DEF WInv, IInv
<1>5. ASSUME ApproveDefunding(u, id) PROVE LedgerStep /\ AbsentWalletsEmpty'
  <2>1. id[1] = "DEFUNDING" /\ to = Issuance /\ Pending(id)
    BY <1>5 DEF WInv, IInv, DraftShape, ApproveDefunding, MayApprove, Pending
  <2>2. /\ from \in Aliases /\ HasWallet(wallet, from)
        /\ amount <= wallet[from].balance
    BY <1>5 DEF ApproveDefunding, CanDebitAmount, CanDebit, HasWallet
  <2>3. /\ Balances' = [Balances EXCEPT ![from] = @ - amount]
        /\ \A c \in Aliases : wallet'[c].owner = wallet[c].owner
    BY <1>2, <1>5, <2>2, BalancesMove DEF ApproveDefunding, WInv, IInv
  <2>4. Ledger!AfterCredit(Ledger!AfterDebit(Balances, tx), tx)
            = [Balances EXCEPT ![from] = @ - amount]
    BY <2>1, <2>2 DEF Ledger!AfterCredit, Ledger!AfterDebit, Ledger!Debits, Ledger!Credits
  <2>5. /\ tx \in Transactions
        /\ transactions' = Append(transactions, tx)
        /\ \A i \in DOMAIN transactions : transactions[i].ref # tx.ref
    BY <1>3, <1>5, <2>1, <2>2 DEF ApproveDefunding
  <2>6. tx.type = "DEFUNDING" /\ tx.debited = from /\ tx.amount = amount
    BY <2>1
  <2>. HIDE DEF tx
  <2>. QED
    BY <2>1, <2>2, <2>3, <2>4, <2>5, <2>6, PostStep DEF WInv, IInv
<1>6. ASSUME ApproveMovement(u, id) PROVE LedgerStep /\ AbsentWalletsEmpty'
  <2>1. /\ id[1] \notin {"FUNDING", "DEFUNDING"}
        /\ to \in Aliases /\ HasWallet(wallet, to) /\ Pending(id)
    BY <1>6 DEF ApproveMovement, MovesCash, MayApprove, HasWallet
  <2>2. /\ from \in Aliases /\ HasWallet(wallet, from)
        /\ amount <= wallet[from].balance
    BY <1>6 DEF ApproveMovement, CanDebitAmount, CanDebit, HasWallet
  <2>3. /\ Balances' = [[Balances EXCEPT ![from] = @ - amount] EXCEPT ![to] = @ + amount]
        /\ \A c \in Aliases : wallet'[c].owner = wallet[c].owner
    <3>1. wallet' = Moved(wallet, from, to, amount) /\ TypeOK
      BY <1>6 DEF ApproveMovement, WInv, IInv
    <3>. QED
      BY <1>2, <2>1, <2>2, <3>1, BalancesMove
  <2>4. Ledger!AfterCredit(Ledger!AfterDebit(Balances, tx), tx)
            = [[Balances EXCEPT ![from] = @ - amount] EXCEPT ![to] = @ + amount]
    BY <2>1, <2>2 DEF Ledger!AfterCredit, Ledger!AfterDebit, Ledger!Debits, Ledger!Credits
  <2>5. /\ tx \in Transactions
        /\ transactions' = Append(transactions, tx)
        /\ \A i \in DOMAIN transactions : transactions[i].ref # tx.ref
    BY <1>3, <1>6, <2>1, <2>2 DEF ApproveMovement
  <2>6. tx.debited = from /\ tx.credited = to /\ tx.amount = amount
    OBVIOUS
  <2>. HIDE DEF tx
  <2>. QED
    BY <2>1, <2>2, <2>3, <2>4, <2>5, <2>6, PostStep DEF WInv, IInv
<1>7. ASSUME ApproveLosesCredit(u, id) PROVE AbsentWalletsEmpty' /\ LosesCredit
  <2>1. LosesCredit
    BY <1>7 DEF LosesCredit
  <2>. QED
    BY <2>1, LostCredit DEF WInv, IInv
<1>. QED
  BY <1>4, <1>5, <1>6, <1>7 DEF Transition

\* A one-step settlement posts its transaction.
LEMMA OneStepLedger ==
    ASSUME WInv, NEW u \in Users, OneStep(u)
    PROVE  AbsentWalletsEmpty' /\ (LedgerStep \/ LosesCredit)
<1>1. PICK from \in DebitAliases, to \in CreditAliases, amount \in Amounts :
          \/ \E t \in {"TRANSFER", "DIRECT_RTGS"} : Execute(u, t, from, to, amount)
          \/ ExecuteLosesCredit(u, from, to, amount)
  BY DEF OneStep
<1>2. CASE ExecuteLosesCredit(u, from, to, amount)
  <2>1. LosesCredit
    BY <1>2 DEF LosesCredit
  <2>. QED
    BY <2>1, LostCredit DEF WInv, IInv
<1>. SUFFICES ASSUME \E t \in {"TRANSFER", "DIRECT_RTGS"} : Execute(u, t, from, to, amount)
              PROVE  AbsentWalletsEmpty' /\ (LedgerStep \/ LosesCredit)
  BY <1>1, <1>2
<1>3. PICK t \in {"TRANSFER", "DIRECT_RTGS"} : Execute(u, t, from, to, amount)
  OBVIOUS
<1>. DEFINE tx == [type |-> t, amount |-> amount, debited |-> from,
                   credited |-> to, ref |-> NoRef, user |-> u]
<1>4. amount \in Nat
  BY SettlementAssumption
<1>5. to \in Aliases /\ HasWallet(wallet, to)
  BY <1>3 DEF Execute, HasWallet
<1>6. /\ from \in Aliases /\ HasWallet(wallet, from)
      /\ amount <= wallet[from].balance
  BY <1>3 DEF Execute, CanDebitAmount, CanDebit, HasWallet
<1>7. /\ Balances' = [[Balances EXCEPT ![from] = @ - amount] EXCEPT ![to] = @ + amount]
      /\ \A c \in Aliases : wallet'[c].owner = wallet[c].owner
  BY <1>3, <1>4, <1>5, <1>6, BalancesMove DEF Execute, WInv, IInv
<1>8. Ledger!AfterCredit(Ledger!AfterDebit(Balances, tx), tx)
          = [[Balances EXCEPT ![from] = @ - amount] EXCEPT ![to] = @ + amount]
  BY <1>5, <1>6 DEF Ledger!AfterCredit, Ledger!AfterDebit, Ledger!Debits, Ledger!Credits
<1>9. /\ tx \in Transactions
      /\ transactions' = Append(transactions, tx)
  BY <1>3, <1>5, <1>6 DEF Transactions, TwoStepTypes, Execute, RecordOneStep
<1>10. tx.debited = from /\ tx.credited = to /\ tx.amount = amount /\ tx.ref = NoRef
  OBVIOUS
<1>. HIDE DEF tx
<1>. QED
  BY <1>5, <1>6, <1>7, <1>8, <1>9, <1>10, PostStep DEF WInv, IInv

\* Every step of Settlement is a step of the ledger, a stutter or a lost credit.
LEMMA NextLedger ==
    ASSUME WInv, [Next]_vars
    PROVE  WInv' /\ (LedgerStep \/ LosesCredit)
<1>. SUFFICES AbsentWalletsEmpty' /\ (LedgerStep \/ LosesCredit)
  BY NextIInv DEF WInv
<1>1. CASE \E u \in Users : Create(u)
  BY <1>1, CreateLedger
<1>2. CASE \E u \in Users, id \in DraftIds : Transition(u, id)
  BY <1>2, TransitionLedger
<1>3. CASE \E id \in DraftIds : Cancel(id)
  BY <1>3, QuietStep DEF Cancel, WInv
<1>4. CASE \E u \in Users : OneStep(u)
  BY <1>4, OneStepLedger
<1>5. ASSUME NEW u \in Users, NEW a \in Aliases, NEW m \in NCBs, NEW v \in NewValidities,
             CreateWallet(u, a, m, v)
      PROVE  LedgerStep /\ AbsentWalletsEmpty'
  <2>1. EntityOf[u] \in Entities /\ v \in Validities
    BY <1>5, SettlementAssumption DEF CreateWallet
  <2>. QED
    BY <1>5, <2>1, OpenStep DEF CreateWallet, WInv, IInv
<1>6. CASE \E a \in Aliases, v \in Validities : ValidityChanges(a, v)
  <2>1. /\ UNCHANGED transactions
        /\ \A a \in Aliases : /\ wallet'[a].owner = wallet[a].owner
                              /\ wallet'[a].balance = wallet[a].balance
    BY <1>6 DEF ValidityChanges, WInv, IInv, TypeOK, WalletMaps, Dcws
  <2>. QED
    BY <2>1, QuietStep DEF WInv
<1>7. CASE Reset
  <2>1. wallet' = [a \in Aliases |-> NoDcw]
    BY <1>7 DEF Reset, NoWallets
  <2>2. {a \in Aliases : HasWallet(wallet, a)}' = {} /\ AbsentWalletsEmpty'
    BY <2>1 DEF HasWallet, NoDcw, AbsentWalletsEmpty
  <2>3. [a \in Aliases |-> wallet[a].balance]' = [a \in Aliases |-> 0]
    BY <2>1 DEF NoDcw
  <2>4. Ledger!Reset
    BY <1>7, <2>2, <2>3 DEF Ledger!Reset, Reset
  <2>. QED
    BY <2>2, <2>4 DEF LedgerStep, Ledger!Next
<1>8. CASE UNCHANGED vars
  BY <1>8, QuietStep DEF vars, WInv
<1>. QED
  BY <1>1, <1>2, <1>3, <1>4, <1>5, <1>6, <1>7, <1>8 DEF Next


-----------------------------------------------------------------------------
\* Replaying the transactions.

\* f is the balance of wallet a after each number of the transactions of seq.
IsReplay(f, a, seq) ==
    f = [n \in 0 .. Len(seq) |->
            IF n = 0
              THEN 0
              ELSE f[n - 1] + Gain(seq[n], a) - Loss(seq[n], a)]

\* The replay exists, and every replay bounds the balance from above: that there
\* is only one would take an induction, and is not needed.
Replays ==
    \A a \in Aliases :
        /\ \E f : IsReplay(f, a, transactions)
        /\ \A f : IsReplay(f, a, transactions) =>
              /\ f[Len(transactions)] \in Int
              /\ wallet[a].balance <= f[Len(transactions)]

\* The same with equality, as long as no credit is lost.
ExactReplays ==
    \A a \in Aliases :
        /\ \E f : IsReplay(f, a, transactions)
        /\ \A f : IsReplay(f, a, transactions) => f[Len(transactions)] = wallet[a].balance

\* What Replayed computes is the end of a replay.
LEMMA ReplayedIsReplay ==
    ASSUME NEW a, \E f : IsReplay(f, a, transactions)
    PROVE  \E f : IsReplay(f, a, transactions) /\ Replayed(a) = f[Len(transactions)]
BY DEF IsReplay, Replayed

\* The replays of a longer record extend those of the shorter one.
LEMMA ReplayGrows ==
    ASSUME NEW a, NEW seq \in Seq(Transactions), NEW tx \in Transactions
    PROVE  /\ \A f : IsReplay(f, a, seq) => \E g : IsReplay(g, a, Append(seq, tx))
           /\ \A g : IsReplay(g, a, Append(seq, tx)) =>
                 \E f : /\ IsReplay(f, a, seq)
                       /\ g[Len(Append(seq, tx))]
                              = f[Len(seq)] + Gain(tx, a) - Loss(tx, a)
<1>. DEFINE n == Len(seq)
            longer == Append(seq, tx)
<1>1. /\ n \in Nat
      /\ Len(longer) = n + 1
      /\ longer[n + 1] = tx
      /\ \A i \in 1 .. n : longer[i] = seq[i]
  OBVIOUS
<1>. HIDE DEF longer
<1>2. ASSUME NEW f, IsReplay(f, a, seq) PROVE \E g : IsReplay(g, a, longer)
  <2>. DEFINE g == [i \in 0 .. n + 1 |->
                       IF i = n + 1 THEN f[n] + Gain(tx, a) - Loss(tx, a) ELSE f[i]]
  <2>1. ASSUME NEW i \in 0 .. n + 1
        PROVE  g[i] = IF i = 0
                        THEN 0
                        ELSE g[i - 1] + Gain(longer[i], a) - Loss(longer[i], a)
    <3>1. CASE i = n + 1
      BY <1>1, <3>1
    <3>2. CASE i \in 1 .. n
      <4>1. f[i] = f[i - 1] + Gain(seq[i], a) - Loss(seq[i], a)
        BY <1>1, <1>2, <3>2 DEF IsReplay
      <4>. QED
        BY <1>1, <3>2, <4>1
    <3>3. CASE i = 0
      BY <1>1, <1>2, <3>3 DEF IsReplay
    <3>. QED
      BY <1>1, <3>1, <3>2, <3>3
  <2>2. DOMAIN g = 0 .. Len(longer)
    BY <1>1
  <2>3. g = [i \in 0 .. n + 1 |-> g[i]]
    OBVIOUS
  <2>. HIDE DEF g
  <2>4. g = [i \in 0 .. Len(longer) |->
                IF i = 0
                  THEN 0
                  ELSE g[i - 1] + Gain(longer[i], a) - Loss(longer[i], a)]
    BY <1>1, <2>1, <2>3
  <2>. QED
    BY <2>4 DEF IsReplay
<1>3. ASSUME NEW g, IsReplay(g, a, longer)
      PROVE  \E f : /\ IsReplay(f, a, seq)
                   /\ g[Len(longer)]
                          = f[Len(seq)] + Gain(tx, a) - Loss(tx, a)
  <2>. DEFINE f == [i \in 0 .. n |-> g[i]]
  <2>1. \A i \in 0 .. n + 1 :
            g[i] = IF i = 0
                     THEN 0
                     ELSE g[i - 1] + Gain(longer[i], a) - Loss(longer[i], a)
    BY <1>1, <1>3 DEF IsReplay
  <2>2. ASSUME NEW i \in 0 .. n
        PROVE  f[i] = IF i = 0
                        THEN 0
                        ELSE f[i - 1] + Gain(seq[i], a) - Loss(seq[i], a)
    BY <1>1, <2>1
  <2>3. g[n + 1] = f[n] + Gain(tx, a) - Loss(tx, a)
    BY <1>1, <2>1
  <2>4. f = [i \in 0 .. n |-> f[i]]
    OBVIOUS
  <2>. HIDE DEF f
  <2>5. IsReplay(f, a, seq)
    BY <2>2, <2>4 DEF IsReplay
  <2>. QED
    BY <1>1, <2>3, <2>5
<1>. QED
  BY <1>2, <1>3 DEF longer

\* Without transactions the replay is zero.
LEMMA EmptyReplay ==
    ASSUME NEW a
    PROVE  /\ \E f : IsReplay(f, a, <<>>)
           /\ \A f : IsReplay(f, a, <<>>) => f[Len(<<>>)] = 0
<1>1. Len(<<>>) = 0
  OBVIOUS
<1>2. IsReplay([n \in 0 .. 0 |-> 0], a, <<>>)
  BY <1>1 DEF IsReplay
<1>3. ASSUME NEW f, IsReplay(f, a, <<>>) PROVE f[Len(<<>>)] = 0
  BY <1>1, <1>3 DEF IsReplay
<1>. QED
  BY <1>2, <1>3

\* A step of the ledger moves the balances by the transaction it records, or by
\* nothing, or empties everything.
LEMMA LedgerMoves ==
    ASSUME TypeOK, TypeOK', LedgerStep
    PROVE  \/ /\ UNCHANGED transactions
              /\ \A a \in Aliases : wallet'[a].balance = wallet[a].balance
           \/ \E tx \in Transactions :
                 /\ transactions' = Append(transactions, tx)
                 /\ From(tx) \in Aliases \cup {NoAlias}
                 /\ To(tx) \in Aliases \cup {NoAlias}
                 /\ \A a \in Aliases :
                       wallet'[a].balance = wallet[a].balance + Gain(tx, a) - Loss(tx, a)
           \/ /\ transactions' = <<>>
              /\ \A a \in Aliases : wallet'[a].balance = 0
<1>1. CASE /\ UNCHANGED transactions
           /\ [a \in Aliases |-> wallet[a].balance]' = [a \in Aliases |-> wallet[a].balance]
  <2>1. \A a \in Aliases : [b \in Aliases |-> wallet[b].balance]'[a] = wallet'[a].balance
    OBVIOUS
  <2>2. \A a \in Aliases : wallet'[a].balance = wallet[a].balance
    BY <1>1, <2>1
  <2>. QED
    BY <1>1, <2>2
<1>2. CASE transactions' # <<>> /\ Ledger!Post(transactions'[Len(transactions')])
  <2>. DEFINE tx == transactions'[Len(transactions')]
  <2>1. tx \in Transactions
    BY <1>2 DEF TypeOK
  <2>2. /\ transactions' = Append(transactions, tx)
        /\ Balances' = Ledger!AfterCredit(Ledger!AfterDebit(Balances, tx), tx)
    BY <1>2 DEF Ledger!Post, Balances
  <2>. HIDE DEF tx
  <2>3. /\ tx.amount \in Nat
        /\ Ledger!Debits(tx) => From(tx) = tx.debited
        /\ ~ Ledger!Debits(tx) => From(tx) = NoAlias
        /\ Ledger!Credits(tx) => To(tx) = tx.credited
        /\ ~ Ledger!Credits(tx) => To(tx) = NoAlias
    BY <2>1, NaturalAmounts DEF Transactions, Ledger!Debits, Ledger!Credits, From, To
  <2>4. /\ From(tx) \in Aliases \cup {NoAlias}
        /\ To(tx) \in Aliases \cup {NoAlias}
    BY <1>2, <2>3 DEF Ledger!Post, Ledger!Covered, tx
  <2>5. ASSUME NEW a \in Aliases
        PROVE  wallet'[a].balance = wallet[a].balance + Gain(tx, a) - Loss(tx, a)
    <3>1. /\ Balances'[a] = wallet'[a].balance
          /\ \A b \in Aliases : Balances[b] \in Nat /\ Balances[b] = wallet[b].balance
          /\ DOMAIN Balances = Aliases
          /\ a # NoAlias
      BY DcwAssumption DEF Balances, TypeOK, WalletMaps, Dcws
    <3>. DEFINE between == Ledger!AfterDebit(Balances, tx)
    <3>2. DOMAIN between = Aliases /\ \A b \in Aliases : between[b] = Balances[b] - Loss(tx, b)
      BY <2>3, <3>1, DcwAssumption DEF Ledger!AfterDebit, Loss
    <3>. HIDE DEF between
    <3>3. Ledger!AfterCredit(between, tx)[a] = between[a] + Gain(tx, a)
      BY <2>3, <3>1, <3>2 DEF Ledger!AfterCredit, Gain, Loss
    <3>4. Balances'[a] = Ledger!AfterCredit(between, tx)[a]
      BY <2>2 DEF between
    <3>. QED
      BY <2>3, <3>1, <3>2, <3>3, <3>4 DEF Gain, Loss
  <2>. QED
    BY <2>1, <2>2, <2>4, <2>5
<1>3. CASE Ledger!Reset
  <2>1. /\ transactions' = <<>>
        /\ Balances' = [a \in Aliases |-> 0]
    BY <1>3 DEF Ledger!Reset, Balances
  <2>2. \A a \in Aliases : Balances'[a] = wallet'[a].balance
    BY DEF Balances
  <2>. QED
    BY <2>1, <2>2
<1>4. CASE \E a \in Aliases : Ledger!Open(a)
  BY <1>1, <1>4 DEF Ledger!Open
<1>5. CASE UNCHANGED Ledger!ledgerVars
  BY <1>1, <1>5 DEF Ledger!ledgerVars
<1>. QED
  BY <1>2, <1>3, <1>4, <1>5 DEF LedgerStep, Ledger!Next

\* A step that records nothing and raises no balance keeps the bound.
LEMMA UnrecordedReplays ==
    ASSUME TypeOK, TypeOK', Replays, UNCHANGED transactions,
           \A a \in Aliases : wallet'[a].balance <= wallet[a].balance
    PROVE  Replays'
<1>1. \A a \in Aliases : wallet[a].balance \in Nat /\ wallet'[a].balance \in Nat
  BY DEF TypeOK, WalletMaps, Dcws
<1>. QED
  BY <1>1 DEF Replays

\* The bound survives every step.
LEMMA ReplaysStay ==
    ASSUME WInv, Replays, [Next]_vars
    PROVE  Replays'
<1>1. TypeOK /\ TypeOK' /\ AbsentWalletsEmpty
  BY NextLedger DEF WInv, IInv
<1>2. CASE LosesCredit
  BY <1>1, <1>2, LostCredit, UnrecordedReplays
<1>3. CASE LedgerStep
  <2>0. \A a \in Aliases : wallet[a].balance \in Nat
    BY <1>1 DEF TypeOK, WalletMaps, Dcws
  <2>1. CASE /\ UNCHANGED transactions
             /\ \A a \in Aliases : wallet'[a].balance = wallet[a].balance
    BY <1>1, <2>0, <2>1, UnrecordedReplays
  <2>2. ASSUME NEW tx \in Transactions,
               transactions' = Append(transactions, tx),
               \A a \in Aliases :
                   wallet'[a].balance = wallet[a].balance + Gain(tx, a) - Loss(tx, a)
        PROVE  Replays'
    <3>1. tx.amount \in Nat
      BY NaturalAmounts DEF Transactions
    <3>2. SUFFICES ASSUME NEW a \in Aliases
                   PROVE  /\ \E f : IsReplay(f, a, transactions')
                          /\ \A f : IsReplay(f, a, transactions') =>
                                /\ f[Len(transactions')] \in Int
                                /\ wallet'[a].balance <= f[Len(transactions')]
      BY DEF Replays
    <3>3. \E f : IsReplay(f, a, transactions')
      BY <1>1, <2>2, ReplayGrows DEF Replays, TypeOK
    <3>4. ASSUME NEW g, IsReplay(g, a, transactions')
          PROVE  g[Len(transactions')] \in Int /\ wallet'[a].balance <= g[Len(transactions')]
      <4>1. PICK f : /\ IsReplay(f, a, transactions)
                     /\ g[Len(transactions')]
                            = f[Len(transactions)] + Gain(tx, a) - Loss(tx, a)
        <5>1. transactions \in Seq(Transactions) /\ IsReplay(g, a, Append(transactions, tx))
          BY <1>1, <2>2, <3>4 DEF TypeOK
        <5>. QED
          BY <2>2, <5>1, ReplayGrows
      <4>2. f[Len(transactions)] \in Int /\ wallet[a].balance <= f[Len(transactions)]
        BY <4>1 DEF Replays
      <4>3. Gain(tx, a) \in Nat /\ Loss(tx, a) \in Nat
        BY <3>1 DEF Gain, Loss
      <4>. QED
        BY <2>0, <2>2, <4>1, <4>2, <4>3
    <3>. QED
      BY <3>3, <3>4
  <2>3. CASE transactions' = <<>> /\ \A a \in Aliases : wallet'[a].balance = 0
    BY <2>3, EmptyReplay DEF Replays
  <2>. QED
    BY <1>1, <1>3, <2>1, <2>2, <2>3, LedgerMoves
<1>. QED
  BY <1>2, <1>3, NextLedger

\* Initially there is nothing to replay.
LEMMA InitReplays == Init => Replays
<1>. SUFFICES ASSUME Init PROVE Replays
  OBVIOUS
<1>1. transactions = <<>> /\ \A a \in Aliases : wallet[a].balance = 0
  BY DEF Init, NoWallets, NoDcw
<1>2. \A a \in Aliases : /\ \E f : IsReplay(f, a, transactions)
                         /\ \A f : IsReplay(f, a, transactions) => f[Len(transactions)] = 0
  BY <1>1, EmptyReplay
<1>3. ASSUME NEW a \in Aliases, NEW f, IsReplay(f, a, transactions)
      PROVE  f[Len(transactions)] \in Int /\ wallet[a].balance <= f[Len(transactions)]
  <2>1. f[Len(transactions)] = 0 /\ wallet[a].balance = 0
    BY <1>1, <1>2, <1>3
  <2>. QED
    BY <2>1
<1>. QED
  BY <1>2, <1>3 DEF Replays

\* No wallet of the workflows ever holds cash that no recorded transaction gave
\* it, whatever aliases the requests name and whichever credits throw after their
\* debit committed.
THEOREM NoCashCreated == Spec => []CashNeverCreated
<1>1. Replays => CashNeverCreated
  BY ReplayedIsReplay DEF Replays, CashNeverCreated
<1>2. Init => WInv /\ Replays
  BY InitLedger, InitReplays DEF LInv
<1>3. WInv /\ Replays /\ [Next]_vars => (WInv /\ Replays)'
  BY NextLedger, ReplaysStay
<1>. QED
  BY <1>1, <1>2, <1>3, PTL DEF Spec

\* The one way the cash of the workflows leaves the ledger: every step is one the
\* ledger allows, or is a debit whose credit throws.
THEOREM OnlyLostCreditsDiverge == Spec => [][LedgerStep \/ LosesCredit]_vars
<1>1. WInv /\ [Next]_vars => WInv' /\ (LedgerStep \/ LosesCredit)
  BY NextLedger
<1>2. Init => WInv
  BY InitLedger DEF LInv
<1>. QED
  BY <1>1, <1>2, PTL DEF Spec

-----------------------------------------------------------------------------
\* Requests that name the wallet they credit.

\* No creation stores a draft that credits the empty alias.
LEMMA CreditedNamedStays ==
    ASSUME NamesCreditedWallet, LInv, [Next]_vars
    PROVE  CreditedNamed'
<1>1. ASSUME NEW t \in TwoStepTypes, NEW d, NEW accepted, CanMint, Mint(t),
             StoreDraftIf(accepted, t, d), d.credited # NoAlias
      PROVE  CreditedNamed'
  BY <1>1, MintTyped DEF StoreDraftIf, LInv, WInv, IInv, TypeOK, CreditedNamed
<1>2. \A x, d, r, u : \A c \in CreditAliases \cup {Issuance} :
          PendingDraft(x, d, c, r, u).credited # NoAlias
  BY SettlementAssumption, DcwAssumption DEF NamesCreditedWallet, PendingDraft
<1>3. ASSUME NEW u \in Users, Create(u) PROVE CreditedNamed'
  <2>1. CASE \E c \in CreditAliases, x \in Amounts, m \in NCBs : CreateFunding(u, c, x, m)
    BY <1>1, <1>2, <2>1 DEF CreateFunding, TwoStepTypes
  <2>2. CASE \E d \in DebitAliases, x \in Amounts : CreateDefunding(u, d, x)
    BY <1>1, <1>2, <2>2 DEF CreateDefunding, TwoStepTypes
  <2>3. CASE \E d \in DebitAliases, c \in CreditAliases, x \in Amounts,
                r \in {"PAYMENT", "OPERATION"}, n \in BOOLEAN :
                CreateTransfer(u, d, c, x, r, n)
    BY <1>1, <1>2, <2>3 DEF CreateTransfer, TwoStepTypes
  <2>4. CASE \E d \in DebitAliases, c \in CreditAliases, x \in Amounts :
                CreateDirectRtgs(u, d, c, x)
    BY <1>1, <1>2, <2>4 DEF CreateDirectRtgs, TwoStepTypes
  <2>. QED
    BY <1>3, <2>1, <2>2, <2>3, <2>4 DEF Create
<1>4. ASSUME NEW id \in DraftIds,
             \/ Cancel(id)
             \/ \E u \in Users : Pending(id) /\ RecordApproval(u, id)
      PROVE  CreditedNamed'
  <2>1. draft \in [DraftIds -> Drafts] /\ draft[id].status = "PENDING_APPROVAL"
    BY <1>4 DEF Cancel, Pending, LInv, WInv, IInv, TypeOK
  <2>2. \/ draft' = [draft EXCEPT ![id].status = "CANCELED"]
        \/ \E u \in Users : draft' = [draft EXCEPT ![id].status = "SETTLED", ![id].approver = u]
    BY <1>4 DEF Cancel, RecordApproval
  <2>3. draft'[id].credited = draft[id].credited
    BY <2>1, <2>2 DEF Drafts
  <2>4. \A other \in DraftIds : other # id => draft'[other] = draft[other]
    BY <2>1, <2>2
  <2>. QED
    BY <2>1, <2>3, <2>4 DEF CreditedNamed, LInv
<1>5. ASSUME UNCHANGED draft PROVE CreditedNamed'
  BY <1>5 DEF CreditedNamed, LInv
<1>6. CASE \E u \in Users, id \in DraftIds : Transition(u, id)
  BY <1>4, <1>5, <1>6
  DEF Transition, ApproveFunding, ApproveDefunding, ApproveMovement, ApproveLosesCredit,
      MayApprove
<1>7. CASE \E u \in Users : OneStep(u)
  BY <1>5, <1>7 DEF OneStep, Execute, ExecuteLosesCredit, RecordOneStep
<1>8. CASE Reset
  BY <1>8 DEF Reset, CreditedNamed, NoDraft
<1>9. CASE \/ \E u \in Users, a \in Aliases, m \in NCBs, v \in NewValidities :
                  CreateWallet(u, a, m, v)
           \/ \E a \in Aliases, v \in Validities : ValidityChanges(a, v)
           \/ UNCHANGED vars
  BY <1>5, <1>9 DEF CreateWallet, ValidityChanges, vars
<1>. QED
  BY <1>3, <1>4, <1>6, <1>7, <1>8, <1>9 DEF Next

\* No credit throws when the drafts and the requests name the wallet they credit.
LEMMA NoneLost ==
    ASSUME NamesCreditedWallet, LInv
    PROVE  ~ LosesCredit
<1>1. \A u \in Users, id \in DraftIds : ~ ApproveLosesCredit(u, id)
  BY DEF ApproveLosesCredit, MayApprove, Pending, LInv, CreditedNamed
<1>2. \A u \in Users, d \in DebitAliases, c \in CreditAliases, x \in Amounts :
          ~ ExecuteLosesCredit(u, d, c, x)
  BY DcwAssumption DEF ExecuteLosesCredit, NamesCreditedWallet
<1>. QED
  BY <1>1, <1>2 DEF LosesCredit

\* Both invariants survive every step, which the ledger allows.
LEMMA NextLInv ==
    ASSUME NamesCreditedWallet, LInv, [Next]_vars
    PROVE  LInv' /\ LedgerStep
BY NextLedger, NoneLost, CreditedNamedStays DEF LInv

\* Every behaviour of the workflows is one of the ledger: no cash is moved, made or
\* lost but by a recorded transaction, when requests name the wallet they credit.
THEOREM Refinement == ASSUME NamesCreditedWallet PROVE Spec => ImplementsLedger
<1>1. LInv /\ [Next]_vars => LInv' /\ LedgerStep
  BY NextLInv
<1>. QED
  BY <1>1, InitLedger, PTL DEF Spec, LedgerStep, ImplementsLedger, Ledger!Spec

\* Initially there is nothing to replay, and nothing in the wallets.
LEMMA InitExactReplays == Init => ExactReplays
<1>. SUFFICES ASSUME Init PROVE ExactReplays
  OBVIOUS
<1>1. transactions = <<>> /\ \A a \in Aliases : wallet[a].balance = 0
  BY DEF Init, NoWallets, NoDcw
<1>. QED
  BY <1>1, EmptyReplay DEF ExactReplays

\* A step of the ledger moves a balance and its replay alike.
LEMMA ExactReplaysStay ==
    ASSUME NamesCreditedWallet, LInv, ExactReplays, [Next]_vars
    PROVE  ExactReplays'
<1>1. TypeOK /\ TypeOK' /\ LedgerStep
  BY NextLInv DEF LInv, WInv, IInv
<1>2. CASE /\ UNCHANGED transactions
           /\ \A a \in Aliases : wallet'[a].balance = wallet[a].balance
  BY <1>2 DEF ExactReplays
<1>3. ASSUME NEW tx \in Transactions,
             transactions' = Append(transactions, tx),
             \A a \in Aliases :
                 wallet'[a].balance = wallet[a].balance + Gain(tx, a) - Loss(tx, a)
      PROVE  ExactReplays'
  <2>1. transactions \in Seq(Transactions)
    BY <1>1 DEF TypeOK
  <2>2. ASSUME NEW a \in Aliases PROVE \E f : IsReplay(f, a, transactions')
    BY <1>3, <2>1, ReplayGrows DEF ExactReplays
  <2>3. ASSUME NEW a \in Aliases, NEW g, IsReplay(g, a, transactions')
        PROVE  g[Len(transactions')] = wallet'[a].balance
    <3>1. IsReplay(g, a, Append(transactions, tx))
      BY <1>3, <2>3
    <3>2. PICK f : /\ IsReplay(f, a, transactions)
                   /\ g[Len(transactions')]
                          = f[Len(transactions)] + Gain(tx, a) - Loss(tx, a)
      BY <1>3, <2>1, <3>1, ReplayGrows
    <3>3. f[Len(transactions)] = wallet[a].balance
      BY <3>2 DEF ExactReplays
    <3>. QED
      BY <1>3, <3>2, <3>3
  <2>. QED
    BY <2>2, <2>3 DEF ExactReplays
<1>4. CASE transactions' = <<>> /\ \A a \in Aliases : wallet'[a].balance = 0
  BY <1>4, EmptyReplay DEF ExactReplays
<1>. QED
  BY <1>1, <1>2, <1>3, <1>4, LedgerMoves

\* When requests name the wallet they credit, the recorded transactions account for
\* every balance of the workflows to the cent, and not only from above.
THEOREM BalancesAreReplayed ==
    ASSUME NamesCreditedWallet
    PROVE  Spec => [](\A a \in Aliases : wallet[a].balance = Replayed(a))
<1>1. ExactReplays => \A a \in Aliases : wallet[a].balance = Replayed(a)
  BY ReplayedIsReplay DEF ExactReplays
<1>2. Init => LInv /\ ExactReplays
  BY InitLedger, InitExactReplays
<1>3. LInv /\ ExactReplays /\ [Next]_vars => (LInv /\ ExactReplays)'
  BY NextLInv, ExactReplaysStay
<1>. QED
  BY <1>1, <1>2, <1>3, PTL DEF Spec

-----------------------------------------------------------------------------
\* The cash in all wallets.

\* What a transaction adds to the wallets of S together, and what it takes.
GainOf(tx, S) == IF To(tx) \in S THEN tx.amount ELSE 0

LossOf(tx, S) == IF From(tx) \in S THEN tx.amount ELSE 0

\* The wallet a sum takes first.
First(S) == CHOOSE b \in S : TRUE

\* f is the cash in each set of the wallets of w.
IsCash(f, w) ==
    f = [S \in SUBSET Aliases |->
            IF S = {}
              THEN 0
              ELSE w[First(S)].balance + f[S \ {First(S)}]]

\* The least of a set of numbers.
LEMMA LeastExists ==
    ASSUME NEW T, T \subseteq Nat, T # {}
    PROVE  \E x \in T : \A y \in T : ~ (y < x)
<1>1. \E x \in T : \A y \in T : ~ (<<y, x>> \in OpToRel(<, Nat))
  BY NatLessThanWellFounded, WFMin, Zenon
<1>2. PICK x \in T : \A y \in T : ~ (<<y, x>> \in OpToRel(<, Nat))
  BY <1>1, Zenon
<1>3. \A y \in T : ~ (y < x)
  BY <1>2, Zenon DEF OpToRel
<1>. QED
  BY <1>3

\* A collection of sets of wallets that has the empty set, and every set whose
\* smaller ones it has, has them all: induction over the finite set of wallets,
\* said of a set rather than of a predicate.
LEMMA SubsetInduction ==
    ASSUME IsFiniteSet(Aliases), NEW P, P \subseteq SUBSET Aliases, {} \in P,
           \A S \in SUBSET Aliases : S # {} /\ (\A a \in S : S \ {a} \in P) => S \in P
    PROVE  \A S \in SUBSET Aliases : S \in P
<1>. DEFINE Bad   == (SUBSET Aliases) \ P
            Sizes == {Cardinality(S) : S \in Bad}
<1>1. \A S \in SUBSET Aliases :
          /\ IsFiniteSet(S) /\ Cardinality(S) \in Nat
          /\ \A a \in S : Cardinality(S \ {a}) = Cardinality(S) - 1
  BY FS_Subset, FS_CardinalityType, FS_RemoveElement
<1>2. SUFFICES ASSUME Bad # {} PROVE FALSE
  OBVIOUS
<1>3. Sizes \subseteq Nat /\ Sizes # {}
  BY <1>1, <1>2
<1>4. \E x \in Sizes : \A y \in Sizes : ~ (y < x)
  <2>. HIDE DEF Sizes
  <2>. QED
    BY <1>3, LeastExists
<1>5. PICK x \in Sizes : \A y \in Sizes : ~ (y < x)
  BY <1>4
<1>6. PICK S \in Bad : x = Cardinality(S)
  OBVIOUS
<1>7. ASSUME NEW a \in S PROVE S \ {a} \in P
  <2>1. Cardinality(S \ {a}) = Cardinality(S) - 1 /\ Cardinality(S) \in Nat
    BY <1>1, <1>6
  <2>2. S \ {a} \in SUBSET Aliases
    BY <1>6
  <2>3. Cardinality(S \ {a}) < x
    BY <1>6, <2>1
  <2>4. S \ {a} \notin Bad
    BY <1>5, <2>3
  <2>. QED
    BY <2>2, <2>4
<1>8. S \in SUBSET Aliases /\ S # {} /\ S \notin P
  <2>1. S \in SUBSET Aliases /\ S \notin P
    BY <1>6
  <2>. QED
    BY <2>1
<1>. HIDE DEF Bad
<1>. QED
  BY <1>7, <1>8

\* What the sums are made of.
LEMMA CashOf ==
    ASSUME NEW f, NEW w, IsCash(f, w)
    PROVE  /\ f[{}] = 0
           /\ \A S \in SUBSET Aliases : S # {} =>
                 First(S) \in S /\ f[S] = w[First(S)].balance + f[S \ {First(S)}]
<1>1. \A S \in SUBSET Aliases :
          f[S] = IF S = {}
                   THEN 0
                   ELSE w[First(S)].balance + f[S \ {First(S)}]
  BY DEF IsCash
<1>2. \A S : S # {} => First(S) \in S
  BY DEF First
<1>. QED
  BY <1>1, <1>2

\* There is one sum, and it is a number.
LEMMA OneSum ==
    ASSUME IsFiniteSet(Aliases), NEW w, \A a \in Aliases : w[a].balance \in Int,
           NEW f, NEW g, IsCash(f, w), IsCash(g, w)
    PROVE  \A S \in SUBSET Aliases : f[S] \in Int /\ f[S] = g[S]
<1>. DEFINE P == {S \in SUBSET Aliases : f[S] \in Int /\ f[S] = g[S]}
<1>1. {} \in P
  BY CashOf
<1>2. ASSUME NEW S \in SUBSET Aliases, S # {}, \A a \in S : S \ {a} \in P
      PROVE  S \in P
  <2>1. PICK a \in S : /\ f[S] = w[a].balance + f[S \ {a}]
                       /\ g[S] = w[a].balance + g[S \ {a}]
    <3>1. \A C \in SUBSET Aliases : C # {} =>
              First(C) \in C /\ f[C] = w[First(C)].balance + f[C \ {First(C)}]
      BY CashOf
    <3>2. \A C \in SUBSET Aliases : C # {} =>
              First(C) \in C /\ g[C] = w[First(C)].balance + g[C \ {First(C)}]
      BY CashOf
    <3>. QED
      BY <1>2, <3>1, <3>2
  <2>3. f[S \ {a}] \in Int /\ f[S \ {a}] = g[S \ {a}] /\ w[a].balance \in Int
    BY <1>2
  <2>. QED
    BY <2>1, <2>3
<1>3. \A S \in SUBSET Aliases : S \in P
  <2>. HIDE DEF P
  <2>1. P \subseteq SUBSET Aliases
    BY DEF P
  <2>. QED
    BY <1>1, <1>2, <2>1, SubsetInduction
<1>. QED
  BY <1>3

\* The sums and what they are made of are numbers.
Counted(f, w) ==
    /\ IsCash(f, w)
    /\ \A S \in SUBSET Aliases : f[S] \in Int
    /\ \A a \in Aliases : w[a].balance \in Int

\* The wallets go from w to later by the payment tx.
Pays(w, later, tx) ==
    \A a \in Aliases : later[a].balance = w[a].balance + Gain(tx, a) - Loss(tx, a)

\* What CashHeld computes is that sum.
LEMMA CashHeldIsSum ==
    ASSUME IsFiniteSet(Aliases), TypeOK, NEW f, IsCash(f, wallet)
    PROVE  CashHeld = f[Aliases]
<1>1. \E g : IsCash(g, wallet) /\ CashHeld = g[Aliases]
  BY DEF IsCash, CashHeld, First
<1>2. \A a \in Aliases : wallet[a].balance \in Int
  BY DEF TypeOK, WalletMaps, Dcws
<1>3. ASSUME NEW g, IsCash(g, wallet) PROVE g[Aliases] = f[Aliases]
  BY <1>2, <1>3, OneSum
<1>. QED
  BY <1>1, <1>3

\* What one payment does to the balances it does to the sums.
LEMMA CashMoves ==
    ASSUME NEW w, NEW later, NEW f, Counted(f, w),
           NEW tx, tx.amount \in Nat, Pays(w, later, tx)
    PROVE  \E g : Counted(g, later) /\ g[Aliases] = f[Aliases] + GainOf(tx, Aliases) - LossOf(tx, Aliases)
<1>. DEFINE g == [S \in SUBSET Aliases |-> f[S] + GainOf(tx, S) - LossOf(tx, S)]
<1>0. /\ IsCash(f, w)
      /\ \A S \in SUBSET Aliases : f[S] \in Int
      /\ \A a \in Aliases : w[a].balance \in Int
  BY DEF Counted
<1>1. \A S : GainOf(tx, S) \in Int /\ LossOf(tx, S) \in Int
  BY DEF GainOf, LossOf
<1>2. g[{}] = 0
  <2>1. GainOf(tx, {}) = 0 /\ LossOf(tx, {}) = 0
    BY DEF GainOf, LossOf
  <2>. QED
    BY <1>0, <2>1, CashOf
<1>3. ASSUME NEW S \in SUBSET Aliases, S # {}
      PROVE  g[S] = later[First(S)].balance + g[S \ {First(S)}]
  <2>1. PICK a \in S : a = First(S) /\ f[S] = w[a].balance + f[S \ {a}]
    <3>1. First(S) \in S /\ f[S] = w[First(S)].balance + f[S \ {First(S)}]
      BY <1>0, <1>3, CashOf
    <3>. QED
      BY <3>1
  <2>2. /\ GainOf(tx, S) = Gain(tx, a) + GainOf(tx, S \ {a})
        /\ LossOf(tx, S) = Loss(tx, a) + LossOf(tx, S \ {a})
    BY DEF GainOf, LossOf, Gain, Loss
  <2>3. /\ Gain(tx, a) \in Int /\ Loss(tx, a) \in Int
        /\ w[a].balance \in Int /\ f[S \ {a}] \in Int
        /\ later[a].balance = w[a].balance + Gain(tx, a) - Loss(tx, a)
    BY <1>0 DEF Gain, Loss, Pays
  <2>4. /\ g[S] = f[S] + GainOf(tx, S) - LossOf(tx, S)
        /\ g[S \ {a}] = f[S \ {a}] + GainOf(tx, S \ {a}) - LossOf(tx, S \ {a})
    OBVIOUS
  <2>. HIDE DEF g
  <2>5. g[S] = later[a].balance + g[S \ {a}]
    BY <1>1, <2>1, <2>2, <2>3, <2>4
  <2>. QED
    BY <2>1, <2>5
<1>4. \A S \in SUBSET Aliases :
          g[S] = IF S = {}
                   THEN 0
                   ELSE later[First(S)].balance + g[S \ {First(S)}]
  BY <1>2, <1>3
<1>5. /\ g = [S \in SUBSET Aliases |-> g[S]]
      /\ \A S \in SUBSET Aliases :
            g[S] \in Int /\ g[S] = f[S] + GainOf(tx, S) - LossOf(tx, S)
  <2>1. \A S \in SUBSET Aliases : f[S] + GainOf(tx, S) - LossOf(tx, S) \in Int
    <3>. HIDE DEF g
    <3>. QED
      BY <1>0, <1>1
  <2>2. \A S \in SUBSET Aliases : g[S] = f[S] + GainOf(tx, S) - LossOf(tx, S)
    OBVIOUS
  <2>3. g = [S \in SUBSET Aliases |-> g[S]]
    OBVIOUS
  <2>. HIDE DEF g
  <2>. QED
    BY <2>1, <2>2, <2>3
<1>. HIDE DEF g
<1>6. g = [S \in SUBSET Aliases |->
              IF S = {}
                THEN 0
                ELSE later[First(S)].balance + g[S \ {First(S)}]]
  BY <1>4, <1>5
<1>7. ASSUME NEW a \in Aliases PROVE later[a].balance \in Int
  <2>1. later[a].balance = w[a].balance + Gain(tx, a) - Loss(tx, a)
    BY DEF Pays
  <2>2. w[a].balance \in Int /\ Gain(tx, a) \in Int /\ Loss(tx, a) \in Int
    BY <1>0 DEF Gain, Loss
  <2>. QED
    BY <2>1, <2>2
<1>8. Counted(g, later)
  BY <1>5, <1>6, <1>7 DEF Counted, IsCash
<1>9. g[Aliases] = f[Aliases] + GainOf(tx, Aliases) - LossOf(tx, Aliases)
  BY <1>5
<1>. QED
  BY <1>8, <1>9

\* Wallets without cash.
LEMMA NoCash ==
    ASSUME NEW w, \A a \in Aliases : w[a].balance = 0
    PROVE  IsCash([S \in SUBSET Aliases |-> 0], w)
<1>. DEFINE f == [S \in SUBSET Aliases |-> 0]
<1>1. ASSUME NEW S \in SUBSET Aliases
      PROVE  f[S] = IF S = {}
                      THEN 0
                      ELSE w[First(S)].balance + f[S \ {First(S)}]
  <2>1. CASE S = {}
    BY <2>1
  <2>2. CASE S # {}
    <3>1. First(S) \in S
      BY <2>2 DEF First
    <3>2. w[First(S)].balance = 0 /\ f[S \ {First(S)}] = 0 /\ f[S] = 0
      BY <3>1
    <3>. QED
      BY <2>2, <3>2
  <2>. QED
    BY <2>1, <2>2
<1>2. f = [S \in SUBSET Aliases |-> f[S]]
  OBVIOUS
<1>. HIDE DEF f
<1>3. f = [S \in SUBSET Aliases |->
              IF S = {}
                THEN 0
                ELSE w[First(S)].balance + f[S \ {First(S)}]]
  BY <1>1, <1>2
<1>4. IsCash(f, w)
  BY <1>3 DEF IsCash
<1>. QED
  BY <1>4 DEF f

\* The cash in the wallets w exceeds what the transactions of seq brought into
\* circulation, and did not take out of it again, by x.
Booked(f, x, w, seq) ==
    /\ Counted(f, w)
    /\ \E r : IsReplay(r, NoAlias, seq)
    /\ \A r : IsReplay(r, NoAlias, seq) =>
          r[Len(seq)] \in Int /\ f[Aliases] + r[Len(seq)] = x

\* An empty store is booked.
LEMMA EmptyBooked ==
    ASSUME NEW w, \A a \in Aliases : w[a].balance = 0
    PROVE  \E f : Booked(f, 0, w, <<>>)
<1>. DEFINE f == [S \in SUBSET Aliases |-> 0]
<1>1. IsCash(f, w)
  BY NoCash
<1>2. /\ \A S \in SUBSET Aliases : f[S] \in Int
      /\ f[Aliases] = 0
  OBVIOUS
<1>. HIDE DEF f
<1>3. /\ \E r : IsReplay(r, NoAlias, <<>>)
      /\ \A r : IsReplay(r, NoAlias, <<>>) =>
            r[Len(<<>>)] \in Int /\ f[Aliases] + r[Len(<<>>)] = 0
  BY <1>2, EmptyReplay
<1>4. Counted(f, w)
  BY <1>1, <1>2 DEF Counted
<1>5. Booked(f, 0, w, <<>>)
  BY <1>3, <1>4 DEF Booked
<1>. QED
  BY <1>5

\* A transaction that is recorded and moves its amount leaves the difference.
LEMMA RecordedBooked ==
    ASSUME NEW w, NEW later, NEW f, NEW x \in Int, NEW seq \in Seq(Transactions),
           Booked(f, x, w, seq),
           NEW tx \in Transactions, Pays(w, later, tx),
           From(tx) \in Aliases \cup {NoAlias}, To(tx) \in Aliases \cup {NoAlias}
    PROVE  \E g : Booked(g, x, later, Append(seq, tx))
<1>1. tx.amount \in Nat /\ NoAlias \notin Aliases
  BY NaturalAmounts, DcwAssumption DEF Transactions
<1>2. PICK g : /\ Counted(g, later)
               /\ g[Aliases] = f[Aliases] + GainOf(tx, Aliases) - LossOf(tx, Aliases)
  BY <1>1, CashMoves DEF Booked
<1>3. /\ GainOf(tx, Aliases) + Gain(tx, NoAlias) = tx.amount
      /\ LossOf(tx, Aliases) + Loss(tx, NoAlias) = tx.amount
      /\ GainOf(tx, Aliases) \in Int /\ Gain(tx, NoAlias) \in Int
      /\ LossOf(tx, Aliases) \in Int /\ Loss(tx, NoAlias) \in Int
  BY <1>1 DEF GainOf, LossOf, Gain, Loss
<1>4. \E r : IsReplay(r, NoAlias, Append(seq, tx))
  BY ReplayGrows DEF Booked
<1>5. ASSUME NEW r, IsReplay(r, NoAlias, Append(seq, tx))
      PROVE  /\ r[Len(Append(seq, tx))] \in Int
             /\ g[Aliases] + r[Len(Append(seq, tx))] = x
  <2>1. PICK q : /\ IsReplay(q, NoAlias, seq)
                 /\ r[Len(Append(seq, tx))]
                        = q[Len(seq)] + Gain(tx, NoAlias) - Loss(tx, NoAlias)
    BY <1>5, ReplayGrows
  <2>2. q[Len(seq)] \in Int /\ f[Aliases] + q[Len(seq)] = x /\ f[Aliases] \in Int
    BY <2>1 DEF Booked, Counted
  <2>3. g[Aliases] = f[Aliases] + GainOf(tx, Aliases) - LossOf(tx, Aliases)
    BY <1>2
  <2>. QED
    <3>. DEFINE cash   == f[Aliases]
                held   == g[Aliases]
                short  == q[Len(seq)]
                after  == r[Len(Append(seq, tx))]
                gain   == GainOf(tx, Aliases)
                refund == Gain(tx, NoAlias)
                loss   == LossOf(tx, Aliases)
                grant  == Loss(tx, NoAlias)
    <3>1. /\ cash \in Int /\ short \in Int /\ cash + short = x
          /\ gain \in Int /\ refund \in Int /\ gain + refund = tx.amount
          /\ loss \in Int /\ grant \in Int /\ loss + grant = tx.amount
          /\ held = cash + gain - loss /\ after = short + refund - grant
      BY <1>3, <2>1, <2>2, <2>3
    <3>. HIDE DEF cash, held, short, after, gain, refund, loss, grant
    <3>2. after \in Int /\ held + after = x
      BY <3>1, <1>1
    <3>. QED
      BY <3>2 DEF held, after
<1>6. Booked(g, x, later, Append(seq, tx))
  BY <1>2, <1>4, <1>5 DEF Booked
<1>. QED
  BY <1>6

\* A debit of y that is not recorded leaves y less.
LEMMA UnrecordedBooked ==
    ASSUME NEW w, NEW later, NEW f, NEW x \in Int, NEW seq,
           Booked(f, x, w, seq),
           NEW d \in Aliases, NEW y \in Nat,
           \A a \in Aliases :
               later[a].balance = IF a = d THEN w[a].balance - y ELSE w[a].balance
    PROVE  \E g : Booked(g, x - y, later, seq)
<1>. DEFINE tx == [type |-> "DEFUNDING", debited |-> d, credited |-> NoAlias, amount |-> y]
<1>1. /\ tx.amount \in Nat
      /\ \A a \in Aliases : Gain(tx, a) = 0 /\ Loss(tx, a) = IF a = d THEN y ELSE 0
      /\ GainOf(tx, Aliases) = 0 /\ LossOf(tx, Aliases) = y
  BY DcwAssumption DEF Gain, Loss, GainOf, LossOf, From, To
<1>. HIDE DEF tx
<1>2. Pays(w, later, tx)
  <2>. SUFFICES ASSUME NEW a \in Aliases
                PROVE  later[a].balance = w[a].balance + Gain(tx, a) - Loss(tx, a)
    BY DEF Pays
  <2>1. Gain(tx, a) = 0 /\ Loss(tx, a) = IF a = d THEN y ELSE 0
    BY <1>1
  <2>2. /\ w[a].balance \in Int
        /\ later[a].balance = IF a = d THEN w[a].balance - y ELSE w[a].balance
    BY DEF Booked, Counted
  <2>. QED
    BY <2>1, <2>2
<1>3. PICK g : /\ Counted(g, later)
               /\ g[Aliases] = f[Aliases] + GainOf(tx, Aliases) - LossOf(tx, Aliases)
  BY <1>1, <1>2, CashMoves DEF Booked
<1>4. g[Aliases] = f[Aliases] - y /\ f[Aliases] \in Int
  <2>1. g[Aliases] = f[Aliases] + GainOf(tx, Aliases) - LossOf(tx, Aliases)
    BY <1>3
  <2>2. f[Aliases] \in Int
    BY DEF Booked, Counted
  <2>. QED
    BY <1>1, <2>1, <2>2
<1>5. ASSUME NEW r, IsReplay(r, NoAlias, seq)
      PROVE  r[Len(seq)] \in Int /\ g[Aliases] + r[Len(seq)] = x - y
  <2>1. r[Len(seq)] \in Int /\ f[Aliases] + r[Len(seq)] = x
    BY <1>5 DEF Booked
  <2>. QED
    BY <1>4, <2>1
<1>6. Booked(g, x - y, later, seq)
  BY <1>3, <1>5 DEF Booked
<1>. QED
  BY <1>6

\* A step of the ledger leaves the difference, or empties the store.
LEMMA LedgerBooked ==
    ASSUME TypeOK, TypeOK', LedgerStep, NEW f, NEW x \in Int,
           Booked(f, x, wallet, transactions)
    PROVE  \E g : \/ Booked(g, x, wallet', transactions')
                  \/ Booked(g, 0, wallet', transactions')
<1>1. transactions \in Seq(Transactions) /\ \A a \in Aliases : wallet[a].balance \in Int
  BY DEF TypeOK, WalletMaps, Dcws
<1>2. CASE UNCHANGED transactions /\ \A a \in Aliases : wallet'[a].balance = wallet[a].balance
  <2>1. CASE Aliases = {}
    <3>1. \A a \in Aliases : wallet'[a].balance = 0
      BY <2>1
    <3>2. \E g : IsCash(g, wallet')
      BY <3>1, NoCash
    <3>3. SUBSET Aliases = {{}}
      BY <2>1
    <3>4. PICK g : IsCash(g, wallet')
      BY <3>2
    <3>5. g[{}] = 0 /\ f[{}] = 0
        BY <3>4, CashOf DEF Booked, Counted
    <3>6. Booked(g, x, wallet', transactions')
      BY <1>2, <2>1, <3>3, <3>4, <3>5 DEF Booked, Counted
    <3>. QED
      BY <3>6
  <2>2. ASSUME NEW d \in Aliases
        PROVE  \E g : Booked(g, x, wallet', transactions')
    <3>1. \A a \in Aliases :
              wallet'[a].balance = IF a = d THEN wallet[a].balance - 0 ELSE wallet[a].balance
      BY <1>1, <1>2
    <3>2. \E g : Booked(g, x - 0, wallet', transactions)
      BY <1>1, <3>1, UnrecordedBooked
    <3>3. x - 0 = x /\ transactions' = transactions
      BY <1>2
    <3>. QED
      BY <3>2, <3>3
  <2>. QED
    BY <2>1, <2>2
<1>3. ASSUME NEW tx \in Transactions,
             transactions' = Append(transactions, tx),
             From(tx) \in Aliases \cup {NoAlias}, To(tx) \in Aliases \cup {NoAlias},
             \A a \in Aliases :
                 wallet'[a].balance = wallet[a].balance + Gain(tx, a) - Loss(tx, a)
      PROVE  \E g : Booked(g, x, wallet', transactions')
  <2>1. Pays(wallet, wallet', tx)
    BY <1>3 DEF Pays
  <2>2. \E g : Booked(g, x, wallet', Append(transactions, tx))
    BY <1>1, <1>3, <2>1, RecordedBooked
  <2>. QED
    BY <1>3, <2>2
<1>4. CASE transactions' = <<>> /\ \A a \in Aliases : wallet'[a].balance = 0
  <2>1. \E g : Booked(g, 0, wallet', <<>>)
    BY <1>4, EmptyBooked
  <2>. QED
    BY <1>4, <2>1
<1>. QED
  BY <1>2, <1>3, <1>4, LedgerMoves

\* The books balance, or there is less cash than they say.
BooksBalance == \E f : Booked(f, 0, wallet, transactions)

BooksCover == \E f : \E x \in Int : x <= 0 /\ Booked(f, x, wallet, transactions)

\* Initially there is nothing to book.
LEMMA InitBooks == Init => BooksBalance /\ BooksCover
<1>. SUFFICES ASSUME Init PROVE BooksBalance /\ BooksCover
  OBVIOUS
<1>1. transactions = <<>> /\ \A a \in Aliases : wallet[a].balance = 0
  BY DEF Init, NoWallets, NoDcw
<1>2. \E f : Booked(f, 0, wallet, transactions)
  BY <1>1, EmptyBooked
<1>3. 0 \in Int /\ 0 <= 0
  OBVIOUS
<1>. QED
  BY <1>2, <1>3 DEF BooksBalance, BooksCover

\* A lost credit leaves less cash than the books say, every other step what it was.
LEMMA BooksCoverStays ==
    ASSUME WInv, BooksCover, [Next]_vars
    PROVE  BooksCover'
<1>1. TypeOK /\ TypeOK' /\ AbsentWalletsEmpty
  BY NextLedger DEF WInv, IInv
<1>2. PICK f : \E x \in Int : x <= 0 /\ Booked(f, x, wallet, transactions)
  BY DEF BooksCover
<1>3. PICK x \in Int : x <= 0 /\ Booked(f, x, wallet, transactions)
  BY <1>2
<1>4. SUFFICES \E g : \E y \in Int : y <= 0 /\ Booked(g, y, wallet', transactions')
  BY DEF BooksCover
<1>5. CASE LosesCredit
  <2>1. /\ UNCHANGED transactions
        /\ \E d \in Aliases, y \in Nat : \A a \in Aliases :
              wallet'[a].balance
                  = IF a = d THEN wallet[a].balance - y ELSE wallet[a].balance
    BY <1>1, <1>5, LostCredit
  <2>2. PICK d \in Aliases, y \in Nat : \A a \in Aliases :
              wallet'[a].balance
                  = IF a = d THEN wallet[a].balance - y ELSE wallet[a].balance
    BY <2>1
  <2>3. \A a \in Aliases : wallet[a].balance \in Int
    BY <1>1 DEF TypeOK, WalletMaps, Dcws
  <2>4. \E g : Booked(g, x - y, wallet', transactions)
    BY <1>3, <2>2, <2>3, UnrecordedBooked
  <2>5. x - y \in Int /\ x - y <= 0
    BY <1>3
  <2>. QED
    BY <2>1, <2>4, <2>5
<1>6. CASE LedgerStep
  <2>1. \E g : \/ Booked(g, x, wallet', transactions')
               \/ Booked(g, 0, wallet', transactions')
    BY <1>1, <1>3, <1>6, LedgerBooked
  <2>2. 0 \in Int /\ 0 <= 0
    OBVIOUS
  <2>. QED
    BY <1>3, <2>1, <2>2
<1>. QED
  BY <1>5, <1>6, NextLedger

\* No credit is lost when requests name the wallet they credit.
LEMMA BooksBalanceStays ==
    ASSUME NamesCreditedWallet, LInv, BooksBalance, [Next]_vars
    PROVE  BooksBalance'
<1>1. TypeOK /\ TypeOK' /\ LedgerStep
  BY NextLInv DEF LInv, WInv, IInv
<1>2. PICK f : Booked(f, 0, wallet, transactions)
  BY DEF BooksBalance
<1>3. 0 \in Int
  OBVIOUS
<1>4. \E g : Booked(g, 0, wallet', transactions')
  BY <1>1, <1>2, <1>3, LedgerBooked
<1>. QED
  BY <1>4 DEF BooksBalance

\* What the books say of the sum and the replay the properties compute.
LEMMA BookedSum ==
    ASSUME IsFiniteSet(Aliases), TypeOK, NEW f, NEW x,
           Booked(f, x, wallet, transactions)
    PROVE  CashHeld + Replayed(NoAlias) = x
<1>1. CashHeld = f[Aliases]
  BY CashHeldIsSum DEF Booked, Counted
<1>2. PICK r : IsReplay(r, NoAlias, transactions) /\ Replayed(NoAlias) = r[Len(transactions)]
  BY ReplayedIsReplay DEF Booked
<1>. QED
  BY <1>1, <1>2 DEF Booked

\* The cash in all wallets together is what funding issued less what defunding
\* returned, when requests name the wallet they credit: no approval, cancellation,
\* one-step payment or reset makes cash or loses it (issue #77).  A sum is over a
\* finite number of wallets.
THEOREM ValueConserved ==
    ASSUME NamesCreditedWallet, IsFiniteSet(Aliases)
    PROVE  Spec => []ConservationOfValue
<1>1. LInv /\ BooksBalance => ConservationOfValue
  BY BookedSum DEF BooksBalance, ConservationOfValue, LInv, WInv, IInv
<1>2. Init => LInv /\ BooksBalance
  BY InitLedger, InitBooks
<1>3. LInv /\ BooksBalance /\ [Next]_vars => (LInv /\ BooksBalance)'
  BY NextLInv, BooksBalanceStays
<1>. QED
  BY <1>1, <1>2, <1>3, PTL DEF Spec

\* Whatever aliases the requests name and whichever credits throw, the wallets, one
\* that bears the issuance alias included, never hold more together than funding
\* issued less what defunding returned.
THEOREM CashCovered ==
    ASSUME IsFiniteSet(Aliases)
    PROVE  Spec => [](CashHeld + Replayed(NoAlias) <= 0)
<1>1. WInv /\ BooksCover => CashHeld + Replayed(NoAlias) <= 0
  <2>. SUFFICES ASSUME WInv, BooksCover PROVE CashHeld + Replayed(NoAlias) <= 0
    OBVIOUS
  <2>1. PICK f : \E x \in Int : x <= 0 /\ Booked(f, x, wallet, transactions)
    BY DEF BooksCover
  <2>2. PICK x \in Int : x <= 0 /\ Booked(f, x, wallet, transactions)
    BY <2>1
  <2>. QED
    BY <2>2, BookedSum DEF WInv, IInv
<1>2. Init => WInv /\ BooksCover
  BY InitLedger, InitBooks DEF LInv
<1>3. WInv /\ BooksCover /\ [Next]_vars => (WInv /\ BooksCover)'
  BY NextLedger, BooksCoverStays
<1>. QED
  BY <1>1, <1>2, <1>3, PTL DEF Spec
=============================================================================
