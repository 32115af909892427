----------------------------- MODULE Settlement -----------------------------
(***************************************************************************)
(* The workflow engine of src/workflows/workflow.ts with the workflows that *)
(* settle through it -- funding, defunding, transfer and direct RTGS in two *)
(* steps, the bridge payment and the bridge direct RTGS in one -- together  *)
(* with the routes that call them and the store they share.                 *)
(*                                                                          *)
(* Node runs a handler to its end once the body is read, so every request   *)
(* is one step.  What interleaves is the requests of different users: an    *)
(* approval comes any time after the creation it approves, when balances,   *)
(* wallet validity and the store itself may have changed.  A request that   *)
(* is refused and leaves the state alone is no step; one that is refused    *)
(* after it changed something is.                                           *)
(***************************************************************************)
EXTENDS Dcw, Sequences

CONSTANTS
    Users,            \* the user UUIDs the JWTs carry
    EntityOf,         \* the entity_bic of each user's tokens, or NoEntity
    NoUser,           \* no UUID recorded
    Issuance,         \* ISSUANCE_WALLET_ALIAS: a wallet may bear it too
    Amounts,          \* the amounts requests carry
    DebitAliases,     \* what requests give as the debited wallet ("" included)
    CreditAliases,    \* what requests give as the credited wallet
    NewValidities,    \* the validity a wallet may be created with
    MaxMinted,        \* bound: identifiers minted between two resets
    MaxTransactions   \* bound: transactions between two resets

ASSUME SettlementAssumption ==
    /\ EntityOf \in [Users -> Entities \cup {NoEntity}]
    /\ NoUser \notin Users
    /\ Issuance # NoAlias
    /\ Amounts \subseteq Nat
    /\ DebitAliases \subseteq Aliases \cup {NoAlias}
    /\ CreditAliases \subseteq Aliases \cup {NoAlias}
    /\ NewValidities \subseteq Validities
    /\ MaxMinted \in Nat
    /\ MaxTransactions \in Nat

VARIABLES
    wallet,        \* the wallets map of the store
    draft,         \* the drafts map, by identifier
    minted,        \* the daily sequence of each identifier prefix
    transactions   \* the settled transactions, oldest first

vars == <<wallet, draft, minted, transactions>>

-----------------------------------------------------------------------------
\* Records and identifiers.

TwoStepTypes == {"FUNDING", "DEFUNDING", "TRANSFER", "DIRECT_RTGS"}

\* nextId: the prefix stands for the workflow type, then a serial number.
DraftIds == TwoStepTypes \X (1 .. MaxMinted)

\* The reference of a one-step transaction: no draft was stored for it.
NoRef == <<"ONE_STEP", 0>>

RequestTypes == {"PAYMENT", "OPERATION", "NONE"}

Drafts == [status      : {"ABSENT", "PENDING_APPROVAL", "SETTLED", "CANCELED"},
           amount      : Amounts \cup {0},
           debited     : Aliases \cup {NoAlias, Issuance},
           credited    : Aliases \cup {NoAlias, Issuance},
           requestType : RequestTypes,
           initiator   : Users \cup {NoUser},
           approver    : Users \cup {NoUser}]

NoDraft == [status |-> "ABSENT", amount |-> 0, debited |-> NoAlias,
            credited |-> NoAlias, requestType |-> "NONE",
            initiator |-> NoUser, approver |-> NoUser]

\* ref is the draft the transaction settles and user who made it happen:
\* the code's id and the JWT of the request.
Transactions == [type     : TwoStepTypes,
                 amount   : Amounts \cup {0},
                 debited  : Aliases \cup {Issuance},
                 credited : Aliases \cup {Issuance},
                 ref      : DraftIds \cup {NoRef},
                 user     : Users]

PendingDraft(amount, debited, credited, requestType, u) ==
    [status |-> "PENDING_APPROVAL", amount |-> amount, debited |-> debited,
     credited |-> credited, requestType |-> requestType,
     initiator |-> u, approver |-> NoUser]

TypeOK ==
    /\ wallet \in WalletMaps
    /\ draft \in [DraftIds -> Drafts]
    /\ minted \in [TwoStepTypes -> 0 .. MaxMinted]
    /\ transactions \in Seq(Transactions)

Init ==
    /\ wallet = NoWallets
    /\ draft = [id \in DraftIds |-> NoDraft]
    /\ minted = [t \in TwoStepTypes |-> 0]
    /\ transactions = <<>>

-----------------------------------------------------------------------------
\* Creation of a two-step draft.

\* The identifier nextId returns, and the sequence it leaves.  A client's own
\* identifier is looked up for duplicates and otherwise dropped.
NextId(t) == <<t, minted[t] + 1>>

CanMint ==
    minted["FUNDING"] + minted["DEFUNDING"] + minted["TRANSFER"] + minted["DIRECT_RTGS"]
        < MaxMinted

Mint(t) == minted' = [minted EXCEPT ![t] = @ + 1]

\* Store the draft when the conditions hold; a refusal keeps the number.
StoreDraftIf(accepted, t, d) ==
    draft' = IF accepted THEN [draft EXCEPT ![NextId(t)] = d] ELSE draft

\* POST tms/funding-requests: an unknown credited wallet is opened for the
\* caller's entity before the conditions are evaluated, and stays open when
\* they refuse the request.
CreateFunding(u, credited, amount, manager) ==
    LET caller == EntityOf[u]
        opens  == /\ caller # NoEntity
                  /\ credited # NoAlias
                  /\ ~ HasWallet(wallet, credited)
        after  == IF opens
                    THEN CreateDcw(wallet, credited, caller, manager, "VALID")
                    ELSE wallet
    IN  /\ CanMint
        /\ Mint("FUNDING")
        /\ wallet' = after
        /\ StoreDraftIf(CanDebit(after, credited, caller), "FUNDING",
                        PendingDraft(amount, Issuance, credited, "NONE", u))
        /\ UNCHANGED transactions

\* POST tms/defunding-requests: neither rights nor funds are looked at yet.
CreateDefunding(u, debited, amount) ==
    /\ CanMint
    /\ Mint("DEFUNDING")
    /\ StoreDraftIf(NamedWalletExists(wallet, debited), "DEFUNDING",
                    PendingDraft(amount, debited, Issuance, "NONE", u))
    /\ UNCHANGED <<wallet, transactions>>

\* Mutant: a PAYMENT between wallets of one manager passes too.
ManagersLoose(requestType, debited, credited, namesManagers) ==
    /\ HasWallet(wallet, debited) \/ HasWallet(wallet, credited) => namesManagers
    /\ HasWallet(wallet, debited) /\ HasWallet(wallet, credited) =>
         (requestType = "OPERATION" => wallet[debited].manager = wallet[credited].manager)

\* The manager rules of a transfer, silent on a wallet that is not there:
\* namesManagers says that the body's manager identifiers are the wallets' own.
ManagersMatch(requestType, debited, credited, namesManagers) ==
    /\ HasWallet(wallet, debited) \/ HasWallet(wallet, credited) => namesManagers
    /\ HasWallet(wallet, debited) /\ HasWallet(wallet, credited) =>
         (requestType = "OPERATION" <=> wallet[debited].manager = wallet[credited].manager)

\* POST rvs/transactions-requests: the instructing party is the caller.
CreateTransfer(u, debited, credited, amount, requestType, namesManagers) ==
    /\ EntityOf[u] # NoEntity
    /\ CanMint
    /\ Mint("TRANSFER")
    /\ StoreDraftIf(/\ ManagersMatch(requestType, debited, credited, namesManagers)
                    /\ NamedWalletExists(wallet, debited)
                    /\ NamedWalletExists(wallet, credited),
                    "TRANSFER",
                    PendingDraft(amount, debited, credited, requestType, u))
    /\ UNCHANGED <<wallet, transactions>>

\* POST tms/direct-rtgs/payments: the request schema asks for no wallet alias.
CreateDirectRtgs(u, debited, credited, amount) ==
    /\ CanMint
    /\ Mint("DIRECT_RTGS")
    /\ StoreDraftIf(/\ NamedWalletExists(wallet, debited)
                    /\ NamedWalletExists(wallet, credited),
                    "DIRECT_RTGS",
                    PendingDraft(amount, debited, credited, "NONE", u))
    /\ UNCHANGED <<wallet, transactions>>

-----------------------------------------------------------------------------
\* Transitions of a draft.

\* Mutant: a settled draft may be approved again.
PendingOrSettled(id) == draft[id].status \in {"PENDING_APPROVAL", "SETTLED"}

Pending(id) == draft[id].status = "PENDING_APPROVAL"

\* Mutant: two pairs of eyes may be the same.
TwoEyes(u, id) == Pending(id) /\ draft[id].initiator # NoUser

\* loadPending and the four-eyes check: two known, distinct users.
MayApprove(u, id) ==
    /\ Pending(id)
    /\ draft[id].initiator # NoUser
    /\ u # draft[id].initiator

\* The tail of approve: the draft is settled and a transaction recorded.
RecordApproval(u, id) ==
    /\ draft' = [draft EXCEPT ![id].status = "SETTLED", ![id].approver = u]
    /\ transactions' = Append(transactions,
                              [type     |-> id[1],
                               amount   |-> draft[id].amount,
                               debited  |-> draft[id].debited,
                               credited |-> draft[id].credited,
                               ref      |-> id,
                               user     |-> u])
    /\ UNCHANGED minted

\* Funding credits the wallet from the issuance wallet, with no caller.
ApproveFunding(u, id) ==
    /\ id[1] = "FUNDING"
    /\ MayApprove(u, id)
    /\ HasWallet(wallet, draft[id].credited)
    /\ wallet' = Credited(wallet, draft[id].credited, draft[id].amount)
    /\ RecordApproval(u, id)

\* Defunding burns the cash: rights and funds are checked now.
ApproveDefunding(u, id) ==
    /\ id[1] = "DEFUNDING"
    /\ MayApprove(u, id)
    /\ CanDebitAmount(wallet, draft[id].debited, draft[id].amount, EntityOf[u])
    /\ wallet' = Debited(wallet, draft[id].debited, draft[id].amount)
    /\ RecordApproval(u, id)

MovesCash(id) == id[1] \in {"TRANSFER", "DIRECT_RTGS"}

\* A transfer or direct RTGS: a checked debit, then the credit.
ApproveMovement(u, id) ==
    /\ MovesCash(id)
    /\ MayApprove(u, id)
    /\ HasWallet(wallet, draft[id].credited)
    /\ CanDebitAmount(wallet, draft[id].debited, draft[id].amount, EntityOf[u])
    /\ wallet' = Moved(wallet, draft[id].debited, draft[id].credited, draft[id].amount)
    /\ RecordApproval(u, id)

\* With an empty credited alias the assert lets the request through, the debit
\* commits, and the credit throws: the draft stays pending, nothing is recorded.
ApproveLosesCredit(u, id) ==
    /\ MovesCash(id)
    /\ MayApprove(u, id)
    /\ draft[id].credited = NoAlias
    /\ CanDebitAmount(wallet, draft[id].debited, draft[id].amount, EntityOf[u])
    /\ wallet' = Debited(wallet, draft[id].debited, draft[id].amount)
    /\ UNCHANGED <<draft, minted, transactions>>

\* Mutant: cancel does not look at the status.
CancelAnyway(id) ==
    /\ draft[id] # NoDraft
    /\ draft' = [draft EXCEPT ![id].status = "CANCELED"]
    /\ UNCHANGED <<wallet, minted, transactions>>

\* Any authenticated user may cancel.
Cancel(id) ==
    /\ Pending(id)
    /\ draft' = [draft EXCEPT ![id].status = "CANCELED"]
    /\ UNCHANGED <<wallet, minted, transactions>>

-----------------------------------------------------------------------------
\* One-step settlement (execute): no draft, no approver.

\* Mutant: the transaction of a one-step settlement is not recorded.
RecordNothing(u, type, debited, credited, amount) ==
    UNCHANGED <<draft, minted, transactions>>

RecordOneStep(u, type, debited, credited, amount) ==
    /\ transactions' = Append(transactions,
                              [type |-> type, amount |-> amount,
                               debited |-> debited, credited |-> credited,
                               ref |-> NoRef, user |-> u])
    /\ UNCHANGED <<draft, minted>>

\* POST bridge/payments (TRANSFER) and bridge/direct-rtgs/payments.
Execute(u, type, debited, credited, amount) ==
    /\ Len(transactions) < MaxTransactions
    /\ HasWallet(wallet, credited)
    /\ CanDebitAmount(wallet, debited, amount, EntityOf[u])
    /\ wallet' = Moved(wallet, debited, credited, amount)
    /\ RecordOneStep(u, type, debited, credited, amount)

\* The bridge direct RTGS with no credited alias: the debit alone commits.  The
\* bridge payment requires both aliases.
ExecuteLosesCredit(u, debited, credited, amount) ==
    /\ credited = NoAlias
    /\ CanDebitAmount(wallet, debited, amount, EntityOf[u])
    /\ wallet' = Debited(wallet, debited, amount)
    /\ UNCHANGED <<draft, minted, transactions>>

-----------------------------------------------------------------------------
\* Wallets, time and administration.

\* POST ams/wallets/one-step: the owner is always the caller's entity.
CreateWallet(u, a, manager, validity) ==
    /\ EntityOf[u] # NoEntity
    /\ ~ HasWallet(wallet, a)
    /\ wallet' = CreateDcw(wallet, a, EntityOf[u], manager, validity)
    /\ UNCHANGED <<draft, minted, transactions>>

\* The wall clock crosses a bound of a wallet's validity window.
ValidityChanges(a, v) ==
    /\ HasWallet(wallet, a)
    /\ v \in LaterValidities(wallet[a].validity)
    /\ wallet' = [wallet EXCEPT ![a].validity = v]
    /\ UNCHANGED <<draft, minted, transactions>>

\* Mutant: the drafts survive the reset.
ResetButDrafts ==
    /\ wallet' = NoWallets
    /\ transactions' = <<>>
    /\ UNCHANGED <<draft, minted>>

\* POST admin/reset.
Reset ==
    /\ wallet' = NoWallets
    /\ draft' = [id \in DraftIds |-> NoDraft]
    /\ minted' = [t \in TwoStepTypes |-> 0]
    /\ transactions' = <<>>

Create(u) ==
    \/ \E c \in CreditAliases, x \in Amounts, m \in NCBs : CreateFunding(u, c, x, m)
    \/ \E d \in DebitAliases, x \in Amounts : CreateDefunding(u, d, x)
    \/ \E d \in DebitAliases, c \in CreditAliases, x \in Amounts,
          r \in {"PAYMENT", "OPERATION"}, n \in BOOLEAN : CreateTransfer(u, d, c, x, r, n)
    \/ \E d \in DebitAliases, c \in CreditAliases, x \in Amounts :
          CreateDirectRtgs(u, d, c, x)

Transition(u, id) ==
    \/ ApproveFunding(u, id)
    \/ ApproveDefunding(u, id)
    \/ ApproveMovement(u, id)
    \/ ApproveLosesCredit(u, id)

OneStep(u) ==
    \E d \in DebitAliases, c \in CreditAliases, x \in Amounts :
        \/ \E t \in {"TRANSFER", "DIRECT_RTGS"} : Execute(u, t, d, c, x)
        \/ ExecuteLosesCredit(u, d, c, x)

Next ==
    \/ \E u \in Users : Create(u)
    \/ \E u \in Users, id \in DraftIds : Transition(u, id)
    \/ \E id \in DraftIds : Cancel(id)
    \/ \E u \in Users : OneStep(u)
    \/ \E u \in Users, a \in Aliases, m \in NCBs, v \in NewValidities :
          CreateWallet(u, a, m, v)
    \/ \E a \in Aliases, v \in Validities : ValidityChanges(a, v)
    \/ Reset

Spec == Init /\ [][Next]_vars

-----------------------------------------------------------------------------
\* Properties.

\* Settlement of a draft and its transaction come together: a draft is SETTLED
\* exactly when one transaction refers to it, never two, and that transaction
\* carries the draft's type, amount and wallets -- though approval and
\* cancellation of many users race on the status, and a draft's number may be
\* minted again after a reset.
SettledOnce ==
    /\ \A id \in DraftIds :
          draft[id].status = "SETTLED" <=>
              \E i \in DOMAIN transactions : transactions[i].ref = id
    /\ \A i, j \in DOMAIN transactions :
          transactions[i].ref = transactions[j].ref /\ transactions[i].ref # NoRef => i = j
    /\ \A i \in DOMAIN transactions :
          LET tx == transactions[i]
          IN  tx.ref # NoRef =>
                  /\ tx.type = tx.ref[1]
                  /\ tx.amount = draft[tx.ref].amount
                  /\ tx.debited = draft[tx.ref].debited
                  /\ tx.credited = draft[tx.ref].credited

\* Separation of duties: the cash of a two-step draft was moved by a user other
\* than the one who created the draft, and the draft names that user as its
\* approver (the four-eyes check of approve, DOMAIN-MODEL 2.3).  Users are UUIDs:
\* whether two of them are one person, a restart apart, is not seen here.
FourEyes ==
    \A i \in DOMAIN transactions :
        LET tx == transactions[i]
        IN  tx.ref # NoRef =>
                /\ draft[tx.ref].approver = tx.user
                /\ draft[tx.ref].initiator \in Users \ {tx.user}

\* Every transaction that took cash out of a wallet was made by a user of the
\* entity that owns it, although anyone may create the draft and neither
\* creation nor cancellation looks at the owner.  Funding takes it out of none,
\* not even out of a wallet opened under the issuance alias.
DebitsAuthorised ==
    \A i \in DOMAIN transactions :
        LET tx == transactions[i]
        IN  tx.type # "FUNDING" =>
                /\ HasWallet(wallet, tx.debited)
                /\ EntityOf[tx.user] = wallet[tx.debited].owner

\* The manager rule is looked at when a transfer is created and never again; it
\* still holds of the wallets whenever a transfer that names both is pending or
\* settled.
TransfersObeyManagers ==
    \A id \in DraftIds :
        LET d == draft[id]
        IN  /\ id[1] = "TRANSFER"
            /\ d.status \in {"PENDING_APPROVAL", "SETTLED"}
            /\ d.debited \in Aliases
            /\ d.credited \in Aliases
            => /\ HasWallet(wallet, d.debited)
               /\ HasWallet(wallet, d.credited)
               /\ d.requestType = "OPERATION" <=>
                    wallet[d.debited].manager = wallet[d.credited].manager

\* Between creation and approval no wallet a draft is to debit or credit
\* disappears: the asserts approve repeats can refuse nothing that creation
\* accepted.  What funding debits and defunding credits need not be there.
PendingWalletsExist ==
    \A id \in DraftIds :
        Pending(id) => /\ id[1] # "FUNDING" => NamedWalletExists(wallet, draft[id].debited)
                       /\ id[1] # "DEFUNDING" => NamedWalletExists(wallet, draft[id].credited)

\* Whatever the rest of the store goes through, a SETTLED or CANCELED draft stays
\* as it is until the administrator wipes everything (DOMAIN-MODEL 3.1).
FinalDraftsStay ==
    [][\A id \in DraftIds :
          draft[id].status \in {"SETTLED", "CANCELED"} =>
              \/ draft'[id] = draft[id]
              \/ wallet' = NoWallets /\ transactions' = <<>> /\ draft'[id] = NoDraft]_vars

\* The wallet a transaction takes its cash from and the one it gives it to: none,
\* NoAlias, where the issuance wallet stands for the source or the target.
From(tx) == IF tx.type = "FUNDING" THEN NoAlias ELSE tx.debited

To(tx) == IF tx.type = "DEFUNDING" THEN NoAlias ELSE tx.credited

\* What a transaction adds to wallet a, and what it takes.
Gain(tx, a) == IF To(tx) = a THEN tx.amount ELSE 0

Loss(tx, a) == IF From(tx) = a THEN tx.amount ELSE 0

\* The balance wallet a should have after the recorded transactions.  Of no wallet,
\* NoAlias, it is what defunding took out of circulation less what funding brought in.
Replayed(a) ==
    LET after[n \in 0 .. Len(transactions)] ==
            IF n = 0
              THEN 0
              ELSE after[n - 1] + Gain(transactions[n], a) - Loss(transactions[n], a)
    IN  after[Len(transactions)]

\* No wallet ever holds more than the transactions account for, whatever fails
\* half-way (a debit may commit and its credit throw, never the reverse, and a
\* wallet that pays itself gains nothing).
CashNeverCreated == \A a \in Aliases : wallet[a].balance <= Replayed(a)

\* The cash in all wallets.
CashHeld ==
    LET held[S \in SUBSET Aliases] ==
            IF S = {}
              THEN 0
              ELSE LET a == CHOOSE b \in S : TRUE
                   IN  wallet[a].balance + held[S \ {a}]
    IN  held[Aliases]

\* Conservation of value (DOMAIN-MODEL 2.4, issue #77): the cash in all wallets is
\* what funding issued less what defunding returned, by the recorded transactions.
ConservationOfValue == CashHeld + Replayed(NoAlias) = 0

\* What the ledger of these workflows is an implementation of.
Ledger == INSTANCE CashLedger WITH
              Accounts <- Aliases,
              open     <- {a \in Aliases : HasWallet(wallet, a)},
              balance  <- [a \in Aliases |-> wallet[a].balance],
              posted   <- transactions

\* Cash moves only by a recorded transaction, and then by exactly its amount
\* between the wallets it names (conservation of value, issue #77): holds when
\* every request names the wallet it credits.
ImplementsLedger == Ledger!Spec
=============================================================================
