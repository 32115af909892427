-------------------------- MODULE SettlementProofs --------------------------
(***************************************************************************)
(* Safety of Settlement for every set of wallets, entities, users, amounts  *)
(* and every bound.                                                         *)
(***************************************************************************)
EXTENDS Settlement, TLAPS

-----------------------------------------------------------------------------
\* The inductive invariant.

\* Funding drafts draw on the issuance wallet and defunding drafts return to it,
\* whatever the request said.
DraftShape ==
    \A id \in DraftIds :
        draft[id].status # "ABSENT" =>
            /\ id[1] = "FUNDING" => draft[id].debited = Issuance
            /\ id[1] = "DEFUNDING" => draft[id].credited = Issuance

\* The next identifier of a prefix was never used since the last reset.
FreshIds == \A id \in DraftIds : id[2] > minted[id[1]] => draft[id] = NoDraft

\* The invariants Settlement states are preserved only together: a settled draft
\* cannot be settled again because no identifier is minted twice, and it cannot
\* change under its transaction.
IInv ==
    /\ TypeOK
    /\ DraftShape
    /\ FreshIds
    /\ SettledOnce
    /\ FourEyes
    /\ DebitsAuthorised
    /\ TransfersObeyManagers
    /\ PendingWalletsExist

-----------------------------------------------------------------------------
\* Facts about the operators.

\* A minted identifier is a fresh draft identifier, and the sequences stay in range.
LEMMA MintTyped ==
    ASSUME TypeOK, NEW t \in TwoStepTypes, CanMint, Mint(t)
    PROVE  /\ NextId(t) \in DraftIds
           /\ minted' \in [TwoStepTypes -> 0 .. MaxMinted]
           /\ \A id \in DraftIds : id[2] > minted'[id[1]] =>
                  id # NextId(t) /\ id[2] > minted[id[1]]
<1>1. minted[t] + 1 \in 1 .. MaxMinted
  BY SettlementAssumption DEF TypeOK, CanMint, TwoStepTypes
<1>2. \A id \in DraftIds : id = <<id[1], id[2]>> /\ id[1] \in TwoStepTypes /\ id[2] \in Nat
  BY DEF DraftIds
<1>3. minted' = [minted EXCEPT ![t] = minted[t] + 1]
  BY DEF Mint
<1>4. minted' \in [TwoStepTypes -> 0 .. MaxMinted]
  BY <1>1, <1>3 DEF TypeOK
<1>5. NextId(t) \in DraftIds
  BY <1>1 DEF NextId, DraftIds
<1>6. ASSUME NEW id \in DraftIds, id[2] > minted'[id[1]]
      PROVE  id # NextId(t) /\ id[2] > minted[id[1]]
  <2>1. CASE id[1] = t
    <3>1. minted'[t] = minted[t] + 1 /\ minted[t] \in Nat
      BY <1>3 DEF TypeOK
    <3>2. id[2] > minted[t] + 1
      BY <1>6, <2>1, <3>1
    <3>. QED
      BY <1>2, <2>1, <3>1, <3>2 DEF NextId
  <2>2. CASE id[1] # t
    BY <1>2, <1>3, <1>6, <2>2 DEF NextId, TypeOK
  <2>. QED
    BY <2>1, <2>2
<1>. QED
  BY <1>4, <1>5, <1>6

\* No step but the reset takes a wallet away, or changes its owner or manager.
WalletsPersist ==
    /\ wallet' \in WalletMaps
    /\ \A a \in Aliases : HasWallet(wallet, a) =>
          /\ wallet'[a].owner = wallet[a].owner
          /\ wallet'[a].manager = wallet[a].manager

\* A wallet that persists is still there.
LEMMA StillThere ==
    ASSUME WalletsPersist, NEW a \in Aliases, HasWallet(wallet, a)
    PROVE  HasWallet(wallet', a)
BY DEF WalletsPersist, HasWallet

\* And an alias that named a wallet, or none, still does.
LEMMA StillNamed ==
    ASSUME WalletsPersist, NEW a, NamedWalletExists(wallet, a)
    PROVE  NamedWalletExists(wallet', a)
BY DEF WalletsPersist, HasWallet, NamedWalletExists

\* The operations on wallets let every wallet persist.
LEMMA WalletOperations ==
    ASSUME TypeOK, NEW a \in Aliases
    PROVE  /\ UNCHANGED wallet => WalletsPersist
           /\ \A x \in Nat : wallet' = Credited(wallet, a, x) => WalletsPersist
           /\ \A x \in Nat : x <= wallet[a].balance =>
                  (wallet' = Debited(wallet, a, x) => WalletsPersist)
           /\ \A b \in Aliases, x \in Nat : x <= wallet[a].balance =>
                  (wallet' = Moved(wallet, a, b, x) => WalletsPersist)
           /\ \A o \in Entities, m \in NCBs, v \in Validities :
                  ~ HasWallet(wallet, a) =>
                      (wallet' = CreateDcw(wallet, a, o, m, v) => WalletsPersist)
<1>1. wallet \in WalletMaps /\ wallet[a] \in Dcws
  BY DEF TypeOK, WalletMaps
<1>2. UNCHANGED wallet => WalletsPersist
  BY <1>1 DEF WalletsPersist
<1>3. ASSUME NEW x \in Nat, wallet' = Credited(wallet, a, x) PROVE WalletsPersist
  BY <1>1, <1>3 DEF WalletsPersist, Credited, WalletMaps, Dcws
<1>4. ASSUME NEW x \in Nat, x <= wallet[a].balance, wallet' = Debited(wallet, a, x)
      PROVE  WalletsPersist
  BY <1>1, <1>4 DEF WalletsPersist, Debited, WalletMaps, Dcws
<1>5. ASSUME NEW b \in Aliases, NEW x \in Nat, x <= wallet[a].balance,
             wallet' = Moved(wallet, a, b, x)
      PROVE  WalletsPersist
  <2>. DEFINE between == Debited(wallet, a, x)
  <2>1. /\ between \in WalletMaps
        /\ \A c \in Aliases : between[c].owner = wallet[c].owner
                              /\ between[c].manager = wallet[c].manager
    BY <1>1, <1>5 DEF Debited, WalletMaps, Dcws
  <2>2. wallet' = Credited(between, b, x)
    BY <1>5 DEF Moved
  <2>. HIDE DEF between
  <2>. QED
    BY <2>1, <2>2 DEF WalletsPersist, Credited, WalletMaps, Dcws
<1>6. ASSUME NEW o \in Entities, NEW m \in NCBs, NEW v \in Validities,
             ~ HasWallet(wallet, a), wallet' = CreateDcw(wallet, a, o, m, v)
      PROVE  WalletsPersist
  BY <1>1, <1>6 DEF WalletsPersist, CreateDcw, HasWallet, WalletMaps, Dcws
<1>. QED
  BY <1>2, <1>3, <1>4, <1>5, <1>6

-----------------------------------------------------------------------------
\* What each kind of step does to the invariant.

\* A transaction that settles a draft refers to a settled one.
LEMMA SettledRefs ==
    ASSUME IInv, NEW i \in DOMAIN transactions, transactions[i].ref # NoRef
    PROVE  /\ transactions[i].ref \in DraftIds
           /\ draft[transactions[i].ref].status = "SETTLED"
<1>1. transactions[i] \in Transactions
  BY DEF IInv, TypeOK
<1>2. transactions[i].ref \in DraftIds
  BY <1>1 DEF Transactions
<1>. QED
  BY <1>2 DEF IInv, SettledOnce

\* A stored draft is one its creation accepted: of the type of its identifier,
\* naming wallets that exist after the step and whose managers match.
Acceptable(t, d) ==
    /\ d \in Drafts
    /\ d.status = "PENDING_APPROVAL"
    /\ t = "FUNDING" => d.debited = Issuance
    /\ t = "DEFUNDING" => d.credited = Issuance
    /\ t # "FUNDING" => NamedWalletExists(wallet', d.debited)
    /\ t # "DEFUNDING" => NamedWalletExists(wallet', d.credited)
    /\ t = "TRANSFER" /\ d.debited \in Aliases /\ d.credited \in Aliases =>
           (d.requestType = "OPERATION" <=>
               wallet'[d.debited].manager = wallet'[d.credited].manager)

\* Creating a draft, stored or refused, preserves the invariant.
LEMMA CreationPreserves ==
    ASSUME IInv, NEW t \in TwoStepTypes, CanMint, Mint(t),
           NEW d, NEW accepted \in BOOLEAN, StoreDraftIf(accepted, t, d),
           accepted => Acceptable(t, d),
           WalletsPersist, UNCHANGED transactions
    PROVE  IInv'
<1>. DEFINE new == NextId(t)
<1>1. /\ new \in DraftIds
      /\ new[1] = t
      /\ minted' \in [TwoStepTypes -> 0 .. MaxMinted]
      /\ \A id \in DraftIds : id[2] > minted'[id[1]] => id # new /\ id[2] > minted[id[1]]
  BY MintTyped DEF IInv, NextId
<1>2. draft[new] = NoDraft
  <2>1. new[2] > minted[new[1]]
    BY DEF NextId, IInv, TypeOK
  <2>. QED
    BY <1>1, <2>1 DEF IInv, FreshIds
<1>3. draft[new].status = "ABSENT"
  BY <1>2 DEF NoDraft
<1>. HIDE DEF new
<1>4. /\ draft' \in [DraftIds -> Drafts]
      /\ \A id \in DraftIds \ {new} : draft'[id] = draft[id]
      /\ draft'[new] = draft[new] \/ (Acceptable(t, d) /\ draft'[new] = d)
  BY <1>1 DEF StoreDraftIf, Acceptable, IInv, TypeOK, new
<1>5. TypeOK'
  BY <1>1, <1>4 DEF IInv, TypeOK, WalletsPersist
<1>6. DraftShape'
  BY <1>1, <1>3, <1>4 DEF DraftShape, IInv, Acceptable
<1>7. FreshIds'
  BY <1>1, <1>4 DEF FreshIds, IInv
<1>8. \A i \in DOMAIN transactions :
          transactions[i].ref # NoRef =>
              /\ transactions[i].ref \in DraftIds
              /\ transactions[i].ref # new
  BY <1>3, SettledRefs
<1>9. SettledOnce'
  BY <1>1, <1>3, <1>4, <1>8 DEF SettledOnce, IInv, Acceptable
<1>10. FourEyes'
  BY <1>4, <1>8 DEF FourEyes, IInv
<1>11. DebitsAuthorised'
  BY DEF DebitsAuthorised, IInv, WalletsPersist, HasWallet
<1>12. TransfersObeyManagers'
  <2>1. new[1] = "TRANSFER" /\ draft'[new] # draft[new] /\ d.debited \in Aliases
            /\ d.credited \in Aliases
            => /\ HasWallet(wallet', d.debited) /\ HasWallet(wallet', d.credited)
               /\ d.requestType = "OPERATION" <=>
                    wallet'[d.debited].manager = wallet'[d.credited].manager
    BY <1>1, <1>4, DcwAssumption DEF Acceptable, NamedWalletExists
  <2>2. TransfersObeyManagers
    BY DEF IInv
  <2>. HIDE DEF IInv
  <2>. QED
    BY <1>1, <1>3, <1>4, <2>1, <2>2, StillThere DEF TransfersObeyManagers, WalletsPersist
<1>13. PendingWalletsExist'
  BY <1>1, <1>3, <1>4, StillNamed DEF PendingWalletsExist, Pending, IInv, Acceptable
<1>. QED
  BY <1>5, <1>6, <1>7, <1>9, <1>10, <1>11, <1>12, <1>13 DEF IInv

\* A step that only touches wallets preserves the invariant.
LEMMA WalletStepPreserves ==
    ASSUME IInv, WalletsPersist, UNCHANGED <<draft, minted, transactions>>
    PROVE  IInv'
<1>1. TypeOK' /\ DraftShape' /\ FreshIds' /\ SettledOnce' /\ FourEyes'
  BY DEF IInv, TypeOK, WalletsPersist, DraftShape, FreshIds, SettledOnce, FourEyes
<1>2. DebitsAuthorised'
  BY DEF DebitsAuthorised, IInv, WalletsPersist, HasWallet
<1>3. TransfersObeyManagers'
  BY StillThere DEF TransfersObeyManagers, IInv, WalletsPersist
<1>4. PendingWalletsExist'
  BY StillNamed DEF PendingWalletsExist, Pending, IInv
<1>. QED
  BY <1>1, <1>2, <1>3, <1>4 DEF IInv

\* A step that records one more transaction, of a draft it settles or of none.
LEMMA AppendFacts ==
    ASSUME NEW tx \in Transactions, TypeOK, transactions' = Append(transactions, tx)
    PROVE  /\ transactions' \in Seq(Transactions)
           /\ DOMAIN transactions' = DOMAIN transactions \cup {Len(transactions) + 1}
           /\ Len(transactions) + 1 \notin DOMAIN transactions
           /\ \A i \in DOMAIN transactions : transactions'[i] = transactions[i]
           /\ transactions'[Len(transactions) + 1] = tx
BY DEF TypeOK

\* A one-step settlement preserves the invariant.
LEMMA OneStepPreserves ==
    ASSUME IInv, WalletsPersist, NEW u \in Users, NEW type \in TwoStepTypes,
           NEW debited \in Aliases, NEW credited \in Aliases, NEW amount \in Amounts,
           CanDebit(wallet, debited, EntityOf[u]),
           RecordOneStep(u, type, debited, credited, amount)
    PROVE  IInv'
<1>. DEFINE tx == [type |-> type, amount |-> amount, debited |-> debited,
                   credited |-> credited, ref |-> NoRef, user |-> u]
            n  == Len(transactions) + 1
<1>1. tx \in Transactions /\ tx.ref = NoRef /\ tx.debited = debited /\ tx.user = u
  BY DEF Transactions
<1>2. transactions' = Append(transactions, tx) /\ UNCHANGED <<draft, minted>>
  BY DEF RecordOneStep
<1>3. \A id \in DraftIds : id # NoRef
  BY DEF DraftIds, NoRef, TwoStepTypes
<1>. HIDE DEF tx
<1>4. /\ transactions' \in Seq(Transactions)
      /\ DOMAIN transactions' = DOMAIN transactions \cup {n}
      /\ n \notin DOMAIN transactions
      /\ \A i \in DOMAIN transactions : transactions'[i] = transactions[i]
      /\ transactions'[n] = tx
  BY <1>1, <1>2, AppendFacts DEF IInv
<1>. HIDE DEF n
<1>5. TypeOK' /\ DraftShape' /\ FreshIds' /\ TransfersObeyManagers' /\ PendingWalletsExist'
  <2>1. TypeOK' /\ DraftShape' /\ FreshIds'
    BY <1>2, <1>4 DEF IInv, TypeOK, WalletsPersist, DraftShape, FreshIds
  <2>2. TransfersObeyManagers'
    BY <1>2, StillThere DEF TransfersObeyManagers, IInv, WalletsPersist
  <2>3. PendingWalletsExist'
    BY <1>2, StillNamed DEF PendingWalletsExist, Pending, IInv
  <2>. QED
    BY <2>1, <2>2, <2>3
<1>6. SettledOnce'
  BY <1>1, <1>2, <1>3, <1>4 DEF SettledOnce, IInv
<1>7. FourEyes'
  BY <1>1, <1>2, <1>4 DEF FourEyes, IInv
<1>8. DebitsAuthorised'
  BY <1>1, <1>4 DEF DebitsAuthorised, IInv, WalletsPersist, HasWallet, CanDebit
<1>. QED
  BY <1>5, <1>6, <1>7, <1>8 DEF IInv

\* An approval preserves the invariant, whatever its workflow does to wallets.
LEMMA ApprovalPreserves ==
    ASSUME IInv, WalletsPersist, NEW u \in Users, NEW id \in DraftIds,
           MayApprove(u, id), RecordApproval(u, id),
           draft[id].debited \in Aliases \cup {Issuance},
           draft[id].credited \in Aliases \cup {Issuance},
           id[1] # "FUNDING" => CanDebit(wallet, draft[id].debited, EntityOf[u])
    PROVE  IInv'
<1>. DEFINE tx == [type |-> id[1], amount |-> draft[id].amount,
                   debited |-> draft[id].debited, credited |-> draft[id].credited,
                   ref |-> id, user |-> u]
            n  == Len(transactions) + 1
<1>1. draft[id] \in Drafts /\ draft[id].status = "PENDING_APPROVAL"
  BY DEF IInv, TypeOK, MayApprove, Pending
<1>2. /\ tx \in Transactions
      /\ tx.type = id[1] /\ tx.amount = draft[id].amount
      /\ tx.debited = draft[id].debited /\ tx.credited = draft[id].credited
      /\ tx.ref = id /\ tx.user = u
  BY <1>1 DEF Transactions, Drafts, DraftIds
<1>3. /\ transactions' = Append(transactions, tx)
      /\ UNCHANGED minted
  BY DEF RecordApproval
<1>4. /\ draft' \in [DraftIds -> Drafts]
      /\ \A other \in DraftIds \ {id} : draft'[other] = draft[other]
      /\ draft'[id].status = "SETTLED" /\ draft'[id].approver = u
      /\ draft'[id].amount = draft[id].amount
      /\ draft'[id].debited = draft[id].debited
      /\ draft'[id].credited = draft[id].credited
      /\ draft'[id].requestType = draft[id].requestType
      /\ draft'[id].initiator = draft[id].initiator
  BY <1>1 DEF RecordApproval, IInv, TypeOK, Drafts
<1>5. id # NoRef
  BY DEF DraftIds, NoRef, TwoStepTypes
<1>. HIDE DEF tx
<1>6. /\ transactions' \in Seq(Transactions)
      /\ DOMAIN transactions' = DOMAIN transactions \cup {n}
      /\ n \notin DOMAIN transactions
      /\ \A i \in DOMAIN transactions : transactions'[i] = transactions[i]
      /\ transactions'[n] = tx
  BY <1>2, <1>3, AppendFacts DEF IInv
<1>. HIDE DEF n
<1>7. \A i \in DOMAIN transactions :
          transactions[i].ref # NoRef =>
              transactions[i].ref \in DraftIds /\ transactions[i].ref # id
  BY <1>1, SettledRefs
<1>8. TypeOK'
  BY <1>3, <1>4, <1>6 DEF IInv, TypeOK, WalletsPersist
<1>9. DraftShape'
  BY <1>1, <1>4 DEF DraftShape, IInv
<1>10. FreshIds'
  BY <1>1, <1>3, <1>4 DEF FreshIds, IInv, NoDraft
<1>11. SettledOnce'
  BY <1>1, <1>2, <1>4, <1>5, <1>6, <1>7 DEF SettledOnce, IInv
<1>12. FourEyes'
  <2>1. draft[id].initiator \in Users \ {u}
    BY <1>1 DEF MayApprove, Drafts
  <2>. QED
    BY <1>2, <1>4, <1>6, <1>7, <2>1 DEF FourEyes, IInv
<1>13. DebitsAuthorised'
  BY <1>2, <1>6 DEF DebitsAuthorised, IInv, WalletsPersist, HasWallet, CanDebit
<1>14. TransfersObeyManagers'
  <2>1. \A other \in DraftIds :
            /\ draft'[other].debited = draft[other].debited
            /\ draft'[other].credited = draft[other].credited
            /\ draft'[other].requestType = draft[other].requestType
            /\ draft'[other].status \in {"PENDING_APPROVAL", "SETTLED"} =>
                   draft[other].status \in {"PENDING_APPROVAL", "SETTLED"}
    BY <1>1, <1>4
  <2>2. \A a \in Aliases : HasWallet(wallet, a) =>
            HasWallet(wallet', a) /\ wallet'[a].manager = wallet[a].manager
    BY StillThere DEF WalletsPersist
  <2>3. TransfersObeyManagers
    BY DEF IInv
  <2>. HIDE DEF IInv
  <2>. QED
    BY <2>1, <2>2, <2>3 DEF TransfersObeyManagers
<1>15. PendingWalletsExist'
  BY <1>4, StillNamed DEF PendingWalletsExist, Pending, IInv
<1>. QED
  BY <1>8, <1>9, <1>10, <1>11, <1>12, <1>13, <1>14, <1>15 DEF IInv

-----------------------------------------------------------------------------
\* The invariant is inductive.

\* The empty store satisfies it.
LEMMA InitIInv == Init => IInv
<1>. SUFFICES ASSUME Init PROVE IInv
  OBVIOUS
<1>1. \A id \in DraftIds : draft[id] = NoDraft
  BY DEF Init
<1>2. transactions = <<>> /\ DOMAIN transactions = {}
  BY DEF Init
<1>3. TypeOK
  BY SettlementAssumption
  DEF Init, TypeOK, WalletMaps, NoWallets, NoDcw, Dcws, Validities, Drafts, NoDraft, RequestTypes
<1>. QED
  BY <1>1, <1>2, <1>3 DEF IInv, DraftShape, FreshIds, SettledOnce, FourEyes,
     DebitsAuthorised, TransfersObeyManagers, PendingWalletsExist, Pending, NoDraft

\* So does the store after a reset, which is the empty one.
LEMMA ResetIInv == Reset => IInv'
<1>. SUFFICES ASSUME Reset PROVE IInv'
  OBVIOUS
<1>1. \A id \in DraftIds : draft'[id] = NoDraft
  BY DEF Reset
<1>2. transactions' = <<>> /\ DOMAIN transactions' = {}
  BY DEF Reset
<1>3. TypeOK'
  BY SettlementAssumption
  DEF Reset, TypeOK, WalletMaps, NoWallets, NoDcw, Dcws, Validities, Drafts, NoDraft, RequestTypes
<1>. QED
  BY <1>1, <1>2, <1>3 DEF IInv, DraftShape, FreshIds, SettledOnce, FourEyes,
     DebitsAuthorised, TransfersObeyManagers, PendingWalletsExist, Pending, NoDraft

\* What a draft may name as its debited or credited side.
Parties == Aliases \cup {NoAlias, Issuance}

\* A draft the routes build is a pending draft with the fields they give it.
LEMMA PendingDraftTyped ==
    ASSUME NEW x \in Amounts, NEW d \in Parties, NEW c \in Parties,
           NEW r \in RequestTypes, NEW u \in Users
    PROVE  /\ PendingDraft(x, d, c, r, u) \in Drafts
           /\ PendingDraft(x, d, c, r, u).status = "PENDING_APPROVAL"
           /\ PendingDraft(x, d, c, r, u).debited = d
           /\ PendingDraft(x, d, c, r, u).credited = c
           /\ PendingDraft(x, d, c, r, u).requestType = r
BY DEF PendingDraft, Drafts, Parties

\* Every creation preserves the invariant.
LEMMA CreateIInv == ASSUME IInv, NEW u \in Users, Create(u) PROVE IInv'
<1>1. ASSUME NEW c \in CreditAliases, NEW x \in Amounts, NEW m \in NCBs,
             CreateFunding(u, c, x, m)
      PROVE  IInv'
  <2>. DEFINE opens == /\ EntityOf[u] # NoEntity
                       /\ c # NoAlias
                       /\ ~ HasWallet(wallet, c)
              accepted == CanDebit(wallet', c, EntityOf[u])
              d == PendingDraft(x, Issuance, c, "NONE", u)
  <2>1. c \in Aliases \cup {NoAlias} /\ EntityOf[u] \in Entities \cup {NoEntity}
    BY SettlementAssumption
  <2>2. WalletsPersist
    <3>1. CASE opens
      <4>1. c \in Aliases /\ EntityOf[u] \in Entities
        BY <2>1, <3>1
      <4>. QED
        BY <1>1, <3>1, <4>1, WalletOperations DEF CreateFunding, IInv, Validities
    <3>2. CASE ~ opens
      BY <1>1, <3>2 DEF CreateFunding, WalletsPersist, IInv, TypeOK
    <3>. QED
      BY <3>1, <3>2
  <2>3. StoreDraftIf(accepted, "FUNDING", d)
    BY <1>1 DEF CreateFunding
  <2>4. accepted => Acceptable("FUNDING", d)
    <3>1. d \in Drafts /\ d.status = "PENDING_APPROVAL" /\ d.debited = Issuance /\ d.credited = c
      <4>1. "NONE" \in RequestTypes /\ c \in Parties /\ Issuance \in Parties
        BY <2>1 DEF RequestTypes, Parties
      <4>. QED
        BY <4>1, PendingDraftTyped
    <3>2. accepted => NamedWalletExists(wallet', c)
      BY DEF CanDebit, NamedWalletExists
    <3>. HIDE DEF d, accepted
    <3>. QED
      BY <3>1, <3>2 DEF Acceptable
  <2>5. CanMint /\ Mint("FUNDING") /\ UNCHANGED transactions
    BY <1>1 DEF CreateFunding
  <2>. HIDE DEF d
  <2>. QED
    BY <2>2, <2>3, <2>4, <2>5, CreationPreserves DEF TwoStepTypes, CanDebit
<1>2. ASSUME NEW d \in DebitAliases, NEW x \in Amounts, CreateDefunding(u, d, x)
      PROVE  IInv'
  <2>. DEFINE accepted == NamedWalletExists(wallet, d)
              new == PendingDraft(x, d, Issuance, "NONE", u)
  <2>1. /\ CanMint /\ Mint("DEFUNDING") /\ StoreDraftIf(accepted, "DEFUNDING", new)
        /\ UNCHANGED <<wallet, transactions>>
    BY <1>2 DEF CreateDefunding
  <2>2. d \in Aliases \cup {NoAlias}
    BY SettlementAssumption
  <2>3. WalletsPersist
    BY <2>1 DEF WalletsPersist, IInv, TypeOK
  <2>4. accepted => Acceptable("DEFUNDING", new)
    <3>1. /\ new \in Drafts /\ new.status = "PENDING_APPROVAL"
          /\ new.debited = d /\ new.credited = Issuance
      <4>1. "NONE" \in RequestTypes /\ d \in Parties /\ Issuance \in Parties
        BY <2>2 DEF RequestTypes, Parties
      <4>. QED
        BY <4>1, PendingDraftTyped
    <3>2. accepted => NamedWalletExists(wallet', d)
      BY <2>1
    <3>. HIDE DEF new, accepted
    <3>. QED
      BY <3>1, <3>2 DEF Acceptable
  <2>. HIDE DEF new
  <2>. QED
    BY <2>1, <2>3, <2>4, CreationPreserves DEF TwoStepTypes, NamedWalletExists, HasWallet
<1>3. ASSUME NEW d \in DebitAliases, NEW c \in CreditAliases, NEW x \in Amounts,
             NEW r \in {"PAYMENT", "OPERATION"}, NEW n \in BOOLEAN,
             CreateTransfer(u, d, c, x, r, n)
      PROVE  IInv'
  <2>. DEFINE accepted == /\ ManagersMatch(r, d, c, n)
                          /\ NamedWalletExists(wallet, d)
                          /\ NamedWalletExists(wallet, c)
              new == PendingDraft(x, d, c, r, u)
  <2>1. /\ CanMint /\ Mint("TRANSFER") /\ StoreDraftIf(accepted, "TRANSFER", new)
        /\ UNCHANGED <<wallet, transactions>>
    BY <1>3 DEF CreateTransfer
  <2>2. d \in Aliases \cup {NoAlias} /\ c \in Aliases \cup {NoAlias} /\ r \in RequestTypes
    BY SettlementAssumption DEF RequestTypes
  <2>3. WalletsPersist
    BY <2>1 DEF WalletsPersist, IInv, TypeOK
  <2>4. accepted => Acceptable("TRANSFER", new)
    BY <2>1, <2>2, PendingDraftTyped, SettlementAssumption, DcwAssumption
    DEF Acceptable, NamedWalletExists, HasWallet, ManagersMatch, Parties
  <2>5. accepted \in BOOLEAN
    BY DEF ManagersMatch, NamedWalletExists, HasWallet
  <2>. HIDE DEF new, accepted
  <2>. QED
    BY <2>1, <2>3, <2>4, <2>5, CreationPreserves DEF TwoStepTypes
<1>4. ASSUME NEW d \in DebitAliases, NEW c \in CreditAliases, NEW x \in Amounts,
             CreateDirectRtgs(u, d, c, x)
      PROVE  IInv'
  <2>. DEFINE accepted == NamedWalletExists(wallet, d) /\ NamedWalletExists(wallet, c)
              new == PendingDraft(x, d, c, "NONE", u)
  <2>1. /\ CanMint /\ Mint("DIRECT_RTGS") /\ StoreDraftIf(accepted, "DIRECT_RTGS", new)
        /\ UNCHANGED <<wallet, transactions>>
    BY <1>4 DEF CreateDirectRtgs
  <2>2. d \in Aliases \cup {NoAlias} /\ c \in Aliases \cup {NoAlias}
    BY SettlementAssumption
  <2>3. WalletsPersist
    BY <2>1 DEF WalletsPersist, IInv, TypeOK
  <2>4. accepted => Acceptable("DIRECT_RTGS", new)
    BY <2>1, <2>2, PendingDraftTyped, SettlementAssumption, DcwAssumption
    DEF Acceptable, NamedWalletExists, HasWallet, RequestTypes, Parties
  <2>5. accepted \in BOOLEAN
    BY DEF NamedWalletExists, HasWallet
  <2>. HIDE DEF new, accepted
  <2>. QED
    BY <2>1, <2>3, <2>4, <2>5, CreationPreserves DEF TwoStepTypes
<1>. QED
  BY <1>1, <1>2, <1>3, <1>4 DEF Create

\* The amount, the wallets and the rights a debit was checked for.
LEMMA CheckedDebit ==
    ASSUME TypeOK, NEW a, NEW x \in Nat, NEW e, CanDebitAmount(wallet, a, x, e)
    PROVE  a \in Aliases /\ x <= wallet[a].balance /\ CanDebit(wallet, a, e)
BY DEF CanDebitAmount, CanDebit, HasWallet

\* Every approval preserves the invariant.
LEMMA TransitionIInv ==
    ASSUME IInv, NEW u \in Users, NEW id \in DraftIds, Transition(u, id)
    PROVE  IInv'
<1>. DEFINE from   == draft[id].debited
            to     == draft[id].credited
            amount == draft[id].amount
<1>1. draft[id] \in Drafts /\ amount \in Nat
  <2>1. draft[id] \in Drafts
    BY DEF IInv, TypeOK
  <2>2. draft[id].amount \in Amounts \cup {0}
    BY <2>1 DEF Drafts
  <2>3. Amounts \cup {0} \subseteq Nat
    BY SettlementAssumption
  <2>. QED
    BY <2>1, <2>2, <2>3
<1>2. ASSUME ApproveFunding(u, id) PROVE IInv'
  <2>1. from = Issuance
    BY <1>2 DEF IInv, DraftShape, ApproveFunding, MayApprove, Pending
  <2>2. to \in Aliases
    BY <1>2 DEF ApproveFunding, HasWallet
  <2>3. WalletsPersist
    BY <1>1, <1>2, <2>2, WalletOperations DEF ApproveFunding, IInv
  <2>. QED
    BY <1>2, <2>1, <2>2, <2>3, ApprovalPreserves, SettlementAssumption DEF ApproveFunding
<1>3. ASSUME ApproveDefunding(u, id) PROVE IInv'
  <2>1. to = Issuance
    BY <1>3 DEF IInv, DraftShape, ApproveDefunding, MayApprove, Pending
  <2>2. from \in Aliases /\ amount <= wallet[from].balance /\ CanDebit(wallet, from, EntityOf[u])
    BY <1>1, <1>3, CheckedDebit DEF ApproveDefunding, IInv
  <2>3. WalletsPersist
    BY <1>1, <1>3, <2>2, WalletOperations DEF ApproveDefunding, IInv
  <2>. QED
    BY <1>3, <2>1, <2>2, <2>3, ApprovalPreserves DEF ApproveDefunding
<1>4. ASSUME ApproveMovement(u, id) PROVE IInv'
  <2>1. to \in Aliases
    BY <1>4 DEF ApproveMovement, HasWallet
  <2>2. from \in Aliases /\ amount <= wallet[from].balance /\ CanDebit(wallet, from, EntityOf[u])
    BY <1>1, <1>4, CheckedDebit DEF ApproveMovement, IInv
  <2>3. WalletsPersist
    BY <1>1, <1>4, <2>1, <2>2, WalletOperations DEF ApproveMovement, IInv
  <2>. QED
    BY <1>4, <2>1, <2>2, <2>3, ApprovalPreserves DEF ApproveMovement
<1>5. ASSUME ApproveLosesCredit(u, id) PROVE IInv'
  <2>1. from \in Aliases /\ amount <= wallet[from].balance
    BY <1>1, <1>5, CheckedDebit DEF ApproveLosesCredit, IInv
  <2>2. WalletsPersist
    BY <1>1, <1>5, <2>1, WalletOperations DEF ApproveLosesCredit, IInv
  <2>. QED
    BY <1>5, <2>2, WalletStepPreserves DEF ApproveLosesCredit
<1>. QED
  BY <1>2, <1>3, <1>4, <1>5 DEF Transition

\* A cancellation preserves the invariant.
LEMMA CancelIInv == ASSUME IInv, NEW id \in DraftIds, Cancel(id) PROVE IInv'
<1>1. /\ draft' \in [DraftIds -> Drafts]
      /\ \A other \in DraftIds \ {id} : draft'[other] = draft[other]
      /\ draft'[id].status = "CANCELED" /\ draft[id].status = "PENDING_APPROVAL"
      /\ draft'[id].debited = draft[id].debited
      /\ draft'[id].credited = draft[id].credited
  <2>1. /\ draft \in [DraftIds -> Drafts] /\ draft[id].status = "PENDING_APPROVAL"
        /\ draft' = [draft EXCEPT ![id].status = "CANCELED"]
    BY DEF Cancel, Pending, IInv, TypeOK
  <2>2. [draft[id] EXCEPT !.status = "CANCELED"] \in Drafts
    BY <2>1 DEF Drafts
  <2>. HIDE DEF IInv
  <2>. QED
    BY <2>1, <2>2 DEF Drafts
<1>2. UNCHANGED <<wallet, minted, transactions>>
  BY DEF Cancel
<1>3. \A i \in DOMAIN transactions :
          transactions[i].ref # NoRef =>
              transactions[i].ref \in DraftIds /\ transactions[i].ref # id
  BY <1>1, SettledRefs
<1>4. id # NoRef
  BY DEF DraftIds, NoRef, TwoStepTypes
<1>5. TypeOK' /\ DraftShape'
  BY <1>1, <1>2 DEF IInv, TypeOK, DraftShape
<1>6. FreshIds'
  BY <1>1, <1>2 DEF IInv, FreshIds, NoDraft
<1>7. SettledOnce'
  BY <1>1, <1>2, <1>3, <1>4 DEF IInv, SettledOnce
<1>8. FourEyes' /\ DebitsAuthorised'
  BY <1>1, <1>2, <1>3 DEF IInv, FourEyes, DebitsAuthorised
<1>9. TransfersObeyManagers'
  BY <1>1, <1>2 DEF IInv, TransfersObeyManagers, HasWallet
<1>10. PendingWalletsExist'
  BY <1>1, <1>2 DEF IInv, PendingWalletsExist, Pending, NamedWalletExists, HasWallet
<1>. QED
  BY <1>5, <1>6, <1>7, <1>8, <1>9, <1>10 DEF IInv

\* A one-step settlement preserves the invariant, a lost credit included.
LEMMA OneStepIInv == ASSUME IInv, NEW u \in Users, OneStep(u) PROVE IInv'
<1>1. PICK d \in DebitAliases, c \in CreditAliases, x \in Amounts :
          \/ \E t \in {"TRANSFER", "DIRECT_RTGS"} : Execute(u, t, d, c, x)
          \/ ExecuteLosesCredit(u, d, c, x)
  BY DEF OneStep
<1>2. x \in Nat
  BY SettlementAssumption
<1>3. ASSUME NEW t \in {"TRANSFER", "DIRECT_RTGS"}, Execute(u, t, d, c, x) PROVE IInv'
  <2>1. d \in Aliases /\ x <= wallet[d].balance /\ CanDebit(wallet, d, EntityOf[u])
    BY <1>2, <1>3, CheckedDebit DEF Execute, IInv
  <2>2. c \in Aliases
    BY <1>3 DEF Execute, HasWallet
  <2>3. WalletsPersist
    BY <1>2, <1>3, <2>1, <2>2, WalletOperations DEF Execute, IInv
  <2>. QED
    BY <1>3, <2>1, <2>2, <2>3, OneStepPreserves DEF Execute, TwoStepTypes
<1>4. ASSUME ExecuteLosesCredit(u, d, c, x) PROVE IInv'
  <2>1. d \in Aliases /\ x <= wallet[d].balance
    BY <1>2, <1>4, CheckedDebit DEF ExecuteLosesCredit, IInv
  <2>2. WalletsPersist
    BY <1>2, <1>4, <2>1, WalletOperations DEF ExecuteLosesCredit, IInv
  <2>. QED
    BY <1>4, <2>2, WalletStepPreserves DEF ExecuteLosesCredit
<1>. QED
  BY <1>1, <1>3, <1>4

\* Every step preserves the invariant.
LEMMA NextIInv == IInv /\ [Next]_vars => IInv'
<1>. SUFFICES ASSUME IInv, [Next]_vars PROVE IInv'
  OBVIOUS
<1>1. CASE \E u \in Users : Create(u)
  BY <1>1, CreateIInv
<1>2. CASE \E u \in Users, id \in DraftIds : Transition(u, id)
  BY <1>2, TransitionIInv
<1>3. CASE \E id \in DraftIds : Cancel(id)
  BY <1>3, CancelIInv
<1>4. CASE \E u \in Users : OneStep(u)
  BY <1>4, OneStepIInv
<1>5. ASSUME NEW u \in Users, NEW a \in Aliases, NEW m \in NCBs, NEW v \in NewValidities,
             CreateWallet(u, a, m, v)
      PROVE  IInv'
  <2>1. EntityOf[u] \in Entities /\ v \in Validities
    BY <1>5, SettlementAssumption DEF CreateWallet
  <2>2. WalletsPersist
    BY <1>5, <2>1, WalletOperations DEF CreateWallet, IInv
  <2>. QED
    BY <1>5, <2>2, WalletStepPreserves DEF CreateWallet
<1>6. ASSUME NEW a \in Aliases, NEW v \in Validities, ValidityChanges(a, v) PROVE IInv'
  <2>1. WalletsPersist
    BY <1>6 DEF ValidityChanges, WalletsPersist, WalletMaps, Dcws, IInv, TypeOK
  <2>. QED
    BY <1>6, <2>1, WalletStepPreserves DEF ValidityChanges
<1>7. CASE Reset
  BY <1>7, ResetIInv
<1>8. CASE UNCHANGED vars
  <2>1. WalletsPersist
    BY <1>8 DEF vars, WalletsPersist, IInv, TypeOK
  <2>. QED
    BY <1>8, <2>1, WalletStepPreserves DEF vars
<1>. QED
  BY <1>1, <1>2, <1>3, <1>4, <1>5, <1>6, <1>7, <1>8 DEF Next

-----------------------------------------------------------------------------
\* The theorems.

\* The strengthened invariant holds of every reachable store.
THEOREM Invariance == Spec => []IInv
BY InitIInv, NextIInv, PTL DEF Spec

\* Every reachable store is well typed: in particular no balance goes below zero.
THEOREM TypeCorrectness == Spec => []TypeOK
<1>1. IInv => TypeOK
  BY DEF IInv
<1>. QED
  BY <1>1, Invariance, PTL

\* A draft is settled at most once, and exactly by the transaction that names it.
THEOREM SettlesOnce == Spec => []SettledOnce
<1>1. IInv => SettledOnce
  BY DEF IInv
<1>. QED
  BY <1>1, Invariance, PTL

\* No user settles a draft of their own.
THEOREM SeparationOfDuties == Spec => []FourEyes
<1>1. IInv => FourEyes
  BY DEF IInv
<1>. QED
  BY <1>1, Invariance, PTL

\* Only the owner's users take cash out of a wallet.
THEOREM OnlyOwnersDebit == Spec => []DebitsAuthorised
<1>1. IInv => DebitsAuthorised
  BY DEF IInv
<1>. QED
  BY <1>1, Invariance, PTL

\* The manager rule checked at creation holds at settlement.
THEOREM ManagerRuleLasts == Spec => []TransfersObeyManagers
<1>1. IInv => TransfersObeyManagers
  BY DEF IInv
<1>. QED
  BY <1>1, Invariance, PTL

\* A pending draft never names a wallet that is gone.
THEOREM DraftsKeepTheirWallets == Spec => []PendingWalletsExist
<1>1. IInv => PendingWalletsExist
  BY DEF IInv
<1>. QED
  BY <1>1, Invariance, PTL

\* No step but the reset rewrites a settled or cancelled draft: creation writes at
\* a fresh identifier, approval and cancellation at a pending one.
THEOREM FinalDraftsAreFinal == Spec => FinalDraftsStay
<1>. DEFINE Stays(id) == \/ draft'[id] = draft[id]
                         \/ wallet' = NoWallets /\ transactions' = <<>> /\ draft'[id] = NoDraft
            Final(id) == draft[id].status \in {"SETTLED", "CANCELED"}
<1>1. ASSUME IInv, Next, NEW id \in DraftIds, Final(id)
      PROVE  Stays(id)
  <2>1. ASSUME NEW t \in TwoStepTypes, NEW d, NEW accepted,
               CanMint, Mint(t), StoreDraftIf(accepted, t, d)
        PROVE  Stays(id)
    <3>1. NextId(t) \in DraftIds /\ NextId(t)[2] > minted[NextId(t)[1]]
      BY <1>1, <2>1, MintTyped DEF IInv, TypeOK, NextId
    <3>2. draft[NextId(t)].status = "ABSENT"
      BY <1>1, <3>1 DEF IInv, FreshIds, NoDraft
    <3>3. id # NextId(t)
      BY <1>1, <3>2
    <3>. QED
      BY <1>1, <2>1, <3>3 DEF StoreDraftIf, IInv, TypeOK
  <2>2. ASSUME NEW u \in Users, Create(u) PROVE Stays(id)
    <3>1. CASE \E c \in CreditAliases, x \in Amounts, m \in NCBs : CreateFunding(u, c, x, m)
      BY <2>1, <3>1 DEF CreateFunding, TwoStepTypes
    <3>2. CASE \E d \in DebitAliases, x \in Amounts : CreateDefunding(u, d, x)
      BY <2>1, <3>2 DEF CreateDefunding, TwoStepTypes
    <3>3. CASE \E d \in DebitAliases, c \in CreditAliases, x \in Amounts,
                  r \in {"PAYMENT", "OPERATION"}, n \in BOOLEAN :
                  CreateTransfer(u, d, c, x, r, n)
      BY <2>1, <3>3 DEF CreateTransfer, TwoStepTypes
    <3>4. CASE \E d \in DebitAliases, c \in CreditAliases, x \in Amounts :
                  CreateDirectRtgs(u, d, c, x)
      BY <2>1, <3>4 DEF CreateDirectRtgs, TwoStepTypes
    <3>. QED
      BY <2>2, <3>1, <3>2, <3>3, <3>4 DEF Create
  <2>3. ASSUME NEW u \in Users, NEW other \in DraftIds, Transition(u, other) PROVE Stays(id)
    <3>1. CASE ApproveLosesCredit(u, other)
      BY <3>1 DEF ApproveLosesCredit
    <3>2. CASE MayApprove(u, other) /\ RecordApproval(u, other)
      BY <1>1, <3>2 DEF MayApprove, RecordApproval, Pending, IInv, TypeOK
    <3>. QED
      BY <2>3, <3>1, <3>2
      DEF Transition, ApproveFunding, ApproveDefunding, ApproveMovement
  <2>4. ASSUME NEW other \in DraftIds, Cancel(other) PROVE Stays(id)
    BY <1>1, <2>4 DEF Cancel, Pending, IInv, TypeOK
  <2>5. ASSUME NEW u \in Users, OneStep(u) PROVE Stays(id)
    BY <2>5 DEF OneStep, Execute, ExecuteLosesCredit, RecordOneStep
  <2>6. ASSUME NEW u \in Users, NEW a \in Aliases, NEW m \in NCBs, NEW v \in NewValidities,
               CreateWallet(u, a, m, v)
        PROVE  Stays(id)
    BY <2>6 DEF CreateWallet
  <2>7. ASSUME NEW a \in Aliases, NEW v \in Validities, ValidityChanges(a, v)
        PROVE  Stays(id)
    BY <2>7 DEF ValidityChanges
  <2>8. CASE Reset
    BY <2>8 DEF Reset
  <2>. QED
    BY <1>1, <2>2, <2>3, <2>4, <2>5, <2>6, <2>7, <2>8 DEF Next
<1>2. IInv /\ [Next]_vars => [\A id \in DraftIds : Final(id) => Stays(id)]_vars
  BY <1>1
<1>. QED
  BY <1>2, Invariance, PTL DEF Spec, FinalDraftsStay
=============================================================================
