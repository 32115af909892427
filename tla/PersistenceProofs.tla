------------------------- MODULE PersistenceProofs -------------------------
(***************************************************************************)
(* Proofs about Persistence, for any funds, drafts, resets, breaks and      *)
(* crashes.  Of the commands: the newest of a key, as long as it is without *)
(* a reply, carries what the process serves, and Redis holds that once it   *)
(* has been executed.  Of the stores: each prefix of the commands sent      *)
(* leaves one that a process may serve.                                     *)
(***************************************************************************)
EXTENDS Persistence, TLAPS, SequenceTheorems, WellFoundedInduction

\* The commands without a reply.
Sent == {sent[i] : i \in DOMAIN sent}
Fresh == {fresh[i] : i \in DOMAIN fresh}
Open == Sent \cup Fresh \cup failed

Newest(n, k) ==
    /\ n \in DOMAIN keyOf
    /\ keyOf[n] = k
    /\ \A m \in DOMAIN keyOf : keyOf[m] = k => m <= n

-----------------------------------------------------------------------------
\* What a key may hold.

\* Pending drafts have a number, and no sequence is ahead of the drafts created.
FitsAt(k, v, created) ==
    /\ v \in Contents(k)
    /\ k = "wallets" => Len(v.credited) <= Len(v.debited) /\ Len(v.debited) <= Funds
    /\ k = "drafts" => \A id \in Numbers : v[id].status = "PENDING_APPROVAL" => v[id].n \in Numbers
    /\ k = "sequences" => v <= created

Fits(k, v) == FitsAt(k, v, count.created)

AllFit ==
    /\ \A k \in Keys : Fits(k, mem[k]) /\ Fits(k, stored[k])
    /\ \A c \in Open : Fits(c.key, c.value)

-----------------------------------------------------------------------------
\* The commands.

\* No command is on its way twice, and those of a key are sent in order unless one
\* was overtaken.
SentOnce ==
    \A i, j \in DOMAIN sent :
        i < j => /\ sent[i].n # sent[j].n
                 /\ ~ overtaken /\ sent[i].key = sent[j].key => sent[i].n < sent[j].n

FreshLast ==
    /\ \A i, j \in DOMAIN fresh : i < j => fresh[i].n < fresh[j].n
    /\ \A c \in Sent \cup failed, d \in Fresh : c.n < d.n

FailedOnce ==
    /\ \A c, d \in failed : c.n = d.n => c = d
    /\ \A c \in failed, d \in Sent : c.n # d.n

Numbered == \A c \in Open : c.n \in DOMAIN keyOf /\ keyOf[c.n] = c.key

NewestIsServed == \A c \in Open : Newest(c.n, c.key) => c.value = mem[c.key]

Answered(k) == \A c \in Open : c.key = k => ~ Newest(c.n, k)

\* Once the newest command of a key has been executed, Redis holds what is served and
\* no older one is about to replace it.
StoredIsServed ==
    up /\ ~ overtaken =>
        \A k \in Keys : Answered(k) =>
            stored[k] = mem[k] /\ \A c \in Sent \cup Fresh : c.key # k

\* A process that is gone has no commands.
Gone == ~ up => /\ mem = EmptyStore
                /\ sent = <<>> /\ fresh = <<>> /\ failed = {}
                /\ keyOf = <<>> /\ unwritten = {}

CommandsOK ==
    /\ SentOnce /\ FreshLast /\ FailedOnce /\ Numbered
    /\ NewestIsServed /\ StoredIsServed /\ Gone /\ NoWriteDropped

-----------------------------------------------------------------------------
\* The stores, as long as the connection holds.

\* Of a store: drafts are numbered once, at or before the sequence, and of no later
\* era than the wallets; what is settled has moved; what is not has no transaction.
GoodAt(s, created) ==
    /\ \A id \in Numbers :
          s.drafts[id] # NoDraft => /\ s.drafts[id].n \in 1 .. created
                                    /\ s.drafts[id].status # "ABSENT"
                                    /\ id <= s.sequences
                                    /\ s.drafts[id].era <= s.wallets.era
    /\ \A i, j \in Numbers : i # j /\ s.drafts[i] # NoDraft => s.drafts[i].n # s.drafts[j].n
    /\ \A n \in Numbers : Occurs(n, s.transactions) => n <= created
    /\ \A id \in Numbers :
          LET d == s.drafts[id]
          IN  /\ d.status = "SETTLED" /\ d.era = s.wallets.era =>
                     Occurs(d.n, s.wallets.debited) /\ Occurs(d.n, s.wallets.credited)
              /\ d.status \in {"PENDING_APPROVAL", "CANCELED"} => ~ Occurs(d.n, s.transactions)

Good(s) == GoodAt(s, count.created)

Steady == Unbroken => (up => link) /\ fresh = <<>> /\ failed = {}

StoresOK ==
    Unbroken => /\ up => mem = Executed(Len(sent))
                /\ \A j \in 0 .. Len(sent) : Good(Executed(j))

IInv == TypeOK /\ AllFit /\ CommandsOK /\ Steady /\ StoresOK

-----------------------------------------------------------------------------
\* Sequences and commands.

LEMMA LargestExists ==
  ASSUME NEW m \in Nat, NEW I, I \subseteq 1 .. m, I # {}
  PROVE  \E i \in I : \A j \in I : j <= i
<1> DEFINE T == {m - i : i \in I}
<1>0. \A i \in I : i \in Nat /\ i <= m /\ m - i \in Nat
  OBVIOUS
<1>1. T \subseteq Nat /\ T # {}
  BY <1>0
<1>2. \E x \in T : \A y \in T : ~ (<<y, x>> \in OpToRel(<, Nat))
  <2> HIDE DEF T
  <2> QED BY <1>1, NatLessThanWellFounded, WFMin, Zenon
<1>3. PICK x \in T : \A y \in T : ~ (<<y, x>> \in OpToRel(<, Nat))
  BY <1>2, Zenon
<1>4. \A y \in T : ~ (y < x)
  BY <1>1, <1>3, Zenon DEF OpToRel
<1>5. PICK i \in I : x = m - i
  OBVIOUS
<1>6. ASSUME NEW j \in I PROVE j <= i
  <2>1. ~ (m - j < m - i)
    BY <1>4, <1>5
  <2> QED BY <2>1, <1>0
<1> QED BY <1>6

\* The newest command of a key that has one.
LEMMA NewestExists ==
  ASSUME TypeOK, NEW n \in DOMAIN keyOf
  PROVE  \E m \in DOMAIN keyOf : n <= m /\ Newest(m, keyOf[n])
<1> DEFINE I == {m \in DOMAIN keyOf : keyOf[m] = keyOf[n]}
<1>1. Len(keyOf) \in Nat /\ DOMAIN keyOf = 1 .. Len(keyOf)
  BY DEF TypeOK
<1>2. I \subseteq 1 .. Len(keyOf) /\ I # {} /\ n \in I
  BY <1>1
<1>3. PICK m \in I : \A j \in I : j <= m
  <2> HIDE DEF I
  <2> QED BY <1>1, <1>2, LargestExists
<1> QED BY <1>2, <1>3 DEF Newest

LEMMA CommandTyped ==
  ASSUME NEW c \in Commands
  PROVE  /\ c.key \in Keys
         /\ c.value \in Contents(c.key)
         /\ c.n \in Nat \ {0}
         /\ c.attempt \in {1, 2}
         /\ c = [key |-> c.key, value |-> c.value, n |-> c.n, attempt |-> c.attempt]
BY DEF Commands, Setting, Keys

LEMMA IsCommand ==
  ASSUME NEW k \in Keys, NEW v \in Contents(k), NEW n \in Nat \ {0}, NEW a \in {1, 2}
  PROVE  [key |-> k, value |-> v, n |-> n, attempt |-> a] \in Commands
<1> DEFINE c == [key |-> k, value |-> v, n |-> n, attempt |-> a]
<1>1. c \in Setting(k)
  BY DEF Setting
<1>2. Setting(k) \subseteq Commands
  BY DEF Commands, Keys
<1> QED BY <1>1, <1>2

LEMMA OpenTyped ==
  ASSUME TypeOK
  PROVE  /\ Open \subseteq Commands
         /\ Sent \subseteq Commands /\ Fresh \subseteq Commands /\ failed \subseteq Commands
         /\ \A i \in DOMAIN sent : sent[i] \in Sent /\ sent[i] \in Commands
         /\ \A i \in DOMAIN fresh : fresh[i] \in Fresh /\ fresh[i] \in Commands
         /\ Len(sent) \in Nat /\ DOMAIN sent = 1 .. Len(sent)
         /\ Len(fresh) \in Nat /\ DOMAIN fresh = 1 .. Len(fresh)
         /\ Len(keyOf) \in Nat /\ DOMAIN keyOf = 1 .. Len(keyOf)
BY DEF TypeOK, Open, Sent, Fresh

-----------------------------------------------------------------------------
\* Redis after some of the commands sent.

\* A key holds the value of the last command for it, or what it held.
LEMMA ExecutedValue ==
  ASSUME TypeOK, NEW j \in 0 .. Len(sent), NEW k \in Keys
  PROVE  /\ Executed(j) = [q \in Keys |-> Executed(j)[q]]
         /\ (\A i \in 1 .. j : sent[i].key # k) => Executed(j)[k] = stored[k]
         /\ \A i \in 1 .. j : SetsLast(i, k, j) => Executed(j)[k] = sent[i].value
         /\ (\E i \in 1 .. j : sent[i].key = k) => \E i \in 1 .. j : SetsLast(i, k, j)
<1>0. Executed(j) = [q \in Keys |-> Executed(j)[q]]
  BY DEF Executed
<1>1. Executed(j)[k] = IF \E i \in 1 .. j : SetsLast(i, k, j)
                         THEN sent[CHOOSE i \in 1 .. j : SetsLast(i, k, j)].value
                         ELSE stored[k]
  BY DEF Executed
<1>2. ASSUME NEW h \in 1 .. j, NEW i \in 1 .. j, SetsLast(h, k, j), SetsLast(i, k, j)
      PROVE  h = i
  BY <1>2 DEF SetsLast
<1>3. \A i \in 1 .. j : SetsLast(i, k, j) => Executed(j)[k] = sent[i].value
  BY <1>1, <1>2
<1>4. (\A i \in 1 .. j : sent[i].key # k) => Executed(j)[k] = stored[k]
  BY <1>1 DEF SetsLast
<1>5. ASSUME NEW h \in 1 .. j, sent[h].key = k
      PROVE  \E i \in 1 .. j : SetsLast(i, k, j)
  <2> DEFINE I == {i \in 1 .. j : sent[i].key = k}
  <2>1. j \in Nat /\ I \subseteq 1 .. j /\ I # {}
    BY <1>5 DEF TypeOK
  <2>2. PICK i \in I : \A g \in I : g <= i
    <3> HIDE DEF I
    <3> QED BY <2>1, LargestExists
  <2>3. \A g \in i + 1 .. j : sent[g].key # k
    BY <2>2
  <2> QED BY <2>3 DEF SetsLast
<1> QED BY <1>0, <1>3, <1>4, <1>5

\* Redis holds what it can hold wherever the commands are cut.
LEMMA ExecutedFits ==
  ASSUME TypeOK, AllFit, NEW j \in 0 .. Len(sent)
  PROVE  IsStore(Executed(j)) /\ \A k \in Keys : Fits(k, Executed(j)[k])
<1>1. ASSUME NEW k \in Keys
      PROVE  Fits(k, Executed(j)[k])
  <2>1. CASE \A i \in 1 .. j : sent[i].key # k
    BY <2>1, ExecutedValue DEF AllFit
  <2>2. CASE \E i \in 1 .. j : sent[i].key = k
    <3>1. PICK i \in 1 .. j : SetsLast(i, k, j) /\ Executed(j)[k] = sent[i].value
      BY <2>2, ExecutedValue
    <3>2. sent[i] \in Open
      BY OpenTyped DEF Open
    <3> QED BY <3>1, <3>2 DEF AllFit, SetsLast
  <2> QED BY <2>1, <2>2
<1>2. \A k \in Keys : Executed(j)[k] \in Contents(k)
  BY <1>1 DEF Fits, FitsAt
<1>3. Executed(j) = [k \in Keys |-> Executed(j)[k]]
  BY DEF Executed
<1> QED BY <1>1, <1>2, <1>3 DEF IsStore

-----------------------------------------------------------------------------
\* What a handler sends.

Changes == UNION {{k} \X Contents(k) : k \in Keys}

New(changes, i) ==
    [key |-> changes[i][1], value |-> changes[i][2], n |-> Len(keyOf) + i, attempt |-> 1]

Issued(changes) == {New(changes, i) : i \in DOMAIN changes}

LEMMA ChangeTyped ==
  ASSUME TypeOK, NEW changes \in Seq(Changes), NEW i \in DOMAIN changes
  PROVE  /\ changes[i][1] \in Keys
         /\ changes[i][2] \in Contents(changes[i][1])
         /\ New(changes, i) \in Commands
         /\ New(changes, i).key = changes[i][1]
         /\ New(changes, i).value = changes[i][2]
         /\ New(changes, i).n = Len(keyOf) + i
         /\ i \in Nat \ {0} /\ i <= Len(changes)
<1>1. changes[i] \in Changes /\ i \in 1 .. Len(changes) /\ Len(changes) \in Nat
  OBVIOUS
<1>2. changes[i][1] \in Keys /\ changes[i][2] \in Contents(changes[i][1])
  BY <1>1 DEF Changes
<1>3. Len(keyOf) + i \in Nat \ {0}
  BY <1>1 DEF TypeOK
<1>4. New(changes, i) \in Commands
  BY <1>2, <1>3, IsCommand DEF New
<1> QED BY <1>1, <1>2, <1>4 DEF New

LEMMA ConcatParts ==
  ASSUME NEW S, NEW s \in Seq(S), NEW t \in Seq(S)
  PROVE  /\ s \o t \in Seq(S)
         /\ Len(s \o t) = Len(s) + Len(t)
         /\ \A i \in 1 .. Len(s) : (s \o t)[i] = s[i]
         /\ \A i \in 1 .. Len(t) : (s \o t)[Len(s) + i] = t[i]
<1> DEFINE r == s \o t
<1>1. /\ r \in Seq(S) /\ Len(r) = Len(s) + Len(t)
      /\ \A i \in 1 .. Len(s) + Len(t) : r[i] = IF i <= Len(s) THEN s[i] ELSE t[i - Len(s)]
  BY ConcatProperties
<1>2. Len(s) \in Nat /\ Len(t) \in Nat
  OBVIOUS
<1> HIDE DEF r
<1>3. \A i \in 1 .. Len(s) : r[i] = s[i]
  BY <1>1, <1>2
<1>4. ASSUME NEW i \in 1 .. Len(t)
      PROVE  r[Len(s) + i] = t[i]
  <2>1. Len(s) + i \in 1 .. Len(s) + Len(t) /\ ~ (Len(s) + i <= Len(s)) /\ (Len(s) + i) - Len(s) = i
    BY <1>2
  <2> QED BY <1>1, <2>1
<1> QED BY <1>1, <1>3, <1>4 DEF r

\* The commands a handler sends follow all others, on the connection or behind it.
LEMMA Pushed ==
  ASSUME TypeOK, NEW changes \in Seq(Changes), NEW created, Handle(changes, created)
  PROVE  /\ keyOf' \in Seq(Keys)
         /\ Len(keyOf') = Len(keyOf) + Len(changes)
         /\ \A n \in DOMAIN keyOf : keyOf'[n] = keyOf[n]
         /\ \A i \in DOMAIN changes : keyOf'[Len(keyOf) + i] = changes[i][1]
         /\ sent' \in Seq(Commands) /\ fresh' \in Seq(Commands)
         /\ failed' = failed
         /\ \/ /\ link /\ fresh = <<>> /\ fresh' = fresh
               /\ Len(sent') = Len(sent) + Len(changes)
               /\ \A i \in DOMAIN sent : sent'[i] = sent[i]
               /\ \A i \in DOMAIN changes : sent'[Len(sent) + i] = New(changes, i)
            \/ /\ ~ (link /\ fresh = <<>>) /\ sent' = sent
               /\ Len(fresh') = Len(fresh) + Len(changes)
               /\ \A i \in DOMAIN fresh : fresh'[i] = fresh[i]
               /\ \A i \in DOMAIN changes : fresh'[Len(fresh) + i] = New(changes, i)
<1> DEFINE keys == [i \in DOMAIN changes |-> changes[i][1]]
           new == [i \in DOMAIN changes |-> New(changes, i)]
<1>1. DOMAIN changes = 1 .. Len(changes) /\ Len(changes) \in Nat
  OBVIOUS
<1>2. keys \in Seq(Keys) /\ Len(keys) = Len(changes)
  BY <1>1, ChangeTyped
<1>3. new \in Seq(Commands) /\ Len(new) = Len(changes)
  BY <1>1, ChangeTyped
<1>4. keyOf' = keyOf \o keys /\ failed' = failed
  BY DEF Handle
<1>5. \/ link /\ fresh = <<>> /\ sent' = sent \o new /\ fresh' = fresh
      \/ ~ (link /\ fresh = <<>>) /\ fresh' = fresh \o new /\ sent' = sent
  BY DEF Handle, Persist, New
<1>6. /\ sent \in Seq(Commands) /\ Len(sent) \in Nat /\ DOMAIN sent = 1 .. Len(sent)
      /\ fresh \in Seq(Commands) /\ Len(fresh) \in Nat /\ DOMAIN fresh = 1 .. Len(fresh)
      /\ keyOf \in Seq(Keys) /\ Len(keyOf) \in Nat /\ DOMAIN keyOf = 1 .. Len(keyOf)
  BY DEF TypeOK
<1>7. ASSUME NEW S, NEW s \in Seq(S), NEW t \in Seq(S), Len(t) = Len(changes)
      PROVE  /\ s \o t \in Seq(S)
             /\ Len(s \o t) = Len(s) + Len(changes)
             /\ \A i \in 1 .. Len(s) : (s \o t)[i] = s[i]
             /\ \A i \in DOMAIN changes : (s \o t)[Len(s) + i] = t[i]
  <2>1. /\ s \o t \in Seq(S) /\ Len(s \o t) = Len(s) + Len(t)
        /\ \A i \in 1 .. Len(s) : (s \o t)[i] = s[i]
        /\ \A i \in 1 .. Len(t) : (s \o t)[Len(s) + i] = t[i]
    BY ConcatParts
  <2>2. DOMAIN changes = 1 .. Len(t)
    BY <1>1, <1>7
  <2> QED BY <1>7, <2>1, <2>2, Zenon
<1>8. \A i \in DOMAIN changes : keys[i] = changes[i][1] /\ new[i] = New(changes, i)
  OBVIOUS
<1> HIDE DEF keys, new
<1>9. /\ keyOf' \in Seq(Keys)
      /\ Len(keyOf') = Len(keyOf) + Len(changes)
      /\ \A n \in DOMAIN keyOf : keyOf'[n] = keyOf[n]
      /\ \A i \in DOMAIN changes : keyOf'[Len(keyOf) + i] = changes[i][1]
  BY <1>2, <1>4, <1>6, <1>7, <1>8
<1>10. CASE link /\ fresh = <<>> /\ sent' = sent \o new /\ fresh' = fresh
  <2>1. /\ sent' \in Seq(Commands)
        /\ Len(sent') = Len(sent) + Len(changes)
        /\ \A i \in DOMAIN sent : sent'[i] = sent[i]
        /\ \A i \in DOMAIN changes : sent'[Len(sent) + i] = New(changes, i)
    BY <1>3, <1>6, <1>7, <1>8, <1>10
  <2> QED BY <1>4, <1>6, <1>9, <1>10, <2>1
<1>11. CASE ~ (link /\ fresh = <<>>) /\ fresh' = fresh \o new /\ sent' = sent
  <2>1. /\ fresh' \in Seq(Commands)
        /\ Len(fresh') = Len(fresh) + Len(changes)
        /\ \A i \in DOMAIN fresh : fresh'[i] = fresh[i]
        /\ \A i \in DOMAIN changes : fresh'[Len(fresh) + i] = New(changes, i)
    BY <1>3, <1>6, <1>7, <1>8, <1>11
  <2> QED BY <1>4, <1>6, <1>9, <1>11, <2>1
<1> QED BY <1>5, <1>10, <1>11

\* A map holds what the handler's last change of it says.
LEMMA AfterValue ==
  ASSUME TypeOK, NEW changes \in Seq(Changes), NEW k \in Keys
  PROVE  /\ After(changes) = [q \in Keys |-> After(changes)[q]]
         /\ (\A i \in DOMAIN changes : changes[i][1] # k) => After(changes)[k] = mem[k]
         /\ \A i \in DOMAIN changes :
                /\ changes[i][1] = k
                /\ \A j \in DOMAIN changes : changes[j][1] = k => j <= i
                => After(changes)[k] = changes[i][2]
         /\ \A h \in DOMAIN changes : changes[h][1] = k =>
                \E i \in DOMAIN changes :
                   /\ changes[i][1] = k
                   /\ \A j \in DOMAIN changes : changes[j][1] = k => j <= i
<1> DEFINE IsLast(i) == /\ changes[i][1] = k
                        /\ \A j \in DOMAIN changes : changes[j][1] = k => j <= i
<1>0. DOMAIN changes = 1 .. Len(changes) /\ Len(changes) \in Nat
  OBVIOUS
<1>1. After(changes) = [q \in Keys |-> After(changes)[q]]
  BY DEF After
<1>2. After(changes)[k] = IF \E i \in DOMAIN changes : changes[i][1] = k
                            THEN changes[CHOOSE i \in DOMAIN changes : IsLast(i)][2]
                            ELSE mem[k]
  BY DEF After, Last
<1>3. ASSUME NEW h \in DOMAIN changes, NEW i \in DOMAIN changes, IsLast(h), IsLast(i)
      PROVE  h = i
  BY <1>0, <1>3
<1>4. ASSUME NEW i \in DOMAIN changes, IsLast(i)
      PROVE  After(changes)[k] = changes[i][2]
  BY <1>2, <1>3, <1>4
<1>5. ASSUME NEW h \in DOMAIN changes, changes[h][1] = k
      PROVE  \E i \in DOMAIN changes : IsLast(i)
  <2> DEFINE I == {i \in DOMAIN changes : changes[i][1] = k}
  <2>1. I \subseteq 1 .. Len(changes) /\ I # {}
    BY <1>0, <1>5
  <2>2. PICK i \in I : \A g \in I : g <= i
    <3> HIDE DEF I
    <3> QED BY <1>0, <2>1, LargestExists
  <2> QED BY <2>2
<1> QED BY <1>1, <1>2, <1>4, <1>5

LEMMA OpenPushed ==
  ASSUME TypeOK, NEW changes \in Seq(Changes), NEW created, Handle(changes, created)
  PROVE  /\ Open' = Open \cup Issued(changes)
         /\ Sent' \subseteq Sent \cup Issued(changes) /\ Sent \subseteq Sent'
         /\ Fresh' \subseteq Fresh \cup Issued(changes) /\ Fresh \subseteq Fresh'
         /\ failed' = failed
<1>0. /\ DOMAIN changes = 1 .. Len(changes) /\ Len(changes) \in Nat
      /\ DOMAIN sent = 1 .. Len(sent) /\ Len(sent) \in Nat
      /\ DOMAIN fresh = 1 .. Len(fresh) /\ Len(fresh) \in Nat
  BY OpenTyped
<1>1. /\ sent' \in Seq(Commands) /\ fresh' \in Seq(Commands) /\ failed' = failed
      /\ DOMAIN sent' = 1 .. Len(sent') /\ DOMAIN fresh' = 1 .. Len(fresh')
  BY Pushed
<1>2. CASE /\ fresh' = fresh /\ Len(sent') = Len(sent) + Len(changes)
           /\ \A i \in DOMAIN sent : sent'[i] = sent[i]
           /\ \A i \in DOMAIN changes : sent'[Len(sent) + i] = New(changes, i)
  <2>1. Fresh' = Fresh
    BY <1>2 DEF Fresh
  <2>2. Sent \subseteq Sent'
    BY <1>0, <1>1, <1>2 DEF Sent
  <2>3. Issued(changes) \subseteq Sent'
    <3>1. \A i \in DOMAIN changes : Len(sent) + i \in DOMAIN sent'
      BY <1>0, <1>1, <1>2
    <3> QED BY <3>1, <1>2 DEF Issued, Sent
  <2>4. ASSUME NEW i \in DOMAIN sent'
        PROVE  sent'[i] \in Sent \cup Issued(changes)
    <3>1. CASE i <= Len(sent)
      BY <3>1, <1>0, <1>1, <1>2 DEF Sent
    <3>2. CASE ~ (i <= Len(sent))
      <4>1. i - Len(sent) \in DOMAIN changes /\ Len(sent) + (i - Len(sent)) = i
        BY <3>2, <1>0, <1>1, <1>2
      <4> QED BY <4>1, <1>2 DEF Issued
    <3> QED BY <3>1, <3>2
  <2>5. Sent' \subseteq Sent \cup Issued(changes)
    BY <2>4 DEF Sent
  <2> QED BY <1>1, <2>1, <2>2, <2>3, <2>5 DEF Open
<1>3. CASE /\ sent' = sent /\ Len(fresh') = Len(fresh) + Len(changes)
           /\ \A i \in DOMAIN fresh : fresh'[i] = fresh[i]
           /\ \A i \in DOMAIN changes : fresh'[Len(fresh) + i] = New(changes, i)
  <2>1. Sent' = Sent
    BY <1>3 DEF Sent
  <2>2. Fresh \subseteq Fresh'
    BY <1>0, <1>1, <1>3 DEF Fresh
  <2>3. Issued(changes) \subseteq Fresh'
    <3>1. \A i \in DOMAIN changes : Len(fresh) + i \in DOMAIN fresh'
      BY <1>0, <1>1, <1>3
    <3> QED BY <3>1, <1>3 DEF Issued, Fresh
  <2>4. ASSUME NEW i \in DOMAIN fresh'
        PROVE  fresh'[i] \in Fresh \cup Issued(changes)
    <3>1. CASE i <= Len(fresh)
      BY <3>1, <1>0, <1>1, <1>3 DEF Fresh
    <3>2. CASE ~ (i <= Len(fresh))
      <4>1. i - Len(fresh) \in DOMAIN changes /\ Len(fresh) + (i - Len(fresh)) = i
        BY <3>2, <1>0, <1>1, <1>3
      <4> QED BY <4>1, <1>3 DEF Issued
    <3> QED BY <3>1, <3>2
  <2>5. Fresh' \subseteq Fresh \cup Issued(changes)
    BY <2>4 DEF Fresh
  <2> QED BY <1>1, <2>1, <2>2, <2>3, <2>5 DEF Open
<1> QED BY <1>2, <1>3, Pushed

-----------------------------------------------------------------------------
\* A handler keeps the commands right.

LEMMA HandleCommands ==
  ASSUME TypeOK, CommandsOK, NEW changes \in Seq(Changes), NEW created, Handle(changes, created)
  PROVE  CommandsOK'
<1> DEFINE L == Len(keyOf)
<1>1. /\ L \in Nat /\ DOMAIN keyOf = 1 .. L
      /\ DOMAIN changes = 1 .. Len(changes) /\ Len(changes) \in Nat
      /\ keyOf' \in Seq(Keys) /\ DOMAIN keyOf' = 1 .. L + Len(changes)
      /\ \A n \in DOMAIN keyOf : keyOf'[n] = keyOf[n]
      /\ \A i \in DOMAIN changes : keyOf'[L + i] = changes[i][1]
  BY Pushed, OpenTyped
<1>2. \A c \in Open : c \in Commands /\ c.n \in 1 .. L /\ keyOf[c.n] = c.key
  BY <1>1, OpenTyped DEF CommandsOK, Numbered
<1>3. \A i \in DOMAIN changes : /\ New(changes, i) \in Commands
                                /\ New(changes, i).key = changes[i][1]
                                /\ New(changes, i).value = changes[i][2]
                                /\ New(changes, i).n = L + i
  BY ChangeTyped
<1>4. \A c \in Issued(changes) : /\ c \in Commands
                                 /\ c.n \in L + 1 .. L + Len(changes)
                                 /\ keyOf'[c.n] = c.key
  BY <1>1, <1>3 DEF Issued
<1>5. /\ Open' = Open \cup Issued(changes)
      /\ Sent' \subseteq Sent \cup Issued(changes) /\ Sent \subseteq Sent'
      /\ Fresh' \subseteq Fresh \cup Issued(changes) /\ Fresh \subseteq Fresh'
      /\ failed' = failed
      /\ Sent \subseteq Open /\ Fresh \subseteq Open /\ failed \subseteq Open
  BY OpenPushed DEF Open
<1>6. /\ up /\ up' /\ stored' = stored /\ mem' = After(changes) /\ overtaken' = overtaken
      /\ unwritten' = unwritten \cup {L + i : i \in DOMAIN changes}
  BY DEF Handle
<1>7. /\ DOMAIN sent = 1 .. Len(sent) /\ Len(sent) \in Nat
      /\ DOMAIN fresh = 1 .. Len(fresh) /\ Len(fresh) \in Nat
      /\ \A i \in DOMAIN sent : sent[i] \in Open
      /\ \A i \in DOMAIN fresh : fresh[i] \in Open
  BY OpenTyped DEF Open
<1>8. \/ /\ fresh = <<>> /\ fresh' = fresh
         /\ DOMAIN sent' = 1 .. Len(sent) + Len(changes)
         /\ \A i \in DOMAIN sent : sent'[i] = sent[i]
         /\ \A i \in DOMAIN changes : sent'[Len(sent) + i] = New(changes, i)
      \/ /\ sent' = sent
         /\ DOMAIN fresh' = 1 .. Len(fresh) + Len(changes)
         /\ \A i \in DOMAIN fresh : fresh'[i] = fresh[i]
         /\ \A i \in DOMAIN changes : fresh'[Len(fresh) + i] = New(changes, i)
  <2> HIDE DEF L
  <2>1. sent' \in Seq(Commands) /\ fresh' \in Seq(Commands)
    BY Pushed
  <2>2. DOMAIN sent' = 1 .. Len(sent') /\ DOMAIN fresh' = 1 .. Len(fresh')
    BY <2>1
  <2>3. \/ /\ fresh = <<>> /\ fresh' = fresh
           /\ Len(sent') = Len(sent) + Len(changes)
           /\ \A i \in DOMAIN sent : sent'[i] = sent[i]
           /\ \A i \in DOMAIN changes : sent'[Len(sent) + i] = New(changes, i)
        \/ /\ sent' = sent
           /\ Len(fresh') = Len(fresh) + Len(changes)
           /\ \A i \in DOMAIN fresh : fresh'[i] = fresh[i]
           /\ \A i \in DOMAIN changes : fresh'[Len(fresh) + i] = New(changes, i)
    BY Pushed
  <2> QED BY <2>2, <2>3
<1> HIDE DEF L
<1>9. Numbered'
  BY <1>1, <1>2, <1>4, <1>5 DEF Numbered
<1>10. NoWriteDropped'
  <2>1. ASSUME NEW n \in unwritten
        PROVE  \E c \in Open : c.n = n
    BY DEF CommandsOK, NoWriteDropped, NumbersOf, Open, Sent, Fresh
  <2>2. ASSUME NEW i \in DOMAIN changes
        PROVE  \E c \in Issued(changes) : c.n = L + i
    BY <1>3 DEF Issued
  <2>3. \A n \in unwritten' : \E c \in Open' : c.n = n
    BY <2>1, <2>2, <1>5, <1>6
  <2> QED BY <2>3 DEF NoWriteDropped, NumbersOf, Open, Sent, Fresh
<1>11. SentOnce'
  <2>1. CASE sent' = sent
    BY <2>1, <1>6 DEF CommandsOK, SentOnce
  <2>2. CASE /\ DOMAIN sent' = 1 .. Len(sent) + Len(changes)
             /\ \A i \in DOMAIN sent : sent'[i] = sent[i]
             /\ \A i \in DOMAIN changes : sent'[Len(sent) + i] = New(changes, i)
    <3>1. SUFFICES ASSUME NEW i \in DOMAIN sent', NEW j \in DOMAIN sent', i < j
                   PROVE  /\ sent'[i].n # sent'[j].n
                          /\ ~ overtaken /\ sent'[i].key = sent'[j].key => sent'[i].n < sent'[j].n
      BY <1>6 DEF SentOnce
    <3>2. CASE j <= Len(sent)
      <4>1. i \in DOMAIN sent /\ j \in DOMAIN sent
        BY <3>1, <3>2, <2>2, <1>7
      <4> QED BY <4>1, <3>1, <2>2 DEF CommandsOK, SentOnce
    <3>3. CASE ~ (j <= Len(sent))
      <4>1. j - Len(sent) \in DOMAIN changes /\ Len(sent) + (j - Len(sent)) = j
        BY <3>1, <3>3, <2>2, <1>1, <1>7
      <4>2. sent'[j].n = L + (j - Len(sent))
        BY <4>1, <2>2, <1>3
      <4>3. CASE i <= Len(sent)
        <5>1. i \in DOMAIN sent
          BY <3>1, <4>3, <2>2, <1>7
        <5>2. sent'[i].n \in 1 .. L
          BY <5>1, <2>2, <1>2, <1>7
        <5> QED BY <5>2, <4>1, <4>2, <1>1
      <4>4. CASE ~ (i <= Len(sent))
        <5>1. i - Len(sent) \in DOMAIN changes /\ Len(sent) + (i - Len(sent)) = i
          BY <3>1, <4>4, <2>2, <1>1, <1>7
        <5>2. sent'[i].n = L + (i - Len(sent))
          BY <5>1, <2>2, <1>3
        <5> QED BY <5>1, <5>2, <4>1, <4>2, <3>1, <1>1, <1>7
      <4> QED BY <4>3, <4>4
    <3> QED BY <3>2, <3>3
  <2> QED BY <2>1, <2>2, <1>8
<1>12. FreshLast'
  <2>1. CASE /\ fresh = <<>> /\ fresh' = fresh
    <3>1. DOMAIN fresh' = {} /\ Fresh' = {}
      BY <2>1 DEF Fresh
    <3> QED BY <3>1 DEF FreshLast
  <2>2. CASE /\ sent' = sent
             /\ DOMAIN fresh' = 1 .. Len(fresh) + Len(changes)
             /\ \A i \in DOMAIN fresh : fresh'[i] = fresh[i]
             /\ \A i \in DOMAIN changes : fresh'[Len(fresh) + i] = New(changes, i)
    <3>1. ASSUME NEW i \in DOMAIN fresh', NEW j \in DOMAIN fresh', i < j
          PROVE  fresh'[i].n < fresh'[j].n
      <4>1. CASE j <= Len(fresh)
        <5>1. i \in DOMAIN fresh /\ j \in DOMAIN fresh
          BY <3>1, <4>1, <2>2, <1>7
        <5> QED BY <5>1, <3>1, <2>2 DEF CommandsOK, FreshLast
      <4>2. CASE ~ (j <= Len(fresh))
        <5>1. j - Len(fresh) \in DOMAIN changes /\ Len(fresh) + (j - Len(fresh)) = j
          BY <3>1, <4>2, <2>2, <1>1, <1>7
        <5>2. fresh'[j].n = L + (j - Len(fresh))
          BY <5>1, <2>2, <1>3
        <5>3. CASE i <= Len(fresh)
          <6>1. i \in DOMAIN fresh
            BY <3>1, <5>3, <2>2, <1>7
          <6>2. fresh'[i].n \in 1 .. L
            BY <6>1, <2>2, <1>2, <1>7
          <6> QED BY <6>2, <5>1, <5>2, <1>1
        <5>4. CASE ~ (i <= Len(fresh))
          <6>1. i - Len(fresh) \in DOMAIN changes /\ Len(fresh) + (i - Len(fresh)) = i
            BY <3>1, <5>4, <2>2, <1>1, <1>7
          <6>2. fresh'[i].n = L + (i - Len(fresh))
            BY <6>1, <2>2, <1>3
          <6> QED BY <6>1, <6>2, <5>1, <5>2, <3>1, <1>1, <1>7
        <5> QED BY <5>3, <5>4
      <4> QED BY <4>1, <4>2
    <3>2. ASSUME NEW c \in Sent' \cup failed', NEW d \in Fresh'
          PROVE  c.n < d.n
      <4>1. c \in Sent \cup failed
        BY <2>2, <1>5 DEF Sent
      <4>2. CASE d \in Fresh
        BY <4>1, <4>2 DEF CommandsOK, FreshLast
      <4>3. CASE d \in Issued(changes)
        BY <4>1, <4>3, <1>1, <1>2, <1>4, <1>5
      <4> QED BY <4>2, <4>3, <1>5
    <3> QED BY <3>1, <3>2 DEF FreshLast
  <2> QED BY <2>1, <2>2, <1>8
<1>13. FailedOnce'
  <2>1. ASSUME NEW c \in failed, NEW d \in Sent'
        PROVE  c.n # d.n
    <3>1. CASE d \in Sent
      BY <3>1 DEF CommandsOK, FailedOnce
    <3>2. CASE d \in Issued(changes)
      BY <3>2, <1>1, <1>2, <1>4, <1>5
    <3> QED BY <3>1, <3>2, <1>5
  <2> QED BY <2>1, <1>5 DEF CommandsOK, FailedOnce
<1>14. ASSUME NEW k \in Keys, NEW i \in DOMAIN changes, changes[i][1] = k,
              \A j \in DOMAIN changes : changes[j][1] = k => j <= i
       PROVE  \A n : Newest(n, k)' <=> n = L + i
  <2>1. L + i \in DOMAIN keyOf' /\ keyOf'[L + i] = k
    BY <1>1, <1>14
  <2>2. ASSUME NEW m \in DOMAIN keyOf', keyOf'[m] = k
        PROVE  m <= L + i
    <3>1. CASE m <= L
      BY <3>1, <1>1
    <3>2. CASE ~ (m <= L)
      <4>1. m - L \in DOMAIN changes /\ L + (m - L) = m
        BY <3>2, <1>1
      <4>2. changes[m - L][1] = k
        BY <4>1, <2>2, <1>1
      <4> QED BY <4>1, <4>2, <1>1, <1>14
    <3> QED BY <3>1, <3>2
  <2>3. ASSUME NEW n, n = L + i
        PROVE  Newest(n, k)'
    BY <2>1, <2>2, <2>3 DEF Newest
  <2>4. ASSUME NEW n, Newest(n, k)'
        PROVE  n = L + i
    <3>1. n \in DOMAIN keyOf' /\ keyOf'[n] = k /\ L + i <= n
      BY <2>1, <2>4 DEF Newest
    <3> QED BY <3>1, <2>2, <1>1
  <2> QED BY <2>3, <2>4
<1>15. ASSUME NEW k \in Keys, \A i \in DOMAIN changes : changes[i][1] # k, NEW n \in 1 .. L
       PROVE  Newest(n, k)' <=> Newest(n, k)
  <2>1. ASSUME NEW m \in DOMAIN keyOf', keyOf'[m] = k
        PROVE  m \in DOMAIN keyOf
    <3>1. CASE ~ (m <= L)
      <4>1. m - L \in DOMAIN changes /\ L + (m - L) = m
        BY <3>1, <1>1
      <4> QED BY <4>1, <2>1, <1>1, <1>15
    <3> QED BY <3>1, <1>1
  <2>2. DOMAIN keyOf \subseteq DOMAIN keyOf'
    BY <1>1
  <2> QED BY <2>1, <2>2, <1>1 DEF Newest
<1>16. NewestIsServed'
  <2>1. SUFFICES ASSUME NEW c \in Open', Newest(c.n, c.key)'
                 PROVE  c.value = mem'[c.key]
    BY DEF NewestIsServed
  <2>2. c \in Commands /\ c.key \in Keys /\ c.n \in 1 .. L + Len(changes)
    BY <1>1, <1>2, <1>4, <1>5, CommandTyped
  <2>3. CASE \E i \in DOMAIN changes : changes[i][1] = c.key
    <3>1. PICK i \in DOMAIN changes : /\ changes[i][1] = c.key
                                      /\ \A j \in DOMAIN changes : changes[j][1] = c.key => j <= i
      BY <2>2, <2>3, AfterValue
    <3>2. c.n = L + i
      BY <2>1, <2>2, <3>1, <1>14
    <3>3. c \in Issued(changes)
      BY <3>2, <1>1, <1>2, <1>5
    <3>4. PICK j \in DOMAIN changes : c = New(changes, j)
      BY <3>3 DEF Issued
    <3>5. j = i /\ c.value = changes[i][2]
      BY <3>2, <3>4, <1>1, <1>3
    <3> QED BY <2>2, <3>1, <3>5, <1>6, AfterValue
  <2>4. CASE \A i \in DOMAIN changes : changes[i][1] # c.key
    <3>1. c \in Open
      BY <2>4, <1>3, <1>5 DEF Issued
    <3>2. Newest(c.n, c.key)
      BY <2>1, <2>2, <2>4, <3>1, <1>2, <1>15
    <3>3. mem'[c.key] = mem[c.key]
      BY <2>2, <2>4, <1>6, AfterValue
    <3> QED BY <3>1, <3>2, <3>3 DEF CommandsOK, NewestIsServed
  <2> QED BY <2>3, <2>4
<1>17. StoredIsServed'
  <2>1. SUFFICES ASSUME ~ overtaken, NEW k \in Keys, Answered(k)'
                 PROVE  stored[k] = mem'[k] /\ \A c \in Sent' \cup Fresh' : c.key # k
    BY <1>6 DEF StoredIsServed
  <2>2. \A i \in DOMAIN changes : changes[i][1] # k
    <3>1. SUFFICES ASSUME NEW h \in DOMAIN changes, changes[h][1] = k
                   PROVE  FALSE
      OBVIOUS
    <3>2. PICK i \in DOMAIN changes : /\ changes[i][1] = k
                                      /\ \A j \in DOMAIN changes : changes[j][1] = k => j <= i
      BY <3>1, AfterValue
    <3>3. PICK c \in Open' : c.key = k /\ c.n = L + i
      BY <3>2, <1>3, <1>5 DEF Issued
    <3>4. Newest(c.n, k)'
      BY <3>2, <3>3, <1>14
    <3> QED BY <3>3, <3>4, <2>1 DEF Answered
  <2>3. Answered(k)
    <3>1. ASSUME NEW c \in Open, c.key = k, Newest(c.n, k)
          PROVE  FALSE
      <4>1. Newest(c.n, k)'
        BY <3>1, <2>2, <1>2, <1>15
      <4> QED BY <4>1, <3>1, <2>1, <1>5 DEF Answered
    <3> QED BY <3>1 DEF Answered
  <2>4. stored[k] = mem[k] /\ \A c \in Sent \cup Fresh : c.key # k
    BY <2>1, <2>3, <1>6 DEF CommandsOK, StoredIsServed
  <2>5. mem'[k] = mem[k]
    BY <2>2, <1>6, AfterValue
  <2>6. \A c \in Issued(changes) : c.key # k
    BY <2>2, <1>3 DEF Issued
  <2> QED BY <2>4, <2>5, <2>6, <1>5
<1>18. Gone'
  BY <1>6 DEF Gone
<1> QED BY <1>9, <1>10, <1>11, <1>12, <1>13, <1>16, <1>17, <1>18 DEF CommandsOK

-----------------------------------------------------------------------------
\* A handler writes what fits, and the stores between its writes are good.

LEMMA FitsLater ==
  ASSUME NEW k \in Keys, NEW v, NEW a \in Nat, NEW b \in Nat, a <= b, FitsAt(k, v, a)
  PROVE  FitsAt(k, v, b)
<1>1. k = "sequences" => v \in Int
  BY PersistenceAssumption DEF FitsAt, Contents
<1> QED BY <1>1 DEF FitsAt

LEMMA HandleFits ==
  ASSUME TypeOK, AllFit, NEW changes \in Seq(Changes), NEW created \in Nat,
         Handle(changes, created), count.created + created <= MaxCreated,
         \A i \in DOMAIN changes :
             FitsAt(changes[i][1], changes[i][2], count.created + created)
  PROVE  TypeOK' /\ AllFit' /\ count'.created = count.created + created /\ count'.breaks = count.breaks
<1>1. /\ count'.created = count.created + created
      /\ count'.breaks = count.breaks
      /\ count' \in [created : 0 .. MaxCreated, breaks : 0 .. MaxBreaks, crashes : 0 .. MaxCrashes]
      /\ count.created \in Nat /\ count.created <= count'.created /\ count'.created \in Nat
  <2>1. count' = [count EXCEPT !.created = @ + created]
    BY DEF Handle
  <2>2. count \in [created : 0 .. MaxCreated, breaks : 0 .. MaxBreaks, crashes : 0 .. MaxCrashes]
    BY DEF TypeOK
  <2> QED BY <2>1, <2>2, PersistenceAssumption
<1>2. \A k \in Keys : \A v : Fits(k, v) => FitsAt(k, v, count'.created)
  BY <1>1, FitsLater DEF Fits
<1>3. /\ stored' = stored /\ mem' = After(changes) /\ failed' = failed /\ up' = up
      /\ link' = link /\ overtaken' = overtaken
      /\ unwritten' = unwritten \cup {Len(keyOf) + i : i \in DOMAIN changes}
  BY DEF Handle
<1>4. ASSUME NEW k \in Keys
      PROVE  FitsAt(k, mem'[k], count'.created) /\ FitsAt(k, stored'[k], count'.created)
  <2>1. FitsAt(k, mem[k], count'.created) /\ FitsAt(k, stored'[k], count'.created)
    BY <1>2, <1>3 DEF AllFit
  <2>2. CASE \A i \in DOMAIN changes : changes[i][1] # k
    BY <2>1, <2>2, <1>3, AfterValue
  <2>3. CASE \E i \in DOMAIN changes : changes[i][1] = k
    <3>1. PICK i \in DOMAIN changes : changes[i][1] = k /\ mem'[k] = changes[i][2]
      BY <2>3, <1>3, AfterValue
    <3> QED BY <2>1, <3>1, <1>1
  <2> QED BY <2>2, <2>3
<1>5. ASSUME NEW c \in Open'
      PROVE  FitsAt(c.key, c.value, count'.created)
  <2>1. CASE c \in Open
    <3>1. c.key \in Keys
      BY <2>1, OpenTyped, CommandTyped
    <3> QED BY <2>1, <3>1, <1>2 DEF AllFit
  <2>2. CASE c \in Issued(changes)
    <3>1. PICK i \in DOMAIN changes : c = New(changes, i)
      BY <2>2 DEF Issued
    <3>2. c.key = changes[i][1] /\ c.value = changes[i][2]
      BY <3>1, ChangeTyped
    <3> QED BY <3>2, <1>1
  <2> QED BY <2>1, <2>2, OpenPushed
<1>6. AllFit'
  BY <1>4, <1>5 DEF AllFit, Fits
<1>7. IsStore(mem)' /\ IsStore(stored)'
  <2>1. mem' = [k \in Keys |-> mem'[k]]
    BY <1>3 DEF After
  <2>2. \A k \in Keys : mem'[k] \in Contents(k)
    BY <1>4 DEF FitsAt
  <2> QED BY <2>1, <2>2, <1>3 DEF IsStore, TypeOK
<1>8. /\ keyOf' \in Seq(Keys) /\ sent' \in Seq(Commands) /\ fresh' \in Seq(Commands)
      /\ DOMAIN keyOf \subseteq DOMAIN keyOf'
      /\ \A i \in DOMAIN changes : Len(keyOf) + i \in DOMAIN keyOf'
  <2>1. /\ Len(keyOf) \in Nat /\ DOMAIN keyOf = 1 .. Len(keyOf)
        /\ DOMAIN changes = 1 .. Len(changes) /\ Len(changes) \in Nat
    BY OpenTyped
  <2>2. keyOf' \in Seq(Keys) /\ DOMAIN keyOf' = 1 .. Len(keyOf) + Len(changes)
    BY Pushed
  <2> QED BY <2>1, <2>2, Pushed
<1>9. TypeOK'
  BY <1>1, <1>3, <1>7, <1>8 DEF TypeOK
<1> QED BY <1>1, <1>6, <1>9

\* The last command sets its key, and leaves the others.
ExecutedSteps ==
    /\ Executed(0) = stored
    /\ \A j \in 1 .. Len(sent) :
          /\ Executed(j) = [q \in Keys |-> Executed(j)[q]]
          /\ Executed(j)[sent[j].key] = sent[j].value
          /\ \A k \in Keys : k # sent[j].key => Executed(j)[k] = Executed(j - 1)[k]

\* A key holds what the last command for it set.
LastSet ==
    \A j \in 0 .. Len(sent), k \in Keys :
        /\ (\A i \in 1 .. j : sent[i].key # k) => Executed(j)[k] = stored[k]
        /\ \A i \in 1 .. j : SetsLast(i, k, j) => Executed(j)[k] = sent[i].value

LEMMA LastSetOfEach == TypeOK => LastSet
BY ExecutedValue DEF LastSet

LEMMA Stepwise == TypeOK => ExecutedSteps
<1> SUFFICES ASSUME TypeOK PROVE ExecutedSteps
  OBVIOUS
<1>1. Executed(0) = stored
  <2>1. stored = [k \in Keys |-> stored[k]]
    BY DEF TypeOK, IsStore
  <2>2. 1 .. 0 = {}
    OBVIOUS
  <2>3. Executed(0) = [k \in Keys |-> stored[k]]
    BY <2>2 DEF Executed
  <2> QED BY <2>1, <2>3
<1>2. ASSUME NEW j \in 1 .. Len(sent)
      PROVE  /\ Executed(j) = [q \in Keys |-> Executed(j)[q]]
             /\ Executed(j)[sent[j].key] = sent[j].value
             /\ \A k \in Keys : k # sent[j].key => Executed(j)[k] = Executed(j - 1)[k]
  <2>1. Len(sent) \in Nat /\ j \in DOMAIN sent /\ j \in 0 .. Len(sent) /\ j - 1 \in 0 .. Len(sent)
    BY OpenTyped
  <2>2. sent[j].key \in Keys
    BY <2>1, OpenTyped, CommandTyped
  <2>3. SetsLast(j, sent[j].key, j)
    BY <2>1 DEF SetsLast
  <2>4. Executed(j)[sent[j].key] = sent[j].value
    BY <2>1, <2>2, <2>3, ExecutedValue
  <2>5. ASSUME NEW k \in Keys, k # sent[j].key
        PROVE  Executed(j)[k] = Executed(j - 1)[k]
    <3>1. \A i : i \in 1 .. j /\ sent[i].key = k => i \in 1 .. j - 1
      BY <2>1, <2>5
    <3>2. CASE \A i \in 1 .. j - 1 : sent[i].key # k
      <4>1. \A i \in 1 .. j : sent[i].key # k
        BY <3>1, <3>2
      <4>2. Executed(j)[k] = stored[k]
        BY <4>1, <2>1, ExecutedValue
      <4>3. Executed(j - 1)[k] = stored[k]
        BY <3>2, <2>1, ExecutedValue
      <4> QED BY <4>2, <4>3
    <3>3. CASE \E i \in 1 .. j - 1 : sent[i].key = k
      <4>1. PICK i \in 1 .. j - 1 : SetsLast(i, k, j - 1) /\ Executed(j - 1)[k] = sent[i].value
        BY <3>3, <2>1, ExecutedValue
      <4>2. i \in 1 .. j /\ sent[i].key = k
        BY <4>1, <2>1 DEF SetsLast
      <4>3. ASSUME NEW h \in i + 1 .. j
            PROVE  sent[h].key # k
        <5>1. h = j \/ h \in i + 1 .. j - 1
          BY <2>1
        <5> QED BY <5>1, <4>1, <2>5 DEF SetsLast
      <4>4. Executed(j)[k] = sent[i].value
        BY <4>2, <4>3, <2>1, ExecutedValue DEF SetsLast
      <4> QED BY <4>1, <4>4
    <3> QED BY <3>2, <3>3
  <2>6. Executed(j) = [q \in Keys |-> Executed(j)[q]]
    BY DEF Executed
  <2> QED BY <2>4, <2>5, <2>6
<1> QED BY <1>1, <1>2 DEF ExecutedSteps

\* A chain of stores, each the one before with one key changed.
Chain(s, changes) ==
    /\ s[0] = mem
    /\ \A i \in DOMAIN changes :
          /\ s[i] = [k \in Keys |-> s[i][k]]
          /\ s[i][changes[i][1]] = changes[i][2]
          /\ \A k \in Keys : k # changes[i][1] => s[i][k] = s[i - 1][k]

LEMMA GoodLater ==
  ASSUME NEW s, NEW a \in Nat, NEW b \in Nat, a <= b, GoodAt(s, a)
  PROVE  GoodAt(s, b)
<1>1. 1 .. a \subseteq 1 .. b
  OBVIOUS
<1>2. \A n \in Numbers : n <= a => n <= b
  BY PersistenceAssumption DEF Numbers
<1> QED BY <1>1, <1>2 DEF GoodAt

LEMMA HandleStores ==
  ASSUME TypeOK, TypeOK', Steady, StoresOK, NEW changes \in Seq(Changes), NEW created \in Nat,
         Handle(changes, created),
         count'.created = count.created + created, count'.breaks = count.breaks,
         \A s : Unbroken /\ Good(mem) /\ Chain(s, changes) =>
             \A i \in DOMAIN changes : GoodAt(s[i], count.created + created)
  PROVE  Steady' /\ StoresOK'
<1>1. up /\ up' /\ link' = link /\ failed' = failed /\ mem' = After(changes) /\ stored' = stored
  BY DEF Handle
<1>2. Steady'
  <2>1. Unbroken' => Unbroken
    BY DEF Unbroken
  <2>2. Unbroken' => fresh' = fresh
    BY <2>1, <1>1, Pushed DEF Steady
  <2> QED BY <2>1, <2>2, <1>1 DEF Steady
<1> SUFFICES ASSUME Unbroken'
             PROVE  /\ mem' = Executed(Len(sent))'
                    /\ \A j \in 0 .. Len(sent') : Good(Executed(j))'
  BY <1>1, <1>2 DEF StoresOK
<1> PICK m : m = Len(sent)
  OBVIOUS
<1>3. /\ DOMAIN changes = 1 .. Len(changes) /\ Len(changes) \in Nat
      /\ m \in Nat /\ DOMAIN sent = 1 .. m
  BY OpenTyped
<1>4. /\ Unbroken
      /\ sent' \in Seq(Commands)
      /\ Len(sent') = m + Len(changes) /\ DOMAIN sent' = 1 .. m + Len(changes)
      /\ \A i \in DOMAIN sent : sent'[i] = sent[i]
      /\ \A i \in DOMAIN changes : sent'[m + i] = New(changes, i)
  BY <1>1, <1>3, Pushed DEF Steady, Unbroken
<1>5. \A i \in DOMAIN changes : sent'[m + i].key = changes[i][1] /\ sent'[m + i].value = changes[i][2]
  BY <1>4, ChangeTyped
<1>6. mem = Executed(m) /\ \A j \in 0 .. m : Good(Executed(j))
  BY <1>1, <1>4 DEF StoresOK
<1>7. \A j \in 0 .. m : Executed(j)' = Executed(j)
  <2>1. ASSUME NEW j \in 0 .. m, NEW i \in 1 .. j
        PROVE  sent'[i] = sent[i]
    BY <1>3, <1>4
  <2>2. ASSUME NEW j \in 0 .. m, NEW i \in 1 .. j, NEW k \in Keys
        PROVE  SetsLast(i, k, j)' <=> SetsLast(i, k, j)
    <3>1. \A h \in i + 1 .. j : h \in 1 .. j
      OBVIOUS
    <3> QED BY <3>1, <2>1 DEF SetsLast
  <2> QED BY <2>1, <2>2, <1>1 DEF Executed
<1>8. TypeOK' => ExecutedSteps'
  BY Stepwise, PTL
<1>9. TypeOK' => LastSet'
  BY LastSetOfEach, PTL
<1>10. \A j \in 1 .. m + Len(changes) :
          /\ Executed(j)' = [q \in Keys |-> Executed(j)'[q]]
          /\ Executed(j)'[sent'[j].key] = sent'[j].value
          /\ \A k \in Keys : k # sent'[j].key => Executed(j)'[k] = Executed(j - 1)'[k]
  BY <1>4, <1>8 DEF ExecutedSteps
<1> DEFINE s == [i \in 0 .. Len(changes) |-> Executed(m + i)']
<1>11. Chain(s, changes)
  <2>1. s[0] = mem
    BY <1>3, <1>6, <1>7
  <2>2. ASSUME NEW i \in DOMAIN changes
        PROVE  /\ s[i] = [k \in Keys |-> s[i][k]]
               /\ s[i][changes[i][1]] = changes[i][2]
               /\ \A k \in Keys : k # changes[i][1] => s[i][k] = s[i - 1][k]
    <3>1. /\ i \in 0 .. Len(changes) /\ i - 1 \in 0 .. Len(changes)
          /\ m + i \in 1 .. m + Len(changes) /\ (m + i) - 1 = m + (i - 1)
      BY <1>3
    <3>2. s[i] = Executed(m + i)' /\ s[i - 1] = Executed((m + i) - 1)'
      BY <3>1
    <3>3. sent'[m + i].key = changes[i][1] /\ sent'[m + i].value = changes[i][2]
      BY <1>5
    <3>4. /\ Executed(m + i)' = [q \in Keys |-> Executed(m + i)'[q]]
          /\ Executed(m + i)'[sent'[m + i].key] = sent'[m + i].value
          /\ \A k \in Keys : k # sent'[m + i].key =>
                 Executed(m + i)'[k] = Executed((m + i) - 1)'[k]
      BY <3>1, <1>10
    <3> HIDE DEF s
    <3> QED BY <3>2, <3>3, <3>4
  <2> QED BY <2>1, <2>2 DEF Chain
<1>12. \A i \in DOMAIN changes : GoodAt(s[i], count'.created)
  <2> HIDE DEF s
  <2> QED BY <1>3, <1>4, <1>6, <1>11
<1>13. ASSUME NEW j \in 0 .. m + Len(changes)
       PROVE  GoodAt(Executed(j)', count'.created)
  <2>1. CASE j <= m
    <3>1. j \in 0 .. m /\ Executed(j)' = Executed(j) /\ GoodAt(Executed(j), count.created)
      BY <2>1, <1>3, <1>6, <1>7 DEF Good
    <3>2. count.created \in Nat /\ count'.created \in Nat /\ count.created <= count'.created
      BY PersistenceAssumption DEF TypeOK
    <3> QED BY <3>1, <3>2, GoodLater
  <2>2. CASE ~ (j <= m)
    <3>1. j - m \in DOMAIN changes /\ j - m \in 0 .. Len(changes) /\ m + (j - m) = j
      BY <2>2, <1>3
    <3> QED BY <3>1, <1>12
  <2> QED BY <2>1, <2>2
<1>14. mem' = Executed(Len(sent))'
  <2> DEFINE e == Executed(m + Len(changes))'
  <2>1. e = Executed(Len(sent))'
    BY <1>4
  <2>2. e = [q \in Keys |-> e[q]]
    BY DEF Executed
  <2>3. mem' = [q \in Keys |-> mem'[q]]
    BY <1>1 DEF After
  <2>4. ASSUME NEW k \in Keys
        PROVE  e[k] = mem'[k]
    <3>0. /\ (\A i \in 1 .. m + Len(changes) : sent'[i].key # k) => e[k] = stored'[k]
          /\ \A i \in 1 .. m + Len(changes) : SetsLast(i, k, m + Len(changes))' => e[k] = sent'[i].value
      BY <1>3, <1>4, <1>9 DEF LastSet
    <3> HIDE DEF e
    <3>1. CASE \A i \in DOMAIN changes : changes[i][1] # k
      <4>1. mem'[k] = Executed(m)[k]
        BY <3>1, <1>1, <1>6, AfterValue
      <4>2. ASSUME NEW i \in 1 .. m + Len(changes), ~ (i <= m)
            PROVE  sent'[i].key # k
        <5>1. i - m \in DOMAIN changes /\ m + (i - m) = i
          BY <4>2, <1>3
        <5> QED BY <5>1, <3>1, <1>5
      <4>3. CASE \A i \in 1 .. m : sent[i].key # k
        <5>0. \A i \in 1 .. m : sent'[i].key # k
          BY <4>3, <1>3, <1>4
        <5>1. \A i \in 1 .. m + Len(changes) : sent'[i].key # k
          BY <4>2, <5>0, <1>3
        <5>2. Executed(m)[k] = stored[k]
          BY <4>3, <1>3, ExecutedValue
        <5> QED BY <4>1, <5>1, <5>2, <3>0, <1>1
      <4>4. CASE \E i \in 1 .. m : sent[i].key = k
        <5>1. PICK i \in 1 .. m : SetsLast(i, k, m) /\ Executed(m)[k] = sent[i].value
          BY <4>4, <1>3, ExecutedValue
        <5>2. i \in 1 .. m + Len(changes) /\ sent'[i] = sent[i]
          BY <1>3, <1>4
        <5>3. ASSUME NEW h \in i + 1 .. m + Len(changes)
              PROVE  sent'[h].key # k
          <6>1. CASE h <= m
            BY <6>1, <5>1, <1>3, <1>4 DEF SetsLast
          <6>2. CASE ~ (h <= m)
            BY <6>2, <4>2, <5>1, <1>3
          <6> QED BY <6>1, <6>2
        <5>4. SetsLast(i, k, m + Len(changes))'
          BY <5>1, <5>2, <5>3 DEF SetsLast
        <5> QED BY <4>1, <5>1, <5>2, <5>4, <3>0
      <4> QED BY <4>3, <4>4
    <3>2. CASE \E i \in DOMAIN changes : changes[i][1] = k
      <4>1. PICK i \in DOMAIN changes : /\ changes[i][1] = k
                                        /\ \A j \in DOMAIN changes : changes[j][1] = k => j <= i
        BY <3>2, AfterValue
      <4>2. mem'[k] = changes[i][2]
        BY <4>1, <1>1, AfterValue
      <4>3. m + i \in 1 .. m + Len(changes) /\ sent'[m + i].key = k /\ sent'[m + i].value = changes[i][2]
        BY <4>1, <1>3, <1>5
      <4>4. ASSUME NEW h \in m + i + 1 .. m + Len(changes)
            PROVE  sent'[h].key # k
        <5>1. h - m \in DOMAIN changes /\ m + (h - m) = h /\ ~ (h - m <= i)
          BY <1>3, <4>3
        <5>2. sent'[h].key = changes[h - m][1]
          BY <5>1, <1>5
        <5> QED BY <4>1, <5>1, <5>2
      <4>5. SetsLast(m + i, k, m + Len(changes))'
        BY <4>3, <4>4 DEF SetsLast
      <4> QED BY <4>2, <4>3, <4>5, <3>0
    <3> QED BY <3>1, <3>2
  <2> HIDE DEF e
  <2> QED BY <2>1, <2>2, <2>3, <2>4
<1> QED BY <1>4, <1>13, <1>14 DEF Good

LEMMA HandleIInv ==
  ASSUME IInv, NEW changes \in Seq(Changes), NEW created \in Nat,
         Handle(changes, created), count.created + created <= MaxCreated,
         \A i \in DOMAIN changes :
             FitsAt(changes[i][1], changes[i][2], count.created + created),
         \A s : Unbroken /\ Good(mem) /\ Chain(s, changes) =>
             \A i \in DOMAIN changes : GoodAt(s[i], count.created + created)
  PROVE  IInv'
<1>1. TypeOK /\ AllFit /\ CommandsOK /\ Steady /\ StoresOK
  BY DEF IInv
<1>2. TypeOK' /\ AllFit' /\ count'.created = count.created + created /\ count'.breaks = count.breaks
  BY <1>1, HandleFits
<1>3. CommandsOK'
  BY <1>1, HandleCommands
<1>4. Steady' /\ StoresOK'
  BY <1>1, <1>2, HandleStores
<1> QED BY <1>2, <1>3, <1>4 DEF IInv

-----------------------------------------------------------------------------
\* The handlers.

LEMMA MemTyped ==
  ASSUME IInv
  PROVE  /\ mem.wallets \in Wallets
         /\ Len(mem.wallets.credited) <= Len(mem.wallets.debited)
         /\ Len(mem.wallets.debited) <= Funds
         /\ mem.drafts \in [Numbers -> Drafts]
         /\ \A id \in Numbers : mem.drafts[id].status = "PENDING_APPROVAL" => mem.drafts[id].n \in Numbers
         /\ mem.transactions \in Seq(Numbers)
         /\ mem.sequences \in 0 .. MaxCreated /\ mem.sequences <= count.created
         /\ count.created \in 0 .. MaxCreated /\ count.created + 0 = count.created
<1>1. \A k \in Keys : Fits(k, mem[k])
  BY DEF IInv, AllFit
<1>2. Fits("wallets", mem.wallets) /\ Fits("drafts", mem.drafts)
  BY <1>1 DEF Keys
<1>3. Fits("transactions", mem.transactions) /\ Fits("sequences", mem.sequences)
  BY <1>1 DEF Keys
<1>4. mem.wallets \in Wallets /\ mem.drafts \in [Numbers -> Drafts]
  BY <1>2 DEF Fits, FitsAt, Contents
<1>5. mem.transactions \in Seq(Numbers) /\ mem.sequences \in 0 .. MaxCreated
  BY <1>3 DEF Fits, FitsAt, Contents
<1>6. count.created \in 0 .. MaxCreated
  BY DEF IInv, TypeOK
<1> QED BY <1>2, <1>3, <1>4, <1>5, <1>6, PersistenceAssumption DEF Fits, FitsAt

\* The four ways a value fits.
LEMMA WalletsFit ==
  ASSUME NEW w \in Wallets, NEW a, Len(w.credited) <= Len(w.debited), Len(w.debited) <= Funds
  PROVE  FitsAt("wallets", w, a) /\ <<"wallets", w>> \in Changes
BY DEF FitsAt, Contents, Changes, Keys

LEMMA DraftsFit ==
  ASSUME NEW d \in [Numbers -> Drafts], NEW a,
         \A id \in Numbers : d[id].status = "PENDING_APPROVAL" => d[id].n \in Numbers
  PROVE  FitsAt("drafts", d, a) /\ <<"drafts", d>> \in Changes
BY DEF FitsAt, Contents, Changes, Keys

LEMMA TransactionsFit ==
  ASSUME NEW t \in Seq(Numbers), NEW a
  PROVE  FitsAt("transactions", t, a) /\ <<"transactions", t>> \in Changes
BY DEF FitsAt, Contents, Changes, Keys

LEMMA SequencesFit ==
  ASSUME NEW q \in 0 .. MaxCreated, NEW a, q <= a
  PROVE  FitsAt("sequences", q, a) /\ <<"sequences", q>> \in Changes
BY DEF FitsAt, Contents, Changes, Keys

LEMMA OccursAppend ==
  ASSUME NEW s \in Seq(Numbers), NEW n \in Numbers
  PROVE  /\ Append(s, n) \in Seq(Numbers)
         /\ Len(Append(s, n)) = Len(s) + 1
         /\ \A m : Occurs(m, Append(s, n)) <=> Occurs(m, s) \/ m = n
<1>1. /\ Append(s, n) \in Seq(Numbers)
      /\ Len(Append(s, n)) = Len(s) + 1
      /\ DOMAIN Append(s, n) = 1 .. Len(s) + 1
      /\ DOMAIN s = 1 .. Len(s) /\ Len(s) \in Nat
      /\ Append(s, n)[Len(s) + 1] = n
      /\ \A i \in 1 .. Len(s) : Append(s, n)[i] = s[i]
  BY AppendProperties
<1>2. ASSUME NEW m
      PROVE  Occurs(m, Append(s, n)) <=> Occurs(m, s) \/ m = n
  <2> DEFINE r == Append(s, n)
  <2> HIDE DEF r
  <2>1. Occurs(m, r) <=> \E i \in 1 .. Len(s) + 1 : r[i] = m
    BY <1>1 DEF Occurs, r
  <2>2. Occurs(m, s) <=> \E i \in 1 .. Len(s) : s[i] = m
    BY <1>1 DEF Occurs
  <2>3. \A i \in 1 .. Len(s) + 1 : i \in 1 .. Len(s) \/ i = Len(s) + 1
    BY <1>1
  <2>4. Len(s) + 1 \in 1 .. Len(s) + 1 /\ 1 .. Len(s) \subseteq 1 .. Len(s) + 1
    BY <1>1
  <2> QED BY <1>1, <2>1, <2>2, <2>3, <2>4 DEF r
<1> QED BY <1>1, <1>2

LEMMA ChainStep ==
  ASSUME NEW s, NEW changes, Chain(s, changes), NEW i \in DOMAIN changes, changes[i][1] \in Keys
  PROVE  LET k == changes[i][1]
             v == changes[i][2]
         IN  /\ s[i].wallets = IF k = "wallets" THEN v ELSE s[i - 1].wallets
             /\ s[i].drafts = IF k = "drafts" THEN v ELSE s[i - 1].drafts
             /\ s[i].transactions = IF k = "transactions" THEN v ELSE s[i - 1].transactions
             /\ s[i].sequences = IF k = "sequences" THEN v ELSE s[i - 1].sequences
BY DEF Chain, Keys

LEMMA FundIInv == ASSUME IInv, Fund PROVE IInv'
<1> DEFINE w == [mem.wallets EXCEPT !.open = TRUE]
           changes == << <<"wallets", w>> >>
<1>1. /\ w \in Wallets /\ w.era = mem.wallets.era
      /\ w.debited = mem.wallets.debited /\ w.credited = mem.wallets.credited
  BY MemTyped DEF Wallets
<1> HIDE DEF w
<1>2. FitsAt("wallets", w, count.created + 0) /\ <<"wallets", w>> \in Changes
  BY <1>1, MemTyped, WalletsFit
<1>3. changes \in Seq(Changes) /\ DOMAIN changes = 1 .. 1
  BY <1>2
<1>4. \A i \in DOMAIN changes : FitsAt(changes[i][1], changes[i][2], count.created + 0)
  BY <1>2, <1>3
<1>5. ASSUME NEW s, Unbroken, Good(mem), Chain(s, changes)
      PROVE  \A i \in DOMAIN changes : GoodAt(s[i], count.created + 0)
  <2>1. /\ s[1].wallets = w /\ s[1].drafts = mem.drafts
        /\ s[1].transactions = mem.transactions /\ s[1].sequences = mem.sequences
    <3>1. changes[1][1] = "wallets" /\ changes[1][2] = w /\ 1 \in DOMAIN changes /\ s[0] = mem
      BY <1>3, <1>5 DEF Chain
    <3> HIDE DEF changes
    <3> QED BY <1>5, <3>1, ChainStep DEF Keys
  <2>2. GoodAt(s[1], count.created)
    BY <1>1, <1>5, <2>1 DEF Good, GoodAt
  <2> QED BY <1>3, <2>2, MemTyped
<1>6. Handle(changes, 0)
  BY DEF Fund, w
<1>7. count.created + 0 <= MaxCreated
  BY MemTyped
<1> HIDE DEF changes
<1> QED BY <1>3, <1>4, <1>5, <1>6, <1>7, HandleIInv

LEMMA CreateIInv == ASSUME IInv, Create PROVE IInv'
<1> DEFINE id == mem.sequences + 1
           new == [n |-> count.created + 1, era |-> mem.wallets.era, status |-> "PENDING_APPROVAL"]
           d == NewDrafts(id)
           changes == << <<"sequences", id>>, <<"drafts", d>> >>
<1>1. /\ count.created \in Nat /\ count.created + 1 \in Numbers
      /\ id \in Numbers /\ id \in 0 .. MaxCreated /\ id <= count.created + 1
  <2>1. count.created < MaxCreated
    BY DEF Create
  <2> QED BY <2>1, MemTyped, PersistenceAssumption DEF Numbers
<1>2. new \in Drafts
  BY <1>1, MemTyped DEF Drafts, Wallets
<1>3. /\ d \in [Numbers -> Drafts]
      /\ d[id] = new
      /\ \A q \in Numbers : q # id => d[q] = mem.drafts[q]
  BY <1>1, <1>2, MemTyped DEF NewDrafts
<1>4. new.n = count.created + 1 /\ new.era = mem.wallets.era /\ new.status = "PENDING_APPROVAL"
  OBVIOUS
<1>5. Handle(changes, 1) /\ count.created + 1 <= MaxCreated
  BY <1>1, MemTyped DEF Create, Numbers
<1> HIDE DEF id, new, d
<1>6. \A q \in Numbers : d[q].status = "PENDING_APPROVAL" => d[q].n \in Numbers
  BY <1>1, <1>3, <1>4, MemTyped
<1>7. /\ FitsAt("sequences", id, count.created + 1) /\ <<"sequences", id>> \in Changes
      /\ FitsAt("drafts", d, count.created + 1) /\ <<"drafts", d>> \in Changes
  BY <1>1, <1>3, <1>6, SequencesFit, DraftsFit
<1>8. /\ changes \in Seq(Changes) /\ DOMAIN changes = 1 .. 2
      /\ changes[1][1] = "sequences" /\ changes[1][2] = id
      /\ changes[2][1] = "drafts" /\ changes[2][2] = d
  BY <1>7
<1> HIDE DEF changes
<1>9. \A i \in DOMAIN changes : FitsAt(changes[i][1], changes[i][2], count.created + 1)
  BY <1>7, <1>8
<1>10. ASSUME NEW s, Unbroken, Good(mem), Chain(s, changes)
       PROVE  \A i \in DOMAIN changes : GoodAt(s[i], count.created + 1)
  <2>1. /\ s[1].wallets = mem.wallets /\ s[1].drafts = mem.drafts
        /\ s[1].transactions = mem.transactions /\ s[1].sequences = id
    <3>1. s[0] = mem /\ 1 \in DOMAIN changes
      BY <1>8, <1>10 DEF Chain
    <3> QED BY <1>8, <1>10, <3>1, ChainStep DEF Keys
  <2>2. /\ s[2].wallets = mem.wallets /\ s[2].drafts = d
        /\ s[2].transactions = mem.transactions /\ s[2].sequences = id
    <3>1. 2 \in DOMAIN changes
      BY <1>8
    <3> QED BY <1>8, <1>10, <2>1, <3>1, ChainStep DEF Keys
  <2>3. GoodAt(mem, count.created + 1)
    BY <1>1, <1>10, GoodLater DEF Good
  <2>4. \A q \in Numbers : q <= mem.sequences => q <= id
    BY <1>1, MemTyped DEF id, Numbers
  <2>5. GoodAt(s[1], count.created + 1)
    BY <2>1, <2>3, <2>4 DEF GoodAt
  <2>6. GoodAt(s[2], count.created + 1)
    <3>1. \A q \in Numbers : mem.drafts[q] # NoDraft => mem.drafts[q].n # new.n
      BY <1>1, <1>4, <1>10 DEF Good, GoodAt
    <3>2. \A q \in Numbers : mem.drafts[q] = NoDraft => mem.drafts[q].n # new.n
      BY <1>1, <1>4 DEF NoDraft
    <3>3. ~ Occurs(new.n, mem.transactions)
      BY <1>1, <1>4, <1>10, MemTyped DEF Good, GoodAt
    <3>4. ASSUME NEW q \in Numbers, d[q] # NoDraft
          PROVE  /\ d[q].n \in 1 .. count.created + 1
                 /\ d[q].status # "ABSENT"
                 /\ q <= id
                 /\ d[q].era <= mem.wallets.era
      <4>1. CASE q = id
        BY <4>1, <1>1, <1>3, <1>4, MemTyped DEF Numbers, Wallets
      <4>2. CASE q # id
        BY <4>2, <3>4, <1>3, <2>3, <2>4 DEF GoodAt
      <4> QED BY <4>1, <4>2
    <3>5. ASSUME NEW i \in Numbers, NEW j \in Numbers, i # j, d[i] # NoDraft
          PROVE  d[i].n # d[j].n
      <4>1. CASE i = id
        BY <4>1, <3>1, <3>2, <3>5, <1>3
      <4>2. CASE j = id
        BY <4>2, <3>1, <3>5, <1>3
      <4>3. CASE i # id /\ j # id
        BY <4>3, <3>5, <1>3, <2>3 DEF GoodAt
      <4> QED BY <4>1, <4>2, <4>3
    <3>6. ASSUME NEW q \in Numbers
          PROVE  /\ d[q].status = "SETTLED" /\ d[q].era = mem.wallets.era =>
                       Occurs(d[q].n, mem.wallets.debited) /\ Occurs(d[q].n, mem.wallets.credited)
                 /\ d[q].status \in {"PENDING_APPROVAL", "CANCELED"} => ~ Occurs(d[q].n, mem.transactions)
      <4>1. CASE q = id
        BY <4>1, <3>3, <1>3, <1>4
      <4>2. CASE q # id
        BY <4>2, <1>3, <2>3 DEF GoodAt
      <4> QED BY <4>1, <4>2
    <3>7. \A n \in Numbers : Occurs(n, mem.transactions) => n <= count.created + 1
      BY <2>3 DEF GoodAt
    <3> QED BY <2>2, <3>4, <3>5, <3>6, <3>7 DEF GoodAt
  <2> QED BY <1>8, <2>5, <2>6
<1> QED BY <1>5, <1>8, <1>9, <1>10, HandleIInv

\* A draft of another status is the same draft.
LEMMA WithStatusOf ==
  ASSUME IInv, NEW id \in Numbers, NEW status \in {"SETTLED", "CANCELED"}
  PROVE  LET d == WithStatus(id, status)
         IN  /\ d \in [Numbers -> Drafts]
             /\ \A q \in Numbers : d[q].n = mem.drafts[q].n /\ d[q].era = mem.drafts[q].era
             /\ d[id].status = status
             /\ \A q \in Numbers : q # id => d[q] = mem.drafts[q]
<1>1. mem.drafts[id] \in Drafts
  BY MemTyped
<1>2. /\ [mem.drafts[id] EXCEPT !.status = status] \in Drafts
      /\ [mem.drafts[id] EXCEPT !.status = status].n = mem.drafts[id].n
      /\ [mem.drafts[id] EXCEPT !.status = status].era = mem.drafts[id].era
      /\ [mem.drafts[id] EXCEPT !.status = status].status = status
  BY <1>1 DEF Drafts
<1>3. /\ WithStatus(id, status)[id] = [mem.drafts[id] EXCEPT !.status = status]
      /\ \A q \in Numbers : q # id => WithStatus(id, status)[q] = mem.drafts[q]
      /\ WithStatus(id, status) = [q \in Numbers |-> WithStatus(id, status)[q]]
  BY MemTyped DEF WithStatus
<1>4. \A q \in Numbers : WithStatus(id, status)[q] \in Drafts
  BY <1>2, <1>3, MemTyped
<1> QED BY <1>2, <1>3, <1>4

LEMMA CancelIInv == ASSUME IInv, NEW id \in Numbers, Cancel(id) PROVE IInv'
<1> DEFINE d == WithStatus(id, "CANCELED")
           changes == << <<"drafts", d>> >>
<1>1. /\ d \in [Numbers -> Drafts]
      /\ \A q \in Numbers : d[q].n = mem.drafts[q].n /\ d[q].era = mem.drafts[q].era
      /\ d[id].status = "CANCELED"
      /\ \A q \in Numbers : q # id => d[q] = mem.drafts[q]
  BY WithStatusOf
<1>2. mem.drafts[id].status = "PENDING_APPROVAL" /\ Handle(changes, 0)
  BY DEF Cancel
<1> HIDE DEF d
<1>3. \A q \in Numbers : d[q].status = "PENDING_APPROVAL" => d[q].n \in Numbers
  BY <1>1, MemTyped
<1>4. FitsAt("drafts", d, count.created + 0) /\ <<"drafts", d>> \in Changes
  BY <1>1, <1>3, DraftsFit
<1>5. /\ changes \in Seq(Changes) /\ DOMAIN changes = 1 .. 1
      /\ changes[1][1] = "drafts" /\ changes[1][2] = d
  BY <1>4
<1> HIDE DEF changes
<1>6. \A i \in DOMAIN changes : FitsAt(changes[i][1], changes[i][2], count.created + 0)
  BY <1>4, <1>5
<1>7. ASSUME NEW s, Unbroken, Good(mem), Chain(s, changes)
      PROVE  \A i \in DOMAIN changes : GoodAt(s[i], count.created + 0)
  <2>1. /\ s[1].wallets = mem.wallets /\ s[1].drafts = d
        /\ s[1].transactions = mem.transactions /\ s[1].sequences = mem.sequences
    <3>1. s[0] = mem /\ 1 \in DOMAIN changes
      BY <1>5, <1>7 DEF Chain
    <3> QED BY <1>5, <1>7, <3>1, ChainStep DEF Keys
  <2>2. mem.drafts[id] # NoDraft /\ \A q \in Numbers : d[q] # NoDraft => mem.drafts[q] # NoDraft
    BY <1>1, <1>2 DEF NoDraft
  <2>3. \A q \in Numbers : d[q].status # "ABSENT" \/ d[q] = mem.drafts[q]
    BY <1>1
  <2>4. GoodAt(mem, count.created)
    BY <1>7 DEF Good
  <2>5. GoodAt(s[1], count.created)
    BY <1>1, <1>2, <2>1, <2>2, <2>3, <2>4 DEF GoodAt
  <2> QED BY <1>5, <2>5, MemTyped
<1>8. count.created + 0 <= MaxCreated
  BY MemTyped
<1> QED BY <1>2, <1>5, <1>6, <1>7, <1>8, HandleIInv

LEMMA ResetIInv == ASSUME IInv, Reset PROVE IInv'
<1> DEFINE w == NoWallets(mem.wallets.era + 1)
           d == EmptyStore.drafts
           changes == << <<"wallets", w>>, <<"drafts", d>>,
                         <<"transactions", EmptyStore.transactions>>,
                         <<"sequences", EmptyStore.sequences>> >>
<1>1. /\ w \in Wallets /\ w.era = mem.wallets.era + 1 /\ mem.wallets.era \in Nat
      /\ Len(w.credited) <= Len(w.debited) /\ Len(w.debited) <= Funds
  <2>1. mem.wallets.era \in 0 .. MaxEra /\ mem.wallets.era < MaxEra
    BY MemTyped DEF Wallets, Reset
  <2> QED BY <2>1, PersistenceAssumption DEF NoWallets, Wallets
<1>2. /\ d \in [Numbers -> Drafts] /\ \A q \in Numbers : d[q] = NoDraft
      /\ NoDraft.status = "ABSENT"
      /\ EmptyStore.transactions = <<>> /\ <<>> \in Seq(Numbers)
      /\ EmptyStore.sequences = 0 /\ 0 \in 0 .. MaxCreated
  BY PersistenceAssumption DEF EmptyStore, NoDraft, Drafts
<1>3. Handle(changes, 0)
  BY DEF Reset
<1> HIDE DEF w, d
<1>4. /\ FitsAt("wallets", w, count.created + 0) /\ <<"wallets", w>> \in Changes
      /\ FitsAt("drafts", d, count.created + 0) /\ <<"drafts", d>> \in Changes
      /\ FitsAt("transactions", <<>>, count.created + 0) /\ <<"transactions", <<>> >> \in Changes
      /\ FitsAt("sequences", 0, count.created + 0) /\ <<"sequences", 0>> \in Changes
  <2>1. \A q \in Numbers : d[q].status = "PENDING_APPROVAL" => d[q].n \in Numbers
    BY <1>2
  <2>2. 0 <= count.created + 0
    BY MemTyped
  <2> QED BY <1>1, <1>2, <2>1, <2>2, WalletsFit, DraftsFit, TransactionsFit, SequencesFit
<1>5. /\ changes \in Seq(Changes) /\ DOMAIN changes = 1 .. 4
      /\ changes[1][1] = "wallets" /\ changes[1][2] = w
      /\ changes[2][1] = "drafts" /\ changes[2][2] = d
      /\ changes[3][1] = "transactions" /\ changes[3][2] = <<>>
      /\ changes[4][1] = "sequences" /\ changes[4][2] = 0
  BY <1>2, <1>4
<1> HIDE DEF changes
<1>6. \A i \in DOMAIN changes : FitsAt(changes[i][1], changes[i][2], count.created + 0)
  BY <1>4, <1>5
<1>7. ASSUME NEW s, Unbroken, Good(mem), Chain(s, changes)
      PROVE  \A i \in DOMAIN changes : GoodAt(s[i], count.created + 0)
  <2>1. /\ s[1].wallets = w /\ s[1].drafts = mem.drafts
        /\ s[1].transactions = mem.transactions /\ s[1].sequences = mem.sequences
    <3>1. s[0] = mem /\ 1 \in DOMAIN changes
      BY <1>5, <1>7 DEF Chain
    <3> QED BY <1>5, <1>7, <3>1, ChainStep DEF Keys
  <2>2. /\ s[2].wallets = w /\ s[2].drafts = d
        /\ s[2].transactions = mem.transactions /\ s[2].sequences = mem.sequences
    <3>1. 2 \in DOMAIN changes
      BY <1>5
    <3> QED BY <1>5, <1>7, <2>1, <3>1, ChainStep DEF Keys
  <2>3. s[3].wallets = w /\ s[3].drafts = d /\ s[3].transactions = <<>>
    <3>1. 3 \in DOMAIN changes
      BY <1>5
    <3> QED BY <1>5, <1>7, <2>2, <3>1, ChainStep DEF Keys
  <2>4. s[4].wallets = w /\ s[4].drafts = d /\ s[4].transactions = <<>>
    <3>1. 4 \in DOMAIN changes
      BY <1>5
    <3> QED BY <1>5, <1>7, <2>3, <3>1, ChainStep DEF Keys
  <2>5. GoodAt(mem, count.created)
    BY <1>7 DEF Good
  <2>6. \A q \in Numbers : /\ mem.drafts[q] \in Drafts
                           /\ mem.drafts[q] # NoDraft => mem.drafts[q].era < w.era
                           /\ mem.drafts[q].status = "SETTLED" => mem.drafts[q] # NoDraft
    <3>1. \A q \in Numbers : mem.drafts[q] \in Drafts
      BY MemTyped
    <3>2. \A q \in Numbers : mem.drafts[q].era \in Nat
      BY <3>1, PersistenceAssumption DEF Drafts
    <3> QED BY <1>1, <2>5, <3>1, <3>2 DEF GoodAt, NoDraft
  <2>7. \A q \in Numbers : mem.drafts[q].era \in Nat
    BY <2>6, PersistenceAssumption DEF Drafts
  <2>8. GoodAt(s[1], count.created)
    BY <1>1, <2>1, <2>5, <2>6, <2>7 DEF GoodAt
  <2>9. \A m : ~ Occurs(m, <<>>)
    BY DEF Occurs
  <2>10. GoodAt(s[2], count.created)
    BY <1>2, <2>2, <2>5 DEF GoodAt
  <2>11. GoodAt(s[3], count.created) /\ GoodAt(s[4], count.created)
    BY <1>2, <2>3, <2>4, <2>9 DEF GoodAt
  <2> QED BY <1>5, <2>8, <2>10, <2>11, MemTyped
<1>8. count.created + 0 <= MaxCreated
  BY MemTyped
<1> QED BY <1>3, <1>5, <1>6, <1>7, <1>8, HandleIInv

LEMMA TwoAndTwo ==
  ASSUME NEW a, NEW b, NEW c, NEW d
  PROVE  <<a, b>> \o <<c, d>> = <<a, b, c, d>>
<1> DEFINE S == {a, b, c, d}
           l == <<a, b>>
           r == <<c, d>>
           q == l \o r
<1>1. l \in Seq(S) /\ r \in Seq(S) /\ <<a, b, c, d>> \in Seq(S)
  OBVIOUS
<1>2. Len(l) = 2 /\ Len(r) = 2 /\ l[1] = a /\ l[2] = b /\ r[1] = c /\ r[2] = d
  OBVIOUS
<1>3. /\ q \in Seq(S) /\ Len(q) = Len(l) + Len(r)
      /\ \A i \in 1 .. Len(l) : q[i] = l[i]
      /\ \A i \in 1 .. Len(r) : q[Len(l) + i] = r[i]
  <2> HIDE DEF l, r, S
  <2> QED BY <1>1, ConcatParts
<1> HIDE DEF q, l, r
<1>4. Len(q) = 4 /\ q[1] = a /\ q[2] = b /\ q[2 + 1] = c /\ q[2 + 2] = d
  BY <1>2, <1>3
<1>5. q = <<a, b, c, d>>
  <2> DEFINE u == <<a, b, c, d>>
  <2>1. Len(u) = 4 /\ \A i \in 1 .. 4 : q[i] = u[i]
    BY <1>4
  <2>2. u \in Seq(S)
    BY <1>1
  <2> HIDE DEF u, S
  <2> QED BY <1>3, <1>4, <2>1, <2>2, SeqEqual DEF u
<1> QED BY <1>5 DEF q, l, r

\* More in the wallets, the rest the same.
LEMMA GoodMoved ==
  ASSUME NEW s, NEW r, NEW a, GoodAt(s, a),
         r.drafts = s.drafts, r.transactions = s.transactions, r.sequences = s.sequences,
         r.wallets.era = s.wallets.era,
         \A m : Occurs(m, s.wallets.debited) => Occurs(m, r.wallets.debited),
         \A m : Occurs(m, s.wallets.credited) => Occurs(m, r.wallets.credited)
  PROVE  GoodAt(r, a)
<1>1. ASSUME NEW id \in Numbers, s.drafts[id].status = "SETTLED", s.drafts[id].era = s.wallets.era
      PROVE  Occurs(s.drafts[id].n, r.wallets.debited) /\ Occurs(s.drafts[id].n, r.wallets.credited)
  <2>1. Occurs(s.drafts[id].n, s.wallets.debited) /\ Occurs(s.drafts[id].n, s.wallets.credited)
    BY <1>1 DEF GoodAt
  <2> QED BY <2>1
<1> QED BY <1>1 DEF GoodAt

LEMMA ApproveIInv == ASSUME IInv, NEW id \in Numbers, Approve(id) PROVE IInv'
<1> DEFINE n == mem.drafts[id].n
           w1 == AfterDebit(n)
           w2 == AfterCredit(n)
           d == WithStatus(id, "SETTLED")
           t == Append(mem.transactions, n)
           changes == << <<"wallets", w1>>, <<"wallets", w2>>, <<"drafts", d>>, <<"transactions", t>> >>
<1>1. mem.drafts[id].status = "PENDING_APPROVAL" /\ Covered /\ n \in Numbers
  BY MemTyped DEF Approve
<1>2. /\ d \in [Numbers -> Drafts]
      /\ \A q \in Numbers : d[q].n = mem.drafts[q].n /\ d[q].era = mem.drafts[q].era
      /\ d[id].status = "SETTLED"
      /\ \A q \in Numbers : q # id => d[q] = mem.drafts[q]
  BY WithStatusOf
<1>3. Handle(changes, 0)
  <2>1. << <<"wallets", w1>>, <<"wallets", w2>> >> \o << <<"drafts", d>>, <<"transactions", t>> >> = changes
    <3> HIDE DEF w1, w2, d, t
    <3> QED BY TwoAndTwo
  <2>2. Moved(n) = << <<"wallets", w1>>, <<"wallets", w2>> >>
    BY DEF Moved
  <2> QED BY <2>1, <2>2 DEF Approve
<1> HIDE DEF d
<1>4. /\ mem.wallets.debited \in Seq(Numbers) /\ mem.wallets.credited \in Seq(Numbers)
      /\ Len(mem.wallets.debited) \in Nat /\ Len(mem.wallets.credited) \in Nat
      /\ Len(mem.wallets.debited) < Funds
      /\ Len(mem.wallets.credited) <= Len(mem.wallets.debited)
      /\ mem.transactions \in Seq(Numbers)
  BY <1>1, MemTyped DEF Covered, Wallets
<1>5. /\ w1 = [mem.wallets EXCEPT !.debited = Append(mem.wallets.debited, n)]
      /\ w2 = [w1 EXCEPT !.credited = Append(w1.credited, n)]
  BY DEF AfterDebit, AfterCredit
<1>6. /\ Append(mem.wallets.debited, n) \in Seq(Numbers)
      /\ Append(mem.wallets.credited, n) \in Seq(Numbers)
      /\ Len(Append(mem.wallets.debited, n)) = Len(mem.wallets.debited) + 1
      /\ Len(Append(mem.wallets.credited, n)) = Len(mem.wallets.credited) + 1
      /\ \A m : Occurs(m, Append(mem.wallets.debited, n)) <=> Occurs(m, mem.wallets.debited) \/ m = n
      /\ \A m : Occurs(m, Append(mem.wallets.credited, n)) <=> Occurs(m, mem.wallets.credited) \/ m = n
      /\ t \in Seq(Numbers)
      /\ \A m : Occurs(m, t) <=> Occurs(m, mem.transactions) \/ m = n
  BY <1>1, <1>4, OccursAppend
<1> HIDE DEF n, w1, w2, t
<1>7. /\ w1 \in Wallets /\ w1.era = mem.wallets.era
      /\ w1.debited = Append(mem.wallets.debited, n) /\ w1.credited = mem.wallets.credited
  BY <1>5, <1>6, MemTyped DEF Wallets
<1>8. /\ w2 \in Wallets /\ w2.era = mem.wallets.era
      /\ w2.debited = Append(mem.wallets.debited, n)
      /\ w2.credited = Append(mem.wallets.credited, n)
  BY <1>5, <1>6, <1>7 DEF Wallets
<1>9. /\ Len(w1.credited) <= Len(w1.debited) /\ Len(w1.debited) <= Funds
      /\ Len(w2.credited) <= Len(w2.debited) /\ Len(w2.debited) <= Funds
  BY <1>4, <1>6, <1>7, <1>8, PersistenceAssumption
<1>10. \A q \in Numbers : d[q].status = "PENDING_APPROVAL" => d[q].n \in Numbers
  BY <1>2, MemTyped
<1>11. /\ FitsAt("wallets", w1, count.created + 0) /\ <<"wallets", w1>> \in Changes
       /\ FitsAt("wallets", w2, count.created + 0) /\ <<"wallets", w2>> \in Changes
       /\ FitsAt("drafts", d, count.created + 0) /\ <<"drafts", d>> \in Changes
       /\ FitsAt("transactions", t, count.created + 0) /\ <<"transactions", t>> \in Changes
  BY <1>2, <1>6, <1>7, <1>8, <1>9, <1>10, WalletsFit, DraftsFit, TransactionsFit
<1>12. /\ changes \in Seq(Changes) /\ DOMAIN changes = 1 .. 4
       /\ changes[1][1] = "wallets" /\ changes[1][2] = w1
       /\ changes[2][1] = "wallets" /\ changes[2][2] = w2
       /\ changes[3][1] = "drafts" /\ changes[3][2] = d
       /\ changes[4][1] = "transactions" /\ changes[4][2] = t
  BY <1>11
<1> HIDE DEF changes
<1>13. \A i \in DOMAIN changes : FitsAt(changes[i][1], changes[i][2], count.created + 0)
  BY <1>11, <1>12
<1>14. ASSUME NEW s, Unbroken, Good(mem), Chain(s, changes)
       PROVE  \A i \in DOMAIN changes : GoodAt(s[i], count.created + 0)
  <2>1. /\ s[1].wallets = w1 /\ s[1].drafts = mem.drafts
        /\ s[1].transactions = mem.transactions /\ s[1].sequences = mem.sequences
    <3>1. s[0] = mem /\ 1 \in DOMAIN changes
      BY <1>12, <1>14 DEF Chain
    <3> QED BY <1>12, <1>14, <3>1, ChainStep DEF Keys
  <2>2. /\ s[2].wallets = w2 /\ s[2].drafts = mem.drafts
        /\ s[2].transactions = mem.transactions /\ s[2].sequences = mem.sequences
    <3>1. 2 \in DOMAIN changes
      BY <1>12
    <3> QED BY <1>12, <1>14, <2>1, <3>1, ChainStep DEF Keys
  <2>3. /\ s[3].wallets = w2 /\ s[3].drafts = d
        /\ s[3].transactions = mem.transactions /\ s[3].sequences = mem.sequences
    <3>1. 3 \in DOMAIN changes
      BY <1>12
    <3> QED BY <1>12, <1>14, <2>2, <3>1, ChainStep DEF Keys
  <2>4. /\ s[4].wallets = w2 /\ s[4].drafts = d
        /\ s[4].transactions = t /\ s[4].sequences = mem.sequences
    <3>1. 4 \in DOMAIN changes
      BY <1>12
    <3> QED BY <1>12, <1>14, <2>3, <3>1, ChainStep DEF Keys
  <2>5. GoodAt(mem, count.created)
    BY <1>14 DEF Good
  <2>6. mem.drafts[id] # NoDraft /\ \A q \in Numbers : d[q] # NoDraft => mem.drafts[q] # NoDraft
    BY <1>1, <1>2 DEF NoDraft
  <2>7. \A q \in Numbers : d[q].status # "ABSENT" \/ d[q] = mem.drafts[q]
    BY <1>2
  <2>8. GoodAt(s[1], count.created)
    <3>1. /\ s[1].wallets.era = mem.wallets.era
          /\ \A m : Occurs(m, mem.wallets.debited) => Occurs(m, s[1].wallets.debited)
          /\ \A m : Occurs(m, mem.wallets.credited) => Occurs(m, s[1].wallets.credited)
      BY <1>6, <1>7, <2>1
    <3> QED BY <2>1, <2>5, <3>1, GoodMoved
  <2>9. GoodAt(s[2], count.created)
    <3>1. /\ s[2].wallets.era = mem.wallets.era
          /\ \A m : Occurs(m, mem.wallets.debited) => Occurs(m, s[2].wallets.debited)
          /\ \A m : Occurs(m, mem.wallets.credited) => Occurs(m, s[2].wallets.credited)
      BY <1>6, <1>8, <2>2
    <3> QED BY <2>2, <2>5, <3>1, GoodMoved
  <2>10. GoodAt(s[3], count.created)
    <3>1. Occurs(n, w2.debited) /\ Occurs(n, w2.credited) /\ d[id].n = n
      BY <1>2, <1>6, <1>8 DEF n
    <3>2. ASSUME NEW q \in Numbers
          PROVE  /\ d[q].status = "SETTLED" /\ d[q].era = w2.era =>
                       Occurs(d[q].n, w2.debited) /\ Occurs(d[q].n, w2.credited)
                 /\ d[q].status \in {"PENDING_APPROVAL", "CANCELED"} => ~ Occurs(d[q].n, mem.transactions)
      <4>1. CASE q = id
        BY <4>1, <3>1, <1>2
      <4>2. CASE q # id
        <5>1. /\ d[q].status = "SETTLED" /\ d[q].era = mem.wallets.era =>
                    Occurs(d[q].n, mem.wallets.debited) /\ Occurs(d[q].n, mem.wallets.credited)
              /\ d[q].status \in {"PENDING_APPROVAL", "CANCELED"} => ~ Occurs(d[q].n, mem.transactions)
          BY <4>2, <1>2, <2>5 DEF GoodAt
        <5> QED BY <5>1, <1>6, <1>8
      <4> QED BY <4>1, <4>2
    <3>3. ASSUME NEW q \in Numbers, d[q] # NoDraft
          PROVE  /\ d[q].n \in 1 .. count.created
                 /\ d[q].status # "ABSENT"
                 /\ q <= mem.sequences
                 /\ d[q].era <= w2.era
      BY <3>3, <1>2, <1>8, <2>5, <2>6, <2>7 DEF GoodAt
    <3>4. ASSUME NEW i \in Numbers, NEW j \in Numbers, i # j, d[i] # NoDraft
          PROVE  d[i].n # d[j].n
      BY <3>4, <1>2, <2>5, <2>6 DEF GoodAt
    <3>5. \A m \in Numbers : Occurs(m, mem.transactions) => m <= count.created
      BY <2>5 DEF GoodAt
    <3> QED BY <2>3, <3>2, <3>3, <3>4, <3>5 DEF GoodAt
  <2>11. GoodAt(s[4], count.created)
    <3>1. n <= count.created
      BY <2>5, <2>6, <1>1, MemTyped DEF GoodAt, n
    <3>2. ASSUME NEW q \in Numbers, d[q].status \in {"PENDING_APPROVAL", "CANCELED"}
          PROVE  ~ Occurs(d[q].n, t)
      <4>1. q # id /\ d[q] = mem.drafts[q]
        BY <3>2, <1>2
      <4>2. d[q].n # n
        BY <4>1, <2>5, <2>6 DEF GoodAt, n
      <4>3. ~ Occurs(d[q].n, mem.transactions)
        BY <3>2, <4>1, <2>5 DEF GoodAt
      <4> QED BY <4>2, <4>3, <1>6
    <3>3. \A m \in Numbers : Occurs(m, t) => m <= count.created
      BY <3>1, <1>6, <2>5 DEF GoodAt
    <3> QED BY <2>3, <2>4, <2>10, <3>2, <3>3 DEF GoodAt
  <2> QED BY <1>12, <2>8, <2>9, <2>10, <2>11, MemTyped
<1>15. count.created + 0 <= MaxCreated
  BY MemTyped
<1> QED BY <1>3, <1>12, <1>13, <1>14, <1>15, HandleIInv

-----------------------------------------------------------------------------
\* The start, the end and the restart of a process.

LEMMA EmptyFits ==
  /\ IsStore(EmptyStore)
  /\ \A k \in Keys, a \in Nat : FitsAt(k, EmptyStore[k], a)
  /\ \A a : GoodAt(EmptyStore, a)
<1>1. EmptyStore = [k \in Keys |-> EmptyStore[k]]
  BY DEF EmptyStore, Keys
<1>2. /\ EmptyStore.wallets = NoWallets(0) /\ EmptyStore.transactions = <<>> /\ EmptyStore.sequences = 0
      /\ EmptyStore.drafts \in [Numbers -> Drafts] /\ \A q \in Numbers : EmptyStore.drafts[q] = NoDraft
      /\ NoDraft.status = "ABSENT"
  BY PersistenceAssumption DEF EmptyStore, NoDraft, Drafts
<1>3. /\ NoWallets(0) \in Wallets
      /\ Len(NoWallets(0).credited) <= Len(NoWallets(0).debited)
      /\ Len(NoWallets(0).debited) <= Funds
  BY PersistenceAssumption DEF NoWallets, Wallets
<1>4. <<>> \in Seq(Numbers) /\ 0 \in 0 .. MaxCreated
  BY PersistenceAssumption
<1>5. ASSUME NEW a \in Nat
      PROVE  /\ FitsAt("wallets", NoWallets(0), a) /\ FitsAt("drafts", EmptyStore.drafts, a)
             /\ FitsAt("transactions", <<>>, a) /\ FitsAt("sequences", 0, a)
  <2>1. \A q \in Numbers : EmptyStore.drafts[q].status = "PENDING_APPROVAL" => EmptyStore.drafts[q].n \in Numbers
    BY <1>2
  <2>2. 0 <= a
    OBVIOUS
  <2> QED BY <1>2, <1>3, <1>4, <2>1, <2>2, WalletsFit, DraftsFit, TransactionsFit, SequencesFit
<1>6. \A k \in Keys, a \in Nat : FitsAt(k, EmptyStore[k], a)
  BY <1>2, <1>5 DEF Keys
<1>7. \A k \in Keys : EmptyStore[k] \in Contents(k)
  BY <1>6 DEF FitsAt
<1>8. \A m : ~ Occurs(m, <<>>)
  BY DEF Occurs
<1>9. \A a : GoodAt(EmptyStore, a)
  BY <1>2, <1>8 DEF GoodAt
<1> QED BY <1>1, <1>6, <1>7, <1>9 DEF IsStore

\* A process without commands whose store is what Redis holds, or that is gone.
LEMMA EmptyIInv ==
  ASSUME TypeOK, sent = <<>>, fresh = <<>>, failed = {}, keyOf = <<>>, unwritten = {},
         \A k \in Keys : Fits(k, mem[k]) /\ Fits(k, stored[k]),
         up => mem = stored /\ link,
         ~ up => mem = EmptyStore,
         Unbroken => Good(stored)
  PROVE  IInv
<1>1. Sent = {} /\ Fresh = {} /\ Open = {} /\ DOMAIN sent = {} /\ DOMAIN fresh = {}
  BY DEF Sent, Fresh, Open
<1>2. AllFit
  BY <1>1 DEF AllFit
<1>3. SentOnce /\ FreshLast /\ FailedOnce /\ Numbered /\ NewestIsServed /\ Gone /\ NoWriteDropped
  BY <1>1 DEF SentOnce, FreshLast, FailedOnce, Numbered, NewestIsServed, Gone, NoWriteDropped
<1>4. StoredIsServed
  BY <1>1 DEF StoredIsServed
<1>5. Steady
  BY DEF Steady
<1>6. StoresOK
  <2>1. Len(sent) = 0 /\ 0 .. 0 = {0} /\ Executed(0) = stored
    BY Stepwise DEF ExecutedSteps
  <2> QED BY <2>1 DEF StoresOK
<1> QED BY <1>2, <1>3, <1>4, <1>5, <1>6 DEF IInv, CommandsOK

EmptyOK ==
    /\ TypeOK /\ sent = <<>> /\ fresh = <<>> /\ failed = {} /\ keyOf = <<>> /\ unwritten = {}
    /\ \A k \in Keys : Fits(k, mem[k]) /\ Fits(k, stored[k])
    /\ up => mem = stored /\ link
    /\ ~ up => mem = EmptyStore
    /\ Unbroken => Good(stored)

LEMMA EmptyOKIInv == EmptyOK => IInv
BY EmptyIInv DEF EmptyOK

LEMMA InitIInv == ASSUME Init PROVE IInv
<1>1. /\ count.created = 0 /\ count.breaks = 0
      /\ count \in [created : 0 .. MaxCreated, breaks : 0 .. MaxBreaks, crashes : 0 .. MaxCrashes]
  BY PersistenceAssumption DEF Init
<1>2. TypeOK
  <2>1. <<>> \in Seq(Commands) /\ <<>> \in Seq(Keys)
    OBVIOUS
  <2>2. /\ up \in BOOLEAN /\ link \in BOOLEAN /\ overtaken \in BOOLEAN
        /\ failed = {} /\ unwritten = {} /\ sent = <<>> /\ fresh = <<>> /\ keyOf = <<>>
    BY DEF Init
  <2>3. IsStore(mem) /\ IsStore(stored)
    BY EmptyFits DEF Init
  <2> QED BY <1>1, <2>1, <2>2, <2>3 DEF TypeOK
<1>3. \A k \in Keys : Fits(k, mem[k]) /\ Fits(k, stored[k])
  BY <1>1, EmptyFits DEF Init, Fits
<1>4. Good(stored)
  BY EmptyFits DEF Init, Good
<1> QED BY <1>2, <1>3, <1>4, EmptyIInv DEF Init

LEMMA StopIInv ==
  ASSUME IInv, NEW j \in 0 .. Len(sent), Stop(j),
         count' \in [created : 0 .. MaxCreated, breaks : 0 .. MaxBreaks, crashes : 0 .. MaxCrashes],
         count'.created = count.created, Unbroken' => Unbroken
  PROVE  IInv'
<1>1. TypeOK /\ AllFit /\ StoresOK
  BY DEF IInv
<1>2. count.created \in Nat
  BY PersistenceAssumption DEF IInv, TypeOK
<1>3. /\ up' = FALSE /\ mem' = EmptyStore /\ stored' = Executed(j) /\ link' = FALSE
      /\ sent' = <<>> /\ fresh' = <<>> /\ failed' = {} /\ unwritten' = {} /\ keyOf' = <<>>
      /\ overtaken' = FALSE
  BY DEF Stop
<1>4. IsStore(stored') /\ \A k \in Keys : Fits(k, stored'[k])
  BY <1>1, <1>3, ExecutedFits
<1>5. IsStore(mem') /\ \A k \in Keys : Fits(k, mem'[k])
  BY <1>2, <1>3, EmptyFits DEF Fits
<1>6. TypeOK'
  <2>1. <<>> \in Seq(Commands) /\ <<>> \in Seq(Keys)
    OBVIOUS
  <2> QED BY <1>3, <1>4, <1>5, <2>1 DEF TypeOK, IsStore
<1>7. \A k \in Keys : Fits(k, mem[k])' /\ Fits(k, stored[k])'
  BY <1>4, <1>5 DEF Fits
<1>8. Unbroken' => Good(stored)'
  BY <1>1, <1>3 DEF StoresOK, Good
<1>9. EmptyOK'
  BY <1>3, <1>6, <1>7, <1>8 DEF EmptyOK
<1> QED BY <1>9, EmptyOKIInv, PTL

LEMMA CrashIInv == ASSUME IInv, Crash PROVE IInv'
<1>1. PICK j \in 0 .. Len(sent) : Stop(j)
  BY DEF Crash
<1>2. /\ count' \in [created : 0 .. MaxCreated, breaks : 0 .. MaxBreaks, crashes : 0 .. MaxCrashes]
      /\ count'.created = count.created /\ count'.breaks = count.breaks
  <2>1. count \in [created : 0 .. MaxCreated, breaks : 0 .. MaxBreaks, crashes : 0 .. MaxCrashes]
    BY DEF IInv, TypeOK
  <2>2. count' = [count EXCEPT !.crashes = @ + 1] /\ count.crashes < MaxCrashes
    BY DEF Crash
  <2> QED BY <2>1, <2>2, PersistenceAssumption
<1> QED BY <1>1, <1>2, StopIInv DEF Unbroken

LEMMA ConnectFailsIInv == ASSUME IInv, ConnectFails PROVE IInv'
<1>1. Stop(0) /\ count' = count /\ 0 \in 0 .. Len(sent)
  BY OpenTyped DEF ConnectFails, IInv
<1>2. count' \in [created : 0 .. MaxCreated, breaks : 0 .. MaxBreaks, crashes : 0 .. MaxCrashes]
  BY <1>1 DEF IInv, TypeOK
<1> QED BY <1>1, <1>2, StopIInv DEF Unbroken

LEMMA RestartIInv == ASSUME IInv, Restart PROVE IInv'
<1>1. TypeOK /\ AllFit /\ StoresOK /\ CommandsOK
  BY DEF IInv
<1>2. /\ ~ up /\ up' = TRUE /\ link' = TRUE /\ mem' = stored /\ stored' = stored /\ count' = count
      /\ sent' = sent /\ fresh' = fresh /\ failed' = failed /\ unwritten' = unwritten
      /\ keyOf' = keyOf /\ overtaken' = overtaken
  BY DEF Restart, Hydrated
<1>3. sent = <<>> /\ fresh = <<>> /\ failed = {} /\ keyOf = <<>> /\ unwritten = {}
  BY <1>1, <1>2 DEF CommandsOK, Gone
<1>4. TypeOK'
  BY <1>1, <1>2 DEF TypeOK
<1>5. \A k \in Keys : Fits(k, mem[k])' /\ Fits(k, stored[k])'
  BY <1>1, <1>2 DEF AllFit, Fits
<1>6. Unbroken' => Good(stored)'
  <2>1. Executed(0) = stored /\ 0 \in 0 .. Len(sent)
    BY <1>1, <1>3, Stepwise DEF ExecutedSteps
  <2> QED BY <1>1, <1>2, <2>1 DEF StoresOK, Good, Unbroken
<1>7. EmptyOK'
  BY <1>2, <1>3, <1>4, <1>5, <1>6 DEF EmptyOK
<1> QED BY <1>7, EmptyOKIInv, PTL

-----------------------------------------------------------------------------
\* The connection.

\* Numbers are what commands are told apart by, whoever holds them.
LEMMA NumbersTyped ==
  ASSUME TypeOK, CommandsOK, NEW c \in Open
  PROVE  c.n \in Nat /\ c.key \in Keys /\ c.n \in DOMAIN keyOf /\ keyOf[c.n] = c.key
BY OpenTyped, CommandTyped DEF CommandsOK, Numbered

LEMMA ExecuteIInv == ASSUME IInv, Execute PROVE IInv'
<1> PICK m : m = Len(sent)
  OBVIOUS
<1> PICK head : head = sent[1]
  OBVIOUS
<1>1. TypeOK /\ AllFit /\ CommandsOK /\ Steady /\ StoresOK
  BY DEF IInv
<1>2. /\ stored' = Executed(1) /\ sent' = Tail(sent) /\ sent # <<>>
      /\ unwritten' = unwritten \ {head.n}
      /\ up' = up /\ mem' = mem /\ link' = link /\ fresh' = fresh /\ failed' = failed
      /\ keyOf' = keyOf /\ overtaken' = overtaken /\ count' = count
  BY <1>1 DEF Execute, TypeOK
<1>3. /\ m \in Nat /\ m >= 1 /\ 1 \in DOMAIN sent /\ DOMAIN sent = 1 .. m
      /\ sent' \in Seq(Commands) /\ Len(sent') = m - 1 /\ DOMAIN sent' = 1 .. m - 1
      /\ \A i \in 1 .. m - 1 : sent'[i] = sent[i + 1] /\ i + 1 \in DOMAIN sent
  <2>1. m \in Nat /\ DOMAIN sent = 1 .. m /\ sent \in Seq(Commands)
    BY <1>1, OpenTyped DEF TypeOK
  <2>2. m >= 1
    BY <1>2, <2>1
  <2>3. sent' \in Seq(Commands) /\ Len(sent') = m - 1 /\ \A i \in 1 .. m - 1 : sent'[i] = sent[i + 1]
    BY <1>2, <2>1, HeadTailProperties
  <2> QED BY <2>1, <2>2, <2>3
<1>4. /\ head \in Sent /\ Sent' \subseteq Sent /\ Fresh' = Fresh
      /\ Sent = Sent' \cup {head} /\ Open = Open' \cup {head}
  <2>1. Sent' \subseteq Sent /\ head \in Sent
    BY <1>3 DEF Sent
  <2>2. ASSUME NEW i \in DOMAIN sent
        PROVE  sent[i] \in Sent' \cup {head}
    <3>1. CASE i = 1
      BY <3>1
    <3>2. CASE i # 1
      <4>1. i - 1 \in 1 .. m - 1 /\ (i - 1) + 1 = i
        BY <3>2, <1>3
      <4> QED BY <4>1, <1>3 DEF Sent
    <3> QED BY <3>1, <3>2
  <2>3. Sent = Sent' \cup {head}
    BY <2>1, <2>2 DEF Sent
  <2>4. Fresh' = Fresh
    BY <1>2 DEF Fresh
  <2> QED BY <1>2, <2>1, <2>3, <2>4 DEF Open
<1>5. 1 \in 0 .. Len(sent)
  BY <1>3
<1>6. IsStore(stored') /\ \A k \in Keys : Fits(k, stored'[k])
  BY <1>1, <1>2, <1>5, ExecutedFits
<1>7. TypeOK'
  BY <1>1, <1>2, <1>3, <1>6 DEF TypeOK, IsStore
<1>8. AllFit'
  BY <1>1, <1>2, <1>4, <1>6 DEF AllFit, Fits
<1>9. \A n, k : Newest(n, k)' <=> Newest(n, k)
  BY <1>2 DEF Newest
<1>10. CommandsOK'
  <2>1. SentOnce'
    <3>1. ASSUME NEW i \in 1 .. m - 1, NEW j \in 1 .. m - 1, i < j
          PROVE  /\ sent'[i].n # sent'[j].n
                 /\ ~ overtaken /\ sent'[i].key = sent'[j].key => sent'[i].n < sent'[j].n
      <4>1. i + 1 < j + 1
        BY <3>1, <1>3
      <4> QED BY <4>1, <1>1, <1>3 DEF CommandsOK, SentOnce
    <3> QED BY <3>1, <1>2, <1>3 DEF SentOnce
  <2>2. FreshLast'
    BY <1>1, <1>2, <1>4 DEF CommandsOK, FreshLast
  <2>3. FailedOnce'
    BY <1>1, <1>2, <1>4 DEF CommandsOK, FailedOnce
  <2>4. Numbered'
    BY <1>1, <1>2, <1>4 DEF CommandsOK, Numbered
  <2>5. NewestIsServed'
    BY <1>1, <1>2, <1>4, <1>9 DEF CommandsOK, NewestIsServed
  <2>6. NoWriteDropped'
    <3>1. \A n \in unwritten : \E c \in Open : c.n = n
      BY <1>1 DEF CommandsOK, NoWriteDropped, NumbersOf, Open, Sent, Fresh
    <3>2. \A n \in unwritten' : \E c \in Open' : c.n = n
      BY <3>1, <1>2, <1>4
    <3> QED BY <3>2 DEF NoWriteDropped, NumbersOf, Open, Sent, Fresh
  <2>7. StoredIsServed'
    <3>1. SUFFICES ASSUME up, ~ overtaken, NEW k \in Keys, Answered(k)'
                   PROVE  stored'[k] = mem[k] /\ \A c \in Sent' \cup Fresh : c.key # k
      BY <1>2, <1>4 DEF StoredIsServed
    <3>2. \A c \in Open : c.key = k /\ c # head => ~ Newest(c.n, k)
      BY <3>1, <1>4, <1>9 DEF Answered
    <3>3. CASE head.key # k
      <4>1. Answered(k)
        BY <3>2, <3>3 DEF Answered
      <4>2. stored[k] = mem[k] /\ \A c \in Sent \cup Fresh : c.key # k
        BY <3>1, <4>1, <1>1 DEF CommandsOK, StoredIsServed
      <4>3. stored'[k] = stored[k]
        <5>1. \A i \in 1 .. 1 : sent[i].key # k
          BY <3>3
        <5> QED BY <5>1, <1>1, <1>2, <1>5, ExecutedValue
      <4> QED BY <4>2, <4>3, <1>4
    <3>4. CASE head.key = k /\ Newest(head.n, k)
      <4>1. stored'[k] = head.value
        <5>1. SetsLast(1, k, 1) /\ 1 \in 1 .. 1
          BY <3>4 DEF SetsLast
        <5> QED BY <5>1, <1>1, <1>2, <1>5, ExecutedValue
      <4>2. head.value = mem[k]
        BY <3>4, <1>1, <1>4 DEF CommandsOK, NewestIsServed
      <4>3. ASSUME NEW c \in Sent' \cup Fresh, c.key = k
            PROVE  FALSE
        <5>1. c \in Open /\ head \in Open
          BY <1>4 DEF Open
        <5>2. c.n <= head.n /\ c.n \in Nat /\ head.n \in Nat
          BY <5>1, <4>3, <3>4, <1>1, NumbersTyped DEF Newest
        <5>3. head.n < c.n
          <6>1. CASE c \in Fresh
            BY <6>1, <1>1, <1>4 DEF CommandsOK, FreshLast
          <6>2. CASE c \in Sent'
            <7>1. PICK i \in 1 .. m - 1 : c = sent[i + 1]
              BY <6>2, <1>3 DEF Sent
            <7>2. 1 < i + 1 /\ 1 \in DOMAIN sent /\ i + 1 \in DOMAIN sent
              BY <1>3
            <7> QED BY <7>1, <7>2, <3>1, <3>4, <4>3, <1>1 DEF CommandsOK, SentOnce
          <6> QED BY <6>1, <6>2, <4>3
        <5> QED BY <5>2, <5>3
      <4> QED BY <4>1, <4>2, <4>3
    <3>5. CASE head.key = k /\ ~ Newest(head.n, k)
      <4>1. Answered(k)
        BY <3>2, <3>5 DEF Answered
      <4> QED BY <3>1, <3>5, <4>1, <1>1, <1>4 DEF CommandsOK, StoredIsServed
    <3> QED BY <3>3, <3>4, <3>5
  <2>8. Gone'
    BY <1>1, <1>2 DEF CommandsOK, Gone
  <2> QED BY <2>1, <2>2, <2>3, <2>4, <2>5, <2>6, <2>7, <2>8 DEF CommandsOK
<1>11. Steady'
  BY <1>1, <1>2 DEF Steady, Unbroken
<1>12. TypeOK' => LastSet'
  BY LastSetOfEach, PTL
<1>13. ASSUME NEW j \in 0 .. m - 1
       PROVE  Executed(j)' = Executed(j + 1)
  <2>1. j \in 0 .. Len(sent)' /\ j + 1 \in 0 .. Len(sent) /\ j + 1 >= 1
    BY <1>3
  <2>2. /\ Executed(j)' = [q \in Keys |-> Executed(j)'[q]]
        /\ Executed(j + 1) = [q \in Keys |-> Executed(j + 1)[q]]
    BY DEF Executed
  <2>3. ASSUME NEW k \in Keys
        PROVE  Executed(j)'[k] = Executed(j + 1)[k]
    <3>1. /\ (\A i \in 1 .. j : sent'[i].key # k) => Executed(j)'[k] = stored'[k]
          /\ \A i \in 1 .. j : SetsLast(i, k, j)' => Executed(j)'[k] = sent'[i].value
      BY <1>7, <1>12, <2>1 DEF LastSet
    <3>2. /\ (\A i \in 1 .. j + 1 : sent[i].key # k) => Executed(j + 1)[k] = stored[k]
          /\ \A i \in 1 .. j + 1 : SetsLast(i, k, j + 1) => Executed(j + 1)[k] = sent[i].value
          /\ (\E i \in 1 .. j + 1 : sent[i].key = k) => \E i \in 1 .. j + 1 : SetsLast(i, k, j + 1)
      BY <1>1, <2>1, ExecutedValue
    <3>3. /\ (\A i \in 1 .. 1 : sent[i].key # k) => stored'[k] = stored[k]
          /\ \A i \in 1 .. 1 : SetsLast(i, k, 1) => stored'[k] = sent[i].value
      BY <1>1, <1>2, <1>5, ExecutedValue
    <3>4. CASE \E i \in 2 .. j + 1 : sent[i].key = k
      <4>1. PICK h \in 1 .. j + 1 : SetsLast(h, k, j + 1)
        BY <3>2, <3>4
      <4>2. h # 1
        BY <3>4, <4>1 DEF SetsLast
      <4>3. h - 1 \in 1 .. j /\ (h - 1) + 1 = h /\ sent'[h - 1] = sent[h]
        <5>1. h - 1 \in 1 .. j /\ (h - 1) + 1 = h /\ h - 1 \in 1 .. m - 1
          BY <4>2, <1>3
        <5>2. sent'[h - 1] = sent[(h - 1) + 1]
          BY <5>1, <1>3
        <5> QED BY <5>1, <5>2
      <4>4. SetsLast(h - 1, k, j)'
        <5>1. ASSUME NEW g \in (h - 1) + 1 .. j
              PROVE  sent'[g].key # k
          <6>1. g \in 1 .. m - 1 /\ g + 1 \in h + 1 .. j + 1
            BY <4>3, <1>3
          <6> QED BY <6>1, <4>1, <1>3 DEF SetsLast
        <5> QED BY <5>1, <4>1, <4>3 DEF SetsLast
      <4> QED BY <3>1, <3>2, <4>1, <4>3, <4>4
    <3>5. CASE \A i \in 2 .. j + 1 : sent[i].key # k
      <4>1. \A i \in 1 .. j : sent'[i].key # k
        <5>1. \A i \in 1 .. j : i \in 1 .. m - 1 /\ i + 1 \in 2 .. j + 1
          BY <1>3
        <5> QED BY <5>1, <3>5, <1>3
      <4>2. CASE sent[1].key = k
        <5>1. SetsLast(1, k, j + 1) /\ SetsLast(1, k, 1) /\ 1 \in 1 .. j + 1 /\ 1 \in 1 .. 1
          BY <3>5, <4>2 DEF SetsLast
        <5> QED BY <3>1, <3>2, <3>3, <4>1, <5>1
      <4>3. CASE sent[1].key # k
        <5>1. \A i \in 1 .. j + 1 : sent[i].key # k
          BY <3>5, <4>3
        <5>2. \A i \in 1 .. 1 : sent[i].key # k
          BY <4>3
        <5> QED BY <3>1, <3>2, <3>3, <4>1, <5>1, <5>2
      <4> QED BY <4>2, <4>3
    <3> QED BY <3>4, <3>5
  <2> QED BY <2>2, <2>3
<1>14. StoresOK'
  <2>1. SUFFICES ASSUME Unbroken
                 PROVE  /\ up => mem = Executed(Len(sent))'
                        /\ \A j \in 0 .. Len(sent') : GoodAt(Executed(j)', count.created)
    BY <1>2 DEF StoresOK, Unbroken, Good
  <2>2. (up => mem = Executed(m)) /\ \A j \in 0 .. m : GoodAt(Executed(j), count.created)
    BY <2>1, <1>1 DEF StoresOK, Good
  <2>3. m - 1 \in 0 .. m - 1 /\ (m - 1) + 1 = m
    BY <1>3
  <2>4. Executed(m - 1)' = Executed(m)
    BY <2>3, <1>13
  <2>5. \A j \in 0 .. m - 1 : Executed(j)' = Executed(j + 1) /\ j + 1 \in 0 .. m
    BY <1>3, <1>13
  <2>6. Executed(Len(sent))' = Executed(m - 1)'
    BY <1>3
  <2> QED BY <2>2, <2>4, <2>5, <2>6, <1>3
<1> QED BY <1>7, <1>8, <1>10, <1>11, <1>14 DEF IInv

\* Nothing but the connection changes, or nothing at all.
LEMMA LinkIInv ==
  ASSUME IInv, UNCHANGED <<up, mem, stored, sent, fresh, failed, unwritten, keyOf, overtaken, count>>,
         link' = TRUE \/ link' = link
  PROVE  IInv'
<1>1. /\ up' = up /\ mem' = mem /\ stored' = stored /\ sent' = sent /\ fresh' = fresh
      /\ failed' = failed /\ unwritten' = unwritten /\ keyOf' = keyOf
      /\ overtaken' = overtaken /\ count' = count /\ (link' = TRUE \/ link' = link)
  OBVIOUS
<1>2. Sent' = Sent /\ Fresh' = Fresh /\ Open' = Open
  BY <1>1 DEF Sent, Fresh, Open
<1>3. TypeOK'
  BY <1>1 DEF IInv, TypeOK
<1>4. AllFit'
  BY <1>1, <1>2 DEF IInv, AllFit, Fits
<1>5. \A n, k : Newest(n, k)' <=> Newest(n, k)
  BY <1>1 DEF Newest
<1>6. SentOnce' /\ FreshLast' /\ FailedOnce' /\ Numbered' /\ Gone' /\ NoWriteDropped'
  <2>1. SentOnce'
    BY <1>1 DEF IInv, CommandsOK, SentOnce
  <2>2. FreshLast' /\ FailedOnce' /\ Numbered'
    BY <1>1, <1>2 DEF IInv, CommandsOK, FreshLast, FailedOnce, Numbered
  <2>3. Gone' /\ NoWriteDropped'
    BY <1>1 DEF IInv, CommandsOK, Gone, NoWriteDropped, NumbersOf
  <2> QED BY <2>1, <2>2, <2>3
<1>7. NewestIsServed' /\ StoredIsServed'
  BY <1>1, <1>2, <1>5 DEF IInv, CommandsOK, NewestIsServed, StoredIsServed, Answered
<1>8. Steady'
  BY <1>1 DEF IInv, Steady, Unbroken
<1>9. \A j : Executed(j)' = Executed(j)
  BY <1>1 DEF Executed, SetsLast
<1>10. StoresOK'
  BY <1>1, <1>9 DEF IInv, StoresOK, Good, Unbroken
<1> QED BY <1>3, <1>4, <1>6, <1>7, <1>8, <1>10 DEF IInv, CommandsOK

\* Either way of sending a command leaves the rest alone, and once the connection
\* has broken nothing is said of the stores.
LEMMA BrokenStores ==
  ASSUME Steady, fresh # <<>> \/ failed # {}, count' = count
  PROVE  Steady' /\ StoresOK'
BY DEF Steady, StoresOK, Unbroken

LEMMA SendFreshIInv == ASSUME IInv, SendFresh PROVE IInv'
<1> PICK m : m = Len(sent)
  OBVIOUS
<1> PICK p : p = Len(fresh)
  OBVIOUS
<1> PICK c : c = fresh[1]
  OBVIOUS
<1>1. TypeOK /\ AllFit /\ CommandsOK /\ Steady
  BY DEF IInv
<1>2. /\ sent' = Append(sent, c) /\ fresh' = Tail(fresh) /\ fresh # <<>>
      /\ up' = up /\ mem' = mem /\ stored' = stored /\ link' = link /\ failed' = failed
      /\ unwritten' = unwritten /\ keyOf' = keyOf /\ overtaken' = overtaken /\ count' = count
  BY <1>1 DEF SendFresh, TypeOK
<1>3. /\ m \in Nat /\ p \in Nat /\ p >= 1 /\ DOMAIN sent = 1 .. m /\ DOMAIN fresh = 1 .. p
      /\ fresh' \in Seq(Commands) /\ DOMAIN fresh' = 1 .. p - 1
      /\ \A i \in 1 .. p - 1 : fresh'[i] = fresh[i + 1] /\ i + 1 \in DOMAIN fresh
      /\ 1 \in DOMAIN fresh /\ c \in Commands
  <2>1. m \in Nat /\ DOMAIN sent = 1 .. m /\ p \in Nat /\ DOMAIN fresh = 1 .. p /\ fresh \in Seq(Commands)
    BY <1>1, OpenTyped DEF TypeOK
  <2>2. p >= 1
    BY <1>2, <2>1
  <2>3. fresh' \in Seq(Commands) /\ Len(fresh') = p - 1 /\ \A i \in 1 .. p - 1 : fresh'[i] = fresh[i + 1]
    BY <1>2, <2>1, HeadTailProperties
  <2> QED BY <2>1, <2>2, <2>3
<1>4. /\ sent' \in Seq(Commands) /\ DOMAIN sent' = 1 .. m + 1
      /\ \A i \in 1 .. m : sent'[i] = sent[i]
      /\ sent'[m + 1] = c
  <2>1. sent \in Seq(Commands)
    BY <1>1 DEF TypeOK
  <2> QED BY <1>2, <1>3, <2>1, AppendProperties
<1>5. /\ c \in Fresh /\ Sent' = Sent \cup {c} /\ Fresh' \subseteq Fresh /\ Fresh = Fresh' \cup {c}
      /\ Open' = Open
  <2>1. c \in Fresh /\ Fresh' \subseteq Fresh
    BY <1>3 DEF Fresh
  <2>2. ASSUME NEW i \in DOMAIN fresh
        PROVE  fresh[i] \in Fresh' \cup {c}
    <3>1. CASE i = 1
      BY <3>1
    <3>2. CASE i # 1
      <4>1. i - 1 \in 1 .. p - 1 /\ (i - 1) + 1 = i
        BY <3>2, <1>3
      <4> QED BY <4>1, <1>3 DEF Fresh
    <3> QED BY <3>1, <3>2
  <2>3. Fresh = Fresh' \cup {c}
    BY <2>1, <2>2 DEF Fresh
  <2>4. Sent \subseteq Sent' /\ c \in Sent'
    <3>1. /\ \A i \in DOMAIN sent : i \in DOMAIN sent' /\ sent'[i] = sent[i]
          /\ m + 1 \in DOMAIN sent' /\ sent'[m + 1] = c
      BY <1>3, <1>4
    <3> QED BY <3>1 DEF Sent
  <2>5. ASSUME NEW i \in DOMAIN sent'
        PROVE  sent'[i] \in Sent \cup {c}
    <3>1. i \in 1 .. m \/ i = m + 1
      BY <1>3, <1>4
    <3> QED BY <3>1, <1>3, <1>4 DEF Sent
  <2>6. Sent' = Sent \cup {c}
    BY <2>4, <2>5 DEF Sent
  <2> QED BY <1>2, <2>1, <2>3, <2>6 DEF Open
<1>6. TypeOK'
  BY <1>1, <1>2, <1>3, <1>4 DEF TypeOK
<1>7. AllFit'
  BY <1>1, <1>2, <1>5 DEF AllFit, Fits
<1>8. \A n, k : Newest(n, k)' <=> Newest(n, k)
  BY <1>2 DEF Newest
<1>9. \A d \in Sent \cup failed : d.n < c.n
  BY <1>1, <1>5 DEF CommandsOK, FreshLast
<1>10. \A d \in Open : d.n \in Nat
  BY <1>1, NumbersTyped
<1>11. SentOnce'
  <2>1. ASSUME NEW i \in 1 .. m + 1, NEW j \in 1 .. m + 1, i < j
        PROVE  /\ sent'[i].n # sent'[j].n
               /\ ~ overtaken /\ sent'[i].key = sent'[j].key => sent'[i].n < sent'[j].n
    <3>1. i \in 1 .. m
      BY <2>1, <1>3
    <3>2. CASE j \in 1 .. m
      <4>1. /\ sent'[i] = sent[i] /\ sent'[j] = sent[j]
            /\ i \in DOMAIN sent /\ j \in DOMAIN sent
        BY <3>1, <3>2, <1>3, <1>4
      <4> QED BY <2>1, <4>1, <1>1 DEF CommandsOK, SentOnce
    <3>3. CASE j = m + 1
      <4>1. sent[i] \in Sent /\ sent'[i] = sent[i] /\ sent'[j] = c
        BY <3>1, <3>3, <1>3, <1>4 DEF Sent
      <4>2. sent[i].n < c.n /\ sent[i].n \in Nat /\ c.n \in Nat
        BY <4>1, <1>5, <1>9, <1>10 DEF Open
      <4> QED BY <4>1, <4>2
    <3> QED BY <2>1, <3>2, <3>3, <1>3
  <2> QED BY <2>1, <1>2, <1>4 DEF SentOnce
<1>12. FreshLast'
  <2>1. ASSUME NEW i \in 1 .. p - 1, NEW j \in 1 .. p - 1, i < j
        PROVE  fresh'[i].n < fresh'[j].n
    <3>1. i + 1 < j + 1
      BY <2>1, <1>3
    <3> QED BY <3>1, <1>1, <1>3 DEF CommandsOK, FreshLast
  <2>2. ASSUME NEW d \in Fresh'
        PROVE  c.n < d.n
    <3>1. PICK i \in 1 .. p - 1 : d = fresh[i + 1]
      BY <1>3 DEF Fresh
    <3>2. 1 < i + 1 /\ i + 1 \in DOMAIN fresh
      BY <1>3
    <3> QED BY <3>1, <3>2, <1>1, <1>3 DEF CommandsOK, FreshLast
  <2>3. ASSUME NEW b \in Sent' \cup failed', NEW d \in Fresh'
        PROVE  b.n < d.n
    BY <2>2, <1>1, <1>2, <1>5 DEF CommandsOK, FreshLast
  <2> QED BY <2>1, <2>3, <1>3 DEF FreshLast
<1>13. FailedOnce'
  <2>1. ASSUME NEW d \in failed
        PROVE  d.n # c.n
    <3>1. d.n < c.n /\ d.n \in Nat /\ c.n \in Nat
      BY <1>5, <1>9, <1>10 DEF Open
    <3> QED BY <3>1
  <2> QED BY <2>1, <1>1, <1>2, <1>5 DEF CommandsOK, FailedOnce
<1>14. Numbered' /\ NewestIsServed' /\ Gone'
  BY <1>1, <1>2, <1>5, <1>8 DEF CommandsOK, Numbered, NewestIsServed, Gone
<1>15. StoredIsServed'
  <2>1. Sent' \cup Fresh' = Sent \cup Fresh
    BY <1>5
  <2>2. \A k : Answered(k)' <=> Answered(k)
    BY <1>5, <1>8 DEF Answered
  <2> QED BY <1>1, <1>2, <2>1, <2>2 DEF CommandsOK, StoredIsServed
<1>16. NoWriteDropped'
  <2>1. \A n \in unwritten : \E d \in Open : d.n = n
    BY <1>1 DEF CommandsOK, NoWriteDropped, NumbersOf, Open, Sent, Fresh
  <2>2. \A n \in unwritten' : \E d \in Open' : d.n = n
    BY <2>1, <1>2, <1>5
  <2> QED BY <2>2 DEF NoWriteDropped, NumbersOf, Open, Sent, Fresh
<1>17. Steady' /\ StoresOK'
  BY <1>1, <1>2, BrokenStores
<1> QED BY <1>6, <1>7, <1>11, <1>12, <1>13, <1>14, <1>15, <1>16, <1>17 DEF IInv, CommandsOK

LEMMA ResendIInv == ASSUME IInv, NEW c \in failed, Resend(c) PROVE IInv'
<1> PICK m : m = Len(sent)
  OBVIOUS
<1> PICK e : e = [c EXCEPT !.attempt = 2]
  OBVIOUS
<1>1. TypeOK /\ AllFit /\ CommandsOK /\ Steady
  BY DEF IInv
<1>2. /\ sent' = Append(sent, e) /\ failed' = failed \ {c}
      /\ overtaken' = (overtaken \/ GoesBehindNewer(c))
      /\ up' = up /\ mem' = mem /\ stored' = stored /\ link' = link /\ fresh' = fresh
      /\ unwritten' = unwritten /\ keyOf' = keyOf /\ count' = count
  BY DEF Resend
<1>3. c \in Commands /\ c \in Open
  BY <1>1, OpenTyped DEF Open
<1>4. e \in Commands /\ e.key = c.key /\ e.value = c.value /\ e.n = c.n
  <2>1. /\ c.key \in Keys /\ c.value \in Contents(c.key) /\ c.n \in Nat \ {0}
        /\ c = [key |-> c.key, value |-> c.value, n |-> c.n, attempt |-> c.attempt]
    BY <1>3, CommandTyped
  <2>2. e = [key |-> c.key, value |-> c.value, n |-> c.n, attempt |-> 2]
    BY <2>1
  <2>3. [key |-> c.key, value |-> c.value, n |-> c.n, attempt |-> 2] \in Commands
    BY <2>1, IsCommand
  <2> QED BY <2>2, <2>3
<1>5. /\ m \in Nat /\ DOMAIN sent = 1 .. m
      /\ sent' \in Seq(Commands) /\ DOMAIN sent' = 1 .. m + 1
      /\ \A i \in 1 .. m : sent'[i] = sent[i]
      /\ sent'[m + 1] = e
  <2>1. m \in Nat /\ DOMAIN sent = 1 .. m /\ sent \in Seq(Commands)
    BY <1>1, OpenTyped DEF TypeOK
  <2> QED BY <1>2, <1>4, <2>1, AppendProperties
<1>6. /\ Sent' = Sent \cup {e} /\ Fresh' = Fresh
      /\ Open' \subseteq Open \cup {e}
      /\ \A d \in Open : d # c => d \in Open'
      /\ e \in Open'
  <2>1. Sent \subseteq Sent' /\ e \in Sent'
    BY <1>5 DEF Sent
  <2>2. ASSUME NEW i \in DOMAIN sent'
        PROVE  sent'[i] \in Sent \cup {e}
    <3>1. i \in 1 .. m \/ i = m + 1
      BY <1>5
    <3> QED BY <3>1, <1>5 DEF Sent
  <2>3. Sent' = Sent \cup {e}
    BY <2>1, <2>2 DEF Sent
  <2>4. Fresh' = Fresh
    BY <1>2 DEF Fresh
  <2> QED BY <1>2, <2>3, <2>4 DEF Open
<1>7. TypeOK'
  <2>1. overtaken' \in BOOLEAN
    BY <1>1, <1>2 DEF TypeOK, GoesBehindNewer
  <2> QED BY <1>1, <1>2, <1>5, <2>1 DEF TypeOK
<1>8. AllFit'
  <2>1. Fits(e.key, e.value)
    BY <1>1, <1>3, <1>4 DEF AllFit
  <2> QED BY <1>1, <1>2, <1>6, <2>1 DEF AllFit, Fits
<1>9. \A n, k : Newest(n, k)' <=> Newest(n, k)
  BY <1>2 DEF Newest
<1>10. \A d \in Open : d.n \in Nat /\ d.key \in Keys /\ d.n \in DOMAIN keyOf /\ keyOf[d.n] = d.key
  BY <1>1, NumbersTyped
\* A newer command of its key is not on the connection yet.
<1>11. ASSUME ~ overtaken', NEW n \in DOMAIN keyOf, keyOf[n] = c.key, c.n < n
       PROVE  \E d \in Fresh \cup failed : d.n = n
  <2>1. n \in c.n + 1 .. Len(keyOf)
    <3>1. Len(keyOf) \in Nat /\ DOMAIN keyOf = 1 .. Len(keyOf)
      BY <1>1, OpenTyped
    <3> QED BY <3>1, <1>3, <1>10, <1>11
  <2>2. n \in NumbersOf(fresh) \cup {d.n : d \in failed}
    BY <1>2, <1>11, <2>1 DEF GoesBehindNewer
  <2> QED BY <2>2 DEF NumbersOf, Fresh
<1>12. SentOnce'
  <2>1. ASSUME NEW i \in 1 .. m + 1, NEW j \in 1 .. m + 1, i < j
        PROVE  /\ sent'[i].n # sent'[j].n
               /\ ~ overtaken' /\ sent'[i].key = sent'[j].key => sent'[i].n < sent'[j].n
    <3>1. i \in 1 .. m
      BY <2>1, <1>5
    <3>2. CASE j \in 1 .. m
      <4>1. /\ sent'[i] = sent[i] /\ sent'[j] = sent[j]
            /\ i \in DOMAIN sent /\ j \in DOMAIN sent
        BY <3>1, <3>2, <1>5
      <4>2. ~ overtaken' => ~ overtaken
        BY <1>2
      <4> QED BY <2>1, <4>1, <4>2, <1>1 DEF CommandsOK, SentOnce
    <3>3. CASE j = m + 1
      <4>1. sent[i] \in Sent /\ sent[i] \in Open /\ sent'[i] = sent[i] /\ sent'[j] = e
        BY <3>1, <3>3, <1>5 DEF Sent, Open
      <4>2. sent[i].n # c.n
        BY <4>1, <1>1 DEF CommandsOK, FailedOnce
      <4>3. ASSUME ~ overtaken', sent[i].key = c.key
            PROVE  sent[i].n < c.n
        <5>1. SUFFICES ASSUME c.n < sent[i].n PROVE FALSE
          BY <4>1, <4>2, <1>3, <1>10
        <5>2. PICK d \in Fresh \cup failed : d.n = sent[i].n
          BY <4>1, <4>3, <5>1, <1>10, <1>11
        <5>3. CASE d \in Fresh
          <6>1. sent[i].n < d.n
            BY <4>1, <5>3, <1>1 DEF CommandsOK, FreshLast
          <6> QED BY <6>1, <5>2, <4>1, <1>10
        <5>4. CASE d \in failed
          BY <4>1, <5>2, <5>4, <1>1 DEF CommandsOK, FailedOnce
        <5> QED BY <5>3, <5>4
      <4> QED BY <4>1, <4>2, <4>3, <1>4
    <3> QED BY <2>1, <3>2, <3>3, <1>5
  <2> QED BY <2>1, <1>5 DEF SentOnce
<1>13. FreshLast'
  <2>1. \A d \in Sent' \cup failed', f \in Fresh : d.n < f.n
    BY <1>1, <1>2, <1>4, <1>6 DEF CommandsOK, FreshLast
  <2> QED BY <2>1, <1>1, <1>2, <1>6 DEF CommandsOK, FreshLast
<1>14. FailedOnce'
  <2>1. ASSUME NEW d \in failed', NEW f \in Sent'
        PROVE  d.n # f.n
    <3>1. d \in failed /\ d # c /\ c.n # d.n
      BY <1>1, <1>2 DEF CommandsOK, FailedOnce
    <3>2. CASE f \in Sent
      BY <3>1, <3>2, <1>1 DEF CommandsOK, FailedOnce
    <3>3. CASE f = e
      BY <3>1, <3>3, <1>4
    <3> QED BY <3>2, <3>3, <1>6
  <2> QED BY <2>1, <1>1, <1>2 DEF CommandsOK, FailedOnce
<1>15. Numbered' /\ Gone'
  BY <1>1, <1>2, <1>3, <1>4, <1>6 DEF CommandsOK, Numbered, Gone
<1>16. NewestIsServed'
  BY <1>1, <1>2, <1>3, <1>4, <1>6, <1>9 DEF CommandsOK, NewestIsServed
<1>17. NoWriteDropped'
  <2>1. \A n \in unwritten : \E d \in Open : d.n = n
    BY <1>1 DEF CommandsOK, NoWriteDropped, NumbersOf, Open, Sent, Fresh
  <2>2. \A n \in unwritten' : \E d \in Open' : d.n = n
    BY <2>1, <1>2, <1>4, <1>6
  <2> QED BY <2>2 DEF NoWriteDropped, NumbersOf, Open, Sent, Fresh
<1>18. StoredIsServed'
  <2>1. SUFFICES ASSUME up, ~ overtaken', NEW k \in Keys, Answered(k)'
                 PROVE  stored[k] = mem[k] /\ \A d \in Sent' \cup Fresh : d.key # k
    BY <1>2, <1>6 DEF StoredIsServed
  <2>2. Answered(k)
    <3>1. ASSUME NEW d \in Open, d.key = k, Newest(d.n, k)
          PROVE  FALSE
      <4>1. CASE d = c
        BY <3>1, <4>1, <2>1, <1>4, <1>6, <1>9 DEF Answered
      <4>2. CASE d # c
        BY <3>1, <4>2, <2>1, <1>6, <1>9 DEF Answered
      <4> QED BY <4>1, <4>2
    <3> QED BY <3>1 DEF Answered
  <2>3. stored[k] = mem[k] /\ \A d \in Sent \cup Fresh : d.key # k
    BY <2>1, <2>2, <1>1, <1>2 DEF CommandsOK, StoredIsServed
  <2>4. c.key # k
    <3>1. SUFFICES ASSUME c.key = k PROVE FALSE
      OBVIOUS
    <3>2. PICK n \in DOMAIN keyOf : c.n <= n /\ Newest(n, k)
      BY <3>1, <1>1, <1>3, <1>10, NewestExists
    <3>3. c.n # n
      BY <3>1, <3>2, <2>2, <1>3 DEF Answered
    <3>4. c.n < n /\ keyOf[n] = k
      <4>1. n \in Nat
        BY <1>1, OpenTyped
      <4> QED BY <4>1, <3>2, <3>3, <1>3, <1>10 DEF Newest
    <3>5. PICK d \in Fresh \cup failed : d.n = n
      BY <2>1, <3>1, <3>4, <1>11
    <3>6. d \in Open /\ d.key = k
      BY <3>4, <3>5, <1>10 DEF Open
    <3> QED BY <3>2, <3>5, <3>6, <2>2 DEF Answered
  <2> QED BY <2>3, <2>4, <1>4, <1>6
<1>19. Steady' /\ StoresOK'
  BY <1>1, <1>2, BrokenStores
<1> QED BY <1>7, <1>8, <1>12, <1>13, <1>14, <1>15, <1>16, <1>17, <1>18, <1>19 DEF IInv, CommandsOK

LEMMA BreakIInv == ASSUME IInv, Break PROVE IInv'
<1> PICK j \in 0 .. Len(sent) :
        /\ up /\ link
        /\ count.breaks < MaxBreaks
        /\ count' = [count EXCEPT !.breaks = @ + 1]
        /\ IF \E i \in DOMAIN sent : sent[i].attempt = 2
             THEN Stop(j)
             ELSE /\ stored' = Executed(j)
                  /\ unwritten' = unwritten \ {sent[i].n : i \in 1 .. j}
                  /\ failed' = failed \cup {sent[i] : i \in DOMAIN sent}
                  /\ sent' = <<>>
                  /\ link' = FALSE
                  /\ UNCHANGED <<up, mem, fresh, keyOf, overtaken>>
  BY DEF Break
<1>1. TypeOK /\ AllFit /\ CommandsOK
  BY DEF IInv
<1>2. /\ count' \in [created : 0 .. MaxCreated, breaks : 0 .. MaxBreaks, crashes : 0 .. MaxCrashes]
      /\ count'.created = count.created /\ ~ Unbroken'
  <2>1. count \in [created : 0 .. MaxCreated, breaks : 0 .. MaxBreaks, crashes : 0 .. MaxCrashes]
    BY <1>1 DEF TypeOK
  <2> QED BY <2>1, PersistenceAssumption DEF Unbroken
<1>3. CASE \E i \in DOMAIN sent : sent[i].attempt = 2
  BY <1>2, <1>3, StopIInv
<1>4. CASE \A i \in DOMAIN sent : sent[i].attempt # 2
  <2>1. /\ stored' = Executed(j) /\ sent' = <<>> /\ link' = FALSE
        /\ unwritten' = unwritten \ {sent[i].n : i \in 1 .. j}
        /\ failed' = failed \cup Sent
        /\ up' = up /\ mem' = mem /\ fresh' = fresh /\ keyOf' = keyOf /\ overtaken' = overtaken
    BY <1>4 DEF Sent
  <2>2. Sent' = {} /\ DOMAIN sent' = {} /\ Fresh' = Fresh /\ Open' = Open
    BY <2>1 DEF Sent, Fresh, Open
  <2>3. IsStore(stored') /\ \A k \in Keys : Fits(k, stored'[k])
    BY <1>1, <2>1, ExecutedFits
  <2>4. \A c \in Sent : c \in Commands /\ c.attempt = 1
    BY <1>1, <1>4, OpenTyped, CommandTyped DEF Sent
  <2>5. TypeOK'
    <3>1. <<>> \in Seq(Commands)
      OBVIOUS
    <3> QED BY <1>1, <1>2, <2>1, <2>3, <2>4, <3>1 DEF TypeOK, IsStore
  <2>6. AllFit'
    BY <1>1, <1>2, <2>1, <2>2, <2>3 DEF AllFit, Fits
  <2>7. \A n, k : Newest(n, k)' <=> Newest(n, k)
    BY <2>1 DEF Newest
  <2>8. \A c \in Open : c.n \in Nat
    BY <1>1, NumbersTyped
  <2>9. SentOnce' /\ FreshLast' /\ Numbered' /\ NewestIsServed'
    BY <1>1, <2>1, <2>2, <2>7
       DEF CommandsOK, SentOnce, FreshLast, Numbered, NewestIsServed
  <2>10. FailedOnce'
    <3>1. ASSUME NEW c \in Sent, NEW d \in Sent, c.n = d.n
          PROVE  c = d
      <4>1. PICK i \in DOMAIN sent, h \in DOMAIN sent : c = sent[i] /\ d = sent[h]
        BY DEF Sent
      <4>2. i \in Nat /\ h \in Nat
        BY <1>1, OpenTyped
      <4>3. ~ (i < h) /\ ~ (h < i)
        BY <3>1, <4>1, <1>1 DEF CommandsOK, SentOnce
      <4> QED BY <4>1, <4>2, <4>3
    <3>2. ASSUME NEW c \in failed, NEW d \in Sent
          PROVE  c.n # d.n
      BY <1>1 DEF CommandsOK, FailedOnce
    <3> QED BY <1>1, <2>1, <2>2, <3>1, <3>2 DEF CommandsOK, FailedOnce
  <2>11. NoWriteDropped'
    <3>1. \A n \in unwritten : \E c \in Open : c.n = n
      BY <1>1 DEF CommandsOK, NoWriteDropped, NumbersOf, Open, Sent, Fresh
    <3>2. \A n \in unwritten' : \E c \in Open' : c.n = n
      BY <3>1, <2>1, <2>2
    <3> QED BY <3>2 DEF NoWriteDropped, NumbersOf, Open, Sent, Fresh
  <2>12. StoredIsServed'
    <3>1. SUFFICES ASSUME ~ overtaken, NEW k \in Keys, Answered(k)'
                   PROVE  stored'[k] = mem[k] /\ \A c \in Fresh : c.key # k
      BY <2>1, <2>2 DEF StoredIsServed
    <3>2. Answered(k)
      BY <2>2, <2>7, <3>1 DEF Answered
    <3>3. stored[k] = mem[k] /\ \A c \in Sent \cup Fresh : c.key # k
      BY <1>1, <3>1, <3>2 DEF CommandsOK, StoredIsServed
    <3>4. \A i \in 1 .. j : sent[i].key # k
      <4>1. \A i \in 1 .. j : sent[i] \in Sent
        BY <1>1, OpenTyped
      <4> QED BY <4>1, <3>3
    <3> QED BY <1>1, <2>1, <3>3, <3>4, ExecutedValue
  <2>13. Gone'
    BY <2>1 DEF Gone
  <2>14. Steady' /\ StoresOK'
    BY <1>2 DEF Steady, StoresOK
  <2> QED BY <2>5, <2>6, <2>9, <2>10, <2>11, <2>12, <2>13, <2>14 DEF IInv, CommandsOK
<1> QED BY <1>3, <1>4

-----------------------------------------------------------------------------
\* The invariant, and what follows from it.

LEMMA NextIInv == ASSUME IInv, [Next]_vars PROVE IInv'
<1>1. CASE Fund
  BY <1>1, FundIInv
<1>2. CASE Create
  BY <1>2, CreateIInv
<1>3. CASE \E id \in Numbers : Approve(id) \/ Cancel(id)
  BY <1>3, ApproveIInv, CancelIInv
<1>4. CASE Reset
  BY <1>4, ResetIInv
<1>5. CASE Execute
  BY <1>5, ExecuteIInv
<1>6. CASE Break
  BY <1>6, BreakIInv
<1>7. CASE Connect
  BY <1>7, LinkIInv DEF Connect
<1>8. CASE ConnectFails
  BY <1>8, ConnectFailsIInv
<1>9. CASE SendFresh
  BY <1>9, SendFreshIInv
<1>10. CASE \E c \in failed : Resend(c)
  BY <1>10, ResendIInv
<1>11. CASE Crash
  BY <1>11, CrashIInv
<1>12. CASE Restart
  BY <1>12, RestartIInv
<1>13. CASE UNCHANGED vars
  BY <1>13, LinkIInv DEF vars
<1> QED
  BY <1>1, <1>2, <1>3, <1>4, <1>5, <1>6, <1>7, <1>8, <1>9, <1>10, <1>11, <1>12, <1>13 DEF Next

LEMMA Invariance == Spec => []IInv
<1>1. Init => IInv
  BY InitIInv
<1>2. IInv /\ [Next]_vars => IInv'
  BY NextIInv
<1> QED BY <1>1, <1>2, PTL DEF Spec

\* Every map and every command is one the program can hold, and no command is sent a
\* third time (redis.ts withRetry).
THEOREM TypeCorrect == Spec => []TypeOK
<1>1. IInv => TypeOK
  BY DEF IInv
<1> QED BY <1>1, Invariance, PTL

\* No command is forgotten while the process runs on, however often the connection
\* breaks (redis.ts withRetry, common.ts fatalPersistError).
THEOREM NeverDropped == Spec => []NoWriteDropped
<1>1. IInv => NoWriteDropped
  BY DEF IInv, CommandsOK
<1> QED BY <1>1, Invariance, PTL

\* When every command has its reply, Redis holds what the process serves, unless a
\* retry went out behind a newer command of its key (redis.ts withRetry, reconnect).
THEOREM LostOnlyBehindNewer == Spec => []LostOnlyIfOvertaken
<1>1. ASSUME IInv, ~ overtaken, Quiet
      PROVE  stored = mem
  <2>1. Open = {}
    BY <1>1 DEF Quiet, Open, Sent, Fresh
  <2>2. \A k \in Keys : stored[k] = mem[k]
    BY <1>1, <2>1 DEF IInv, CommandsOK, StoredIsServed, Answered, Quiet
  <2>3. stored = [k \in Keys |-> stored[k]] /\ mem = [k \in Keys |-> mem[k]]
    BY <1>1 DEF IInv, TypeOK, IsStore
  <2> QED BY <2>2, <2>3
<1>2. IInv => LostOnlyIfOvertaken
  BY <1>1 DEF LostOnlyIfOvertaken, NothingLost
<1> QED BY <1>2, Invariance, PTL

\* Neither what is served nor what Redis holds has more credited than debited
\* (memory-store.ts persistWallets between the debit and the credit of a payment).
THEOREM NoCashFromRetries == Spec => []CashNeverCreated
<1>1. ASSUME IInv, NEW s \in {mem, stored}
      PROVE  Len(s.wallets.credited) <= Len(s.wallets.debited)
  <2>1. "wallets" \in Keys
    BY DEF Keys
  <2>2. FitsAt("wallets", mem["wallets"], count.created) /\ FitsAt("wallets", stored["wallets"], count.created)
    BY <1>1, <2>1 DEF IInv, AllFit, Fits
  <2> QED BY <2>2 DEF FitsAt
<1>2. IInv => CashNeverCreated
  BY <1>1 DEF CashNeverCreated
<1> QED BY <1>2, Invariance, PTL

\* What Redis holds is the store after none of the commands sent.
LEMMA StoredIsGood == ASSUME IInv, Unbroken PROVE Good(stored)
<1>1. Executed(0) = stored /\ 0 \in 0 .. Len(sent)
  BY Stepwise, OpenTyped DEF IInv, ExecutedSteps
<1> QED BY <1>1 DEF IInv, StoresOK

\* As long as the connection holds, wherever a crash cuts the writes of an approval,
\* Redis holds no settled draft whose debit and credit are not in the wallets it holds
\* (workflow.ts approve, memory-store.ts persistWallets and persistDrafts).
THEOREM SettledIsMoved == Spec => []SettledMeansMoved
<1>1. IInv => SettledMeansMoved
  BY StoredIsGood DEF SettledMeansMoved, Good, GoodAt
<1> QED BY <1>1, Invariance, PTL

\* As long as the connection holds, Redis holds the transaction of no draft that is
\* pending or cancelled (workflow.ts approve).
THEOREM RecordedIsSettled == Spec => []TransactionsOfSettled
<1>1. IInv => TransactionsOfSettled
  BY StoredIsGood DEF TransactionsOfSettled, Good, GoodAt
<1> QED BY <1>1, Invariance, PTL

-----------------------------------------------------------------------------
\* No draft replaces another.

LEMMA AfterDrafts ==
  ASSUME NEW changes, NEW created, Handle(changes, created)
  PROVE  /\ (\A i \in DOMAIN changes : changes[i][1] # "drafts") => mem'.drafts = mem.drafts
         /\ \A i \in DOMAIN changes :
                /\ i \in Nat
                /\ changes[i][1] = "drafts"
                /\ \A j \in DOMAIN changes : changes[j][1] = "drafts" => j = i
                => mem'.drafts = changes[i][2]
<1>1. "drafts" \in Keys /\ mem' = After(changes)
  BY DEF Keys, Handle
<1>2. mem'["drafts"] = IF \E i \in DOMAIN changes : changes[i][1] = "drafts"
                         THEN changes[Last(changes, "drafts")][2]
                         ELSE mem["drafts"]
  BY <1>1 DEF After
<1>3. ASSUME NEW i \in DOMAIN changes, i \in Nat, changes[i][1] = "drafts",
             \A j \in DOMAIN changes : changes[j][1] = "drafts" => j = i
      PROVE  Last(changes, "drafts") = i
  BY <1>3 DEF Last
<1> QED BY <1>2, <1>3

\* A draft that is there keeps its number.
KeepsNumbers ==
    \A id \in Numbers :
        mem.drafts[id] # NoDraft /\ mem'.drafts[id] # NoDraft => mem'.drafts[id].n = mem.drafts[id].n

LEMMA NextKeepsNumbers == ASSUME IInv, Unbroken, [Next]_vars PROVE KeepsNumbers
<1>1. CASE mem'.drafts = mem.drafts
  BY <1>1 DEF KeepsNumbers
<1>2. CASE mem' = EmptyStore
  BY <1>2 DEF EmptyStore, KeepsNumbers
<1>3. CASE Fund
  <2>1. PICK w : Handle(<< <<"wallets", w>> >>, 0)
    BY <1>3 DEF Fund
  <2>2. mem'.drafts = mem.drafts
    BY <2>1, AfterDrafts
  <2> QED BY <2>2, <1>1
<1>4. CASE Create
  <2> DEFINE id == mem.sequences + 1
             changes == << <<"sequences", id>>, <<"drafts", NewDrafts(id)>> >>
  <2>1. Handle(changes, 1) /\ up
    BY <1>4 DEF Create, Handle
  <2>2. DOMAIN changes = 1 .. 2 /\ changes[1][1] = "sequences" /\ changes[2][1] = "drafts" /\ changes[2][2] = NewDrafts(id)
    OBVIOUS
  <2>3. mem'.drafts = NewDrafts(id)
    <3> HIDE DEF changes, id
    <3> QED BY <2>1, <2>2, AfterDrafts
  <2>4. \A q \in Numbers : q # id => mem'.drafts[q] = mem.drafts[q]
    BY <2>3, MemTyped DEF NewDrafts
  <2>5. Good(mem)
    BY <2>1, OpenTyped DEF IInv, StoresOK
  <2>6. \A q \in Numbers : mem.drafts[q] # NoDraft => q # id
    BY <2>5, MemTyped DEF Good, GoodAt, Numbers
  <2> QED BY <2>4, <2>6 DEF KeepsNumbers
<1>5. ASSUME NEW id \in Numbers, Approve(id)
      PROVE  KeepsNumbers
  <2> DEFINE n == mem.drafts[id].n
             d == WithStatus(id, "SETTLED")
             t == Append(mem.transactions, n)
             changes == << <<"wallets", AfterDebit(n)>>, <<"wallets", AfterCredit(n)>>,
                           <<"drafts", d>>, <<"transactions", t>> >>
  <2>1. Handle(changes, 0)
    <3>1. << <<"wallets", AfterDebit(n)>>, <<"wallets", AfterCredit(n)>> >>
            \o << <<"drafts", d>>, <<"transactions", t>> >> = changes
      <4> HIDE DEF d, t
      <4> QED BY TwoAndTwo
    <3>2. Moved(n) = << <<"wallets", AfterDebit(n)>>, <<"wallets", AfterCredit(n)>> >>
      BY DEF Moved
    <3> QED BY <1>5, <3>1, <3>2 DEF Approve
  <2>2. \A q \in Numbers : d[q].n = mem.drafts[q].n
    BY WithStatusOf
  <2>3. mem'.drafts = d
    <3> HIDE DEF d, t
    <3>1. /\ DOMAIN changes = 1 .. 4 /\ changes[1][1] = "wallets" /\ changes[2][1] = "wallets"
          /\ changes[3][1] = "drafts" /\ changes[3][2] = d /\ changes[4][1] = "transactions"
      OBVIOUS
    <3> HIDE DEF changes
    <3>2. \A j \in DOMAIN changes : changes[j][1] = "drafts" => j = 3
      BY <3>1
    <3> QED BY <2>1, <3>1, <3>2, AfterDrafts
  <2> HIDE DEF d
  <2> QED BY <2>2, <2>3 DEF KeepsNumbers
<1>6. ASSUME NEW id \in Numbers, Cancel(id)
      PROVE  KeepsNumbers
  <2>1. PICK d : Handle(<< <<"drafts", d>> >>, 0) /\ d = WithStatus(id, "CANCELED")
    BY <1>6 DEF Cancel
  <2>2. mem'.drafts = d
    BY <2>1, AfterDrafts
  <2>3. \A q \in Numbers : d[q].n = mem.drafts[q].n
    BY <2>1, WithStatusOf
  <2> QED BY <2>2, <2>3 DEF KeepsNumbers
<1>7. CASE Reset
  <2> DEFINE d == EmptyStore.drafts
             changes == << <<"wallets", NoWallets(mem.wallets.era + 1)>>, <<"drafts", d>>,
                           <<"transactions", EmptyStore.transactions>>,
                           <<"sequences", EmptyStore.sequences>> >>
  <2>1. Handle(changes, 0)
    BY <1>7 DEF Reset
  <2>2. mem'.drafts = d
    <3> HIDE DEF d
    <3>1. /\ DOMAIN changes = 1 .. 4 /\ changes[1][1] = "wallets" /\ changes[2][1] = "drafts"
          /\ changes[2][2] = d /\ changes[3][1] = "transactions" /\ changes[4][1] = "sequences"
      OBVIOUS
    <3> HIDE DEF changes
    <3>2. \A j \in DOMAIN changes : changes[j][1] = "drafts" => j = 2
      BY <3>1
    <3> QED BY <2>1, <3>1, <3>2, AfterDrafts
  <2> QED BY <2>2 DEF EmptyStore, KeepsNumbers
<1>8. CASE Restart
  <2>1. mem = EmptyStore
    BY <1>8 DEF Restart, IInv, CommandsOK, Gone
  <2> QED BY <2>1 DEF EmptyStore, KeepsNumbers
<1>9. CASE Execute \/ Connect \/ SendFresh \/ (\E c \in failed : Resend(c)) \/ UNCHANGED vars
  BY <1>1, <1>9 DEF Execute, Connect, SendFresh, Resend, vars
<1>10. CASE Break \/ ConnectFails \/ Crash
  BY <1>1, <1>2, <1>10 DEF Break, ConnectFails, Crash, Stop
<1> QED BY <1>3, <1>4, <1>5, <1>6, <1>7, <1>8, <1>9, <1>10 DEF Next

\* As long as the connection holds, a process that restarts after a crash gives no
\* draft the number of one it read back (memory-store.ts nextId, hydrate).
THEOREM NoDraftReplaced == Spec => DraftsNotReplaced
<1>1. IInv /\ [Next]_vars =>
        [\A id \in Numbers :
            Unbroken /\ mem.drafts[id] # NoDraft /\ mem'.drafts[id] # NoDraft =>
                mem'.drafts[id].n = mem.drafts[id].n]_vars
  BY NextKeepsNumbers DEF KeepsNumbers
<1> QED BY <1>1, Invariance, PTL DEF Spec, DraftsNotReplaced
=============================================================================
