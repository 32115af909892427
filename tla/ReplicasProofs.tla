--------------------------- MODULE ReplicasProofs ---------------------------
(***************************************************************************)
(* What Replicas promises, for any number of processes, users, attempts,   *)
(* keys and starts.                                                        *)
(***************************************************************************)
EXTENDS Replicas, TLAPS

Keyed == {"PERSISTING", "LOADING", "SERVING"}
Settled == {"LOADING", "SERVING"}

-----------------------------------------------------------------------------
\* The inductive invariant.

\* A process that has a bundle has both its keys; the one it wants to write
\* keeps the authority of the one it completes.
KeysHeld ==
    \A r \in Replicas :
        /\ replica[r].phase \in Keyed =>
              replica[r].bundle.ca # NoKey /\ replica[r].bundle.jwt # NoKey
        /\ replica[r].phase = "PERSISTING" =>
              /\ replica[r].read.jwt = NoKey
              /\ replica[r].read # NoBundle => replica[r].bundle.ca = replica[r].read.ca

\* Redis holds no token key without an authority, and new keys have new numbers.
StoredWhole == (pki = NoBundle \/ pki.ca # NoKey) /\ count.keys >= LegacyCa

\* The authority of an older bundle is kept by all or known to none.
LegacyKept ==
    \A r \in Replicas :
        replica[r].phase \in Keyed =>
            (replica[r].bundle.ca = LegacyCa <=> pki.ca = LegacyCa)

\* A process that has persisted its bundle finds it in Redis.
PersistedIsStored ==
    ~raced => \A r \in Replicas : replica[r].phase \in Settled => replica[r].bundle = pki

IssuedByStored == \A t \in issued : t.key # NoKey /\ (~raced => t.key = pki.jwt)

GoodEnrolment(e) == /\ e.ca # NoKey
                    /\ ~raced \/ pki.ca = LegacyCa => e.ca = pki.ca

EnrolledByStored ==
    /\ \A e \in stored : GoodEnrolment(e)
    /\ \A r \in Replicas : \A e \in replica[r].users : GoodEnrolment(e)

IInv ==
    /\ TypeOK
    /\ KeysHeld
    /\ StoredWhole
    /\ LegacyKept
    /\ PersistedIsStored
    /\ IssuedByStored
    /\ EnrolledByStored

-----------------------------------------------------------------------------
\* The steps.

ReplicaStates == [phase : Phases, attempts : 0 .. MaxAttempts - 1,
                  read : Bundles, bundle : Bundles, users : SUBSET Enrolments]

\* A process that is down holds nothing.
LEMMA DownTyped == Down \in ReplicaStates /\ NoBundle \in Bundles
  BY ReplicasAssumption DEF Down, ReplicaStates, NoBundle, Bundles, Keys, NoKey, Phases

\* At the start Redis is empty or holds a bundle of an older version.
LEMMA InitIInv == Init => IInv
<1> SUFFICES ASSUME Init PROVE IInv
  OBVIOUS
<1>1. TypeOK
  <2>1. replica \in [Replicas -> ReplicaStates]
    BY DownTyped DEF Init
  <2>2. pki \in Bundles /\ stored \subseteq Enrolments
    BY ReplicasAssumption
       DEF Init, NoBundle, Bundles, Keys, NoKey, LegacyCa, Enrolments
  <2>3. count \in [keys : Keys, starts : 0 .. MaxStarts]
    BY ReplicasAssumption DEF Init, Keys, LegacyCa
  <2> QED
    BY <2>1, <2>2, <2>3 DEF Init, TypeOK, ReplicaStates
<1>2. \A r \in Replicas : replica[r].phase = "DOWN" /\ replica[r].users = {}
  BY DEF Init, Down
<1>3. KeysHeld /\ LegacyKept /\ PersistedIsStored
  BY <1>2 DEF KeysHeld, LegacyKept, PersistedIsStored, Keyed, Settled
<1>4. StoredWhole /\ IssuedByStored
  BY DEF Init, StoredWhole, IssuedByStored, NoBundle, NoKey, LegacyCa
<1>5. EnrolledByStored
  BY <1>2 DEF Init, EnrolledByStored, GoodEnrolment, NoBundle, NoKey, LegacyCa
<1> QED
  BY <1>1, <1>3, <1>4, <1>5 DEF IInv

\* When one process changes, the invariant has to be looked at for that one alone,
\* as long as Redis keeps the bundle.
Holds(state) ==
    /\ state \in ReplicaStates
    /\ state.phase \in Keyed =>
          /\ state.bundle.ca # NoKey /\ state.bundle.jwt # NoKey
          /\ state.bundle.ca = LegacyCa <=> pki.ca = LegacyCa
    /\ state.phase = "PERSISTING" =>
          /\ state.read.jwt = NoKey
          /\ state.read # NoBundle => state.bundle.ca = state.read.ca
    /\ ~raced /\ state.phase \in Settled => state.bundle = pki
    /\ \A e \in state.users : GoodEnrolment(e)

LEMMA HoldsForAll == IInv => \A r \in Replicas : Holds(replica[r])
  BY DEF IInv, TypeOK, Holds, ReplicaStates, KeysHeld, LegacyKept, PersistedIsStored,
         EnrolledByStored

LEMMA OneChanges ==
    ASSUME IInv, NEW r \in Replicas, NEW state, Holds(state),
           replica' = [replica EXCEPT ![r] = state],
           UNCHANGED <<pki, raced>>,
           count' \in [keys : Keys, starts : 0 .. MaxStarts], count'.keys >= count.keys,
           stored' \subseteq Enrolments, \A e \in stored' : GoodEnrolment(e),
           issued' \subseteq [user : Users, key : Keys],
           \A t \in issued' : t.key # NoKey /\ (~raced => t.key = pki.jwt)
    PROVE  IInv'
<1>1. \A s \in Replicas : Holds(replica'[s])
  BY HoldsForAll DEF IInv, TypeOK
<1>2. TypeOK'
  <2>1. replica' \in [Replicas -> ReplicaStates]
    BY DEF IInv, TypeOK, Holds, ReplicaStates
  <2> QED
    BY <2>1 DEF IInv, TypeOK, ReplicaStates
<1>3. KeysHeld' /\ LegacyKept' /\ PersistedIsStored'
  BY <1>1 DEF KeysHeld, LegacyKept, PersistedIsStored, Holds
<1>4. StoredWhole' /\ IssuedByStored'
  <2>1. count'.keys >= LegacyCa
    BY DEF IInv, TypeOK, StoredWhole, LegacyCa, Keys
  <2> QED
    BY <2>1 DEF IInv, StoredWhole, IssuedByStored
<1>5. EnrolledByStored'
  BY <1>1 DEF EnrolledByStored, GoodEnrolment, Holds
<1> QED
  BY <1>2, <1>3, <1>4, <1>5 DEF IInv

\* Most steps count nothing.
LEMMA SameCount ==
    ASSUME IInv, UNCHANGED count
    PROVE  count' \in [keys : Keys, starts : 0 .. MaxStarts] /\ count'.keys >= count.keys
  BY ReplicasAssumption DEF IInv, TypeOK, Keys

\* A write replaces the bundle by a completion of it, or leaves it, or races; the
\* process goes on with the same bundle or is gone.
LEMMA Written ==
    ASSUME IInv, NEW r \in Replicas, replica[r].phase = "PERSISTING",
           WriteBundle(r), UNCHANGED <<stored, issued, count>>,
           NEW state \in ReplicaStates, replica' = [replica EXCEPT ![r] = state],
           \/ state = Down
           \/ /\ state.phase \in {"PERSISTING", "LOADING"}
              /\ state.read = replica[r].read
              /\ state.bundle = replica[r].bundle
              /\ state.users = replica[r].users
    PROVE  IInv'
<1> DEFINE new == replica[r].bundle
           old == replica[r].read
<1>1. /\ new \in Bundles /\ old \in Bundles
      /\ pki \in Bundles /\ raced \in BOOLEAN /\ pki' = new
      /\ new.ca # NoKey /\ new.jwt # NoKey /\ old.jwt = NoKey
      /\ old # NoBundle => new.ca = old.ca
      /\ new.ca = LegacyCa <=> pki.ca = LegacyCa
  BY HoldsForAll DEF Holds, IInv, TypeOK, ReplicaStates, Keyed, WriteBundle
<1>2. /\ replica \in [Replicas -> ReplicaStates]
      /\ replica' \in [Replicas -> ReplicaStates]
      /\ \A s \in Replicas \ {r} : replica'[s] = replica[s]
      /\ replica'[r] = state
  BY DEF IInv, TypeOK, ReplicaStates
<1>3. TypeOK' /\ KeysHeld' /\ LegacyKept' /\ StoredWhole'
  <2>1. raced' \in BOOLEAN
    BY <1>1 DEF WriteBundle
  <2>2. TypeOK'
    BY <1>1, <1>2, <2>1 DEF IInv, TypeOK, ReplicaStates
  <2>3. KeysHeld'
    BY <1>1, <1>2 DEF IInv, KeysHeld, Down, Keyed
  <2>4. LegacyKept'
    BY <1>1, <1>2 DEF IInv, LegacyKept, Down, Keyed
  <2> QED
    BY <1>1, <2>2, <2>3, <2>4 DEF IInv, StoredWhole
<1>4. ~raced' => ~raced /\ (pki = new \/ pki = old)
  BY <1>1 DEF WriteBundle
<1>5. ASSUME ~raced', pki = old
      PROVE  /\ \A s \in Replicas : replica[s].phase \notin Settled
             /\ issued = {}
  BY <1>1, <1>4, <1>5
     DEF IInv, PersistedIsStored, KeysHeld, IssuedByStored, Settled, Keyed
<1>6. PersistedIsStored'
  BY <1>1, <1>2, <1>4, <1>5 DEF IInv, PersistedIsStored, Settled, Down
<1>7. IssuedByStored'
  BY <1>1, <1>4, <1>5 DEF IInv, IssuedByStored
<1>8. ASSUME NEW e, e.ca # NoKey, ~raced \/ pki.ca = LegacyCa => e.ca = pki.ca
      PROVE  ~raced' \/ pki'.ca = LegacyCa => e.ca = pki'.ca
  <2>1. CASE pki'.ca = LegacyCa
    BY <1>1, <1>8, <2>1
  <2>2. CASE ~raced' /\ pki = old
    BY <1>1, <1>4, <1>8, <2>2 DEF NoBundle, NoKey
  <2>3. CASE ~raced' /\ pki = new
    BY <1>1, <1>4, <1>8, <2>3
  <2> QED
    BY <1>4, <2>1, <2>2, <2>3
<1>9. EnrolledByStored'
  BY <1>2, <1>8 DEF IInv, EnrolledByStored, GoodEnrolment, Down
<1> QED
  BY <1>3, <1>6, <1>7, <1>9 DEF IInv

\* Every step preserves the invariant.
LEMMA NextIInv == IInv /\ [Next]_vars => IInv'
<1> SUFFICES ASSUME IInv, [Next]_vars PROVE IInv'
  OBVIOUS
<1> USE DEF ReplicaStates
<1>1. ASSUME NEW r \in Replicas, Start(r) PROVE IInv'
  <2> DEFINE state == [Down EXCEPT !.phase = "READING"]
  <2>1. Holds(state)
    BY DownTyped DEF Holds, Down, Phases, Keyed, Settled
  <2>2. /\ count' \in [keys : Keys, starts : 0 .. MaxStarts]
        /\ count'.keys >= count.keys
    BY <1>1, ReplicasAssumption DEF Start, IInv, TypeOK, Keys
  <2> QED
    BY <1>1, <2>1, <2>2, OneChanges
       DEF Start, IInv, TypeOK, IssuedByStored, EnrolledByStored
<1>2. ASSUME NEW r \in Replicas, ReadBundle(r) PROVE IInv'
  <2> DEFINE state == [replica[r] EXCEPT
                          !.phase = IF NewKeys(pki) = 0 THEN "LOADING" ELSE "PERSISTING",
                          !.attempts = 0, !.read = pki, !.bundle = NextBundle(pki)]
  <2>1. /\ replica[r] \in ReplicaStates /\ pki \in Bundles
        /\ \A e \in replica[r].users : GoodEnrolment(e)
    BY DEF IInv, TypeOK, EnrolledByStored
  <2>2. /\ NextBundle(pki) \in Bundles
        /\ NextBundle(pki).ca # NoKey /\ NextBundle(pki).jwt # NoKey
        /\ NextBundle(pki).ca = LegacyCa <=> pki.ca = LegacyCa
        /\ pki # NoBundle => NextBundle(pki).ca = pki.ca
        /\ NewKeys(pki) = 0 => NextBundle(pki) = pki
        /\ NewKeys(pki) # 0 => pki.jwt = NoKey
    <3>1. count.keys \in Nat /\ count.keys >= 1 /\ count.keys + NewKeys(pki) <= MaxKeys
      BY <1>2 DEF ReadBundle, IInv, TypeOK, StoredWhole, Keys, LegacyCa
    <3>2. CASE pki = NoBundle
      BY <3>1, <3>2, ReplicasAssumption
         DEF NextBundle, NewKeys, NoBundle, Bundles, Keys, NoKey, LegacyCa
    <3>3. CASE pki # NoBundle /\ pki.jwt = NoKey
      BY <2>1, <3>1, <3>3, ReplicasAssumption
         DEF NextBundle, NewKeys, IInv, StoredWhole, Bundles, Keys, NoKey, LegacyCa
    <3>4. CASE pki # NoBundle /\ pki.jwt # NoKey
      BY <2>1, <3>4 DEF NextBundle, NewKeys, IInv, StoredWhole
    <3> QED
      BY <3>2, <3>3, <3>4
  <2>3. Holds(state)
    <3>1. state \in ReplicaStates
      <4>1. 0 \in 0 .. MaxAttempts - 1
        BY ReplicasAssumption
      <4>2. (IF NewKeys(pki) = 0 THEN "LOADING" ELSE "PERSISTING") \in Phases
        BY DEF Phases
      <4> HIDE DEF Phases
      <4> QED
        BY <2>1, <2>2, <4>1, <4>2
    <3>2. /\ state.phase = IF NewKeys(pki) = 0 THEN "LOADING" ELSE "PERSISTING"
          /\ state.read = pki /\ state.bundle = NextBundle(pki)
          /\ state.users = replica[r].users
      BY <2>1
    <3> QED
      BY <2>1, <2>2, <3>1, <3>2 DEF Holds, Keyed, Settled
  <2>4. count' \in [keys : Keys, starts : 0 .. MaxStarts] /\ count'.keys >= count.keys
    BY <1>2, ReplicasAssumption DEF ReadBundle, NewKeys, IInv, TypeOK, Keys
  <2>5. replica' = [replica EXCEPT ![r] = state]
    BY <1>2 DEF ReadBundle, IInv, TypeOK
  <2> QED
    BY <1>2, <2>3, <2>4, <2>5, OneChanges
       DEF ReadBundle, IInv, TypeOK, IssuedByStored, EnrolledByStored
<1>3. ASSUME NEW r \in Replicas, PersistBundle(r) PROVE IInv'
  <2> DEFINE state == [replica[r] EXCEPT !.phase = "LOADING", !.attempts = 0]
  <2>1. replica[r] \in ReplicaStates
    BY DEF IInv, TypeOK
  <2>2. 0 \in 0 .. MaxAttempts - 1
    BY ReplicasAssumption
  <2>3. state \in ReplicaStates
    BY <2>1, <2>2 DEF Phases
  <2>4. replica' = [replica EXCEPT ![r] = state]
    BY <1>3 DEF PersistBundle, IInv, TypeOK
  <2>5. /\ state.phase = "LOADING" /\ state.read = replica[r].read
        /\ state.bundle = replica[r].bundle /\ state.users = replica[r].users
    BY <2>1
  <2> HIDE DEF state
  <2> QED
    BY <1>3, <2>3, <2>4, <2>5, Written DEF PersistBundle
<1>4. ASSUME NEW r \in Replicas, AttemptFails(r) PROVE IInv'
  <2> DEFINE state == AnotherAttempt(replica[r])
  <2>1. replica[r] \in ReplicaStates /\ Holds(replica[r])
    BY HoldsForAll DEF IInv, TypeOK
  <2>2. state \in ReplicaStates
    <3>1. CASE replica[r].attempts + 1 < MaxAttempts
      <4>1. replica[r].attempts + 1 \in 0 .. MaxAttempts - 1
        BY <2>1, <3>1, ReplicasAssumption
      <4> QED
        BY <2>1, <3>1, <4>1 DEF AnotherAttempt
    <3> QED
      BY <3>1, DownTyped DEF AnotherAttempt
  <2>3. \/ state = Down
        \/ /\ state.phase = replica[r].phase /\ state.read = replica[r].read
           /\ state.bundle = replica[r].bundle /\ state.users = replica[r].users
    BY <2>1 DEF AnotherAttempt
  <2>4. replica' = [replica EXCEPT ![r] = state]
    BY <1>4 DEF AttemptFails, IInv, TypeOK
  <2>5. Holds(state)
    BY <2>1, <2>2, <2>3 DEF Holds, Down, Keyed, Settled
  <2> HIDE DEF state
  <2>6. CASE replica[r].phase = "PERSISTING" /\ WriteBundle(r)
    BY <1>4, <2>2, <2>3, <2>4, <2>6, Written DEF AttemptFails
  <2>7. CASE UNCHANGED <<pki, raced>>
    BY <1>4, <2>4, <2>5, <2>7, OneChanges, SameCount
       DEF AttemptFails, IInv, TypeOK, IssuedByStored, EnrolledByStored
  <2> QED
    BY <1>4, <2>6, <2>7 DEF AttemptFails
<1>5. ASSUME NEW r \in Replicas, LoadUsers(r) PROVE IInv'
  <2>1. PICK loaded \in {stored, {}} :
            replica' = [replica EXCEPT ![r].phase = "SERVING", ![r].users = loaded]
    BY <1>5 DEF LoadUsers
  <2> DEFINE state == [replica[r] EXCEPT !.phase = "SERVING", !.users = loaded]
  <2>2. replica[r] \in ReplicaStates /\ Holds(replica[r])
    BY HoldsForAll DEF IInv, TypeOK
  <2>3. loaded \subseteq Enrolments /\ \A e \in loaded : GoodEnrolment(e)
    BY DEF IInv, TypeOK, EnrolledByStored
  <2>4. state \in ReplicaStates
    BY <2>2, <2>3 DEF Phases
  <2>5. /\ state.phase = "SERVING" /\ state.bundle = replica[r].bundle
        /\ state.users = loaded
    BY <2>2
  <2>6. replica' = [replica EXCEPT ![r] = state]
    BY <2>1 DEF IInv, TypeOK
  <2>7. Holds(state)
    BY <1>5, <2>2, <2>3, <2>4, <2>5 DEF LoadUsers, Holds, Keyed, Settled
  <2> HIDE DEF state
  <2> QED
    BY <1>5, <2>6, <2>7, OneChanges, SameCount
       DEF LoadUsers, IInv, TypeOK, IssuedByStored, EnrolledByStored
<1>6. ASSUME NEW r \in Replicas, Crash(r) PROVE IInv'
  <2>1. Holds(Down)
    BY DownTyped DEF Holds, Down, Keyed, Settled
  <2> QED
    BY <1>6, <2>1, OneChanges, SameCount
       DEF Crash, IInv, TypeOK, IssuedByStored, EnrolledByStored
<1>7. ASSUME NEW r \in Replicas, NEW u \in Users, Enrol(r, u) PROVE IInv'
  <2> DEFINE e == [user |-> u, ca |-> replica[r].bundle.ca]
             state == [replica[r] EXCEPT !.users = @ \union {e}]
  <2>1. replica[r] \in ReplicaStates /\ Holds(replica[r])
    BY HoldsForAll DEF IInv, TypeOK
  <2>2. e \in Enrolments /\ GoodEnrolment(e)
    BY <1>7, <2>1
       DEF Enrol, Enrolments, Bundles, GoodEnrolment, Holds, Keyed, Settled
  <2>3. state \in ReplicaStates
    BY <2>1, <2>2
  <2>4. /\ state.phase = replica[r].phase /\ state.read = replica[r].read
        /\ state.bundle = replica[r].bundle
        /\ state.users = replica[r].users \union {e}
    BY <2>1
  <2> HIDE DEF e
  <2>5. Holds(state)
    BY <2>1, <2>2, <2>3, <2>4 DEF Holds
  <2>6. replica' = [replica EXCEPT ![r] = state]
    BY <1>7 DEF Enrol, IInv, TypeOK, e
  <2>7. replica'[r] = state
    BY <2>6 DEF IInv, TypeOK
  <2> HIDE DEF state
  <2>8. stored' \subseteq Enrolments /\ \A f \in stored' : GoodEnrolment(f)
    BY <1>7, <2>3, <2>5, <2>7 DEF Enrol, Holds
  <2> QED
    BY <1>7, <2>5, <2>6, <2>8, OneChanges, SameCount
       DEF Enrol, IInv, TypeOK, IssuedByStored
<1>8. ASSUME NEW r \in Replicas, NEW e \in replica[r].users, GrantToken(r, e)
      PROVE  IInv'
  <2> DEFINE t == [user |-> e.user, key |-> replica[r].bundle.jwt]
  <2>1. replica[r] \in ReplicaStates /\ Holds(replica[r])
    BY HoldsForAll DEF IInv, TypeOK
  <2>2. t \in [user : Users, key : Keys]
    BY <2>1 DEF Enrolments, Bundles
  <2>3. t.key # NoKey /\ (~raced => t.key = pki.jwt)
    BY <1>8, <2>1 DEF GrantToken, Holds, Keyed, Settled
  <2>4. replica' = [replica EXCEPT ![r] = replica[r]]
    BY <1>8 DEF GrantToken, IInv, TypeOK
  <2>5. issued' = issued \union {t}
    BY <1>8 DEF GrantToken
  <2> HIDE DEF t
  <2> QED
    BY <1>8, <2>1, <2>2, <2>3, <2>4, <2>5, OneChanges, SameCount
       DEF GrantToken, IInv, TypeOK, IssuedByStored, EnrolledByStored
<1>9. CASE UNCHANGED vars
  BY <1>9 DEF vars, IInv, TypeOK, KeysHeld, StoredWhole, LegacyKept, PersistedIsStored,
              IssuedByStored, EnrolledByStored, GoodEnrolment
<1> QED
  BY <1>1, <1>2, <1>3, <1>4, <1>5, <1>6, <1>7, <1>8, <1>9 DEF Next

-----------------------------------------------------------------------------
\* The theorems.

THEOREM Invariance == Spec => []IInv
<1>1. Init => IInv
  BY InitIInv
<1>2. IInv /\ [Next]_vars => IInv'
  BY NextIInv
<1> QED
  BY <1>1, <1>2, PTL DEF Spec

\* The processes, Redis and what was issued keep their shape (runtime-pki.ts).
THEOREM TypeCorrectness == Spec => []TypeOK
<1>1. IInv => TypeOK
  BY DEF IInv
<1> QED
  BY <1>1, Invariance, PTL

\* Unless two first starts overlapped, every process serves with the very bundle
\* Redis holds (getRuntimePkiBundle).
THEOREM ServesTheStored == Spec => []ServedIsStored
<1>1. IInv => ServedIsStored
  BY DEF IInv, PersistedIsStored, ServedIsStored, Serving, Settled
<1> QED
  BY <1>1, Invariance, PTL

\* What one process issued is good at every other, whatever starts, crashes and
\* failed attempts came in between, unless two first starts overlapped; and a
\* bundle of an older version keeps its authority even then.
THEOREM IssuedLasts == Spec => []IssuedStaysValid
<1>1. IInv => IssuedStaysValid
  <2> SUFFICES ASSUME IInv, NEW r \in Serving
               PROVE  /\ ~raced => \A t \in issued : t.key = replica[r].bundle.jwt
                      /\ ~raced \/ pki.ca = LegacyCa =>
                            \A e \in Enrolled : e.ca = replica[r].bundle.ca
    BY DEF IssuedStaysValid
  <2>1. /\ r \in Replicas /\ replica[r].phase = "SERVING"
        /\ ~raced => replica[r].bundle = pki
        /\ pki.ca = LegacyCa => replica[r].bundle.ca = pki.ca
    BY DEF Serving, IInv, PersistedIsStored, LegacyKept, Settled, Keyed
  <2>2. \A e \in Enrolled : GoodEnrolment(e)
    BY DEF Enrolled, IInv, EnrolledByStored
  <2> QED
    BY <2>1, <2>2 DEF IInv, IssuedByStored, GoodEnrolment
<1> QED
  BY <1>1, Invariance, PTL
=============================================================================
