------------------------------ MODULE Replicas ------------------------------
(***************************************************************************)
(* Several processes of the mock behind one Redis: how each comes by the   *)
(* keys it serves with (getRuntimePkiBundle, src/auth/runtime-pki.ts) and  *)
(* by the enrolled users, in the order src/index.ts starts them, and what  *)
(* the tokens and certificates of one are worth at another.  A bundle is   *)
(* the authority that signs client certificates and the key that signs     *)
(* tokens, numbered as they are generated.                                 *)
(***************************************************************************)
EXTENDS Naturals, FiniteSets

CONSTANTS Replicas,
          Users,
          MaxAttempts,    \* of a read or a write of the bundle (12 in the code)
          MaxKeys,        \* bound: keys generated
          MaxStarts       \* bound: starts of a process

ASSUME ReplicasAssumption ==
    /\ MaxAttempts \in Nat \ {0}
    /\ MaxKeys \in Nat \ {0} /\ MaxStarts \in Nat

VARIABLES pki,       \* the bundle in Redis
          stored,    \* the users in Redis, with their certificates
          replica,   \* the processes
          issued,    \* the tokens issued: user and signing key
          raced,     \* ghost: a bundle was written over one its writer never read
          count      \* keys generated and starts so far

vars == <<pki, stored, replica, issued, raced, count>>

NoKey == 0
NoBundle == [ca |-> NoKey, jwt |-> NoKey]
Keys == 0 .. MaxKeys

\* The authority of a bundle written before bundles had a token key.
LegacyCa == 1

Bundles == [ca : Keys, jwt : Keys]
Enrolments == [user : Users, ca : Keys]

Phases == {"DOWN", "READING", "PERSISTING", "LOADING", "SERVING"}

Down == [phase |-> "DOWN", attempts |-> 0, read |-> NoBundle,
         bundle |-> NoBundle, users |-> {}]

TypeOK ==
    /\ pki \in Bundles
    /\ stored \subseteq Enrolments
    /\ replica \in [Replicas -> [phase : Phases, attempts : 0 .. MaxAttempts - 1,
                                 read : Bundles, bundle : Bundles,
                                 users : SUBSET Enrolments]]
    /\ issued \subseteq [user : Users, key : Keys]
    /\ raced \in BOOLEAN
    /\ count \in [keys : Keys, starts : 0 .. MaxStarts]

Init ==
    /\ \/ pki = NoBundle /\ stored = {}
       \/ /\ pki = [ca |-> LegacyCa, jwt |-> NoKey]
          /\ stored \in SUBSET [user : Users, ca : {LegacyCa}]
    /\ replica = [r \in Replicas |-> Down]
    /\ issued = {}
    /\ raced = FALSE
    /\ count = [keys |-> LegacyCa, starts |-> 0]

-----------------------------------------------------------------------------
(* A process starts.                                                       *)

\* Connected to Redis and with its state loaded, it turns to the keys.
Start(r) ==
    /\ replica[r].phase = "DOWN"
    /\ count.starts < MaxStarts
    /\ replica' = [replica EXCEPT ![r] = [Down EXCEPT !.phase = "READING"]]
    /\ count' = [count EXCEPT !.starts = @ + 1]
    /\ UNCHANGED <<pki, stored, issued, raced>>

\* Mutant: a bundle without a token key is replaced as a whole.
RegeneratedBundle(b) ==
    IF b.jwt = NoKey THEN [ca |-> count.keys + 1, jwt |-> count.keys + 2] ELSE b

\* What a read of b leads to: reuse it, complete it, or generate it.
NextBundle(b) ==
    IF b = NoBundle THEN [ca |-> count.keys + 1, jwt |-> count.keys + 2]
    ELSE IF b.jwt = NoKey THEN [b EXCEPT !.jwt = count.keys + 1]
    ELSE b

\* How many keys that takes; with none, there is nothing to write either.
NewKeys(b) == IF b = NoBundle THEN 2 ELSE IF b.jwt = NoKey THEN 1 ELSE 0

ReadBundle(r) ==
    /\ replica[r].phase = "READING"
    /\ count.keys + NewKeys(pki) <= MaxKeys
    /\ replica' = [replica EXCEPT ![r] =
          [@ EXCEPT !.phase = IF NewKeys(pki) = 0 THEN "LOADING" ELSE "PERSISTING",
                    !.attempts = 0,
                    !.read = pki,
                    !.bundle = NextBundle(pki)]]
    /\ count' = [count EXCEPT !.keys = @ + NewKeys(pki)]
    /\ UNCHANGED <<pki, stored, issued, raced>>

\* Writing over a bundle that is neither the one it read nor its own.
WriteBundle(r) ==
    /\ pki' = replica[r].bundle
    /\ raced' = (raced \/ pki \notin {replica[r].read, replica[r].bundle})

PersistBundle(r) ==
    /\ replica[r].phase = "PERSISTING"
    /\ WriteBundle(r)
    /\ replica' = [replica EXCEPT ![r].phase = "LOADING", ![r].attempts = 0]
    /\ UNCHANGED <<stored, issued, count>>

\* Mutant: the attempts are not counted.
AttemptFailsAgain(r) ==
    /\ replica[r].phase \in {"READING", "PERSISTING"}
    /\ \/ replica[r].phase = "PERSISTING" /\ WriteBundle(r)
       \/ UNCHANGED <<pki, raced>>
    /\ UNCHANGED <<stored, replica, issued, count>>

AnotherAttempt(state) ==
    IF state.attempts + 1 < MaxAttempts
      THEN [state EXCEPT !.attempts = state.attempts + 1]
      ELSE Down

\* withRetries: an attempt fails, a write possibly after it reached Redis; the
\* last one ends the process.
AttemptFails(r) ==
    /\ replica[r].phase \in {"READING", "PERSISTING"}
    /\ replica' = [replica EXCEPT ![r] = AnotherAttempt(@)]
    /\ \/ replica[r].phase = "PERSISTING" /\ WriteBundle(r)
       \/ UNCHANGED <<pki, raced>>
    /\ UNCHANGED <<stored, issued, count>>

\* createPersistedAuthUsersRepository: a load that fails is logged, and the
\* process serves without the users.
LoadUsers(r) ==
    /\ replica[r].phase = "LOADING"
    /\ \E loaded \in {stored, {}} :
          replica' = [replica EXCEPT ![r].phase = "SERVING", ![r].users = loaded]
    /\ UNCHANGED <<pki, stored, issued, raced, count>>

Crash(r) ==
    /\ replica[r].phase # "DOWN"
    /\ replica' = [replica EXCEPT ![r] = Down]
    /\ UNCHANGED <<pki, stored, issued, raced, count>>

-----------------------------------------------------------------------------
(* It serves.                                                              *)

Knows(r, u) == \E e \in replica[r].users : e.user = u

\* The certificate is signed by the process's own authority, and all the users
\* it knows are written to Redis.
Enrol(r, u) ==
    /\ replica[r].phase = "SERVING"
    /\ ~ Knows(r, u)
    /\ replica' = [replica EXCEPT ![r].users =
                      @ \union {[user |-> u, ca |-> replica[r].bundle.ca]}]
    /\ stored' = replica'[r].users
    /\ UNCHANGED <<pki, issued, raced, count>>

\* A client holds the certificate it was enrolled with wherever it connects.
Trusts(r, e) == e \in replica[r].users /\ e.ca = replica[r].bundle.ca

GrantToken(r, e) ==
    /\ replica[r].phase = "SERVING"
    /\ Trusts(r, e)
    /\ issued' = issued \union {[user |-> e.user, key |-> replica[r].bundle.jwt]}
    /\ UNCHANGED <<pki, stored, replica, raced, count>>

Next ==
    \E r \in Replicas :
        \/ Start(r) \/ ReadBundle(r) \/ PersistBundle(r)
        \/ AttemptFails(r) \/ LoadUsers(r) \/ Crash(r)
        \/ \E u \in Users : Enrol(r, u)
        \/ \E e \in replica[r].users : GrantToken(r, e)

\* An attempt ends, with a result or an error, and a start goes on.
StartGoesOn(r) == ReadBundle(r) \/ PersistBundle(r) \/ AttemptFails(r) \/ LoadUsers(r)

Spec == Init /\ [][Next]_vars /\ \A r \in Replicas : WF_vars(StartGoesOn(r))

-----------------------------------------------------------------------------
(* Properties.                                                             *)

Serving == {r \in Replicas : replica[r].phase = "SERVING"}

Enrolled == stored \union UNION {replica[r].users : r \in Replicas}

\* While no start overlapped another's first write, every process serves with
\* the bundle Redis holds, so the next start reuses it too.
ServedIsStored == ~raced => \A r \in Serving : replica[r].bundle = pki

\* What any process issued, one that has ended included, is good at every process
\* that serves: a token verifies, unless two starts raced for the key, and a
\* certificate that Redis or a process knows is of the right authority, unless
\* two starts raced for the authority itself: completing an older bundle keeps
\* it, whatever races (runtime-pki.ts:13-20, 279-281).
IssuedStaysValid ==
    \A r \in Serving :
        /\ ~raced => \A t \in issued : t.key = replica[r].bundle.jwt
        /\ ~raced \/ pki.ca = LegacyCa =>
              \A e \in Enrolled : e.ca = replica[r].bundle.ca

\* A start ends in bounded attempts: the process serves, or it is gone.
EveryStartEnds ==
    \A r \in Replicas :
        replica[r].phase = "READING" ~> replica[r].phase \in {"SERVING", "DOWN"}
=============================================================================
