------------------------------ MODULE Enrollment ------------------------------
(***************************************************************************)
(* Users and their certificates: src/auth/users-repository.ts, the CSR,      *)
(* token and removal handlers of src/auth/enrollment-routes.ts, and the      *)
(* check of src/auth/middleware.ts that every API call passes.               *)
(*                                                                          *)
(* A certificate request looks the user up, waits for the certificate to be  *)
(* signed, and declares the user afterwards; the requests of several clients *)
(* interleave at the wait.  The certificate of request e is e.  Every change *)
(* of the users is written through to Redis as a whole, in order, without    *)
(* being waited for, and a restart builds the users anew from what Redis     *)
(* holds.  Tokens outlive restarts: their signing key is persistent.         *)
(***************************************************************************)
EXTENDS Naturals, Sequences, FiniteSets, Functions

CONSTANTS
    Usernames,     \* the user names clients declare
    NoUsername,    \* a fingerprint that is mapped to nobody
    Requests,      \* certificate requests, and the certificates they lead to
    NoCert,        \* a user without certificate
    MaxUuids,      \* bound: UUIDs drawn
    MaxCrashes,    \* bound: crashes
    MaxFailures,   \* bound: restarts that fail to read the users
    MaxRemovals    \* bound: removals by the administrator

ASSUME EnrollmentAssumption ==
    /\ IsFiniteSet(Usernames)
    /\ NoUsername \notin Usernames
    /\ NoCert \notin Requests
    /\ MaxUuids \in Nat
    /\ MaxCrashes \in Nat
    /\ MaxFailures \in Nat
    /\ MaxRemovals \in Nat

VARIABLES
    up,        \* the process serves requests
    user,      \* usersByUsername
    owner,     \* usernameByFingerprint
    stored,    \* what Redis holds of the users
    sent,      \* the writes under way
    csr,       \* the certificate requests
    tokens,    \* the refresh tokens issued: the grant gives an access token with each
    acted,     \* the API calls accepted: user name, certificate and UUID
    count      \* UUIDs drawn, crashes, failed reads and removals so far

vars == <<up, user, owner, stored, sent, csr, tokens, acted, count>>

-----------------------------------------------------------------------------

Certs == Requests \cup {NoCert}

Users == [uuid : 1 .. MaxUuids, cert : Certs]

NoUser == [uuid |-> 0, cert |-> NoCert]

UserMaps == [Usernames -> Users \cup {NoUser}]

NoUsers == [u \in Usernames |-> NoUser]

\* ENROLLED is answered with the certificate, CONFLICT with "already enrolled",
\* FAILED with an error; a REMOVED one was ENROLLED before, a LOST one is that
\* again when a later restart reads it.
Phases == {"UNSENT", "SIGNING", "ENROLLED", "CONFLICT", "FAILED", "REMOVED", "LOST"}

Claims == [username : Usernames, uuid : 1 .. MaxUuids]

TypeOK ==
    /\ up \in BOOLEAN
    /\ user \in UserMaps
    /\ owner \in [Requests -> Usernames \cup {NoUsername}]
    /\ stored \in UserMaps
    /\ sent \in Seq(UserMaps)
    /\ csr \in [Requests -> [phase : Phases, username : Usernames \cup {NoUsername}]]
    /\ tokens \subseteq Claims
    /\ acted \subseteq [username : Usernames, uuid : 1 .. MaxUuids, cert : Requests]
    /\ count \in [uuids : 0 .. MaxUuids, crashes : 0 .. MaxCrashes,
                  failures : 0 .. MaxFailures, removals : 0 .. MaxRemovals]

Init ==
    /\ up = TRUE
    /\ user = NoUsers
    /\ owner = [e \in Requests |-> NoUsername]
    /\ stored = NoUsers
    /\ sent = <<>>
    /\ csr = [e \in Requests |-> [phase |-> "UNSENT", username |-> NoUsername]]
    /\ tokens = {}
    /\ acted = {}
    /\ count = [uuids |-> 0, crashes |-> 0, failures |-> 0, removals |-> 0]

-----------------------------------------------------------------------------
\* POST csr.

\* A user who exists is not enrolled again, certificate or not.
SendCsr(e, u) ==
    /\ up
    /\ csr[e].phase = "UNSENT"
    /\ csr' = [csr EXCEPT ![e] = [phase |-> IF user[u] = NoUser THEN "SIGNING" ELSE "CONFLICT",
                                  username |-> u]]
    /\ UNCHANGED <<up, user, owner, stored, sent, tokens, acted, count>>

\* createDeclaredUser, and after it setUserCertificate.
Declared(u) == [user EXCEPT ![u] = [uuid |-> count.uuids + 1, cert |-> NoCert]]

Certified(u, e) == [Declared(u) EXCEPT ![u].cert = e]

\* Mutant: the user may have been declared by now.
FreeAnyway(u) == TRUE

Free(u) == user[u] = NoUser

\* Both changes are written through, one after the other.
FinishCsr(e) ==
    LET u == csr[e].username
    IN  /\ up
        /\ csr[e].phase = "SIGNING"
        /\ Free(u)
        /\ count.uuids < MaxUuids
        /\ user' = Certified(u, e)
        /\ owner' = [owner EXCEPT ![e] = u]
        /\ sent' = sent \o <<Declared(u), Certified(u, e)>>
        /\ csr' = [csr EXCEPT ![e].phase = "ENROLLED"]
        /\ count' = [count EXCEPT !.uuids = @ + 1]
        /\ UNCHANGED <<up, stored, tokens, acted>>

\* The signature fails, or the user was declared in the meantime.
FailCsr(e) ==
    /\ up
    /\ csr[e].phase = "SIGNING"
    /\ csr' = [csr EXCEPT ![e].phase = "FAILED"]
    /\ UNCHANGED <<up, user, owner, stored, sent, tokens, acted, count>>

-----------------------------------------------------------------------------
\* DELETE enrolled-users.

\* Mutant: the certificate of the removed user stays mapped.
Kept(u) == owner

Freed(u) == [e \in Requests |-> IF user[u].cert = e THEN NoUsername ELSE owner[e]]

\* Mutant: the removal is not written through.
RemovedInMemory(u) ==
    /\ user' = [user EXCEPT ![u] = NoUser]
    /\ UNCHANGED sent

Removed(u) ==
    /\ user' = [user EXCEPT ![u] = NoUser]
    /\ sent' = Append(sent, user')

Remove(u) ==
    /\ up
    /\ user[u] # NoUser
    /\ count.removals < MaxRemovals
    /\ Removed(u)
    /\ owner' = Freed(u)
    /\ csr' = [e \in Requests |-> IF csr[e].phase = "ENROLLED" /\ user[u].cert = e
                                    THEN [csr[e] EXCEPT !.phase = "REMOVED"]
                                    ELSE csr[e]]
    /\ count' = [count EXCEPT !.removals = @ + 1]
    /\ UNCHANGED <<up, stored, tokens, acted>>

-----------------------------------------------------------------------------
\* POST token, and the API calls made with it.

\* The client of request e was given the certificate, and can present it.
Holds(e) == csr[e].phase \in {"ENROLLED", "REMOVED", "LOST"}

PasswordGrant(e) ==
    /\ up
    /\ Holds(e)
    /\ owner[e] # NoUsername
    /\ tokens' = tokens \cup {[username |-> owner[e], uuid |-> user[owner[e]].uuid]}
    /\ UNCHANGED <<up, user, owner, stored, sent, csr, acted, count>>

\* Mutant: the user of the token need not be the owner of the certificate.
BoundToAny(t, e) == owner[e] # NoUsername

\* createMtlsConsistencyMiddleware.  The refresh grant asks for this certificate only
\* while the user still has one; what it answers is refused here all the same.
Bound(t, e) ==
    /\ user[t.username].cert = e
    /\ owner[e] = t.username

\* A call with an access token of claims t over the certificate e.  Refreshing a
\* token copies its claims, so that t stands for all the tokens refreshed from it.
Act(t, e) ==
    /\ up
    /\ Holds(e)
    /\ Bound(t, e)
    /\ acted' = acted \cup {[username |-> t.username, uuid |-> t.uuid, cert |-> e]}
    /\ UNCHANGED <<up, user, owner, stored, sent, csr, tokens, count>>

-----------------------------------------------------------------------------
\* Persistence.

Execute ==
    /\ sent # <<>>
    /\ stored' = Head(sent)
    /\ sent' = Tail(sent)
    /\ UNCHANGED <<up, user, owner, csr, tokens, acted, count>>

\* Redis has received some of the writes; what waits for a signature is gone.
Crash ==
    /\ up
    /\ count.crashes < MaxCrashes
    /\ up' = FALSE
    /\ stored' \in {stored} \cup {sent[i] : i \in DOMAIN sent}
    /\ sent' = <<>>
    /\ user' = NoUsers
    /\ owner' = [e \in Requests |-> NoUsername]
    /\ csr' = [e \in Requests |-> IF csr[e].phase = "SIGNING"
                                    THEN [csr[e] EXCEPT !.phase = "FAILED"]
                                    ELSE csr[e]]
    /\ count' = [count EXCEPT !.crashes = @ + 1]
    /\ UNCHANGED <<tokens, acted>>

Held(loaded) == {u \in Usernames : loaded[u] # NoUser}

\* Mutant: the certificates are not restored.
RedeclaredBare(loaded, number) ==
    [u \in Usernames |->
        IF u \in Held(loaded) THEN [uuid |-> number[u], cert |-> NoCert] ELSE NoUser]

\* The users that Redis holds are declared again, and so draw new UUIDs.
Redeclared(loaded, number) ==
    [u \in Usernames |->
        IF u \in Held(loaded) THEN [uuid |-> number[u], cert |-> loaded[u].cert] ELSE NoUser]

InMap(loaded, e) == \E u \in Usernames : loaded[u].cert = e

Stored(e) == InMap(stored, e)

OwnersOf(loaded) ==
    [e \in Requests |->
        IF InMap(loaded, e)
          THEN CHOOSE u \in Usernames : loaded[u].cert = e
          ELSE NoUsername]

\* What became of each request, now that these users were read.
Reread(loaded) ==
    [e \in Requests |->
        IF csr[e].phase \in {"ENROLLED", "LOST"}
          THEN [csr[e] EXCEPT !.phase = IF InMap(loaded, e) THEN "ENROLLED" ELSE "LOST"]
          ELSE csr[e]]

RestartWith(loaded) ==
    LET drawn == count.uuids + Cardinality(Held(loaded))
    IN  /\ ~ up
        /\ drawn <= MaxUuids
        /\ \E number \in Injection(Held(loaded), count.uuids + 1 .. drawn) :
              user' = Redeclared(loaded, number)
        /\ up' = TRUE
        /\ owner' = OwnersOf(loaded)
        /\ csr' = Reread(loaded)
        /\ UNCHANGED <<stored, sent, tokens, acted>>

Restart ==
    /\ RestartWith(stored)
    /\ count' = [count EXCEPT !.uuids = @ + Cardinality(Held(stored))]

\* A failure to read the users is logged: the process serves without them.
RestartWithoutUsers ==
    /\ count.failures < MaxFailures
    /\ RestartWith(NoUsers)
    /\ count' = [count EXCEPT !.failures = @ + 1]

Next ==
    \/ \E e \in Requests : \/ \E u \in Usernames : SendCsr(e, u)
                           \/ FinishCsr(e)
                           \/ FailCsr(e)
                           \/ PasswordGrant(e)
    \/ \E u \in Usernames : Remove(u)
    \/ \E t \in tokens, e \in Requests : Act(t, e)
    \/ Execute
    \/ Crash
    \/ Restart
    \/ RestartWithoutUsers

Spec == Init /\ [][Next]_vars

-----------------------------------------------------------------------------
\* Properties.

\* usersByUsername and usernameByFingerprint say the same of every certificate,
\* after any order of enrolments, removals and restarts: the token handler reads
\* one map and the checks of an API call both.
FingerprintsAgree ==
    \A e \in Requests, u \in Usernames : owner[e] = u <=> user[u].cert = e

\* Of the requests that race for one user name only one is answered with a
\* certificate, and its client can use it until the administrator removes the
\* user or a crash forgets the enrolment.
AnsweredIsBound ==
    up => \A e \in Requests : csr[e].phase = "ENROLLED" => user[csr[e].username].cert = e

\* No API call is accepted in a user's name over a certificate that was issued to
\* another name, whoever was removed and enrolled again since the token was issued.
ActsOverOwnCertificate == \A a \in acted : csr[a.cert].username = a.username

\* When every write has been executed, Redis holds the users and certificates that
\* the process serves; a UUID changes at a restart and is stored with the next write.
\* What Redis holds beyond them are users the process failed to read and has not
\* written over yet.
NothingForgotten ==
    up /\ sent = <<>> =>
        \A u \in Usernames :
            \/ /\ stored[u] = NoUser <=> user[u] = NoUser
               /\ stored[u].cert = user[u].cert
            \/ /\ user[u] = NoUser
               /\ stored[u].cert # NoCert => csr[stored[u].cert].phase # "ENROLLED"
               /\ count.failures > 0

\* An enrolment that has reached Redis leaves it only because the administrator
\* removed the user, or because the process failed to read it at its last start
\* and wrote the users it knows over it (users-repository.ts:207, 219-221).
StoredUsersSurvive ==
    [][\A e \in Requests :
          Stored(e) /\ ~ Stored(e)' => csr[e].phase \in {"REMOVED", "LOST"}]_vars
=============================================================================
