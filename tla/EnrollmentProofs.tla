-------------------------- MODULE EnrollmentProofs --------------------------
(***************************************************************************)
(* Users, certificates and what Redis holds of them, for every set of names *)
(* and requests and any number of crashes, failed reads and removals.       *)
(***************************************************************************)
EXTENDS Enrollment, SequenceTheorems, FiniteSetTheorems, TLAPS

-----------------------------------------------------------------------------
\* The inductive invariant.  Its parts speak of any map of users, since the writes
\* under way hold maps of their own.

\* A certificate was given to the client of the request.
Given == {"ENROLLED", "REMOVED", "LOST"}

\* The certificates in a map were given, each to the name it is under.
Owned(map, requests) ==
    \A u \in Usernames : map[u].cert \in Requests =>
        /\ requests[map[u].cert].phase \in Given
        /\ requests[map[u].cert].username = u

\* What is enrolled and in one map is in the other too.
Keeps(map, other, requests) ==
    \A e \in Requests : requests[e].phase = "ENROLLED" /\ InMap(map, e) => InMap(other, e)

OwnedMaps ==
    /\ Owned(user, csr)
    /\ Owned(stored, csr)
    /\ \A i \in DOMAIN sent : Owned(sent[i], csr)

ActedOwn ==
    \A a \in acted : csr[a.cert].phase \in Given /\ csr[a.cert].username = a.username

\* No write undoes an enrolment that an earlier one, or Redis, holds.
WritesKeep ==
    /\ \A i \in DOMAIN sent : Keeps(stored, sent[i], csr)
    /\ \A i, j \in DOMAIN sent : i <= j => Keeps(sent[i], sent[j], csr)

\* The last write under way is the map the process serves.
LastIsServed == sent # <<>> => up /\ sent[Len(sent)] = user

\* A request that was sent names its user.
RequestsNamed == \A e \in Requests : csr[e].phase # "UNSENT" => csr[e].username \in Usernames

IInv ==
    /\ TypeOK
    /\ RequestsNamed
    /\ OwnedMaps
    /\ FingerprintsAgree
    /\ AnsweredIsBound
    /\ ActedOwn
    /\ WritesKeep
    /\ LastIsServed
    /\ NothingForgotten

-----------------------------------------------------------------------------
\* Maps and requests.

\* Requests whose certificate was given keep it and their name.
Later(requests, later) ==
    \A e \in Requests : requests[e].phase \in Given =>
        later[e].phase \in Given /\ later[e].username = requests[e].username

\* None of them is enrolled that was not.
NoneBack(requests, later) ==
    \A e \in Requests : requests[e].phase \in Given /\ later[e].phase = "ENROLLED" =>
        requests[e].phase = "ENROLLED"

LEMMA OwnedLater ==
    ASSUME NEW map, NEW requests, NEW later, Later(requests, later), Owned(map, requests)
    PROVE  Owned(map, later)
BY DEF Later, Owned

LEMMA KeepsLater ==
    ASSUME NEW map, NEW other, NEW requests, NEW later, NoneBack(requests, later),
           Owned(map, requests), Keeps(map, other, requests)
    PROVE  Keeps(map, other, later)
BY DEF NoneBack, Owned, Keeps, InMap

\* A user's record, and that of nobody.
LEMMA UserTyped ==
    ASSUME NEW map \in UserMaps, NEW u \in Usernames
    PROVE  /\ map[u] \in Users \cup {NoUser}
           /\ map[u].cert \in Requests \cup {NoCert}
           /\ map[u] = NoUser => map[u].cert = NoCert
BY DEF UserMaps, Users, NoUser, Certs

\* An enrolled request is in the map the process serves.
LEMMA EnrolledServed ==
    ASSUME IInv, up, NEW e \in Requests, csr[e].phase = "ENROLLED",
           NEW map, Owned(map, csr), InMap(map, e)
    PROVE  csr[e].username \in Usernames /\ user[csr[e].username].cert = e
BY DEF IInv, AnsweredIsBound, Owned, InMap

-----------------------------------------------------------------------------
\* Steps that change no map of users.

LEMMA ServeIInv ==
    ASSUME IInv, UNCHANGED <<up, user, owner, stored, sent, count>>,
           \A e \in Requests : csr'[e] = csr[e] \/ (/\ csr[e].phase \notin Given
                                                   /\ csr'[e].phase \notin Given),
           TypeOK', RequestsNamed', ActedOwn'
    PROVE  IInv'
<1>1. Later(csr, csr') /\ NoneBack(csr, csr')
  BY DEF Later, NoneBack
<1>2. OwnedMaps'
  BY <1>1, OwnedLater DEF IInv, OwnedMaps
<1>3. FingerprintsAgree' /\ LastIsServed'
  BY DEF IInv, FingerprintsAgree, LastIsServed
<1>4. AnsweredIsBound'
  BY DEF IInv, AnsweredIsBound, Given
<1>5. WritesKeep'
  BY <1>1, KeepsLater DEF IInv, OwnedMaps, WritesKeep
<1>6. NothingForgotten'
  <2> SUFFICES ASSUME up, sent = <<>>, NEW u \in Usernames
               PROVE  \/ /\ stored[u] = NoUser <=> user[u] = NoUser
                         /\ stored[u].cert = user[u].cert
                      \/ /\ user[u] = NoUser
                         /\ stored[u].cert # NoCert => csr'[stored[u].cert].phase # "ENROLLED"
                         /\ count.failures > 0
    BY DEF NothingForgotten
  <2>1. stored[u].cert \in Requests \cup {NoCert}
    BY UserTyped DEF IInv, TypeOK
  <2>2. stored[u].cert # NoCert =>
           csr[stored[u].cert].phase \in Given /\ csr'[stored[u].cert] = csr[stored[u].cert]
    BY <2>1 DEF IInv, OwnedMaps, Owned
  <2> QED
    BY <2>2 DEF IInv, NothingForgotten
<1> QED
  BY <1>2, <1>3, <1>4, <1>5, <1>6 DEF IInv

LEMMA SendCsrIInv ==
    ASSUME IInv, NEW e \in Requests, NEW u \in Usernames, SendCsr(e, u)
    PROVE  IInv'
<1>1. /\ csr[e].phase = "UNSENT"
      /\ csr'[e].phase \in {"SIGNING", "CONFLICT"} /\ csr'[e].username = u
      /\ \A f \in Requests : f # e => csr'[f] = csr[f]
      /\ csr' \in [Requests -> [phase : Phases, username : Usernames \cup {NoUsername}]]
  BY DEF SendCsr, IInv, TypeOK, Phases
<1>2. TypeOK'
  BY <1>1 DEF SendCsr, IInv, TypeOK
<1>3. ActedOwn'
  <2>1. \A a \in acted : a.cert \in Requests
    BY DEF IInv, TypeOK
  <2> QED
    BY <1>1, <2>1 DEF SendCsr, IInv, ActedOwn, Given
<1>4. RequestsNamed'
  BY <1>1 DEF IInv, RequestsNamed
<1> QED
  BY <1>1, <1>2, <1>3, <1>4, ServeIInv DEF SendCsr, Given

LEMMA FailCsrIInv == ASSUME IInv, NEW e \in Requests, FailCsr(e) PROVE IInv'
<1>1. /\ csr[e].phase = "SIGNING"
      /\ csr'[e].phase = "FAILED" /\ csr'[e].username = csr[e].username
      /\ \A f \in Requests : f # e => csr'[f] = csr[f]
      /\ csr' \in [Requests -> [phase : Phases, username : Usernames \cup {NoUsername}]]
  BY DEF FailCsr, IInv, TypeOK, Phases
<1>2. TypeOK'
  BY <1>1 DEF FailCsr, IInv, TypeOK
<1>3. ActedOwn'
  <2>1. \A a \in acted : a.cert \in Requests
    BY DEF IInv, TypeOK
  <2> QED
    BY <1>1, <2>1 DEF FailCsr, IInv, ActedOwn, Given
<1>4. RequestsNamed'
  BY <1>1 DEF IInv, RequestsNamed
<1> QED
  BY <1>1, <1>2, <1>3, <1>4, ServeIInv DEF FailCsr, Given

LEMMA GrantIInv == ASSUME IInv, NEW e \in Requests, PasswordGrant(e) PROVE IInv'
<1> DEFINE u == owner[e]
<1>1. u \in Usernames /\ UNCHANGED <<up, user, owner, stored, sent, csr, acted, count>>
  BY DEF PasswordGrant, IInv, TypeOK
<1>2. user[u].cert = e
  BY <1>1 DEF IInv, FingerprintsAgree
<1>3. user[u].uuid \in 1 .. MaxUuids
  <2>1. user[u] \in Users
    BY <1>1, <1>2, UserTyped, EnrollmentAssumption DEF IInv, TypeOK
  <2> QED
    BY <2>1 DEF Users
<1>4. TypeOK'
  BY <1>1, <1>3 DEF PasswordGrant, IInv, TypeOK, Claims
<1>5. ActedOwn' /\ RequestsNamed'
  BY <1>1 DEF IInv, ActedOwn, RequestsNamed
<1> QED
  BY <1>1, <1>4, <1>5, ServeIInv

LEMMA ActIInv == ASSUME IInv, NEW t \in tokens, NEW e \in Requests, Act(t, e) PROVE IInv'
<1>1. /\ user[t.username].cert = e
      /\ acted' = acted \cup {[username |-> t.username, uuid |-> t.uuid, cert |-> e]}
      /\ UNCHANGED <<up, user, owner, stored, sent, csr, tokens, count>>
  BY DEF Act, Bound
<1>2. t.username \in Usernames /\ t.uuid \in 1 .. MaxUuids
  BY DEF IInv, TypeOK, Claims
<1>3. csr[e].phase \in Given /\ csr[e].username = t.username
  BY <1>1, <1>2 DEF IInv, OwnedMaps, Owned
<1>4. TypeOK'
  BY <1>1, <1>2 DEF IInv, TypeOK
<1>5. ActedOwn' /\ RequestsNamed'
  BY <1>1, <1>3 DEF IInv, ActedOwn, RequestsNamed
<1> QED
  BY <1>1, <1>4, <1>5, ServeIInv

-----------------------------------------------------------------------------
\* Enrolment and removal.

LEMMA FinishCsrIInv == ASSUME IInv, NEW e \in Requests, FinishCsr(e) PROVE IInv'
<1> DEFINE u == csr[e].username
           declared == Declared(u)
           certified == Certified(u, e)
           number == count.uuids + 1
<1>1. /\ up /\ csr[e].phase = "SIGNING" /\ user[u] = NoUser /\ count.uuids < MaxUuids
      /\ user' = certified
      /\ owner' = [owner EXCEPT ![e] = u]
      /\ sent' = sent \o <<declared, certified>>
      /\ csr' = [csr EXCEPT ![e].phase = "ENROLLED"]
      /\ count' = [count EXCEPT !.uuids = number]
      /\ UNCHANGED <<up, stored, tokens, acted>>
  BY DEF FinishCsr, Free
<1>2. u \in Usernames /\ user[u].cert = NoCert /\ NoCert # e
  BY <1>1, UserTyped, EnrollmentAssumption DEF IInv, RequestsNamed, TypeOK
<1>3. number \in 1 .. MaxUuids
  BY <1>1, EnrollmentAssumption DEF IInv, TypeOK
<1>4. /\ declared \in UserMaps /\ certified \in UserMaps
      /\ declared[u].cert = NoCert /\ certified[u].cert = e
      /\ \A v \in Usernames : v # u => declared[v] = user[v] /\ certified[v] = user[v]
      /\ declared[u] # NoUser /\ certified[u] # NoUser
  <2>1. user \in [Usernames -> Users \cup {NoUser}]
    BY DEF IInv, TypeOK, UserMaps
  <2>2. /\ [uuid |-> number, cert |-> NoCert] \in Users
        /\ [uuid |-> number, cert |-> e] \in Users
    BY <1>3 DEF Users, Certs
  <2>3. declared = [user EXCEPT ![u] = [uuid |-> number, cert |-> NoCert]]
    BY DEF Declared
  <2>4. declared[u] = [uuid |-> number, cert |-> NoCert]
    BY <1>2, <2>1, <2>3
  <2>5. certified = [declared EXCEPT ![u] = [uuid |-> number, cert |-> e]]
    BY <1>2, <2>1, <2>3, <2>4 DEF Certified
  <2> HIDE DEF declared, certified
  <2>6. \A v \in Usernames : v # u => declared[v] = user[v] /\ certified[v] = user[v]
    BY <1>2, <2>1, <2>3, <2>5
  <2>7. certified[u] = [uuid |-> number, cert |-> e]
    BY <1>2, <2>1, <2>3, <2>5
  <2>8. declared \in UserMaps /\ certified \in UserMaps
    BY <1>2, <2>1, <2>2, <2>3, <2>5 DEF UserMaps
  <2>9. declared[u] # NoUser /\ certified[u] # NoUser
    BY <1>3, <2>4, <2>7 DEF NoUser
  <2> QED
    BY <2>4, <2>6, <2>7, <2>8, <2>9
<1> HIDE DEF declared, certified
<1>5. /\ csr'[e].phase = "ENROLLED" /\ csr'[e].username = u
      /\ \A f \in Requests : f # e => csr'[f] = csr[f]
      /\ csr' \in [Requests -> [phase : Phases, username : Usernames \cup {NoUsername}]]
  BY <1>1 DEF IInv, TypeOK, Phases
<1>6. Later(csr, csr') /\ NoneBack(csr, csr')
  BY <1>1, <1>5 DEF Later, NoneBack, Given
<1>7. Owned(declared, csr') /\ Owned(certified, csr')
  <2>1. Owned(user, csr')
    BY <1>6, OwnedLater DEF IInv, OwnedMaps
  <2> QED
    BY <1>2, <1>4, <1>5, <2>1, EnrollmentAssumption DEF Owned, Given
<1>8. /\ sent' \in Seq(UserMaps)
      /\ DOMAIN sent' = 1 .. Len(sent) + 2 /\ Len(sent') = Len(sent) + 2
      /\ DOMAIN sent = 1 .. Len(sent) /\ Len(sent) \in Nat
      /\ \A i \in DOMAIN sent : sent'[i] = sent[i]
      /\ sent'[Len(sent) + 1] = declared /\ sent'[Len(sent) + 2] = certified
  <2>1. sent \in Seq(UserMaps) /\ <<declared, certified>> \in Seq(UserMaps)
    BY <1>4 DEF IInv, TypeOK
  <2>2. /\ Len(<<declared, certified>>) = 2
        /\ <<declared, certified>>[1] = declared /\ <<declared, certified>>[2] = certified
    OBVIOUS
  <2>3. DOMAIN sent = 1 .. Len(sent) /\ Len(sent) \in Nat
    BY <2>1, LenProperties
  <2> DEFINE new == <<declared, certified>>
  <2> HIDE DEF new
  <2>4. /\ sent \o new \in Seq(UserMaps)
        /\ Len(sent \o new) = Len(sent) + Len(new)
        /\ \A i \in 1 .. Len(sent) + Len(new) :
              (sent \o new)[i] = IF i <= Len(sent) THEN sent[i] ELSE new[i - Len(sent)]
    BY <2>1, ConcatProperties DEF new
  <2>5. DOMAIN (sent \o new) = 1 .. Len(sent \o new)
    BY <2>4, LenProperties
  <2>6. Len(new) = 2 /\ new[1] = declared /\ new[2] = certified /\ sent' = sent \o new
    BY <1>1, <2>2 DEF new
  <2>7. Len(sent \o new) = Len(sent) + 2
    BY <2>4, <2>6
  <2>8. \A i \in DOMAIN sent : (sent \o new)[i] = sent[i]
    BY <2>3, <2>4, <2>6
  <2>9. (sent \o new)[Len(sent) + 1] = declared
    BY <2>3, <2>4, <2>6
  <2>10. (sent \o new)[Len(sent) + 2] = certified
    BY <2>3, <2>4, <2>6
  <2> QED
    BY <2>3, <2>4, <2>5, <2>6, <2>7, <2>8, <2>9, <2>10
<1>9. ASSUME NEW map, Owned(map, csr)
      PROVE  Keeps(map, declared, csr') /\ Keeps(map, certified, csr')
  <2> SUFFICES ASSUME NEW f \in Requests, csr'[f].phase = "ENROLLED", InMap(map, f)
               PROVE  InMap(declared, f) /\ InMap(certified, f)
    BY DEF Keeps
  <2>1. csr[f].phase \in Given
    BY <1>9 DEF Owned, InMap
  <2>2. csr[f].phase = "ENROLLED"
    BY <1>6, <2>1 DEF NoneBack
  <2>3. csr[f].username \in Usernames /\ user[csr[f].username].cert = f
    BY <1>1, <1>9, <2>2, EnrolledServed
  <2>4. csr[f].username # u
    BY <1>2, <2>3, EnrollmentAssumption
  <2> QED
    BY <1>4, <2>3, <2>4 DEF InMap
<1>10. /\ Keeps(declared, declared, csr') /\ Keeps(certified, certified, csr')
       /\ Keeps(declared, certified, csr')
  BY <1>2, <1>4, EnrollmentAssumption DEF Keeps, InMap
<1>11. TypeOK'
  <2>1. count' \in [uuids : 0 .. MaxUuids, crashes : 0 .. MaxCrashes,
                    failures : 0 .. MaxFailures, removals : 0 .. MaxRemovals]
    <3>1. count' = [count EXCEPT !.uuids = number] /\ number \in 0 .. MaxUuids
      BY <1>1, <1>3
    <3> HIDE DEF number
    <3> QED
      BY <3>1 DEF IInv, TypeOK
  <2>2. owner' \in [Requests -> Usernames \cup {NoUsername}]
    BY <1>1, <1>2 DEF IInv, TypeOK
  <2>3. user' \in UserMaps /\ UNCHANGED <<up, stored, tokens, acted>>
    BY <1>1, <1>4
  <2> HIDE DEF u, number
  <2> QED
    BY <1>5, <1>8, <2>1, <2>2, <2>3 DEF IInv, TypeOK
<1>12. OwnedMaps'
  <2>1. Owned(stored, csr') /\ \A i \in DOMAIN sent : Owned(sent[i], csr')
    BY <1>6, OwnedLater DEF IInv, OwnedMaps
  <2>2. \A i \in DOMAIN sent' : i \in DOMAIN sent \/ i = Len(sent) + 1 \/ i = Len(sent) + 2
    BY <1>8
  <2> QED
    BY <1>1, <1>7, <1>8, <2>1, <2>2 DEF OwnedMaps
<1>13. FingerprintsAgree'
  <2> SUFFICES ASSUME NEW f \in Requests, NEW v \in Usernames
               PROVE  owner'[f] = v <=> user'[v].cert = f
    BY DEF FingerprintsAgree
  <2>1. owner[f] = v <=> user[v].cert = f
    BY DEF IInv, FingerprintsAgree
  <2>2. user[v].cert # e
    BY <1>1 DEF IInv, OwnedMaps, Owned, Given
  <2>3. owner'[f] = IF f = e THEN u ELSE owner[f]
    BY <1>1 DEF IInv, TypeOK
  <2> QED
    BY <1>1, <1>2, <1>4, <2>1, <2>2, <2>3, EnrollmentAssumption
<1>14. AnsweredIsBound'
  <2> SUFFICES ASSUME NEW f \in Requests, csr'[f].phase = "ENROLLED"
               PROVE  user'[csr'[f].username].cert = f
    BY DEF AnsweredIsBound
  <2>1. CASE f = e
    BY <1>1, <1>4, <1>5, <2>1
  <2>2. CASE f # e
    <3>1. csr'[f] = csr[f] /\ user[csr[f].username].cert = f
      BY <1>1, <1>5, <2>2 DEF IInv, AnsweredIsBound
    <3>2. csr[f].username # u
      BY <1>2, <3>1, EnrollmentAssumption
    <3>3. csr[f].username \in Usernames
      BY <2>2, <3>1 DEF IInv, RequestsNamed
    <3> QED
      BY <1>1, <1>4, <3>1, <3>2, <3>3
  <2> QED
    BY <2>1, <2>2
<1>15. ActedOwn' /\ RequestsNamed'
  <2>1. \A a \in acted : a.cert \in Requests
    BY DEF IInv, TypeOK
  <2> QED
    BY <1>1, <1>5, <1>6, <2>1 DEF IInv, ActedOwn, RequestsNamed, Later
<1>16. WritesKeep'
  <2>1. /\ \A i \in DOMAIN sent : Keeps(stored, sent[i], csr')
        /\ \A i, j \in DOMAIN sent : i <= j => Keeps(sent[i], sent[j], csr')
    BY <1>6, KeepsLater DEF IInv, OwnedMaps, WritesKeep
  <2>2. /\ Keeps(stored, declared, csr') /\ Keeps(stored, certified, csr')
        /\ \A i \in DOMAIN sent :
              Keeps(sent[i], declared, csr') /\ Keeps(sent[i], certified, csr')
    BY <1>9 DEF IInv, OwnedMaps
  <2>3. \A i \in DOMAIN sent' : i \in DOMAIN sent \/ i = Len(sent) + 1 \/ i = Len(sent) + 2
    BY <1>8
  <2>4. \A i \in DOMAIN sent' : Keeps(stored, sent'[i], csr')
    BY <1>8, <2>1, <2>2, <2>3
  <2>5. ASSUME NEW i \in DOMAIN sent', NEW j \in DOMAIN sent', i <= j
        PROVE  Keeps(sent'[i], sent'[j], csr')
    <3>1. CASE i \in DOMAIN sent
      BY <1>8, <2>1, <2>2, <2>3, <2>5, <3>1
    <3>2. CASE i = Len(sent) + 1
      <4>1. j = Len(sent) + 1 \/ j = Len(sent) + 2
        BY <1>8, <2>5, <3>2
      <4> QED
        BY <1>8, <1>10, <3>2, <4>1
    <3>3. CASE i = Len(sent) + 2
      <4>1. j = Len(sent) + 2
        BY <1>8, <2>5, <3>3
      <4> QED
        BY <1>8, <1>10, <3>3, <4>1
    <3> QED
      BY <2>3, <3>1, <3>2, <3>3
  <2> QED
    BY <1>1, <2>4, <2>5 DEF WritesKeep
<1>17. LastIsServed' /\ NothingForgotten'
  <2>1. sent' # <<>>
    BY <1>8
  <2> QED
    BY <1>1, <1>8, <2>1 DEF LastIsServed, NothingForgotten
<1> QED
  BY <1>11, <1>12, <1>13, <1>14, <1>15, <1>16, <1>17 DEF IInv

LEMMA RemoveIInv == ASSUME IInv, NEW u \in Usernames, Remove(u) PROVE IInv'
<1>1. /\ up /\ user[u] # NoUser /\ count.removals < MaxRemovals
      /\ user' = [user EXCEPT ![u] = NoUser]
      /\ sent' = Append(sent, user')
      /\ owner' = [f \in Requests |-> IF user[u].cert = f THEN NoUsername ELSE owner[f]]
      /\ csr' = [f \in Requests |-> IF csr[f].phase = "ENROLLED" /\ user[u].cert = f
                                      THEN [csr[f] EXCEPT !.phase = "REMOVED"]
                                      ELSE csr[f]]
      /\ UNCHANGED <<up, stored, tokens, acted>>
  BY DEF Remove, Removed, Freed
<1>2. /\ user' \in UserMaps /\ user'[u] = NoUser /\ user'[u].cert = NoCert
      /\ \A v \in Usernames : v # u => user'[v] = user[v]
  BY <1>1 DEF IInv, TypeOK, UserMaps, NoUser
<1>3. \A f \in Requests :
         \/ csr'[f] = csr[f] /\ ~ (csr[f].phase = "ENROLLED" /\ user[u].cert = f)
         \/ /\ csr'[f].phase = "REMOVED" /\ csr[f].phase = "ENROLLED"
            /\ csr'[f].username = csr[f].username
  BY <1>1 DEF IInv, TypeOK
<1>4. csr' \in [Requests -> [phase : Phases, username : Usernames \cup {NoUsername}]]
  <2>1. \A f \in Requests : [csr[f] EXCEPT !.phase = "REMOVED"] \in
                                [phase : Phases, username : Usernames \cup {NoUsername}]
    BY DEF IInv, TypeOK, Phases
  <2> QED
    BY <1>1, <2>1 DEF IInv, TypeOK
<1>5. Later(csr, csr') /\ NoneBack(csr, csr')
  BY <1>3 DEF Later, NoneBack, Given
<1>6. Owned(user', csr')
  <2>1. Owned(user, csr')
    BY <1>5, OwnedLater DEF IInv, OwnedMaps
  <2> QED
    BY <1>2, <2>1, EnrollmentAssumption DEF Owned
<1>7. /\ sent' \in Seq(UserMaps)
      /\ DOMAIN sent' = 1 .. Len(sent) + 1 /\ Len(sent') = Len(sent) + 1
      /\ DOMAIN sent = 1 .. Len(sent) /\ Len(sent) \in Nat
      /\ \A i \in DOMAIN sent : sent'[i] = sent[i]
      /\ sent'[Len(sent) + 1] = user'
  <2>1. sent \in Seq(UserMaps)
    BY DEF IInv, TypeOK
  <2>2. DOMAIN sent = 1 .. Len(sent) /\ Len(sent) \in Nat
    BY <2>1, LenProperties
  <2>3. /\ sent' \in Seq(UserMaps) /\ Len(sent') = Len(sent) + 1
        /\ \A i \in 1 .. Len(sent) : sent'[i] = sent[i]
        /\ sent'[Len(sent) + 1] = user'
    BY <1>1, <1>2, <2>1, AppendProperties
  <2>4. DOMAIN sent' = 1 .. Len(sent')
    BY <2>3, LenProperties
  <2> QED
    BY <2>2, <2>3, <2>4
<1>8. ASSUME NEW map, Owned(map, csr)
      PROVE  Keeps(map, user', csr')
  <2> SUFFICES ASSUME NEW f \in Requests, csr'[f].phase = "ENROLLED", InMap(map, f)
               PROVE  InMap(user', f)
    BY DEF Keeps
  <2>1. csr[f].phase = "ENROLLED" /\ user[u].cert # f
    BY <1>3
  <2>2. csr[f].username \in Usernames /\ user[csr[f].username].cert = f
    BY <1>1, <1>8, <2>1, EnrolledServed
  <2> QED
    BY <1>2, <2>1, <2>2 DEF InMap
<1>9. TypeOK'
  <2>1. count' \in [uuids : 0 .. MaxUuids, crashes : 0 .. MaxCrashes,
                    failures : 0 .. MaxFailures, removals : 0 .. MaxRemovals]
    <3>1. /\ count' = [count EXCEPT !.removals = @ + 1]
          /\ count.removals < MaxRemovals
      BY <1>1 DEF Remove
    <3>2. count \in [uuids : 0 .. MaxUuids, crashes : 0 .. MaxCrashes,
                     failures : 0 .. MaxFailures, removals : 0 .. MaxRemovals]
      BY DEF IInv, TypeOK
    <3>3. count.removals + 1 \in 0 .. MaxRemovals
      BY <3>1, <3>2, EnrollmentAssumption
    <3> HIDE DEF IInv
    <3> QED
      BY <3>1, <3>2, <3>3
  <2> QED
    BY <1>1, <1>2, <1>4, <1>7, <2>1 DEF IInv, TypeOK
<1>10. OwnedMaps'
  <2>1. Owned(stored, csr') /\ \A i \in DOMAIN sent : Owned(sent[i], csr')
    BY <1>5, OwnedLater DEF IInv, OwnedMaps
  <2>2. \A i \in DOMAIN sent' : i \in DOMAIN sent \/ i = Len(sent) + 1
    BY <1>7
  <2> QED
    BY <1>1, <1>6, <1>7, <2>1, <2>2 DEF OwnedMaps
<1>11. FingerprintsAgree'
  <2> SUFFICES ASSUME NEW f \in Requests, NEW v \in Usernames
               PROVE  owner'[f] = v <=> user'[v].cert = f
    BY DEF FingerprintsAgree
  <2>1. /\ owner[f] = v <=> user[v].cert = f
        /\ owner[f] = u <=> user[u].cert = f
    BY DEF IInv, FingerprintsAgree
  <2> QED
    BY <1>1, <1>2, <2>1, EnrollmentAssumption
<1>12. AnsweredIsBound'
  <2> SUFFICES ASSUME NEW f \in Requests, csr'[f].phase = "ENROLLED"
               PROVE  user'[csr'[f].username].cert = f
    BY DEF AnsweredIsBound
  <2>1. csr'[f] = csr[f] /\ user[u].cert # f
    BY <1>3
  <2>2. user[csr[f].username].cert = f /\ csr[f].username \in Usernames
    BY <1>1, <2>1 DEF IInv, AnsweredIsBound, RequestsNamed
  <2> QED
    BY <1>2, <2>1, <2>2
<1>13. ActedOwn' /\ RequestsNamed'
  <2>1. \A a \in acted : a.cert \in Requests
    BY DEF IInv, TypeOK
  <2>2. ActedOwn'
    BY <1>1, <1>5, <2>1 DEF IInv, ActedOwn, Later
  <2>3. RequestsNamed'
    BY <1>3 DEF IInv, RequestsNamed
  <2> QED
    BY <2>2, <2>3
<1>14. WritesKeep'
  <2>1. /\ \A i \in DOMAIN sent : Keeps(stored, sent[i], csr')
        /\ \A i, j \in DOMAIN sent : i <= j => Keeps(sent[i], sent[j], csr')
    BY <1>5, KeepsLater DEF IInv, OwnedMaps, WritesKeep
  <2>2. /\ Keeps(stored, user', csr')
        /\ \A i \in DOMAIN sent : Keeps(sent[i], user', csr')
        /\ Keeps(user', user', csr')
    BY <1>8 DEF IInv, OwnedMaps, Keeps
  <2>3. \A i \in DOMAIN sent' : i \in DOMAIN sent \/ i = Len(sent) + 1
    BY <1>7
  <2>4. \A i \in DOMAIN sent' : Keeps(stored, sent'[i], csr')
    BY <1>7, <2>1, <2>2, <2>3
  <2>5. ASSUME NEW i \in DOMAIN sent', NEW j \in DOMAIN sent', i <= j
        PROVE  Keeps(sent'[i], sent'[j], csr')
    <3>1. CASE i \in DOMAIN sent
      BY <1>7, <2>1, <2>2, <2>3, <2>5, <3>1
    <3>2. CASE i = Len(sent) + 1
      <4>1. j = Len(sent) + 1
        BY <1>7, <2>5, <3>2
      <4> QED
        BY <1>7, <2>2, <3>2, <4>1
    <3> QED
      BY <2>3, <3>1, <3>2
  <2> QED
    BY <1>1, <2>4, <2>5 DEF WritesKeep
<1>15. LastIsServed' /\ NothingForgotten'
  <2>1. sent' # <<>>
    BY <1>7
  <2> QED
    BY <1>1, <1>7, <2>1 DEF LastIsServed, NothingForgotten
<1> QED
  BY <1>9, <1>10, <1>11, <1>12, <1>13, <1>14, <1>15 DEF IInv

-----------------------------------------------------------------------------
\* Redis, crashes and restarts.

LEMMA ExecuteIInv == ASSUME IInv, Execute PROVE IInv'
<1>1. /\ sent # <<>> /\ stored' = Head(sent) /\ sent' = Tail(sent)
      /\ UNCHANGED <<up, user, owner, csr, tokens, acted, count>>
  BY DEF Execute
<1>2. /\ sent' \in Seq(UserMaps) /\ stored' = sent[1] /\ stored' \in UserMaps
      /\ 1 \in DOMAIN sent
      /\ DOMAIN sent' = 1 .. Len(sent) - 1 /\ Len(sent') = Len(sent) - 1
      /\ DOMAIN sent = 1 .. Len(sent) /\ Len(sent) \in Nat
      /\ \A i \in DOMAIN sent' : i + 1 \in DOMAIN sent /\ sent'[i] = sent[i + 1]
  <2>1. sent \in Seq(UserMaps)
    BY DEF IInv, TypeOK
  <2>2. DOMAIN sent = 1 .. Len(sent) /\ Len(sent) \in Nat
    BY <2>1, LenProperties
  <2>3. /\ Head(sent) \in UserMaps /\ Head(sent) = sent[1]
        /\ Tail(sent) \in Seq(UserMaps) /\ Len(Tail(sent)) = Len(sent) - 1
        /\ \A i \in 1 .. Len(Tail(sent)) : Tail(sent)[i] = sent[i + 1]
    BY <1>1, <2>1, HeadTailProperties
  <2>4. DOMAIN Tail(sent) = 1 .. Len(Tail(sent))
    BY <2>3, LenProperties
  <2>5. Len(sent) # 0
    BY <1>1, <2>1, EmptySeq
  <2> QED
    BY <1>1, <2>2, <2>3, <2>4, <2>5
<1>3. TypeOK'
  BY <1>1, <1>2 DEF IInv, TypeOK
<1>4. OwnedMaps'
  BY <1>1, <1>2 DEF IInv, OwnedMaps
<1>5. FingerprintsAgree' /\ AnsweredIsBound' /\ ActedOwn' /\ RequestsNamed'
  BY <1>1 DEF IInv, FingerprintsAgree, AnsweredIsBound, ActedOwn, RequestsNamed
<1>6. WritesKeep'
  <2>1. \A i \in DOMAIN sent' : Keeps(stored', sent'[i], csr)
    BY <1>2 DEF IInv, WritesKeep
  <2>2. \A i, j \in DOMAIN sent' : i <= j => Keeps(sent'[i], sent'[j], csr)
    BY <1>2 DEF IInv, WritesKeep
  <2> QED
    BY <1>1, <2>1, <2>2 DEF WritesKeep
<1>7. up /\ sent[Len(sent)] = user
  BY <1>1 DEF IInv, LastIsServed
<1>8. LastIsServed'
  <2> SUFFICES ASSUME sent' # <<>> PROVE up' /\ sent'[Len(sent')] = user'
    BY DEF LastIsServed
  <2>1. Len(sent') # 0
    BY <1>2, EmptySeq
  <2>2. Len(sent') \in DOMAIN sent'
    BY <1>2, <2>1
  <2> QED
    BY <1>1, <1>2, <1>7, <2>2
<1>9. NothingForgotten'
  <2> SUFFICES ASSUME sent' = <<>> PROVE stored' = user'
    BY DEF NothingForgotten
  <2>1. Len(sent') = 0
    OBVIOUS
  <2>2. Len(sent) = 1
    BY <1>2, <2>1
  <2> QED
    BY <1>1, <1>2, <1>7, <2>2
<1> QED
  BY <1>3, <1>4, <1>5, <1>6, <1>8, <1>9 DEF IInv

LEMMA CrashIInv == ASSUME IInv, Crash PROVE IInv'
<1>1. /\ up' = FALSE /\ sent' = <<>> /\ user' = NoUsers
      /\ stored' \in {stored} \cup {sent[i] : i \in DOMAIN sent}
      /\ owner' = [f \in Requests |-> NoUsername]
      /\ csr' = [f \in Requests |-> IF csr[f].phase = "SIGNING"
                                      THEN [csr[f] EXCEPT !.phase = "FAILED"]
                                      ELSE csr[f]]
      /\ UNCHANGED <<tokens, acted>>
  BY DEF Crash
<1>2. \A f \in Requests : \/ csr'[f] = csr[f]
                          \/ /\ csr'[f].phase = "FAILED" /\ csr[f].phase = "SIGNING"
                             /\ csr'[f].username = csr[f].username
  BY <1>1 DEF IInv, TypeOK
<1>3. csr' \in [Requests -> [phase : Phases, username : Usernames \cup {NoUsername}]]
  <2>1. \A f \in Requests : [csr[f] EXCEPT !.phase = "FAILED"] \in
                                [phase : Phases, username : Usernames \cup {NoUsername}]
    BY DEF IInv, TypeOK, Phases
  <2> QED
    BY <1>1, <2>1 DEF IInv, TypeOK
<1>4. Later(csr, csr')
  BY <1>2 DEF Later, Given
<1>5. \A u \in Usernames : user'[u] = NoUser /\ user'[u].cert = NoCert
  BY <1>1 DEF NoUsers, NoUser
<1>6. stored' \in UserMaps /\ Owned(stored', csr)
  BY <1>1 DEF IInv, TypeOK, OwnedMaps
<1>7. TypeOK'
  <2>1. count' \in [uuids : 0 .. MaxUuids, crashes : 0 .. MaxCrashes,
                    failures : 0 .. MaxFailures, removals : 0 .. MaxRemovals]
    <3>1. /\ count' = [count EXCEPT !.crashes = @ + 1]
          /\ count.crashes < MaxCrashes
      BY DEF Crash
    <3>2. count \in [uuids : 0 .. MaxUuids, crashes : 0 .. MaxCrashes,
                     failures : 0 .. MaxFailures, removals : 0 .. MaxRemovals]
      BY DEF IInv, TypeOK
    <3>3. count.crashes + 1 \in 0 .. MaxCrashes
      BY <3>1, <3>2, EnrollmentAssumption
    <3> HIDE DEF IInv
    <3> QED
      BY <3>1, <3>2, <3>3
  <2>2. user' \in UserMaps
    BY <1>1 DEF NoUsers, UserMaps
  <2>3. owner' \in [Requests -> Usernames \cup {NoUsername}] /\ sent' \in Seq(UserMaps)
    BY <1>1
  <2> QED
    BY <1>1, <1>3, <1>6, <2>1, <2>2, <2>3 DEF IInv, TypeOK
<1>8. OwnedMaps'
  <2>1. Owned(user', csr')
    BY <1>5, EnrollmentAssumption DEF Owned
  <2>2. Owned(stored', csr')
    BY <1>4, <1>6, OwnedLater
  <2>3. DOMAIN sent' = {}
    BY <1>1
  <2> QED
    BY <2>1, <2>2, <2>3 DEF OwnedMaps
<1>9. FingerprintsAgree'
  BY <1>1, <1>5, EnrollmentAssumption DEF FingerprintsAgree
<1>10. AnsweredIsBound' /\ LastIsServed' /\ NothingForgotten'
  BY <1>1 DEF AnsweredIsBound, LastIsServed, NothingForgotten
<1>11. WritesKeep'
  <2>1. DOMAIN sent' = {}
    BY <1>1
  <2> QED
    BY <2>1 DEF WritesKeep
<1>12. ActedOwn' /\ RequestsNamed'
  <2>1. \A a \in acted : a.cert \in Requests
    BY DEF IInv, TypeOK
  <2>2. ActedOwn'
    BY <1>1, <1>4, <2>1 DEF IInv, ActedOwn, Later
  <2>3. RequestsNamed'
    BY <1>2 DEF IInv, RequestsNamed
  <2> QED
    BY <2>2, <2>3
<1> QED
  BY <1>7, <1>8, <1>9, <1>10, <1>11, <1>12 DEF IInv

\* A restart from what was read: all that Redis holds, or nothing.
LEMMA RestartIInv ==
    ASSUME IInv, NEW loaded, loaded \in UserMaps, Owned(loaded, csr), RestartWith(loaded),
           loaded = stored \/ (loaded = NoUsers /\ count'.failures > 0),
           count' \in [uuids : 0 .. MaxUuids, crashes : 0 .. MaxCrashes,
                       failures : 0 .. MaxFailures, removals : 0 .. MaxRemovals]
    PROVE  IInv'
<1> DEFINE drawn == count.uuids + Cardinality(Held(loaded))
<1>1. /\ ~ up /\ up' = TRUE /\ drawn <= MaxUuids
      /\ owner' = OwnersOf(loaded) /\ csr' = Reread(loaded)
      /\ UNCHANGED <<stored, sent, tokens, acted>>
  BY DEF RestartWith
<1>2. PICK number \in Injection(Held(loaded), count.uuids + 1 .. drawn) :
         user' = Redeclared(loaded, number)
  BY DEF RestartWith
<1>3. /\ Cardinality(Held(loaded)) \in Nat
      /\ count.uuids \in Nat
  <2>1. Held(loaded) \in SUBSET Usernames
    BY DEF Held
  <2>2. IsFiniteSet(Held(loaded))
    BY <2>1, FS_Subset, EnrollmentAssumption
  <2> QED
    BY <2>2, FS_CardinalityType DEF IInv, TypeOK
<1>4. \A u \in Held(loaded) : number[u] \in 1 .. MaxUuids
  <2>1. number \in [Held(loaded) -> count.uuids + 1 .. drawn]
    BY <1>2 DEF Injection
  <2> QED
    BY <1>1, <1>3, <2>1, EnrollmentAssumption
<1>5. \A u \in Usernames : /\ user'[u] \in Users \cup {NoUser}
                           /\ user'[u] = NoUser <=> loaded[u] = NoUser
                           /\ user'[u].cert = loaded[u].cert
  <2> SUFFICES ASSUME NEW u \in Usernames
               PROVE  /\ user'[u] \in Users \cup {NoUser}
                      /\ user'[u] = NoUser <=> loaded[u] = NoUser
                      /\ user'[u].cert = loaded[u].cert
    OBVIOUS
  <2>1. CASE u \in Held(loaded)
    <3>1. user'[u] = [uuid |-> number[u], cert |-> loaded[u].cert]
      BY <1>2, <2>1 DEF Redeclared
    <3>2. number[u] \in 1 .. MaxUuids /\ loaded[u] # NoUser
      BY <1>4, <2>1 DEF Held
    <3>3. loaded[u].cert \in Certs
      BY UserTyped DEF Certs
    <3>4. [uuid |-> number[u], cert |-> loaded[u].cert] \in Users
      BY <3>2, <3>3 DEF Users
    <3>5. [uuid |-> number[u], cert |-> loaded[u].cert] # NoUser
      BY <3>2 DEF NoUser
    <3> QED
      BY <3>1, <3>2, <3>4, <3>5
  <2>2. CASE u \notin Held(loaded)
    BY <1>2, <2>2 DEF Redeclared, Held
  <2> QED
    BY <2>1, <2>2
<1>6. user' \in UserMaps
  <2>1. user' = [u \in Usernames |-> user'[u]]
    BY <1>2 DEF Redeclared
  <2> QED
    BY <1>5, <2>1 DEF UserMaps
<1>7. \A f \in Requests :
         /\ csr'[f] \in [phase : Phases, username : Usernames \cup {NoUsername}]
         /\ csr'[f].username = csr[f].username
         /\ \/ csr'[f] = csr[f] /\ csr[f].phase \notin {"ENROLLED", "LOST"}
            \/ /\ csr[f].phase \in {"ENROLLED", "LOST"}
               /\ csr'[f].phase = IF InMap(loaded, f) THEN "ENROLLED" ELSE "LOST"
  BY <1>1 DEF Reread, IInv, TypeOK, Phases
<1>8. csr' \in [Requests -> [phase : Phases, username : Usernames \cup {NoUsername}]]
  <2>1. csr' = [f \in Requests |-> csr'[f]]
    BY <1>1 DEF Reread
  <2> QED
    BY <1>7, <2>1
<1>9. Later(csr, csr')
  BY <1>7 DEF Later, Given
<1>10. sent = <<>> /\ DOMAIN sent = {}
  BY <1>1 DEF IInv, LastIsServed
<1>11. Owned(loaded, csr')
  BY <1>9, OwnedLater
<1>12. \A f \in Requests : \A u \in Usernames : loaded[u].cert = f => csr[f].username = u
  BY DEF Owned
<1>13. FingerprintsAgree'
  <2> SUFFICES ASSUME NEW f \in Requests, NEW u \in Usernames
               PROVE  owner'[f] = u <=> loaded[u].cert = f
    BY <1>5 DEF FingerprintsAgree
  <2>1. owner'[f] = IF InMap(loaded, f)
                      THEN CHOOSE v \in Usernames : loaded[v].cert = f
                      ELSE NoUsername
    BY <1>1 DEF OwnersOf
  <2>2. CASE InMap(loaded, f)
    <3>1. owner'[f] \in Usernames /\ loaded[owner'[f]].cert = f
      BY <2>1, <2>2 DEF InMap
    <3> QED
      BY <1>12, <3>1
  <2>3. CASE ~ InMap(loaded, f)
    BY <2>1, <2>3, EnrollmentAssumption DEF InMap
  <2> QED
    BY <2>2, <2>3
<1>14. TypeOK'
  <2>1. owner' \in [Requests -> Usernames \cup {NoUsername}]
    <3>1. \A f \in Requests : InMap(loaded, f) =>
             (CHOOSE u \in Usernames : loaded[u].cert = f) \in Usernames
      BY DEF InMap
    <3> QED
      BY <1>1, <3>1 DEF OwnersOf
  <2> QED
    BY <1>1, <1>6, <1>8, <2>1 DEF IInv, TypeOK
<1>15. OwnedMaps'
  <2>1. Owned(user', csr')
    BY <1>5, <1>11 DEF Owned
  <2>2. Owned(stored, csr')
    BY <1>9, OwnedLater DEF IInv, OwnedMaps
  <2> QED
    BY <1>1, <1>10, <2>1, <2>2 DEF OwnedMaps
<1>16. AnsweredIsBound'
  <2> SUFFICES ASSUME NEW f \in Requests, csr'[f].phase = "ENROLLED"
               PROVE  user'[csr'[f].username].cert = f
    BY DEF AnsweredIsBound
  <2>1. InMap(loaded, f)
    BY <1>7
  <2>2. PICK u \in Usernames : loaded[u].cert = f
    BY <2>1 DEF InMap
  <2> QED
    BY <1>5, <1>7, <1>12, <2>2
<1>17. WritesKeep' /\ LastIsServed'
  BY <1>1, <1>10 DEF WritesKeep, LastIsServed
<1>18. ActedOwn' /\ RequestsNamed'
  <2>1. \A a \in acted : a.cert \in Requests
    BY DEF IInv, TypeOK
  <2>2. ActedOwn'
    BY <1>1, <1>9, <2>1 DEF IInv, ActedOwn, Later
  <2>3. RequestsNamed'
    BY <1>7 DEF IInv, RequestsNamed
  <2> QED
    BY <2>2, <2>3
<1>19. NothingForgotten'
  <2>1. CASE loaded = stored
    BY <1>1, <1>5, <2>1 DEF NothingForgotten
  <2>2. CASE loaded = NoUsers /\ count'.failures > 0
    <3>1. \A u \in Usernames : user'[u] = NoUser
      BY <1>5, <2>2 DEF NoUsers
    <3>2. \A f \in Requests : ~ InMap(loaded, f)
      BY <2>2, EnrollmentAssumption DEF InMap, NoUsers, NoUser
    <3>3. \A f \in Requests : csr'[f].phase # "ENROLLED"
      BY <1>7, <3>2
    <3>4. \A u \in Usernames : stored[u].cert \in Requests \cup {NoCert}
      BY UserTyped DEF IInv, TypeOK
    <3> QED
      BY <1>1, <2>2, <3>1, <3>3, <3>4 DEF NothingForgotten
  <2> QED
    BY <2>1, <2>2
<1> QED
  BY <1>13, <1>14, <1>15, <1>16, <1>17, <1>18, <1>19 DEF IInv

LEMMA RestartsIInv == ASSUME IInv, Restart \/ RestartWithoutUsers PROVE IInv'
<1>1. CASE Restart
  <2>1. RestartWith(stored) /\ stored \in UserMaps /\ Owned(stored, csr)
    BY <1>1 DEF Restart, IInv, TypeOK, OwnedMaps
  <2>2. Cardinality(Held(stored)) \in Nat
    <3>1. Held(stored) \in SUBSET Usernames
      BY DEF Held
    <3>2. IsFiniteSet(Held(stored))
      BY <3>1, FS_Subset, EnrollmentAssumption
    <3> QED
      BY <3>2, FS_CardinalityType
  <2>3. count.uuids + Cardinality(Held(stored)) <= MaxUuids
    BY <2>1 DEF RestartWith
  <2>4. count' = [count EXCEPT !.uuids = count.uuids + Cardinality(Held(stored))]
    BY <1>1 DEF Restart
  <2>5. count' \in [uuids : 0 .. MaxUuids, crashes : 0 .. MaxCrashes,
                    failures : 0 .. MaxFailures, removals : 0 .. MaxRemovals]
    BY <2>2, <2>3, <2>4, EnrollmentAssumption DEF IInv, TypeOK
  <2> QED
    BY <2>1, <2>5, RestartIInv
<1>2. CASE RestartWithoutUsers
  <2>1. RestartWith(NoUsers)
    BY <1>2 DEF RestartWithoutUsers
  <2>2. NoUsers \in UserMaps
    BY DEF NoUsers, UserMaps
  <2>3. Owned(NoUsers, csr)
    BY EnrollmentAssumption DEF Owned, NoUsers, NoUser
  <2>4. /\ count' \in [uuids : 0 .. MaxUuids, crashes : 0 .. MaxCrashes,
                       failures : 0 .. MaxFailures, removals : 0 .. MaxRemovals]
        /\ count'.failures > 0
    BY <1>2, EnrollmentAssumption DEF RestartWithoutUsers, IInv, TypeOK
  <2> QED
    BY <2>1, <2>2, <2>3, <2>4, RestartIInv
<1> QED
  BY <1>1, <1>2

-----------------------------------------------------------------------------
\* Start and steps.

LEMMA InitIInv == Init => IInv
<1> SUFFICES ASSUME Init PROVE IInv
  OBVIOUS
<1>1. /\ \A u \in Usernames : NoUsers[u] = NoUser /\ NoUsers[u].cert = NoCert
      /\ NoUsers \in UserMaps
  BY DEF NoUsers, NoUser, UserMaps
<1>2. \A e \in Requests : csr[e].phase = "UNSENT"
  BY DEF Init
<1>3. sent = <<>> /\ DOMAIN sent = {} /\ user = NoUsers /\ stored = NoUsers /\ acted = {}
  BY DEF Init
<1>4. TypeOK
  <2>1. csr \in [Requests -> [phase : Phases, username : Usernames \cup {NoUsername}]]
    BY DEF Init, Phases
  <2>2. count \in [uuids : 0 .. MaxUuids, crashes : 0 .. MaxCrashes,
                   failures : 0 .. MaxFailures, removals : 0 .. MaxRemovals]
    BY EnrollmentAssumption DEF Init
  <2> QED
    BY <1>1, <1>3, <2>1, <2>2 DEF Init, TypeOK
<1>5. OwnedMaps
  BY <1>1, <1>3, EnrollmentAssumption DEF OwnedMaps, Owned
<1>6. FingerprintsAgree
  BY <1>1, EnrollmentAssumption DEF Init, FingerprintsAgree
<1>7. AnsweredIsBound /\ RequestsNamed
  BY <1>2 DEF AnsweredIsBound, RequestsNamed
<1>8. ActedOwn /\ WritesKeep /\ LastIsServed
  BY <1>3 DEF ActedOwn, WritesKeep, LastIsServed
<1>9. NothingForgotten
  BY <1>3 DEF NothingForgotten
<1> QED
  BY <1>4, <1>5, <1>6, <1>7, <1>8, <1>9 DEF IInv

LEMMA NextIInv == IInv /\ [Next]_vars => IInv'
<1> SUFFICES ASSUME IInv, [Next]_vars PROVE IInv'
  OBVIOUS
<1>1. ASSUME NEW e \in Requests, \/ \E u \in Usernames : SendCsr(e, u)
                                 \/ FinishCsr(e)
                                 \/ FailCsr(e)
                                 \/ PasswordGrant(e)
      PROVE  IInv'
  BY <1>1, SendCsrIInv, FinishCsrIInv, FailCsrIInv, GrantIInv
<1>2. ASSUME NEW u \in Usernames, Remove(u) PROVE IInv'
  BY <1>2, RemoveIInv
<1>3. ASSUME NEW t \in tokens, NEW e \in Requests, Act(t, e) PROVE IInv'
  BY <1>3, ActIInv
<1>4. CASE Execute
  BY <1>4, ExecuteIInv
<1>5. CASE Crash
  BY <1>5, CrashIInv
<1>6. CASE Restart \/ RestartWithoutUsers
  BY <1>6, RestartsIInv
<1>7. CASE UNCHANGED vars
  <2>1. TypeOK' /\ ActedOwn' /\ RequestsNamed'
    BY <1>7 DEF vars, IInv, TypeOK, ActedOwn, RequestsNamed
  <2> QED
    BY <1>7, <2>1, ServeIInv DEF vars
<1> QED
  BY <1>1, <1>2, <1>3, <1>4, <1>5, <1>6, <1>7 DEF Next

-----------------------------------------------------------------------------
\* Theorems.

\* The invariant holds in every behaviour.
THEOREM Invariance == Spec => []IInv
BY InitIInv, NextIInv, PTL DEF Spec

\* Users, writes, requests, tokens and calls keep their types.
THEOREM TypeCorrectness == Spec => []TypeOK
<1>1. IInv => TypeOK
  BY DEF IInv
<1> QED
  BY <1>1, Invariance, PTL

\* The two maps of the users' repository always say the same of a certificate.
THEOREM MapsAgree == Spec => []FingerprintsAgree
<1>1. IInv => FingerprintsAgree
  BY DEF IInv
<1> QED
  BY <1>1, Invariance, PTL

\* Who was answered with a certificate can use it until a removal or a crash.
THEOREM TheAnsweredAreBound == Spec => []AnsweredIsBound
<1>1. IInv => AnsweredIsBound
  BY DEF IInv
<1> QED
  BY <1>1, Invariance, PTL

\* A call is accepted in the name its certificate was issued to, and no other.
THEOREM OwnCertificateOnly == Spec => []ActsOverOwnCertificate
<1>1. IInv => ActsOverOwnCertificate
  BY DEF IInv, ActedOwn, ActsOverOwnCertificate
<1> QED
  BY <1>1, Invariance, PTL

\* Once its writes are executed, Redis holds what the process serves.
THEOREM RedisCatchesUp == Spec => []NothingForgotten
<1>1. IInv => NothingForgotten
  BY DEF IInv
<1> QED
  BY <1>1, Invariance, PTL

\* What Redis loses of an enrolment was removed, or was not read at the last start.
LEMMA SurvivesStep ==
    ASSUME IInv, [Next]_vars, NEW e \in Requests, Stored(e), ~ Stored(e)'
    PROVE  csr[e].phase \in {"REMOVED", "LOST"}
<1>1. csr[e].phase \in Given
  BY DEF Stored, InMap, IInv, OwnedMaps, Owned
<1>2. InMap(stored, e) /\ ~ InMap(stored', e)
  BY DEF Stored, InMap
<1> SUFFICES ASSUME csr[e].phase = "ENROLLED" PROVE FALSE
  BY <1>1 DEF Given
<1>3. \A i \in DOMAIN sent : InMap(sent[i], e)
  BY <1>2 DEF IInv, WritesKeep, Keeps
<1>4. CASE Execute
  <2>1. sent # <<>> /\ stored' = Head(sent) /\ sent \in Seq(UserMaps)
    BY <1>4 DEF Execute, IInv, TypeOK
  <2>2. Head(sent) = sent[1] /\ 1 \in DOMAIN sent
    <3>1. DOMAIN sent = 1 .. Len(sent) /\ Len(sent) \in Nat /\ Len(sent) # 0
      BY <2>1, LenProperties, EmptySeq
    <3> QED
      BY <2>1, <3>1, HeadTailProperties
  <2> QED
    BY <1>2, <1>3, <2>1, <2>2
<1>5. CASE Crash
  <2>1. stored' \in {stored} \cup {sent[i] : i \in DOMAIN sent}
    BY <1>5 DEF Crash
  <2> QED
    BY <1>2, <1>3, <2>1
<1>6. CASE stored' = stored
  BY <1>2, <1>6
<1>7. stored' = stored \/ Execute \/ Crash
  BY DEF Next, vars, SendCsr, FinishCsr, FailCsr, PasswordGrant, Remove, Act, Restart,
         RestartWithoutUsers, RestartWith
<1> QED
  BY <1>4, <1>5, <1>6, <1>7

\* An enrolment Redis holds goes only by a removal, or by a start that failed to
\* read it (users-repository.ts 207, 219-221).
THEOREM EnrolmentsSurvive == Spec => StoredUsersSurvive
<1>1. IInv /\ [Next]_vars =>
         [\A e \in Requests :
             Stored(e) /\ ~ Stored(e)' => csr[e].phase \in {"REMOVED", "LOST"}]_vars
  BY SurvivesStep
<1> QED
  BY <1>1, Invariance, PTL DEF Spec, StoredUsersSurvive
=============================================================================
