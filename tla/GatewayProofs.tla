--------------------------- MODULE GatewayProofs ---------------------------
(***************************************************************************)
(* What the chain of checks promises, for every set of users, certificates, *)
(* tokens, connections, bodies and business days.                          *)
(***************************************************************************)
EXTENDS Gateway, TLAPS

-----------------------------------------------------------------------------
\* The inductive invariant.

Late == {"WINDOW", "PROFILE", "UNIMPLEMENTED"}
Payload == {"FIELDS", "CLIENT_CERT", "SIGNER", "NRO_FIELDS", "SIGNING_DATA", "SIGNATURE"}

\* The request has an answer of one of these causes.
AnsweredBy(causes) == phase = "ANSWERED" /\ answer.cause \in causes

\* What the checks of arrival leave true of a request for good.
Cleared(r) ==
    r.op \in ProtectedRoutes =>
        /\ r.token.user \in Users
        /\ r.token.defect = "none" /\ r.token.realm = r.ncb
        /\ r.conn.valid
        /\ r.conn.peer \in CertsOf[r.token.user]

\* What the checks of the body leave true of it.
WellFormed(r) ==
    /\ r.op \in RouteSchemas => r.body.errors = {}
    /\ r.op \in NroRoutes =>
          /\ r.body.signature = "right"
          /\ ResolveClientCert(r) # NoCert
          /\ r.body.signer \in Certificates => r.body.signer = ResolveClientCert(r)

\* What the last checks leave true of it.
WithinProfile(r) ==
    r.op \in ProtectedRoutes /\ r.op \in DltRoutes =>
        ProfileOf[r.token.user] \in RequiredProfiles(r.op)

PastArrival ==
    \/ phase \in {"WAITING", "HANDLING"}
    \/ AnsweredBy(Payload \union Late \union {"EXECUTED"})
PastBody   == phase = "HANDLING" \/ AnsweredBy(Late \union {"EXECUTED"})
PastWindow == phase = "HANDLING" \/ AnsweredBy({"PROFILE", "UNIMPLEMENTED", "EXECUTED"})
PastAll    == phase = "HANDLING" \/ AnsweredBy({"EXECUTED"})

\* A request is as far as it is because it passed what comes before.
Passed ==
    /\ PastArrival => Cleared(req) /\ (req.op \in ProtectedRoutes => seen.bound)
    /\ PastBody => WellFormed(req)
    /\ PastWindow /\ req.op \notin PublicRoutes => AlwaysOpen \/ seen.open
    /\ PastAll => WithinProfile(req)
    /\ AnsweredBy(Payload \union Late) => req.op \notin PublicRoutes

IInv == TypeOK /\ Ordered(day) /\ BoundToOwn /\ Passed

-----------------------------------------------------------------------------
\* The checks.

\* A request that is not refused at its arrival is within its token, over the
\* certificate its user is bound to.
LEMMA ArrivalPassed ==
    ASSUME NEW r \in Requests, BoundToOwn,
           Passes(r, ArrivalChecks(r.op)), r.op \in ProtectedRoutes
    PROVE  Cleared(r) /\ BoundTo(r, bound)
<1> DEFINE checks == ArrivalChecks(r.op)
<1>1. r.op \notin PublicRoutes
  BY DEF ProtectedRoutes, PublicRoutes
<1>2. checks = <<"NCB", "TOKEN", "REFRESH", "AUDIENCE", "REALM",
                 "CERTIFICATE", "ASSOCIATION", "MISMATCH">>
  BY <1>1 DEF ArrivalChecks
<1>3. /\ ~Fails(r, checks[2]) /\ ~Fails(r, checks[3]) /\ ~Fails(r, checks[4])
      /\ ~Fails(r, checks[5]) /\ ~Fails(r, checks[6]) /\ ~Fails(r, checks[8])
  BY <1>2 DEF Passes
<1>4. /\ ~TokenFails(r) /\ ~RefreshFails(r) /\ ~AudienceFails(r)
      /\ ~RealmFails(r) /\ ~CertificateFails(r) /\ ~MismatchFails(r)
  BY <1>2, <1>3 DEF Fails
<1>5. Authenticated(r) /\ r.token # NoToken
  BY <1>4 DEF TokenFails, Authenticated, Protected
<1>6. /\ r.token.user \in Users
      /\ r.token.defect = "none" /\ r.token.realm = r.ncb
  BY <1>4, <1>5
     DEF TokenFails, RefreshFails, AudienceFails, RealmFails, Protected, Requests, AllTokens
<1>7. /\ r.conn.peer # NoCert /\ r.conn.valid
      /\ bound[r.token.user] = r.conn.peer
  BY <1>4, <1>5 DEF CertificateFails, MismatchFails, MtlsFingerprint, MtlsCertValid
<1> QED
  BY <1>6, <1>7 DEF Cleared, BoundTo, BoundToOwn

\* Refusals at arrival have none of the later causes.
LEMMA ArrivalRefused ==
    ASSUME NEW r \in Requests, RefusedBy(r, ArrivalChecks(r.op))
    PROVE  /\ phase' = "ANSWERED"
           /\ \E c \in Causes : answer' = Refused(c)
           /\ answer'.cause \notin Payload \union Late \union {"EXECUTED"}
<1>1. PICK k \in DOMAIN ArrivalChecks(r.op) :
          answer' = Refused(ArrivalChecks(r.op)[k]) /\ phase' = "ANSWERED"
  BY DEF RefusedBy
<1>2. ArrivalChecks(r.op)[k] \in {"NCB", "TOKEN", "REFRESH", "AUDIENCE", "REALM",
                                 "CERTIFICATE", "ASSOCIATION", "MISMATCH"}
  <2>1. CASE r.op \in PublicRoutes
    BY <1>1, <2>1 DEF ArrivalChecks
  <2>2. CASE r.op \notin PublicRoutes
    <3>1. k \in 1 .. 8
      BY <2>2 DEF ArrivalChecks
    <3> QED
      BY <2>2, <3>1 DEF ArrivalChecks
  <2> QED
    BY <2>1, <2>2
<1>3. {"NCB", "TOKEN", "REFRESH", "AUDIENCE", "REALM",
       "CERTIFICATE", "ASSOCIATION", "MISMATCH"} \subseteq Causes
  BY DEF Causes, RefusalOf
<1> QED
  BY <1>1, <1>2, <1>3 DEF Refused, Payload, Late

\* What the body's checks leave true when none of the first six refuses.
LEMMA BodyWellFormed ==
    ASSUME NEW r \in Requests,
           ~FieldsFail(r), ~ClientCertFails(r), ~SignerFails(r), ~SignatureFails(r)
    PROVE  WellFormed(r)
<1>1. r.op \in RouteSchemas => r.body.errors = {}
  BY DEF FieldsFail
<1>2. ASSUME r.op \in NroRoutes
      PROVE  /\ r.body.signature = "right"
             /\ ResolveClientCert(r) # NoCert
             /\ r.body.signer \in Certificates => r.body.signer = ResolveClientCert(r)
  <2>1. r.body.signature = "right"
    BY <1>2 DEF SignatureFails
  <2>2. r.body \in AllBodies
    BY DEF Requests
  <2>3. r.body.signer \in Certificates \union {BareKey}
    BY <2>1, <2>2 DEF AllBodies
  <2>4. r.body.signer # NoCert
    BY <2>3, CertificatesAssumption
  <2>5. ResolveClientCert(r) # NoCert
    BY <1>2, <2>4 DEF ClientCertFails
  <2> QED
    BY <1>2, <2>1, <2>5 DEF SignerFails
<1> QED
  BY <1>1, <1>2 DEF WellFormed

\* Behind the body, a request is refused after all the checks before, or has
\* passed them all.
LEMMA BodyChecked ==
    ASSUME NEW r \in Requests, Cleared(r), CheckAndHandle(r)
    PROVE  \/ /\ phase' = "ANSWERED" /\ r.op \notin PublicRoutes
              /\ \E c \in Payload \union Late :
                    /\ answer' = Refused(c)
                    /\ c \in Late => WellFormed(r)
                    /\ c \in {"PROFILE", "UNIMPLEMENTED"} => ~WindowFails(r)
           \/ /\ WellFormed(r) /\ WithinProfile(r)
              /\ r.op \notin PublicRoutes => ~WindowFails(r)
              /\ \/ phase' = "HANDLING" /\ UNCHANGED answer
                 \/ phase' = "ANSWERED" /\ answer' = Executed
<1> DEFINE checks == BodyChecks(r.op)
<1>1. CASE r.op \in PublicRoutes
  <2>1. checks = <<>>
    BY <1>1 DEF BodyChecks
  <2>2. ~RefusedBy(r, BodyChecks(r.op))
    BY <2>1 DEF RefusedBy
  <2>3. WellFormed(r) /\ WithinProfile(r)
    BY <1>1 DEF WellFormed, WithinProfile, PublicRoutes, RouteSchemas, NroRoutes, ProtectedRoutes
  <2> QED
    BY <1>1, <2>2, <2>3 DEF CheckAndHandle
<1>2. CASE r.op \notin PublicRoutes
  <2>1. checks = <<"FIELDS", "CLIENT_CERT", "SIGNER", "NRO_FIELDS", "SIGNING_DATA",
                   "SIGNATURE", "WINDOW", "PROFILE", "UNIMPLEMENTED">>
    BY <1>2 DEF BodyChecks
  <2>2. DOMAIN checks = 1 .. 9
    BY <2>1
  <2>3. /\ ~Fails(r, checks[1]) => ~FieldsFail(r)
        /\ ~Fails(r, checks[2]) => ~ClientCertFails(r)
        /\ ~Fails(r, checks[3]) => ~SignerFails(r)
        /\ ~Fails(r, checks[6]) => ~SignatureFails(r)
        /\ ~Fails(r, checks[7]) => ~WindowFails(r)
        /\ ~Fails(r, checks[8]) => ~ProfileFails(r)
    BY <2>1 DEF Fails
  <2>4. CASE RefusedBy(r, checks)
    <3>1. PICK k \in 1 .. 9 :
              /\ \A j \in 1 .. k - 1 : ~Fails(r, checks[j])
              /\ answer' = Refused(checks[k])
              /\ phase' = "ANSWERED"
      BY <2>2, <2>4 DEF RefusedBy, FirstFailing
    <3> HIDE DEF checks
    <3>2. checks[k] \in Payload \union Late
      BY <2>1 DEF Payload, Late
    <3>3. ASSUME checks[k] \in Late
          PROVE  WellFormed(r)
      <4>1. k >= 7
        BY <2>1, <3>3 DEF Late
      <4>2. /\ ~Fails(r, checks[1]) /\ ~Fails(r, checks[2])
            /\ ~Fails(r, checks[3]) /\ ~Fails(r, checks[6])
        BY <3>1, <4>1
      <4> QED
        BY <2>3, <4>2, BodyWellFormed
    <3>4. ASSUME checks[k] \in {"PROFILE", "UNIMPLEMENTED"}
          PROVE  ~WindowFails(r)
      <4>1. k >= 8
        BY <2>1, <3>4
      <4>2. ~Fails(r, checks[7])
        BY <3>1, <4>1
      <4> QED
        BY <2>3, <4>2
    <3> QED
      BY <1>2, <3>1, <3>2, <3>3, <3>4
  <2>5. CASE /\ Passes(r, checks)
             /\ \/ phase' = "HANDLING" /\ UNCHANGED answer
                \/ phase' = "ANSWERED" /\ answer' = Executed
    <3>1. \A k \in 1 .. 9 : ~Fails(r, checks[k])
      BY <2>2, <2>5 DEF Passes
    <3>2. /\ ~FieldsFail(r) /\ ~ClientCertFails(r) /\ ~SignerFails(r)
          /\ ~SignatureFails(r) /\ ~WindowFails(r) /\ ~ProfileFails(r)
      BY <2>3, <3>1
    <3>3. WellFormed(r)
      BY <3>2, BodyWellFormed
    <3>4. WithinProfile(r)
      BY <3>2
         DEF Cleared, WithinProfile, ProfileFails, Authenticated, Protected, NoToken
    <3> QED
      BY <2>5, <3>2, <3>3, <3>4
  <2> QED
    BY <2>4, <2>5 DEF CheckAndHandle
<1> QED
  BY <1>1, <1>2

\* How far the checks let a request, given what they looked at.
LEMMA Judged ==
    ASSUME TypeOK, NEW r \in Requests, req' = r,
           Cleared(r), r.op \in ProtectedRoutes => seen'.bound,
           seen'.open = OpenFor(r.op, day, now),
           CheckAndHandle(r)
    PROVE  /\ Passed'
           /\ phase' \in {"HANDLING", "ANSWERED"}
           /\ answer' \in {answer, Executed} \union {Refused(c) : c \in Causes}
<1>1. ~WindowFails(r) => AlwaysOpen \/ seen'.open
  BY DEF WindowFails
<1>2. CASE /\ phase' = "ANSWERED" /\ r.op \notin PublicRoutes
           /\ \E c \in Payload \union Late :
                 /\ answer' = Refused(c)
                 /\ c \in Late => WellFormed(r)
                 /\ c \in {"PROFILE", "UNIMPLEMENTED"} => ~WindowFails(r)
  <2>1. PICK c \in Payload \union Late :
           /\ answer' = Refused(c)
           /\ c \in Late => WellFormed(r)
           /\ c \in {"PROFILE", "UNIMPLEMENTED"} => ~WindowFails(r)
    BY <1>2
  <2>2. c \in Causes
    BY DEF Payload, Late, Causes, RefusalOf
  <2>3. answer'.cause = c
    BY <2>1 DEF Refused
  <2>4. c # "EXECUTED"
    BY DEF Payload, Late
  <2>5. PastBody' => c \in Late
    BY <1>2, <2>3, <2>4 DEF PastBody, AnsweredBy
  <2>6. PastWindow' => c \in {"PROFILE", "UNIMPLEMENTED"}
    BY <1>2, <2>3, <2>4 DEF PastWindow, AnsweredBy
  <2>7. ~PastAll'
    BY <1>2, <2>3, <2>4 DEF PastAll, AnsweredBy
  <2>8. Passed'
    BY <1>1, <1>2, <2>1, <2>5, <2>6, <2>7 DEF Passed
  <2> QED
    BY <1>2, <2>1, <2>2, <2>8
<1>3. CASE /\ WellFormed(r) /\ WithinProfile(r)
           /\ r.op \notin PublicRoutes => ~WindowFails(r)
           /\ \/ phase' = "HANDLING" /\ UNCHANGED answer
              \/ phase' = "ANSWERED" /\ answer' = Executed
  <2>1. ~AnsweredBy(Payload \union Late)'
    BY <1>3 DEF AnsweredBy, Executed, Payload, Late
  <2>2. Passed'
    BY <1>1, <1>3, <2>1 DEF Passed
  <2> QED
    BY <1>3, <2>2
<1> QED
  BY <1>2, <1>3, BodyChecked

-----------------------------------------------------------------------------
\* The types.

LEMMA EmptyTyped ==
    /\ NoToken \in AllTokens
    /\ NoBody \in AllBodies
    /\ NoRequest \in Requests
<1>1. NoToken \in AllTokens
  BY DEF AllTokens
<1>2. NoBody \in AllBodies
  <2>1. NoBody.signature # "right"
    BY DEF NoBody
  <2> QED
    BY <2>1 DEF NoBody, AllBodies
<1>3. NoRequest.conn \in AllConnections
  BY DEF NoRequest, AllConnections
<1> QED
  BY <1>1, <1>2, <1>3 DEF NoRequest, Requests

\* A day that is typed and in order stays so, whoever changes it and however.
LEMMA WindowKept ==
    ASSUME day \in Days, now \in Times, Ordered(day),
           WindowStep \/ UNCHANGED <<day, now>>
    PROVE  day' \in Days /\ now' \in Times /\ Ordered(day')
<1>1. CASE Tick \/ ClockMoved
  BY <1>1, BusinessWindowAssumption DEF Tick, ClockMoved, NextMinute, Times
<1>2. ASSUME NEW update \in Updates, NEW valid \in BOOLEAN, AdminUpdate(update, valid)
      PROVE  day' \in Days /\ now' \in Times /\ Ordered(day')
  <2>1. Merged(day, update) \in Days
    BY UpdatesAssumption DEF Merged, Days
  <2> QED
    BY <1>2, <2>1 DEF AdminUpdate, ValidateBusinessDayUpdate
<1>3. ASSUME NEW valid \in BOOLEAN, AdminReset(valid)
      PROVE  day' \in Days /\ now' \in Times /\ Ordered(day')
  <2>1. DefaultDay \in Days /\ Ordered(DefaultDay)
    BY BusinessWindowAssumption DEF DefaultDay, Days, Times, TimeFields, Ordered
  <2> QED
    BY <1>3, <2>1 DEF AdminReset
<1> QED
  BY <1>1, <1>2, <1>3 DEF WindowStep

LEMMA OpenTyped ==
    ASSUME NEW op, NEW d, NEW t
    PROVE  OpenFor(op, d, t) \in BOOLEAN
BY DEF OpenFor

LEMMA BoundTyped ==
    ASSUME NEW r, NEW b
    PROVE  BoundTo(r, b) \in BOOLEAN
BY DEF BoundTo

LEMMA SeenTyped ==
    ASSUME NEW p \in BOOLEAN, NEW q \in BOOLEAN
    PROVE  [open |-> p, bound |-> q] \in [open : BOOLEAN, bound : BOOLEAN]
OBVIOUS

\* What the others do leaves a request as far as it is: it only sees more.
LEMMA ObservedKeeps ==
    ASSUME TypeOK, Passed, UNCHANGED <<phase, req, answer>>, Observe
    PROVE  Passed' /\ seen' \in [open : BOOLEAN, bound : BOOLEAN]
<1>1. CASE phase \in {"WAITING", "HANDLING"}
  <2> DEFINE o == seen.open \/ OpenFor(req.op, day', now')
             b == seen.bound \/ BoundTo(req, bound')
  <2>1. seen' = [open |-> o, bound |-> b]
    BY <1>1 DEF Observe
  <2>2. o \in BOOLEAN /\ b \in BOOLEAN
    OBVIOUS
  <2>3. (seen.open => seen'.open) /\ (seen.bound => seen'.bound)
    BY <2>1
  <2>4. seen' \in [open : BOOLEAN, bound : BOOLEAN]
    BY <2>1, <2>2, SeenTyped
  <2>5. Passed'
    BY <2>3 DEF Passed, PastArrival, PastBody, PastWindow, PastAll, AnsweredBy
  <2> QED
    BY <2>4, <2>5
<1>2. CASE phase \notin {"WAITING", "HANDLING"}
  <2>1. seen' = seen
    BY <1>2 DEF Observe
  <2>2. Passed'
    BY <2>1 DEF Passed, PastArrival, PastBody, PastWindow, PastAll, AnsweredBy
  <2> QED
    BY <2>1, <2>2 DEF TypeOK
<1> QED
  BY <1>1, <1>2

-----------------------------------------------------------------------------
\* The invariant.

LEMMA InitIInv == Init => IInv
<1> SUFFICES ASSUME Init
             PROVE  IInv
  OBVIOUS
<1>1. DefaultDay \in Days /\ Ordered(DefaultDay)
  BY BusinessWindowAssumption DEF DefaultDay, Days, Times, TimeFields, Ordered
<1>2. bound \in [Users -> Certificates \union {NoCert}] /\ BoundToOwn
  BY DEF Init, BoundToOwn
<1>3. seen \in [open : BOOLEAN, bound : BOOLEAN]
  BY DEF Init
<1>4. TypeOK
  BY <1>1, <1>2, <1>3, EmptyTyped DEF Init, WindowInit, TypeOK
<1>5. Passed
  BY DEF Init, Passed, PastArrival, PastBody, PastWindow, PastAll, AnsweredBy
<1> QED
  BY <1>1, <1>2, <1>4, <1>5 DEF Init, WindowInit, IInv

LEMMA NextIInv == IInv /\ [Next]_gatewayVars => IInv'
<1> SUFFICES ASSUME IInv, [Next]_gatewayVars
             PROVE  IInv'
  OBVIOUS
<1> USE DEF IInv
<1>1. ASSUME NEW op \in Operations, NEW ncb \in {NCB, UnknownNCB},
             NEW conn \in Connections, NEW token \in Tokens \union {NoToken},
             Arrive(op, ncb, token, conn)
      PROVE  IInv'
  <2> DEFINE r == [op |-> op, ncb |-> ncb, token |-> token, conn |-> conn,
                   body |-> NoBody]
  <2>1. r \in Requests
    BY EmptyTyped, InputsAssumption DEF Requests
  <2>2. /\ req' = r
        /\ seen' = [open |-> OpenFor(op, day, now), bound |-> BoundTo(r, bound)]
        /\ UNCHANGED <<day, now, bound>>
        /\ \/ RefusedBy(r, ArrivalChecks(op))
           \/ /\ Passes(r, ArrivalChecks(op))
              /\ \/ phase' = "WAITING" /\ UNCHANGED answer
                 \/ CheckAndHandle(r)
    BY <1>1 DEF Arrive
  <2>3. seen' \in [open : BOOLEAN, bound : BOOLEAN]
    BY <2>2, SeenTyped, OpenTyped, BoundTyped
  <2>4. r.op = op /\ seen'.open = OpenFor(r.op, day, now) /\ seen'.bound = BoundTo(r, bound)
    BY <2>2
  <2> HIDE DEF r
  <2>5. CASE RefusedBy(r, ArrivalChecks(op))
    <3>1. /\ phase' = "ANSWERED"
          /\ \E c \in Causes : answer' = Refused(c)
          /\ answer'.cause \notin Payload \union Late \union {"EXECUTED"}
      BY <2>1, <2>4, <2>5, ArrivalRefused
    <3>2. Passed'
      BY <3>1 DEF Passed, PastArrival, PastBody, PastWindow, PastAll, AnsweredBy, Late
    <3> QED
      BY <2>1, <2>2, <2>3, <3>1, <3>2 DEF TypeOK, BoundToOwn
  <2>6. CASE /\ Passes(r, ArrivalChecks(op))
             /\ \/ phase' = "WAITING" /\ UNCHANGED answer
                \/ CheckAndHandle(r)
    <3>1. Cleared(r) /\ (r.op \in ProtectedRoutes => seen'.bound)
      <4>1. CASE r.op \in ProtectedRoutes
        BY <2>1, <2>4, <2>6, <4>1, ArrivalPassed
      <4> QED
        BY <4>1 DEF Cleared
    <3>2. CASE phase' = "WAITING" /\ UNCHANGED answer
      <4>1. Passed'
        BY <2>2, <3>1, <3>2
           DEF Passed, PastArrival, PastBody, PastWindow, PastAll, AnsweredBy
      <4> QED
        BY <2>1, <2>2, <2>3, <3>2, <4>1 DEF TypeOK, BoundToOwn
    <3>3. CASE CheckAndHandle(r)
      <4>1. /\ Passed'
            /\ phase' \in {"HANDLING", "ANSWERED"}
            /\ answer' \in {answer, Executed} \union {Refused(c) : c \in Causes}
        BY <2>1, <2>2, <2>4, <3>1, <3>3, Judged
      <4> QED
        BY <2>1, <2>2, <2>3, <4>1 DEF TypeOK, BoundToOwn
    <3> QED
      BY <2>6, <3>2, <3>3
  <2> QED
    BY <2>2, <2>5, <2>6
<1>2. ASSUME NEW body \in Bodies, BodyArrives(body)
      PROVE  IInv'
  <2> DEFINE r == [req EXCEPT !.body = body]
  <2>1. r \in Requests
    BY InputsAssumption DEF Requests, TypeOK
  <2>2. /\ phase = "WAITING" /\ req' = r /\ CheckAndHandle(r)
        /\ seen' = [seen EXCEPT !.open = OpenFor(r.op, day, now)]
        /\ UNCHANGED <<day, now, bound>>
    BY <1>2 DEF BodyArrives
  <2>3. seen' = [open |-> OpenFor(r.op, day, now), bound |-> seen.bound]
    BY <2>2 DEF TypeOK
  <2>4. seen' \in [open : BOOLEAN, bound : BOOLEAN]
    <3>1. seen.bound \in BOOLEAN
      BY DEF TypeOK
    <3> QED
      BY <2>3, <3>1, SeenTyped, OpenTyped
  <2>5. /\ r.op = req.op /\ r.token = req.token /\ r.ncb = req.ncb /\ r.conn = req.conn
    BY DEF TypeOK, Requests
  <2>6. Cleared(r) /\ (r.op \in ProtectedRoutes => seen'.bound)
    <3>1. Cleared(req) /\ (req.op \in ProtectedRoutes => seen.bound)
      BY <2>2 DEF Passed, PastArrival
    <3> QED
      BY <2>3, <2>5, <3>1 DEF Cleared
  <2>7. seen'.open = OpenFor(r.op, day, now)
    BY <2>3
  <2> HIDE DEF r
  <2>8. /\ Passed'
        /\ phase' \in {"HANDLING", "ANSWERED"}
        /\ answer' \in {answer, Executed} \union {Refused(c) : c \in Causes}
    BY <2>1, <2>2, <2>6, <2>7, Judged
  <2> QED
    BY <2>1, <2>2, <2>4, <2>8 DEF TypeOK, BoundToOwn
<1>3. CASE HandlerResumes
  <2>1. Passed'
    BY <1>3 DEF HandlerResumes, Passed, PastArrival, PastBody, PastWindow, PastAll,
                AnsweredBy, Executed, Payload, Late
  <2> QED
    BY <1>3, <2>1 DEF HandlerResumes, TypeOK, BoundToOwn
<1>4. CASE Finish
  <2>1. Passed'
    BY <1>4 DEF Finish, Passed, PastArrival, PastBody, PastWindow, PastAll, AnsweredBy
  <2>2. seen' \in [open : BOOLEAN, bound : BOOLEAN]
    BY <1>4 DEF Finish
  <2> QED
    BY <1>4, <2>1, <2>2, EmptyTyped DEF Finish, TypeOK, BoundToOwn
<1>5. CASE DayChanges
  <2>1. Passed' /\ seen' \in [open : BOOLEAN, bound : BOOLEAN]
    BY <1>5, ObservedKeeps DEF DayChanges
  <2>2. day' \in Days /\ now' \in Times /\ Ordered(day')
    BY <1>5, WindowKept DEF DayChanges, TypeOK
  <2> QED
    BY <1>5, <2>1, <2>2 DEF DayChanges, TypeOK, BoundToOwn
<1>6. ASSUME NEW u \in Users, Enrol(u) \/ Remove(u)
      PROVE  IInv'
  <2>1. Passed' /\ seen' \in [open : BOOLEAN, bound : BOOLEAN]
    BY <1>6, ObservedKeeps DEF Enrol, Remove
  <2>2. PICK c \in CertsOf[u] \union {NoCert} : bound' = [bound EXCEPT ![u] = c]
    BY <1>6 DEF Enrol, Remove
  <2>3. bound' \in [Users -> Certificates \union {NoCert}] /\ BoundToOwn'
    BY <2>2, CertificatesAssumption DEF TypeOK, BoundToOwn
  <2> QED
    BY <1>6, <2>1, <2>3 DEF Enrol, Remove, TypeOK
<1>7. CASE UNCHANGED gatewayVars
  BY <1>7 DEF gatewayVars, TypeOK, BoundToOwn, Passed, PastArrival, PastBody,
              PastWindow, PastAll, AnsweredBy
<1>8. ASSUME NEW op \in Operations, NEW ncb \in {NCB, UnknownNCB}, NEW conn \in Connections,
             NEW token \in IF op \in ProtectedRoutes THEN Tokens ELSE {NoToken},
             Arrive(op, ncb, token, conn)
      PROVE  IInv'
  <2>1. token \in Tokens \union {NoToken}
    OBVIOUS
  <2> QED
    BY <1>1, <1>8, <2>1
<1> QED
  BY <1>2, <1>3, <1>4, <1>5, <1>6, <1>7, <1>8 DEF Next

-----------------------------------------------------------------------------
\* The business day.

\* The window of each minute of an ordered day.
LEMMA NamesOfDay ==
    ASSUME NEW d \in Days, Ordered(d), NEW t \in Times
    PROVE  /\ CurrentName(d, t) \in WindowNames
           /\ CurrentName(d, t) = "START_OF_DAY" <=> d.sodStart <= t /\ t < d.ofaStart
           /\ CurrentName(d, t) = "OPEN_FOR_ALL" <=> d.ofaStart <= t /\ t < d.ofaEnd
           /\ CurrentName(d, t) = "END_OF_DAY" <=> d.ofaEnd <= t /\ t < d.eodEnd
           /\ CurrentName(d, t) = "CLOSED" <=> d.eodEnd <= t \/ t < d.sodStart
<1>1. /\ d.sodStart \in Int /\ d.ofaStart \in Int
      /\ d.ofaEnd \in Int /\ d.eodEnd \in Int /\ t \in Int
  BY BusinessWindowAssumption DEF Days, TimeFields, Times
<1>2. CASE t < d.sodStart
  BY <1>1, <1>2 DEF CurrentName, WindowNames, Ordered
<1>3. CASE d.sodStart <= t /\ t < d.ofaStart
  BY <1>1, <1>3 DEF CurrentName, WindowNames, Ordered
<1>4. CASE d.ofaStart <= t /\ t < d.ofaEnd
  BY <1>1, <1>4 DEF CurrentName, WindowNames, Ordered
<1>5. CASE d.ofaEnd <= t /\ t < d.eodEnd
  BY <1>1, <1>5 DEF CurrentName, WindowNames, Ordered
<1>6. CASE d.eodEnd <= t
  BY <1>1, <1>6 DEF CurrentName, WindowNames, Ordered
<1> QED
  BY <1>1, <1>2, <1>3, <1>4, <1>5, <1>6

\* What a window announces.
LEMMA Announced ==
    ASSUME NEW d, NEW t
    PROVE  LET w == CurrentWindow(d, t)
           IN  /\ w.name = CurrentName(d, t)
               /\ w.name = "START_OF_DAY" =>
                     w.endTime = d.ofaStart /\ w.nextName = "OPEN_FOR_ALL"
               /\ w.name = "OPEN_FOR_ALL" =>
                     w.endTime = d.ofaEnd /\ w.nextName = "END_OF_DAY"
               /\ w.name = "END_OF_DAY" =>
                     w.endTime = d.eodEnd /\ w.nextName = "CLOSED"
               /\ w.name = "CLOSED" =>
                     w.endTime = d.sodStart /\ w.nextName = "START_OF_DAY"
BY DEF CurrentWindow, NextWindowName, StartTimeOf

LEMMA IntervalsAreWindows ==
    ASSUME NEW d \in Days, Ordered(d), NEW t \in Times, NEW name \in WindowNames
    PROVE  InWindow(d, t, name) <=> CurrentWindow(d, t).name = name
<1>1. CurrentWindow(d, t).name = CurrentName(d, t)
  BY DEF CurrentWindow
<1>2. CASE name = "START_OF_DAY"
  BY <1>1, <1>2, NamesOfDay DEF InWindow
<1>3. CASE name = "OPEN_FOR_ALL"
  BY <1>1, <1>3, NamesOfDay DEF InWindow
<1>4. CASE name = "END_OF_DAY"
  BY <1>1, <1>4, NamesOfDay DEF InWindow
<1>5. CASE name = "CLOSED"
  BY <1>1, <1>5, NamesOfDay DEF InWindow
<1> QED
  BY <1>2, <1>3, <1>4, <1>5 DEF WindowNames

\* A minute later the window is the same one, or the one it announced, or one
\* further when that one is empty.
LEMMA MinuteLater ==
    ASSUME NEW d \in Days, Ordered(d), NEW t \in Times, d.sodStart < d.eodEnd
    PROVE  LET w == CurrentWindow(d, t)
               v == CurrentWindow(d, NextMinute(t))
           IN  /\ w.name # v.name <=> NextMinute(t) = w.endTime
               /\ w.name # v.name =>
                     \/ v.name = w.nextName
                     \/ StartTimeOf(d)[w.nextName]
                          = StartTimeOf(d)[NextWindowName(w.nextName)]
<1> DEFINE u == NextMinute(t)
           w == CurrentWindow(d, t)
           v == CurrentWindow(d, u)
<1>1. /\ d.sodStart \in 0 .. LastTime /\ d.ofaStart \in 0 .. LastTime
      /\ d.ofaEnd \in 0 .. LastTime /\ d.eodEnd \in 0 .. LastTime
      /\ t \in 0 .. LastTime /\ LastTime \in Nat
  BY BusinessWindowAssumption DEF Days, TimeFields, Times
<1>2. /\ u \in 0 .. LastTime
      /\ t < LastTime => u = t + 1
      /\ t = LastTime => u = 0
  BY <1>1 DEF NextMinute
<1>3. u \in Times
  BY <1>2 DEF Times
<1>4. w.name = CurrentName(d, t) /\ v.name = CurrentName(d, u)
  BY Announced
<1>5. w.name \in WindowNames /\ v.name \in WindowNames
  BY <1>3, <1>4, NamesOfDay
<1>6. /\ v.name = "START_OF_DAY" <=> d.sodStart <= u /\ u < d.ofaStart
      /\ v.name = "OPEN_FOR_ALL" <=> d.ofaStart <= u /\ u < d.ofaEnd
      /\ v.name = "END_OF_DAY" <=> d.ofaEnd <= u /\ u < d.eodEnd
      /\ v.name = "CLOSED" <=> d.eodEnd <= u \/ u < d.sodStart
  BY <1>3, <1>4, NamesOfDay
<1> HIDE DEF u, w, v
<1>7. CASE w.name = "START_OF_DAY"
  <2>1. w.endTime = d.ofaStart /\ w.nextName = "OPEN_FOR_ALL"
    BY <1>7, Announced DEF w
  <2>2. d.sodStart <= t /\ t < d.ofaStart
    BY <1>4, <1>7, NamesOfDay
  <2>3. /\ StartTimeOf(d)["OPEN_FOR_ALL"] = d.ofaStart
        /\ StartTimeOf(d)[NextWindowName("OPEN_FOR_ALL")] = d.ofaEnd
    BY DEF StartTimeOf, NextWindowName
  <2>4. w.name # v.name <=> u = d.ofaStart
    BY <1>1, <1>2, <1>5, <1>6, <1>7, <2>2 DEF Ordered, WindowNames
  <2>5. u = d.ofaStart => v.name = "OPEN_FOR_ALL" \/ d.ofaStart = d.ofaEnd
    BY <1>1, <1>2, <1>6 DEF Ordered
  <2> QED
    BY <2>1, <2>3, <2>4, <2>5 DEF u, w, v
<1>8. CASE w.name = "OPEN_FOR_ALL"
  <2>1. w.endTime = d.ofaEnd /\ w.nextName = "END_OF_DAY"
    BY <1>8, Announced DEF w
  <2>2. d.ofaStart <= t /\ t < d.ofaEnd
    BY <1>4, <1>8, NamesOfDay
  <2>3. /\ StartTimeOf(d)["END_OF_DAY"] = d.ofaEnd
        /\ StartTimeOf(d)[NextWindowName("END_OF_DAY")] = d.eodEnd
    BY DEF StartTimeOf, NextWindowName
  <2>4. w.name # v.name <=> u = d.ofaEnd
    BY <1>1, <1>2, <1>5, <1>6, <1>8, <2>2 DEF Ordered, WindowNames
  <2>5. u = d.ofaEnd => v.name = "END_OF_DAY" \/ d.ofaEnd = d.eodEnd
    BY <1>1, <1>2, <1>6 DEF Ordered
  <2> QED
    BY <2>1, <2>3, <2>4, <2>5 DEF u, w, v
<1>9. CASE w.name = "END_OF_DAY"
  <2>1. w.endTime = d.eodEnd /\ w.nextName = "CLOSED"
    BY <1>9, Announced DEF w
  <2>2. d.ofaEnd <= t /\ t < d.eodEnd
    BY <1>4, <1>9, NamesOfDay
  <2>3. w.name # v.name <=> u = d.eodEnd
    BY <1>1, <1>2, <1>5, <1>6, <1>9, <2>2 DEF Ordered, WindowNames
  <2>4. u = d.eodEnd => v.name = "CLOSED"
    BY <1>1, <1>2, <1>6
  <2> QED
    BY <2>1, <2>3, <2>4 DEF u, w, v
<1>10. CASE w.name = "CLOSED"
  <2>1. w.endTime = d.sodStart /\ w.nextName = "START_OF_DAY"
    BY <1>10, Announced DEF w
  <2>2. d.eodEnd <= t \/ t < d.sodStart
    BY <1>4, <1>10, NamesOfDay
  <2>3. /\ StartTimeOf(d)["START_OF_DAY"] = d.sodStart
        /\ StartTimeOf(d)[NextWindowName("START_OF_DAY")] = d.ofaStart
    BY DEF StartTimeOf, NextWindowName
  <2>4. w.name # v.name <=> u = d.sodStart
    BY <1>1, <1>2, <1>5, <1>6, <1>10, <2>2 DEF Ordered, WindowNames
  <2>5. u = d.sodStart => v.name = "START_OF_DAY" \/ d.sodStart = d.ofaStart
    BY <1>1, <1>2, <1>6 DEF Ordered
  <2> QED
    BY <2>1, <2>3, <2>4, <2>5 DEF u, w, v
<1> QED
  BY <1>5, <1>7, <1>8, <1>9, <1>10 DEF WindowNames

-----------------------------------------------------------------------------
\* The theorems.

THEOREM Invariance == Spec => []IInv
<1>1. Init => IInv
  BY InitIInv
<1>2. IInv /\ [Next]_gatewayVars => IInv'
  BY NextIInv
<1> QED
  BY <1>1, <1>2, PTL DEF Spec

\* The day, the certificates and the request keep their shape (app.ts).
THEOREM TypeCorrectness == Spec => []TypeOK
<1>1. IInv => TypeOK
  BY DEF IInv
<1> QED
  BY <1>1, Invariance, PTL

\* The code's current window is the one of the documented intervals, whatever the
\* admin changed (currentWindow).
THEOREM OneWindowAtATime == Spec => []WindowsPartitionDay
<1>1. IInv => WindowsPartitionDay
  BY IntervalsAreWindows DEF IInv, TypeOK, WindowsPartitionDay
<1> QED
  BY <1>1, Invariance, PTL

\* A window ends when and gives way to what it announced (CurrentWindow of
\* business-window.ts).
THEOREM WindowsAnnounceTheNext == Spec => AnnouncedWindowComes
<1> DEFINE w == CurrentWindow(day, now)
           v == CurrentWindow(day, now')
           Comes ==
              day' = day /\ now' = NextMinute(now) /\ day.sodStart < day.eodEnd =>
                 /\ w.name # v.name <=> now' = w.endTime
                 /\ w.name # v.name =>
                       \/ v.name = w.nextName
                       \/ StartTimeOf(day)[w.nextName]
                            = StartTimeOf(day)[NextWindowName(w.nextName)]
<1>1. IInv => Comes
  BY MinuteLater DEF IInv, TypeOK
<1>2. IInv => [Comes]_<<day, now>>
  BY <1>1
<1> QED
  BY <1>2, Invariance, PTL DEF AnnouncedWindowComes

\* No operation is executed that was never open after its request had arrived
\* (the business-window guard).
THEOREM NothingExecutedOutside == Spec => []ExecutedWasOpen
<1>1. IInv => ExecutedWasOpen
  BY DEF IInv, Passed, PastWindow, AnsweredBy, ExecutedWasOpen, WasExecuted, Executed
<1> QED
  BY <1>1, Invariance, PTL

\* What is executed under a token is within the token, over the certificate its
\* user was bound to (the token, certificate and profile checks).
THEOREM OnlyTheBoundUser == Spec => []ExecutedWasBound
<1>1. IInv /\ WasExecuted /\ req.op \in ProtectedRoutes =>
          Cleared(req) /\ seen.bound /\ WithinProfile(req)
  BY DEF IInv, Passed, PastArrival, PastAll, AnsweredBy, WasExecuted, Executed
<1>2. IInv => ExecutedWasBound
  BY <1>1 DEF ExecutedWasBound, Cleared, WithinProfile
<1> QED
  BY <1>2, Invariance, PTL

\* No operation that needs non-repudiation is executed without a client certificate
\* and a signature that verifies, nor under the certificate of anyone but the sender
\* (the NRO checks).
THEOREM NoSigningForOthers == Spec => []NoOthersCertificateSigns
<1>1. IInv /\ WasExecuted => Cleared(req) /\ WellFormed(req)
  BY DEF IInv, Passed, PastArrival, PastBody, AnsweredBy, WasExecuted, Executed
<1>2. IInv => NoOthersCertificateSigns
  <2> SUFFICES ASSUME IInv, WasExecuted, req.op \in NroRoutes
               PROVE  /\ req.body.signature = "right"
                      /\ req.conn.peer # NoCert \/ (TrustProxy /\ req.conn.forwarded # NoCert)
                      /\ req.body.signer \in Certificates =>
                            /\ req.conn.peer # NoCert => req.body.signer = req.conn.peer
                            /\ req.conn.peer = NoCert => req.body.signer = req.conn.forwarded
                            /\ req.op \in ProtectedRoutes =>
                                  req.body.signer \in CertsOf[req.token.user]
    BY DEF NoOthersCertificateSigns
  <2>1. /\ req.body.signature = "right"
        /\ ResolveClientCert(req) # NoCert
        /\ req.body.signer \in Certificates => req.body.signer = ResolveClientCert(req)
    BY <1>1 DEF WellFormed
  <2>2. /\ req.conn.peer # NoCert \/ (TrustProxy /\ req.conn.forwarded # NoCert)
        /\ req.conn.peer # NoCert => ResolveClientCert(req) = req.conn.peer
        /\ req.conn.peer = NoCert => ResolveClientCert(req) = req.conn.forwarded
    BY <2>1 DEF ResolveClientCert
  <2>3. ASSUME req.op \in ProtectedRoutes, req.body.signer \in Certificates
        PROVE  req.body.signer \in CertsOf[req.token.user]
    <3>1. req.token.user \in Users /\ req.conn.peer \in CertsOf[req.token.user]
      BY <1>1, <2>3 DEF Cleared
    <3>2. req.conn.peer # NoCert
      BY <3>1, CertificatesAssumption
    <3> QED
      BY <2>1, <2>2, <2>3, <3>1, <3>2
  <2> QED
    BY <2>1, <2>2, <2>3
<1> QED
  BY <1>2, Invariance, PTL

\* Refusals come in the order of the chain (buildApp).
THEOREM OrderOfRefusals == Spec => []RefusalsKeepTheOrder
<1>1. IInv => RefusalsKeepTheOrder
  <2> SUFFICES ASSUME IInv, phase = "ANSWERED"
               PROVE  /\ answer.cause \in Late \union Payload /\ req.op \in ProtectedRoutes =>
                            Cleared(req) /\ seen.bound
                      /\ answer.cause \in Late => WellFormed(req)
                      /\ answer.cause = "PROFILE" => AlwaysOpen \/ seen.open
    BY DEF RefusalsKeepTheOrder, Late, Payload, Cleared, WellFormed
  <2>1. answer.cause \in Late \union Payload => PastArrival
    BY DEF PastArrival, AnsweredBy
  <2>2. answer.cause \in Late => PastBody
    BY DEF PastBody, AnsweredBy
  <2>3. answer.cause = "PROFILE" => PastWindow /\ req.op \notin PublicRoutes
    BY DEF IInv, Passed, PastWindow, AnsweredBy, Late
  <2> QED
    BY <2>1, <2>2, <2>3 DEF IInv, Passed
<1> QED
  BY <1>1, Invariance, PTL
=============================================================================
