------------------------------ MODULE Gateway ------------------------------
(***************************************************************************)
(* The chain of checks every request passes (buildApp in src/app.ts), for  *)
(* one request among the many the process serves: the others, the admin    *)
(* and the clock reach it only through the business day and the users'     *)
(* certificates, which may change whenever it waits.  It waits for its     *)
(* body, at the first check that reads it, and then in the few handlers    *)
(* that wait themselves.  Between two waits it runs to the end undisturbed *)
(* (one event loop, no other await on the outside).                        *)
(***************************************************************************)
EXTENDS BusinessWindow

CONSTANTS Users,          \* usernames
          Certificates,   \* client certificates, by their raw DER bytes
          NoCert,
          BareKey,        \* a signerPEM that is a public key, no certificate
          Garbage,        \* a signerPEM that is neither
          CertsOf,        \* the certificates a user is ever given
          ProfileOf,      \* the profile in each user's tokens
          NCB,            \* the central bank in question
          OtherNCB,       \* another official one
          UnknownNCB,     \* a path segment that is not one
          Operations,     \* the operations exercised, and what they come with
          Tokens, Connections, Bodies,
          TrustProxy,     \* TRUST_PROXY_CLIENT_CERT
          AlwaysOpen      \* PONTES_MOCK_BUSINESS_WINDOW_ALWAYS_OPEN

\* One operation of each kind the routes distinguish.
AllOperations ==
    {"health", "currentWindow", "createFunding", "approveFunding",
     "createWalletOneStep", "createTransfer", "bridgePayment",
     "bridgeDirectRtgs", "initXvp", "payXvp", "payRtgsXvp"}

ASSUME CertificatesAssumption ==
    /\ CertsOf \in [Users -> SUBSET Certificates]
    /\ \A u, v \in Users : u # v => CertsOf[u] \intersect CertsOf[v] = {}
    /\ {NoCert, BareKey, Garbage} \intersect Certificates = {}
    /\ NoCert # BareKey /\ NoCert # Garbage /\ BareKey # Garbage
    /\ TrustProxy \in BOOLEAN /\ AlwaysOpen \in BOOLEAN
    /\ NCB # OtherNCB /\ NCB # UnknownNCB /\ OtherNCB # UnknownNCB

VARIABLES bound,   \* the certificate each user is bound to, or NoCert
          phase,   \* how far the request is
          req,     \* what the request carries
          answer,  \* the answer, once there is one
          seen     \* ghost: what was so at some moment of the request's life

gatewayVars == <<day, now, bound, phase, req, answer, seen>>

-----------------------------------------------------------------------------
(* What the routes declare.                                                *)

\* Answered by a router placed before the authentication.
PublicRoutes == {"health"}

\* Paths under /dlt, and the one /igw route that asks for a token; the others
\* never look at one.
ProtectedRoutes ==
    {"currentWindow", "createFunding", "approveFunding", "createWalletOneStep",
     "createTransfer", "bridgePayment", "bridgeDirectRtgs", "payXvp"}
DltRoutes == (ProtectedRoutes \ {"payXvp"}) \union {"health"}

\* Routes whose body is held against an official schema.
RouteSchemas == {"createFunding", "createTransfer", "bridgePayment",
                 "bridgeDirectRtgs", "initXvp", "payXvp"}

\* POST and PUT operations whose schema has signature and signerPEM.
NroRoutes == {"createFunding", "approveFunding", "bridgeDirectRtgs", "payRtgsXvp"}

\* The windows an operation documents; those it documents for issuance or
\* redemption alone are dropped, and none means it is never gated.
AllowedWindows(op) ==
    CASE op = "currentWindow" -> {"START_OF_DAY", "OPEN_FOR_ALL", "END_OF_DAY"}
      [] op \in {"createFunding", "approveFunding"} -> {"START_OF_DAY", "OPEN_FOR_ALL"}
      [] op \in {"createTransfer", "bridgePayment", "bridgeDirectRtgs",
                 "initXvp", "payXvp", "payRtgsXvp"} -> {"OPEN_FOR_ALL"}
      [] OTHER -> WindowNames

\* Route patterns and the one profile each set of them requires.
RequiredProfiles(op) ==
    CASE op \in {"bridgePayment", "bridgeDirectRtgs"} -> {"EXTERNAL_USER"}
      [] op \in {"createFunding", "approveFunding", "createTransfer"}
            -> {"PILOT_READ_WRITE"}
      [] OTHER -> {ProfileOf[u] : u \in Users}

\* Declared by the specification, but registered by no router.
Unimplemented == {"payRtgsXvp"}

\* The handlers that wait before they act: the one-step wallet creation reads
\* its body there, and an XvP payment waits for the lock of its XvP.
HandlerWaits == {"createWalletOneStep", "payXvp"}

-----------------------------------------------------------------------------
(* What a request carries.                                                 *)

NoToken == [user |-> "none", realm |-> "none", defect |-> "absent"]
NoBody  == [errors |-> {}, signer |-> NoCert, signature |-> "absent"]

\* invalid: a bad or expired signature; refresh: a refresh token; audience:
\* an audience outside the allow-list.
AllTokens == {NoToken} \union
          [user : Users, realm : {NCB, OtherNCB},
           defect : {"none", "invalid", "refresh", "audience"}]

\* The peer certificate of the TLS session, whether the client CA signed it,
\* and a certificate forwarded in a header.
AllConnections ==
    {c \in [peer : Certificates \union {NoCert}, valid : BOOLEAN,
            forwarded : Certificates \union {NoCert}] :
       c.valid => c.peer # NoCert}

\* errors: what the schema, the two-decimals rule and the currency rule say.
\* signature: undetermined when the fields to sign are missing, else what the
\* signer verifies, which a public key can as well as a certificate.
AllBodies ==
    {b \in [errors : SUBSET {"schema", "money", "currency"},
            signer : Certificates \union {NoCert, BareKey, Garbage},
            signature : {"absent", "undetermined", "wrong", "right"}] :
       b.signature = "right" => b.signer \in Certificates \union {BareKey}}

ASSUME InputsAssumption ==
    /\ Operations \subseteq AllOperations
    /\ Tokens \subseteq AllTokens
    /\ Connections \subseteq AllConnections
    /\ Bodies \subseteq AllBodies

\* Where the request first waits for its body.
BodyAwaited(op) == op \in RouteSchemas \union NroRoutes

\* createLoggingMiddleware: the certificate attached to the request.
MtlsFingerprint(r) == r.conn.peer
MtlsCertValid(r)   == r.conn.valid

\* Mutant: the forwarded certificate goes before the peer's.
ForwardedFirst(r) ==
    IF TrustProxy /\ r.conn.forwarded # NoCert THEN r.conn.forwarded ELSE r.conn.peer

\* resolveClientCert: the peer's certificate, trusted or not, before the
\* forwarded one.
ResolveClientCert(r) ==
    IF r.conn.peer # NoCert THEN r.conn.peer
    ELSE IF TrustProxy THEN r.conn.forwarded ELSE NoCert

Protected(r) == r.op \in ProtectedRoutes

\* Has the token check left its user in the request's context?
Authenticated(r) == Protected(r) /\ r.token # NoToken

-----------------------------------------------------------------------------
(* The checks.  Each refuses for a cause of its own.                       *)

UsernamesOf(cert) == {u \in Users : bound[u] = cert}

NcbFails(r) == r.ncb = UnknownNCB

TokenFails(r) ==
    Protected(r) /\ (r.token = NoToken \/ r.token.defect = "invalid")
RefreshFails(r)  == Authenticated(r) /\ r.token.defect = "refresh"
AudienceFails(r) == Authenticated(r) /\ r.token.defect = "audience"
RealmFails(r)    == Authenticated(r) /\ r.token.realm # r.ncb

CertificateFails(r) ==
    Authenticated(r) /\ (MtlsFingerprint(r) = NoCert \/ ~MtlsCertValid(r))

AssociationFails(r) ==
    /\ Authenticated(r)
    /\ bound[r.token.user] = NoCert \/ UsernamesOf(MtlsFingerprint(r)) = {}

\* Mutant: that both are enrolled is enough.
MismatchForgotten(r) == FALSE

MismatchFails(r) ==
    /\ Authenticated(r)
    /\ \/ bound[r.token.user] # MtlsFingerprint(r)
       \/ UsernamesOf(MtlsFingerprint(r)) # {r.token.user}

FieldsFail(r) == r.op \in RouteSchemas /\ r.body.errors # {}

\* createNroCertCheckMiddleware: a signer needs a client certificate, and has to
\* be that certificate, unless it is none: what is no certificate is left to the
\* signature check, which takes a public key.
ClientCertFails(r) == /\ r.op \in NroRoutes /\ r.body.signer # NoCert
                      /\ ResolveClientCert(r) = NoCert

SignerFails(r) == /\ r.op \in NroRoutes /\ r.body.signer \in Certificates
                  /\ r.body.signer # ResolveClientCert(r)

NroFieldsFail(r) ==
    /\ r.op \in NroRoutes
    /\ r.body.signature = "absent" \/ r.body.signer = NoCert

SigningDataFails(r) == r.op \in NroRoutes /\ r.body.signature = "undetermined"

SignatureFails(r) == r.op \in NroRoutes /\ r.body.signature # "right"

OpenFor(op, d, t) == CurrentWindow(d, t).name \in AllowedWindows(op)

\* Mutant: the guard keeps the day it was built with.
WindowOfStartup(r) == ~AlwaysOpen /\ ~OpenFor(r.op, DefaultDay, now)

WindowFails(r) ==
    ~AlwaysOpen /\ ~OpenFor(r.op, day, now)

ProfileFails(r) == /\ r.op \in DltRoutes /\ Authenticated(r)
                   /\ ProfileOf[r.token.user] \notin RequiredProfiles(r.op)

\* The status and error code of each refusal, as normalizeReturnedErrorBody
\* leaves it: the OAuth bodies of the token and certificate checks get the
\* fallback code of a 401, a body that names a code keeps it, and the session
\* error of the audience check keeps the real system's shape, without a code.
RefusalOf ==
    [NCB          |-> <<404, "HL-GER-001">>,
     TOKEN        |-> <<401, "HL-ATH-001">>,
     REFRESH      |-> <<401, "HL-ATH-001">>,
     AUDIENCE     |-> <<401, "unauthorized">>,
     REALM        |-> <<403, "HL-ATH-003">>,
     CERTIFICATE  |-> <<401, "HL-ATH-001">>,
     ASSOCIATION  |-> <<401, "HL-ATH-001">>,
     MISMATCH     |-> <<401, "HL-ATH-001">>,
     FIELDS       |-> <<400, "HL-VAL-001">>,
     CLIENT_CERT  |-> <<403, "HL-NRO-005">>,
     SIGNER       |-> <<400, "HL-NRO-004">>,
     NRO_FIELDS   |-> <<400, "HL-NRO-001">>,
     SIGNING_DATA |-> <<400, "HL-NRO-002">>,
     SIGNATURE    |-> <<400, "HL-NRO-003">>,
     WINDOW       |-> <<403, "HL-BW-001">>,
     PROFILE      |-> <<403, "HL-AUTH-001">>,
     UNIMPLEMENTED |-> <<501, "HL-NIMP-001">>]

Causes == DOMAIN RefusalOf
NoAnswer == [cause |-> "none", error |-> <<0, "none">>]
Executed == [cause |-> "EXECUTED", error |-> <<200, "none">>]
Refused(cause) == [cause |-> cause, error |-> RefusalOf[cause]]

Fails(r, cause) ==
    \/ cause = "NCB" /\ NcbFails(r)
    \/ cause = "TOKEN" /\ TokenFails(r)
    \/ cause = "REFRESH" /\ RefreshFails(r)
    \/ cause = "AUDIENCE" /\ AudienceFails(r)
    \/ cause = "REALM" /\ RealmFails(r)
    \/ cause = "CERTIFICATE" /\ CertificateFails(r)
    \/ cause = "ASSOCIATION" /\ AssociationFails(r)
    \/ cause = "MISMATCH" /\ MismatchFails(r)
    \/ cause = "FIELDS" /\ FieldsFail(r)
    \/ cause = "CLIENT_CERT" /\ ClientCertFails(r)
    \/ cause = "SIGNER" /\ SignerFails(r)
    \/ cause = "NRO_FIELDS" /\ NroFieldsFail(r)
    \/ cause = "SIGNING_DATA" /\ SigningDataFails(r)
    \/ cause = "SIGNATURE" /\ SignatureFails(r)
    \/ cause = "WINDOW" /\ WindowFails(r)
    \/ cause = "PROFILE" /\ ProfileFails(r)
    \/ cause = "UNIMPLEMENTED" /\ r.op \in Unimplemented

\* The order buildApp mounts them in; a public route answers after the first.
ArrivalChecks(op) ==
    IF op \in PublicRoutes THEN <<"NCB">>
    ELSE <<"NCB", "TOKEN", "REFRESH", "AUDIENCE", "REALM",
           "CERTIFICATE", "ASSOCIATION", "MISMATCH">>

\* Mutant: the window is looked at before the body and the signature.
WindowFirst(op) ==
    IF op \in PublicRoutes THEN <<>>
    ELSE <<"WINDOW", "FIELDS", "CLIENT_CERT", "SIGNER", "NRO_FIELDS",
           "SIGNING_DATA", "SIGNATURE", "PROFILE", "UNIMPLEMENTED">>

BodyChecks(op) ==
    IF op \in PublicRoutes THEN <<>>
    ELSE <<"FIELDS", "CLIENT_CERT", "SIGNER", "NRO_FIELDS", "SIGNING_DATA",
           "SIGNATURE", "WINDOW", "PROFILE", "UNIMPLEMENTED">>

-----------------------------------------------------------------------------
(* A request, from its arrival to its answer.                              *)

BoundTo(r, b) == /\ r.token.user \in Users
                 /\ b[r.token.user] = r.conn.peer
                 /\ r.conn.peer # NoCert

FirstFailing(r, checks, k) ==
    /\ \A j \in 1 .. k - 1 : ~Fails(r, checks[j])
    /\ Fails(r, checks[k])

\* The checks in their order: refused by the first that fails ...
RefusedBy(r, checks) ==
    \E k \in DOMAIN checks :
        /\ FirstFailing(r, checks, k)
        /\ answer' = Refused(checks[k])
        /\ phase' = "ANSWERED"

\* ... or past all of them.
Passes(r, checks) == \A k \in DOMAIN checks : ~Fails(r, checks[k])

\* The checks that read the body and those behind them, then the handler,
\* without a wait in between unless the handler itself waits.
CheckAndHandle(r) ==
    \/ RefusedBy(r, BodyChecks(r.op))
    \/ /\ Passes(r, BodyChecks(r.op))
       /\ IF r.op \in HandlerWaits
            THEN phase' = "HANDLING" /\ UNCHANGED answer
            ELSE phase' = "ANSWERED" /\ answer' = Executed

Arrive(op, ncb, token, conn) ==
    LET r == [op |-> op, ncb |-> ncb, token |-> token, conn |-> conn,
              body |-> NoBody]
    IN  /\ phase = "IDLE"
        /\ req' = r
        /\ seen' = [open |-> OpenFor(op, day, now), bound |-> BoundTo(r, bound)]
        /\ \/ RefusedBy(r, ArrivalChecks(op))
           \/ /\ Passes(r, ArrivalChecks(op))
              /\ IF BodyAwaited(op) THEN phase' = "WAITING" /\ UNCHANGED answer
                 ELSE CheckAndHandle(r)
        /\ UNCHANGED <<day, now, bound>>

BodyArrives(body) ==
    LET r == [req EXCEPT !.body = body]
    IN  /\ phase = "WAITING"
        /\ req' = r
        /\ seen' = [seen EXCEPT !.open = OpenFor(r.op, day, now)]
        /\ CheckAndHandle(r)
        /\ UNCHANGED <<day, now, bound>>

\* The handler's own wait is over.
HandlerResumes ==
    /\ phase = "HANDLING"
    /\ phase' = "ANSWERED"
    /\ answer' = Executed
    /\ UNCHANGED <<day, now, bound, req, seen>>

NoRequest == [op |-> "none", ncb |-> NCB, token |-> NoToken,
              conn |-> [peer |-> NoCert, valid |-> FALSE, forwarded |-> NoCert],
              body |-> NoBody]

Finish ==
    /\ phase = "ANSWERED"
    /\ phase' = "IDLE"
    /\ req' = NoRequest
    /\ answer' = NoAnswer
    /\ seen' = [open |-> FALSE, bound |-> FALSE]
    /\ UNCHANGED <<day, now, bound>>

-----------------------------------------------------------------------------
(* What the others do meanwhile.                                           *)

\* The request saw whatever held at a moment it was still waiting.
Observe ==
    seen' = IF phase \in {"WAITING", "HANDLING"}
            THEN [open |-> seen.open \/ OpenFor(req.op, day', now'),
                  bound |-> seen.bound \/ BoundTo(req, bound')]
            ELSE seen

DayChanges ==
    /\ WindowStep
    /\ UNCHANGED <<bound, phase, req, answer>>
    /\ Observe

\* Enrolling again replaces the certificate, and removing a user drops it.
Enrol(u) ==
    /\ \E c \in CertsOf[u] : bound' = [bound EXCEPT ![u] = c]
    /\ UNCHANGED <<day, now, phase, req, answer>>
    /\ Observe

Remove(u) ==
    /\ bound' = [bound EXCEPT ![u] = NoCert]
    /\ UNCHANGED <<day, now, phase, req, answer>>
    /\ Observe

Init ==
    /\ WindowInit
    /\ bound = [u \in Users |-> NoCert]
    /\ phase = "IDLE"
    /\ req = NoRequest
    /\ answer = NoAnswer
    /\ seen = [open |-> FALSE, bound |-> FALSE]

Next ==
    \/ \E op \in Operations, ncb \in {NCB, UnknownNCB}, conn \in Connections :
          \E token \in IF op \in ProtectedRoutes THEN Tokens ELSE {NoToken} :
             Arrive(op, ncb, token, conn)
    \/ \E body \in Bodies : BodyArrives(body)
    \/ HandlerResumes
    \/ Finish
    \/ DayChanges
    \/ \E u \in Users : Enrol(u) \/ Remove(u)

Spec == Init /\ [][Next]_gatewayVars

-----------------------------------------------------------------------------
(* Properties.                                                             *)

Requests ==
    [op : Operations \union {"none"}, ncb : {NCB, UnknownNCB},
     token : AllTokens, conn : AllConnections, body : AllBodies]

TypeOK ==
    /\ day \in Days /\ now \in Times
    /\ bound \in [Users -> Certificates \union {NoCert}]
    /\ phase \in {"IDLE", "WAITING", "HANDLING", "ANSWERED"}
    /\ req \in Requests
    /\ answer \in {NoAnswer, Executed} \union {Refused(c) : c \in Causes}
    /\ seen \in [open : BOOLEAN, bound : BOOLEAN]

\* A user is only ever bound to a certificate issued to him.
BoundToOwn == \A u \in Users : bound[u] \in CertsOf[u] \union {NoCert}

WasExecuted == phase = "ANSWERED" /\ answer = Executed

\* What is executed was open at some moment after its whole request had
\* arrived: a body sent slowly over the end of a window does not carry an
\* operation past it.  (Where the handler itself waits, for the lock of an XvP,
\* the moment may be over when it acts.)
ExecutedWasOpen == WasExecuted /\ ~AlwaysOpen /\ req.op \notin PublicRoutes => seen.open

\* What is executed under a token is within it -- made for this central bank, of a
\* user whose profile the route asks for -- and was sent while its user was bound to
\* the very certificate of the connection, though a removal or a new enrolment may
\* have come before the body.
ExecutedWasBound ==
    WasExecuted /\ req.op \in ProtectedRoutes =>
        /\ req.token.defect = "none" /\ req.token.realm = req.ncb
        /\ req.op \in DltRoutes => ProfileOf[req.token.user] \in RequiredProfiles(req.op)
        /\ seen.bound /\ req.conn.valid
        /\ req.conn.peer \in CertsOf[req.token.user]

\* An executed operation that needs non-repudiation came with a client certificate
\* and a signature that verifies, and if the signer it names is a certificate, it is
\* that of the connection; behind a trusted proxy, the forwarded one only when the
\* connection has none; and under a token, one of the token's user: no one signs
\* under the certificate of another.  (A signer may also be a public key, which is
\* compared with nothing.)
NoOthersCertificateSigns ==
    WasExecuted /\ req.op \in NroRoutes =>
        /\ req.body.signature = "right"
        /\ req.conn.peer # NoCert \/ (TrustProxy /\ req.conn.forwarded # NoCert)
        /\ req.body.signer \in Certificates =>
              /\ req.conn.peer # NoCert => req.body.signer = req.conn.peer
              /\ req.conn.peer = NoCert => req.body.signer = req.conn.forwarded
              /\ req.op \in ProtectedRoutes => req.body.signer \in CertsOf[req.token.user]

\* The order the chain documents (app.ts:128-132): a refusal over the body, the
\* signature, the window or the rights is only given to a caller the token and
\* certificate checks let through, one over the window or the rights only to a
\* body that is well formed and signed, and one over the rights only while the
\* window was open.
RefusalsKeepTheOrder ==
    phase = "ANSWERED" =>
        LET late == {"WINDOW", "PROFILE", "UNIMPLEMENTED"}
            payload == {"FIELDS", "CLIENT_CERT", "SIGNER", "NRO_FIELDS",
                        "SIGNING_DATA", "SIGNATURE"}
        IN  /\ answer.cause \in late \union payload /\ req.op \in ProtectedRoutes =>
                  /\ req.token.defect = "none" /\ req.token.realm = req.ncb
                  /\ req.conn.valid /\ seen.bound
            /\ answer.cause \in late =>
                  /\ req.op \in RouteSchemas => req.body.errors = {}
                  /\ req.op \in NroRoutes => req.body.signature = "right"
            /\ answer.cause = "PROFILE" => AlwaysOpen \/ seen.open
=============================================================================
