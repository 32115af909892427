----------------------------- MODULE MCGateway -----------------------------
(***************************************************************************)
(* Gateway on a day of four minutes: a bridge client u1, who may be given  *)
(* a second certificate, a desk user u2, and the requests that tell the    *)
(* checks apart.                                                           *)
(***************************************************************************)
EXTENDS Gateway, TLC

CONSTANTS u1, u2, c1, c2, c3

MCCertsOf == u1 :> {c1, c3} @@ u2 :> {c2}
MCProfileOf == u1 :> "EXTERNAL_USER" @@ u2 :> "PILOT_READ_WRITE"

\* Every field moved on its own; some orders are refused.
MCUpdates ==
    {[sodStart |-> 1], [ofaStart |-> 2], [ofaEnd |-> 1], [eodEnd |-> 2],
     [ofaStart |-> 1, eodEnd |-> 3]}

MCTokens ==
    {NoToken,
     [user |-> u1, realm |-> NCB, defect |-> "none"],
     [user |-> u2, realm |-> NCB, defect |-> "none"],
     [user |-> u1, realm |-> OtherNCB, defect |-> "none"]}
    \union [user : {u2}, realm : {NCB}, defect : {"invalid", "refresh", "audience"}]

\* With and without a certificate, an untrusted one, and forwarded ones.
MCConnections ==
    [peer : {c1, c2}, valid : {TRUE}, forwarded : {NoCert}]
    \union {[peer |-> NoCert, valid |-> FALSE, forwarded |-> NoCert],
            [peer |-> c1, valid |-> FALSE, forwarded |-> NoCert],
            [peer |-> NoCert, valid |-> FALSE, forwarded |-> c2],
            [peer |-> c2, valid |-> TRUE, forwarded |-> c1]}

MCBodies ==
    {[errors |-> {"schema", "money"}, signer |-> c1, signature |-> "right"],
     [errors |-> {"currency"}, signer |-> NoCert, signature |-> "absent"],
     [errors |-> {}, signer |-> NoCert, signature |-> "absent"],
     [errors |-> {}, signer |-> Garbage, signature |-> "wrong"],
     [errors |-> {}, signer |-> BareKey, signature |-> "wrong"],
     [errors |-> {}, signer |-> c2, signature |-> "wrong"],
     [errors |-> {}, signer |-> c2, signature |-> "undetermined"]}
    \union [errors : {{}}, signer : {c1, c2, BareKey}, signature : {"right"}]

\* An answer is final: nothing that comes between it and the next request is
\* told from the same thing coming after it.
AnswersAreFinal == phase = "ANSWERED" => phase' = "IDLE"
=============================================================================
