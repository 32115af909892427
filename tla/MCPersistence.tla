--------------------------- MODULE MCPersistence ---------------------------
(***************************************************************************)
(* Persistence on small instances.                                          *)
(***************************************************************************)
EXTENDS Persistence, FiniteSets

Unanswered == Len(sent) + Len(fresh) + Cardinality(failed)

\* Once the connection has broken one draft is enough, and no crash or reset more;
\* the second break finds at most five commands without a reply.
OneDraftOverBreaks ==
    /\ count.breaks > 0 => /\ count.created <= 1
                           /\ count.crashes = 0
                           /\ mem.wallets.era = 0
    /\ count.breaks > 1 => Unanswered <= 5
=============================================================================
