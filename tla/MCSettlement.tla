---------------------------- MODULE MCSettlement ----------------------------
(***************************************************************************)
(* Settlement on small instances: two entities under two central banks, two *)
(* users of the first and one of the second.                                *)
(***************************************************************************)
EXTENDS Settlement, TLC

CONSTANTS a1, a2, bankA, bankB, u1, u2, u3, ncb1, ncb2

\* u1 and u2 work for bankA, u3 for bankB.
MCEntityOf == u1 :> bankA @@ u2 :> bankA @@ u3 :> bankB

MCAliasesAndEmpty == {a1, a2, NoAlias}

\* a2 bears the issuance alias where a cfg says so: the aliases are not symmetric.
MCSymmetry == Permutations({u1, u2}) \cup Permutations({ncb1, ncb2})
=============================================================================
