------------------------------- MODULE MCPfod -------------------------------
(***************************************************************************)
(* Pfod on small instances: two wallets of two participants, both funded.   *)
(***************************************************************************)
EXTENDS Pfod, TLC

CONSTANTS w1, w2, bank1, bank2, ncb

MCWallets ==
    w1 :> [owner |-> bank1, manager |-> ncb, validity |-> "VALID", balance |-> 2]
    @@ w2 :> [owner |-> bank2, manager |-> ncb, validity |-> "VALID", balance |-> 2]

MCSymmetry == Permutations(Trades)
=============================================================================
