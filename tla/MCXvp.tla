------------------------------- MODULE MCXvp -------------------------------
(***************************************************************************)
(* Xvp on small instances: a buyer's funded wallet and a seller's empty one. *)
(***************************************************************************)
EXTENDS Xvp, TLC

CONSTANTS buyerWallet, sellerWallet, buyer, seller, ncb

MCWallets ==
    buyerWallet :> [owner |-> buyer, manager |-> ncb, validity |-> "VALID", balance |-> 2]
    @@ sellerWallet :> [owner |-> seller, manager |-> ncb, validity |-> "VALID", balance |-> 0]

MCSymmetry == Permutations(Calls) \cup Permutations(Xvps)
=============================================================================
