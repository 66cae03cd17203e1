------------------------- MODULE MCNseOrderGateway -------------------------
(***************************************************************************)
(* Instances of NseOrderGateway for TLC.                                   *)
(***************************************************************************)
EXTENDS NseOrderGateway, TLC

IdSymmetry == Permutations(Ids)
=============================================================================
