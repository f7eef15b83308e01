------------------------------- MODULE MCBolt -------------------------------
(* Instances of Bolt for TLC.                                              *)
EXTENDS Bolt, TLC

Symmetry == Permutations(Readers)
=============================================================================
