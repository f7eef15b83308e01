---------------------------- MODULE MCNsqChannel ----------------------------
(* Instances of NsqChannel for TLC.                                        *)
EXTENDS NsqChannel, TLC

Symmetry == Permutations(Clients) \cup Permutations(Msgs)
=============================================================================
