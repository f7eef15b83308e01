----------------------------- MODULE MCNsqTopic -----------------------------
(* Model values and symmetry for the runs of NsqTopic.                     *)
EXTENDS NsqTopic

\* Nothing distinguishes one channel name, or one caller, from another.
Symmetry == Permutations(Names) \cup Permutations(Callers)
=============================================================================
