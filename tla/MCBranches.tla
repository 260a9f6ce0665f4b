----------------------------- MODULE MCBranches -----------------------------
EXTENDS Branches, TLC

(* Branches are interchangeable, and so are handlers. *)
MCSymmetry == Permutations(Branches) \cup Permutations(Procs)
=============================================================================
