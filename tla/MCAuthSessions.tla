--------------------------- MODULE MCAuthSessions ---------------------------
EXTENDS AuthSessions, TLC

(* Handlers are interchangeable. *)
MCSymmetry == Permutations(Procs)
=============================================================================
