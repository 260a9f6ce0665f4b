------------------------------- MODULE Walks -------------------------------
(***************************************************************************)
(* Walks over the rows of a table that refer to each other: a loop that    *)
(* starts at some rows and goes on to the rows next to those it has seen,  *)
(* up or down a tree.                                                      *)
(***************************************************************************)
EXTENDS Naturals, FiniteSets

(* The rows of A that are reached from start, which are seen after as many *)
(* rounds as there are rows.                                               *)
Reach(A, start, next) ==
  LET seen[n \in 0..Cardinality(A)] ==
        IF n = 0 THEN start ELSE LET S == seen[n - 1] IN S \cup UNION {next[x] : x \in S}
  IN seen[Cardinality(A)]
=============================================================================
