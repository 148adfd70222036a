------------------------------- MODULE MCReports -------------------------------
(* An instance of Reports for TLC. *)
EXTENDS ReportsProperties, TLC

CONSTANTS p1, i1, w1, w2, c1, s1

Home1 == [x \in {w1, w2, c1} |-> i1]

\* The workers of the instance are interchangeable.
Symmetry == Permutations({w1, w2})
===============================================================================
