------------------------------- MODULE MCRunner -------------------------------
(* Instances of Runner for TLC. *)
EXTENDS RunnerClaims, TLC

CONSTANTS p1, i1, i2, w1, w2, c1, c2

OneInstanceHome  == [x \in {w1, w2, c1, c2} |-> i1]
TwoInstancesHome == [x \in {w1, w2, c1, c2} |-> IF x \in {w1, c1} THEN i1 ELSE i2]

\* The workers of one instance are interchangeable, and so are its callers.
Symmetry == Permutations({w1, w2}) \cup Permutations({c1, c2})

\* The third row is kept for histories of cloned sources without groups and without a
\* lost call; uploads, groups and lost calls meet two rows.
ThirdRowPlain ==
  \A k \in Key : Exists(k) /\ k[2] = 3 =>
    /\ lost = 0
    /\ \A j \in Key : row[j].source # "snapshot" /\ row[j].group = NoGroup
===============================================================================
