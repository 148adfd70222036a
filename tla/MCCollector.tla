------------------------------ MODULE MCCollector ------------------------------
(* Instances of Collector for TLC. *)
EXTENDS CollectorProperties

CONSTANTS p1, i1, w1, c1

OneHome      == [x \in {w1, c1} |-> i1]
NoCallerHome == [x \in {w1} |-> i1]
===============================================================================
