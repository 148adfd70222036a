------------------------------ MODULE MCSchedules ------------------------------
(* Instances of Schedules for TLC. *)
EXTENDS ScheduleProperties

CONSTANTS wa, wb, p1, p2

\* Every unit of time; at 2 and 4 only; and an expression that falls on no day.
MCCrons == [c \in Crons |-> [t \in Moments |->
  LET next == IF c = "often" THEN t + 1 ELSE 2 * (t \div 2) + 2 IN
    CASE c = "30feb"                   -> Zero
      [] c # "30feb" /\ next > MaxTime -> Never
      [] OTHER                         -> next]]
===============================================================================
