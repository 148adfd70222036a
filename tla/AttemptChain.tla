----------------------------- MODULE AttemptChain -----------------------------
(***************************************************************************)
(* What the execution queue promises its users, with no table, worker or   *)
(* process in sight: a logical Execution is a chain of attempts.  Only the *)
(* last attempt of a chain can be waiting or running, a finished attempt   *)
(* never changes, a new attempt is added only behind a failed one, and a   *)
(* restart puts what was running back in the queue.                        *)
(***************************************************************************)
EXTENDS Naturals

CONSTANTS
  Execution,   \* logical executions
  MaxAttempts  \* bound: attempts of one execution

VARIABLE chain  \* [Execution -> [1 .. MaxAttempts -> status]]

Attempt == 1 .. MaxAttempts
Final   == {"success", "failed", "canceled"}

Init == chain = [e \in Execution |-> [a \in Attempt |-> "none"]]

Set(e, a, status) == chain' = [chain EXCEPT ![e][a] = status]

Submit(e) == 
  /\ \A a \in Attempt : chain[e][a] = "none"
  /\ Set(e, 1, "pending")

Claim(e, a) == chain[e][a] = "pending" /\ Set(e, a, "running")

End(e, a) ==
  /\ chain[e][a] = "running"
  /\ \E status \in Final : Set(e, a, status)

Retry(e, a) ==
  /\ chain[e][a] = "failed"
  /\ a + 1 \in Attempt /\ chain[e][a + 1] = "none"
  /\ Set(e, a + 1, "pending")

Recover ==
  chain' = [e \in Execution |-> [a \in Attempt |->
              IF chain[e][a] = "running" THEN "pending" ELSE chain[e][a]]]

\* Most of what the system does changes no status (said first, for TLC to find).
Stutter == UNCHANGED chain

Next ==
  \/ Stutter
  \/ \E e \in Execution : Submit(e)
  \/ \E e \in Execution, a \in Attempt : Claim(e, a) \/ End(e, a) \/ Retry(e, a)
  \/ Recover

Spec == Init /\ [][Next]_chain
===============================================================================
