----------------------------- MODULE RunnerClaims -----------------------------
(***************************************************************************)
(* Statements the documentation makes about the queue and its workers that *)
(* the code does not keep.  Each is checked by a run of its own, whose     *)
(* counterexample is described in the README.                              *)
(***************************************************************************)
EXTENDS RunnerProperties

\* "on startup, pici requeues executions left in `running' state, so no run is
\* lost" (docs/guide/configuration.md): a requeued run must not fail because of
\* the clone its interrupted predecessor left behind.
NoRunIsLost == \A k \in Key : row[k].error # "exists"

\* "multiple instances can share a Postgres database and consume it
\* concurrently" (docs/guide/configuration.md): no execution is run twice at a
\* time.
InstancesShareQueue == ClaimIsExclusive
===============================================================================
