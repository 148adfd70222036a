--------------------------- MODULE RunnerProperties ---------------------------
(***************************************************************************)
(* What the queue of executions and its workers must guarantee.            *)
(***************************************************************************)
EXTENDS Runner

\* Every variable holds a value of its type.
TypeOK ==
  /\ StoreTypeOK
  /\ inst \in [Instances -> InstanceState]
  /\ starts \in [Instances -> 0 .. MaxStarts]
  /\ pc \in [Workers -> WorkerState]
  /\ job \in [Workers -> Key \cup {NoKey}]
  /\ ctx \in [Workers -> {"live", "canceled"}]
  /\ dir \in [Key -> {"absent", "empty", "repo"}]
  /\ retry \in [Callers -> [pc : {"idle", "check", "insert"},
                            prev : Key \cup {NoKey}]]
  /\ lost \in 0 .. MaxLost

\* Two workers never use one workspace at the same time, across retries that
\* share the directory, crashes, requeues and lost writes: the clone, the step
\* containers and the carried-over artifacts of run() all assume it.
OneRunPerWorkspace ==
  \A v, w \in Workers :
    v # w /\ pc[v] \in UsingDir /\ pc[w] \in UsingDir
      => Workspace(v) # Workspace(w)

\* EnqueueRetry builds on a failed attempt: whatever requests race, every
\* attempt but the last of an execution is failed, and so at most one attempt
\* of it is queued or running.
SupersededAttemptsFailed ==
  \A j, k \in Key :
    /\ Exists(j) /\ Exists(k)
    /\ row[j].execution = row[k].execution
    /\ row[j].attempt < row[k].attempt
    => row[j].status = "failed"

\* The claimed row is the worker's: no two workers hold one row, a held row is
\* running in the store, and while every instance is up and no store call about
\* a claimed row has failed unnoticed a running row is held by some worker.
Holds(w, k) == pc[w] \in Owning /\ job[w] = k
ClaimIsExclusive ==
  \A v, w \in Workers, k \in Key : Holds(v, k) /\ Holds(w, k) => v = w
HeldRowsRun == \A w \in Workers, k \in Key : Holds(w, k) => row[k].status = "running"
NoOrphans ==
  (lost = 0 /\ \A i \in Instances : inst[i] # "down")
    => \A k \in Key : row[k].status = "running" => \E w \in Workers : Holds(w, k)
Ownership == ClaimIsExclusive /\ HeldRowsRun /\ NoOrphans

\* UpdateExecution overwrites the status blindly and onStepUpdate always writes
\* "running"; even so a terminal row keeps its status.
TerminalIsFinal ==
  [][\A k \in Key : row[k].status \in Terminal => row'[k].status = row[k].status]_vars

\* An attempt ends canceled only if its own cancellation was requested (by a
\* user or a newer run of its group) or a drain that timed out gave up on it:
\* no context, cancel entry or flag leaks from one run to another.
CanceledOnRequest ==
  [][\A k \in Key :
       row'[k].status = "canceled" /\ row[k].status # "canceled"
         => \/ row[k].cancelRequested
            \/ \E i \in Instances : inst[i] = "forced"]_vars

\* The table implements the chain of attempts users are promised.
StatusAt(r, e, a) ==
  LET Rows == {k \in Key : r[k].status # "none" /\ r[k].execution = e /\ r[k].attempt = a}
  IN IF Rows = {} THEN "none" ELSE r[CHOOSE k \in Rows : TRUE].status

ChainOf == [e \in Key |-> [a \in 1 .. MaxId |-> StatusAt(row, e, a)]]

Chain == INSTANCE AttemptChain
           WITH Execution <- Key, MaxAttempts <- MaxId, chain <- ChainOf

ImplementsChain == Chain!Spec

-------------------------------------------------------------------------------
(* Liveness.  Goroutines are scheduled, so a worker that can go on does      *)
(* (Advance); the one exception is the end of a run's steps, which may take  *)
(* for ever unless its context is canceled and the containers are killed.    *)
(* The fairness itself is stated in CollectorProperties, where the runner    *)
(* works in the company of the collector.                                    *)

EndCanceledSteps(w) == ctx[w] = "canceled" /\ EndSteps(w)

Advance(w) ==
  \/ Stop(w) \/ Select(w) \/ Claim(w) \/ Count(w) \/ Register(w) \/ Begin(w)
  \/ Reuse(w) \/ CloneFresh(w) \/ CloneOver(w) \/ Extract(w) \/ ReadConfig(w)
  \/ Supersede(w) \/ Build(w) \/ EndCanceledSteps(w) \/ Release(w)

\* A store call about a claimed row that failed unnoticed leaves the row running
\* until the next start.
Over(k) == row[k].status \in Terminal \/ lost # 0

\* A running execution whose cancellation was requested ends, even if its steps
\* never would, and even if the process crashes before the poll sees the flag
\* (the flag is not cleared by the requeue).
CancelEnds ==
  \A k \in Key : row[k].status = "running" /\ row[k].cancelRequested ~> Over(k)

\* Steps have timeouts, so they end.
StepsEnd == \A w \in Workers : WF_vars(EndSteps(w))

\* Then every queued execution ends, across crashes, restarts and drains.
RunsEnd ==
  StepsEnd => \A k \in Key : row[k].status = "pending" ~> Over(k)

\* And Drain returns: cancelAll or not, the wait group reaches zero.
DrainReturns ==
  StepsEnd => \A i \in Instances : inst[i] = "draining" ~> inst[i] \in {"drained", "down"}
===============================================================================
