-------------------------------- MODULE Runner --------------------------------
(***************************************************************************)
(* The pici processes that consume the executions table: each instance     *)
(* runs a pool of worker goroutines (claim, register, run, release),       *)
(* answers retry and cancel requests, drains on SIGTERM, and may crash and *)
(* be started again.  A run is modelled by the phases in which it reads or *)
(* writes state others see; what its steps do is in StepExecutor.          *)
(*                                                                         *)
(* One action is one store transaction, one critical section or one use of *)
(* the workspace, so every interleaving of goroutines the code allows at   *)
(* that grain is explored.                                                 *)
(*                                                                         *)
(* NeverDone, EvenAfterSteps, ExecutionFlagged and RetryableOnceEnded are  *)
(* faults the code does not have: no action uses them, mutation runs put   *)
(* them in.                                                                *)
(***************************************************************************)
EXTENDS Executions, FiniteSets

CONSTANTS
  Instances,  \* pici processes sharing the database and the workspace volume
  Workers,    \* worker goroutines, of all instances
  Callers,    \* HTTP requests that retry an execution, of all instances
  Home,       \* the instance of each worker and caller
  Sources,    \* sources of the executions submitted
  MaxStarts,  \* bound: starts of each instance
  MaxLost,    \* bound: store calls about a claimed row that fail unnoticed
  MaxCancels  \* bound: rows whose cancellation is requested

ASSUME RunnerAssumption ==
  /\ Workers \cap Callers = {}
  /\ Home \in [Workers \cup Callers -> Instances]
  /\ Sources \subseteq {"git", "snapshot"}
  /\ MaxStarts \in Nat /\ MaxLost \in Nat /\ MaxCancels \in Nat

VARIABLES
  inst,    \* life of each instance
  starts,  \* how often each instance was started
  pc,      \* where each worker is
  job,     \* the row it selected, claimed or runs
  ctx,     \* whether its run context was canceled
  dir,     \* RepoDir of each workspace: absent, an empty directory, a clone
  retry,   \* EnqueueRetry requests in flight
  lost     \* such calls so far

procVars   == <<inst, starts>>
workerVars == <<pc, job, ctx>>
vars == <<row, seq, inst, starts, pc, job, ctx, dir, retry, lost>>

InstanceState == {"down", "serving", "draining", "forced", "drained"}

\* off: not started; poll: top of workerLoop; update: row selected, not yet
\* claimed; claimed: claimed, before wg.Add; counted: before registerCancel;
\* begin .. steps: inside run; report: terminal row written, before release.
WorkerState == {"off", "exited", "poll", "update", "claimed", "counted",
                "begin", "prepare", "group", "supersede", "build", "steps",
                "report"}

InRun      == {"begin", "prepare", "group", "supersede", "build", "steps"}
Owning     == {"claimed", "counted"} \cup InRun      \* claimed, not finished
Registered == InRun \cup {"report"}                  \* has an entry in cancels
NeverDone  == {"counted", "exited"} \cup Registered
Counted    == {"counted"} \cup Registered            \* counted by wg
UsingDir   == InRun \ {"begin"}                       \* may touch the workspace

NoRetry == [pc |-> "idle", prev |-> NoKey]

Init ==
  /\ StoreInit
  /\ inst = [i \in Instances |-> "down"]
  /\ starts = [i \in Instances |-> 0]
  /\ pc = [w \in Workers |-> "off"]
  /\ job = [w \in Workers |-> NoKey]
  /\ ctx = [w \in Workers |-> "live"]
  /\ dir = [k \in Key |-> "absent"]
  /\ retry = [c \in Callers |-> NoRetry]
  /\ lost = 0

-------------------------------------------------------------------------------
(* Instances                                                                *)

\* The requeue of main, whose failure is only logged.
Recover ==
  \/ RequeueOrphaned /\ UNCHANGED lost
  \/ lost < MaxLost /\ lost' = lost + 1 /\ UNCHANGED row

\* main: the requeue, then Runner.Start.
StartInstance(i) ==
  /\ inst[i] = "down"
  /\ starts[i] < MaxStarts
  /\ inst' = [inst EXCEPT ![i] = "serving"]
  /\ starts' = [starts EXCEPT ![i] = @ + 1]
  /\ Recover
  /\ pc' = [w \in Workers |-> IF Home[w] = i THEN "poll" ELSE pc[w]]
  /\ UNCHANGED <<seq, job, ctx, dir, retry>>

\* The bound on starts: the last incarnation of an instance keeps serving.
MayStop(i) == starts[i] < MaxStarts

\* The workspaces the instance may be cloning into, as a clone leaves them when
\* it is cut short after it wrote its .git.
CutShort(i) ==
  [k \in Key |->
     IF \E w \in Workers : /\ Home[w] = i /\ pc[w] = "prepare"
                           /\ row[job[w]].trigger = "origin"
                           /\ row[job[w]].workspace = k
     THEN "repo" ELSE dir[k]]

\* What dies with the process: its goroutines and their memory.
ProcessEnds(i) ==
  /\ inst' = [inst EXCEPT ![i] = "down"]
  /\ pc' = [w \in Workers |-> IF Home[w] = i THEN "off" ELSE pc[w]]
  /\ job' = [w \in Workers |-> IF Home[w] = i THEN NoKey ELSE job[w]]
  /\ ctx' = [w \in Workers |-> IF Home[w] = i THEN "live" ELSE ctx[w]]
  /\ retry' = [c \in Callers |-> IF Home[c] = i THEN NoRetry ELSE retry[c]]
  /\ \E left \in {dir, CutShort(i)} : dir' = left
  /\ UNCHANGED <<row, seq, starts, lost>>

Crash(i) ==
  /\ inst[i] \in {"serving", "draining", "forced"}
  /\ MayStop(i)
  /\ ProcessEnds(i)

\* main returns after Drain.
Exit(i) ==
  /\ inst[i] = "drained"
  /\ ProcessEnds(i)

\* SIGTERM, once the HTTP server was shut down: Drain closes stopCh and waits for
\* the wait group.  (That main cancels the root context before is CancelRoot of
\* Collector: no step of this module runs under it.)
BeginDrain(i) ==
  /\ inst[i] = "serving"
  /\ MayStop(i)
  /\ inst' = [inst EXCEPT ![i] = "draining"]
  /\ UNCHANGED <<row, seq, starts, pc, job, ctx, dir, retry, lost>>

\* The shutdown timeout expires first: cancelAll.
DrainTimeout(i) ==
  /\ inst[i] = "draining"
  /\ inst' = [inst EXCEPT ![i] = "forced"]
  /\ ctx' = [w \in Workers |-> IF Home[w] = i /\ pc[w] \in Registered
                               THEN "canceled" ELSE ctx[w]]
  /\ UNCHANGED <<row, seq, starts, pc, job, dir, retry, lost>>

\* wg.Wait has seen the counter at zero; Drain returns.
DrainReturn(i) ==
  /\ inst[i] \in {"draining", "forced"}
  /\ \A w \in Workers : Home[w] = i => pc[w] \notin Counted
  /\ inst' = [inst EXCEPT ![i] = "drained"]
  /\ UNCHANGED <<row, seq, starts, pc, job, ctx, dir, retry, lost>>

-------------------------------------------------------------------------------
(* workerLoop                                                               *)

Goto(w, next) == pc' = [pc EXCEPT ![w] = next]

\* stopCh is closed: the loop returns.
Stop(w) ==
  /\ pc[w] = "poll" /\ inst[Home[w]] # "serving"
  /\ Goto(w, "exited")
  /\ UNCHANGED <<row, seq, procVars, job, ctx, dir, retry, lost>>

\* stopCh is open, and ClaimPendingExecution's SELECT finds a row.
Select(w) ==
  /\ pc[w] = "poll" /\ inst[Home[w]] = "serving"
  /\ \E k \in Key : OldestPending(k) /\ job' = [job EXCEPT ![w] = k]
  /\ Goto(w, "update")
  /\ UNCHANGED <<row, seq, procVars, ctx, dir, retry, lost>>

\* The conditional UPDATE of the claim and its commit: it takes the row only
\* if it is still pending; stopCh is not looked at again.
Claim(w) ==
  /\ pc[w] = "update"
  /\ IF StillPending(job[w])
     THEN /\ row' = [row EXCEPT ![job[w]].status = "running"]
          /\ Goto(w, "claimed")
          /\ UNCHANGED job
     ELSE /\ Goto(w, "poll")
          /\ job' = [job EXCEPT ![w] = NoKey]
          /\ UNCHANGED row
  /\ UNCHANGED <<seq, procVars, ctx, dir, retry, lost>>

\* The read of the claimed row fails after the commit: the worker waits and
\* polls again, and the row stays running with nobody to run it.
ClaimUnread(w) ==
  /\ pc[w] = "claimed"
  /\ lost < MaxLost /\ lost' = lost + 1
  /\ Goto(w, "poll")
  /\ job' = [job EXCEPT ![w] = NoKey]
  /\ UNCHANGED <<row, seq, procVars, ctx, dir, retry>>

\* wg.Add(1).
Count(w) ==
  /\ pc[w] = "claimed"
  /\ Goto(w, "counted")
  /\ UNCHANGED <<row, seq, procVars, job, ctx, dir, retry, lost>>

\* A new run context, put into cancels.
Register(w) ==
  /\ pc[w] = "counted"
  /\ ctx' = [ctx EXCEPT ![w] = "live"]
  /\ Goto(w, "begin")
  /\ UNCHANGED <<row, seq, procVars, job, dir, retry, lost>>

\* unregisterCancel and wg.Done, once the reporter has been told.
Release(w) ==
  /\ pc[w] = "report"
  /\ Goto(w, "poll")
  /\ job' = [job EXCEPT ![w] = NoKey]
  /\ UNCHANGED <<row, seq, procVars, ctx, dir, retry, lost>>

-------------------------------------------------------------------------------
(* run                                                                      *)

\* finish persists the terminal row under its own deadline, whatever the run
\* context; the error of that write is dropped, so the store may lose it.
Finish(w, status, retryable, error) ==
  /\ \/ UpdateExecution(job[w], status, retryable, error) /\ UNCHANGED lost
     \/ lost < MaxLost /\ lost' = lost + 1 /\ UNCHANGED storeVars
  /\ Goto(w, "report")
  /\ UNCHANGED <<procVars, job, ctx, retry>>

\* Every failure of the setup ends the run with no steps recorded.
FailSetup(w, error) == Finish(w, "failed", FALSE, error)

\* GetProject, then the first UpdateExecution.  The store call fails when the
\* context is canceled, and may fail when it is not.
Begin(w) ==
  /\ pc[w] = "begin"
  /\ \/ /\ ctx[w] = "live"
        /\ row' = [row EXCEPT ![job[w]].status = "running"]
        /\ Goto(w, "prepare")
        /\ UNCHANGED <<seq, procVars, job, ctx, retry, lost>>
     \/ FailSetup(w, "other")
  /\ UNCHANGED dir

Workspace(w) == row[job[w]].workspace

\* The source is in place: the run goes on to read its ci.yml.
Prepared(w) ==
  /\ dir' = [dir EXCEPT ![Workspace(w)] = "repo"]
  /\ Goto(w, "group")
  /\ UNCHANGED <<row, seq, procVars, job, ctx, retry, lost>>

\* A retry reuses the workspace of the previous attempt, if it is there.
Reuse(w) ==
  /\ pc[w] = "prepare" /\ row[job[w]].trigger = "retry"
  /\ IF dir[Workspace(w)] # "absent"
     THEN /\ Goto(w, "group")
          /\ UNCHANGED <<row, seq, procVars, job, ctx, retry, lost, dir>>
     ELSE FailSetup(w, "other") /\ UNCHANGED dir

\* git.Clone into a directory without a repository: it succeeds; the clone fails
\* and cleans up behind it; or a fetch or checkout after the clone fails.
CloneFresh(w) ==
  /\ pc[w] = "prepare"
  /\ row[job[w]].trigger = "origin" /\ row[job[w]].source = "git"
  /\ dir[Workspace(w)] # "repo"
  /\ \/ Prepared(w)
     \/ /\ FailSetup(w, "other")
        /\ \E left \in {"absent", "empty", "repo"} :
             dir' = [dir EXCEPT ![Workspace(w)] = left]

\* git.Clone into a directory that holds a repository is refused.  A branch
\* clone then removes the directory and tries the name as a tag, so only a tag
\* gets a second chance; commits and pull request refs leave it in place.
CloneOver(w) ==
  /\ pc[w] = "prepare"
  /\ row[job[w]].trigger = "origin" /\ row[job[w]].source = "git"
  /\ dir[Workspace(w)] = "repo"
  /\ \/ Prepared(w)
     \/ /\ FailSetup(w, "exists")
        /\ \E left \in {"absent", "repo"} :
             dir' = [dir EXCEPT ![Workspace(w)] = left]

\* A snapshot is unpacked over whatever the directory holds.
Extract(w) ==
  /\ pc[w] = "prepare" /\ row[job[w]].source = "snapshot"
  /\ \/ Prepared(w)
     \/ /\ FailSetup(w, "other")
        /\ \E left \in {dir[Workspace(w)], "repo"} :
             dir' = [dir EXCEPT ![Workspace(w)] = left]

\* ci.yml is read: it is unreadable, invalid or not allowed on this ref; or it
\* names no group, and the image is built; or it names a group, which the row
\* gets (unless the context is canceled and the write is not done).
ReadConfig(w) ==
  /\ pc[w] = "group"
  /\ \/ FailSetup(w, "other")
     \/ /\ Goto(w, "steps")
        /\ UNCHANGED <<row, seq, procVars, job, ctx, retry, lost>>
     \/ /\ ctx[w] = "live"
        /\ \E g \in Groups : row' = [row EXCEPT ![job[w]].group = g,
                                                ![job[w]].status = "running"]
        /\ Goto(w, "supersede")
        /\ UNCHANGED <<seq, procVars, job, ctx, retry, lost>>
  /\ UNCHANGED dir

\* CancelRunningInGroup, in its own statement after the group was written.
Supersede(w) ==
  /\ pc[w] = "supersede"
  /\ IF ctx[w] = "live" THEN CancelRunningInGroup(job[w], row[job[w]].group)
                        ELSE UNCHANGED storeVars
  /\ Goto(w, "build")
  /\ UNCHANGED <<procVars, job, ctx, dir, retry, lost>>

\* Notification, image build and push, sandbox, of a run in a group.
Build(w) ==
  /\ pc[w] = "build"
  /\ \/ FailSetup(w, "other")
     \/ /\ Goto(w, "steps")
        /\ UNCHANGED <<row, seq, procVars, job, ctx, retry, lost>>
  /\ UNCHANGED dir

\* The phases in which a goroutine of a step may call onStepUpdate.
EvenAfterSteps == {"steps", "report"}
WhileSteps     == {"steps"}

\* onStepUpdate writes the whole row, status running, while steps run.
StepUpdate(w) ==
  /\ pc[w] \in WhileSteps
  /\ \E r \in BOOLEAN : UpdateExecution(job[w], "running", r, "none")
  /\ UNCHANGED <<procVars, workerVars, dir, retry, lost>>

\* executeSteps returns: a canceled context wins over the steps' results.
EndSteps(w) ==
  /\ pc[w] = "steps"
  /\ IF ctx[w] = "canceled"
     THEN \E r \in BOOLEAN : Finish(w, "canceled", r, "none")
     ELSE \/ Finish(w, "success", FALSE, "none")
          \/ Finish(w, "failed", TRUE, "other")
  /\ UNCHANGED dir

-------------------------------------------------------------------------------
(* Requests                                                                 *)

Serving == \E i \in Instances : inst[i] = "serving"

\* Enqueue, EnqueueSnapshot, EnqueueRebuild: a new logical Execution.
Submit(p, src) ==
  /\ Serving
  /\ CreateExecution(p, FirstAttempt(NextKey(p), src))
  /\ UNCHANGED <<procVars, workerVars, dir, retry, lost>>

\* Cancel reads the latest attempt and then sets its flag; by then it may have
\* ended and been retried, so the flag can reach any row that exists.
RequestCancel(k) ==
  /\ Serving
  /\ Exists(k)
  /\ Cardinality({j \in Key : row[j].cancelRequested}) < MaxCancels
  /\ SetCancelRequested(k)
  /\ UNCHANGED <<procVars, workerVars, dir, retry, lost>>

\* What watchCancel polls: the flag of the row itself, not of its execution.
ExecutionFlagged(w) ==
  \E k \in Key : row[k].execution = row[job[w]].execution /\ row[k].cancelRequested
Flagged(w) == row[job[w]].cancelRequested

\* The run of a flagged row is canceled: by watchCancel's next tick, or at once
\* by Runner.Cancel when this instance runs it.
CancelRun(w) ==
  /\ pc[w] \in Registered /\ Flagged(w)
  /\ ctx' = [ctx EXCEPT ![w] = "canceled"]
  /\ UNCHANGED <<row, seq, procVars, pc, job, dir, retry, lost>>

RetryEnds(c) == retry' = [retry EXCEPT ![c] = NoRetry]

\* What may be retried: a git execution that failed at a step.
RetryableOnceEnded(k) == row[k].source = "git" /\ row[k].retryable
Retryable(k) ==
  row[k].source = "git" /\ row[k].status = "failed" /\ row[k].retryable

\* EnqueueRetry reads the latest attempt and decides on that copy.  Any other
\* request is refused.
RetryRead(c, k) ==
  /\ retry[c].pc = "idle" /\ inst[Home[c]] = "serving"
  /\ LatestAttempt(k) /\ Retryable(k)
  /\ retry' = [retry EXCEPT ![c] = [pc |-> "check", prev |-> k]]
  /\ UNCHANGED <<storeVars, procVars, workerVars, dir, lost>>

\* os.Stat of the workspace, then WorkspaceBusy.
RetryCheck(c) ==
  /\ retry[c].pc = "check"
  /\ LET ws == row[retry[c].prev].workspace IN
       IF dir[ws] # "absent" /\ ~WorkspaceBusy(ws)
       THEN retry' = [retry EXCEPT ![c].pc = "insert"]
       ELSE RetryEnds(c)
  /\ UNCHANGED <<storeVars, procVars, workerVars, dir, lost>>

\* The insert, which the unique index may still refuse.
RetryInsert(c) ==
  /\ retry[c].pc = "insert"
  /\ LET prev == retry[c].prev IN
       \/ CreateExecution(prev[1], NextAttempt(prev))
       \/ /\ ~UniqueIndexAllows(NextAttempt(prev))
          /\ UNCHANGED storeVars
  /\ RetryEnds(c)
  /\ UNCHANGED <<procVars, workerVars, dir, lost>>

-------------------------------------------------------------------------------
InstanceStep(i) == \/ StartInstance(i) \/ Crash(i) \/ Exit(i)
                   \/ BeginDrain(i) \/ DrainTimeout(i) \/ DrainReturn(i)

WorkerStep(w) == \/ Stop(w) \/ Select(w) \/ Claim(w) \/ ClaimUnread(w)
                 \/ Count(w) \/ Register(w)
                 \/ Begin(w) \/ Reuse(w) \/ CloneFresh(w) \/ CloneOver(w)
                 \/ Extract(w) \/ ReadConfig(w) \/ Supersede(w) \/ Build(w)
                 \/ StepUpdate(w) \/ EndSteps(w) \/ CancelRun(w) \/ Release(w)

CallerStep(c) == \/ \E k \in Key : RetryRead(c, k)
                 \/ RetryCheck(c) \/ RetryInsert(c)

Next ==
  \/ \E i \in Instances : InstanceStep(i)
  \/ \E w \in Workers : WorkerStep(w)
  \/ \E c \in Callers : CallerStep(c)
  \/ \E p \in Projects, src \in Sources : Submit(p, src)
  \/ \E k \in Key : RequestCancel(k)

Spec == Init /\ [][Next]_vars
===============================================================================
