-------------------------- MODULE CollectorProperties --------------------------
(***************************************************************************)
(* What the collector may take and what it must take.                      *)
(***************************************************************************)
EXTENDS Collector, RunnerProperties

\* Every variable holds a value of its type; as long as no call fails an attempt
\* has at most one sandbox, whatever crashes leave behind; and no workers are
\* drained before the root context is canceled.
CollectorTypeOK ==
  /\ TypeOK
  /\ aged \subseteq Key /\ logs \subseteq Key
  /\ upload \in [Key -> {"none", "fresh", "stale", "swept"}]
  /\ boxes \subseteq Box
  /\ failures = 0 => \A b, c \in boxes : b[1] = c[1] => b = c
  /\ box \in [Workers -> Box \cup {NoBox}]
  /\ \A i \in Instances :
       /\ sweep[i].at \in DOMAIN Rank
       /\ sweep[i].todo \cup sweep[i].doomed
            \subseteq IF sweep[i].at = "boxes" THEN Box ELSE Key
  /\ closing \subseteq Instances
  /\ \A i \in Instances : inst[i] \in {"draining", "forced"} => i \in closing
  /\ failures \in 0 .. MaxFailures /\ unsafe \in BOOLEAN

\* A run finds its source in place from the clone to the end of its steps: the
\* collector does not take the workspace of an attempt that is queued or runs,
\* whichever attempt of the execution made it and however long ago that ended.
RunsKeepWorkspace ==
  \A w \in Workers : pc[w] \in UsingDir \ {"prepare"} => dir[Workspace(w)] # "absent"

\* It holds as long as no query of a sweep fails and no retry is accepted for a
\* workspace a sweep has already found expired.
RunsHaveWorkspace == ~unsafe => RunsKeepWorkspace

\* A run's log directory stays while the run writes to it.
RunsHaveLogs == ~unsafe => \A w \in Workers : pc[w] \in UsingDir => job[w] \in logs

\* The sandbox of a run is not taken by a sweep, which may have found an older
\* sandbox of the same attempt to be orphaned just before the run began.
RunsHaveSandbox ==
  \A w \in Workers : pc[w] = "steps" /\ box[w] # NoBox => box[w] \in boxes

\* Until a snapshot run has ended its archive is there, unless it waited for
\* longer than the retention: a run that is interrupted and requeued finds it.
UploadOutlivesRun ==
  lost = 0 => \A k \in Key : row[k].status \in Active /\ row[k].source = "snapshot"
                               => upload[k] # "none"

-------------------------------------------------------------------------------
(* Liveness, of which RunsEnd, DrainReturns and CancelEnds speak as well.    *)
(* Goroutines are scheduled, timers fire (the poll for cancellations, the    *)
(* limits of Shutdown and Drain), a supervisor starts a process that is      *)
(* down, and the collectors run on.  Users, crashes, signals and lost calls  *)
(* are not fair.                                                             *)

FairCollectorSpec ==
  /\ CollectorSpec
  /\ \A w \in Workers : /\ WF_allVars(Advance(w) /\ Follow)
                        /\ WF_allVars(CancelRun(w) /\ Follow)
  /\ \A i \in Instances : /\ WF_allVars(StartInstance(i) /\ Follow)
                          /\ WF_allVars(Exit(i) /\ Follow)
                          /\ WF_allVars(BeginDrain(i) /\ Follow)
                          /\ WF_allVars(DrainTimeout(i) /\ Follow)
                          /\ WF_allVars(DrainReturn(i) /\ Follow)
                          /\ WF_allVars(Sweep(i))
  /\ \A k \in Key : WF_allVars(AgeRow(k)) /\ WF_allVars(AgeUpload(k))

\* Once the runs are over nothing stays behind: not the workspace of a clone cut
\* short, not the sandbox or the archive of a run that was interrupted.
Clean == /\ \A k \in Key : dir[k] = "absent" /\ upload[k] \in {"none", "swept"}
         /\ logs = {} /\ boxes = {}

StepsEndHere == \A w \in Workers : WF_allVars(EndSteps(w) /\ Follow)

NothingLeaks == StepsEndHere => <>[](Clean \/ lost # 0)

-------------------------------------------------------------------------------
\* "it removes finished workspaces and logs older than `-gc-keep'"
\* (docs/guide/configuration.md): so no sweep takes the workspace of a run.
OnlyFinishedSwept == RunsKeepWorkspace
===============================================================================
