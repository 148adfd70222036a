---------------------------- MODULE StepProperties ----------------------------
(***************************************************************************)
(* What executeSteps must guarantee to run(), and the documentation's      *)
(* promises about steps.                                                   *)
(***************************************************************************)
EXTENDS StepExecutor

Snapshots == [Step -> StepStatus] \cup {<<>>}
Places    == SUBSET ((DOMAIN Listing) \X Nat)
Goroutine ==
  [step : Step, pc : {"waiting", "done"} \cup Unfinished, res : {"none"} \cup Settled,
   tries : Nat, snapshot : Snapshots, next : Places]

\* Every variable holds a value of its type.
TypeOK ==
  /\ wf \in Workflows
  /\ attempt \in 1 .. MaxAttempts
  /\ carry \subseteq Step
  /\ main \in [pc : {"plan", "launch", "wait", "returned", "rejected"},
               next : 1 .. Len(Listing)]
  /\ routines \in Seq(Goroutine)
  /\ \A g \in DOMAIN routines : routines[g].tries <= wf.retry[routines[g].step]
  /\ results \in [Step -> {"none"} \cup Settled]
  /\ progress \in [Step -> StepStatus] /\ persisted \in [Step -> StepStatus]
  /\ failed \in BOOLEAN /\ canceled \in BOOLEAN
  /\ ctx \in {"live", "canceled"}
  /\ runs \in [Step -> Nat]
  /\ twice \in BOOLEAN

\* executeSteps runs a workflow exactly when its dependencies are known and have
\* no cycle, and then in an order that respects them.
OrderedWhenAcyclic ==
  main.pc = "plan" =>
  LET order == OrderSteps(Listing, wf.deps) IN
    /\ TopologicalOrder(Listing, wf.deps, order) \/ order = NoOrder
    /\ order # NoOrder <=> /\ \A s \in Step : Deps(s) \subseteq Step
                           /\ Acyclic(Step, wf.deps)

\* When executeSteps returns, every step has a result, whatever failed, was
\* skipped or canceled, whoever launched it, and however stale the statuses the
\* launch loop read; and no failed step goes unreported.
EveryStepSettles ==
  main.pc = "returned" =>
    /\ \A s \in Step : results[s] # "none"
    /\ (\E s \in Step : results[s] = "failed") => failed

\* "a failed step skips its dependents" (docs/guide/workflows.md), and nothing
\* else skips a step: the results executeSteps returns agree with each other.
SkippedBehindFailure ==
  main.pc = "returned" /\ ~twice =>
    \A s \in Step : results[s] = "skipped" <=> \E d \in Deps(s) : results[d] # "success"

\* "`depends_on' controls ordering": while the containers of a step run, all it
\* depends on has succeeded and no container of these runs.
RunsBehindDeps ==
  ~twice => \A g \in DOMAIN routines : routines[g].pc = "exec" =>
    \A d \in Deps(routines[g].step) :
      /\ results[d] = "success"
      /\ \A h \in DOMAIN routines : routines[h].step = d => routines[h].pc # "exec"

\* A step that succeeded in an earlier attempt is not run again.
CarriedNotRerun == ~twice => \A s \in carry : runs[s] = 0

\* run() writes the terminal row after executeSteps: no goroutine is left to
\* overwrite it with status "running" through onStepUpdate.
QuietAfterReturn ==
  [][main.pc = "returned" /\ main'.pc = "returned"
       => UNCHANGED <<results, persisted, runs>>]_vars

\* executeSteps returns: no goroutine waits for a slot or a dependency for ever.
Returns == <>(main.pc \in {"returned", "rejected"})

-------------------------------------------------------------------------------
\* "`retry' is the number of additional attempts after the first failure"
\* (docs/guide/workflows.md): an attempt runs no step more often than that.
RunsWithinRetries == \A s \in Step : runs[s] <= wf.retry[s] + 1
===============================================================================
