----------------------------- MODULE StepExecutor -----------------------------
(***************************************************************************)
(* executeSteps: one goroutine per launched step, at most MaxParallel of   *)
(* them past the semaphore, sharing the results under a mutex.  The main   *)
(* goroutine launches the steps whose dependencies are done; afterwards a  *)
(* step that settles launches the dependents it has completed.  A failed   *)
(* execution is retried with the results of its successful steps carried   *)
(* over (carryOverSteps).                                                  *)
(*                                                                         *)
(* One action is one critical section, one call of onUpdate or one         *)
(* container.  Steps are known by name; `results' and `statuses' of the    *)
(* code are one variable, which it always assigns together.                *)
(*                                                                         *)
(* BlockedByFailure, NeverBlocked, AllSucceeded, NotCarried,               *)
(* NoRoutineRuns, NeverReleased and OneTryMore are faults the code does    *)
(* not have, for the mutation runs; no action uses them.                   *)
(***************************************************************************)
EXTENDS StepOrder, SequencesExt

CONSTANTS
  Workflows,    \* the workflows to run: the steps listed in ci.yml, what each
                \* depends on, and how often it is retried
  MaxParallel,  \* maxParallelSteps
  MaxAttempts,  \* bound: attempts of the execution
  MaxRoutines   \* bound: goroutines after which the launch loop repeats none

ASSUME StepExecutorAssumption ==
  /\ MaxParallel \in Nat \ {0} /\ MaxAttempts \in Nat \ {0}
  /\ \A w \in Workflows :
       /\ Len(w.listing) \in Nat \ {0} /\ DOMAIN w.listing = 1 .. Len(w.listing)
       /\ \A i, j \in DOMAIN w.listing : w.listing[i] = w.listing[j] => i = j
       /\ w.retry \in [Elements(w.listing) -> Nat]
       /\ DOMAIN w.deps = Elements(w.listing)
       /\ \A s \in DOMAIN w.deps : /\ Len(w.deps[s]) \in Nat
                                  /\ DOMAIN w.deps[s] = 1 .. Len(w.deps[s])

VARIABLES
  wf,         \* the workflow: [listing, deps, retry]
  attempt,    \* which attempt of the execution this is
  carry,      \* steps whose success was carried over
  main,       \* main goroutine: where it is and the next step it looks at
  routines,   \* the goroutines launched, in order
  results,    \* status of each settled step, "none" before
  progress,   \* the list shown to users
  persisted,  \* that list as last written by onStepUpdate
  failed, canceled,
  ctx,        \* the run context
  runs,       \* containers started per step in this attempt (auxiliary)
  twice       \* some step was launched twice (auxiliary)

shared == <<results, progress, failed, canceled>>
vars == <<wf, attempt, carry, main, routines, shared, persisted, ctx, runs, twice>>

Settled    == {"success", "failed", "skipped", "canceled"}
StepStatus == {"none", "pending", "running"} \cup Settled

Listing == wf.listing
Step    == Elements(Listing)
Deps(s) == Elements(wf.deps[s])

\* The children list has one entry for each time a depends_on names s: the place of
\* the step in the listing, and that of s in its depends_on.  The order of the list
\* does not matter, since every entry starts a goroutine.
Children(s) ==
  UNION {{i} \X {n \in DOMAIN wf.deps[Listing[i]] : wf.deps[Listing[i]][n] = s} :
           i \in DOMAIN Listing}

\* A step that is not to run: something it depends on did not succeed.
BlockedByFailure(s) == \E d \in Deps(s) : results[d] = "failed"
NeverBlocked(s)     == FALSE
Blocked(s)          == \E d \in Deps(s) : results[d] # "success"

\* Nothing s depends on is outstanding.
AllSucceeded(s, res) == \A d \in Deps(s) : res[d] = "success"
AllDone(s, res)      == \A d \in Deps(s) : res[d] # "none"

\* A step the launch loop passes over.
NotCarried(s) == FALSE
Carried(s)    == s \in carry

\* A goroutine is waiting for a slot; ready to run; announcing that it runs;
\* running containers; recording its result; reporting it; done.
Routine(s) == [step |-> s, pc |-> "waiting", res |-> "none", tries |-> 0,
               snapshot |-> <<>>, next |-> {}]

\* rs with a goroutine more for each step of seq.
Launch(rs, seq) ==
  /\ routines' = rs \o [i \in DOMAIN seq |-> Routine(seq[i])]
  /\ twice' = (twice \/ \E i, j \in DOMAIN routines' :
                 i # j /\ routines'[i].step = routines'[j].step)

NewAttempt(carried) ==
  /\ carry' = carried
  /\ main' = [pc |-> "plan", next |-> 1]
  /\ routines' = <<>>
  /\ results' = [s \in Step |-> "none"]
  /\ failed' = FALSE /\ canceled' = FALSE
  /\ runs' = [s \in Step |-> 0]

Init ==
  /\ wf \in Workflows
  /\ attempt = 1
  /\ carry = {}
  /\ main = [pc |-> "plan", next |-> 1]
  /\ routines = <<>>
  /\ results = [s \in Step |-> "none"]
  /\ progress = [s \in Step |-> "pending"]
  /\ persisted = [s \in Step |-> "pending"]
  /\ failed = FALSE /\ canceled = FALSE
  /\ ctx = "live"
  /\ runs = [s \in Step |-> 0]
  /\ twice = FALSE

-------------------------------------------------------------------------------
(* The main goroutine                                                       *)

\* No order: the result is one failed step, and nothing runs.
Reject ==
  /\ main.pc = "plan" /\ OrderSteps(Listing, wf.deps) = NoOrder
  /\ main' = [main EXCEPT !.pc = "rejected"]
  /\ failed' = TRUE
  /\ UNCHANGED <<wf, attempt, carry, routines, results, progress, canceled,
                 persisted, ctx, runs, twice>>

\* The carried results are filled in and shown.
Plan ==
  /\ main.pc = "plan" /\ OrderSteps(Listing, wf.deps) # NoOrder
  /\ results' = [s \in Step |-> IF s \in carry THEN "success" ELSE "none"]
  /\ progress' = [s \in Step |-> IF s \in carry THEN "success" ELSE "pending"]
  /\ persisted' = progress'
  /\ main' = [main EXCEPT !.pc = "launch"]
  /\ UNCHANGED <<wf, attempt, carry, routines, failed, canceled, ctx, runs, twice>>

\* The launch loop reads statuses without the mutex while steps already run: it
\* may see what they have written, or miss it.
LaunchLoop ==
  /\ main.pc = "launch"
  /\ LET s == Listing[main.next] IN
       \/ /\ ~Carried(s) /\ AllDone(s, results)
          /\ Len(routines) < MaxRoutines \/ \A g \in DOMAIN routines : routines[g].step # s
          /\ Launch(routines, <<s>>)
       \/ /\ Carried(s) \/ \E d \in Deps(s) : d \notin carry
          /\ UNCHANGED <<routines, twice>>
  /\ main' = IF main.next = Len(Listing) THEN [pc |-> "wait", next |-> 1]
             ELSE [main EXCEPT !.next = @ + 1]
  /\ UNCHANGED <<wf, attempt, carry, shared, persisted, ctx, runs>>

\* wg.Wait has nothing left to wait for.
NoRoutineRuns  == \A g \in DOMAIN routines : routines[g].pc # "exec"
NoRoutineLeft  == \A g \in DOMAIN routines : routines[g].pc = "done"

Return ==
  /\ main.pc = "wait" /\ NoRoutineLeft
  /\ main' = [main EXCEPT !.pc = "returned"]
  /\ UNCHANGED <<wf, attempt, carry, routines, shared, persisted, ctx, runs, twice>>

\* The status run() gives the execution.
Status == IF canceled \/ ctx = "canceled" THEN "canceled"
          ELSE IF failed THEN "failed" ELSE "success"

\* The next attempt of a failed execution, which EnqueueRetry grants when a step
\* failed or was skipped.
Retry ==
  /\ main.pc = "returned" /\ Status = "failed"
  /\ attempt < MaxAttempts
  /\ \E s \in Step : results[s] \in {"failed", "skipped"}
  /\ attempt' = attempt + 1
  /\ NewAttempt({s \in Step : results[s] = "success"})
  /\ progress' = [s \in Step |-> "pending"]
  /\ persisted' = [s \in Step |-> "pending"]
  /\ UNCHANGED <<wf, ctx, twice>>

\* The run is canceled, at any time.
CancelContext ==
  /\ ctx = "live" /\ main.pc \in {"plan", "launch", "wait"}
  /\ ctx' = "canceled"
  /\ UNCHANGED <<wf, attempt, carry, main, routines, shared, persisted, runs, twice>>

-------------------------------------------------------------------------------
(* The goroutine of a step                                                  *)

Goes(g, pc)     == routines' = [routines EXCEPT ![g].pc = pc]
Ends(g, status) == routines' = [routines EXCEPT ![g].pc = "record", ![g].res = status]
Unfinished == {"ready", "announce", "exec", "record", "report"}

\* The goroutines that hold a slot of the semaphore.
NeverReleased == {h \in DOMAIN routines : routines[h].pc # "waiting"}
Holders       == {h \in DOMAIN routines : routines[h].pc \in Unfinished}

\* A slot of the semaphore is taken, and held until the goroutine ends.  Under
\* the mutex, the step is then skipped unless all it depends on succeeded.
Start(g) ==
  /\ routines[g].pc = "waiting"
  /\ Cardinality(Holders) < MaxParallel
  /\ IF Blocked(routines[g].step)
     THEN Ends(g, "skipped")
     ELSE Goes(g, "ready")
  /\ UNCHANGED <<wf, attempt, carry, main, shared, persisted, ctx, runs, twice>>

\* The context is looked at; under the mutex, the step is shown as running.
Enter(g) ==
  /\ routines[g].pc = "ready"
  /\ IF ctx = "canceled"
     THEN /\ Ends(g, "canceled")
          /\ UNCHANGED progress
     ELSE /\ progress' = [progress EXCEPT ![routines[g].step] = "running"]
          /\ routines' = [routines EXCEPT ![g].pc = "announce", ![g].snapshot = progress']
  /\ UNCHANGED <<wf, attempt, carry, main, results, failed, canceled, persisted,
                 ctx, runs, twice>>

\* notify: the snapshot taken under the mutex is written outside it.
Announce(g) ==
  /\ routines[g].pc = "announce"
  /\ persisted' = routines[g].snapshot
  /\ routines' = [routines EXCEPT ![g].pc = "exec", ![g].snapshot = <<>>]
  /\ UNCHANGED <<wf, attempt, carry, main, shared, ctx, runs, twice>>

\* runStep cannot open the log file of the step: it fails without a container.
OpenLogFails(g) ==
  /\ routines[g].pc = "exec" /\ routines[g].tries = 0
  /\ Ends(g, "failed")
  /\ UNCHANGED <<wf, attempt, carry, main, shared, persisted, ctx, runs, twice>>

\* The step may be tried again.
OneTryMore(g) == routines[g].tries <= wf.retry[routines[g].step]
TriesLeft(g)  == routines[g].tries < wf.retry[routines[g].step]

\* runStep: a container runs; when it fails, the step is tried again while it
\* has retries left and the context is live.
RunContainer(g) ==
  /\ routines[g].pc = "exec"
  /\ LET s == routines[g].step IN
       /\ runs' = [runs EXCEPT ![s] = @ + 1]
       /\ \/ ctx = "live" /\ Ends(g, "success")
          \/ /\ ctx = "live" /\ TriesLeft(g)
             /\ routines' = [routines EXCEPT ![g].tries = @ + 1]
          \/ /\ ctx = "canceled" \/ ~TriesLeft(g)
             /\ Ends(g, "failed")
          \/ /\ ctx = "canceled"
             /\ Ends(g, "canceled")
  /\ UNCHANGED <<wf, attempt, carry, main, shared, persisted, ctx, twice>>

\* Under the mutex: the result is stored, and the dependents that have nothing
\* left to wait for are collected.
Record(g) ==
  /\ routines[g].pc = "record"
  /\ LET s == routines[g].step  res == routines[g].res IN
       /\ results' = [results EXCEPT ![s] = res]
       /\ progress' = [progress EXCEPT ![s] = res]
       /\ failed' = (failed \/ res = "failed")
       /\ canceled' = (canceled \/ res = "canceled")
       /\ routines' = [routines EXCEPT ![g].pc = "report", ![g].tries = 0,
                        ![g].snapshot = progress',
                        ![g].next = {c \in Children(s) : AllDone(Listing[c[1]], results')}]
  /\ UNCHANGED <<wf, attempt, carry, main, persisted, ctx, runs, twice>>

\* notify, outside the mutex; then the collected dependents are launched, and
\* the slot and the wait group released.
Report(g) ==
  /\ routines[g].pc = "report"
  /\ persisted' = routines[g].snapshot
  /\ LET next == SetToSeq(routines[g].next) IN
       Launch([routines EXCEPT ![g] = [Routine(@.step) EXCEPT !.pc = "done"]],
              [i \in DOMAIN next |-> Listing[next[i][1]]])
  /\ UNCHANGED <<wf, attempt, carry, main, shared, ctx, runs>>

-------------------------------------------------------------------------------
MainStep == Reject \/ Plan \/ LaunchLoop \/ Return

RoutineStep(g) ==
  \/ Start(g) \/ Enter(g) \/ Announce(g) \/ OpenLogFails(g)
  \/ RunContainer(g) \/ Record(g) \/ Report(g)

Next == \/ MainStep \/ Retry \/ CancelContext
        \/ \E g \in DOMAIN routines : RoutineStep(g)

Spec == Init /\ [][Next]_vars

\* Goroutines are scheduled and containers end (their timeout kills them);
\* nobody has to retry or cancel.
Fairness == WF_vars(MainStep) /\ WF_vars(\E g \in DOMAIN routines : RoutineStep(g))

FairSpec == Spec /\ Fairness
===============================================================================
