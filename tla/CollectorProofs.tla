---------------------------- MODULE CollectorProofs ----------------------------
(***************************************************************************)
(* The collector and the runs, when one process serves the database, for   *)
(* every number of projects, rows, workers, crashes, lost writes, failures *)
(* and sandboxes.                                                          *)
(*                                                                         *)
(* A sweep decides on one thing and then removes it, so the invariant must *)
(* say what a decision is still worth when it is acted on.  For workspaces *)
(* it is what the store keeps for ever: a row that has ended stays ended.  *)
(* For sandboxes it is not: a row found not running may be claimed before  *)
(* the removal.  There it is the identity of a sandbox that saves the run: *)
(* the daemon gives no sandbox a name that a sweep still remembers.        *)
(***************************************************************************)
EXTENDS CollectorProperties, RunnerProofs

-------------------------------------------------------------------------------
(* The invariant                                                            *)

SweepState == [at     : DOMAIN Rank,
               todo   : SUBSET (Key \cup Box),
               doomed : SUBSET (Key \cup Box)]

KeptTypes ==
  /\ aged \subseteq Key /\ logs \subseteq Key
  /\ upload \in [Key -> {"none", "fresh", "stale", "swept"}]
  /\ boxes \subseteq Box
  /\ box \in [Workers -> Box \cup {NoBox}]
  /\ sweep \in [Instances -> SweepState]
  /\ closing \subseteq Instances
  /\ failures \in 0 .. MaxFailures /\ unsafe \in BOOLEAN

SweepsTheirOwn ==
  \A i \in Instances : sweep[i].todo \cup sweep[i].doomed
                         \subseteq IF sweep[i].at = "boxes" THEN Box ELSE Key

OneBoxEach == failures = 0 => \A b, c \in boxes : b[1] = c[1] => b = c

ClosedFirst == \A i \in Instances : inst[i] \in {"draining", "forced"} => i \in closing

\* A row that is older than the retention has ended, and so have all in a
\* workspace that a sweep has found expired.
AgedEnded == \A k \in aged : row[k].status \in Terminal

DoomedEnded ==
  ~unsafe => \A i \in Instances, k \in Key :
               /\ sweep[i].at = "repos" /\ Exists(k)
               /\ row[k].workspace \in sweep[i].doomed
               => row[k].status \in Terminal

ReportedEnded ==
  \A w \in Workers : pc[w] = "report" =>
    job[w] \in Key /\ (lost = 0 => row[job[w]].status \in Terminal)

FilesInv == /\ AgedEnded /\ DoomedEnded /\ ReportedEnded
            /\ RunsHaveWorkspace /\ RunsHaveLogs /\ UploadOutlivesRun

\* A worker has the sandbox of the attempt it runs, and no other worker has it.
BoxesHeld ==
  \A w \in Workers : box[w] # NoBox => pc[w] \in {"steps", "report"} /\ box[w][1] = job[w]

BoxesDistinct ==
  \A v, w \in Workers : v # w /\ box[v] # NoBox => box[v] # box[w]

\* No run works in a sandbox that a sweep is about to remove.
DoomedUnused ==
  \A i \in Instances, w \in Workers :
    sweep[i].at = "boxes" /\ pc[w] = "steps" => box[w] \notin sweep[i].doomed

BoxesInv == BoxesHeld /\ BoxesDistinct /\ DoomedUnused /\ RunsHaveSandbox

Typed == KeptTypes /\ SweepsTheirOwn /\ OneBoxEach /\ ClosedFirst

KeptInv == Typed /\ FilesInv /\ BoxesInv

CollectorInv == SafetyInv /\ KeptInv

LEMMA Stages == DOMAIN Rank = {"idle", "repos", "logs", "uploads", "boxes"}
  BY DEF Rank

-------------------------------------------------------------------------------
(* What a step of the runner may do, seen from the collector.               *)

Same(v) == pc'[v] = pc[v] /\ job'[v] = job[v]

\* A claim, a step of the run, or its end.
Claims(v) == pc[v] = "update" /\ pc'[v] = "claimed" /\ row[job[v]].status = "pending"
Forward(v) ==
  \/ pc[v] \in {"claimed", "counted"} /\ pc'[v] \in {"counted", "begin"}
  \/ pc[v] = "begin" /\ pc'[v] = "prepare"
  \/ pc[v] = "prepare" /\ pc'[v] = "group"
  \/ pc[v] \in {"group", "supersede", "build"} /\ pc'[v] \in {"supersede", "build", "steps"}
Ends(v) ==
  /\ pc[v] \in InRun /\ pc'[v] = "report"
  /\ lost' = 0 => row'[job[v]].status \in Terminal
Leaves(v) == /\ pc[v] \notin InRun
             /\ pc'[v] \in {"exited", "poll", "update"}
             /\ pc[v] = "report" => pc'[v] = "poll"

Moved(v) == \/ Same(v)
            \/ job'[v] = job[v] /\ (Claims(v) \/ Forward(v) \/ Ends(v))
            \/ Leaves(v)

WorkerMoves(w) == Moved(w) /\ \A v \in Workers \ {w} : Same(v)

\* Everything stops, or starts.
Halts  == \A v \in Workers : pc'[v] = "off"
Begins == \A v \in Workers : pc[v] = "off" /\ pc'[v] = "poll"

LEMMA FinishMoves ==
  ASSUME SafetyInv, NEW w \in Workers, pc[w] \in InRun, NEW status \in Terminal,
         NEW r \in BOOLEAN, NEW error \in {"none", "exists", "other"},
         Finish(w, status, r, error)
  PROVE  WorkerMoves(w)
  <1>1. /\ pc' = [pc EXCEPT ![w] = "report"] /\ pc \in [Workers -> WorkerState] /\ job' = job
        /\ lost \in Nat /\ row \in [Key -> Row] /\ pc[w] \in Owning
    BY RunnerAssumption
       DEF Finish, Goto, SafetyInv, TypeInv, TypeOK, StoreTypeOK, Owning
  <1>2. job[w] \in Key
    BY <1>1 DEF SafetyInv, WorkerInv, OwnersHaveRow
  <1>3. lost' = 0 => row'[job[w]].status \in Terminal
    <2>1. CASE UpdateExecution(job[w], status, r, error)
      BY <1>1, <1>2, <2>1 DEF UpdateExecution, Row
    <2>2. CASE lost' = lost + 1
      BY <1>1, <2>2
    <2> QED
      BY <2>1, <2>2 DEF Finish
  <1> QED
    BY <1>1, <1>3 DEF WorkerMoves, Moved, Ends, Same

LEMMA WorkerStepMoves ==
  ASSUME SafetyInv, NEW w \in Workers, WorkerStep(w)
  PROVE  WorkerMoves(w)
  <1>1. /\ pc \in [Workers -> WorkerState] /\ job \in [Workers -> Key \cup {NoKey}]
    BY DEF SafetyInv, TypeInv, TypeOK
  <1>2. CASE Stop(w) \/ Select(w) \/ Release(w) \/ ClaimUnread(w)
    BY <1>1, <1>2
       DEF Stop, Select, Release, ClaimUnread, Goto, WorkerMoves, Moved, Same, Leaves, InRun
  <1>3. CASE Claim(w)
    BY <1>1, <1>3
       DEF Claim, StillPending, Goto, WorkerMoves, Moved, Same, Leaves, Claims, InRun
  <1>4. CASE Count(w) \/ Register(w) \/ CancelRun(w) \/ StepUpdate(w)
    BY <1>1, <1>4
       DEF Count, Register, CancelRun, StepUpdate, Goto, WorkerMoves, Moved, Same, Forward,
           workerVars
  <1>5. ASSUME NEW error \in {"none", "exists", "other"}, pc[w] \in InRun, FailSetup(w, error)
        PROVE  WorkerMoves(w)
    BY <1>5, FinishMoves DEF FailSetup, Terminal
  <1>6. CASE Begin(w)
    BY <1>1, <1>5, <1>6 DEF Begin, Goto, WorkerMoves, Moved, Same, Forward, InRun
  <1>7. CASE Reuse(w) \/ CloneFresh(w) \/ CloneOver(w) \/ Extract(w)
    <2>1. pc[w] = "prepare" /\ pc[w] \in InRun
      BY <1>7 DEF Reuse, CloneFresh, CloneOver, Extract, InRun
    <2>2. CASE Goto(w, "group") /\ job' = job
      BY <1>1, <2>1, <2>2 DEF Goto, WorkerMoves, Moved, Same, Forward
    <2>3. CASE FailSetup(w, "other") \/ FailSetup(w, "exists")
      BY <1>5, <2>1, <2>3
    <2> QED
      BY <1>7, <2>2, <2>3 DEF Reuse, CloneFresh, CloneOver, Extract, Prepared
  <1>8. CASE ReadConfig(w) \/ Supersede(w) \/ Build(w)
    <2>1. pc[w] \in {"group", "supersede", "build"} /\ pc[w] \in InRun
      BY <1>8 DEF ReadConfig, Supersede, Build, InRun
    <2>2. CASE (Goto(w, "steps") \/ Goto(w, "supersede") \/ Goto(w, "build")) /\ job' = job
      BY <1>1, <2>1, <2>2 DEF Goto, WorkerMoves, Moved, Same, Forward
    <2>3. CASE FailSetup(w, "other")
      BY <1>5, <2>1, <2>3
    <2> QED
      BY <1>8, <2>2, <2>3 DEF ReadConfig, Supersede, Build
  <1>9. CASE EndSteps(w)
    BY <1>9, FinishMoves DEF EndSteps, InRun, Terminal
  <1> QED
    BY <1>2, <1>3, <1>4, <1>6, <1>7, <1>8, <1>9 DEF WorkerStep

LEMMA InstanceMoves ==
  ASSUME OneInstance, SafetyInv, NEW i \in Instances, InstanceStep(i)
  PROVE  (\A v \in Workers : Same(v)) \/ Halts \/ Begins
  <1>1. /\ pc \in [Workers -> WorkerState] /\ job \in [Workers -> Key \cup {NoKey}]
        /\ \A v \in Workers : Home[v] = i
    BY RunnerAssumption DEF SafetyInv, TypeInv, TypeOK, OneInstance
  <1>2. CASE StartInstance(i)
    BY <1>1, <1>2 DEF StartInstance, Begins, SafetyInv, WorkerInv, DownMeansOff
  <1>3. CASE Crash(i) \/ Exit(i)
    BY <1>1, <1>3 DEF Crash, Exit, ProcessEnds, Halts
  <1>4. CASE BeginDrain(i) \/ DrainTimeout(i) \/ DrainReturn(i)
    BY <1>1, <1>4 DEF BeginDrain, DrainTimeout, DrainReturn, Same
  <1> QED
    BY <1>2, <1>3, <1>4 DEF InstanceStep

LEMMA NextMoves ==
  ASSUME OneInstance, SafetyInv, Next
  PROVE  \/ \A v \in Workers : Same(v)
         \/ \E w \in Workers : WorkerMoves(w)
         \/ Halts
         \/ Begins
  <1>1. ASSUME \/ \E c \in Callers : CallerStep(c)
               \/ \E p \in Projects, src \in Sources : Submit(p, src)
               \/ \E k \in Key : RequestCancel(k)
        PROVE  \A v \in Workers : Same(v)
    BY <1>1 DEF CallerStep, RetryRead, RetryCheck, RetryInsert, Submit, RequestCancel,
                workerVars, Same
  <1> QED
    BY <1>1, WorkerStepMoves, InstanceMoves DEF Next

\* Rows keep where they work and how they got their source, and end once.
LEMMA RowsKept ==
  ASSUME SafetyInv, [Next]_vars, NEW k \in Key, Exists(k)
  PROVE  /\ row'[k].status # "none"
         /\ row'[k].workspace = row[k].workspace /\ row'[k].source = row[k].source
         /\ row[k].status \in Terminal => row'[k].status \in Terminal
  <1>1. CASE Progress
    BY <1>1 DEF Progress, SameIdentity, StatusMoves, Exists, Active, Terminal
  <1>2. ASSUME NEW p \in Projects, NEW r \in Row, Insertion(p, r)
        PROVE  row'[k] = row[k]
    BY <1>2, CreateInserts DEF Insertion
  <1> QED
    BY <1>1, <1>2, StoreStep DEF Exists

\* The row of a run exists, is running, and works in a directory of its own.
LEMMA HeldRow ==
  ASSUME SafetyInv, NEW w \in Workers, pc[w] \in Owning
  PROVE  /\ job[w] \in Key /\ Exists(job[w]) /\ row[job[w]].status = "running"
         /\ Workspace(w) \in Key /\ Holds(w, job[w])
  BY DEF SafetyInv, WorkerInv, OwnersHaveRow, Ownership, HeldRowsRun, Holds, Exists,
         StoreInv, RowsBelong, Workspace

\* A clone is prepared, or removed, by the worker that prepares it.
LEMMA DirMoves ==
  ASSUME SafetyInv, Next
  PROVE  /\ \A k \in Key : dir'[k] = "absent" =>
              \/ dir[k] = "absent"
              \/ \E w \in Workers : pc[w] = "prepare" /\ Workspace(w) = k
         /\ \A w \in Workers : pc[w] = "prepare" /\ pc'[w] = "group"
              => dir'[Workspace(w)] # "absent"
  <1>1. /\ pc \in [Workers -> WorkerState] /\ dir \in [Key -> {"absent", "empty", "repo"}]
    BY DEF SafetyInv, TypeInv, TypeOK
  <1>2. CASE dir' = dir /\ pc' = pc
    BY <1>2
  <1>3. ASSUME NEW i \in Instances, InstanceStep(i)
        PROVE  /\ \A k \in Key : dir'[k] = "absent" => dir[k] = "absent"
               /\ \A w \in Workers : pc'[w] # "group" \/ pc'[w] = pc[w]
    <2>1. CASE Crash(i) \/ Exit(i)
      BY <1>1, <2>1 DEF Crash, Exit, ProcessEnds, CutShort
    <2> QED
      BY <1>1, <1>3, <2>1
         DEF InstanceStep, StartInstance, BeginDrain, DrainTimeout, DrainReturn
  <1>4. ASSUME NEW w \in Workers, WorkerStep(w)
        PROVE  /\ \/ dir' = dir
                  \/ pc[w] = "prepare" /\ \E left : dir' = [dir EXCEPT ![Workspace(w)] = left]
               /\ \A v \in Workers \ {w} : pc'[v] = pc[v]
               /\ pc[w] = "prepare" /\ pc'[w] = "group" => dir'[Workspace(w)] # "absent"
    <2>1. \A v \in Workers \ {w} : pc'[v] = pc[v]
      BY <1>4, WorkerStepMoves DEF WorkerMoves, Same
    <2>2. ASSUME NEW error, FailSetup(w, error)
          PROVE  pc'[w] = "report"
      BY <1>1, <2>2 DEF FailSetup, Finish, Goto
    <2>3. CASE Reuse(w)
      BY <1>1, <2>1, <2>2, <2>3 DEF Reuse
    <2>4. CASE CloneFresh(w) \/ CloneOver(w) \/ Extract(w)
      <3>1. pc[w] = "prepare" /\ Workspace(w) \in Key
        BY <2>4, HeldRow DEF CloneFresh, CloneOver, Extract, Owning, InRun
      <3>2. CASE Prepared(w)
        BY <1>1, <2>1, <3>1, <3>2 DEF Prepared
      <3>3. CASE /\ FailSetup(w, "other") \/ FailSetup(w, "exists")
                 /\ \E left : dir' = [dir EXCEPT ![Workspace(w)] = left]
        BY <2>1, <2>2, <3>1, <3>3
      <3>4. CASE CloneFresh(w)
        BY <3>2, <3>3, <3>4 DEF CloneFresh
      <3>5. CASE CloneOver(w)
        BY <3>2, <3>3, <3>5 DEF CloneOver
      <3>6. CASE Extract(w)
        BY <3>2, <3>3, <3>6 DEF Extract
      <3> QED
        BY <2>4, <3>4, <3>5, <3>6
    <2>5. CASE CancelRun(w)
      BY <2>1, <2>5 DEF CancelRun
    <2>6. CASE /\ pc[w] # "prepare"
               /\ \/ Stop(w) \/ Select(w) \/ Claim(w) \/ ClaimUnread(w) \/ Count(w)
                  \/ Register(w) \/ Begin(w) \/ ReadConfig(w) \/ Supersede(w) \/ Build(w)
                  \/ StepUpdate(w) \/ EndSteps(w) \/ Release(w)
      <3>1. dir' = dir
        BY <2>6 DEF Stop, Select, Claim, ClaimUnread, Count, Register, Begin, ReadConfig,
                    Supersede, Build, StepUpdate, EndSteps, Release
      <3> QED
        BY <2>1, <2>6, <3>1
    <2> QED
      BY <1>4, <2>3, <2>4, <2>5, <2>6
         DEF WorkerStep, Stop, Select, Claim, ClaimUnread, Count, Register, Begin, ReadConfig,
             Supersede, Build, StepUpdate, WhileSteps, EndSteps, Release
  <1>5. ASSUME \/ \E q \in Callers : CallerStep(q)
               \/ \E p \in Projects, src \in Sources : Submit(p, src)
               \/ \E k \in Key : RequestCancel(k)
        PROVE  dir' = dir /\ pc' = pc
    BY <1>5 DEF CallerStep, RetryRead, RetryCheck, RetryInsert, Submit, RequestCancel,
                workerVars
  <1>6. ASSUME NEW w \in Workers, WorkerStep(w), NEW k \in Key,
               dir'[k] = "absent", dir[k] # "absent"
        PROVE  pc[w] = "prepare" /\ Workspace(w) = k
    <2>1. PICK left : pc[w] = "prepare" /\ dir' = [dir EXCEPT ![Workspace(w)] = left]
      BY <1>4, <1>6
    <2> QED
      BY <1>1, <1>6, <2>1
  <1>7. ASSUME NEW w \in Workers, pc[w] = "prepare", pc'[w] = "group",
               NEW v \in Workers, WorkerStep(v)
        PROVE  dir'[Workspace(w)] # "absent"
    BY <1>4, <1>7
  <1> QED
    BY <1>2, <1>3, <1>5, <1>6, <1>7 DEF Next

-------------------------------------------------------------------------------
(* The steps of the collector                                               *)

LEMMA SweepAside ==
  ASSUME SafetyInv, NEW x, dir' = [dir EXCEPT ![x] = "absent"],
         UNCHANGED <<row, seq, inst, starts, pc, job, ctx, retry, lost>>
  PROVE  SafetyInv'
  <1>1. TypeInv'
    BY DEF SafetyInv, TypeInv, TypeOK, RetriesHaveRow, StoreTypeOK
  <1>3. StoreInv'
    BY UnchangedProgress, ProgressKeepsStore DEF SafetyInv, TypeInv, TypeOK
  <1>4. RetriesBehindFailure'
    BY DEF SafetyInv, RetriesBehindFailure
  <1>5. WorkerInv'
    BY DEF SafetyInv, WorkerInv, DownMeansOff, OwnersHaveRow, Ownership, ClaimIsExclusive,
           HeldRowsRun, NoOrphans, Holds
  <1> QED
    BY <1>1, <1>3, <1>4, <1>5 DEF SafetyInv

\* What a sweep may do: go on, doom something, drop what it doomed.
LEMMA SweepsSafely ==
  ASSUME SafetyInv, NEW i \in Instances, Sweep(i)
  PROVE  SafetyInv' /\ UNCHANGED <<row, seq, inst, starts, pc, job, ctx, retry, lost>>
  <1>1. CASE RemoveWorkspace(i)
    BY <1>1, SweepAside DEF RemoveWorkspace, procVars, workerVars
  <1>2. CASE UNCHANGED vars
    <2>1. SafetyInv'
      BY <1>2
         DEF vars, SafetyInv, TypeInv, TypeOK, RetriesHaveRow, StoreTypeOK, StoreInv,
             RowsNumbered, RowsBelong, AttemptsUnique, AttemptsContiguous, AttemptsBounded,
             SupersededAttemptsFailed, SameExecution, Exists, RetriesBehindFailure, WorkerInv,
             DownMeansOff, OwnersHaveRow, Ownership, ClaimIsExclusive, HeldRowsRun, NoOrphans,
             Holds
    <2> QED
      BY <1>2, <2>1 DEF vars
  <1> QED
    BY <1>1, <1>2
       DEF Sweep, NextStage, AskWorkspace, CleanupLogs, CleanupUploads, AskSandbox,
           RemoveSandbox

-------------------------------------------------------------------------------
(* Types                                                                    *)

LEMMA CallFailsTyped ==
  ASSUME KeptTypes, CallFails \/ UNCHANGED failures
  PROVE  failures' \in 0 .. MaxFailures /\ (failures' = 0 => failures = 0)
  BY CollectorAssumption DEF KeptTypes, CallFails

\* A sandbox that is made is one of its attempt that nobody remembers.
LEMMA NewTyped ==
  ASSUME SafetyInv, NEW w \in Workers, pc[w] \in {"group", "build"}, NEW b \in New(w)
  PROVE  b \in Box /\ b[1] = job[w] /\ b # NoBox /\ ~Known(b)
  <1>1. job[w] \in Key
    BY HeldRow DEF Owning, InRun
  <1> QED
    BY <1>1, CollectorAssumption DEF New, Box

LEMMA DrainsBehindCancel ==
  ASSUME SafetyInv, ClosedFirst, Next, ClosingFollows
  PROVE  ClosedFirst'
  <1>1. inst \in [Instances -> InstanceState]
    BY DEF SafetyInv, TypeInv, TypeOK
  <1>2. CASE inst' = inst
    BY <1>2 DEF ClosedFirst, ClosingFollows
  <1>3. ASSUME NEW i \in Instances, InstanceStep(i)
        PROVE  \A j \in Instances : inst'[j] = "forced" => inst[j] \in {"draining", "forced"}
    BY <1>1, <1>3
       DEF InstanceStep, StartInstance, Crash, Exit, ProcessEnds, BeginDrain, DrainTimeout,
           DrainReturn
  <1>4. ASSUME NEW w \in Workers, WorkerStep(w)
        PROVE  inst' = inst
    BY <1>4
       DEF WorkerStep, Stop, Select, Claim, ClaimUnread, Count, Register, Begin, Reuse,
           CloneFresh, CloneOver, Extract, ReadConfig, Supersede, Build, StepUpdate,
           EndSteps, CancelRun, Release, Prepared, FailSetup, Finish, procVars
  <1>5. ASSUME \/ \E c \in Callers : CallerStep(c)
               \/ \E p \in Projects, src \in Sources : Submit(p, src)
               \/ \E k \in Key : RequestCancel(k)
        PROVE  inst' = inst
    BY <1>5 DEF CallerStep, RetryRead, RetryCheck, RetryInsert, Submit, RequestCancel, procVars
  <1>6. ASSUME NEW i \in Instances, InstanceStep(i)
        PROVE  ClosedFirst'
    BY <1>3, <1>6 DEF ClosedFirst, ClosingFollows
  <1> QED
    BY <1>2, <1>4, <1>5, <1>6 DEF Next

LEMMA FollowTyped ==
  ASSUME OneInstance, SafetyInv, Typed, Next, Follow
  PROVE  Typed'
  <1> USE DEF Typed, KeptTypes, Follow
  <1>1. upload' \in [Key -> {"none", "fresh", "stale", "swept"}]
    BY DEF UploadFollows
  <1>2. logs' \subseteq Key /\ aged' \subseteq Key
    BY DEF LogsFollow
  <1>3. sweep' \in [Instances -> SweepState] /\ SweepsTheirOwn'
    <2>1. Idle \in SweepState /\ Idle.todo = {} /\ Idle.doomed = {}
      BY Stages DEF Idle, SweepState
    <2>2. \A i \in Instances : sweep'[i] = Idle \/ sweep'[i] = sweep[i]
      BY DEF SweepFollows
    <2> QED
      BY <2>1, <2>2 DEF SweepFollows, SweepsTheirOwn
  <1>4. unsafe' \in BOOLEAN
    BY DEF UnsafeFollows
  <1>5. /\ boxes' \subseteq Box /\ box' \in [Workers -> Box \cup {NoBox}]
        /\ failures' \in 0 .. MaxFailures /\ OneBoxEach'
    <2>1. CASE NoSandbox
      BY <2>1 DEF NoSandbox, OneBoxEach
    <2>2. ASSUME NEW w \in Workers, pc[w] \in {"group", "build"},
                 NEW b \in New(w), NEW gone \in SUBSET Stale(w),
                 boxes' = (boxes \ gone) \cup {b},
                 CallFails \/ (UNCHANGED failures /\ gone = Stale(w))
          PROVE  boxes' \subseteq Box /\ failures' \in 0 .. MaxFailures /\ OneBoxEach'
      <3>1. b \in Box /\ b[1] = job[w]
        BY <2>2, NewTyped
      <3>2. CASE CallFails
        <4>1. failures' \in 0 .. MaxFailures /\ failures' # 0
          BY <3>2, CollectorAssumption DEF CallFails
        <4> QED
          BY <2>2, <3>1, <4>1 DEF OneBoxEach
      <3>3. CASE UNCHANGED failures /\ gone = Stale(w)
        BY <2>2, <3>1, <3>3 DEF OneBoxEach, Stale
      <3> QED
        BY <2>2, <3>2, <3>3
    <2>3. ASSUME NEW w \in Workers, StartSandbox(w)
          PROVE  <1>5!:
      <3>1. PICK b \in New(w), gone \in SUBSET Stale(w) :
              /\ box' = [box EXCEPT ![w] = b] /\ boxes' = (boxes \ gone) \cup {b}
              /\ (CallFails \/ (UNCHANGED failures /\ gone = Stale(w)))
        BY <2>3 DEF StartSandbox
      <3>2. pc[w] \in {"group", "build"}
        BY <2>3 DEF StartSandbox, Enters
      <3> QED
        BY <2>2, <3>1, <3>2, NewTyped
    <2>4. ASSUME NEW w \in Workers, LeaveSandbox(w)
          PROVE  <1>5!:
      <3>1. pc[w] \in {"group", "build"} /\ box' \in [Workers -> Box \cup {NoBox}]
        BY <2>4 DEF LeaveSandbox, Enters
      <3>2. CASE boxes' \subseteq boxes /\ UNCHANGED failures
        BY <3>1, <3>2 DEF OneBoxEach
      <3>3. ASSUME NEW b \in New(w), NEW gone \in SUBSET Stale(w),
                   boxes' = (boxes \ gone) \cup {b},
                   CallFails \/ (UNCHANGED failures /\ gone = Stale(w))
            PROVE  <1>5!:
        BY <2>2, <3>1, <3>3
      <3> QED
        BY <2>4, <3>2, <3>3 DEF LeaveSandbox
    <2>5. ASSUME NEW w \in Workers, StopSandbox(w)
          PROVE  <1>5!:
      <3>1. boxes' \subseteq boxes /\ box' \in [Workers -> Box \cup {NoBox}]
            /\ (CallFails \/ UNCHANGED failures)
        BY <2>5 DEF StopSandbox
      <3> QED
        BY <3>1, CallFailsTyped DEF OneBoxEach
    <2> QED
      BY <2>1, <2>3, <2>4, <2>5 DEF SandboxFollows
  <1>6. closing' \subseteq Instances /\ ClosedFirst'
    BY DrainsBehindCancel DEF ClosingFollows
  <1> QED
    BY <1>1, <1>2, <1>3, <1>4, <1>5, <1>6

LEMMA DoomTyped ==
  ASSUME KeptTypes, SweepsTheirOwn, NEW i \in Instances, NEW x, NEW doomed,
         Doom(i, x, doomed),
         doomed \subseteq IF sweep[i].at = "boxes" THEN Box ELSE Key
  PROVE  sweep' \in [Instances -> SweepState] /\ SweepsTheirOwn'
  <1> DEFINE next == [sweep[i] EXCEPT !.todo = @ \ {x}, !.doomed = doomed]
  <1>1. sweep' = [sweep EXCEPT ![i] = next] /\ sweep \in [Instances -> SweepState]
    BY DEF KeptTypes, Doom
  <1>2. /\ next \in SweepState /\ next.at = sweep[i].at
        /\ next.todo \subseteq sweep[i].todo /\ next.doomed = doomed
    BY <1>1 DEF SweepState
  <1> QED
    BY <1>1, <1>2 DEF SweepsTheirOwn

LEMMA SweepTyped ==
  ASSUME Typed, SafetyInv, NEW i \in Instances, Sweep(i)
  PROVE  Typed'
  <1> USE DEF Typed, KeptTypes
  <1>0. closing' = closing /\ ClosedFirst'
    BY SweepsSafely
       DEF Sweep, NextStage, AskWorkspace, RemoveWorkspace, CleanupLogs, CleanupUploads,
           AskSandbox, RemoveSandbox, ClosedFirst
  <1>f. ASSUME QueryFails(i)
        PROVE  failures' \in 0 .. MaxFailures /\ (failures' = 0 => failures = 0)
    BY <1>f, CallFailsTyped DEF QueryFails
  <1>1. CASE NextStage(i)
    <2>1. PICK s \in SweepState : /\ sweep' = [sweep EXCEPT ![i] = s]
                                  /\ s.todo \cup s.doomed \subseteq IF s.at = "boxes" THEN Box ELSE Key
      <3>1. CASE sweep' = [sweep EXCEPT ![i] = Idle]
        <4>1. Idle \in SweepState /\ Idle.todo = {} /\ Idle.doomed = {}
          BY Stages DEF Idle, SweepState
        <4> QED
          BY <3>1, <4>1
      <3>2. ASSUME NEW s \in DOMAIN Rank,
                   sweep' = [sweep EXCEPT ![i].at = s, ![i].todo = Listed(s)]
            PROVE  \E t \in SweepState :
                     /\ sweep' = [sweep EXCEPT ![i] = t]
                     /\ t.todo \cup t.doomed \subseteq IF t.at = "boxes" THEN Box ELSE Key
        <4> DEFINE t == [sweep[i] EXCEPT !.at = s, !.todo = Listed(s)]
        <4>1. Listed(s) \subseteq IF s = "boxes" THEN Box ELSE Key
          BY Stages DEF Listed
        <4>2. sweep[i] \in SweepState /\ sweep[i].doomed = {}
          BY <1>1 DEF NextStage
        <4>3. t \in SweepState /\ t.at = s /\ t.todo = Listed(s) /\ t.doomed = {}
          BY <4>1, <4>2 DEF SweepState
        <4>4. sweep' = [sweep EXCEPT ![i] = t]
          BY <3>2
        <4> QED
          BY <4>1, <4>3, <4>4
      <3> QED
        BY <1>1, <3>1, <3>2 DEF NextStage
    <2>2. sweep' \in [Instances -> SweepState] /\ SweepsTheirOwn'
      BY <2>1 DEF SweepsTheirOwn
    <2> QED
      BY <1>1, <1>0, <2>2 DEF NextStage, keptVars, OneBoxEach
  <1>2. CASE AskWorkspace(i)
    <2>1. PICK k \in sweep[i].todo : Doom(i, k, {k}) \/ Doom(i, k, {})
      BY <1>2 DEF AskWorkspace
    <2>2. k \in Key /\ sweep[i].at = "repos"
      BY <1>2 DEF AskWorkspace, SweepsTheirOwn
    <2>3. sweep' \in [Instances -> SweepState] /\ SweepsTheirOwn'
      BY <2>1, <2>2, DoomTyped
    <2> QED
      BY <1>2, <1>0, <1>f, <2>3 DEF AskWorkspace, OneBoxEach
  <1>3. CASE RemoveWorkspace(i)
    <2>1. sweep' \in [Instances -> SweepState] /\ SweepsTheirOwn'
      BY <1>3, DoomTyped DEF RemoveWorkspace
    <2> QED
      BY <1>3, <1>0, <2>1 DEF RemoveWorkspace, keptVars, OneBoxEach
  <1>4. CASE CleanupLogs(i)
    <2>1. PICK k \in sweep[i].todo : Doom(i, k, {})
      BY <1>4 DEF CleanupLogs
    <2>2. sweep' \in [Instances -> SweepState] /\ SweepsTheirOwn'
      BY <2>1, DoomTyped
    <2> QED
      BY <1>4, <1>0, <1>f, <2>2 DEF CleanupLogs, OneBoxEach
  <1>5. CASE CleanupUploads(i)
    <2>1. sweep' = [sweep EXCEPT ![i].todo = {}]
      BY <1>5 DEF CleanupUploads
    <2>2. sweep' \in [Instances -> SweepState] /\ SweepsTheirOwn'
      BY <2>1 DEF SweepState, SweepsTheirOwn
    <2> QED
      BY <1>5, <1>0, <2>2 DEF CleanupUploads, OneBoxEach
  <1>6. CASE AskSandbox(i)
    <2>1. PICK b \in sweep[i].todo : Doom(i, b, {b}) \/ Doom(i, b, {})
      BY <1>6 DEF AskSandbox
    <2>2. b \in Box /\ sweep[i].at = "boxes"
      BY <1>6 DEF AskSandbox, SweepsTheirOwn
    <2>3. sweep' \in [Instances -> SweepState] /\ SweepsTheirOwn'
      BY <2>1, <2>2, DoomTyped
    <2> QED
      BY <1>6, <1>0, <1>f, <2>3 DEF AskSandbox, OneBoxEach
  <1>7. CASE RemoveSandbox(i)
    <2>1. PICK b \in sweep[i].doomed : Doom(i, b, {})
      BY <1>7 DEF RemoveSandbox
    <2>2. sweep' \in [Instances -> SweepState] /\ SweepsTheirOwn'
      BY <2>1, DoomTyped
    <2>3. boxes' \subseteq boxes
      BY <1>7 DEF RemoveSandbox
    <2> QED
      BY <1>7, <1>0, <1>f, <2>2, <2>3 DEF RemoveSandbox, OneBoxEach
  <1> QED
    BY <1>1, <1>2, <1>3, <1>4, <1>5, <1>6, <1>7 DEF Sweep

-------------------------------------------------------------------------------
(* Workspaces, logs and uploads                                             *)

LEMMA LostGrows ==
  ASSUME SafetyInv, Next, lost' = 0
  PROVE  lost = 0
  <1>1. lost \in Nat
    BY RunnerAssumption DEF SafetyInv, TypeInv, TypeOK
  <1>2. lost' = lost \/ lost' = lost + 1
    <2>1. ASSUME NEW i \in Instances, InstanceStep(i)
          PROVE  lost' = lost \/ lost' = lost + 1
      BY <2>1 DEF InstanceStep, StartInstance, Recover, Crash, Exit, ProcessEnds, BeginDrain,
                  DrainTimeout, DrainReturn
    <2>2. ASSUME NEW w \in Workers, WorkerStep(w)
          PROVE  lost' = lost \/ lost' = lost + 1
      BY <2>2
         DEF WorkerStep, Stop, Select, Claim, ClaimUnread, Count, Register, Begin, Reuse,
             CloneFresh, CloneOver, Extract, ReadConfig, Supersede, Build, StepUpdate,
             EndSteps, CancelRun, Release, Prepared, FailSetup, Finish
    <2>3. ASSUME \/ \E c \in Callers : CallerStep(c)
                 \/ \E p \in Projects, src \in Sources : Submit(p, src)
                 \/ \E k \in Key : RequestCancel(k)
          PROVE  lost' = lost
      BY <2>3 DEF CallerStep, RetryRead, RetryCheck, RetryInsert, Submit, RequestCancel
    <2> QED
      BY <2>1, <2>2, <2>3 DEF Next
  <1> QED
    BY <1>1, <1>2

\* A worker that uses its directory has just begun to, or did so before.
LEMMA RunsGoOn ==
  ASSUME OneInstance, SafetyInv, Next, NEW w \in Workers, pc'[w] \in UsingDir
  PROVE  /\ job'[w] = job[w] /\ pc[w] \in Owning
         /\ \/ pc'[w] = pc[w]
            \/ pc[w] = "begin" /\ pc'[w] = "prepare"
            \/ pc[w] = "prepare" /\ pc'[w] = "group"
            \/ /\ pc[w] \in {"group", "supersede", "build"}
               /\ pc'[w] \in {"supersede", "build", "steps"}
  BY NextMoves
     DEF WorkerMoves, Moved, Same, Claims, Forward, Ends, Leaves, Halts, Begins, UsingDir,
         Owning, InRun

LEMMA FollowFiles ==
  ASSUME OneInstance, SafetyInv, Typed, FilesInv, Next, Follow
  PROVE  FilesInv'
  <1>u. ~unsafe' => ~unsafe
    BY DEF Follow, UnsafeFollows
  <1>1. AgedEnded'
    BY RowsKept DEF Follow, FilesInv, AgedEnded, Typed, KeptTypes, Exists, Terminal
  <1>2. DoomedEnded'
    <2> SUFFICES ASSUME ~unsafe', NEW i \in Instances, NEW k \in Key,
                        sweep'[i].at = "repos", Exists(k)',
                        row'[k].workspace \in sweep'[i].doomed
                 PROVE  row'[k].status \in Terminal
      BY DEF DoomedEnded
    <2>1. sweep'[i] = sweep[i]
      BY DEF Follow, SweepFollows, Idle
    <2>2. Exists(k)
      BY <2>1 DEF Follow, UnsafeFollows, Submitted, Exists
    <2> QED
      BY <1>u, <2>1, <2>2, RowsKept DEF FilesInv, DoomedEnded
  <1>3. ReportedEnded'
    <2> SUFFICES ASSUME NEW w \in Workers, pc'[w] = "report"
                 PROVE  job'[w] \in Key /\ (lost' = 0 => row'[job'[w]].status \in Terminal)
      BY DEF ReportedEnded
    <2>1. CASE Same(w)
      <3>1. job[w] \in Key /\ (lost = 0 => row[job[w]].status \in Terminal)
        BY <2>1 DEF FilesInv, ReportedEnded, Same
      <3>2. lost = 0 => row'[job[w]].status \in Terminal
        BY <3>1, RowsKept DEF Exists, Terminal
      <3> QED
        BY <2>1, <3>1, <3>2, LostGrows DEF Same
    <2>2. CASE job'[w] = job[w] /\ Ends(w)
      BY <2>2, HeldRow DEF Ends, Owning
    <2> QED
      BY <2>1, <2>2, NextMoves
         DEF WorkerMoves, Moved, Claims, Forward, Leaves, Halts, Begins
  <1>4. RunsHaveWorkspace'
    <2> SUFFICES ASSUME ~unsafe', NEW w \in Workers, pc'[w] \in UsingDir \ {"prepare"}
                 PROVE  dir'[row'[job'[w]].workspace] # "absent"
      BY DEF RunsHaveWorkspace, RunsKeepWorkspace, Workspace
    <2>1. /\ job'[w] = job[w] /\ Exists(job[w]) /\ job[w] \in Key /\ Workspace(w) \in Key
      BY RunsGoOn, HeldRow
    <2>2. row'[job'[w]].workspace = Workspace(w)
      BY <2>1, RowsKept DEF Workspace
    <2>3. CASE pc[w] = "prepare"
      BY <2>2, <2>3, RunsGoOn, DirMoves
    <2>4. CASE pc[w] \in UsingDir \ {"prepare"}
      <3>1. dir[Workspace(w)] # "absent"
        BY <1>u, <2>4 DEF FilesInv, RunsHaveWorkspace, RunsKeepWorkspace
      <3>2. ASSUME NEW v \in Workers, pc[v] = "prepare"
            PROVE  Workspace(v) # Workspace(w)
        BY <2>4, <3>2, WorkspaceOfOne DEF OneRunPerWorkspace, UsingDir, InRun
      <3> QED
        BY <2>1, <2>2, <3>1, <3>2, DirMoves
    <2> QED
      BY <2>3, <2>4, RunsGoOn DEF UsingDir, InRun
  <1>5. RunsHaveLogs'
    <2> SUFFICES ASSUME ~unsafe', NEW w \in Workers, pc'[w] \in UsingDir
                 PROVE  job'[w] \in logs'
      BY DEF RunsHaveLogs
    <2>1. CASE pc[w] \in UsingDir
      BY <1>u, <2>1, RunsGoOn DEF FilesInv, RunsHaveLogs, Follow, LogsFollow
    <2>2. CASE Enters(w, {"begin"}, "prepare")
      BY <2>2, RunsGoOn, HeldRow DEF Follow, LogsFollow
    <2> QED
      BY <2>1, <2>2, RunsGoOn DEF UsingDir, InRun, Enters
  <1>6. UploadOutlivesRun'
    <2> SUFFICES ASSUME lost' = 0, NEW k \in Key, row'[k].status \in Active,
                        row'[k].source = "snapshot"
                 PROVE  upload'[k] # "none"
      BY DEF UploadOutlivesRun
    <2>1. CASE ~Exists(k)
      BY <2>1 DEF Follow, UploadFollows, Submitted, Exists, Active
    <2>2. CASE Exists(k)
      <3>1. row[k].status \in Active /\ row[k].source = "snapshot"
        BY <2>2, RowsKept
           DEF Exists, Active, Terminal, Status, Row, SafetyInv, TypeInv, TypeOK, StoreTypeOK
      <3>2. ASSUME NEW w \in Workers, job[w] = k, DroppedAtEnd(w)
            PROVE  FALSE
        BY <3>1, <3>2, LostGrows
           DEF DroppedAtEnd, Enters, FilesInv, ReportedEnded, Active, Terminal
      <3>3. upload[k] # "none"
        BY <3>1, LostGrows DEF FilesInv, UploadOutlivesRun
      <3> QED
        BY <3>2, <3>3 DEF Follow, UploadFollows
    <2> QED
      BY <2>1, <2>2
  <1> QED
    BY <1>1, <1>2, <1>3, <1>4, <1>5, <1>6 DEF FilesInv

LEMMA SweepFiles ==
  ASSUME SafetyInv, Typed, FilesInv, NEW i \in Instances, Sweep(i)
  PROVE  FilesInv'
  <1>s. UNCHANGED <<row, seq, inst, starts, pc, job, ctx, retry, lost>>
    BY SweepsSafely
  <1>0. /\ sweep \in [Instances -> SweepState] /\ logs \subseteq Key
        /\ upload \in [Key -> {"none", "fresh", "stale", "swept"}]
        /\ dir \in [Key -> {"absent", "empty", "repo"}] /\ unsafe \in BOOLEAN
    BY DEF Typed, KeptTypes, SafetyInv, TypeInv, TypeOK
  <1>u. ~unsafe' => ~unsafe /\ (i \in closing => UNCHANGED logs)
    BY DEF Sweep, NextStage, AskWorkspace, RemoveWorkspace, CleanupLogs, CleanupUploads,
           AskSandbox, RemoveSandbox, keptVars
  <1>1. AgedEnded' /\ ReportedEnded'
    <2>1. aged' = aged
      BY DEF Sweep, NextStage, AskWorkspace, RemoveWorkspace, CleanupLogs, CleanupUploads,
             AskSandbox, RemoveSandbox, keptVars
    <2> QED
      BY <1>s, <2>1 DEF FilesInv, AgedEnded, ReportedEnded
  <1>2. DoomedEnded'
    <2> SUFFICES ASSUME ~unsafe', NEW j \in Instances, NEW k \in Key, Exists(k),
                        sweep'[j].at = "repos", row[k].workspace \in sweep'[j].doomed
                 PROVE  row[k].status \in Terminal
      BY <1>s DEF DoomedEnded, Exists
    <2>1. ASSUME sweep[j].at = "repos", row[k].workspace \in sweep[j].doomed
          PROVE  row[k].status \in Terminal
      BY <1>u, <2>1 DEF FilesInv, DoomedEnded
    <2>2. CASE AskWorkspace(i)
      <3>1. PICK x \in sweep[i].todo : Doom(i, x, IF Retained(x) THEN {} ELSE {x})
        BY <2>2 DEF AskWorkspace
      <3>2. CASE j = i
        <4>1. sweep'[i].doomed = IF Retained(x) THEN {} ELSE {x}
          BY <1>0, <3>1 DEF Doom, SweepState
        <4>2. row[k].workspace = x /\ ~Retained(x)
          BY <3>2, <4>1
        <4> QED
          BY <4>2 DEF Retained, FilesInv, AgedEnded
      <3>3. CASE j # i
        BY <1>0, <2>1, <3>1, <3>3 DEF Doom
      <3> QED
        BY <3>2, <3>3
    <2>3. CASE NextStage(i)
      <3>1. CASE j = i
        <4>1. sweep'[i].doomed = {}
          <5>1. CASE sweep' = [sweep EXCEPT ![i] = Idle]
            BY <1>0, <5>1 DEF Idle
          <5>2. ASSUME NEW s, sweep' = [sweep EXCEPT ![i].at = s, ![i].todo = Listed(s)]
                PROVE  sweep'[i].doomed = {}
            <6>1. sweep[i] \in SweepState /\ sweep[i].doomed = {}
              BY <1>0, <2>3 DEF NextStage
            <6>2. sweep'[i] = [sweep[i] EXCEPT !.at = s, !.todo = Listed(s)]
              BY <1>0, <5>2
            <6> QED
              BY <6>1, <6>2 DEF SweepState
          <5> QED
            BY <2>3, <5>1, <5>2 DEF NextStage
        <4> QED
          BY <3>1, <4>1
      <3>2. CASE j # i
        BY <1>0, <2>1, <2>3, <3>2 DEF NextStage
      <3> QED
        BY <3>1, <3>2
    <2>4. CASE CleanupUploads(i)
      BY <1>0, <2>1, <2>4 DEF CleanupUploads, SweepState
    <2>5. CASE RemoveWorkspace(i) \/ CleanupLogs(i) \/ AskSandbox(i) \/ RemoveSandbox(i)
      <3>1. PICK x, doomed : /\ Doom(i, x, doomed)
                             /\ sweep[i].at = "boxes" \/ doomed = {}
        BY <2>5 DEF RemoveWorkspace, CleanupLogs, AskSandbox, RemoveSandbox
      <3>2. /\ sweep'[i].at = sweep[i].at /\ sweep'[i].doomed = doomed
            /\ \A h \in Instances \ {i} : sweep'[h] = sweep[h]
        BY <1>0, <3>1 DEF Doom, SweepState
      <3> QED
        BY <2>1, <3>1, <3>2
    <2> QED
      BY <2>2, <2>3, <2>4, <2>5 DEF Sweep
  <1>3. RunsHaveWorkspace'
    <2> SUFFICES ASSUME ~unsafe', NEW w \in Workers, pc[w] \in UsingDir \ {"prepare"}
                 PROVE  dir'[Workspace(w)] # "absent"
      BY <1>s DEF RunsHaveWorkspace, RunsKeepWorkspace, Workspace
    <2>1. dir[Workspace(w)] # "absent"
      BY <1>u DEF FilesInv, RunsHaveWorkspace, RunsKeepWorkspace
    <2>2. CASE RemoveWorkspace(i)
      <3>1. PICK k \in sweep[i].doomed : dir' = [dir EXCEPT ![k] = "absent"]
        BY <2>2 DEF RemoveWorkspace
      <3>2. /\ job[w] \in Key /\ Exists(job[w]) /\ row[job[w]].status = "running"
            /\ Workspace(w) \in Key
        BY HeldRow DEF UsingDir, Owning
      <3>3. Workspace(w) # k
        BY <1>u, <2>2, <3>1, <3>2
           DEF RemoveWorkspace, FilesInv, DoomedEnded, Workspace, Terminal
      <3> QED
        BY <1>0, <2>1, <3>1, <3>2, <3>3
    <2>3. CASE dir' = dir
      BY <2>1, <2>3
    <2> QED
      BY <2>2, <2>3 DEF Sweep, NextStage, AskWorkspace, CleanupLogs, CleanupUploads,
                        AskSandbox, RemoveSandbox, vars
  <1>4. RunsHaveLogs'
    <2> SUFFICES ASSUME ~unsafe', NEW w \in Workers, pc[w] \in UsingDir
                 PROVE  job[w] \in logs'
      BY <1>s DEF RunsHaveLogs
    <2>1. job[w] \in logs
      BY <1>u DEF FilesInv, RunsHaveLogs
    <2>2. CASE CleanupLogs(i)
      <3>1. \A k \in logs \ logs' : k \in aged
        BY <1>0, <2>2 DEF CleanupLogs, Expired
      <3>2. row[job[w]].status = "running"
        BY HeldRow DEF UsingDir, Owning
      <3> QED
        BY <2>1, <3>1, <3>2 DEF FilesInv, AgedEnded, Terminal
    <2>3. CASE logs' = logs
      BY <2>1, <2>3
    <2> QED
      BY <2>2, <2>3 DEF Sweep, NextStage, AskWorkspace, RemoveWorkspace, CleanupUploads,
                        AskSandbox, RemoveSandbox, keptVars
  <1>5. UploadOutlivesRun'
    <2>1. \A k \in Key : upload'[k] = "none" => upload[k] = "none"
      BY <1>0 DEF Sweep, NextStage, AskWorkspace, RemoveWorkspace, CleanupLogs,
                  CleanupUploads, AskSandbox, RemoveSandbox, keptVars
    <2> QED
      BY <1>s, <2>1 DEF FilesInv, UploadOutlivesRun
  <1> QED
    BY <1>1, <1>2, <1>3, <1>4, <1>5 DEF FilesInv

-------------------------------------------------------------------------------
(* Sandboxes                                                                *)

LEMMA SweptOrIdle ==
  ASSUME Follow, NEW i \in Instances, sweep'[i].at = "boxes"
  PROVE  sweep'[i] = sweep[i]
  BY DEF Follow, SweepFollows, Idle

LEMMA BeginBoxes ==
  ASSUME Typed, BoxesInv, Follow, Begins
  PROVE  BoxesInv'
  <1>1. \A w \in Workers : box[w] = NoBox /\ pc[w] = "off" /\ pc'[w] = "poll"
    BY DEF BoxesInv, BoxesHeld, Begins
  <1>2. NoSandbox
    BY <1>1 DEF Follow, SandboxFollows, StartSandbox, LeaveSandbox, StopSandbox, Enters
  <1>3. \A w \in Workers : box'[w] = NoBox
    BY <1>1, <1>2 DEF NoSandbox
  <1> QED
    BY <1>1, <1>3 DEF BoxesInv, BoxesHeld, BoxesDistinct, DoomedUnused, RunsHaveSandbox

LEMMA HaltBoxes ==
  ASSUME Follow, Halts
  PROVE  BoxesInv'
  <1>1. \A w \in Workers : box'[w] = NoBox /\ pc'[w] = "off"
    BY DEF Halts, Follow, SandboxFollows, NoSandbox, StartSandbox, LeaveSandbox, StopSandbox,
           Enters
  <1> QED
    BY <1>1 DEF BoxesInv, BoxesHeld, BoxesDistinct, DoomedUnused, RunsHaveSandbox

\* The steps in which workers move, one at a time.
OneMoves == /\ \A v \in Workers : Moved(v)
            /\ \A v, w \in Workers : v # w => Same(v) \/ Same(w)

\* The doomed sandboxes of a sweep are among those it doomed before the step.
LEMMA DoomedKept ==
  ASSUME Typed, Follow, NEW i \in Instances, sweep'[i].at = "boxes"
  PROVE  /\ sweep[i].at = "boxes" /\ sweep'[i].doomed = sweep[i].doomed
         /\ NoBox \notin sweep[i].doomed /\ sweep[i].doomed \subseteq Box
  <1>1. sweep[i].at = "boxes" /\ sweep'[i].doomed = sweep[i].doomed
    BY SweptOrIdle
  <1> QED
    BY <1>1, CollectorAssumption DEF Typed, SweepsTheirOwn, Box

LEMMA QuietBoxes ==
  ASSUME Typed, BoxesInv, Follow, OneMoves, NoSandbox
  PROVE  BoxesInv'
  <1>1. \A w \in Workers : pc'[w] # "off" => box'[w] = box[w]
    BY DEF NoSandbox, Typed, KeptTypes
  <1>2. ASSUME NEW w \in Workers, box'[w] # NoBox
        PROVE  /\ box[w] = box'[w] /\ job'[w] = job[w] /\ box[w][1] = job[w]
               /\ pc'[w] \in {"steps", "report"} /\ pc[w] \in {"steps", "report"}
    <2>1. box[w] = box'[w] /\ pc'[w] # "off"
      BY <1>2 DEF NoSandbox, Typed, KeptTypes
    <2>2. pc[w] \in {"steps", "report"} /\ box[w][1] = job[w]
      BY <1>2, <2>1 DEF BoxesInv, BoxesHeld
    <2>3. ~Enters(w, {"report"}, "poll")
      BY <1>2, <2>1 DEF NoSandbox
    <2> QED
      BY <2>1, <2>2, <2>3
         DEF OneMoves, Moved, Same, Claims, Forward, Ends, Leaves, InRun, Enters
  <1>3. BoxesHeld' /\ BoxesDistinct'
    BY <1>2 DEF BoxesInv, BoxesHeld, BoxesDistinct
  <1>4. DoomedUnused'
    BY <1>2, DoomedKept DEF BoxesInv, DoomedUnused, Moved, OneMoves, Same, Ends, Claims, Leaves,
                            Forward, BoxesHeld
  <1>5. RunsHaveSandbox'
    BY <1>2 DEF BoxesInv, RunsHaveSandbox, NoSandbox, OneMoves, Moved, Same, Claims, Forward,
                Ends, Leaves
  <1> QED
    BY <1>3, <1>4, <1>5 DEF BoxesInv

\* What a worker leaves behind or removes of its attempt touches no other run.
LEMMA OthersBoxes ==
  ASSUME SafetyInv, BoxesInv, NEW w \in Workers, pc[w] \in {"group", "build"},
         NEW v \in Workers, v # w, pc[v] = "steps", box[v] # NoBox
  PROVE  box[v] \in boxes \ Stale(w)
  <1>1. box[v] \in boxes /\ box[v][1] = job[v]
    BY DEF BoxesInv, RunsHaveSandbox, BoxesHeld
  <1>2. \A u \in Workers \ {w} : ~Holds(u, job[w])
    BY HeldRow DEF Owning, InRun, SafetyInv, WorkerInv, Ownership, ClaimIsExclusive
  <1>3. job[v] # job[w]
    BY <1>2 DEF Holds, Owning, InRun
  <1> QED
    BY <1>1, <1>3 DEF Stale

LEMMA StartBoxes ==
  ASSUME SafetyInv, Typed, BoxesInv, Follow, OneMoves, NEW w \in Workers, StartSandbox(w)
  PROVE  BoxesInv'
  <1>1. /\ pc[w] \in {"group", "build"} /\ pc'[w] = "steps" /\ job'[w] = job[w]
        /\ \A v \in Workers \ {w} : Same(v)
    BY DEF StartSandbox, Enters, OneMoves, Moved, Same, Claims, Forward, Ends, Leaves
  <1>2. PICK new \in New(w), gone \in SUBSET Stale(w) :
          box' = [box EXCEPT ![w] = new] /\ boxes' = (boxes \ gone) \cup {new}
    BY DEF StartSandbox
  <1>3. /\ new \in Box /\ new[1] = job[w] /\ new # NoBox /\ ~Known(new)
        /\ box \in [Workers -> Box \cup {NoBox}]
    BY <1>1, NewTyped DEF Typed, KeptTypes
  <1>4. BoxesHeld'
    BY <1>1, <1>2, <1>3 DEF BoxesInv, BoxesHeld, Same
  <1>5. BoxesDistinct'
    BY <1>2, <1>3 DEF BoxesInv, BoxesDistinct, Known
  <1>6. DoomedUnused'
    <2> SUFFICES ASSUME NEW i \in Instances, NEW v \in Workers, sweep'[i].at = "boxes",
                        pc'[v] = "steps"
                 PROVE  box'[v] \notin sweep'[i].doomed
      BY DEF DoomedUnused
    <2>1. sweep[i].at = "boxes" /\ sweep'[i].doomed = sweep[i].doomed
      BY DoomedKept
    <2>2. CASE v = w
      BY <1>2, <1>3, <2>1, <2>2 DEF Known
    <2>3. CASE v # w
      BY <1>1, <1>2, <1>3, <2>1, <2>3 DEF Same, BoxesInv, DoomedUnused
    <2> QED
      BY <2>2, <2>3
  <1>7. RunsHaveSandbox'
    BY <1>1, <1>2, <1>3, OthersBoxes DEF RunsHaveSandbox, Same
  <1> QED
    BY <1>4, <1>5, <1>6, <1>7 DEF BoxesInv

LEMMA LeaveBoxes ==
  ASSUME SafetyInv, Typed, BoxesInv, Follow, OneMoves, NEW w \in Workers, LeaveSandbox(w)
  PROVE  BoxesInv'
  <1>1. /\ pc[w] \in {"group", "build"} /\ pc'[w] = "report" /\ job'[w] = job[w]
        /\ \A v \in Workers \ {w} : Same(v)
    BY DEF LeaveSandbox, Enters, OneMoves, Moved, Same, Claims, Forward, Ends, Leaves
  <1>2. \A v \in Workers : box'[v] # NoBox =>
          v # w /\ box'[v] = box[v] /\ pc'[v] = pc[v] /\ job'[v] = job[v]
    BY <1>1 DEF LeaveSandbox, BoxesInv, BoxesHeld, Same
  <1>3. BoxesHeld' /\ BoxesDistinct'
    BY <1>2 DEF BoxesInv, BoxesHeld, BoxesDistinct
  <1>4. DoomedUnused'
    BY <1>2, DoomedKept DEF BoxesInv, DoomedUnused
  <1>5. RunsHaveSandbox'
    <2>1. boxes \ Stale(w) \subseteq boxes'
      BY DEF LeaveSandbox
    <2> QED
      BY <1>1, <1>2, <2>1, OthersBoxes DEF RunsHaveSandbox
  <1> QED
    BY <1>3, <1>4, <1>5 DEF BoxesInv

LEMMA StopBoxes ==
  ASSUME Typed, BoxesInv, Follow, OneMoves, NEW w \in Workers, StopSandbox(w)
  PROVE  BoxesInv'
  <1>1. /\ pc[w] = "report" /\ pc'[w] = "poll" /\ box[w] # NoBox
        /\ \A v \in Workers \ {w} : Same(v)
    BY DEF StopSandbox, Enters, OneMoves, Same
  <1>2. /\ box' = [box EXCEPT ![w] = NoBox] /\ box \in [Workers -> Box \cup {NoBox}]
        /\ boxes' \subseteq boxes /\ boxes \ {box[w]} \subseteq boxes'
    BY DEF StopSandbox, Typed, KeptTypes
  <1>3. BoxesHeld' /\ BoxesDistinct'
    BY <1>1, <1>2 DEF BoxesInv, BoxesHeld, BoxesDistinct, Same
  <1>4. DoomedUnused'
    BY <1>1, <1>2, DoomedKept DEF BoxesInv, DoomedUnused, Same
  <1>5. RunsHaveSandbox'
    BY <1>1, <1>2 DEF BoxesInv, RunsHaveSandbox, BoxesDistinct, Same
  <1> QED
    BY <1>3, <1>4, <1>5 DEF BoxesInv

LEMMA FollowBoxes ==
  ASSUME OneInstance, SafetyInv, Typed, BoxesInv, Next, Follow
  PROVE  BoxesInv'
  <1>1. CASE OneMoves
    BY <1>1, QuietBoxes, StartBoxes, LeaveBoxes, StopBoxes DEF Follow, SandboxFollows
  <1>2. ASSUME \/ \A v \in Workers : Same(v)
               \/ \E w \in Workers : WorkerMoves(w)
        PROVE  OneMoves
    BY <1>2 DEF OneMoves, WorkerMoves, Moved
  <1> QED
    BY <1>1, <1>2, NextMoves, BeginBoxes, HaltBoxes

LEMMA DoomShows ==
  ASSUME Typed, NEW i \in Instances, NEW x, NEW doomed, Doom(i, x, doomed)
  PROVE  /\ sweep'[i].at = sweep[i].at /\ sweep'[i].doomed = doomed
         /\ sweep'[i].todo = sweep[i].todo \ {x}
         /\ \A j \in Instances \ {i} : sweep'[j] = sweep[j]
  BY DEF Doom, Typed, KeptTypes, SweepState

LEMMA StageShows ==
  ASSUME Typed, NEW i \in Instances, NextStage(i)
  PROVE  /\ sweep'[i].doomed = {}
         /\ sweep'[i].at = "boxes" => sweep'[i].todo = boxes
         /\ \A j \in Instances \ {i} : sweep'[j] = sweep[j]
  <1>1. sweep \in [Instances -> SweepState] /\ sweep[i] \in SweepState /\ sweep[i].doomed = {}
    BY DEF Typed, KeptTypes, NextStage
  <1>2. CASE sweep' = [sweep EXCEPT ![i] = Idle]
    BY <1>1, <1>2 DEF Idle
  <1>3. ASSUME NEW s \in DOMAIN Rank,
               sweep' = [sweep EXCEPT ![i].at = s, ![i].todo = Listed(s)]
        PROVE  /\ sweep'[i].doomed = {}
               /\ sweep'[i].at = "boxes" => sweep'[i].todo = boxes
               /\ \A j \in Instances \ {i} : sweep'[j] = sweep[j]
    <2>1. sweep'[i] = [sweep[i] EXCEPT !.at = s, !.todo = Listed(s)]
      BY <1>1, <1>3
    <2>2. sweep'[i].at = s /\ sweep'[i].todo = Listed(s) /\ sweep'[i].doomed = {}
      BY <1>1, <2>1 DEF SweepState
    <2>3. Listed("boxes") = boxes
      BY DEF Listed
    <2> QED
      BY <1>1, <1>3, <2>2, <2>3
  <1> QED
    BY <1>2, <1>3 DEF NextStage

\* A sweep lists and dooms what is there or what it has listed, and dooms a
\* sandbox only if no run works in it.
LEMMA SweepSpares ==
  ASSUME SafetyInv, Typed, BoxesInv, NEW i \in Instances, Sweep(i), NEW j \in Instances,
         sweep'[j].at = "boxes"
  PROVE  /\ \/ sweep'[j].todo \cup sweep'[j].doomed \subseteq boxes
            \/ /\ sweep[j].at = "boxes"
               /\ sweep'[j].todo \cup sweep'[j].doomed \subseteq sweep[j].todo \cup sweep[j].doomed
         /\ \A w \in Workers : pc[w] = "steps" => box[w] \notin sweep'[j].doomed
  <1>1. CASE sweep'[j] = sweep[j]
    BY <1>1 DEF BoxesInv, DoomedUnused
  <1>2. CASE j = i /\ NextStage(i)
    BY <1>2, StageShows
  <1>3. CASE j = i /\ CleanupUploads(i)
    BY <1>3 DEF CleanupUploads, Typed, KeptTypes, SweepState
  <1>4. CASE j = i /\ AskSandbox(i)
    <2>1. PICK b \in sweep[i].todo : \/ Doom(i, b, {b}) /\ row[b[1]].status # "running"
                                     \/ Doom(i, b, {})
      BY <1>4 DEF AskSandbox
    <2>2. ASSUME NEW w \in Workers, pc[w] = "steps", box[w] = b
          PROVE  row[b[1]].status = "running"
      <3>1. box[w] # NoBox
        BY <1>4, <2>1, <2>2, CollectorAssumption DEF AskSandbox, Typed, SweepsTheirOwn, Box
      <3>2. b[1] = job[w]
        BY <2>2, <3>1 DEF BoxesInv, BoxesHeld
      <3> QED
        BY <2>2, <3>2, HeldRow DEF Owning, InRun
    <2> QED
      BY <1>4, <2>1, <2>2, DoomShows
  <1>5. CASE j = i /\ (RemoveWorkspace(i) \/ CleanupLogs(i) \/ AskWorkspace(i) \/ RemoveSandbox(i))
    <2>1. PICK x, doomed : Doom(i, x, doomed) /\ (sweep[i].at # "boxes" \/ doomed = {})
      BY <1>5 DEF RemoveWorkspace, CleanupLogs, AskWorkspace, RemoveSandbox
    <2> QED
      BY <1>5, <2>1, DoomShows
  <1>6. CASE j # i
    <2>1. sweep'[j] = sweep[j]
      <3>1. CASE NextStage(i)
        BY <1>6, <3>1, StageShows
      <3>2. CASE CleanupUploads(i)
        BY <1>6, <3>2 DEF CleanupUploads, Typed, KeptTypes
      <3>3. ASSUME NEW x, NEW doomed, Doom(i, x, doomed) PROVE sweep'[j] = sweep[j]
        BY <1>6, <3>3, DoomShows
      <3>4. CASE AskWorkspace(i) \/ CleanupLogs(i)
        BY <3>3, <3>4 DEF AskWorkspace, CleanupLogs
      <3>5. CASE RemoveWorkspace(i) \/ RemoveSandbox(i)
        BY <3>3, <3>5 DEF RemoveWorkspace, RemoveSandbox
      <3>6. CASE AskSandbox(i)
        BY <3>3, <3>6 DEF AskSandbox
      <3> QED
        BY <3>1, <3>2, <3>4, <3>5, <3>6 DEF Sweep
    <2> QED
      BY <1>1, <2>1
  <1> QED
    BY <1>2, <1>3, <1>4, <1>5, <1>6 DEF Sweep

LEMMA SweepBoxes ==
  ASSUME SafetyInv, Typed, BoxesInv, NEW i \in Instances, Sweep(i)
  PROVE  BoxesInv'
  <1>1. UNCHANGED <<row, seq, inst, starts, pc, job, ctx, retry, lost>>
    BY SweepsSafely
  <1>2. box' = box
    BY DEF Sweep, NextStage, AskWorkspace, RemoveWorkspace, CleanupLogs, CleanupUploads,
           AskSandbox, RemoveSandbox, keptVars
  <1>3. /\ boxes' \subseteq boxes
        /\ \A w \in Workers : pc[w] = "steps" /\ box[w] \in boxes => box[w] \in boxes'
    <2>1. CASE RemoveSandbox(i)
      BY <2>1 DEF RemoveSandbox, SameBox, BoxesInv, DoomedUnused
    <2> QED
      BY <2>1 DEF Sweep, NextStage, AskWorkspace, RemoveWorkspace, CleanupLogs, CleanupUploads,
                  AskSandbox, keptVars
  <1>4. BoxesHeld' /\ BoxesDistinct' /\ RunsHaveSandbox'
    BY <1>1, <1>2, <1>3 DEF BoxesInv, BoxesHeld, BoxesDistinct, RunsHaveSandbox
  <1>5. DoomedUnused'
    BY <1>1, <1>2, SweepSpares DEF DoomedUnused
  <1> QED
    BY <1>4, <1>5 DEF BoxesInv

-------------------------------------------------------------------------------
(* The inductive invariant, and what follows from it                        *)

LEMMA CollectorStarts == CollectorInit => CollectorInv
  <1> SUFFICES ASSUME CollectorInit PROVE CollectorInv
    OBVIOUS
  <1>1. SafetyInv
    BY SafetyInit DEF CollectorInit
  <1>2. Typed
    <2>1. Idle \in SweepState /\ Idle.todo = {} /\ Idle.doomed = {}
      BY Stages DEF Idle, SweepState
    <2>2. KeptTypes
      <3>1. sweep \in [Instances -> SweepState] /\ box \in [Workers -> Box \cup {NoBox}]
        BY <2>1 DEF CollectorInit
      <3>2. failures \in 0 .. MaxFailures /\ unsafe \in BOOLEAN
        <4>1. MaxFailures \in Nat
          BY CollectorAssumption
        <4>2. failures = 0 /\ unsafe = FALSE
          BY DEF CollectorInit
        <4>3. 0 \in 0 .. MaxFailures
          BY <4>1
        <4> QED
          BY <4>2, <4>3
      <3>3. upload \in [Key -> {"none", "fresh", "stale", "swept"}]
        BY DEF CollectorInit
      <3>4. aged \subseteq Key /\ logs \subseteq Key /\ boxes \subseteq Box /\ closing \subseteq Instances
        BY DEF CollectorInit
      <3> QED
        BY <3>1, <3>2, <3>3, <3>4 DEF KeptTypes
    <2>3. SweepsTheirOwn
      BY <2>1 DEF CollectorInit, SweepsTheirOwn
    <2>4. OneBoxEach /\ ClosedFirst
      BY DEF CollectorInit, Init, OneBoxEach, ClosedFirst
    <2> QED
      BY <2>2, <2>3, <2>4 DEF Typed
  <1>3. FilesInv
    BY DEF CollectorInit, Init, StoreInit, NoRow, FilesInv, AgedEnded, DoomedEnded,
           ReportedEnded, RunsHaveWorkspace, RunsKeepWorkspace, RunsHaveLogs,
           UploadOutlivesRun, Idle, UsingDir, InRun, Active
  <1>4. BoxesInv
    BY DEF CollectorInit, Init, BoxesInv, BoxesHeld, BoxesDistinct, DoomedUnused,
           RunsHaveSandbox, Idle
  <1> QED
    BY <1>1, <1>2, <1>3, <1>4 DEF CollectorInv, KeptInv

\* Time passes, or nothing happens: only the ages of rows and uploads change.
LEMMA AgeKeeps ==
  ASSUME OneInstance, CollectorInv, Age \/ UNCHANGED allVars
  PROVE  CollectorInv'
  <1>1. UNCHANGED <<vars, logs, boxes, box, sweep, closing, failures, unsafe>>
    BY DEF Age, AgeRow, AgeUpload, allVars, keptVars
  <1>2. SafetyInv'
    BY <1>1, SafetyStep DEF CollectorInv
  <1>3. /\ aged' \subseteq Key /\ \A k \in aged' : row[k].status \in Terminal
        /\ upload' \in [Key -> {"none", "fresh", "stale", "swept"}]
        /\ \A k \in Key : upload'[k] = "none" => upload[k] = "none"
    BY DEF Age, AgeRow, AgeUpload, allVars, keptVars, CollectorInv, KeptInv, Typed, KeptTypes,
           FilesInv, AgedEnded
  <1>4. Typed'
    BY <1>1, <1>3 DEF vars, CollectorInv, KeptInv, Typed, KeptTypes, SweepsTheirOwn,
                      OneBoxEach, ClosedFirst
  <1>5. FilesInv'
    BY <1>1, <1>3 DEF vars, CollectorInv, KeptInv, FilesInv, AgedEnded, DoomedEnded, Exists,
                      ReportedEnded, RunsHaveWorkspace, RunsKeepWorkspace, Workspace,
                      RunsHaveLogs, UploadOutlivesRun
  <1>6. BoxesInv'
    BY <1>1 DEF vars, CollectorInv, KeptInv, BoxesInv, BoxesHeld, BoxesDistinct, DoomedUnused,
                RunsHaveSandbox
  <1> QED
    BY <1>2, <1>4, <1>5, <1>6 DEF CollectorInv, KeptInv

LEMMA CancelKeeps ==
  ASSUME OneInstance, CollectorInv, NEW i \in Instances, CancelRoot(i)
  PROVE  CollectorInv'
  <1>1. UNCHANGED <<vars, keptVars, sweep, unsafe>> /\ closing' = closing \cup {i}
    BY DEF CancelRoot
  <1>2. SafetyInv'
    BY <1>1, SafetyStep DEF CollectorInv
  <1>3. Typed'
    BY <1>1 DEF vars, keptVars, CollectorInv, KeptInv, Typed, KeptTypes, SweepsTheirOwn,
                OneBoxEach, ClosedFirst
  <1>4. FilesInv'
    BY <1>1 DEF vars, keptVars, CollectorInv, KeptInv, FilesInv, AgedEnded, DoomedEnded, Exists,
                ReportedEnded, RunsHaveWorkspace, RunsKeepWorkspace, Workspace, RunsHaveLogs,
                UploadOutlivesRun
  <1>5. BoxesInv'
    BY <1>1 DEF vars, keptVars, CollectorInv, KeptInv, BoxesInv, BoxesHeld, BoxesDistinct,
                DoomedUnused, RunsHaveSandbox
  <1> QED
    BY <1>2, <1>3, <1>4, <1>5 DEF CollectorInv, KeptInv

LEMMA CollectorStep ==
  ASSUME OneInstance, CollectorInv, [CollectorNext]_allVars
  PROVE  CollectorInv'
  <1>1. ASSUME Next, Follow
        PROVE  CollectorInv'
    BY <1>1, SafetyStep, FollowTyped, FollowFiles, FollowBoxes DEF CollectorInv, KeptInv
  <1>2. ASSUME NEW i \in Instances, Sweep(i)
        PROVE  CollectorInv'
    BY <1>2, SweepsSafely, SweepTyped, SweepFiles, SweepBoxes DEF CollectorInv, KeptInv
  <1> QED
    BY <1>1, <1>2, AgeKeeps, CancelKeeps DEF CollectorNext

LEMMA CollectorInvariant == ASSUME OneInstance PROVE CollectorSpec => []CollectorInv
  <1>1. CollectorInv /\ [CollectorNext]_allVars => CollectorInv'
    BY CollectorStep
  <1> QED
    BY <1>1, CollectorStarts, PTL DEF CollectorSpec

\* Every variable of the collector keeps its type, an attempt has at most one
\* sandbox until a call fails, whatever crashes leave behind, and the workers of a
\* process are drained only behind its root context.
THEOREM CollectorTypes == ASSUME OneInstance PROVE CollectorSpec => []CollectorTypeOK
  <1>1. CollectorInv => CollectorTypeOK
    <2> SUFFICES ASSUME CollectorInv PROVE CollectorTypeOK
      OBVIOUS
    <2>1. \A i \in Instances : sweep[i].at \in DOMAIN Rank
      BY DEF CollectorInv, KeptInv, Typed, KeptTypes, SweepState
    <2> QED
      BY <2>1 DEF CollectorInv, SafetyInv, TypeInv, KeptInv, Typed, KeptTypes, SweepsTheirOwn,
                  OneBoxEach, ClosedFirst, CollectorTypeOK
  <1> QED
    BY <1>1, CollectorInvariant, PTL

\* A run keeps its workspace from the clone to the end of its steps, whichever
\* attempt made it, while sweeps get answers and no retry is accepted for a
\* workspace that is doomed already.
THEOREM WorkspacesStay == ASSUME OneInstance PROVE CollectorSpec => []RunsHaveWorkspace
  BY CollectorInvariant, PTL DEF CollectorInv, KeptInv, FilesInv

\* A run keeps the directory it logs to.
THEOREM LogsStay == ASSUME OneInstance PROVE CollectorSpec => []RunsHaveLogs
  BY CollectorInvariant, PTL DEF CollectorInv, KeptInv, FilesInv

\* A run keeps its sandbox, although a sweep decides on a sandbox first and
\* removes it later.
THEOREM SandboxesStay == ASSUME OneInstance PROVE CollectorSpec => []RunsHaveSandbox
  BY CollectorInvariant, PTL DEF CollectorInv, KeptInv, BoxesInv

\* The archive of a snapshot is there for every run that may still need it.
THEOREM UploadsStay == ASSUME OneInstance PROVE CollectorSpec => []UploadOutlivesRun
  BY CollectorInvariant, PTL DEF CollectorInv, KeptInv, FilesInv

\* The queue keeps its promise in the company of the collector: the table that
\* runs, retries and sweeps share is the chain of attempts.
THEOREM SweptTableIsChain == ASSUME OneInstance PROVE CollectorSpec => ImplementsChain
  <1>1. CollectorInit => Chain!Init
    BY ChainStarts DEF CollectorInit
  <1>2. CollectorInv /\ [CollectorNext]_allVars => [Chain!Next]_ChainOf
    <2> SUFFICES ASSUME CollectorInv, [CollectorNext]_allVars
                 PROVE  Chain!Next \/ UNCHANGED ChainOf
      OBVIOUS
    <2>1. CASE Next
      BY <2>1, ChainStep DEF CollectorInv
    <2>2. CASE row' = row
      BY <2>2 DEF ChainOf, StatusAt
    <2> QED
      BY <2>1, <2>2, SweepsSafely
         DEF CollectorNext, CollectorInv, Age, AgeRow, AgeUpload, CancelRoot, vars, allVars
  <1> QED
    BY <1>1, <1>2, CollectorInvariant, PTL DEF CollectorSpec, ImplementsChain, Chain!Spec
===============================================================================
