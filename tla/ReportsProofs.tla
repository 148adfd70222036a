----------------------------- MODULE ReportsProofs -----------------------------
(***************************************************************************)
(* What readers and the code host are told, when one process serves the    *)
(* database: for every number of readers, workers, retries, crashes, lost  *)
(* writes and failed calls.                                                *)
(*                                                                         *)
(* A step of Reports is a step of Runner or leaves its variables alone, so *)
(* the safety of the queue is at hand.  ReportsInv adds five things to it: *)
(* where a reporter is while its run is at a phase (ReportersFit); that a  *)
(* result once written stays until it is told, and is what is told         *)
(* (ResultsKept); what a stream has read when it acts on an end            *)
(* (StreamsFit); how many check runs the host has (ChecksCounted); and who *)
(* still has the last word of an execution (LastWordTold).                 *)
(***************************************************************************)
EXTENDS ReportsProperties, RunnerProofs

Reporting == {"group", "build", "steps", "report"}

\* Where the reporter of a run may be in each phase of it.
ReporterFits(w) ==
  /\ pc[w] \notin Reporting => reporter[w] = NoReporter
  /\ reporter[w].at \in {"create", "save", "mark"} => pc[w] \in {"group", "build"}
  /\ pc[w] = "steps" => reporter[w].at = "told"
  /\ reporter[w].at \in {"tell", "sent"} <=> pc[w] = "report"
  /\ reporter[w].verdict # "none" <=> pc[w] = "report"
  /\ reporter[w].known => reporter[w].at \in {"told", "tell", "sent"}
ReportersFit == \A w \in Workers : ReporterFits(w)

\* A run that has ended has a row nobody else runs, which holds what it reports,
\* or is still running because the last write was lost.
ResultKept(w) ==
  pc[w] = "report" =>
    /\ job[w] \in Key /\ row[job[w]].status \in {"running"} \cup Terminal
    /\ row[job[w]].status \in Terminal => reporter[w].verdict = row[job[w]].status
    /\ \A v \in Workers : ~Holds(v, job[w])
ResultsKept == \A w \in Workers : ResultKept(w)

ReportersInv == ReportersFit /\ reporter \in [Workers -> Reporter] /\ ResultsKept

\* A stream acts on an end it has seen.
StreamFits(s) ==
  /\ stream[s] \in Stream
  /\ Open(s) <=> stream[s].of # NoKey
  /\ stream[s].at \in {"last", "done"} => row[stream[s].of].status \in Terminal
  /\ stream[s].at = "done" => stream[s].cut \/ ~stream[s].unread
StreamsFit == stream \in [Readers -> Stream] /\ \A s \in Readers : StreamFits(s)

\* A check run that was made is saved, lost, or about to be saved.
OneIf(b) == IF b THEN 1 ELSE 0
Saving(e) == \E w \in Workers : reporter[w].at = "save" /\ Of(w) = e
ChecksCounted ==
  \A e \in Key : check[e].made = check[e].lost + OneIf(check[e].saved) + OneIf(Saving(e))
NotYetSaved == \A w \in Workers : reporter[w].at \in {"create", "save"} => ~Saved(w)

\* The end the host heard of was that of an attempt.
HeardOfAttempt ==
  \A e \in Key : check[e].latest = 0
    \/ \E k \in Key : Exists(k) /\ row[k].execution = e /\ row[k].attempt = check[e].latest

\* The end of the last attempt has been told, or is about to be.
AboutToTell(k) == \E w \in Workers : job[w] = k /\ reporter[w].at = "tell"
Shows(e, k) == check[e].shows = row[k].status /\ check[e].latest = row[k].attempt
LastWordTold ==
  \A e \in Key : check[e].saved /\ e \notin untold =>
    \A k \in Key :
      row[k].execution = e /\ LatestAttempt(k) /\ row[k].status \in Terminal
        => AboutToTell(k) \/ Shows(e, k)

ChecksInv == /\ check \in [Key -> Check] /\ ChecksCounted /\ NotYetSaved
             /\ HeardOfAttempt /\ LastWordTold

ReportsInv ==
  /\ SafetyInv /\ ReportersInv /\ StreamsFit /\ ChecksInv
  /\ logs \subseteq Key /\ failures \in 0 .. MaxFailures /\ untold \subseteq Key

-------------------------------------------------------------------------------
(* What a step of the runner does to phases and results                     *)

\* The way of a run through its phases.
Way(from, to) ==
  \/ from = "begin" /\ to = "prepare"
  \/ from = "prepare" /\ to = "group"
  \/ from = "group" /\ to \in {"supersede", "steps"}
  \/ from = "supersede" /\ to = "build"
  \/ from = "build" /\ to = "steps"
EndsFrom == {"begin", "prepare", "group", "build", "steps"}

PhaseMoves(v) ==
  \/ pc'[v] = pc[v] /\ job'[v] = job[v]
  \/ pc'[v] = "off"
  \/ pc[v] = "report" /\ pc'[v] = "poll"
  \/ pc[v] \notin Registered /\ pc'[v] \notin Reporting
  \/ job'[v] = job[v] /\ Way(pc[v], pc'[v])
  \/ job'[v] = job[v] /\ pc[v] \in EndsFrom /\ pc'[v] = "report"

LEMMA WorkerPhases ==
  ASSUME TypeInv, NEW w \in Workers, WorkerStep(w)
  PROVE  /\ PhaseMoves(w)
         /\ \A v \in Workers \ {w} : pc'[v] = pc[v] /\ job'[v] = job[v]
  <1> DEFINE Moved == /\ PhaseMoves(w)
                      /\ \A v \in Workers \ {w} : pc'[v] = pc[v] /\ job'[v] = job[v]
  <1> SUFFICES Moved
    OBVIOUS
  <1>1. pc \in [Workers -> WorkerState] /\ job \in [Workers -> Key \cup {NoKey}]
    BY DEF TypeInv, TypeOK
  <1>2. CASE \/ Stop(w) \/ Select(w) \/ Claim(w) \/ ClaimUnread(w) \/ Count(w) \/ Register(w)
             \/ Release(w)
    <2>1. \/ pc[w] \notin Registered /\ pc'[w] \notin Reporting
          \/ pc[w] = "report" /\ pc'[w] = "poll"
      BY <1>1, <1>2 DEF Stop, Select, Claim, ClaimUnread, Count, Register, Release, Goto,
                        Registered, InRun, Reporting
    <2>2. \A v \in Workers \ {w} : pc'[v] = pc[v] /\ job'[v] = job[v]
      BY <1>1, <1>2 DEF Stop, Select, Claim, ClaimUnread, Count, Register, Release, Goto
    <2> QED
      BY <2>1, <2>2 DEF PhaseMoves, Moved
  <1>3. CASE CancelRun(w) \/ StepUpdate(w)
    BY <1>1, <1>3 DEF CancelRun, StepUpdate, workerVars, PhaseMoves, Moved
  <1>4. ASSUME NEW next, Goto(w, next), job' = job,
               Way(pc[w], next) \/ (pc[w] \in EndsFrom /\ next = "report")
        PROVE  Moved
    BY <1>1, <1>4 DEF Goto, PhaseMoves
  <1> HIDE DEF Moved
  <1>5. \A error : FailSetup(w, error) => Goto(w, "report") /\ job' = job
    BY DEF FailSetup, Finish
  <1>6. CASE Begin(w)
    <2>1. \/ Goto(w, "prepare") /\ job' = job
          \/ Goto(w, "report") /\ job' = job
      BY <1>5, <1>6 DEF Begin
    <2> QED
      BY <1>4, <1>6, <2>1 DEF Begin, Way, EndsFrom
  <1>7. CASE Reuse(w) \/ CloneFresh(w) \/ CloneOver(w) \/ Extract(w)
    <2>1. /\ pc[w] = "prepare"
          /\ \/ Goto(w, "group") /\ job' = job
             \/ Goto(w, "report") /\ job' = job
      BY <1>5, <1>7 DEF Reuse, CloneFresh, CloneOver, Extract, Prepared
    <2> QED
      BY <1>4, <2>1 DEF Way, EndsFrom
  <1>8. CASE ReadConfig(w) \/ Supersede(w) \/ Build(w)
    <2>1. CASE ReadConfig(w)
      BY <1>4, <1>5, <2>1 DEF ReadConfig, Way, EndsFrom
    <2>2. CASE Supersede(w)
      BY <1>4, <2>2 DEF Supersede, Way
    <2>3. CASE Build(w)
      BY <1>4, <1>5, <2>3 DEF Build, Way, EndsFrom
    <2> QED
      BY <1>8, <2>1, <2>2, <2>3
  <1>9. CASE EndSteps(w)
    BY <1>4, <1>9 DEF EndSteps, Finish, EndsFrom
  <1> QED
    BY <1>2, <1>3, <1>6, <1>7, <1>8, <1>9 DEF WorkerStep

LEMMA EndKeepsJob ==
  ASSUME NEW w \in Workers, WorkerStep(w), Ended(w)
  PROVE  job' = job
  <1>1. CASE \/ Begin(w) \/ Reuse(w) \/ CloneFresh(w) \/ CloneOver(w) \/ Extract(w)
             \/ ReadConfig(w) \/ Supersede(w) \/ Build(w) \/ EndSteps(w)
    BY <1>1 DEF Begin, Reuse, CloneFresh, CloneOver, Extract, Prepared, ReadConfig, Supersede,
                Build, EndSteps, FailSetup, Finish
  <1>2. CASE CancelRun(w) \/ StepUpdate(w)
    BY <1>2 DEF CancelRun, StepUpdate, workerVars
  <1>3. CASE \/ Stop(w) \/ Select(w) \/ Claim(w) \/ ClaimUnread(w) \/ Count(w) \/ Register(w)
             \/ Release(w)
    BY <1>3 DEF Stop, Select, Claim, ClaimUnread, Count, Register, Release, Ended, Enters, InRun
  <1> QED
    BY <1>1, <1>2, <1>3 DEF WorkerStep

Elsewhere ==
  \/ \E c \in Callers : CallerStep(c)
  \/ \E p \in Projects, src \in Sources : Submit(p, src)
  \/ \E k \in Key : RequestCancel(k)
  \/ UNCHANGED vars

LEMMA ElsewhereKeeps ==
  ASSUME Elsewhere
  PROVE  UNCHANGED <<pc, job, inst>>
  BY DEF Elsewhere, CallerStep, RetryRead, RetryCheck, RetryInsert, Submit, RequestCancel,
         procVars, workerVars, vars

LEMMA InstancePhases ==
  ASSUME SafetyInv, NEW i \in Instances, InstanceStep(i), NEW v \in Workers
  PROVE  \/ pc'[v] = pc[v] /\ job'[v] = job[v]
         \/ pc'[v] = "off"
         \/ pc[v] = "off" /\ pc'[v] = "poll"
  <1>1. pc \in [Workers -> WorkerState] /\ job \in [Workers -> Key \cup {NoKey}] /\ DownMeansOff
    BY DEF SafetyInv, TypeInv, TypeOK, WorkerInv
  <1>2. CASE StartInstance(i)
    BY <1>1, <1>2 DEF StartInstance, DownMeansOff
  <1>3. CASE Crash(i) \/ Exit(i)
    BY <1>1, <1>3 DEF Crash, Exit, ProcessEnds
  <1>4. CASE BeginDrain(i) \/ DrainTimeout(i) \/ DrainReturn(i)
    BY <1>1, <1>4 DEF BeginDrain, DrainTimeout, DrainReturn
  <1> QED
    BY <1>2, <1>3, <1>4 DEF InstanceStep

LEMMA PhaseStep ==
  ASSUME SafetyInv, [Next]_vars, NEW v \in Workers
  PROVE  PhaseMoves(v)
  <1>1. ASSUME NEW w \in Workers, WorkerStep(w) PROVE PhaseMoves(v)
    <2>1. CASE v = w
      BY <1>1, <2>1, WorkerPhases DEF SafetyInv
    <2>2. CASE v # w
      BY <1>1, <2>2, WorkerPhases DEF SafetyInv, PhaseMoves
    <2> QED
      BY <2>1, <2>2
  <1>2. ASSUME NEW i \in Instances, InstanceStep(i) PROVE PhaseMoves(v)
    BY <1>2, InstancePhases DEF PhaseMoves, Registered, InRun, Reporting
  <1>3. CASE Elsewhere
    BY <1>3, ElsewhereKeeps DEF PhaseMoves
  <1> QED
    BY <1>1, <1>2, <1>3 DEF Next, Elsewhere

\* The end of a run is a step of its worker alone, and writes its row at most.
LEMMA EndStep ==
  ASSUME SafetyInv, [Next]_vars, NEW w \in Workers, Ended(w)
  PROVE  /\ \A v \in Workers \ {w} : pc'[v] = pc[v]
         /\ job' = job /\ job[w] \in Key /\ row[job[w]].status = "running"
         /\ Quiet \/ \E status \in Terminal : Moves(job[w], "running", status)
  <1>1. WorkerStep(w)
    <2>1. ASSUME NEW u \in Workers, WorkerStep(u) PROVE u = w
      BY <2>1, WorkerPhases DEF SafetyInv, Ended, Enters, InRun
    <2>2. ASSUME NEW i \in Instances, InstanceStep(i) PROVE FALSE
      BY <2>2, InstancePhases DEF Ended, Enters, InRun
    <2>3. ~Elsewhere
      BY ElsewhereKeeps DEF Ended, Enters, InRun
    <2> QED
      BY <2>1, <2>2, <2>3 DEF Next, Elsewhere
  <1>2. (\A v \in Workers \ {w} : pc'[v] = pc[v]) /\ job' = job
    BY <1>1, WorkerPhases, EndKeepsJob DEF SafetyInv
  <1>3. job[w] \in Key /\ row[job[w]].status = "running"
    BY DEF SafetyInv, WorkerInv, OwnersHaveRow, Ownership, HeldRowsRun, Holds, Ended, Enters,
           Owning
  <1>4. Writes(w)
    BY <1>1, WorkerWrites
  <1> QED
    BY <1>2, <1>3, <1>4 DEF Writes, EndsAs, Moves

\* Rows keep what they are, and a new one is pending.
LEMMA RowsKept ==
  ASSUME SafetyInv, [Next]_vars, NEW k \in Key
  PROVE  /\ Exists(k) => SameIdentity(k) /\ Exists(k)'
         /\ ~Exists(k) => ~Exists(k)' \/ row'[k].status = "pending"
  <1>1. CASE Progress
    BY <1>1 DEF Progress, StatusMoves, Exists, Active, Terminal
  <1>2. ASSUME NEW p \in Projects, NEW r \in Row, Insertion(p, r)
        PROVE  /\ Exists(k) => row'[k] = row[k]
               /\ row'[k] = row[k] \/ row'[k].status = "pending"
    <2>1. /\ ~Exists(NextKey(p)) /\ r.status = "pending"
          /\ row' = [row EXCEPT ![NextKey(p)] = r]
      BY <1>2, CreateInserts DEF Insertion
    <2>2. row \in [Key -> Row]
      BY DEF SafetyInv, TypeInv, TypeOK, StoreTypeOK
    <2> QED
      BY <2>1, <2>2
  <1>3. CASE \E p \in Projects, r \in Row : Insertion(p, r)
    BY <1>2, <1>3 DEF SameIdentity, Exists
  <1> QED
    BY <1>1, <1>3, StoreStep

\* Only the end of a run writes a terminal status.
LEMMA WorkerResult ==
  ASSUME SafetyInv, NEW w \in Workers, WorkerStep(w), ~Ended(w)
  PROVE  \A k \in Key : row'[k].status \in Terminal => row[k].status \in Terminal
  <1> DEFINE NoResult == \A k \in Key : row'[k].status \in Terminal => row[k].status \in Terminal
  <1> SUFFICES NoResult
    OBVIOUS
  <1>1. pc \in [Workers -> WorkerState]
    BY DEF SafetyInv, TypeInv, TypeOK
  <1>2. Quiet => NoResult
    BY DEF Quiet
  <1> HIDE DEF NoResult
  <1>3. UNCHANGED row => NoResult
    BY <1>2, SameRowsQuiet
  <1>4. ~(pc[w] \in InRun /\ Goto(w, "report"))
    BY <1>1 DEF Ended, Enters, Goto
  <1>5. ASSUME pc[w] \in InRun, NEW error, FailSetup(w, error)
        PROVE  FALSE
    BY <1>4, <1>5 DEF FailSetup, Finish
  <1>6. CASE \/ Stop(w) \/ Select(w) \/ ClaimUnread(w) \/ Count(w) \/ Register(w)
             \/ Release(w) \/ CancelRun(w)
    BY <1>3, <1>6 DEF Stop, Select, ClaimUnread, Count, Register, Release, CancelRun
  <1>7. CASE Claim(w)
    BY <1>7, ClaimProgress DEF SafetyInv, NoResult, Terminal
  <1>8. CASE Begin(w)
    BY <1>2, <1>5, <1>8, WrittenRunning DEF Begin, Quiet, InRun, Owning
  <1>9. CASE Reuse(w) \/ CloneFresh(w) \/ CloneOver(w) \/ Extract(w)
    <2>1. pc[w] \in InRun
      BY <1>9 DEF Reuse, CloneFresh, CloneOver, Extract, InRun
    <2> QED
      BY <1>3, <1>5, <1>9, <2>1 DEF Reuse, CloneFresh, CloneOver, Extract, Prepared
  <1>10. CASE ReadConfig(w)
    BY <1>2, <1>3, <1>5, <1>10, WrittenRunning DEF ReadConfig, Quiet, InRun, Owning
  <1>11. CASE Supersede(w)
    BY <1>2, <1>3, <1>11, FlagsProgress
       DEF Supersede, storeVars, SafetyInv, TypeInv, TypeOK, Quiet
  <1>12. CASE Build(w)
    BY <1>3, <1>5, <1>12 DEF Build, InRun
  <1>13. CASE StepUpdate(w)
    BY <1>2, <1>13, WrittenRunning
       DEF StepUpdate, WhileSteps, UpdateExecution, Quiet, InRun, Owning
  <1>14. CASE EndSteps(w)
    BY <1>4, <1>14 DEF EndSteps, Finish, InRun
  <1> QED
    BY <1>6, <1>7, <1>8, <1>9, <1>10, <1>11, <1>12, <1>13, <1>14 DEF WorkerStep

LEMMA ResultStep ==
  ASSUME SafetyInv, [Next]_vars, NEW k \in Key,
         row[k].status \notin Terminal, row'[k].status \in Terminal
  PROVE  \E w \in Workers : Ended(w) /\ job[w] = k
  <1>1. ASSUME NEW w \in Workers, WorkerStep(w)
        PROVE  \E u \in Workers : Ended(u) /\ job[u] = k
    <2>1. Ended(w)
      BY <1>1, WorkerResult
    <2>2. job[w] = k
      BY <2>1, EndStep DEF Quiet, Moves
    <2> QED
      BY <2>1, <2>2
  <1>2. ASSUME NEW i \in Instances, InstanceStep(i) PROVE FALSE
    BY <1>2, InstancesWrite DEF Quiet, Requeues, Terminal
  <1>3. ~Elsewhere
    <2>1. SUFFICES ASSUME Elsewhere PROVE FALSE
      OBVIOUS
    <2>2. ~Quiet
      BY DEF Quiet
    <2>3. ~Exists(k) /\ Exists(k)'
      BY <2>1, <2>2, RequestsWrite, CreateInserts
         DEF Elsewhere, Insertion, Exists, Terminal, SafetyInv, TypeInv, TypeOK, StoreTypeOK
    <2> QED
      BY <2>3, RowsKept DEF Terminal
  <1> QED
    BY <1>1, <1>2, <1>3 DEF Next, Elsewhere

-------------------------------------------------------------------------------
(* Reporters                                                                *)

LEMMA NoReporterFits ==
  /\ NoReporter \in Reporter /\ NoReporter.at = "off"
  /\ NoReporter.verdict = "none" /\ NoReporter.known = FALSE
  BY DEF NoReporter, Reporter

\* A run goes on with its reporter.
LEMMA ReporterGoesOn ==
  ASSUME SafetyInv, ReportersFit, reporter \in [Workers -> Reporter],
         [Next]_vars, StartedInTime, NEW v \in Workers, ~Ended(v),
         reporter'[v] = IF pc'[v] \in Reporting THEN reporter[v] ELSE NoReporter
  PROVE  ReporterFits(v)' /\ reporter'[v] \in Reporter
  <1>1. PhaseMoves(v) /\ ReporterFits(v) /\ reporter[v] \in Reporter
    BY PhaseStep DEF ReportersFit
  <1>2. CASE pc'[v] \notin Reporting
    BY <1>2, NoReporterFits DEF ReporterFits, Reporting
  <1>3. CASE pc'[v] \in Reporting /\ pc'[v] = pc[v]
    BY <1>1, <1>3 DEF ReporterFits, Reporting
  <1>4. CASE pc'[v] \in Reporting /\ pc'[v] # pc[v]
    <2>1. Way(pc[v], pc'[v])
      BY <1>1, <1>4 DEF PhaseMoves, Reporting, Ended, Enters, EndsFrom, InRun
    <2>2. CASE pc[v] \notin Reporting
      <3>1. pc'[v] \in {"group", "build"}
        BY <1>4, <2>1, <2>2 DEF Way, Reporting
      <3>2. reporter'[v] = NoReporter
        BY <1>1, <1>4, <2>2 DEF ReporterFits
      <3> QED
        BY <3>1, <3>2, NoReporterFits DEF ReporterFits, Reporting
    <2>3. CASE pc[v] \in Reporting
      <3>1. pc[v] \in {"group", "build"} /\ pc'[v] = "steps"
        BY <1>4, <2>1, <2>3 DEF Way, Reporting
      <3>2. reporter'[v] = reporter[v] /\ reporter[v].at = "told"
        BY <1>4, <3>1 DEF StartedInTime, Enters
      <3> QED
        BY <1>1, <3>1, <3>2 DEF ReporterFits, Reporting
    <2> QED
      BY <2>2, <2>3
  <1> QED
    BY <1>2, <1>3, <1>4

\* The reporter of a run that has ended is about to tell it, or has nobody to tell.
LEMMA ReporterEnds ==
  ASSUME SafetyInv, ReportersFit, reporter \in [Workers -> Reporter],
         NEW w \in Workers, NEW verdict \in Terminal, Ended(w),
         reporter' = [reporter EXCEPT ![w] = Told(w, verdict)]
  PROVE  /\ ReporterFits(w)' /\ reporter'[w] \in Reporter
         /\ reporter'[w].verdict = verdict
         /\ reporter[w].known => reporter'[w].at = "tell"
  <1>1. reporter'[w] = Told(w, verdict) /\ reporter[w] \in Reporter /\ ReporterFits(w)
    BY DEF ReportersFit
  <1>2. pc[w] \in InRun /\ pc'[w] = "report"
    BY DEF Ended, Enters
  <1>3. reporter[w].known => reporter[w].at = "told"
    BY <1>1, <1>2 DEF ReporterFits, InRun
  <1> QED
    BY <1>1, <1>2, <1>3 DEF ReporterFits, Reporter, Told, Reporting, Terminal

LEMMA ReportersRun ==
  ASSUME SafetyInv, ReportersFit, reporter \in [Workers -> Reporter], [Next]_vars, Follow
  PROVE  ReportersFit' /\ reporter' \in [Workers -> Reporter]
  <1>1. CASE /\ \A w \in Workers : ~Ended(w)
             /\ reporter' = [w \in Workers |->
                  IF pc'[w] \in {"group", "build", "steps", "report"} THEN reporter[w]
                                                                     ELSE NoReporter]
    BY <1>1, ReporterGoesOn DEF Follow, ReportersFit, Reporting
  <1>2. ASSUME NEW w \in Workers, NEW verdict \in Terminal, Ended(w),
               reporter' = [reporter EXCEPT ![w] = Told(w, verdict)]
        PROVE  ReportersFit' /\ reporter' \in [Workers -> Reporter]
    <2>1. ReporterFits(w)' /\ reporter'[w] \in Reporter
      BY <1>2, ReporterEnds
    <2>2. \A v \in Workers \ {w} : pc'[v] = pc[v] /\ reporter'[v] = reporter[v]
      BY <1>2, EndStep
    <2>3. \A v \in Workers \ {w} : ReporterFits(v)'
      BY <2>2 DEF ReportersFit, ReporterFits
    <2> QED
      BY <1>2, <2>1, <2>3 DEF ReportersFit
  <1> QED
    BY <1>1, <1>2 DEF Follow, ReportersFollow

\* A call of a reporter leaves the phases alone.
LEMMA ReportersCall ==
  ASSUME ReportersFit, reporter \in [Workers -> Reporter],
         NEW w \in Workers, ReporterStep(w)
  PROVE  /\ ReportersFit' /\ reporter' \in [Workers -> Reporter]
         /\ \A v \in Workers \ {w} : reporter'[v] = reporter[v]
         /\ reporter'[w].verdict = reporter[w].verdict
         /\ UNCHANGED vars
  <1>1. UNCHANGED vars /\ pc' = pc
    BY DEF ReporterStep, Start, Create, Save, Mark, Tell, ReporterOnly, vars
  <1>2. reporter[w] \in Reporter /\ ReporterFits(w)
    BY DEF ReportersFit
  <1> DEFINE Good(r) ==
        /\ reporter' = [reporter EXCEPT ![w] = r]
        /\ r \in Reporter /\ r.verdict = reporter[w].verdict
        /\ r.at \in {"create", "save", "mark"} => pc[w] \in {"group", "build"}
        /\ pc[w] = "steps" => r.at = "told"
        /\ r.at \in {"tell", "sent"} <=> pc[w] = "report"
        /\ r.known => r.at \in {"told", "tell", "sent"}
        /\ r.at # "off" => pc[w] \in Reporting
        /\ r.at # "off"
  <1>3. \E r : Good(r)
    <2>1. ASSUME NEW at \in {"create", "save", "mark", "told"}, Pass(w, at),
                 reporter[w].at \in {"off", "create", "save"}, pc[w] \in {"group", "build"}
          PROVE  Good([reporter[w] EXCEPT !.at = at])
      BY <1>2, <2>1 DEF Pass, Reporter, ReporterFits, Reporting
    <2>2. CASE Start(w)
      <3>1. \E at \in {"create", "mark", "told"} : Pass(w, at)
        BY <2>2 DEF Start
      <3> QED
        BY <2>1, <2>2, <3>1 DEF Start
    <2>3. CASE Create(w) \/ Save(w)
      <3>1. \E at \in {"save", "mark", "told"} : Pass(w, at)
        BY <2>3 DEF Create, Save
      <3> QED
        BY <1>2, <2>1, <2>3, <3>1 DEF Create, Save, ReporterFits
    <2>4. CASE Mark(w)
      <3> DEFINE r == [reporter[w] EXCEPT !.at = "told", !.known = TRUE]
      <3>1. Good(r)
        BY <1>2, <2>4 DEF Mark, Reporter, ReporterFits, Reporting
      <3> QED
        BY <3>1
    <2>5. CASE Tell(w)
      <3> DEFINE r == [reporter[w] EXCEPT !.at = "sent"]
      <3>1. Good(r)
        BY <1>2, <2>5 DEF Tell, Pass, Reporter, ReporterFits, Reporting
      <3> QED
        BY <3>1
    <2> QED
      BY <2>2, <2>3, <2>4, <2>5 DEF ReporterStep
  <1>4. PICK r : Good(r)
    BY <1>3
  <1>5. ReporterFits(w)'
    BY <1>1, <1>2, <1>4 DEF ReporterFits
  <1>6. \A v \in Workers \ {w} : reporter'[v] = reporter[v]
    BY <1>4
  <1>7. ReportersFit'
    BY <1>1, <1>5, <1>6 DEF ReportersFit, ReporterFits
  <1> QED
    BY <1>1, <1>4, <1>6, <1>7

-------------------------------------------------------------------------------
(* Results stay until they are told                                         *)

\* A row gets a holder only by a claim, when it is pending.
LEMMA HoldStep ==
  ASSUME SafetyInv, [Next]_vars, NEW u \in Workers, NEW k \in Key, Holds(u, k)'
  PROVE  Holds(u, k) \/ row[k].status = "pending"
  <1>1. pc \in [Workers -> WorkerState] /\ job \in [Workers -> Key \cup {NoKey}] /\ DownMeansOff
    BY DEF SafetyInv, TypeInv, TypeOK, WorkerInv
  <1>2. CASE pc'[u] = pc[u] /\ job'[u] = job[u]
    BY <1>2 DEF Holds
  <1>3. CASE pc[u] \in Owning /\ job'[u] = job[u]
    BY <1>3 DEF Holds
  <1>4. ASSUME NEW w \in Workers, WorkerStep(w)
        PROVE  Holds(u, k) \/ row[k].status = "pending"
    <2>1. CASE u # w
      BY <1>2, <1>4, <2>1, WorkerPhases DEF SafetyInv
    <2>2. CASE u = w /\ (Count(w) \/ Register(w))
      BY <1>3, <2>2 DEF Count, Register, Owning
    <2>3. CASE u = w /\ Claim(w)
      BY <1>1, <2>3 DEF Claim, StillPending, Goto, Holds, Owning, InRun
    <2>4. CASE u = w /\ (Stop(w) \/ Select(w) \/ ClaimUnread(w) \/ Release(w))
      BY <1>1, <2>4 DEF Stop, Select, ClaimUnread, Release, Goto, Holds, Owning, InRun
    <2>5. CASE u = w /\ CancelRun(w)
      BY <1>2, <2>5 DEF CancelRun
    <2>6. CASE u = w /\ (\/ Begin(w) \/ Reuse(w) \/ CloneFresh(w) \/ CloneOver(w) \/ Extract(w)
                         \/ ReadConfig(w) \/ Supersede(w) \/ Build(w) \/ StepUpdate(w)
                         \/ EndSteps(w))
      <3>1. pc[w] \in Owning /\ job' = job
        BY <2>6 DEF Begin, Reuse, CloneFresh, CloneOver, Extract, ReadConfig, Supersede,
           Build, StepUpdate, EndSteps, Prepared, FailSetup, Finish, WhileSteps, InRun,
           workerVars, Owning
      <3> QED
        BY <1>3, <2>6, <3>1
    <2> QED
      BY <1>4, <2>1, <2>2, <2>3, <2>4, <2>5, <2>6 DEF WorkerStep
  <1>5. ASSUME NEW i \in Instances, InstanceStep(i)
        PROVE  Holds(u, k) \/ row[k].status = "pending"
    BY <1>2, <1>5, InstancePhases DEF Holds, Owning, InRun
  <1>6. CASE Elsewhere
    BY <1>2, <1>6, ElsewhereKeeps
  <1> QED
    BY <1>4, <1>5, <1>6 DEF Next, Elsewhere

\* A running row is pending again only when the process starts.
LEMMA PendingAgain ==
  ASSUME SafetyInv, [Next]_vars, NEW k \in Key,
         row[k].status = "running", row'[k].status = "pending"
  PROVE  \E i \in Instances : inst[i] = "down"
  <1>1. ASSUME NEW w \in Workers, WorkerStep(w) PROVE FALSE
    BY <1>1, WorkerWrites DEF Writes, EndsAs, Moves, Quiet, Terminal
  <1>2. ASSUME NEW i \in Instances, InstanceStep(i) PROVE inst[i] = "down"
    BY <1>2 DEF InstanceStep, StartInstance, Crash, Exit, ProcessEnds, BeginDrain, DrainTimeout,
                DrainReturn
  <1>3. ~Elsewhere
    <2>1. SUFFICES ASSUME Elsewhere PROVE FALSE
      OBVIOUS
    <2>2. ~Quiet
      BY DEF Quiet
    <2>3. ~Exists(k)
      BY <2>1, <2>2, RequestsWrite, CreateInserts
         DEF Elsewhere, Insertion, Exists, SafetyInv, TypeInv, TypeOK, StoreTypeOK
    <2> QED
      BY <2>3 DEF Exists
  <1> QED
    BY <1>1, <1>2, <1>3 DEF Next, Elsewhere

\* Between the terminal write and the release nobody touches the row.
LEMMA ResultStays ==
  ASSUME OneInstance, SafetyInv, ReportersFit, reporter \in [Workers -> Reporter],
         ResultsKept, [Next]_vars, Follow,
         NEW v \in Workers, pc[v] = "report", pc'[v] = "report"
  PROVE  /\ ResultKept(v)' /\ job'[v] = job[v] /\ reporter'[v] = reporter[v]
  <1>0. PICK k \in Key : k = job[v]
    BY DEF ResultsKept, ResultKept
  <1>1. /\ row[k].status \in {"running"} \cup Terminal
        /\ row[k].status \in Terminal => reporter[v].verdict = row[k].status
        /\ \A u \in Workers : ~Holds(u, k)
    BY <1>0 DEF ResultsKept, ResultKept
  <1>2. job'[v] = k
    BY <1>0, PhaseStep DEF PhaseMoves, Registered, Way, EndsFrom
  <1>3. reporter'[v] = reporter[v]
    BY DEF Follow, ReportersFollow, Ended, Enters, InRun
  <1>4. row'[k].status \in Terminal => row[k].status \in Terminal
    <2>1. SUFFICES ASSUME row'[k].status \in Terminal, row[k].status \notin Terminal PROVE FALSE
      OBVIOUS
    <2>2. PICK w \in Workers : Ended(w) /\ job[w] = k
      BY <1>1, <2>1, ResultStep
    <2> QED
      BY <1>1, <2>2 DEF Ended, Enters, Holds, Owning
  <1>5. row[k].status \in Terminal => row'[k].status = row[k].status
    BY <1>1, EndedStays
  <1>6. row'[k].status \in {"running"} \cup Terminal
    <2>1. CASE row[k].status \in Terminal
      BY <1>5, <2>1
    <2>2. CASE row[k].status = "running"
      <3>1. row'[k].status \in Status \ {"none"}
        <4>1. TypeInv'
          BY TypeStep DEF SafetyInv
        <4>2. row'[k] \in Row
          BY <1>1, <4>1 DEF TypeInv, TypeOK, StoreTypeOK
        <4>3. Exists(k)'
          BY <1>1, <2>2, RowsKept DEF Exists
        <4> QED
          BY <4>2, <4>3 DEF Row, Exists
      <3>2. row'[k].status # "pending"
        <4>1. \A i \in Instances : inst[i] # "down"
          BY RunnerAssumption DEF OneInstance, SafetyInv, WorkerInv, DownMeansOff
        <4> QED
          BY <1>1, <2>2, <4>1, PendingAgain
      <3> QED
        BY <3>1, <3>2 DEF Status, Active, Terminal
    <2> QED
      BY <1>1, <2>1, <2>2
  <1>7. \A u \in Workers : ~Holds(u, k)'
    BY <1>1, HoldStep DEF Terminal
  <1> QED
    BY <1>0, <1>1, <1>2, <1>3, <1>4, <1>5, <1>6, <1>7 DEF ResultKept, Holds

LEMMA ResultsRun ==
  ASSUME OneInstance, SafetyInv, ReportersFit, reporter \in [Workers -> Reporter],
         ResultsKept, [Next]_vars, Follow
  PROVE  ResultsKept'
  <1> SUFFICES ASSUME NEW v \in Workers, pc'[v] = "report" PROVE ResultKept(v)'
    BY DEF ResultsKept, ResultKept
  <1>1. CASE pc[v] = "report"
    BY <1>1, ResultStays
  <1>2. CASE pc[v] # "report"
    <2>1. Ended(v)
      BY <1>2, PhaseStep DEF PhaseMoves, Ended, Enters, EndsFrom, InRun, Reporting, Way
    <2>2. /\ \A u \in Workers \ {v} : pc'[u] = pc[u]
          /\ job' = job /\ job[v] \in Key /\ row[job[v]].status = "running"
          /\ Quiet \/ \E status \in Terminal : Moves(job[v], "running", status)
      BY <2>1, EndStep
    <2>3. PICK verdict \in Terminal :
            /\ row'[job[v]].status \in Terminal => verdict = row'[job[v]].status
            /\ reporter' = [reporter EXCEPT ![v] = Told(v, verdict)]
      <3>1. \A u \in Workers : Ended(u) => u = v
        BY <2>2 DEF Ended, Enters, InRun
      <3> QED
        BY <2>1, <3>1 DEF Follow, ReportersFollow
    <2>4. reporter'[v].verdict = verdict
      BY <2>1, <2>3, ReporterEnds
    <2>5. row'[job[v]].status \in {"running"} \cup Terminal
      BY <2>2 DEF Quiet, Moves
    <2>6. \A u \in Workers : ~Holds(u, job[v])'
      <3>1. Holds(v, job[v])
        BY <2>1 DEF Holds, Ended, Enters, Owning
      <3>2. \A u \in Workers \ {v} : ~Holds(u, job[v])
        BY <2>2, <3>1 DEF SafetyInv, WorkerInv, Ownership, ClaimIsExclusive
      <3> QED
        BY <2>2, <3>2 DEF Holds, Owning, InRun
    <2> QED
      BY <2>2, <2>3, <2>4, <2>5, <2>6 DEF ResultKept, Holds
  <1> QED
    BY <1>1, <1>2

-------------------------------------------------------------------------------
(* Streams                                                                  *)

\* A log that is written to, or emptied, is that of a row that has not ended.
LEMMA WritersRun ==
  ASSUME SafetyInv, NEW w \in Workers, pc[w] \in Owning
  PROVE  job[w] \in Key /\ row[job[w]].status = "running"
  BY DEF SafetyInv, WorkerInv, OwnersHaveRow, Ownership, HeldRowsRun, Holds

LEMMA ClosedFits ==
  ASSUME NEW t \in Stream, NEW c, c = [t EXCEPT !.at = "closed", !.of = NoKey,
                                                !.unread = FALSE, !.cut = FALSE]
  PROVE  c \in Stream /\ c.at = "closed" /\ c.of = NoKey
  BY DEF Stream

LEMMA StreamsRun ==
  ASSUME SafetyInv, StreamsFit, [Next]_vars, Follow
  PROVE  StreamsFit'
  <1> SUFFICES ASSUME NEW s \in Readers PROVE StreamFits(s)'
    BY DEF StreamsFit, StreamFits, Follow, StreamsFollow
  <1>1. stream[s] \in Stream /\ StreamFits(s)
    BY DEF StreamsFit
  <1>2. stream'[s] = IF Open(s) /\ inst'[stream[s].host] = "down" THEN Closed(s)
                     ELSE IF Open(s) /\ Truncates(stream[s].of) THEN Emptied(stream[s])
                     ELSE stream[s]
    BY DEF Follow, StreamsFollow
  <1>3. CASE stream'[s] = Closed(s)
    BY <1>1, <1>3, ClosedFits DEF Closed, StreamFits, Open
  <1>4. CASE Open(s) /\ Truncates(stream[s].of) /\ stream'[s] = Emptied(stream[s])
    <2>1. stream[s].of \in Key /\ row[stream[s].of].status = "running"
      BY <1>4, WritersRun DEF Truncates, Enters, Owning, InRun
    <2>2. stream[s].at \notin {"last", "done"}
      BY <1>1, <2>1 DEF StreamFits, Terminal
    <2>3. /\ Emptied(stream[s]) \in Stream
          /\ Emptied(stream[s]).at = stream[s].at /\ Emptied(stream[s]).of = stream[s].of
      BY <1>1 DEF Emptied, Stream
    <2> QED
      BY <1>1, <1>4, <2>2, <2>3 DEF StreamFits, Open
  <1>5. CASE stream'[s] = stream[s]
    <2>1. stream[s].at \in {"last", "done"} => row'[stream[s].of].status \in Terminal
      <3>1. stream[s].at \in {"last", "done"} => stream[s].of \in Key
        BY <1>1 DEF StreamFits, Open, Stream
      <3> QED
        BY <1>1, <3>1, EndedStays DEF StreamFits
    <2> QED
      BY <1>1, <1>5, <2>1 DEF StreamFits, Open
  <1> QED
    BY <1>2, <1>3, <1>4, <1>5

\* A line is of a log that no stream has done with.
LEMMA StreamsWritten ==
  ASSUME SafetyInv, StreamsFit, NEW w \in Workers, WriteLine(w)
  PROVE  StreamsFit'
  <1> SUFFICES ASSUME NEW s \in Readers PROVE StreamFits(s)'
    BY DEF StreamsFit, StreamFits, WriteLine
  <1>1. stream[s] \in Stream /\ StreamFits(s) /\ row' = row
    BY DEF StreamsFit, WriteLine, StreamOnly, vars
  <1>2. row[job[w]].status = "running"
    BY WritersRun DEF WriteLine, Writing, Owning, InRun
  <1>3. CASE stream[s].of = job[w] /\ stream'[s] = [stream[s] EXCEPT !.unread = TRUE]
    <2>1. stream[s].at \notin {"last", "done"}
      BY <1>1, <1>2, <1>3 DEF StreamFits, Terminal
    <2> QED
      BY <1>1, <1>3, <2>1 DEF StreamFits, Stream, Open
  <1>4. CASE stream'[s] = stream[s]
    BY <1>1, <1>4 DEF StreamFits, Open
  <1> QED
    BY <1>3, <1>4 DEF WriteLine

LEMMA StreamsRead ==
  ASSUME SafetyInv, StreamsFit, NEW s \in Readers, ReaderStep(s)
  PROVE  StreamsFit'
  <1>1. stream[s] \in Stream /\ StreamFits(s) /\ stream \in [Readers -> Stream]
    BY DEF StreamsFit
  <1>2. row' = row
    BY DEF ReaderStep, OpenStream, Sweep, Look, LastSweep, CloseStream, StreamOnly, vars
  <1> DEFINE Good(t) ==
        /\ stream' = [stream EXCEPT ![s] = t] /\ t \in Stream
        /\ t.at # "closed" <=> t.of # NoKey
        /\ t.at \in {"last", "done"} => row[t.of].status \in Terminal
        /\ t.at = "done" => t.cut \/ ~t.unread
  <1>3. ASSUME NEW t, Good(t) PROVE StreamsFit'
    <2>1. StreamFits(s)'
      BY <1>1, <1>2, <1>3 DEF StreamFits, Open
    <2>2. \A u \in Readers \ {s} : stream'[u] = stream[u]
      BY <1>1, <1>3
    <2>3. ASSUME NEW u \in Readers \ {s} PROVE StreamFits(u)'
      BY <1>2, <2>2 DEF StreamsFit, StreamFits, Open
    <2> QED
      BY <1>1, <1>3, <2>1, <2>3 DEF StreamsFit
  <1>4. ASSUME NEW k \in Key, NEW i \in Instances, OpenStream(s, k, i)
        PROVE  StreamsFit'
    <2> DEFINE t == [at |-> "wait", of |-> k, host |-> i, unread |-> k \in logs, cut |-> FALSE]
    <2>1. Good(t)
      BY <1>4, ExecutionsAssumption DEF OpenStream, Stream
    <2> QED
      BY <1>3, <2>1
  <1>5. CASE Sweep(s)
    <2> DEFINE t == [ReadAll(stream[s]) EXCEPT !.at = "look"]
    <2>1. Good(t)
      BY <1>1, <1>5 DEF Sweep, ReadAll, Stream, StreamFits, Open
    <2> QED
      BY <1>3, <2>1
  <1>6. CASE Look(s)
    <2> DEFINE t == [stream[s] EXCEPT !.at = IF row[stream[s].of].status \in Terminal
                                             THEN "last" ELSE "wait"]
    <2>1. Good(t)
      BY <1>1, <1>6 DEF Look, Stream, StreamFits, Open
    <2> QED
      BY <1>3, <2>1
  <1>7. CASE LastSweep(s)
    <2> DEFINE t == [LastRead(stream[s]) EXCEPT !.at = "done"]
    <2>1. Good(t)
      BY <1>1, <1>7 DEF LastSweep, LastRead, ReadAll, Stream, StreamFits, Open
    <2> QED
      BY <1>3, <2>1
  <1>8. CASE CloseStream(s)
    <2> DEFINE t == Closed(s)
    <2>1. Good(t)
      BY <1>1, <1>8, ClosedFits DEF CloseStream, Closed
    <2> QED
      BY <1>3, <2>1
  <1> QED
    BY <1>4, <1>5, <1>6, <1>7, <1>8 DEF ReaderStep

-------------------------------------------------------------------------------
(* The check runs of an execution                                           *)

\* A reporter works for an attempt that exists.
LEMMA ReportedRow ==
  ASSUME SafetyInv, ReportersInv, NEW w \in Workers, pc[w] \in Reporting
  PROVE  job[w] \in Key /\ Exists(job[w]) /\ Of(w) \in Key
  <1>1. job[w] \in Key /\ Exists(job[w])
    <2>1. CASE pc[w] = "report"
      BY <2>1 DEF ReportersInv, ResultsKept, ResultKept, Exists, Terminal
    <2>2. CASE pc[w] # "report"
      BY <2>2, WritersRun DEF Reporting, Owning, InRun, Exists
    <2> QED
      BY <2>1, <2>2
  <1> QED
    BY <1>1 DEF SafetyInv, StoreInv, RowsBelong, Of

\* It is that of one execution as long as it works.
LEMMA OfStays ==
  ASSUME SafetyInv, ReportersInv, [Next]_vars, NEW w \in Workers,
         pc[w] \in Reporting, pc'[w] \in Reporting
  PROVE  job'[w] = job[w] /\ Of(w)' = Of(w)
  <1>1. job'[w] = job[w]
    BY PhaseStep DEF PhaseMoves, Reporting, Registered, InRun
  <1>2. SameIdentity(job[w])
    BY ReportedRow, RowsKept
  <1> QED
    BY <1>1, <1>2 DEF Of, SameIdentity

\* No two reporters set up the check run of an execution.
LEMMA OneAtATime ==
  ASSUME SafetyInv, ReportersInv, NEW v \in Workers, NEW w \in Workers,
         pc[v] \in {"group", "build"}, pc[w] \in {"group", "build"}, Of(v) = Of(w)
  PROVE  v = w
  <1>1. /\ pc[v] \in UsingDir /\ pc[w] \in UsingDir
        /\ pc[v] \in Reporting /\ pc[w] \in Reporting
    BY DEF UsingDir, InRun, Reporting
  <1>2. Workspace(v) = Of(v) /\ Workspace(w) = Of(w)
    BY <1>1, ReportedRow DEF Workspace, Of, SafetyInv, StoreInv, RowsBelong
  <1> QED
    BY <1>1, <1>2, WorkspaceOfOne DEF OneRunPerWorkspace

\* What Follow leaves of a reporter.
LEMMA ReporterKept ==
  ASSUME SafetyInv, ReportersInv, [Next]_vars, Follow, NEW w \in Workers
  PROVE  /\ reporter'[w].at \notin {"off", "tell", "sent"} =>
              reporter'[w] = reporter[w] /\ pc'[w] \in Reporting
         /\ ~Ended(w) => reporter'[w] = IF pc'[w] \in Reporting THEN reporter[w] ELSE NoReporter
  <1>1. CASE \A v \in Workers : ~Ended(v)
    BY <1>1, NoReporterFits DEF Follow, ReportersFollow, Reporting
  <1>2. ASSUME NEW v \in Workers, NEW verdict \in Terminal, Ended(v),
               reporter' = [reporter EXCEPT ![v] = Told(v, verdict)]
        PROVE  /\ reporter'[w].at \notin {"off", "tell", "sent"} =>
                    reporter'[w] = reporter[w] /\ pc'[w] \in Reporting
               /\ ~Ended(w) =>
                    reporter'[w] = IF pc'[w] \in Reporting THEN reporter[w] ELSE NoReporter
    <2>1. CASE w = v
      BY <1>2, <2>1 DEF Told, ReportersInv
    <2>2. CASE w # v
      <3>1. pc'[w] = pc[w] /\ reporter'[w] = reporter[w] /\ ReporterFits(w)
        BY <1>2, <2>2, EndStep DEF ReportersInv, ReportersFit
      <3> QED
        BY <3>1, NoReporterFits DEF ReporterFits
    <2> QED
      BY <2>1, <2>2
  <1> QED
    BY <1>1, <1>2 DEF Follow, ReportersFollow

\* The execution's check run is made, and not yet saved, when its process stops.
Orphans(e) == \E w \in Workers : /\ pc[w] \in InRun /\ pc'[w] = "off"
                                 /\ Of(w) = e /\ reporter[w].at = "save"

LEMMA ChecksKept ==
  ASSUME check \in [Key -> Check], Follow
  PROVE  /\ check' \in [Key -> Check]
         /\ \A e \in Key :
              /\ check'[e].saved = check[e].saved /\ check'[e].shows = check[e].shows
              /\ check'[e].made = check[e].made /\ check'[e].latest = check[e].latest
              /\ check'[e].lost = check[e].lost + OneIf(Orphans(e))
  <1>1. check' = [e \in Key |-> IF Orphans(e) THEN [check[e] EXCEPT !.lost = @ + 1]
                                              ELSE check[e]]
    BY DEF Follow, CheckFollows, Orphans
  <1>2. ASSUME NEW e \in Key
        PROVE  /\ check'[e] \in Check
               /\ check'[e].saved = check[e].saved /\ check'[e].shows = check[e].shows
               /\ check'[e].made = check[e].made /\ check'[e].latest = check[e].latest
               /\ check'[e].lost = check[e].lost + OneIf(Orphans(e))
    <2>1. check[e] \in Check
      OBVIOUS
    <2>2. CASE Orphans(e)
      BY <1>1, <2>1, <2>2 DEF Check, OneIf
    <2>3. CASE ~Orphans(e)
      BY <1>1, <2>1, <2>3 DEF Check, OneIf
    <2> QED
      BY <2>2, <2>3
  <1> QED
    BY <1>1, <1>2

\* A reporter that is about to save the number does, unless its process stops.
LEMMA SavingRun ==
  ASSUME SafetyInv, ReportersInv, [Next]_vars, Follow, NEW e \in Key
  PROVE  Saving(e)' <=> Saving(e) /\ ~Orphans(e)
  <1>1. ASSUME NEW w \in Workers, reporter'[w].at = "save", Of(w)' = e
        PROVE  Saving(e) /\ ~Orphans(e)
    <2>1. reporter'[w] = reporter[w] /\ pc'[w] \in Reporting
      BY <1>1, ReporterKept
    <2>2. pc[w] \in {"group", "build"}
      BY <1>1, <2>1 DEF ReportersInv, ReportersFit, ReporterFits
    <2>3. Of(w) = e
      BY <1>1, <2>1, <2>2, OfStays DEF Reporting
    <2>4. ASSUME NEW u \in Workers, reporter[u].at = "save", Of(u) = e
          PROVE  pc'[u] # "off"
      <3>1. pc[u] \in {"group", "build"}
        BY <2>4 DEF ReportersInv, ReportersFit, ReporterFits
      <3>2. u = w
        BY <2>2, <2>3, <2>4, <3>1, OneAtATime
      <3> QED
        BY <2>1, <3>2 DEF Reporting
    <2> QED
      BY <1>1, <2>1, <2>3, <2>4 DEF Saving, Orphans
  <1>2. ASSUME NEW w \in Workers, reporter[w].at = "save", Of(w) = e, ~Orphans(e)
        PROVE  Saving(e)'
    <2>1. pc[w] \in {"group", "build"}
      BY <1>2 DEF ReportersInv, ReportersFit, ReporterFits
    <2>2. pc'[w] # "off"
      BY <1>2, <2>1 DEF Orphans, InRun
    <2>3. pc'[w] = pc[w]
      BY <1>2, <2>1, <2>2, PhaseStep
         DEF PhaseMoves, Registered, InRun, Way, EndsFrom, Follow, StartedInTime, Enters
    <2>4. reporter'[w] = reporter[w]
      BY <2>1, <2>3, ReporterKept DEF Ended, Enters, Reporting
    <2>5. Of(w)' = e
      BY <1>2, <2>1, <2>3, OfStays DEF Reporting
    <2> QED
      BY <1>2, <2>4, <2>5 DEF Saving
  <1> QED
    BY <1>1, <1>2 DEF Saving

LEMMA CountsRun ==
  ASSUME SafetyInv, ReportersInv, check \in [Key -> Check], ChecksCounted, NotYetSaved,
         [Next]_vars, Follow
  PROVE  ChecksCounted' /\ NotYetSaved'
  <1>1. ASSUME NEW e \in Key
        PROVE  check'[e].made = check'[e].lost + OneIf(check'[e].saved) + OneIf(Saving(e)')
    <2>1. /\ check[e] \in Check
          /\ check[e].made = check[e].lost + OneIf(check[e].saved) + OneIf(Saving(e))
      BY DEF ChecksCounted
    <2>2. Orphans(e) => Saving(e)
      BY DEF Orphans, Saving
    <2>3. OneIf(Saving(e)) = OneIf(Orphans(e)) + OneIf(Saving(e)')
      BY <2>2, SavingRun DEF OneIf
    <2>4. /\ check[e].lost \in Nat /\ OneIf(check[e].saved) \in Nat
          /\ OneIf(Orphans(e)) \in Nat /\ OneIf(Saving(e)') \in Nat
      BY <2>1 DEF Check, OneIf
    <2>5. /\ check'[e].saved = check[e].saved /\ check'[e].made = check[e].made
          /\ check'[e].lost = check[e].lost + OneIf(Orphans(e))
      BY ChecksKept
    <2> QED
      BY <2>1, <2>3, <2>4, <2>5
  <1>2. ASSUME NEW w \in Workers, reporter'[w].at \in {"create", "save"}
        PROVE  ~Saved(w)'
    <2>1. reporter'[w] = reporter[w] /\ pc'[w] \in Reporting
      BY <1>2, ReporterKept
    <2>2. pc[w] \in Reporting
      BY <1>2, <2>1 DEF ReportersInv, ReportersFit, ReporterFits, Reporting
    <2>3. Of(w)' = Of(w) /\ Of(w) \in Key
      BY <2>1, <2>2, OfStays, ReportedRow
    <2> QED
      BY <1>2, <2>1, <2>3, ChecksKept DEF NotYetSaved, Saved
  <1> QED
    BY <1>1, <1>2 DEF ChecksCounted, NotYetSaved

\* What a call does to the check run of its execution.
CheckCall(w, c) ==
  /\ check' = [check EXCEPT ![Of(w)] = c] /\ c \in Check
  /\ reporter[w].at \in {"off", "create", "save", "mark"} =>
       /\ c.latest = check[Of(w)].latest
       /\ c.made + check[Of(w)].lost + OneIf(check[Of(w)].saved) + OneIf(reporter[w].at = "save")
            = check[Of(w)].made + c.lost + OneIf(c.saved) + OneIf(reporter'[w].at = "save")
  /\ reporter[w].at = "tell" =>
       /\ c.made = check[Of(w)].made /\ c.lost = check[Of(w)].lost
       /\ c.saved = check[Of(w)].saved /\ reporter'[w].at = "sent"
  /\ reporter'[w].at \in {"create", "save"} => ~c.saved

LEMMA CheckCalled ==
  ASSUME SafetyInv, ReportersInv, check \in [Key -> Check], NotYetSaved,
         NEW w \in Workers, ReporterStep(w)
  PROVE  /\ \E c : CheckCall(w, c)
         /\ pc[w] \in Reporting /\ reporter[w].at \in {"off", "create", "save", "mark", "tell"}
         /\ reporter[w].at # "tell" => pc[w] \in {"group", "build"}
         /\ untold' \in {untold, untold \cup {Of(w)}, untold \ {Of(w)}}
         /\ failures' \in {failures, failures + 1} /\ (failures' # failures => failures < MaxFailures)
  <1>1. /\ pc[w] \in Reporting /\ reporter[w].at \in {"off", "create", "save", "mark", "tell"}
        /\ reporter[w].at # "tell" => pc[w] \in {"group", "build"}
    BY DEF ReporterStep, Start, Create, Save, Mark, Tell, ReportersInv, ReportersFit,
           ReporterFits, Reporting
  <1> DEFINE e == Of(w)
             n == check[e]
  <1>2. /\ job[w] \in Key /\ e \in Key /\ n \in Check /\ reporter[w] \in Reporter
        /\ row[job[w]].attempt \in Nat
    <2>1. job[w] \in Key /\ e \in Key
      BY <1>1, ReportedRow
    <2>2. row[job[w]] \in Row
      BY <2>1 DEF SafetyInv, TypeInv, TypeOK, StoreTypeOK
    <2> QED
      BY <2>1, <2>2 DEF ReportersInv, Row
  <1>3. /\ n.made \in Nat /\ n.lost \in Nat /\ n.latest \in Nat /\ n.saved \in BOOLEAN
        /\ n.shows \in Terminal \cup {"none", "in_progress"}
    BY <1>2 DEF Check
  <1>4. check' = check => check' = [check EXCEPT ![e] = n]
    OBVIOUS
  <1>5. reporter \in [Workers -> Reporter]
    BY DEF ReportersInv
  <1>6. CASE Start(w)
    <2>1. check' = check /\ reporter'[w].at # "save"
      BY <1>2, <1>5, <1>6 DEF Start, Pass, Reporter
    <2>2. reporter'[w].at = "create" => ~n.saved
      BY <1>2, <1>5, <1>6 DEF Start, Pass, Reporter, Saved
    <2>3. reporter[w].at = "off"
      BY <1>6 DEF Start
    <2>4. CheckCall(w, n)
      BY <1>2, <1>4, <2>1, <2>2, <2>3 DEF CheckCall, OneIf
    <2> QED
      BY <1>1, <1>6, <2>4 DEF Start, Refused
  <1>7. CASE Create(w)
    <2>1. reporter[w].at = "create" /\ ~n.saved
      BY <1>7 DEF Create, NotYetSaved, Saved
    <2>2. CASE /\ Called(w) /\ Pass(w, "save")
               /\ check' = [check EXCEPT ![e].made = @ + 1]
      <3> DEFINE c == [n EXCEPT !.made = n.made + 1]
      <3>1. check' = [check EXCEPT ![e] = c] /\ c \in Check /\ reporter'[w].at = "save"
        BY <1>2, <1>5, <2>2 DEF Check, Pass, Reporter
      <3>2. /\ c.made = n.made + 1 /\ c.lost = n.lost /\ c.saved = n.saved /\ c.latest = n.latest
        BY <1>2 DEF Check
      <3>3. CheckCall(w, c)
        BY <1>3, <2>1, <3>1, <3>2 DEF CheckCall, OneIf
      <3> QED
        BY <1>1, <1>7, <2>2, <3>3 DEF Create, Called
    <2>3. CASE Refused(w) /\ Pass(w, "told") /\ UNCHANGED check
      <3>1. reporter'[w].at = "told"
        BY <1>2, <1>5, <2>3 DEF Pass, Reporter
      <3>2. CheckCall(w, n)
        BY <1>2, <1>4, <2>1, <2>3, <3>1 DEF CheckCall, OneIf
      <3> QED
        BY <1>1, <1>7, <2>3, <3>2 DEF Create, Refused
    <2>4. CASE /\ Refused(w) /\ Pass(w, "told")
               /\ check' = [check EXCEPT ![e].made = @ + 1, ![e].lost = @ + 1]
      <3> DEFINE c == [n EXCEPT !.made = n.made + 1, !.lost = n.lost + 1]
      <3>1. check' = [check EXCEPT ![e] = c] /\ c \in Check /\ reporter'[w].at = "told"
        BY <1>2, <1>5, <2>4 DEF Check, Pass, Reporter
      <3>2. /\ c.made = n.made + 1 /\ c.lost = n.lost + 1 /\ c.saved = n.saved
            /\ c.latest = n.latest
        BY <1>2 DEF Check
      <3>3. CheckCall(w, c)
        BY <1>3, <2>1, <3>1, <3>2 DEF CheckCall, OneIf
      <3> QED
        BY <1>1, <1>7, <2>4, <3>3 DEF Create, Refused
    <2> QED
      BY <1>7, <2>2, <2>3, <2>4 DEF Create
  <1>8. CASE Save(w)
    <2>1. reporter[w].at = "save" /\ ~n.saved
      BY <1>8 DEF Save, NotYetSaved, Saved
    <2>2. CASE /\ Called(w) /\ Pass(w, "mark")
               /\ check' = [check EXCEPT ![e].saved = TRUE, ![e].shows = "in_progress"]
      <3> DEFINE c == [n EXCEPT !.saved = TRUE, !.shows = "in_progress"]
      <3>1. check' = [check EXCEPT ![e] = c] /\ c \in Check /\ reporter'[w].at = "mark"
        BY <1>2, <1>5, <2>2 DEF Check, Pass, Reporter
      <3>2. /\ c.made = n.made /\ c.lost = n.lost /\ c.saved = TRUE /\ c.latest = n.latest
        BY <1>2 DEF Check
      <3>3. CheckCall(w, c)
        BY <1>3, <2>1, <3>1, <3>2 DEF CheckCall, OneIf
      <3> QED
        BY <1>1, <1>8, <2>2, <3>3 DEF Save, Called
    <2>3. CASE /\ Refused(w) /\ Pass(w, "told") /\ check' = [check EXCEPT ![e].lost = @ + 1]
      <3> DEFINE c == [n EXCEPT !.lost = n.lost + 1]
      <3>1. check' = [check EXCEPT ![e] = c] /\ c \in Check /\ reporter'[w].at = "told"
        BY <1>2, <1>5, <2>3 DEF Check, Pass, Reporter
      <3>2. /\ c.made = n.made /\ c.lost = n.lost + 1 /\ c.saved = n.saved /\ c.latest = n.latest
        BY <1>2 DEF Check
      <3>3. CheckCall(w, c)
        BY <1>3, <2>1, <3>1, <3>2 DEF CheckCall, OneIf
      <3> QED
        BY <1>1, <1>8, <2>3, <3>3 DEF Save, Refused
    <2> QED
      BY <1>8, <2>2, <2>3 DEF Save
  <1>9. CASE Mark(w)
    <2>1. reporter[w].at = "mark" /\ reporter'[w].at = "told"
      BY <1>2, <1>5, <1>9 DEF Mark, Reporter
    <2>2. CASE check' = [check EXCEPT ![e].shows = "in_progress"]
      <3> DEFINE c == [n EXCEPT !.shows = "in_progress"]
      <3>1. check' = [check EXCEPT ![e] = c] /\ c \in Check
        BY <1>2, <2>2 DEF Check
      <3>2. /\ c.made = n.made /\ c.lost = n.lost /\ c.saved = n.saved /\ c.latest = n.latest
        BY <1>2 DEF Check
      <3>3. CheckCall(w, c)
        BY <1>3, <2>1, <3>1, <3>2 DEF CheckCall, OneIf
      <3> QED
        BY <1>1, <1>9, <3>3 DEF Mark, Called, Refused
    <2>3. CASE UNCHANGED check
      <3>1. CheckCall(w, n)
        BY <1>2, <1>4, <2>1, <2>3 DEF CheckCall, OneIf
      <3> QED
        BY <1>1, <1>9, <3>1 DEF Mark, Called, Refused
    <2> QED
      BY <1>9, <2>2, <2>3 DEF Mark
  <1>10. CASE Tell(w)
    <2>1. reporter[w].at = "tell" /\ reporter'[w].at = "sent"
      BY <1>2, <1>5, <1>10 DEF Tell, Pass, Reporter
    <2>2. reporter[w].verdict \in Terminal
      <3>1. ReporterFits(w)
        BY DEF ReportersInv, ReportersFit
      <3> QED
        BY <1>2, <2>1, <3>1 DEF ReporterFits, Reporter
    <2>3. untold' \in {untold, untold \cup {e}, untold \ {e}}
      BY <1>10 DEF Tell
    <2>4. /\ failures' \in {failures, failures + 1}
          /\ failures' # failures => failures < MaxFailures
      BY <1>10 DEF Tell, Called, Refused
    <2>5. CASE \E latest \in {n.latest, row[job[w]].attempt} :
                 check' = [check EXCEPT ![e].shows = reporter[w].verdict, ![e].latest = latest]
      <3> PICK latest \in {n.latest, row[job[w]].attempt} :
                 check' = [check EXCEPT ![e].shows = reporter[w].verdict, ![e].latest = latest]
        BY <2>5
      <3> DEFINE c == [n EXCEPT !.shows = reporter[w].verdict, !.latest = latest]
      <3>1. check' = [check EXCEPT ![e] = c] /\ c \in Check
        BY <1>2, <1>3, <2>2 DEF Check
      <3>2. /\ c.made = n.made /\ c.lost = n.lost /\ c.saved = n.saved
        BY <1>2 DEF Check
      <3>3. CheckCall(w, c)
        BY <2>1, <3>1, <3>2 DEF CheckCall
      <3> QED
        BY <1>1, <2>3, <2>4, <3>3
    <2>6. CASE UNCHANGED check
      <3>1. CheckCall(w, n)
        BY <1>2, <1>4, <2>1, <2>6 DEF CheckCall
      <3> QED
        BY <1>1, <2>3, <2>4, <3>1
    <2>7. \/ \E latest \in {n.latest, row[job[w]].attempt} :
               check' = [check EXCEPT ![e].shows = reporter[w].verdict, ![e].latest = latest]
          \/ UNCHANGED check
      BY <1>10 DEF Tell, Conclusion
    <2> QED
      BY <2>5, <2>6, <2>7
  <1> QED
    BY <1>6, <1>7, <1>8, <1>9, <1>10 DEF ReporterStep

\* A call of a reporter disturbs nobody else's.
LEMMA OthersStay ==
  ASSUME ReportersInv, NEW w \in Workers, ReporterStep(w)
  PROVE  /\ ReportersInv' /\ UNCHANGED vars
         /\ \A v \in Workers : Of(v)' = Of(v)
         /\ \A v \in Workers \ {w} : reporter'[v] = reporter[v]
         /\ reporter'[w].verdict = reporter[w].verdict
  <1>1. /\ ReportersFit' /\ reporter' \in [Workers -> Reporter] /\ UNCHANGED vars
        /\ \A v \in Workers \ {w} : reporter'[v] = reporter[v]
        /\ reporter'[w].verdict = reporter[w].verdict
    BY ReportersCall DEF ReportersInv
  <1>2. UNCHANGED <<row, pc, job>>
    BY <1>1 DEF vars
  <1>3. \A v \in Workers : reporter'[v].verdict = reporter[v].verdict
    BY <1>1
  <1>4. ResultsKept'
    BY <1>2, <1>3 DEF ReportersInv, ResultsKept, ResultKept, Holds
  <1> QED
    BY <1>1, <1>2, <1>4 DEF ReportersInv, Of

LEMMA CountsCalled ==
  ASSUME SafetyInv, ReportersInv, check \in [Key -> Check], ChecksCounted, NotYetSaved,
         NEW w \in Workers, ReporterStep(w)
  PROVE  check' \in [Key -> Check] /\ ChecksCounted' /\ NotYetSaved'
  <1>1. PICK c : CheckCall(w, c)
    BY CheckCalled
  <1>2. /\ pc[w] \in Reporting /\ reporter[w].at \in {"off", "create", "save", "mark", "tell"}
        /\ reporter[w].at # "tell" => pc[w] \in {"group", "build"}
    BY CheckCalled
  <1>3. PICK e \in Key : e = Of(w)
    BY <1>2, ReportedRow
  <1>4. /\ check' \in [Key -> Check] /\ check'[e] = c
        /\ \A f \in Key \ {e} : check'[f] = check[f]
    BY <1>1, <1>3 DEF CheckCall
  <1>5. /\ \A v \in Workers : Of(v)' = Of(v)
        /\ \A v \in Workers \ {w} : reporter'[v] = reporter[v]
    BY OthersStay
  <1>6. \A v \in Workers : reporter[v].at \in {"create", "save", "mark"} => pc[v] \in {"group", "build"}
    BY DEF ReportersInv, ReportersFit, ReporterFits
  <1>7. ASSUME NEW f \in Key \ {e}
        PROVE  Saving(f)' <=> Saving(f)
    BY <1>3, <1>5, <1>7 DEF Saving
  <1>8. ASSUME NEW f \in Key
        PROVE  check'[f].made = check'[f].lost + OneIf(check'[f].saved) + OneIf(Saving(f)')
    <2>1. CASE f # e
      BY <1>3, <1>4, <1>7, <2>1 DEF ChecksCounted, OneIf
    <2>2. CASE f = e /\ reporter[w].at = "tell"
      <3>1. Saving(e)' <=> Saving(e)
        <4>1. reporter[w].at # "save" /\ reporter'[w].at # "save"
          BY <1>1, <1>3, <2>2 DEF CheckCall
        <4> QED
          BY <1>3, <1>5, <4>1 DEF Saving
      <3>2. c.made = check[e].made /\ c.lost = check[e].lost /\ c.saved = check[e].saved
        BY <1>1, <1>3, <2>2 DEF CheckCall
      <3> QED
        BY <1>3, <1>4, <2>2, <3>1, <3>2 DEF ChecksCounted, OneIf
    <2>3. CASE f = e /\ reporter[w].at # "tell"
      <3>1. \A v \in Workers : reporter[v].at = "save" /\ Of(v) = e => v = w
        BY <1>2, <1>3, <1>6, <2>3, OneAtATime
      <3>2. Saving(e) <=> reporter[w].at = "save"
        BY <1>3, <3>1 DEF Saving
      <3>3. Saving(e)' <=> reporter'[w].at = "save"
        BY <1>3, <1>5, <3>1 DEF Saving
      <3>4. c.made + check[e].lost + OneIf(check[e].saved) + OneIf(reporter[w].at = "save")
              = check[e].made + c.lost + OneIf(c.saved) + OneIf(reporter'[w].at = "save")
        BY <1>1, <1>2, <1>3, <2>3 DEF CheckCall
      <3>5. check[e].made = check[e].lost + OneIf(check[e].saved) + OneIf(reporter[w].at = "save")
        BY <1>3, <3>2 DEF ChecksCounted, OneIf
      <3>6. c.made = c.lost + OneIf(c.saved) + OneIf(reporter'[w].at = "save")
        <4>1. /\ c.made \in Nat /\ c.lost \in Nat /\ check[e].made \in Nat /\ check[e].lost \in Nat
              /\ OneIf(c.saved) \in Nat /\ OneIf(reporter'[w].at = "save") \in Nat
              /\ OneIf(check[e].saved) \in Nat /\ OneIf(reporter[w].at = "save") \in Nat
          BY <1>1, <1>3 DEF CheckCall, Check, OneIf
        <4> QED
          BY <3>4, <3>5, <4>1
      <3> QED
        BY <1>3, <1>4, <2>3, <3>3, <3>6 DEF OneIf
    <2> QED
      BY <2>1, <2>2, <2>3
  <1>9. ASSUME NEW v \in Workers, reporter'[v].at \in {"create", "save"}
        PROVE  ~check'[Of(v)'].saved
    <2>1. CASE v = w
      BY <1>1, <1>3, <1>4, <1>5, <1>9, <2>1 DEF CheckCall
    <2>2. CASE v # w
      <3>1. reporter[v].at \in {"create", "save"} /\ ~check[Of(v)].saved
        BY <1>5, <1>9, <2>2 DEF NotYetSaved, Saved
      <3>2. pc[v] \in {"group", "build"} /\ Of(v) \in Key
        BY <1>6, <3>1, ReportedRow DEF Reporting
      <3>3. CASE Of(v) # e
        BY <1>3, <1>4, <1>5, <3>1, <3>2, <3>3
      <3>4. CASE Of(v) = e
        <4>1. reporter[w].at = "tell"
          BY <1>2, <1>3, <2>2, <3>2, <3>4, OneAtATime
        <4> QED
          BY <1>1, <1>3, <1>4, <1>5, <3>1, <3>4, <4>1 DEF CheckCall
      <3> QED
        BY <3>3, <3>4
    <2> QED
      BY <2>1, <2>2
  <1>10. NotYetSaved'
    BY <1>9 DEF NotYetSaved, Saved
  <1> QED
    BY <1>4, <1>8, <1>10 DEF ChecksCounted

-------------------------------------------------------------------------------
(* The last word                                                            *)

LEMMA HeardRun ==
  ASSUME SafetyInv, check \in [Key -> Check], HeardOfAttempt, [Next]_vars, Follow
  PROVE  HeardOfAttempt'
  <1> SUFFICES ASSUME NEW e \in Key, check'[e].latest # 0
               PROVE  \E k \in Key : /\ Exists(k)' /\ row'[k].execution = e
                                     /\ row'[k].attempt = check'[e].latest
    BY DEF HeardOfAttempt
  <1>1. check'[e].latest = check[e].latest
    BY ChecksKept
  <1>2. PICK k \in Key : Exists(k) /\ row[k].execution = e /\ row[k].attempt = check[e].latest
    BY <1>1 DEF HeardOfAttempt
  <1> QED
    BY <1>1, <1>2, RowsKept DEF SameIdentity

LEMMA HeardCalled ==
  ASSUME SafetyInv, ReportersInv, check \in [Key -> Check], NotYetSaved, HeardOfAttempt,
         NEW w \in Workers, ReporterStep(w)
  PROVE  HeardOfAttempt'
  <1>1. /\ pc[w] \in Reporting
        /\ reporter[w].at \in {"off", "create", "save", "mark", "tell"}
    BY CheckCalled
  <1>2. job[w] \in Key /\ Exists(job[w]) /\ Of(w) \in Key
    BY <1>1, ReportedRow
  <1>3. row' = row
    BY OthersStay DEF vars
  <1>4. \A e \in Key : \/ check'[e].latest = check[e].latest
                       \/ e = Of(w) /\ check'[e].latest = row[job[w]].attempt
    <2>1. PICK c : CheckCall(w, c)
      BY CheckCalled
    <2>2. CASE reporter[w].at # "tell"
      BY <1>1, <2>1, <2>2 DEF CheckCall
    <2>3. CASE reporter[w].at = "tell"
      <3>1. Tell(w)
        BY <2>3, <1>1 DEF ReporterStep, Start, Create, Save, Mark
      <3>2. CASE UNCHANGED check
        BY <3>2
      <3>3. ASSUME NEW shows, NEW latest \in {check[Of(w)].latest, row[job[w]].attempt},
                   check' = [check EXCEPT ![Of(w)].shows = shows, ![Of(w)].latest = latest]
            PROVE  \A e \in Key : \/ check'[e].latest = check[e].latest
                                  \/ e = Of(w) /\ check'[e].latest = row[job[w]].attempt
        <4>1. check[Of(w)] \in Check
          BY <1>2
        <4> QED
          BY <1>2, <3>3, <4>1 DEF Check
      <3> QED
        BY <3>1, <3>2, <3>3 DEF Tell
    <2> QED
      BY <2>2, <2>3
  <1> QED
    BY <1>2, <1>3, <1>4 DEF HeardOfAttempt, Of, Exists

\* While an attempt runs, the last attempt of its execution has not ended.
LEMMA RunningIsLast ==
  ASSUME SafetyInv, NEW j \in Key, row[j].status = "running", NEW k \in Key,
         row[k].execution = row[j].execution, LatestAttempt(k)
  PROVE  row[k].status \notin Terminal
  <1>1. Exists(j) /\ Exists(k) /\ row[j].attempt <= row[k].attempt
    BY DEF LatestAttempt, Exists
  <1>2. row[j].attempt \in Nat /\ row[k].attempt \in Nat
    BY DEF SafetyInv, TypeInv, TypeOK, StoreTypeOK, Row
  <1>3. CASE row[j].attempt < row[k].attempt
    BY <1>1, <1>3 DEF SafetyInv, StoreInv, SupersededAttemptsFailed
  <1>4. CASE row[j].attempt = row[k].attempt
    BY <1>1, <1>4 DEF SafetyInv, StoreInv, AttemptsUnique, SameExecution, Terminal
  <1> QED
    BY <1>1, <1>2, <1>3, <1>4

LEMMA LastIsOne ==
  ASSUME SafetyInv, NEW j \in Key, NEW k \in Key, row[j].execution = row[k].execution,
         LatestAttempt(j), Exists(k), row[k].attempt >= row[j].attempt
  PROVE  j = k
  <1>1. row[j].attempt \in Nat /\ row[k].attempt \in Nat
    BY DEF SafetyInv, TypeInv, TypeOK, StoreTypeOK, Row
  <1>2. row[k].attempt = row[j].attempt
    BY <1>1 DEF LatestAttempt
  <1> QED
    BY <1>2 DEF SafetyInv, StoreInv, AttemptsUnique, SameExecution, LatestAttempt

LEMMA LastWordRun ==
  ASSUME SafetyInv, ReportersInv, check \in [Key -> Check], LastWordTold,
         [Next]_vars, Follow
  PROVE  LastWordTold'
  <1> SUFFICES ASSUME NEW e \in Key, check'[e].saved, e \notin untold', NEW k \in Key,
                      row'[k].execution = e, LatestAttempt(k)', row'[k].status \in Terminal
               PROVE  AboutToTell(k)' \/ Shows(e, k)'
    BY DEF LastWordTold
  <1>1. /\ check[e].saved
        /\ check'[e].shows = check[e].shows /\ check'[e].latest = check[e].latest
    BY ChecksKept
  <1>2. untold' = untold \cup {f \in Key : check[f].saved /\ \E w \in Workers :
          /\ job[w] # NoKey /\ Of(w) = f
          /\ \/ Ended(w) /\ ~reporter[w].known
             \/ pc[w] = "report" /\ pc'[w] = "off" /\ reporter[w].at = "tell"}
    BY DEF Follow, UntoldFollows
  <1>3. ASSUME NEW w \in Workers, job[w] \in Key, Of(w) = e
        PROVE  /\ Ended(w) => reporter[w].known
               /\ pc[w] = "report" /\ reporter[w].at = "tell" => pc'[w] # "off"
    BY <1>1, <1>2, <1>3, ExecutionsAssumption
  <1>4. e \notin untold
    BY <1>2
  <1>5. Exists(k) /\ SameIdentity(k)
    BY RowsKept DEF Exists, Terminal
  <1>6. LatestAttempt(k) /\ row[k].execution = e
    <2>1. ASSUME NEW j \in Key, Exists(j), row[j].execution = row[k].execution
          PROVE  row[j].attempt <= row[k].attempt
      <3>1. Exists(j)' /\ SameIdentity(j)
        BY <2>1, RowsKept
      <3> QED
        BY <1>5, <2>1, <3>1 DEF SameIdentity, LatestAttempt
    <2> QED
      BY <1>5, <2>1 DEF SameIdentity, LatestAttempt
  <1>7. CASE row[k].status \notin Terminal
    <2>1. PICK w \in Workers : Ended(w) /\ job[w] = k
      BY <1>7, ResultStep
    <2>2. reporter[w].known
      BY <1>3, <1>6, <2>1 DEF Of
    <2>3. PICK v \in Workers, verdict \in Terminal :
            Ended(v) /\ reporter' = [reporter EXCEPT ![v] = Told(v, verdict)]
      BY <2>1 DEF Follow, ReportersFollow
    <2>4. v = w /\ job'[w] = k
      BY <2>1, <2>3, EndStep DEF Ended, Enters, InRun
    <2>5. reporter'[w].at = "tell"
      BY <2>2, <2>3, <2>4, ReporterEnds DEF ReportersInv
    <2> QED
      BY <2>4, <2>5 DEF AboutToTell
  <1>8. CASE row[k].status \in Terminal
    <2>1. row'[k].status = row[k].status
      BY <1>8, EndedStays
    <2>2. AboutToTell(k) \/ Shows(e, k)
      BY <1>1, <1>4, <1>6, <1>8 DEF LastWordTold
    <2>3. CASE Shows(e, k)
      BY <1>1, <1>5, <2>1, <2>3 DEF Shows, SameIdentity
    <2>4. ASSUME NEW w \in Workers, job[w] = k, reporter[w].at = "tell"
          PROVE  AboutToTell(k)'
      <3>1. pc[w] = "report"
        BY <2>4 DEF ReportersInv, ReportersFit, ReporterFits
      <3>2. pc'[w] # "off"
        BY <1>3, <1>6, <2>4, <3>1 DEF Of
      <3>3. pc'[w] = "report" /\ job'[w] = job[w]
        BY <2>4, <3>1, <3>2, PhaseStep
           DEF PhaseMoves, Registered, InRun, Way, EndsFrom, Follow, StartedInTime, Enters
      <3>4. reporter'[w] = reporter[w]
        BY <3>1, <3>3, ReporterKept DEF Ended, Enters, InRun, Reporting
      <3> QED
        BY <2>4, <3>3, <3>4 DEF AboutToTell
    <2> QED
      BY <2>2, <2>3, <2>4 DEF AboutToTell
  <1> QED
    BY <1>7, <1>8

\* The reporter of a run that goes on has a last attempt that has not ended.
LEMMA LastWordSetUp ==
  ASSUME SafetyInv, ReportersInv, check \in [Key -> Check], NotYetSaved, LastWordTold,
         NEW w \in Workers, ReporterStep(w), reporter[w].at # "tell"
  PROVE  LastWordTold'
  <1>1. row' = row
    BY OthersStay DEF vars
  <1> SUFFICES ASSUME NEW e \in Key, check'[e].saved, e \notin untold', NEW k \in Key,
                      row[k].execution = e, LatestAttempt(k), row[k].status \in Terminal
               PROVE  AboutToTell(k)' \/ Shows(e, k)'
    BY <1>1 DEF LastWordTold, LatestAttempt, Exists
  <1>2. PICK c : CheckCall(w, c)
    BY CheckCalled
  <1>3. pc[w] \in {"group", "build"} /\ untold' = untold
    BY CheckCalled DEF ReporterStep, Start, Create, Save, Mark, Tell
  <1>4. e # Of(w)
    <2>1. job[w] \in Key /\ row[job[w]].status = "running"
      BY <1>3, WritersRun DEF Owning, InRun
    <2> QED
      BY <2>1, RunningIsLast DEF Of
  <1>5. check'[e] = check[e]
    BY <1>2, <1>4 DEF CheckCall
  <1>6. AboutToTell(k) \/ Shows(e, k)
    BY <1>3, <1>5 DEF LastWordTold
  <1>7. AboutToTell(k) => AboutToTell(k)'
    <2>1. \A v \in Workers : reporter[v].at = "tell" => reporter'[v] = reporter[v] /\ job' = job
      BY OthersStay DEF vars
    <2> QED
      BY <2>1 DEF AboutToTell
  <1> QED
    BY <1>1, <1>5, <1>6, <1>7 DEF Shows

LEMMA LastWordCalled ==
  ASSUME SafetyInv, ReportersInv, check \in [Key -> Check], NotYetSaved, HeardOfAttempt,
         LastWordTold, NEW w \in Workers, ReporterStep(w), reporter[w].at = "tell"
  PROVE  LastWordTold'
  <1>1. row' = row /\ job' = job
    BY OthersStay DEF vars
  <1> SUFFICES ASSUME NEW e \in Key, check'[e].saved, e \notin untold', NEW k \in Key,
                      row[k].execution = e, LatestAttempt(k), row[k].status \in Terminal
               PROVE  AboutToTell(k)' \/ Shows(e, k)'
    BY <1>1 DEF LastWordTold, LatestAttempt, Exists
  <1>2. PICK j \in Key : j = job[w] /\ Exists(j)
    BY CheckCalled, ReportedRow
  <1>3. Tell(w)
    BY DEF ReporterStep, Start, Create, Save, Mark
  <1>4. \A v \in Workers : v # w /\ reporter[v].at = "tell" /\ job[v] = k => AboutToTell(k)'
    BY <1>1, OthersStay DEF AboutToTell
  <1>5. Of(w) = row[j].execution /\ Of(w) \in Key
    BY <1>2, CheckCalled, ReportedRow DEF Of
  <1>6. /\ row[j].attempt \in Nat /\ row[k].attempt \in Nat /\ row[j].attempt >= 1
        /\ check \in [Key -> Check] /\ check[e].latest \in Nat
    BY <1>2 DEF Check, SafetyInv, TypeInv, TypeOK, StoreTypeOK, Row, StoreInv, RowsBelong
  <1>7. CASE e # Of(w)
    <2>1. check'[e] = check[e] /\ e \notin untold
      BY <1>3, <1>7 DEF Tell
    <2>2. AboutToTell(k) \/ Shows(e, k)
      BY <2>1 DEF LastWordTold
    <2>3. job[w] # k
      BY <1>2, <1>5, <1>7
    <2> QED
      BY <1>1, <1>4, <2>1, <2>2, <2>3 DEF Shows, AboutToTell
  <1>8. CASE e = Of(w) /\ row[j].attempt < check[e].latest
    <2>1. UNCHANGED check /\ e \notin untold
      BY <1>2, <1>3, <1>8 DEF Tell
    <2>2. AboutToTell(k) \/ Shows(e, k)
      BY <2>1 DEF LastWordTold
    <2>3. j # k
      <3>1. PICK l \in Key :
              Exists(l) /\ row[l].execution = e /\ row[l].attempt = check[e].latest
        BY <1>6, <1>8 DEF HeardOfAttempt
      <3>2. row[l].attempt <= row[k].attempt
        BY <3>1 DEF LatestAttempt
      <3> QED
        BY <1>6, <1>8, <3>1, <3>2
    <2> QED
      BY <1>1, <1>2, <1>4, <2>1, <2>2, <2>3 DEF Shows, AboutToTell
  <1>9. CASE e = Of(w) /\ ~(row[j].attempt < check[e].latest)
    <2>1. /\ Called(w)
          /\ check' = [check EXCEPT ![e].shows = Conclusion(reporter[w].verdict),
                                    ![e].latest = row[j].attempt]
          /\ untold' = IF LatestAttempt(j) THEN untold \ {e} ELSE untold
      BY <1>2, <1>3, <1>9 DEF Tell
    <2>2. check'[e].shows = reporter[w].verdict /\ check'[e].latest = row[j].attempt
      <3>1. check[e] \in Check
        BY <1>6
      <3> QED
        BY <1>6, <2>1, <3>1 DEF Check, Conclusion
    <2>3. CASE j = k
      <3>1. pc[w] = "report"
        BY DEF ReportersInv, ReportersFit, ReporterFits
      <3>2. reporter[w].verdict = row[k].status
        BY <1>2, <2>3, <3>1 DEF ReportersInv, ResultsKept, ResultKept
      <3> QED
        BY <1>1, <2>2, <2>3, <3>2 DEF Shows
    <2>4. CASE j # k
      <3>1. ~(row[j].attempt >= row[k].attempt)
        BY <1>2, <1>5, <1>9, <2>4, LastIsOne
      <3>2. e \notin untold /\ check[e].saved
        <4>1. ~LatestAttempt(j)
          BY <1>5, <1>9, <3>1 DEF LatestAttempt
        <4>2. check[e] \in Check
          BY <1>6
        <4> QED
          BY <1>6, <2>1, <4>1, <4>2 DEF Check
      <3>3. AboutToTell(k) \/ Shows(e, k)
        BY <3>2 DEF LastWordTold
      <3>4. ~Shows(e, k)
        BY <1>6, <1>9, <3>1 DEF Shows
      <3> QED
        BY <1>2, <1>4, <2>4, <3>3, <3>4 DEF AboutToTell
    <2> QED
      BY <2>3, <2>4
  <1> QED
    BY <1>6, <1>7, <1>8, <1>9

-------------------------------------------------------------------------------
(* The invariant                                                            *)

LEMMA ReportsStart == ReportsInit => ReportsInv
  <1> SUFFICES ASSUME ReportsInit PROVE ReportsInv
    OBVIOUS
  <1>1. SafetyInv
    BY SafetyInit DEF ReportsInit
  <1>2. ReportersInv
    BY NoReporterFits
       DEF ReportsInit, Init, ReportersInv, ReportersFit, ReporterFits, ResultsKept, ResultKept,
           Reporting
  <1>3. StreamsFit
    BY DEF ReportsInit, StreamsFit, StreamFits, Stream, Open
  <1>4. ChecksInv
    <2>1. check = [e \in Key |-> NoCheck] /\ reporter = [w \in Workers |-> NoReporter]
      BY DEF ReportsInit
    <2>2. check \in [Key -> Check]
      BY <2>1 DEF NoCheck, Check
    <2>3. \A e \in Key : /\ check[e].made = 0 /\ check[e].lost = 0 /\ check[e].latest = 0
                         /\ check[e].saved = FALSE
      BY <2>1 DEF NoCheck
    <2>4. \A w \in Workers : reporter[w].at = "off"
      BY <2>1, NoReporterFits
    <2>5. ChecksCounted
      BY <2>3, <2>4 DEF ChecksCounted, Saving, OneIf
    <2> QED
      BY <2>2, <2>3, <2>4, <2>5 DEF ChecksInv, NotYetSaved, HeardOfAttempt, LastWordTold
  <1>5. logs \subseteq Key /\ failures \in 0 .. MaxFailures /\ untold \subseteq Key
    BY ReportsAssumption DEF ReportsInit
  <1> QED
    BY <1>1, <1>2, <1>3, <1>4, <1>5 DEF ReportsInv

\* A step of Reports is one of Runner, or leaves Runner alone.
LEMMA ReportsRuns == [ReportsNext]_reportsVars => [Next]_vars
  BY DEF ReportsNext, ReaderStep, ReporterStep, WriteLine, OpenStream, Sweep, Look, LastSweep,
         CloseStream, Start, Create, Save, Mark, Tell, StreamOnly, ReporterOnly, reportsVars

LEMMA FollowKeeps ==
  ASSUME OneInstance, ReportsInv, Next, Follow
  PROVE  ReportsInv'
  <1>1. [Next]_vars /\ SafetyInv /\ ReportersInv /\ StreamsFit /\ ChecksInv
    BY DEF ReportsInv
  <1>2. SafetyInv'
    BY <1>1, SafetyStep
  <1>3. ReportersInv'
    BY <1>1, ReportersRun, ResultsRun DEF ReportersInv
  <1>4. StreamsFit'
    BY <1>1, StreamsRun
  <1>5. ChecksInv'
    BY <1>1, ChecksKept, CountsRun, HeardRun, LastWordRun DEF ChecksInv
  <1>6. logs' \subseteq Key /\ failures' \in 0 .. MaxFailures /\ untold' \subseteq Key
    BY DEF ReportsInv, Follow, LogsFollow, UntoldFollows
  <1> QED
    BY <1>2, <1>3, <1>4, <1>5, <1>6 DEF ReportsInv

LEMMA ReadersKeep ==
  ASSUME ReportsInv,
         \/ \E s \in Readers : ReaderStep(s)
         \/ \E w \in Workers : WriteLine(w)
         \/ UNCHANGED reportsVars
  PROVE  ReportsInv'
  <1>1. UNCHANGED <<vars, logs, reporter, check, failures, untold>>
    BY DEF ReaderStep, WriteLine, OpenStream, Sweep, Look, LastSweep, CloseStream, StreamOnly,
           reportsVars, seenVars
  <1>2. UNCHANGED <<row, seq, inst, starts, pc, job, ctx, dir, retry, lost>>
    BY <1>1 DEF vars
  <1>3. SafetyInv'
    BY <1>2 DEF ReportsInv, SafetyInv, TypeInv, TypeOK, RetriesHaveRow, StoreTypeOK, StoreInv,
                RowsNumbered, RowsBelong, AttemptsUnique, AttemptsContiguous, AttemptsBounded,
                SupersededAttemptsFailed, SameExecution, Exists, RetriesBehindFailure, WorkerInv,
                DownMeansOff, OwnersHaveRow, Ownership, ClaimIsExclusive, HeldRowsRun, NoOrphans,
                Holds
  <1>4. ReportersInv'
    BY <1>1, <1>2 DEF ReportsInv, ReportersInv, ReportersFit, ReporterFits, ResultsKept,
                      ResultKept, Holds
  <1>5. StreamsFit'
    <2>1. CASE UNCHANGED stream
      BY <1>2, <2>1 DEF ReportsInv, StreamsFit, StreamFits, Open
    <2> QED
      BY <2>1, StreamsRead, StreamsWritten DEF ReportsInv, reportsVars, seenVars
  <1>6. ChecksInv'
    <2>1. ChecksInv
      BY DEF ReportsInv
    <2>2. check' \in [Key -> Check] /\ NotYetSaved'
      BY <1>1, <1>2, <2>1 DEF ChecksInv, NotYetSaved, Saved, Of
    <2>3. ChecksCounted'
      <3>1. ASSUME NEW e \in Key PROVE Saving(e)' <=> Saving(e)
        BY <1>1, <1>2 DEF Saving, Of
      <3> QED
        BY <1>1, <2>1, <3>1 DEF ChecksInv, ChecksCounted, OneIf
    <2>4. HeardOfAttempt'
      BY <1>1, <1>2, <2>1 DEF ChecksInv, HeardOfAttempt, Exists
    <2>5. LastWordTold'
      <3>1. ASSUME NEW e \in Key, NEW k \in Key
            PROVE  /\ LatestAttempt(k)' <=> LatestAttempt(k)
                   /\ AboutToTell(k)' <=> AboutToTell(k)
                   /\ Shows(e, k)' <=> Shows(e, k)
        BY <1>1, <1>2 DEF LatestAttempt, Exists, AboutToTell, Shows
      <3> QED
        BY ONLY <1>1, <1>2, <2>1, <3>1 DEF ChecksInv, LastWordTold
    <2> QED
      BY <2>2, <2>3, <2>4, <2>5 DEF ChecksInv
  <1> QED
    BY <1>1, <1>3, <1>4, <1>5, <1>6 DEF ReportsInv

LEMMA CallsKeep ==
  ASSUME OneInstance, ReportsInv, NEW w \in Workers, ReporterStep(w)
  PROVE  ReportsInv'
  <1>1. SafetyInv /\ ReportersInv /\ StreamsFit /\ ChecksInv
    BY DEF ReportsInv
  <1>2. ReportersInv' /\ UNCHANGED vars
    BY <1>1, OthersStay
  <1>3. SafetyInv'
    BY <1>1, <1>2, SafetyStep
  <1>4. UNCHANGED <<row, logs, stream>>
    BY <1>2 DEF vars, ReporterStep, Start, Create, Save, Mark, Tell, ReporterOnly
  <1>5. StreamsFit'
    BY <1>1, <1>4 DEF StreamsFit, StreamFits, Open
  <1>6. ChecksInv'
    BY <1>1, CountsCalled, HeardCalled, LastWordSetUp, LastWordCalled DEF ChecksInv
  <1>7. untold' \subseteq Key /\ failures' \in 0 .. MaxFailures
    <2>1. /\ untold' \in {untold, untold \cup {Of(w)}, untold \ {Of(w)}} /\ Of(w) \in Key
          /\ failures' \in {failures, failures + 1} /\ (failures' # failures => failures < MaxFailures)
      BY <1>1, CheckCalled, ReportedRow DEF ChecksInv
    <2> QED
      BY <2>1, ReportsAssumption DEF ReportsInv
  <1> QED
    BY <1>2, <1>3, <1>4, <1>5, <1>6, <1>7 DEF ReportsInv

LEMMA ReportsStep == OneInstance /\ ReportsInv /\ [ReportsNext]_reportsVars => ReportsInv'
  BY FollowKeeps, ReadersKeep, CallsKeep DEF ReportsNext

LEMMA ReportsInvariant == ASSUME OneInstance PROVE ReportsSpec => []ReportsInv
  <1>1. ReportsInv /\ [ReportsNext]_reportsVars => ReportsInv'
    BY ReportsStep
  <1> QED
    BY <1>1, ReportsStart, PTL DEF ReportsSpec

-------------------------------------------------------------------------------
(* What readers and the code host can rely on                               *)

\* What is shown outside adds to the runs and takes nothing from them: all that holds
\* of the queue and its workers holds in the company of readers and reporters.
THEOREM ReportsRunTheQueue == ReportsSpec => Spec
  <1>1. ReportsInit => Init
    BY DEF ReportsInit
  <1> QED
    BY <1>1, ReportsRuns, PTL DEF ReportsSpec, Spec

\* Every variable of the reports holds a value of its type, and a reporter is at work
\* only while its run is, for any number of readers, workers and failed calls.
THEOREM ReportsTyped == ASSUME OneInstance PROVE ReportsSpec => []ReportsTypeOK
  <1>1. ReportsInv => ReportsTypeOK
    BY NoReporterFits
       DEF ReportsInv, SafetyInv, TypeInv, ReportersInv, ReportersFit, ReporterFits, Reporting,
           StreamsFit, StreamFits, ChecksInv, ReportsTypeOK
  <1> QED
    BY <1>1, ReportsInvariant, PTL

\* LogStream has sent a reader all the lines of a run when it says the run is done,
\* however the run's writes and its end fall between the reads of the stream.
THEOREM StreamsTellAll == ASSUME OneInstance PROVE ReportsSpec => []StreamTellsAll
  <1>1. ReportsInv => StreamTellsAll
    BY DEF ReportsInv, StreamsFit, StreamFits, StreamTellsAll
  <1> QED
    BY <1>1, ReportsInvariant, PTL

\* githubReporter keeps one check run per execution, over retries, requeues, crashes
\* and cancellations, but for those whose number was never saved.
THEOREM ChecksAreOne == ASSUME OneInstance PROVE ReportsSpec => []OneCheckRun
  <1>1. ASSUME ReportsInv, NEW e \in Key
        PROVE  check[e].made <= 1 + check[e].lost
    <2>1. check[e] \in Check
      BY <1>1 DEF ReportsInv, ChecksInv
    <2>2. check[e].made = check[e].lost + OneIf(check[e].saved) + OneIf(Saving(e))
      BY <1>1 DEF ReportsInv, ChecksInv, ChecksCounted
    <2>3. Saving(e) => ~check[e].saved
      BY <1>1 DEF ReportsInv, ChecksInv, NotYetSaved, Saving, Saved
    <2> QED
      BY <2>1, <2>2, <2>3 DEF Check, OneIf
  <1>2. ReportsInv => OneCheckRun
    BY <1>1 DEF OneCheckRun
  <1> QED
    BY <1>2, ReportsInvariant, PTL

\* Once an execution is over, its check run shows how its last attempt ended, although
\* attempts report at their own pace, unless the last word was lost.
THEOREM ChecksShowResults == ASSUME OneInstance PROVE ReportsSpec => []CheckShowsResult
  <1>1. ASSUME ReportsInv, NEW e \in Key, check[e].saved, Settled(e), e \notin untold,
               NEW k \in Key, row[k].execution = e, LatestAttempt(k)
        PROVE  check[e].shows = row[k].status
    <2>1. AboutToTell(k) \/ Shows(e, k)
      BY <1>1 DEF ReportsInv, ChecksInv, LastWordTold, Settled
    <2>2. ~AboutToTell(k)
      BY <1>1 DEF ReportsInv, ReportersInv, ReportersFit, ReporterFits, Settled, AboutToTell, Of
    <2> QED
      BY <2>1, <2>2 DEF Shows
  <1>2. ReportsInv => CheckShowsResult
    BY <1>1 DEF CheckShowsResult
  <1> QED
    BY <1>2, ReportsInvariant, PTL
===============================================================================
