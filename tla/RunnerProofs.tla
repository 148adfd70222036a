----------------------------- MODULE RunnerProofs -----------------------------
(***************************************************************************)
(* The types of the queue and its workers; its safety when one process     *)
(* serves the database.  Both for every number of projects, rows, workers, *)
(* callers, crashes, lost writes and cancellations.                        *)
(*                                                                         *)
(* The safety invariant has three parts.  StoreInv: the attempts of an     *)
(* execution are numbered without gaps or repetitions, share a workspace,  *)
(* and all but the last are failed.  WorkerInv: a claimed row belongs to   *)
(* one worker and is running.  RetriesBehindFailure: what a retry request  *)
(* has read stays true, because a failed row never changes.  Each part     *)
(* needs the others, so they are carried through a step together.          *)
(***************************************************************************)
EXTENDS RunnerProperties, TLAPS

\* A retry past its first read works on a row.
RetriesHaveRow == \A c \in Callers : retry[c].pc # "idle" => retry[c].prev \in Key

TypeInv == TypeOK /\ RetriesHaveRow

USE DEF Key

-------------------------------------------------------------------------------
(* Rows                                                                     *)

LEMMA NoRowIsRow == NoRow \in Row
  BY ExecutionsAssumption DEF NoRow, Row, Status, Active, Terminal

LEMMA FirstAttemptIsRow ==
  ASSUME NEW id \in Key, NEW src \in {"git", "snapshot"}
  PROVE  FirstAttempt(id, src) \in Row
  BY DEF FirstAttempt, NoRow, Row, Status, Active, Terminal

LEMMA NextAttemptIsRow ==
  ASSUME row \in [Key -> Row], NEW k \in Key
  PROVE  NextAttempt(k) \in Row
  <1>1. row[k] \in Row
    OBVIOUS
  <1>2. /\ row[k].execution \in Key \cup {NoKey}
        /\ row[k].workspace \in Key \cup {NoKey}
        /\ row[k].attempt + 1 \in Nat
    BY <1>1 DEF Row
  <1> QED
    BY <1>2 DEF NextAttempt, NoRow, Row, Status, Active, Terminal

\* CreateExecution keeps the store well-typed.
LEMMA CreateTyped ==
  ASSUME StoreTypeOK, NEW p \in Projects, NEW r \in Row, CreateExecution(p, r)
  PROVE  StoreTypeOK'
  BY ExecutionsAssumption DEF StoreTypeOK, CreateExecution, NextKey


\* A row whose columns are overwritten is a row.
LEMMA UpdatedIsRow ==
  ASSUME NEW r \in Row, NEW status \in Status, NEW retryable \in BOOLEAN,
         NEW error \in {"none", "exists", "other"}
  PROVE  [r EXCEPT !.status = status, !.retryable = retryable, !.error = error] \in Row
  BY DEF Row

LEMMA GroupedIsRow ==
  ASSUME NEW r \in Row, NEW status \in Status, NEW group \in Groups
  PROVE  [r EXCEPT !.group = group, !.status = status] \in Row
  BY DEF Row

LEMMA StatusIsRow ==
  ASSUME NEW r \in Row, NEW status \in Status
  PROVE  [r EXCEPT !.status = status] \in Row
  BY DEF Row

LEMMA FlaggedIsRow ==
  ASSUME NEW r \in Row
  PROVE  /\ [r EXCEPT !.cancelRequested = TRUE] \in Row
         /\ [r EXCEPT !.cancelRequested = TRUE].status = r.status
         /\ [r EXCEPT !.cancelRequested = TRUE].execution = r.execution
         /\ [r EXCEPT !.cancelRequested = TRUE].attempt = r.attempt
         /\ [r EXCEPT !.cancelRequested = TRUE].workspace = r.workspace
         /\ [r EXCEPT !.cancelRequested = TRUE].source = r.source
  BY DEF Row

LEMMA StatusShows ==
  ASSUME NEW r \in Row, NEW status \in Status
  PROVE  /\ [r EXCEPT !.status = status].status = status
         /\ [r EXCEPT !.status = status].execution = r.execution
         /\ [r EXCEPT !.status = status].attempt = r.attempt
         /\ [r EXCEPT !.status = status].workspace = r.workspace
         /\ [r EXCEPT !.status = status].source = r.source
  BY DEF Row

\* And so does UpdateExecution, even of no row at all.
LEMMA UpdateTyped ==
  ASSUME StoreTypeOK, NEW k, NEW status \in Status, NEW r \in BOOLEAN,
         NEW error \in {"none", "exists", "other"},
         UpdateExecution(k, status, r, error)
  PROVE  StoreTypeOK'
  BY UpdatedIsRow DEF StoreTypeOK, UpdateExecution

LEMMA StatusTyped ==
  ASSUME StoreTypeOK, NEW k, NEW status \in Status,
         row' = [row EXCEPT ![k].status = status], seq' = seq
  PROVE  StoreTypeOK'
  BY StatusIsRow DEF StoreTypeOK

LEMMA FlagsTyped ==
  ASSUME StoreTypeOK, NEW k, NEW group,
         SetCancelRequested(k) \/ CancelRunningInGroup(k, group)
  PROVE  StoreTypeOK'
  <1>1. CASE SetCancelRequested(k)
    BY <1>1, FlaggedIsRow DEF StoreTypeOK, SetCancelRequested
  <1>2. CASE CancelRunningInGroup(k, group)
    BY <1>2, FlaggedIsRow DEF StoreTypeOK, CancelRunningInGroup
  <1> QED
    BY <1>1, <1>2

LEMMA RequeueTyped ==
  ASSUME StoreTypeOK, RequeueOrphaned, seq' = seq
  PROVE  StoreTypeOK'
  BY StatusIsRow
     DEF StoreTypeOK, RequeueOrphaned, Requeued, RequeuedAs, Status, Active

-------------------------------------------------------------------------------
(* Type correctness                                                         *)

LEMMA TypeInit == Init => TypeInv
  BY ExecutionsAssumption, RunnerAssumption, NoRowIsRow
     DEF Init, TypeInv, TypeOK, RetriesHaveRow, StoreInit, StoreTypeOK,
         InstanceState, WorkerState, NoRetry

\* What finish leaves well-typed.
LEMMA FinishTyped ==
  ASSUME TypeInv, NEW w \in Workers, NEW status \in Terminal, NEW r \in BOOLEAN,
         NEW error \in {"none", "exists", "other"},
         Finish(w, status, r, error)
  PROVE  /\ StoreTypeOK'
         /\ pc' \in [Workers -> WorkerState]
         /\ lost' \in 0 .. MaxLost
         /\ UNCHANGED <<inst, starts, job, ctx, retry>>
  <1>1. StoreTypeOK'
    <2>1. StoreTypeOK /\ status \in Status
      BY DEF TypeInv, TypeOK, Status
    <2>2. CASE UpdateExecution(job[w], status, r, error)
      BY ONLY <2>1, <2>2, r \in BOOLEAN, error \in {"none", "exists", "other"}, UpdateTyped
    <2>3. CASE UNCHANGED storeVars
      BY <2>1, <2>3 DEF StoreTypeOK, storeVars
    <2> QED
      BY <2>2, <2>3 DEF Finish
  <1>2. /\ pc' \in [Workers -> WorkerState]
        /\ UNCHANGED <<inst, starts, job, ctx, retry>>
    BY DEF Finish, Goto, TypeInv, TypeOK, WorkerState, procVars
  <1>3. lost' \in 0 .. MaxLost
    BY RunnerAssumption DEF Finish, TypeInv, TypeOK
  <1> QED
    BY <1>1, <1>2, <1>3

LEMMA TypeInstance ==
  ASSUME TypeInv, NEW i \in Instances, InstanceStep(i)
  PROVE  TypeInv'
  <1> USE DEF TypeInv, TypeOK, RetriesHaveRow, InstanceState, WorkerState
  <1>1. CASE StartInstance(i)
    <2>1. StoreTypeOK' /\ lost' \in 0 .. MaxLost
      <3>1. CASE RequeueOrphaned /\ UNCHANGED lost
        BY <1>1, <3>1, RequeueTyped DEF StartInstance
      <3>2. CASE lost < MaxLost /\ lost' = lost + 1 /\ UNCHANGED row
        BY <1>1, <3>2, RunnerAssumption DEF StartInstance, StoreTypeOK
      <3> QED
        BY <1>1, <3>1, <3>2 DEF StartInstance, Recover
    <2> QED
      BY <1>1, <2>1, RunnerAssumption DEF StartInstance
  <1>2. CASE Crash(i) \/ Exit(i)
    <2>1. CutShort(i) \in [Key -> {"absent", "empty", "repo"}]
      BY DEF CutShort
    <2>2. dir' \in [Key -> {"absent", "empty", "repo"}]
      BY <1>2, <2>1 DEF Crash, Exit, ProcessEnds
    <2> QED
      BY <1>2, <2>2 DEF Crash, Exit, ProcessEnds, StoreTypeOK, NoRetry
  <1>3. CASE BeginDrain(i) \/ DrainTimeout(i) \/ DrainReturn(i)
    BY <1>3 DEF BeginDrain, DrainTimeout, DrainReturn, StoreTypeOK
  <1> QED
    BY <1>1, <1>2, <1>3 DEF InstanceStep

LEMMA TypeClaiming ==
  ASSUME TypeInv, NEW w \in Workers,
         \/ Stop(w) \/ Select(w) \/ Claim(w) \/ ClaimUnread(w) \/ Count(w)
         \/ Register(w) \/ Release(w) \/ CancelRun(w)
  PROVE  TypeInv'
  <1> USE DEF TypeInv, TypeOK, RetriesHaveRow, WorkerState, Goto, procVars
  <1>1. CASE Stop(w) \/ Select(w)
    BY <1>1 DEF Stop, Select, StoreTypeOK
  <1>2. CASE Claim(w)
    <2>1. StoreTypeOK'
      <3>1. CASE row' = [row EXCEPT ![job[w]].status = "running"] /\ seq' = seq
        <4>1. StoreTypeOK /\ "running" \in Status
          BY DEF Status, Active
        <4> QED
          BY ONLY <3>1, <4>1, StatusTyped
      <3>2. CASE UNCHANGED <<row, seq>>
        BY <3>2 DEF StoreTypeOK
      <3> QED
        BY <1>2, <3>1, <3>2 DEF Claim
    <2> QED
      BY <1>2, <2>1 DEF Claim
  <1>3. CASE Count(w) \/ Register(w) \/ Release(w) \/ CancelRun(w)
    BY <1>3 DEF Count, Register, Release, CancelRun, StoreTypeOK
  <1>4. CASE ClaimUnread(w)
    BY <1>4, RunnerAssumption DEF ClaimUnread, StoreTypeOK
  <1> QED
    BY <1>1, <1>2, <1>3, <1>4

\* A run whose setup failed.
LEMMA SetupTyped ==
  ASSUME TypeInv, NEW w \in Workers, NEW error \in {"none", "exists", "other"},
         FailSetup(w, error), dir' \in [Key -> {"absent", "empty", "repo"}]
  PROVE  TypeInv'
  <1>1. /\ StoreTypeOK' /\ pc' \in [Workers -> WorkerState] /\ lost' \in 0 .. MaxLost
        /\ UNCHANGED <<inst, starts, job, ctx, retry>>
    BY FinishTyped DEF FailSetup, Terminal
  <1> QED
    BY <1>1 DEF TypeInv, TypeOK, RetriesHaveRow

LEMMA TypePreparing ==
  ASSUME TypeInv, NEW w \in Workers,
         \/ Begin(w) \/ Reuse(w) \/ CloneFresh(w) \/ CloneOver(w) \/ Extract(w)
  PROVE  TypeInv'
  <1> USE DEF TypeInv, TypeOK, RetriesHaveRow, WorkerState, Goto, procVars
  <1>1. ASSUME NEW error \in {"none", "exists", "other"}, FailSetup(w, error),
               dir' \in [Key -> {"absent", "empty", "repo"}]
        PROVE  TypeInv'
    BY <1>1, SetupTyped
  <1>2. CASE Prepared(w)
    BY <1>2 DEF Prepared, StoreTypeOK
  <1>3. CASE Begin(w)
    <2>1. CASE ctx[w] = "live" /\ row' = [row EXCEPT ![job[w]].status = "running"]
               /\ Goto(w, "prepare")
               /\ UNCHANGED <<seq, procVars, job, ctx, retry, lost, dir>>
      <3>1. StoreTypeOK'
        BY <2>1, StatusTyped DEF StoreTypeOK, Status, Active
      <3> QED
        BY <2>1, <3>1
    <2>2. CASE FailSetup(w, "other") /\ UNCHANGED dir
      BY <1>1, <2>2
    <2> QED
      BY <1>3, <2>1, <2>2 DEF Begin
  <1>4. CASE Reuse(w)
    <2>1. CASE FailSetup(w, "other") /\ UNCHANGED dir
      BY <1>1, <2>1
    <2>2. CASE Goto(w, "group") /\ UNCHANGED <<row, seq, procVars, job, ctx, retry, lost, dir>>
      BY <2>2 DEF StoreTypeOK
    <2> QED
      BY <1>4, <2>1, <2>2 DEF Reuse
  <1>5. CASE CloneFresh(w)
    BY <1>1, <1>2, <1>5 DEF CloneFresh
  <1>6. CASE CloneOver(w)
    BY <1>1, <1>2, <1>6 DEF CloneOver
  <1>7. CASE Extract(w)
    <2>1. CASE Prepared(w)
      BY <1>2, <2>1
    <2>2. CASE /\ FailSetup(w, "other")
               /\ \E left \in {dir[Workspace(w)], "repo"} :
                    dir' = [dir EXCEPT ![Workspace(w)] = left]
      <3>1. dir' \in [Key -> {"absent", "empty", "repo"}]
        BY <2>2
      <3> QED
        BY <1>1, <2>2, <3>1
    <2> QED
      BY <1>7, <2>1, <2>2 DEF Extract
  <1> QED
    BY <1>3, <1>4, <1>5, <1>6, <1>7

LEMMA TypeRunning ==
  ASSUME TypeInv, NEW w \in Workers,
         ReadConfig(w) \/ Supersede(w) \/ Build(w) \/ StepUpdate(w) \/ EndSteps(w)
  PROVE  TypeInv'
  <1> USE DEF TypeInv, TypeOK, RetriesHaveRow, WorkerState, Goto, procVars
  <1>1. ASSUME NEW status \in Terminal, NEW r \in BOOLEAN,
               NEW error \in {"none", "exists", "other"},
               Finish(w, status, r, error), UNCHANGED dir
        PROVE  TypeInv'
    BY <1>1, FinishTyped
  <1>2. CASE Goto(w, "steps") /\ UNCHANGED <<row, seq, procVars, job, ctx, retry, lost, dir>>
    BY <1>2 DEF StoreTypeOK
  <1>3. CASE FailSetup(w, "other") /\ UNCHANGED dir
    BY <1>1, <1>3 DEF FailSetup, Terminal
  <1>4. CASE ReadConfig(w)
    <2>1. ASSUME NEW g \in Groups,
                 row' = [row EXCEPT ![job[w]].group = g, ![job[w]].status = "running"],
                 Goto(w, "supersede"),
                 UNCHANGED <<seq, procVars, job, ctx, retry, lost, dir>>
          PROVE  TypeInv'
      <3>1. StoreTypeOK'
        BY <2>1, GroupedIsRow DEF StoreTypeOK, Status, Active
      <3> QED
        BY <2>1, <3>1
    <2> QED
      BY <1>2, <1>3, <1>4, <2>1 DEF ReadConfig
  <1>5. CASE Supersede(w)
    <2>1. StoreTypeOK'
      BY <1>5, FlagsTyped DEF Supersede, storeVars, StoreTypeOK
    <2> QED
      BY <1>5, <2>1 DEF Supersede
  <1>6. CASE Build(w)
    BY <1>2, <1>3, <1>6 DEF Build
  <1>7. CASE StepUpdate(w)
    <2>1. StoreTypeOK'
      BY <1>7, UpdateTyped DEF StepUpdate, Status, Active
    <2> QED
      BY <1>7, <2>1 DEF StepUpdate, workerVars
  <1>8. CASE EndSteps(w)
    BY <1>1, <1>8 DEF EndSteps, Terminal
  <1> QED
    BY <1>4, <1>5, <1>6, <1>7, <1>8

LEMMA TypeRequests ==
  ASSUME TypeInv,
         \/ \E c \in Callers : CallerStep(c)
         \/ \E p \in Projects, src \in Sources : Submit(p, src)
         \/ \E k \in Key : RequestCancel(k)
  PROVE  TypeInv'
  <1> USE DEF TypeInv, TypeOK, RetriesHaveRow, procVars, workerVars
  <1>1. CASE \E c \in Callers, k \in Key : RetryRead(c, k)
    BY <1>1 DEF RetryRead, storeVars, StoreTypeOK
  <1>2. ASSUME NEW c \in Callers, RetryCheck(c)
        PROVE  TypeInv'
    <2> DEFINE State == [pc : {"idle", "check", "insert"}, prev : Key \cup {NoKey}]
    <2>1. PICK r \in State : /\ retry' = [retry EXCEPT ![c] = r]
                             /\ r.pc # "idle" => r.prev \in Key
      <3>1. [retry[c] EXCEPT !.pc = "insert"] \in State
        OBVIOUS
      <3>2. [retry[c] EXCEPT !.pc = "insert"].prev \in Key
        BY <1>2 DEF RetryCheck
      <3>3. NoRetry \in State /\ NoRetry.pc = "idle"
        BY DEF NoRetry
      <3> QED
        BY <1>2, <3>1, <3>2, <3>3 DEF RetryCheck, RetryEnds
    <2>2. retry' \in [Callers -> State]
      BY <2>1
    <2>3. RetriesHaveRow'
      BY <2>1
    <2> QED
      BY <1>2, <2>2, <2>3 DEF RetryCheck, storeVars, StoreTypeOK
  <1>3. ASSUME NEW c \in Callers, RetryInsert(c)
        PROVE  TypeInv'
    <2> DEFINE prev == retry[c].prev
    <2>1. prev \in Key /\ prev[1] \in Projects
      BY <1>3 DEF RetryInsert
    <2>2. StoreTypeOK'
      <3>1. CASE CreateExecution(prev[1], NextAttempt(prev))
        BY <2>1, <3>1, CreateTyped, NextAttemptIsRow DEF StoreTypeOK
      <3>2. CASE UNCHANGED storeVars
        BY <3>2 DEF storeVars, StoreTypeOK
      <3> QED
        BY <1>3, <3>1, <3>2 DEF RetryInsert
    <2> QED
      BY <1>3, <2>2 DEF RetryInsert, RetryEnds, NoRetry
  <1>4. ASSUME NEW p \in Projects, NEW src \in Sources, Submit(p, src)
        PROVE  TypeInv'
    <2>1. NextKey(p) \in Key
      BY <1>4, ExecutionsAssumption
         DEF Submit, CreateExecution, NextKey, StoreTypeOK
    <2>2. StoreTypeOK'
      BY <1>4, <2>1, CreateTyped, FirstAttemptIsRow, RunnerAssumption DEF Submit
    <2> QED
      BY <1>4, <2>2 DEF Submit
  <1>5. ASSUME NEW k \in Key, RequestCancel(k)
        PROVE  TypeInv'
    <2>1. StoreTypeOK'
      BY <1>5, FlagsTyped DEF RequestCancel
    <2> QED
      BY <1>5, <2>1 DEF RequestCancel
  <1> QED
    BY <1>1, <1>2, <1>3, <1>4, <1>5 DEF CallerStep

LEMMA TypeStep == TypeInv /\ [Next]_vars => TypeInv'
  <1> SUFFICES ASSUME TypeInv, [Next]_vars PROVE TypeInv'
    OBVIOUS
  <1>1. CASE UNCHANGED vars
    BY <1>1 DEF vars, TypeInv, TypeOK, RetriesHaveRow, StoreTypeOK
  <1>2. CASE Next
    BY <1>2, TypeInstance, TypeClaiming, TypePreparing, TypeRunning, TypeRequests
       DEF Next, WorkerStep
  <1> QED
    BY <1>1, <1>2

\* Whatever the store, the workers and the callers do, and however often the
\* processes crash, every variable keeps its type.
THEOREM TypeCorrect == Spec => []TypeOK
  <1>1. TypeInv => TypeOK
    BY DEF TypeInv
  <1> QED
    BY <1>1, TypeInit, TypeStep, PTL DEF Spec

-------------------------------------------------------------------------------
(* The safety of the queue                                                  *)

\* Rows are the numbers drawn so far.
RowsNumbered == \A k \in Key : Exists(k) <=> k[2] <= seq[k[1]]

\* A row belongs to an execution, which is a row, and works in its directory.
RowsBelong ==
  \A k \in Key : Exists(k) =>
    /\ row[k].attempt >= 1
    /\ row[k].execution \in Key /\ Exists(row[k].execution)
    /\ row[k].workspace = row[k].execution

SameExecution(j, k) == Exists(j) /\ Exists(k) /\ row[j].execution = row[k].execution

AttemptsUnique ==
  \A j, k \in Key : SameExecution(j, k) /\ row[j].attempt = row[k].attempt => j = k

AttemptsContiguous ==
  \A k \in Key : Exists(k) =>
    \A n \in 1 .. row[k].attempt :
      \E j \in Key : SameExecution(j, k) /\ row[j].attempt = n

\* Each attempt has a row of its project to itself.
AttemptsBounded == \A k \in Key : Exists(k) => row[k].attempt <= k[2]

StoreInv == /\ RowsNumbered /\ RowsBelong /\ AttemptsUnique /\ AttemptsContiguous
            /\ AttemptsBounded
            /\ SupersededAttemptsFailed

\* A retry in flight builds on an attempt that failed.
RetriesBehindFailure ==
  \A c \in Callers : retry[c].pc # "idle" => row[retry[c].prev].status = "failed"

DownMeansOff == \A w \in Workers : inst[Home[w]] = "down" => pc[w] = "off"
OwnersHaveRow ==
  \A w \in Workers : pc[w] \in Owning \cup {"update"} => job[w] \in Key

WorkerInv == DownMeansOff /\ OwnersHaveRow /\ Ownership

\* No other process shares the database and the workspaces.
OneInstance == \A i, j \in Instances : i = j

SafetyInv == TypeInv /\ StoreInv /\ RetriesBehindFailure /\ WorkerInv

-------------------------------------------------------------------------------
(* What a step may do to the store: change the status of rows that have not  *)
(* ended, or insert one row.                                                 *)

SameIdentity(k) == /\ row'[k].execution = row[k].execution
                   /\ row'[k].attempt = row[k].attempt
                   /\ row'[k].workspace = row[k].workspace
                   /\ row'[k].source = row[k].source

StatusMoves(k) == \/ row'[k].status = row[k].status
                  \/ row[k].status \in Active /\ row'[k].status \in Active \cup Terminal

Progress == seq' = seq /\ \A k \in Key : SameIdentity(k) /\ StatusMoves(k)

IsFirst(r, p) == /\ r.execution = NextKey(p) /\ r.workspace = NextKey(p)
                 /\ r.attempt = 1

IsNext(r, p) == \E prev \in Key : /\ prev[1] = p /\ row[prev].status = "failed"
                                  /\ r.execution = row[prev].execution
                                  /\ r.workspace = row[prev].workspace
                                  /\ r.attempt = row[prev].attempt + 1

Insertion(p, r) == /\ CreateExecution(p, r) /\ r.status = "pending"
                   /\ IsFirst(r, p) \/ IsNext(r, p)

LEMMA ProgressKeepsStore ==
  ASSUME StoreTypeOK, StoreInv, Progress
  PROVE  StoreInv'
  <1>1. \A k \in Key : Exists(k)' <=> Exists(k)
    BY DEF Progress, StatusMoves, Exists, Active, Terminal
  <1>2. \A k \in Key : /\ row'[k].execution = row[k].execution
                       /\ row'[k].attempt = row[k].attempt
                       /\ row'[k].workspace = row[k].workspace
    BY DEF Progress, SameIdentity
  <1>3. \A k \in Key : row[k].status = "failed" => row'[k].status = "failed"
    BY DEF Progress, StatusMoves, Active
  <1>4. RowsNumbered'
    BY <1>1 DEF StoreInv, RowsNumbered, Progress
  <1>5. RowsBelong'
    BY <1>1, <1>2 DEF StoreInv, RowsBelong
  <1>6. \A j, k \in Key : SameExecution(j, k)' <=> SameExecution(j, k)
    BY <1>1, <1>2 DEF SameExecution
  <1>7. AttemptsUnique'
    BY <1>2, <1>6 DEF StoreInv, AttemptsUnique
  <1>8. AttemptsContiguous'
    BY <1>1, <1>2, <1>6 DEF StoreInv, AttemptsContiguous
  <1>9. SupersededAttemptsFailed'
    BY <1>1, <1>2, <1>3 DEF StoreInv, SupersededAttemptsFailed
  <1>10. AttemptsBounded'
    BY <1>1, <1>2 DEF StoreInv, AttemptsBounded
  <1> QED
    BY <1>4, <1>5, <1>7, <1>8, <1>9, <1>10 DEF StoreInv

LEMMA InsertionKeepsStore ==
  ASSUME StoreTypeOK, StoreInv, NEW p \in Projects, NEW r \in Row, Insertion(p, r)
  PROVE  /\ StoreInv'
         /\ ~Exists(NextKey(p)) /\ NextKey(p) \in Key
         /\ row' = [row EXCEPT ![NextKey(p)] = r]
  <1>0. /\ seq[p] \in 0 .. MaxId /\ seq[p] < MaxId /\ MaxId \in Nat
        /\ row' = [row EXCEPT ![NextKey(p)] = r]
        /\ seq' = [seq EXCEPT ![p] = seq[p] + 1]
    BY ExecutionsAssumption DEF Insertion, CreateExecution, StoreTypeOK
  <1>a. NextKey(p) \in Key
    <2>1. seq[p] + 1 \in 1 .. MaxId
      BY <1>0
    <2> QED
      BY <2>1 DEF NextKey
  <1> PICK new \in Key : new = NextKey(p)
    BY <1>a
  <1>1. /\ new[1] = p /\ new[2] = seq[p] + 1
        /\ row' = [row EXCEPT ![new] = r]
        /\ seq' = [seq EXCEPT ![p] = seq[p] + 1]
        /\ seq[p] \in Nat
    BY <1>0 DEF NextKey
  <1>2. ~Exists(new)
    BY <1>1 DEF StoreInv, RowsNumbered
  <1>3. /\ row'[new] = r /\ Exists(new)'
        /\ \A k \in Key \ {new} : row'[k] = row[k] /\ (Exists(k)' <=> Exists(k))
    BY <1>1 DEF StoreTypeOK, Exists, Insertion
  <1>4. \A k \in Key : Exists(k) => k # new /\ row'[k] = row[k] /\ Exists(k)'
    BY <1>2, <1>3
  <1>5. \A k \in Key : Exists(k)' => k = new \/ Exists(k)
    BY <1>3
  <1>6. IsFirst(r, p) => \A k \in Key : Exists(k) => row[k].execution # r.execution
    BY <1>2 DEF IsFirst, StoreInv, RowsBelong
  <1>7. RowsNumbered'
    <2>1. ASSUME NEW k \in Key PROVE Exists(k)' <=> k[2] <= seq'[k[1]]
      <3>1. CASE k = new
        BY <1>1, <1>3, <3>1 DEF StoreTypeOK
      <3>2. CASE k # new
        <4>1. Exists(k)' <=> k[2] <= seq[k[1]]
          BY <1>3, <3>2 DEF StoreInv, RowsNumbered
        <4>2. CASE k[1] # p
          BY <1>1, <4>1, <4>2 DEF StoreTypeOK
        <4>3. CASE k[1] = p
          <5>1. k = <<k[1], k[2]>> /\ new = <<new[1], new[2]>> /\ k[2] \in Nat
            OBVIOUS
          <5>2. k[2] # seq[p] + 1
            BY <1>1, <3>2, <4>3, <5>1
          <5>3. seq'[p] = seq[p] + 1 /\ seq[p] \in Nat
            BY <1>1 DEF StoreTypeOK
          <5>4. k[2] <= seq[p] <=> k[2] <= seq[p] + 1
            BY <5>1, <5>2, <5>3
          <5> QED
            BY <4>1, <4>3, <5>3, <5>4
        <4> QED
          BY <4>2, <4>3
      <3> QED
        BY <3>1, <3>2
    <2> QED
      BY <2>1 DEF RowsNumbered
  <1>8. /\ r.attempt \in Nat /\ r.attempt >= 1
        /\ r.execution \in Key /\ Exists(r.execution)' /\ r.workspace = r.execution
    <2>1. CASE IsFirst(r, p)
      BY <1>1, <1>3, <2>1 DEF IsFirst
    <2>2. CASE IsNext(r, p)
      <3>1. PICK prev \in Key : /\ row[prev].status = "failed"
                                /\ r.execution = row[prev].execution
                                /\ r.workspace = row[prev].workspace
                                /\ r.attempt = row[prev].attempt + 1
        BY <2>2 DEF IsNext
      <3>2. Exists(prev) /\ row[prev].attempt \in Nat
        BY <3>1 DEF Exists, StoreTypeOK, Row
      <3> QED
        BY <1>4, <3>1, <3>2 DEF StoreInv, RowsBelong
    <2> QED
      BY <2>1, <2>2 DEF Insertion
  <1>9. RowsBelong'
    <2>1. ASSUME NEW k \in Key, Exists(k)'
          PROVE  /\ row'[k].attempt >= 1
                 /\ row'[k].execution \in Key /\ Exists(row[k].execution)'
                 /\ row'[k].workspace = row'[k].execution
      <3>1. CASE k = new
        BY <1>3, <1>8, <3>1 DEF Exists
      <3>2. CASE Exists(k)
        <4>1. row'[k] = row[k]
          BY <1>4, <3>2
        <4>2. /\ row[k].attempt >= 1 /\ row[k].execution \in Key
              /\ Exists(row[k].execution) /\ row[k].workspace = row[k].execution
          BY <3>2 DEF StoreInv, RowsBelong
        <4>3. row'[row[k].execution].status # "none"
          BY <1>4, <4>2 DEF Exists
        <4> QED
          BY <4>1, <4>2, <4>3 DEF Exists
      <3> QED
        BY <1>5, <2>1, <3>1, <3>2
    <2> QED
      BY <2>1 DEF RowsBelong
  <1>10. \A k \in Key : Exists(k) /\ row[k].execution = r.execution
                          => /\ row[k].attempt < r.attempt /\ row[k].attempt \in Nat
                             /\ row[k].status = "failed"
    <2>1. CASE IsFirst(r, p)
      BY <1>6, <2>1
    <2>2. CASE IsNext(r, p)
      <3>1. PICK prev \in Key : /\ row[prev].status = "failed"
                                /\ r.execution = row[prev].execution
                                /\ r.attempt = row[prev].attempt + 1
        BY <2>2 DEF IsNext
      <3> SUFFICES ASSUME NEW k \in Key, Exists(k), row[k].execution = r.execution
                   PROVE  /\ row[k].attempt < r.attempt /\ row[k].attempt \in Nat
                          /\ row[k].status = "failed"
        OBVIOUS
      <3>2. /\ Exists(prev) /\ SameExecution(prev, k)
            /\ row[k].attempt \in Nat /\ row[prev].attempt \in Nat
        BY <3>1 DEF Exists, SameExecution, StoreTypeOK, Row
      <3>3. row[k].attempt <= row[prev].attempt
        <4> SUFFICES ASSUME r.attempt <= row[k].attempt PROVE FALSE
          BY <3>1, <3>2
        <4>1. r.attempt \in 1 .. row[k].attempt
          BY <1>8, <3>2
        <4>2. PICK j \in Key : SameExecution(j, k) /\ row[j].attempt = r.attempt
          BY <4>1 DEF StoreInv, AttemptsContiguous
        <4> QED
          BY <4>2 DEF SameExecution, Insertion, CreateExecution, UniqueIndexAllows
      <3>4. row[k].status = "failed"
        <4>1. CASE row[k].attempt < row[prev].attempt
          BY <3>2, <4>1 DEF StoreInv, SupersededAttemptsFailed, SameExecution
        <4>2. CASE row[k].attempt = row[prev].attempt
          BY <3>1, <3>2, <4>2 DEF StoreInv, AttemptsUnique, SameExecution
        <4> QED
          BY <3>2, <3>3, <4>1, <4>2
      <3> QED
        BY <3>1, <3>2, <3>3, <3>4
    <2> QED
      BY <2>1, <2>2 DEF Insertion
  <1>11. \A k \in Key : Exists(k) => SameExecution(k, new)' <=> row[k].execution = r.execution
    BY <1>1, <1>3, <1>4 DEF SameExecution
  <1>12. \A j, k \in Key : Exists(j) /\ Exists(k) => SameExecution(j, k)' <=> SameExecution(j, k)
    BY <1>4 DEF SameExecution
  <1>13. AttemptsUnique'
    <2> SUFFICES ASSUME NEW j \in Key, NEW k \in Key, SameExecution(j, k)',
                        row'[j].attempt = row'[k].attempt
                 PROVE  j = k
      BY DEF AttemptsUnique
    <2>1. CASE Exists(j) /\ Exists(k)
      BY <1>4, <1>12, <2>1 DEF StoreInv, AttemptsUnique
    <2>2. CASE j = new \/ k = new
      BY <1>3, <1>4, <1>5, <1>8, <1>10, <2>2 DEF SameExecution
    <2> QED
      BY <1>5, <2>1, <2>2 DEF SameExecution
  <1>14. AttemptsContiguous'
    <2> SUFFICES ASSUME NEW k \in Key, Exists(k)', NEW n \in 1 .. row'[k].attempt
                 PROVE  \E j \in Key : SameExecution(j, k)' /\ row'[j].attempt = n
      BY DEF AttemptsContiguous
    <2>1. CASE Exists(k)
      <3>1. PICK j \in Key : SameExecution(j, k) /\ row[j].attempt = n
        BY <1>4, <2>1 DEF StoreInv, AttemptsContiguous
      <3> QED
        BY <1>4, <1>12, <2>1, <3>1 DEF SameExecution
    <2>2. CASE k = new /\ n = r.attempt
      BY <1>1, <1>3, <2>2 DEF SameExecution
    <2>3. CASE k = new /\ n < r.attempt
      <3>1. CASE IsFirst(r, p)
        BY <2>3, <3>1 DEF IsFirst
      <3>2. CASE IsNext(r, p)
        <4>1. PICK prev \in Key : /\ row[prev].status = "failed"
                                  /\ r.execution = row[prev].execution
                                  /\ r.attempt = row[prev].attempt + 1
          BY <3>2 DEF IsNext
        <4>2. Exists(prev) /\ row[prev].attempt \in Nat
          BY <4>1 DEF Exists, StoreTypeOK, Row
        <4>3. n \in 1 .. row[prev].attempt
          BY <2>3, <4>1, <4>2
        <4>4. PICK j \in Key : SameExecution(j, prev) /\ row[j].attempt = n
          BY <4>2, <4>3 DEF StoreInv, AttemptsContiguous
        <4> QED
          BY <1>4, <1>11, <2>3, <4>1, <4>4 DEF SameExecution
      <3> QED
        BY <3>1, <3>2 DEF Insertion
    <2> QED
      BY <1>3, <1>5, <1>8, <2>1, <2>2, <2>3
  <1>15. SupersededAttemptsFailed'
    <2> SUFFICES ASSUME NEW j \in Key, NEW k \in Key, Exists(j)', Exists(k)',
                        row'[j].execution = row'[k].execution,
                        row'[j].attempt < row'[k].attempt
                 PROVE  row'[j].status = "failed"
      BY DEF SupersededAttemptsFailed
    <2>1. CASE Exists(j) /\ Exists(k)
      BY <1>4, <2>1 DEF StoreInv, SupersededAttemptsFailed
    <2>2. CASE Exists(j) /\ k = new
      BY <1>3, <1>4, <1>10, <2>2
    <2>3. CASE j = new /\ Exists(k)
      BY <1>3, <1>4, <1>8, <1>10, <2>3
    <2>4. CASE j = new /\ k = new
      BY <1>3, <1>8, <2>4
    <2> QED
      BY <1>5, <2>1, <2>2, <2>3, <2>4
  <1>16. AttemptsBounded'
    <2>1. r.attempt <= new[2]
      <3>1. CASE IsFirst(r, p)
        BY <1>1, <3>1 DEF IsFirst
      <3>2. CASE IsNext(r, p)
        <4>1. PICK prev \in Key : /\ prev[1] = p /\ row[prev].status = "failed"
                                  /\ r.attempt = row[prev].attempt + 1
          BY <3>2 DEF IsNext
        <4>2. Exists(prev) /\ row[prev].attempt \in Nat /\ prev[2] \in Nat
          BY <4>1 DEF Exists, StoreTypeOK, Row
        <4>3. row[prev].attempt <= prev[2] /\ prev[2] <= seq[p]
          BY <4>1, <4>2 DEF StoreInv, AttemptsBounded, RowsNumbered
        <4> QED
          BY <1>1, <4>1, <4>2, <4>3
      <3> QED
        BY <3>1, <3>2 DEF Insertion
    <2> QED
      BY <1>3, <1>4, <1>5, <2>1 DEF StoreInv, AttemptsBounded
  <1> QED
    BY <1>1, <1>2, <1>7, <1>9, <1>13, <1>14, <1>15, <1>16 DEF StoreInv

-------------------------------------------------------------------------------
(* Every step is an insertion or progress.                                  *)

\* A held row may be written freely: it is running.
LEMMA HeldRowProgress ==
  ASSUME SafetyInv, NEW w \in Workers, pc[w] \in Owning,
         NEW status \in Active \cup Terminal,
         \/ row' = [row EXCEPT ![job[w]].status = status]
         \/ \E r \in BOOLEAN, error \in {"none", "exists", "other"} :
              row' = [row EXCEPT ![job[w]] = [@ EXCEPT !.status = status,
                                                       !.retryable = r,
                                                       !.error = error]]
         \/ \E g \in Groups :
              row' = [row EXCEPT ![job[w]].group = g, ![job[w]].status = status],
         seq' = seq
  PROVE  Progress
  <1>1. job[w] \in Key /\ row[job[w]].status = "running"
    BY DEF SafetyInv, WorkerInv, OwnersHaveRow, Ownership, HeldRowsRun, Holds
  <1>2. row \in [Key -> Row]
    BY DEF SafetyInv, TypeInv, TypeOK, StoreTypeOK
  <1>3. \A k \in Key \ {job[w]} : row'[k] = row[k]
    BY <1>1, <1>2
  <1>4. /\ row'[job[w]].execution = row[job[w]].execution
        /\ row'[job[w]].attempt = row[job[w]].attempt
        /\ row'[job[w]].workspace = row[job[w]].workspace
        /\ row'[job[w]].source = row[job[w]].source
        /\ row'[job[w]].status = status
    <2> DEFINE old == row[job[w]]
    <2>1. old \in Row
      BY <1>1, <1>2
    <2>2. CASE row' = [row EXCEPT ![job[w]].status = status]
      <3>1. row'[job[w]] = [old EXCEPT !.status = status]
        BY <1>1, <1>2, <2>2
      <3> QED
        BY <2>1, <3>1 DEF Row
    <2>3. ASSUME NEW r, NEW error,
                 row' = [row EXCEPT ![job[w]] = [@ EXCEPT !.status = status,
                                                         !.retryable = r,
                                                         !.error = error]]
          PROVE  /\ row'[job[w]].execution = old.execution
                 /\ row'[job[w]].attempt = old.attempt
                 /\ row'[job[w]].workspace = old.workspace
                 /\ row'[job[w]].source = old.source
                 /\ row'[job[w]].status = status
      <3>1. row'[job[w]] = [old EXCEPT !.status = status, !.retryable = r, !.error = error]
        BY <1>1, <1>2, <2>3
      <3> QED
        BY <2>1, <3>1 DEF Row
    <2>4. ASSUME NEW g,
                 row' = [row EXCEPT ![job[w]].group = g, ![job[w]].status = status]
          PROVE  /\ row'[job[w]].execution = old.execution
                 /\ row'[job[w]].attempt = old.attempt
                 /\ row'[job[w]].workspace = old.workspace
                 /\ row'[job[w]].source = old.source
                 /\ row'[job[w]].status = status
      <3>1. row'[job[w]] = [old EXCEPT !.group = g, !.status = status]
        BY <1>1, <1>2, <2>4
      <3> QED
        BY <2>1, <3>1 DEF Row
    <2> QED
      BY <2>2, <2>3, <2>4
  <1> QED
    BY <1>1, <1>3, <1>4 DEF Progress, SameIdentity, StatusMoves, Active

LEMMA UnchangedProgress ==
  ASSUME UNCHANGED <<row, seq>>
  PROVE  Progress
  BY DEF Progress, SameIdentity, StatusMoves

LEMMA FlagsProgress ==
  ASSUME StoreTypeOK, NEW k, NEW group,
         SetCancelRequested(k) \/ CancelRunningInGroup(k, group)
  PROVE  Progress /\ \A j \in Key : row'[j].status = row[j].status
  <1>1. \A j \in Key : row'[j] = row[j]
                       \/ row'[j] = [row[j] EXCEPT !.cancelRequested = TRUE]
    BY DEF StoreTypeOK, SetCancelRequested, CancelRunningInGroup
  <1>2. \A j \in Key : row[j] \in Row
    BY DEF StoreTypeOK
  <1>3. ASSUME NEW j \in Key PROVE SameIdentity(j) /\ row'[j].status = row[j].status
    <2>1. row[j] \in Row
      BY <1>2
    <2>2. CASE row'[j] = row[j]
      BY <2>2 DEF SameIdentity
    <2>3. CASE row'[j] = [row[j] EXCEPT !.cancelRequested = TRUE]
      BY <2>1, <2>3, FlaggedIsRow DEF SameIdentity
    <2> QED
      BY <1>1, <2>2, <2>3
  <1> QED
    BY <1>3 DEF Progress, StatusMoves, SetCancelRequested, CancelRunningInGroup

LEMMA RequeueProgress ==
  ASSUME StoreTypeOK, RequeueOrphaned, seq' = seq
  PROVE  /\ Progress
         /\ \A k \in Key : row'[k].status # "running"
  <1>1. \A k \in Key : row[k] \in Row
    BY DEF StoreTypeOK
  <1>2. \A k \in Key :
          row'[k] = IF row[k].status = "running" THEN [row[k] EXCEPT !.status = "pending"]
                                                 ELSE row[k]
    BY DEF RequeueOrphaned, Requeued, RequeuedAs
  <1>3. ASSUME NEW k \in Key
        PROVE  /\ SameIdentity(k)
               /\ row'[k].status = IF row[k].status = "running" THEN "pending" ELSE row[k].status
    <2>1. row[k] \in Row /\ "pending" \in Status
      BY <1>1 DEF Status, Active
    <2>2. CASE row[k].status = "running"
      <3>1. row'[k] = [row[k] EXCEPT !.status = "pending"]
        BY <1>2, <2>2
      <3> QED
        BY <2>1, <2>2, <3>1, StatusShows DEF SameIdentity
    <2>3. CASE row[k].status # "running"
      BY <1>2, <2>3 DEF SameIdentity
    <2> QED
      BY <2>2, <2>3
  <1> QED
    BY <1>3 DEF Progress, StatusMoves, Active

\* If the requeue at startup fails, that counts as a lost call.
LEMMA RecoverProgress ==
  ASSUME TypeInv, Recover, seq' = seq
  PROVE  /\ Progress
         /\ lost' # 0 \/ \A k \in Key : row'[k].status # "running"
  <1>1. StoreTypeOK /\ lost \in Nat
    BY RunnerAssumption DEF TypeInv, TypeOK
  <1>2. CASE RequeueOrphaned
    BY <1>1, <1>2, RequeueProgress
  <1>3. CASE lost' = lost + 1 /\ UNCHANGED row
    BY <1>1, <1>3, UnchangedProgress
  <1> QED
    BY <1>2, <1>3 DEF Recover

LEMMA ClaimProgress ==
  ASSUME TypeInv, NEW w \in Workers, Claim(w)
  PROVE  /\ Progress
         /\ \A k \in Key : row'[k].status = row[k].status
                           \/ /\ k = job[w] /\ pc'[w] = "claimed"
                              /\ row[k].status = "pending" /\ row'[k].status = "running"
  <1>1. row \in [Key -> Row] /\ pc \in [Workers -> WorkerState]
    BY DEF TypeInv, TypeOK, StoreTypeOK
  <1>2. CASE /\ row[job[w]].status = "pending"
             /\ row' = [row EXCEPT ![job[w]].status = "running"]
             /\ pc' = [pc EXCEPT ![w] = "claimed"]
             /\ seq' = seq
    <2>1. \A k \in Key : /\ SameIdentity(k)
                         /\ row'[k].status = IF k = job[w] THEN "running" ELSE row[k].status
      BY <1>1, <1>2 DEF SameIdentity, Row
    <2> QED
      BY <1>1, <1>2, <2>1 DEF Progress, StatusMoves, Active
  <1>3. CASE UNCHANGED <<row, seq>>
    BY <1>3, UnchangedProgress
  <1> QED
    BY <1>2, <1>3 DEF Claim, StillPending, Goto

LEMMA FinishProgress ==
  ASSUME SafetyInv, NEW w \in Workers, pc[w] \in Owning, NEW status \in Terminal,
         NEW r \in BOOLEAN, NEW error \in {"none", "exists", "other"},
         Finish(w, status, r, error)
  PROVE  Progress
  <1>1. CASE UpdateExecution(job[w], status, r, error)
    BY <1>1, HeldRowProgress DEF UpdateExecution
  <1>2. CASE UNCHANGED storeVars
    BY <1>2, UnchangedProgress DEF storeVars
  <1> QED
    BY <1>1, <1>2 DEF Finish

LEMMA WorkerProgress ==
  ASSUME SafetyInv, NEW w \in Workers, WorkerStep(w)
  PROVE  Progress
  <1>1. CASE \/ Stop(w) \/ Select(w) \/ ClaimUnread(w) \/ Count(w) \/ Register(w)
             \/ Release(w) \/ CancelRun(w)
    BY <1>1, UnchangedProgress
       DEF Stop, Select, ClaimUnread, Count, Register, Release, CancelRun
  <1>2. CASE Claim(w)
    BY <1>2, ClaimProgress DEF SafetyInv
  <1>3. ASSUME NEW error \in {"none", "exists", "other"}, pc[w] \in Owning,
               FailSetup(w, error)
        PROVE  Progress
    BY <1>3, FinishProgress DEF FailSetup, Terminal
  <1>4. CASE Begin(w)
    <2>1. CASE row' = [row EXCEPT ![job[w]].status = "running"] /\ seq' = seq
      BY <1>4, <2>1, HeldRowProgress DEF Begin, Owning, InRun, Active
    <2>2. CASE FailSetup(w, "other")
      BY <1>3, <1>4, <2>2 DEF Begin, Owning, InRun
    <2> QED
      BY <1>4, <2>1, <2>2 DEF Begin
  <1>5. CASE Reuse(w) \/ CloneFresh(w) \/ CloneOver(w) \/ Extract(w)
    <2>1. pc[w] \in Owning
      BY <1>5 DEF Reuse, CloneFresh, CloneOver, Extract, Owning, InRun
    <2>2. CASE UNCHANGED <<row, seq>>
      BY <2>2, UnchangedProgress
    <2>3. CASE FailSetup(w, "other") \/ FailSetup(w, "exists")
      BY <1>3, <2>1, <2>3
    <2> QED
      BY <1>5, <2>2, <2>3 DEF Reuse, CloneFresh, CloneOver, Extract, Prepared
  <1>6. CASE ReadConfig(w)
    <2>1. pc[w] \in Owning
      BY <1>6 DEF ReadConfig, Owning, InRun
    <2>2. CASE UNCHANGED <<row, seq>>
      BY <2>2, UnchangedProgress
    <2>3. CASE FailSetup(w, "other")
      BY <1>3, <2>1, <2>3
    <2>4. CASE /\ \E g \in Groups : row' = [row EXCEPT ![job[w]].group = g,
                                                       ![job[w]].status = "running"]
               /\ seq' = seq
      BY <2>1, <2>4, HeldRowProgress DEF Active
    <2> QED
      BY <1>6, <2>2, <2>3, <2>4 DEF ReadConfig
  <1>7. CASE Supersede(w)
    BY <1>7, FlagsProgress, UnchangedProgress
       DEF Supersede, storeVars, SafetyInv, TypeInv, TypeOK
  <1>8. CASE Build(w)
    BY <1>3, <1>8, UnchangedProgress DEF Build, Owning, InRun
  <1>9. CASE StepUpdate(w)
    BY <1>9, HeldRowProgress
       DEF StepUpdate, WhileSteps, UpdateExecution, Owning, InRun, Active
  <1>10. CASE EndSteps(w)
    BY <1>10, FinishProgress DEF EndSteps, Owning, InRun, Terminal
  <1> QED
    BY <1>1, <1>2, <1>4, <1>5, <1>6, <1>7, <1>8, <1>9, <1>10 DEF WorkerStep

LEMMA RetryInserts ==
  ASSUME SafetyInv, NEW c \in Callers, RetryInsert(c)
  PROVE  UNCHANGED <<row, seq>> \/ \E p \in Projects, r \in Row : Insertion(p, r)
  <1> DEFINE prev == retry[c].prev
  <1>1. prev \in Key /\ prev[1] \in Projects /\ row[prev].status = "failed"
    BY DEF RetryInsert, SafetyInv, TypeInv, RetriesHaveRow, RetriesBehindFailure
  <1>2. CASE UNCHANGED storeVars
    BY <1>2 DEF storeVars
  <1>3. CASE CreateExecution(prev[1], NextAttempt(prev))
    <2>1. NextAttempt(prev) \in Row
      BY <1>1, NextAttemptIsRow DEF SafetyInv, TypeInv, TypeOK, StoreTypeOK
    <2>2. NextAttempt(prev).status = "pending" /\ IsNext(NextAttempt(prev), prev[1])
      BY <1>1 DEF NextAttempt, NoRow, IsNext
    <2>3. Insertion(prev[1], NextAttempt(prev))
      BY <1>3, <2>2 DEF Insertion
    <2> QED
      BY <1>1, <2>1, <2>3
  <1> QED
    BY <1>2, <1>3 DEF RetryInsert

LEMMA SubmitInserts ==
  ASSUME SafetyInv, NEW p \in Projects, NEW src \in Sources, Submit(p, src)
  PROVE  \E r \in Row : Insertion(p, r)
  <1> DEFINE r == FirstAttempt(NextKey(p), src)
  <1>1. seq[p] + 1 \in 1 .. MaxId
    BY ExecutionsAssumption
       DEF SafetyInv, TypeInv, TypeOK, StoreTypeOK, Submit, CreateExecution
  <1>2. NextKey(p) \in Key
    BY <1>1 DEF NextKey
  <1>3. r \in Row
    BY <1>2, FirstAttemptIsRow, RunnerAssumption
  <1>4. r.status = "pending" /\ IsFirst(r, p)
    BY DEF FirstAttempt, NoRow, IsFirst
  <1> QED
    BY <1>3, <1>4 DEF Insertion, Submit

LEMMA StoreStep ==
  ASSUME SafetyInv, [Next]_vars
  PROVE  Progress \/ \E p \in Projects, r \in Row : Insertion(p, r)
  <1>1. CASE UNCHANGED vars
    BY <1>1, UnchangedProgress DEF vars
  <1>2. ASSUME NEW i \in Instances, InstanceStep(i)
        PROVE  Progress
    <2>1. CASE StartInstance(i)
      BY <2>1, RecoverProgress DEF StartInstance, SafetyInv
    <2>2. CASE UNCHANGED <<row, seq>>
      BY <2>2, UnchangedProgress
    <2> QED
      BY <1>2, <2>1, <2>2
         DEF InstanceStep, Crash, Exit, ProcessEnds, BeginDrain, DrainTimeout, DrainReturn
  <1>3. CASE \E c \in Callers : RetryCheck(c) \/ \E k \in Key : RetryRead(c, k)
    BY <1>3, UnchangedProgress DEF RetryRead, RetryCheck, storeVars
  <1>4. CASE \E k \in Key : RequestCancel(k)
    BY <1>4, FlagsProgress DEF RequestCancel, SafetyInv, TypeInv, TypeOK
  <1> QED
    BY <1>1, <1>2, <1>3, <1>4, WorkerProgress, RetryInserts, SubmitInserts, UnchangedProgress
       DEF Next, CallerStep

\* No step changes the status of a row that has ended.
LEMMA EndedStays ==
  ASSUME SafetyInv, [Next]_vars, NEW k \in Key, row[k].status \in Terminal
  PROVE  row'[k].status = row[k].status
  <1>1. CASE Progress
    BY <1>1 DEF Progress, StatusMoves, Active, Terminal
  <1>2. ASSUME NEW p \in Projects, NEW r \in Row, Insertion(p, r)
        PROVE  row'[k].status = row[k].status
    <2>1. ~Exists(NextKey(p)) /\ row' = [row EXCEPT ![NextKey(p)] = r]
      BY <1>2, InsertionKeepsStore DEF SafetyInv, TypeInv, TypeOK
    <2>2. k # NextKey(p)
      BY <2>1 DEF Exists, Terminal
    <2> QED
      BY <2>1, <2>2 DEF SafetyInv, TypeInv, TypeOK, StoreTypeOK
  <1> QED
    BY <1>1, <1>2, StoreStep

LEMMA RetriesStep ==
  ASSUME SafetyInv, [Next]_vars
  PROVE  RetriesBehindFailure'
  <1> SUFFICES ASSUME NEW c \in Callers, retry'[c].pc # "idle"
               PROVE  row'[retry'[c].prev].status = "failed"
    BY DEF RetriesBehindFailure
  <1>1. CASE retry'[c].pc # "idle" /\ retry[c].pc # "idle" /\ retry'[c].prev = retry[c].prev
    BY <1>1, EndedStays DEF SafetyInv, RetriesBehindFailure, TypeInv, RetriesHaveRow, Terminal
  <1>2. ASSUME NEW d \in Callers, NEW k \in Key, RetryRead(d, k)
        PROVE  \/ retry'[c] = retry[c]
               \/ row'[retry'[c].prev].status = "failed"
    BY <1>2 DEF RetryRead, Retryable, storeVars, SafetyInv, TypeInv, TypeOK
  <1>3. ASSUME NEW d \in Callers, RetryCheck(d)
        PROVE  retry[c].pc # "idle" /\ retry'[c].prev = retry[c].prev
    <2>1. \/ retry' = [retry EXCEPT ![d].pc = "insert"]
          \/ retry' = [retry EXCEPT ![d] = NoRetry]
      BY <1>3 DEF RetryCheck, RetryEnds
    <2>2. retry \in [Callers -> [pc : {"idle", "check", "insert"}, prev : Key \cup {NoKey}]]
      BY DEF SafetyInv, TypeInv, TypeOK
    <2>3. CASE c # d
      BY <2>1, <2>2, <2>3
    <2>4. CASE c = d
      BY <1>3, <2>1, <2>2, <2>4 DEF RetryCheck, NoRetry
    <2> QED
      BY <2>3, <2>4
  <1>4. ASSUME NEW d \in Callers, RetryInsert(d)
        PROVE  retry'[c] = retry[c]
    BY <1>4 DEF RetryInsert, RetryEnds, NoRetry, SafetyInv, TypeInv, TypeOK
  <1>5. ASSUME NEW i \in Instances, Crash(i) \/ Exit(i)
        PROVE  retry'[c] = retry[c]
    BY <1>5 DEF Crash, Exit, ProcessEnds, NoRetry, SafetyInv, TypeInv, TypeOK
  <1>6. CASE retry' = retry
    BY <1>1, <1>6
  <1>7. ASSUME NEW w \in Workers, WorkerStep(w) PROVE retry' = retry
    BY <1>7 DEF WorkerStep, Stop, Select, Claim, ClaimUnread, Count, Register, Begin, Reuse,
       CloneFresh, CloneOver, Extract, ReadConfig, Supersede, Build, StepUpdate,
       EndSteps, CancelRun, Release, Prepared, FailSetup, Finish
  <1>8. ASSUME NEW i \in Instances,
               \/ StartInstance(i) \/ BeginDrain(i) \/ DrainTimeout(i) \/ DrainReturn(i)
        PROVE  retry' = retry
    BY <1>8 DEF StartInstance, BeginDrain, DrainTimeout, DrainReturn
  <1>9. CASE \/ \E p \in Projects, src \in Sources : Submit(p, src)
             \/ \E k \in Key : RequestCancel(k)
             \/ UNCHANGED vars
    BY <1>6, <1>9 DEF Submit, RequestCancel, vars
  <1> QED
    BY <1>1, <1>2, <1>3, <1>4, <1>5, <1>6, <1>7, <1>8, <1>9
       DEF Next, InstanceStep, CallerStep

-------------------------------------------------------------------------------
(* Ownership                                                                *)

\* A step that lets every worker keep what it holds, and starts or ends no run,
\* keeps Ownership.
LEMMA HoldsKept ==
  ASSUME Ownership,
         \A w \in Workers, k \in Key : Holds(w, k)' <=> Holds(w, k),
         \A k \in Key : row'[k].status = "running" <=> row[k].status = "running",
         UNCHANGED lost,
         \A i \in Instances : inst'[i] # "down" => inst[i] # "down"
  PROVE  Ownership'
  <1>1. ClaimIsExclusive'
    BY DEF Ownership, ClaimIsExclusive
  <1>2. HeldRowsRun'
    BY DEF Ownership, HeldRowsRun
  <1>3. NoOrphans'
    BY DEF Ownership, NoOrphans
  <1> QED
    BY <1>1, <1>2, <1>3 DEF Ownership

\* The same for a worker that moves from one phase to another of its kind and
\* leaves its row running.
LEMMA PhaseKept ==
  ASSUME TypeInv, WorkerInv, NEW w \in Workers, NEW next \in WorkerState,
         Goto(w, next), pc[w] # "off",
         next \in Owning <=> pc[w] \in Owning, next # "update", job' = job,
         \A k \in Key : row'[k].status = "running" <=> row[k].status = "running",
         UNCHANGED <<lost, inst>>
  PROVE  WorkerInv'
  <1>1. /\ pc' = [pc EXCEPT ![w] = next] /\ pc \in [Workers -> WorkerState]
        /\ \A v \in Workers : pc'[v] \in Owning <=> pc[v] \in Owning
    BY DEF Goto, TypeInv, TypeOK
  <1>2. Ownership'
    BY <1>1, HoldsKept DEF WorkerInv, Holds
  <1>3. DownMeansOff'
    BY <1>1 DEF WorkerInv, DownMeansOff
  <1>4. OwnersHaveRow'
    BY <1>1 DEF WorkerInv, OwnersHaveRow
  <1> QED
    BY <1>2, <1>3, <1>4 DEF WorkerInv

\* finish: the worker lets go of its row, which ends unless the write is lost.
LEMMA FinishKeepsOwnership ==
  ASSUME SafetyInv, NEW w \in Workers, pc[w] \in Owning, NEW status \in Terminal,
         NEW r \in BOOLEAN, NEW error \in {"none", "exists", "other"},
         Finish(w, status, r, error)
  PROVE  WorkerInv'
  <1>1. /\ pc' = [pc EXCEPT ![w] = "report"] /\ pc \in [Workers -> WorkerState]
        /\ job' = job /\ inst' = inst /\ "report" \notin Owning
    BY DEF SafetyInv, TypeInv, TypeOK, Finish, Goto, procVars, Owning, InRun
  <1>2. /\ job[w] \in Key /\ row \in [Key -> Row] /\ lost \in Nat
        /\ \A k \in Key : Holds(w, k) <=> k = job[w]
    BY RunnerAssumption
       DEF SafetyInv, WorkerInv, OwnersHaveRow, TypeInv, TypeOK, StoreTypeOK, Holds
  <1>3. \A v \in Workers, k \in Key : Holds(v, k)' <=> v # w /\ Holds(v, k)
    BY <1>1 DEF Holds
  <1>4. \A v \in Workers, k \in Key : v # w /\ Holds(v, k) => k # job[w]
    BY <1>2 DEF SafetyInv, WorkerInv, Ownership, ClaimIsExclusive
  <1>5. /\ \A k \in Key : k # job[w] => row'[k].status = row[k].status
        /\ lost' = lost => row'[job[w]].status # "running"
    <2>1. CASE UpdateExecution(job[w], status, r, error)
      <3>1. /\ \A k \in Key : k # job[w] => row'[k] = row[k]
            /\ row'[job[w]] = [row[job[w]] EXCEPT !.status = status, !.retryable = r,
                                                  !.error = error]
        BY <1>2, <2>1 DEF UpdateExecution
      <3>2. row[job[w]] \in Row
        BY <1>2
      <3> QED
        BY <3>1, <3>2 DEF Row, Terminal
    <2>2. CASE lost' = lost + 1 /\ UNCHANGED storeVars
      BY <1>2, <2>2 DEF storeVars
    <2> QED
      BY <2>1, <2>2 DEF Finish
  <1>6. lost' = lost \/ lost' # 0
    BY <1>2 DEF Finish
  <1>7. ClaimIsExclusive'
    BY <1>3 DEF SafetyInv, WorkerInv, Ownership, ClaimIsExclusive
  <1>8. HeldRowsRun'
    BY <1>3, <1>4, <1>5 DEF SafetyInv, WorkerInv, Ownership, HeldRowsRun
  <1>9. NoOrphans'
    BY <1>1, <1>2, <1>3, <1>5, <1>6 DEF SafetyInv, WorkerInv, Ownership, NoOrphans
  <1>10. DownMeansOff'
    BY <1>1 DEF SafetyInv, WorkerInv, DownMeansOff, Owning, InRun
  <1>11. OwnersHaveRow'
    BY <1>1 DEF SafetyInv, WorkerInv, OwnersHaveRow
  <1> QED
    BY <1>7, <1>8, <1>9, <1>10, <1>11 DEF WorkerInv, Ownership

LEMMA ClaimingKeepsOwnership ==
  ASSUME SafetyInv, NEW w \in Workers,
         \/ Stop(w) \/ Select(w) \/ Claim(w) \/ ClaimUnread(w) \/ Count(w)
         \/ Register(w) \/ Release(w) \/ CancelRun(w)
  PROVE  WorkerInv'
  <1> USE DEF Owning, InRun, Goto, procVars
  <1>0. /\ pc \in [Workers -> WorkerState] /\ job \in [Workers -> Key \cup {NoKey}]
        /\ row \in [Key -> Row] /\ TypeInv /\ WorkerInv
    BY DEF SafetyInv, TypeInv, TypeOK, StoreTypeOK
  <1>1. CASE Stop(w) \/ Count(w) \/ Register(w)
    BY <1>0, <1>1, PhaseKept DEF Stop, Count, Register, WorkerState
  <1>2. CASE CancelRun(w)
    <2>1. UNCHANGED <<row, pc, job, inst, lost>>
      BY <1>2 DEF CancelRun
    <2>2. Ownership'
      BY <1>0, <2>1, HoldsKept DEF WorkerInv, Holds
    <2> QED
      BY <1>0, <2>1, <2>2 DEF WorkerInv, DownMeansOff, OwnersHaveRow
  <1>3. CASE Select(w)
    <2>1. PICK k \in Key : job' = [job EXCEPT ![w] = k]
      BY <1>3 DEF Select
    <2>2. /\ pc' = [pc EXCEPT ![w] = "update"] /\ pc[w] = "poll"
          /\ UNCHANGED <<row, inst, lost>>
      BY <1>3 DEF Select
    <2>3. Ownership'
      <3>1. \A v \in Workers, j \in Key : Holds(v, j)' <=> Holds(v, j)
        BY <1>0, <2>1, <2>2 DEF Holds
      <3> QED
        BY <1>0, <2>2, <3>1, HoldsKept DEF WorkerInv
    <2>4. DownMeansOff' /\ OwnersHaveRow'
      BY <1>0, <2>1, <2>2 DEF WorkerInv, DownMeansOff, OwnersHaveRow
    <2> QED
      BY <2>3, <2>4 DEF WorkerInv
  <1>4. CASE Release(w)
    <2>1. /\ pc' = [pc EXCEPT ![w] = "poll"] /\ pc[w] = "report"
          /\ job' = [job EXCEPT ![w] = NoKey]
          /\ UNCHANGED <<row, inst, lost>>
      BY <1>4 DEF Release
    <2>2. Ownership'
      <3>1. \A v \in Workers, j \in Key : Holds(v, j)' <=> Holds(v, j)
        BY <1>0, <2>1 DEF Holds
      <3> QED
        BY <1>0, <2>1, <3>1, HoldsKept DEF WorkerInv
    <2>3. DownMeansOff' /\ OwnersHaveRow'
      BY <1>0, <2>1 DEF WorkerInv, DownMeansOff, OwnersHaveRow
    <2> QED
      BY <2>2, <2>3 DEF WorkerInv
  <1>5. CASE Claim(w) /\ ~StillPending(job[w])
    <2>1. /\ pc' = [pc EXCEPT ![w] = "poll"] /\ pc[w] = "update"
          /\ job' = [job EXCEPT ![w] = NoKey]
          /\ UNCHANGED <<row, inst, lost>>
      BY <1>5 DEF Claim
    <2>2. Ownership'
      <3>1. \A v \in Workers, j \in Key : Holds(v, j)' <=> Holds(v, j)
        BY <1>0, <2>1 DEF Holds
      <3> QED
        BY <1>0, <2>1, <3>1, HoldsKept DEF WorkerInv
    <2>3. DownMeansOff' /\ OwnersHaveRow'
      BY <1>0, <2>1 DEF WorkerInv, DownMeansOff, OwnersHaveRow
    <2> QED
      BY <2>2, <2>3 DEF WorkerInv
  <1>6. CASE Claim(w) /\ StillPending(job[w])
    <2>1. /\ pc' = [pc EXCEPT ![w] = "claimed"] /\ pc[w] = "update" /\ job' = job
          /\ row[job[w]].status = "pending"
          /\ row' = [row EXCEPT ![job[w]].status = "running"]
          /\ UNCHANGED <<inst, lost>>
      BY <1>6 DEF Claim, StillPending
    <2>2. job[w] \in Key
      BY <1>0, <2>1 DEF WorkerInv, OwnersHaveRow
    <2>3. \A k \in Key : row'[k].status = IF k = job[w] THEN "running" ELSE row[k].status
      BY <1>0, <2>1, <2>2 DEF Row
    <2>4. \A v \in Workers, k \in Key :
            Holds(v, k)' <=> Holds(v, k) \/ (v = w /\ k = job[w])
      BY <1>0, <2>1, <2>2 DEF Holds
    <2>5. \A v \in Workers : ~Holds(v, job[w])
      BY <1>0, <2>1, <2>2 DEF WorkerInv, Ownership, HeldRowsRun
    <2>6. \A k \in Key : Holds(w, k) => FALSE
      BY <2>1 DEF Holds
    <2>7. ClaimIsExclusive'
      BY <1>0, <2>4, <2>5, <2>6 DEF WorkerInv, Ownership, ClaimIsExclusive
    <2>8. HeldRowsRun'
      BY <1>0, <2>3, <2>4 DEF WorkerInv, Ownership, HeldRowsRun
    <2>9. NoOrphans'
      BY <1>0, <2>1, <2>2, <2>3, <2>4 DEF WorkerInv, Ownership, NoOrphans
    <2>10. DownMeansOff' /\ OwnersHaveRow'
      BY <1>0, <2>1, <2>2 DEF WorkerInv, DownMeansOff, OwnersHaveRow
    <2> QED
      BY <2>7, <2>8, <2>9, <2>10 DEF WorkerInv, Ownership
  <1>7. CASE ClaimUnread(w)
    <2>1. /\ pc' = [pc EXCEPT ![w] = "poll"] /\ pc[w] = "claimed"
          /\ job' = [job EXCEPT ![w] = NoKey]
          /\ UNCHANGED <<row, inst>> /\ lost' # 0
      BY <1>7, RunnerAssumption DEF ClaimUnread, SafetyInv, TypeInv, TypeOK
    <2>2. \A v \in Workers, k \in Key : Holds(v, k)' => Holds(v, k)
      BY <1>0, <2>1 DEF Holds
    <2>3. Ownership'
      BY <1>0, <2>1, <2>2
         DEF WorkerInv, Ownership, ClaimIsExclusive, HeldRowsRun, NoOrphans
    <2>4. DownMeansOff' /\ OwnersHaveRow'
      BY <1>0, <2>1 DEF WorkerInv, DownMeansOff, OwnersHaveRow
    <2> QED
      BY <2>3, <2>4 DEF WorkerInv
  <1> QED
    BY <1>1, <1>2, <1>3, <1>4, <1>5, <1>6, <1>7

\* A worker that writes its held row as running leaves every run as it was.
LEMMA WrittenRunning ==
  ASSUME SafetyInv, NEW w \in Workers, pc[w] \in Owning,
         \/ row' = [row EXCEPT ![job[w]].status = "running"]
         \/ \E r, error :
              row' = [row EXCEPT ![job[w]] = [@ EXCEPT !.status = "running",
                                                       !.retryable = r,
                                                       !.error = error]]
         \/ \E g : row' = [row EXCEPT ![job[w]].group = g, ![job[w]].status = "running"]
  PROVE  \A k \in Key : row'[k].status = row[k].status
  <1>1. job[w] \in Key /\ row[job[w]].status = "running" /\ row \in [Key -> Row]
    BY DEF SafetyInv, WorkerInv, OwnersHaveRow, Ownership, HeldRowsRun, Holds,
           TypeInv, TypeOK, StoreTypeOK
  <1> DEFINE old == row[job[w]]
  <1>2. old \in Row
    BY <1>1
  <1>3. CASE row' = [row EXCEPT ![job[w]].status = "running"]
    BY <1>1, <1>2, <1>3 DEF Row
  <1>4. ASSUME NEW r, NEW error,
               row' = [row EXCEPT ![job[w]] = [@ EXCEPT !.status = "running",
                                                       !.retryable = r,
                                                       !.error = error]]
        PROVE  \A k \in Key : row'[k].status = row[k].status
    <2>1. row'[job[w]] = [old EXCEPT !.status = "running", !.retryable = r, !.error = error]
      BY <1>1, <1>4
    <2>2. row'[job[w]].status = "running"
      BY <1>2, <2>1 DEF Row
    <2> QED
      BY <1>1, <1>4, <2>2
  <1>5. ASSUME NEW g,
               row' = [row EXCEPT ![job[w]].group = g, ![job[w]].status = "running"]
        PROVE  \A k \in Key : row'[k].status = row[k].status
    <2>1. row'[job[w]] = [old EXCEPT !.group = g, !.status = "running"]
      BY <1>1, <1>5
    <2>2. row'[job[w]].status = "running"
      BY <1>2, <2>1 DEF Row
    <2> QED
      BY <1>1, <1>5, <2>2
  <1> QED
    BY <1>3, <1>4, <1>5

LEMMA RunKeepsOwnership ==
  ASSUME SafetyInv, NEW w \in Workers,
         \/ Begin(w) \/ Reuse(w) \/ CloneFresh(w) \/ CloneOver(w) \/ Extract(w)
         \/ ReadConfig(w) \/ Supersede(w) \/ Build(w) \/ StepUpdate(w) \/ EndSteps(w)
  PROVE  WorkerInv'
  <1>1. TypeInv /\ WorkerInv /\ StoreTypeOK
    BY DEF SafetyInv, TypeInv, TypeOK
  <1>2. pc[w] \in InRun /\ pc[w] \in Owning
    BY DEF Begin, Reuse, CloneFresh, CloneOver, Extract, ReadConfig, Supersede,
           Build, StepUpdate, WhileSteps, EndSteps, Owning, InRun
  <1>3. ASSUME NEW status \in Terminal, NEW r \in BOOLEAN,
               NEW error \in {"none", "exists", "other"}, Finish(w, status, r, error)
        PROVE  WorkerInv'
    BY <1>2, <1>3, FinishKeepsOwnership
  <1>4. ASSUME NEW error \in {"none", "exists", "other"}, FailSetup(w, error)
        PROVE  WorkerInv'
    BY <1>3, <1>4 DEF FailSetup, Terminal
  <1>5. ASSUME NEW next \in InRun, Goto(w, next), UNCHANGED <<inst, job, lost>>,
               \A k \in Key : row'[k].status = row[k].status
        PROVE  WorkerInv'
    <2>1. next \in WorkerState /\ next \in Owning /\ next # "update" /\ pc[w] # "off"
      BY <1>2 DEF InRun, Owning, WorkerState
    <2> QED
      BY <1>1, <1>2, <1>5, <2>1, PhaseKept
  <1>6. CASE Begin(w)
    <2>1. CASE /\ row' = [row EXCEPT ![job[w]].status = "running"]
               /\ Goto(w, "prepare") /\ UNCHANGED <<inst, job, lost>>
      BY <1>2, <1>5, <2>1, WrittenRunning DEF InRun
    <2> QED
      BY <1>4, <1>6, <2>1 DEF Begin, procVars
  <1>7. CASE Reuse(w) \/ CloneFresh(w) \/ CloneOver(w) \/ Extract(w)
    <2>1. CASE Goto(w, "group") /\ UNCHANGED <<row, inst, job, lost>>
      BY <1>5, <2>1 DEF InRun
    <2>2. CASE FailSetup(w, "other") \/ FailSetup(w, "exists")
      BY <1>4, <2>2
    <2> QED
      BY <1>7, <2>1, <2>2 DEF Reuse, CloneFresh, CloneOver, Extract, Prepared, procVars
  <1>8. CASE ReadConfig(w)
    <2>1. CASE FailSetup(w, "other")
      BY <1>4, <2>1
    <2>2. CASE Goto(w, "steps") /\ UNCHANGED <<row, inst, job, lost>>
      BY <1>5, <2>2 DEF InRun
    <2>3. CASE /\ \E g \in Groups : row' = [row EXCEPT ![job[w]].group = g,
                                                       ![job[w]].status = "running"]
               /\ Goto(w, "supersede") /\ UNCHANGED <<inst, job, lost>>
      BY <1>2, <1>5, <2>3, WrittenRunning DEF InRun
    <2> QED
      BY <1>8, <2>1, <2>2, <2>3 DEF ReadConfig, procVars
  <1>9. CASE Supersede(w)
    <2>1. \A k \in Key : row'[k].status = row[k].status
      BY <1>1, <1>9, FlagsProgress DEF Supersede, storeVars
    <2> QED
      BY <1>5, <1>9, <2>1 DEF Supersede, InRun, procVars
  <1>10. CASE Build(w)
    <2>1. CASE FailSetup(w, "other")
      BY <1>4, <2>1
    <2>2. CASE Goto(w, "steps") /\ UNCHANGED <<row, inst, job, lost>>
      BY <1>5, <2>2 DEF InRun
    <2> QED
      BY <1>10, <2>1, <2>2 DEF Build, procVars
  <1>11. CASE StepUpdate(w)
    <2>1. \A k \in Key : row'[k].status = row[k].status
      BY <1>2, <1>11, WrittenRunning DEF StepUpdate, UpdateExecution
    <2>2. UNCHANGED <<pc, job, inst, lost>>
      BY <1>11 DEF StepUpdate, procVars, workerVars
    <2>3. Ownership'
      BY <1>1, <2>1, <2>2, HoldsKept DEF WorkerInv, Holds
    <2> QED
      BY <1>1, <2>2, <2>3 DEF WorkerInv, DownMeansOff, OwnersHaveRow
  <1>12. CASE EndSteps(w)
    BY <1>3, <1>12 DEF EndSteps, Terminal
  <1> QED
    BY <1>6, <1>7, <1>8, <1>9, <1>10, <1>11, <1>12

\* The one place where it matters that no other process runs: the requeue at
\* startup finds no worker at work.
LEMMA InstanceKeepsOwnership ==
  ASSUME OneInstance, SafetyInv, NEW i \in Instances, InstanceStep(i)
  PROVE  WorkerInv'
  <1>1. /\ TypeInv /\ WorkerInv /\ StoreTypeOK
        /\ pc \in [Workers -> WorkerState] /\ inst \in [Instances -> InstanceState]
        /\ job \in [Workers -> Key \cup {NoKey}]
        /\ \A w \in Workers : Home[w] = i
    BY RunnerAssumption DEF SafetyInv, TypeInv, TypeOK, OneInstance
  <1>2. CASE StartInstance(i)
    <2>1. \A w \in Workers : pc'[w] = "poll"
      BY <1>1, <1>2 DEF StartInstance
    <2>2. lost' # 0 \/ \A k \in Key : row'[k].status # "running"
      BY <1>1, <1>2, RecoverProgress DEF StartInstance
    <2>3. Ownership'
      BY <2>1, <2>2
         DEF Ownership, ClaimIsExclusive, HeldRowsRun, NoOrphans, Holds, Owning, InRun
    <2>4. DownMeansOff' /\ OwnersHaveRow'
      BY <1>1, <1>2, <2>1
         DEF StartInstance, DownMeansOff, OwnersHaveRow, Owning, InRun
    <2> QED
      BY <2>3, <2>4 DEF WorkerInv
  <1>3. CASE Crash(i) \/ Exit(i)
    <2>1. \A w \in Workers : pc'[w] = "off"
      BY <1>1, <1>3 DEF Crash, Exit, ProcessEnds
    <2>2. inst'[i] = "down"
      BY <1>1, <1>3 DEF Crash, Exit, ProcessEnds
    <2>3. Ownership'
      BY <2>1, <2>2
         DEF Ownership, ClaimIsExclusive, HeldRowsRun, NoOrphans, Holds, Owning, InRun
    <2>4. DownMeansOff' /\ OwnersHaveRow'
      BY <2>1 DEF DownMeansOff, OwnersHaveRow, Owning, InRun
    <2> QED
      BY <2>3, <2>4 DEF WorkerInv
  <1>4. CASE BeginDrain(i) \/ DrainTimeout(i) \/ DrainReturn(i)
    <2>1. /\ UNCHANGED <<row, pc, job, lost>>
          /\ inst[i] # "down" /\ inst'[i] # "down"
          /\ \A j \in Instances : j = i
      BY <1>1, <1>4
         DEF BeginDrain, DrainTimeout, DrainReturn, OneInstance
    <2>2. Ownership'
      BY <1>1, <2>1, HoldsKept DEF WorkerInv, Holds
    <2>3. DownMeansOff' /\ OwnersHaveRow'
      BY <1>1, <2>1 DEF WorkerInv, DownMeansOff, OwnersHaveRow
    <2> QED
      BY <2>2, <2>3 DEF WorkerInv
  <1> QED
    BY <1>2, <1>3, <1>4 DEF InstanceStep

LEMMA RequestsKeepOwnership ==
  ASSUME SafetyInv,
         \/ \E c \in Callers : CallerStep(c)
         \/ \E p \in Projects, src \in Sources : Submit(p, src)
         \/ \E k \in Key : RequestCancel(k)
         \/ UNCHANGED vars
  PROVE  WorkerInv'
  <1>1. WorkerInv /\ StoreTypeOK /\ StoreInv
    BY DEF SafetyInv, TypeInv, TypeOK
  <1>2. UNCHANGED <<pc, job, inst, lost>>
    BY DEF CallerStep, RetryRead, RetryCheck, RetryInsert, Submit, RequestCancel,
           procVars, workerVars, vars
  <1>3. \A k \in Key : row'[k].status = "running" <=> row[k].status = "running"
    <2>1. ASSUME NEW p \in Projects, NEW r \in Row, Insertion(p, r)
          PROVE  \A k \in Key : row'[k].status = "running" <=> row[k].status = "running"
      <3>1. /\ ~Exists(NextKey(p)) /\ NextKey(p) \in Key
            /\ row' = [row EXCEPT ![NextKey(p)] = r]
        BY <1>1, <2>1, InsertionKeepsStore
      <3>2. row[NextKey(p)].status = "none" /\ r.status = "pending"
        BY <2>1, <3>1 DEF Exists, Insertion
      <3> QED
        BY <1>1, <3>1, <3>2 DEF StoreTypeOK
    <2>2. CASE \E k \in Key : RequestCancel(k)
      BY <1>1, <2>2, FlagsProgress DEF RequestCancel
    <2>3. CASE row' = row
      BY <2>3
    <2>4. ASSUME NEW c \in Callers, RetryInsert(c)
          PROVE  row' = row \/ \E p \in Projects, r \in Row : Insertion(p, r)
      <3> DEFINE prev == retry[c].prev
      <3>1. prev \in Key /\ prev[1] \in Projects /\ row[prev].status = "failed"
        BY <2>4
           DEF RetryInsert, SafetyInv, TypeInv, RetriesHaveRow, RetriesBehindFailure
      <3>2. NextAttempt(prev) \in Row
        BY <1>1, <3>1, NextAttemptIsRow DEF StoreTypeOK
      <3>3. NextAttempt(prev).status = "pending" /\ IsNext(NextAttempt(prev), prev[1])
        BY <3>1 DEF NextAttempt, NoRow, IsNext
      <3> QED
        BY <2>4, <3>1, <3>2, <3>3 DEF RetryInsert, Insertion, storeVars
    <2> QED
      BY <2>1, <2>2, <2>3, <2>4, SubmitInserts
         DEF CallerStep, RetryRead, RetryCheck, storeVars, vars
  <1>4. Ownership'
    BY <1>1, <1>2, <1>3, HoldsKept DEF WorkerInv, Holds
  <1> QED
    BY <1>1, <1>2, <1>4 DEF WorkerInv, DownMeansOff, OwnersHaveRow

-------------------------------------------------------------------------------
(* The inductive invariant                                                  *)

LEMMA SafetyInit == Init => SafetyInv
  <1> SUFFICES ASSUME Init PROVE SafetyInv
    OBVIOUS
  <1>1. TypeInv
    BY TypeInit
  <1>2. \A k \in Key : ~Exists(k) /\ row[k].status = "none"
    BY DEF Init, StoreInit, Exists, NoRow
  <1>3. RowsNumbered
    BY <1>2 DEF RowsNumbered, Init, StoreInit
  <1>4. StoreInv
    BY <1>2, <1>3 DEF StoreInv, RowsBelong, AttemptsUnique, AttemptsContiguous,
                      AttemptsBounded, SupersededAttemptsFailed, SameExecution
  <1>5. RetriesBehindFailure
    BY DEF RetriesBehindFailure, Init, NoRetry
  <1>6. WorkerInv
    BY <1>2 DEF WorkerInv, DownMeansOff, OwnersHaveRow, Ownership, ClaimIsExclusive,
                HeldRowsRun, NoOrphans, Holds, Owning, InRun, Init
  <1> QED
    BY <1>1, <1>4, <1>5, <1>6 DEF SafetyInv

LEMMA SafetyStep == OneInstance /\ SafetyInv /\ [Next]_vars => SafetyInv'
  <1> SUFFICES ASSUME OneInstance, SafetyInv, [Next]_vars PROVE SafetyInv'
    OBVIOUS
  <1>1. TypeInv'
    BY TypeStep DEF SafetyInv
  <1>2. StoreInv'
    BY StoreStep, ProgressKeepsStore, InsertionKeepsStore DEF SafetyInv, TypeInv, TypeOK
  <1>3. RetriesBehindFailure'
    BY RetriesStep
  <1>4. WorkerInv'
    BY ClaimingKeepsOwnership, RunKeepsOwnership, InstanceKeepsOwnership,
       RequestsKeepOwnership
       DEF Next, WorkerStep
  <1> QED
    BY <1>1, <1>2, <1>3, <1>4 DEF SafetyInv

LEMMA SafetyInvariant == ASSUME OneInstance PROVE Spec => []SafetyInv
  <1>1. SafetyInv /\ [Next]_vars => SafetyInv'
    BY SafetyStep
  <1> QED
    BY <1>1, SafetyInit, PTL DEF Spec

-------------------------------------------------------------------------------
(* What follows from it                                                     *)

\* The attempts of an execution form a chain of failures with at most one live
\* end, whatever retry requests race.
THEOREM AttemptsChain == ASSUME OneInstance PROVE Spec => []SupersededAttemptsFailed
  <1>1. SafetyInv => SupersededAttemptsFailed
    BY DEF SafetyInv, StoreInv
  <1> QED
    BY <1>1, SafetyInvariant, PTL

\* A claimed row is one worker's, and running; a running row is some worker's,
\* unless the process is down or a write was lost.
THEOREM ClaimsOwn == ASSUME OneInstance PROVE Spec => []Ownership
  <1>1. SafetyInv => Ownership
    BY DEF SafetyInv, WorkerInv
  <1> QED
    BY <1>1, SafetyInvariant, PTL

LEMMA WorkspaceOfOne == SafetyInv => OneRunPerWorkspace
  <1>1. ASSUME SafetyInv, NEW v \in Workers, NEW w \in Workers, v # w,
               pc[v] \in UsingDir, pc[w] \in UsingDir, Workspace(v) = Workspace(w)
        PROVE  FALSE
    <2>1. /\ job[v] \in Key /\ job[w] \in Key
          /\ Holds(v, job[v]) /\ Holds(w, job[w])
      BY <1>1
         DEF SafetyInv, WorkerInv, OwnersHaveRow, Holds, UsingDir, Owning
    <2>2. /\ row[job[v]].status = "running" /\ row[job[w]].status = "running"
          /\ job[v] # job[w]
      BY <1>1, <2>1
         DEF SafetyInv, WorkerInv, Ownership, ClaimIsExclusive, HeldRowsRun
    <2>3. SameExecution(job[v], job[w])
      BY <1>1, <2>1, <2>2
         DEF SafetyInv, StoreInv, RowsBelong, SameExecution, Exists, Workspace
    <2>4. row[job[v]].attempt \in Nat /\ row[job[w]].attempt \in Nat
      BY <1>1, <2>1 DEF SafetyInv, TypeInv, TypeOK, StoreTypeOK, Row
    <2>5. row[job[v]].attempt # row[job[w]].attempt
      BY <1>1, <2>1, <2>2, <2>3 DEF SafetyInv, StoreInv, AttemptsUnique
    <2>6. row[job[v]].status = "failed" \/ row[job[w]].status = "failed"
      BY <1>1, <2>1, <2>3, <2>4, <2>5
         DEF SafetyInv, StoreInv, SupersededAttemptsFailed, SameExecution
    <2> QED
      BY <2>2, <2>6
  <1> QED
    BY <1>1 DEF OneRunPerWorkspace

\* Two workers never use one workspace at a time.
THEOREM WorkspacesExclusive == ASSUME OneInstance PROVE Spec => []OneRunPerWorkspace
  BY WorkspaceOfOne, SafetyInvariant, PTL

\* An execution that has ended keeps its result, although every write of its
\* worker overwrites the status blindly.
THEOREM ResultsFinal == ASSUME OneInstance PROVE Spec => TerminalIsFinal
  <1>1. SafetyInv /\ [Next]_vars
          => [\A k \in Key : row[k].status \in Terminal
                               => row'[k].status = row[k].status]_vars
    BY EndedStays
  <1> QED
    BY <1>1, SafetyInvariant, PTL DEF Spec, TerminalIsFinal

-------------------------------------------------------------------------------
(* Cancellation                                                             *)

Quiet == \A k \in Key : row'[k].status = row[k].status

Moves(k, from, to) ==
  /\ k \in Key /\ row[k].status = from /\ row'[k].status = to
  /\ \A j \in Key \ {k} : row'[j].status = row[j].status

Requeues == \A k \in Key :
  row'[k].status = IF row[k].status = "running" THEN "pending" ELSE row[k].status

\* No write takes back the flag of a row.
FlagsStay == \A k \in Key : Exists(k) /\ row[k].cancelRequested => row'[k].cancelRequested

LEMMA HeldRowMoves ==
  ASSUME SafetyInv, NEW w \in Workers, pc[w] \in Owning,
         NEW status \in Active \cup Terminal,
         \/ row' = [row EXCEPT ![job[w]].status = status]
         \/ \E r \in BOOLEAN, error \in {"none", "exists", "other"} :
              row' = [row EXCEPT ![job[w]] = [@ EXCEPT !.status = status,
                                                       !.retryable = r,
                                                       !.error = error]]
         \/ \E g \in Groups :
              row' = [row EXCEPT ![job[w]].group = g, ![job[w]].status = status]
  PROVE  FlagsStay /\ Moves(job[w], "running", status)
  <1>1. job[w] \in Key /\ row[job[w]].status = "running"
    BY DEF SafetyInv, WorkerInv, OwnersHaveRow, Ownership, HeldRowsRun, Holds
  <1>2. row \in [Key -> Row] /\ row[job[w]] \in Row
    BY <1>1 DEF SafetyInv, TypeInv, TypeOK, StoreTypeOK
  <1>3. \A k \in Key \ {job[w]} : row'[k] = row[k]
    BY <1>1, <1>2
  <1>4. /\ row'[job[w]].cancelRequested = row[job[w]].cancelRequested
        /\ row'[job[w]].status = status
    <2> DEFINE old == row[job[w]]
    <2>1. CASE row' = [row EXCEPT ![job[w]].status = status]
      <3>1. row'[job[w]] = [old EXCEPT !.status = status]
        BY <1>1, <1>2, <2>1
      <3> QED
        BY <1>2, <3>1 DEF Row
    <2>2. ASSUME NEW r, NEW error,
                 row' = [row EXCEPT ![job[w]] = [@ EXCEPT !.status = status,
                                                         !.retryable = r,
                                                         !.error = error]]
          PROVE  /\ row'[job[w]].cancelRequested = old.cancelRequested
                 /\ row'[job[w]].status = status
      <3>1. row'[job[w]] = [old EXCEPT !.status = status, !.retryable = r, !.error = error]
        BY <1>1, <1>2, <2>2
      <3> QED
        BY <1>2, <3>1 DEF Row
    <2>3. ASSUME NEW g,
                 row' = [row EXCEPT ![job[w]].group = g, ![job[w]].status = status]
          PROVE  /\ row'[job[w]].cancelRequested = old.cancelRequested
                 /\ row'[job[w]].status = status
      <3>1. row'[job[w]] = [old EXCEPT !.group = g, !.status = status]
        BY <1>1, <1>2, <2>3
      <3> QED
        BY <1>2, <3>1 DEF Row
    <2> QED
      BY <2>1, <2>2, <2>3
  <1> QED
    BY <1>1, <1>3, <1>4 DEF FlagsStay, Moves

LEMMA SameRowsQuiet ==
  ASSUME row' = row
  PROVE  FlagsStay /\ Quiet
  BY DEF FlagsStay, Quiet

\* What the step of a worker may do to statuses; an end as canceled is written
\* after the steps, and only for a canceled context.
EndsAs(w, status) ==
  /\ Moves(job[w], "running", status)
  /\ status = "canceled" => pc[w] = "steps" /\ ctx[w] = "canceled"

Writes(w) ==
  \/ Quiet
  \/ Moves(job[w], "pending", "running")
  \/ \E status \in Terminal : EndsAs(w, status)

LEMMA RunningQuiet ==
  ASSUME NEW k, Moves(k, "running", "running")
  PROVE  Quiet
  BY DEF Moves, Quiet

LEMMA FinishWrites ==
  ASSUME SafetyInv, NEW w \in Workers, pc[w] \in Owning, NEW status \in Terminal,
         NEW r \in BOOLEAN, NEW error \in {"none", "exists", "other"},
         Finish(w, status, r, error),
         status = "canceled" => pc[w] = "steps" /\ ctx[w] = "canceled"
  PROVE  FlagsStay /\ Writes(w)
  <1>1. CASE UpdateExecution(job[w], status, r, error)
    BY <1>1, HeldRowMoves DEF UpdateExecution, Writes, EndsAs
  <1>2. CASE UNCHANGED storeVars
    BY <1>2, SameRowsQuiet DEF storeVars, Writes
  <1> QED
    BY <1>1, <1>2 DEF Finish

LEMMA FlagsRaised ==
  ASSUME StoreTypeOK, NEW k, NEW group,
         SetCancelRequested(k) \/ CancelRunningInGroup(k, group)
  PROVE  FlagsStay
  <1>1. \A j \in Key : row'[j] = row[j]
                       \/ row'[j] = [row[j] EXCEPT !.cancelRequested = TRUE]
    BY DEF StoreTypeOK, SetCancelRequested, CancelRunningInGroup
  <1>2. \A j \in Key : row[j] \in Row
    BY DEF StoreTypeOK
  <1>3. \A j \in Key : row'[j] = row[j] \/ row'[j].cancelRequested
    BY <1>1, <1>2 DEF Row
  <1> QED
    BY <1>3 DEF FlagsStay

LEMMA ClaimWrites ==
  ASSUME TypeInv, NEW w \in Workers, Claim(w)
  PROVE  FlagsStay /\ Writes(w)
  <1>1. row \in [Key -> Row]
    BY DEF TypeInv, TypeOK, StoreTypeOK
  <1>2. FlagsStay
    <2>1. CASE row' = [row EXCEPT ![job[w]].status = "running"]
      <3>1. \A k \in Key : row'[k] = row[k] \/ row'[k] = [row[k] EXCEPT !.status = "running"]
        BY <1>1, <2>1
      <3>2. ASSUME NEW k \in Key
            PROVE  row'[k].cancelRequested = row[k].cancelRequested
        <4>1. row[k] \in Row
          BY <1>1
        <4>2. [row[k] EXCEPT !.status = "running"].cancelRequested = row[k].cancelRequested
          BY <4>1 DEF Row
        <4> QED
          BY <3>1, <4>2
      <3> QED
        BY <3>2 DEF FlagsStay
    <2> QED
      BY <2>1, SameRowsQuiet DEF Claim
  <1>3. CASE Quiet
    BY <1>2, <1>3 DEF Writes
  <1>4. ASSUME NEW k \in Key, row'[k].status # row[k].status
        PROVE  Moves(job[w], "pending", "running")
    BY <1>4, ClaimProgress DEF Moves
  <1> QED
    BY <1>2, <1>3, <1>4 DEF Writes, Quiet

LEMMA WorkerWrites ==
  ASSUME SafetyInv, NEW w \in Workers, WorkerStep(w)
  PROVE  FlagsStay /\ Writes(w)
  <1>1. CASE UNCHANGED row
    BY <1>1, SameRowsQuiet DEF Writes
  <1>2. CASE Claim(w)
    BY <1>2, ClaimWrites DEF SafetyInv
  <1>3. ASSUME NEW error \in {"none", "exists", "other"}, pc[w] \in Owning,
               FailSetup(w, error)
        PROVE  FlagsStay /\ Writes(w)
    BY <1>3, FinishWrites DEF FailSetup, Terminal
  <1>4. ASSUME pc[w] \in Owning,
               \/ row' = [row EXCEPT ![job[w]].status = "running"]
               \/ \E r \in BOOLEAN, error \in {"none", "exists", "other"} :
                    row' = [row EXCEPT ![job[w]] = [@ EXCEPT !.status = "running",
                                                             !.retryable = r,
                                                             !.error = error]]
               \/ \E g \in Groups :
                    row' = [row EXCEPT ![job[w]].group = g, ![job[w]].status = "running"]
        PROVE  FlagsStay /\ Writes(w)
    BY <1>4, HeldRowMoves, RunningQuiet DEF Active, Writes
  <1>5. CASE Begin(w)
    <2>1. pc[w] \in Owning
      BY <1>5 DEF Begin, Owning, InRun
    <2> QED
      BY <1>3, <1>4, <1>5, <2>1 DEF Begin
  <1>6. CASE Reuse(w) \/ CloneFresh(w) \/ CloneOver(w) \/ Extract(w)
    <2>1. pc[w] \in Owning
      BY <1>6 DEF Reuse, CloneFresh, CloneOver, Extract, Owning, InRun
    <2> QED
      BY <1>1, <1>3, <1>6, <2>1 DEF Reuse, CloneFresh, CloneOver, Extract, Prepared
  <1>7. CASE ReadConfig(w)
    <2>1. pc[w] \in Owning
      BY <1>7 DEF ReadConfig, Owning, InRun
    <2> QED
      BY <1>1, <1>3, <1>4, <1>7, <2>1 DEF ReadConfig
  <1>8. CASE Supersede(w)
    <2>1. CASE CancelRunningInGroup(job[w], row[job[w]].group)
      BY <2>1, FlagsProgress, FlagsRaised
         DEF SafetyInv, TypeInv, TypeOK, Writes, Quiet
    <2> QED
      BY <1>1, <1>8, <2>1 DEF Supersede, storeVars
  <1>9. CASE Build(w)
    BY <1>1, <1>3, <1>9 DEF Build, Owning, InRun
  <1>10. CASE StepUpdate(w)
    BY <1>4, <1>10 DEF StepUpdate, WhileSteps, UpdateExecution, Owning, InRun
  <1>11. CASE EndSteps(w)
    BY <1>11, FinishWrites DEF EndSteps, Owning, InRun, Terminal
  <1>12. CASE \/ Stop(w) \/ Select(w) \/ ClaimUnread(w) \/ Count(w) \/ Register(w)
              \/ Release(w) \/ CancelRun(w)
    BY <1>1, <1>12 DEF Stop, Select, ClaimUnread, Count, Register, Release, CancelRun
  <1> QED
    BY <1>2, <1>5, <1>6, <1>7, <1>8, <1>9, <1>10, <1>11, <1>12 DEF WorkerStep

\* A row that is inserted takes the place of none.
LEMMA CreateInserts ==
  ASSUME SafetyInv, NEW p \in Projects, NEW r, CreateExecution(p, r)
  PROVE  /\ NextKey(p) \in Key /\ ~Exists(NextKey(p))
         /\ row' = [row EXCEPT ![NextKey(p)] = r]
         /\ \A k \in Key \ {NextKey(p)} : row'[k] = row[k]
  <1>1. /\ seq[p] \in 0 .. MaxId /\ seq[p] < MaxId /\ MaxId \in Nat
        /\ row' = [row EXCEPT ![NextKey(p)] = r] /\ row \in [Key -> Row]
    BY ExecutionsAssumption DEF SafetyInv, TypeInv, TypeOK, StoreTypeOK, CreateExecution
  <1>2. seq[p] + 1 \in 1 .. MaxId /\ ~(seq[p] + 1 <= seq[p])
    BY <1>1
  <1>3. NextKey(p) \in Key /\ NextKey(p)[1] = p /\ NextKey(p)[2] = seq[p] + 1
    BY <1>2 DEF NextKey
  <1>4. ~Exists(NextKey(p))
    BY <1>2, <1>3 DEF SafetyInv, StoreInv, RowsNumbered
  <1> QED
    BY <1>1, <1>3, <1>4

LEMMA RequestsWrite ==
  ASSUME SafetyInv,
         \/ \E c \in Callers : CallerStep(c)
         \/ \E p \in Projects, src \in Sources : Submit(p, src)
         \/ \E k \in Key : RequestCancel(k)
         \/ UNCHANGED vars
  PROVE  \/ Progress /\ FlagsStay /\ Quiet
         \/ \E p \in Projects, r \in Row : Insertion(p, r)
  <1>1. CASE UNCHANGED <<row, seq>>
    BY <1>1, SameRowsQuiet, UnchangedProgress
  <1>2. CASE \E k \in Key : RequestCancel(k)
    BY <1>2, FlagsProgress, FlagsRaised
       DEF RequestCancel, SafetyInv, TypeInv, TypeOK, Quiet
  <1> QED
    BY <1>1, <1>2, RetryInserts, SubmitInserts
       DEF CallerStep, RetryRead, RetryCheck, storeVars, vars

LEMMA InstancesWrite ==
  ASSUME SafetyInv, NEW i \in Instances, InstanceStep(i)
  PROVE  Progress /\ FlagsStay /\ (Quiet \/ Requeues)
  <1>1. row \in [Key -> Row]
    BY DEF SafetyInv, TypeInv, TypeOK, StoreTypeOK
  <1>2. CASE RequeueOrphaned /\ seq' = seq
    <2>1. ASSUME NEW k \in Key
          PROVE  /\ row'[k].cancelRequested = row[k].cancelRequested
                 /\ row'[k].status = IF row[k].status = "running" THEN "pending"
                                                                  ELSE row[k].status
      <3>1. row[k] \in Row
        BY <1>1
      <3>2. row'[k] = IF row[k].status = "running" THEN [row[k] EXCEPT !.status = "pending"]
                                                   ELSE row[k]
        BY <1>2 DEF RequeueOrphaned, Requeued, RequeuedAs
      <3> QED
        BY <3>1, <3>2 DEF Row
    <2>2. Progress
      BY <1>2, RequeueProgress DEF SafetyInv, TypeInv, TypeOK
    <2> QED
      BY <2>1, <2>2 DEF FlagsStay, Requeues
  <1>3. CASE UNCHANGED <<row, seq>>
    BY <1>3, SameRowsQuiet, UnchangedProgress
  <1> QED
    BY <1>2, <1>3
       DEF InstanceStep, StartInstance, Recover, Crash, Exit, ProcessEnds,
           BeginDrain, DrainTimeout, DrainReturn

LEMMA FlagsStep ==
  ASSUME SafetyInv, [Next]_vars
  PROVE  FlagsStay
  <1>1. ASSUME NEW p \in Projects, NEW r \in Row, Insertion(p, r)
        PROVE  FlagsStay
    BY <1>1, CreateInserts DEF FlagsStay, Insertion
  <1> QED
    BY <1>1, WorkerWrites, InstancesWrite, RequestsWrite DEF Next

\* Behind a canceled context of a run is the flag of its own row, or the shutdown.
CanceledByCause ==
  \A w \in Workers : pc[w] \in InRun /\ ctx[w] = "canceled"
                       => row[job[w]].cancelRequested \/ inst[Home[w]] = "forced"

LEMMA CauseStep ==
  ASSUME SafetyInv, CanceledByCause, [Next]_vars
  PROVE  CanceledByCause'
  <1> SUFFICES ASSUME NEW v \in Workers, pc'[v] \in InRun, ctx'[v] = "canceled"
               PROVE  row'[job'[v]].cancelRequested \/ inst'[Home[v]] = "forced"
    BY DEF CanceledByCause
  <1>1. /\ inst \in [Instances -> InstanceState] /\ pc \in [Workers -> WorkerState]
        /\ ctx \in [Workers -> {"live", "canceled"}] /\ job \in [Workers -> Key \cup {NoKey}]
        /\ Home[v] \in Instances
    BY RunnerAssumption DEF SafetyInv, TypeInv, TypeOK
  <1>2. CASE /\ pc[v] \in InRun /\ ctx[v] = "canceled" /\ job'[v] = job[v]
             /\ inst[Home[v]] = "forced" => inst'[Home[v]] = "forced"
    <2>1. job[v] \in Key /\ Exists(job[v])
      BY <1>2 DEF SafetyInv, WorkerInv, OwnersHaveRow, Ownership, HeldRowsRun, Holds,
                  Owning, Exists
    <2> QED
      BY <1>2, <2>1, FlagsStep DEF CanceledByCause, FlagsStay
  <1>3. ASSUME NEW w \in Workers, WorkerStep(w)
        PROVE  row'[job'[v]].cancelRequested \/ inst'[Home[v]] = "forced"
    <2>1. inst' = inst
      BY <1>3 DEF WorkerStep, Stop, Select, Claim, ClaimUnread, Count, Register, Begin, Reuse,
         CloneFresh, CloneOver, Extract, ReadConfig, Supersede, Build, StepUpdate,
         EndSteps, CancelRun, Release, Prepared, FailSetup, Finish, procVars, workerVars
    <2>2. CASE CancelRun(w)
      <3>1. CASE v = w
        BY <2>2, <3>1 DEF CancelRun, Flagged
      <3>2. CASE v # w
        BY <1>1, <1>2, <2>1, <2>2, <3>2 DEF CancelRun
      <3> QED
        BY <3>1, <3>2
    <2>3. CASE Stop(w) \/ Select(w) \/ Claim(w) \/ ClaimUnread(w) \/ Count(w) \/ Release(w)
      <3>1. v # w /\ pc'[v] = pc[v] /\ job'[v] = job[v] /\ ctx' = ctx
        BY <1>1, <2>3 DEF Stop, Select, Claim, ClaimUnread, Count, Release, Goto, InRun
      <3> QED
        BY <1>2, <2>1, <3>1
    <2>4. CASE Register(w)
      <3>1. v # w /\ pc'[v] = pc[v] /\ job' = job /\ ctx'[v] = ctx[v]
        BY <1>1, <2>4 DEF Register, Goto
      <3> QED
        BY <1>2, <2>1, <3>1
    <2>5. CASE \/ Begin(w) \/ Reuse(w) \/ CloneFresh(w) \/ CloneOver(w) \/ Extract(w)
               \/ ReadConfig(w) \/ Supersede(w) \/ Build(w) \/ StepUpdate(w) \/ EndSteps(w)
      <3>1. pc[w] \in InRun /\ job' = job /\ ctx' = ctx
        BY <2>5 DEF Begin, Reuse, CloneFresh, CloneOver, Extract, ReadConfig, Supersede,
           Build, StepUpdate, EndSteps, Prepared, FailSetup, Finish, WhileSteps, InRun,
           workerVars
      <3>2. v # w => pc'[v] = pc[v]
        BY <1>1, <2>5 DEF Begin, Reuse, CloneFresh, CloneOver, Extract, ReadConfig, Supersede,
           Build, StepUpdate, EndSteps, Prepared, FailSetup, Finish, Goto, workerVars
      <3> QED
        BY <1>2, <2>1, <3>1, <3>2
    <2> QED
      BY <1>3, <2>2, <2>3, <2>4, <2>5 DEF WorkerStep
  <1>4. ASSUME NEW i \in Instances, InstanceStep(i)
        PROVE  row'[job'[v]].cancelRequested \/ inst'[Home[v]] = "forced"
    <2>1. CASE StartInstance(i)
      <3>1. Home[v] # i /\ pc'[v] = pc[v] /\ inst'[Home[v]] = inst[Home[v]] /\ UNCHANGED <<job, ctx>>
        BY <1>1, <2>1 DEF StartInstance, InRun
      <3> QED
        BY <1>2, <3>1
    <2>2. CASE Crash(i) \/ Exit(i)
      <3>1. /\ Home[v] # i /\ pc'[v] = pc[v] /\ inst'[Home[v]] = inst[Home[v]]
            /\ job'[v] = job[v] /\ ctx'[v] = ctx[v]
        BY <1>1, <2>2 DEF Crash, Exit, ProcessEnds, InRun
      <3> QED
        BY <1>2, <3>1
    <2>3. CASE BeginDrain(i)
      <3>1. inst[Home[v]] = "forced" => inst'[Home[v]] = "forced"
        BY <1>1, <2>3 DEF BeginDrain
      <3> QED
        BY <1>2, <2>3, <3>1 DEF BeginDrain
    <2>4. CASE DrainTimeout(i)
      <3>1. CASE Home[v] = i
        BY <1>1, <2>4, <3>1 DEF DrainTimeout
      <3>2. CASE Home[v] # i
        BY <1>1, <1>2, <2>4, <3>2 DEF DrainTimeout
      <3> QED
        BY <3>1, <3>2
    <2>5. CASE DrainReturn(i)
      <3>1. Home[v] # i
        BY <2>5 DEF DrainReturn, Counted, Registered
      <3> QED
        BY <1>1, <1>2, <2>5, <3>1 DEF DrainReturn
    <2> QED
      BY <1>4, <2>1, <2>2, <2>3, <2>4, <2>5 DEF InstanceStep
  <1>5. CASE \/ \E c \in Callers : CallerStep(c)
             \/ \E p \in Projects, src \in Sources : Submit(p, src)
             \/ \E k \in Key : RequestCancel(k)
             \/ UNCHANGED vars
    <2>1. UNCHANGED <<pc, job, ctx, inst>>
      BY <1>5 DEF CallerStep, RetryRead, RetryCheck, RetryInsert, Submit, RequestCancel,
                  procVars, workerVars, vars
    <2> QED
      BY <1>2, <2>1
  <1> QED
    BY <1>3, <1>4, <1>5 DEF Next

\* Only the end of a run's steps writes `canceled'.
LEMMA CanceledStep ==
  ASSUME SafetyInv, CanceledByCause, [Next]_vars, NEW k \in Key,
         row'[k].status = "canceled", row[k].status # "canceled"
  PROVE  row[k].cancelRequested \/ \E i \in Instances : inst[i] = "forced"
  <1>1. ASSUME NEW w \in Workers, WorkerStep(w)
        PROVE  row[k].cancelRequested \/ \E i \in Instances : inst[i] = "forced"
    <2>1. PICK status \in Terminal : EndsAs(w, status)
      BY <1>1, WorkerWrites DEF Writes, Quiet, Moves
    <2>2. k = job[w] /\ status = "canceled"
      BY <2>1 DEF EndsAs, Moves
    <2> QED
      BY <2>1, <2>2, RunnerAssumption DEF EndsAs, CanceledByCause, InRun
  <1>2. ASSUME NEW p \in Projects, NEW r \in Row, Insertion(p, r)
        PROVE  FALSE
    <2>1. row \in [Key -> Row] /\ r.status = "pending"
      BY <1>2 DEF Insertion, SafetyInv, TypeInv, TypeOK, StoreTypeOK
    <2>2. /\ NextKey(p) \in Key /\ row' = [row EXCEPT ![NextKey(p)] = r]
      BY <1>2, CreateInserts DEF Insertion
    <2> QED
      BY <2>1, <2>2
  <1> QED
    BY <1>1, <1>2, InstancesWrite, RequestsWrite DEF Next, Quiet, Requeues

\* An attempt ends as canceled only if its own cancellation was requested, or a
\* shutdown gave up on it.
THEOREM CancelsOnRequest == ASSUME OneInstance PROVE Spec => CanceledOnRequest
  <1>1. Init => CanceledByCause
    BY DEF Init, CanceledByCause, InRun
  <1>2. SafetyInv /\ CanceledByCause /\ [Next]_vars => CanceledByCause'
    BY CauseStep
  <1>3. SafetyInv /\ CanceledByCause /\ [Next]_vars
          => [\A k \in Key :
                row'[k].status = "canceled" /\ row[k].status # "canceled"
                  => \/ row[k].cancelRequested
                     \/ \E i \in Instances : inst[i] = "forced"]_vars
    BY CanceledStep
  <1> QED
    BY <1>1, <1>2, <1>3, SafetyInvariant, PTL DEF Spec, CanceledOnRequest

-------------------------------------------------------------------------------
(* The table implements the chain of attempts                               *)

\* k is the row of attempt a of execution e, in table r.
IsRow(r, k, e, a) == k \in Key /\ r[k].status # "none" /\ r[k].execution = e /\ r[k].attempt = a

LEMMA StatusOfRow ==
  ASSUME NEW r, NEW e, NEW a, NEW k, IsRow(r, k, e, a),
         \A j \in Key : IsRow(r, j, e, a) => j = k
  PROVE  StatusAt(r, e, a) = r[k].status
  <1> DEFINE Rows == {j \in Key : r[j].status # "none" /\ r[j].execution = e
                                                      /\ r[j].attempt = a}
  <1>1. Rows = {k}
    BY DEF IsRow
  <1> HIDE DEF Rows
  <1>2. Rows # {} /\ (CHOOSE j \in Rows : TRUE) = k
    BY <1>1
  <1>3. StatusAt(r, e, a) = IF Rows = {} THEN "none" ELSE r[CHOOSE j \in Rows : TRUE].status
    BY DEF StatusAt, Rows
  <1> QED
    BY <1>2, <1>3

LEMMA StatusOfNone ==
  ASSUME NEW r, NEW e, NEW a, \A j \in Key : ~IsRow(r, j, e, a)
  PROVE  StatusAt(r, e, a) = "none"
  BY DEF StatusAt, IsRow

\* Attempts are unique, so a row says where its status shows in the chain.
LEMMA ChainShows ==
  ASSUME StoreTypeOK, StoreInv, NEW k \in Key, Exists(k)
  PROVE  /\ row[k].execution \in Key /\ row[k].attempt \in 1 .. MaxId
         /\ StatusAt(row, row[k].execution, row[k].attempt) = row[k].status
  <1>1. /\ row[k].execution \in Key /\ row[k].attempt >= 1 /\ row[k].attempt \in Nat
        /\ row[k].attempt <= k[2] /\ k[2] \in 1 .. MaxId /\ MaxId \in Nat
    BY ExecutionsAssumption
       DEF StoreInv, RowsBelong, AttemptsBounded, StoreTypeOK, Row
  <1>2. IsRow(row, k, row[k].execution, row[k].attempt)
    BY DEF IsRow, Exists
  <1>3. ASSUME NEW j \in Key, IsRow(row, j, row[k].execution, row[k].attempt)
        PROVE  j = k
    BY <1>3 DEF IsRow, StoreInv, AttemptsUnique, SameExecution, Exists
  <1>4. StatusAt(row, row[k].execution, row[k].attempt) = row[k].status
    BY <1>2, <1>3, StatusOfRow
  <1> QED
    BY <1>1, <1>4

\* Progress moves the status of each attempt as it moves that of its row.
LEMMA ProgressShows ==
  ASSUME StoreTypeOK, StoreInv, Progress, NEW e \in Key, NEW a \in 1 .. MaxId
  PROVE  \/ \E k \in Key : /\ IsRow(row, k, e, a)
                           /\ StatusAt(row, e, a) = row[k].status
                           /\ StatusAt(row', e, a) = row'[k].status
         \/ /\ \A k \in Key : ~IsRow(row, k, e, a)
            /\ StatusAt(row, e, a) = "none" /\ StatusAt(row', e, a) = "none"
  <1>1. \A k \in Key : IsRow(row', k, e, a) <=> IsRow(row, k, e, a)
    BY DEF Progress, SameIdentity, StatusMoves, IsRow, Active, Terminal
  <1>2. CASE \A k \in Key : ~IsRow(row, k, e, a)
    BY <1>1, <1>2, StatusOfNone
  <1>3. ASSUME NEW k \in Key, IsRow(row, k, e, a)
        PROVE  /\ StatusAt(row, e, a) = row[k].status
               /\ StatusAt(row', e, a) = row'[k].status
    <2>1. \A j \in Key : IsRow(row, j, e, a) => j = k
      BY <1>3 DEF IsRow, StoreInv, AttemptsUnique, SameExecution, Exists
    <2>2. StatusAt(row, e, a) = row[k].status
      BY <1>3, <2>1, StatusOfRow
    <2>3. IsRow(row', k, e, a) /\ \A j \in Key : IsRow(row', j, e, a) => j = k
      BY <1>1, <1>3, <2>1
    <2>4. StatusAt(row', e, a) = row'[k].status
      BY <2>3, StatusOfRow
    <2> QED
      BY <2>2, <2>4
  <1> QED
    BY <1>2, <1>3

\* Changing the chain at one place, for every place.
LEMMA ChainSet ==
  ASSUME NEW e \in Key, NEW a \in 1 .. MaxId, NEW status,
         \A f \in Key, b \in 1 .. MaxId :
           StatusAt(row', f, b) = IF f = e /\ b = a THEN status ELSE StatusAt(row, f, b)
  PROVE  Chain!Set(e, a, status)
  <1> DEFINE new == [ChainOf EXCEPT ![e][a] = status]
  <1>1. ChainOf' = [f \in Key |-> [b \in 1 .. MaxId |-> StatusAt(row', f, b)]]
    BY DEF ChainOf
  <1>2. new = [f \in Key |-> [b \in 1 .. MaxId |->
                 IF f = e /\ b = a THEN status ELSE StatusAt(row, f, b)]]
    <2>1. new = [f \in Key |-> IF f = e THEN [ChainOf[e] EXCEPT ![a] = status] ELSE ChainOf[f]]
      BY DEF ChainOf
    <2>2. ASSUME NEW f \in Key
          PROVE  (IF f = e THEN [ChainOf[e] EXCEPT ![a] = status] ELSE ChainOf[f])
                   = [b \in 1 .. MaxId |->
                        IF f = e /\ b = a THEN status ELSE StatusAt(row, f, b)]
      <3>1. ChainOf[f] = [b \in 1 .. MaxId |-> StatusAt(row, f, b)]
        BY DEF ChainOf
      <3> QED
        BY <3>1
    <2> QED
      BY <2>1, <2>2
  <1>3. ChainOf' = new
    <2>1. ASSUME NEW f \in Key
          PROVE  [b \in 1 .. MaxId |-> StatusAt(row', f, b)]
                   = [b \in 1 .. MaxId |->
                        IF f = e /\ b = a THEN status ELSE StatusAt(row, f, b)]
      OBVIOUS
    <2> HIDE DEF new
    <2> QED
      BY <1>1, <1>2, <2>1
  <1> QED
    BY <1>3 DEF Chain!Set

LEMMA ChainReads ==
  \A e \in Key, a \in 1 .. MaxId : ChainOf[e][a] = StatusAt(row, e, a)
  BY DEF ChainOf

LEMMA QuietImplements ==
  ASSUME StoreTypeOK, StoreInv, Progress, Quiet
  PROVE  Chain!Stutter
  <1>1. \A e \in Key, a \in 1 .. MaxId : StatusAt(row', e, a) = StatusAt(row, e, a)
    BY ProgressShows DEF Quiet
  <1> QED
    BY <1>1 DEF ChainOf, Chain!Stutter

LEMMA MoveImplements ==
  ASSUME StoreTypeOK, StoreInv, Progress, NEW k, NEW from, NEW to,
         Moves(k, from, to), from # "none"
  PROVE  \E e \in Key, a \in 1 .. MaxId : ChainOf[e][a] = from /\ Chain!Set(e, a, to)
  <1> DEFINE e == row[k].execution
             a == row[k].attempt
  <1>1. k \in Key /\ Exists(k)
    BY DEF Moves, Exists
  <1>2. e \in Key /\ a \in 1 .. MaxId /\ StatusAt(row, e, a) = from
    BY <1>1, ChainShows DEF Moves
  <1>3. ASSUME NEW f \in Key, NEW b \in 1 .. MaxId
        PROVE  StatusAt(row', f, b) = IF f = e /\ b = a THEN to ELSE StatusAt(row, f, b)
    <2>1. IsRow(row, k, e, a)
      BY <1>1 DEF IsRow, Exists
    <2>2. CASE f = e /\ b = a
      <3>1. PICK j \in Key : IsRow(row, j, e, a) /\ StatusAt(row', e, a) = row'[j].status
        BY <1>1, <2>1, <2>2, ProgressShows
      <3>2. j = k
        BY <1>1, <2>1, <3>1 DEF IsRow, StoreInv, AttemptsUnique, SameExecution, Exists
      <3> QED
        BY <2>2, <3>1, <3>2 DEF Moves
    <2>3. CASE ~(f = e /\ b = a)
      BY <2>3, ProgressShows DEF Moves, IsRow
    <2> QED
      BY <2>2, <2>3
  <1>4. Chain!Set(e, a, to)
    BY <1>2, <1>3, ChainSet
  <1>5. ChainOf[e][a] = from
    BY <1>2, ChainReads
  <1> QED
    BY <1>2, <1>4, <1>5

LEMMA RequeuesImplement ==
  ASSUME StoreTypeOK, StoreInv, Progress, Requeues
  PROVE  Chain!Recover
  <1>1. \A e \in Key, a \in 1 .. MaxId :
          StatusAt(row', e, a) = IF StatusAt(row, e, a) = "running" THEN "pending"
                                                                   ELSE StatusAt(row, e, a)
    BY ProgressShows DEF Requeues
  <1>2. ChainOf' = [e \in Key |-> [a \in 1 .. MaxId |->
                      IF ChainOf[e][a] = "running" THEN "pending" ELSE ChainOf[e][a]]]
    BY <1>1, ChainReads DEF ChainOf
  <1> QED
    BY <1>2 DEF Chain!Recover, Chain!Attempt

LEMMA InsertionImplements ==
  ASSUME SafetyInv, StoreInv', StoreTypeOK', NEW p \in Projects, NEW r \in Row, Insertion(p, r)
  PROVE  Chain!Next
  <1> PICK new \in Key : new = NextKey(p)
    BY CreateInserts DEF Insertion
  <1>1. /\ ~Exists(new) /\ row' = [row EXCEPT ![new] = r] /\ row'[new] = r
        /\ \A k \in Key \ {new} : row'[k] = row[k]
        /\ r.status = "pending" /\ StoreTypeOK /\ StoreInv
    <2>1. row \in [Key -> Row]
      BY DEF SafetyInv, TypeInv, TypeOK, StoreTypeOK
    <2> QED
      BY <2>1, CreateInserts DEF Insertion, SafetyInv, TypeInv, TypeOK
  <1> DEFINE e == r.execution
             a == r.attempt
  <1>2. e \in Key /\ a \in 1 .. MaxId /\ a \in Nat
    <2>1. /\ row'[new].execution \in Key /\ row'[new].attempt >= 1
          /\ row'[new].attempt <= new[2]
      BY <1>1 DEF StoreInv, RowsBelong, AttemptsBounded, Exists
    <2> QED
      BY <1>1, <2>1, ExecutionsAssumption DEF Row
  <1>3. \A k \in Key : ~IsRow(row, k, e, a)
    BY DEF Insertion, CreateExecution, UniqueIndexAllows, IsRow, Exists
  <1>4. ASSUME NEW f \in Key, NEW b \in 1 .. MaxId
        PROVE  StatusAt(row', f, b) = IF f = e /\ b = a THEN "pending" ELSE StatusAt(row, f, b)
    <2>1. CASE f = e /\ b = a
      <3>1. IsRow(row', new, e, a)
        BY <1>1 DEF IsRow
      <3>2. \A j \in Key : IsRow(row', j, e, a) => j = new
        BY <1>1, <1>3 DEF IsRow
      <3>3. StatusAt(row', e, a) = row'[new].status
        BY <3>1, <3>2, StatusOfRow
      <3> QED
        BY <1>1, <2>1, <3>3
    <2>2. CASE ~(f = e /\ b = a)
      <3>1. \A j \in Key : IsRow(row', j, f, b) <=> IsRow(row, j, f, b)
        BY <1>1, <2>2 DEF IsRow, Exists
      <3>2. CASE \A j \in Key : ~IsRow(row, j, f, b)
        <4>1. StatusAt(row', f, b) = "none" /\ StatusAt(row, f, b) = "none"
          BY <3>1, <3>2, StatusOfNone
        <4> QED
          BY <2>2, <4>1
      <3>3. ASSUME NEW k \in Key, IsRow(row, k, f, b)
            PROVE  StatusAt(row', f, b) = StatusAt(row, f, b)
        <4>1. \A j \in Key : IsRow(row, j, f, b) => j = k
          BY <1>1, <3>3 DEF IsRow, StoreInv, AttemptsUnique, SameExecution, Exists
        <4>2. StatusAt(row, f, b) = row[k].status
          BY <3>3, <4>1, StatusOfRow
        <4>3. IsRow(row', k, f, b) /\ \A j \in Key : IsRow(row', j, f, b) => j = k
          BY <3>1, <3>3, <4>1
        <4>4. StatusAt(row', f, b) = row'[k].status
          BY <4>3, StatusOfRow
        <4>5. row'[k] = row[k]
          BY <1>1, <3>3 DEF IsRow, Exists
        <4> QED
          BY <4>2, <4>4, <4>5
      <3> QED
        BY <2>2, <3>2, <3>3
    <2> QED
      BY <2>1, <2>2
  <1>5. Chain!Set(e, a, "pending")
    BY <1>2, <1>4, ChainSet
  <1>6. CASE IsFirst(r, p)
    <2>1. a = 1 /\ \A k \in Key : Exists(k) => row[k].execution # e
      BY <1>1, <1>6 DEF IsFirst, StoreInv, RowsBelong
    <2>2. \A b \in 1 .. MaxId : StatusAt(row, e, b) = "none"
      BY <2>1, StatusOfNone DEF IsRow, Exists
    <2>3. Chain!Submit(e)
      BY <1>2, <1>5, <2>1, <2>2, ChainReads DEF Chain!Submit, Chain!Attempt
    <2> QED
      BY <1>2, <2>3 DEF Chain!Next
  <1>7. CASE IsNext(r, p)
    <2>1. PICK prev \in Key : /\ row[prev].status = "failed" /\ e = row[prev].execution
                              /\ a = row[prev].attempt + 1
      BY <1>7 DEF IsNext
    <2> DEFINE b == row[prev].attempt
    <2>2. b \in 1 .. MaxId /\ StatusAt(row, e, b) = "failed"
      BY <1>1, <2>1, ChainShows DEF Exists
    <2>3. StatusAt(row, e, a) = "none"
      BY <1>3, StatusOfNone
    <2>4. Chain!Retry(e, b)
      BY <1>2, <1>5, <2>1, <2>2, <2>3, ChainReads DEF Chain!Retry, Chain!Attempt
    <2> QED
      BY <1>2, <2>2, <2>4 DEF Chain!Next, Chain!Attempt
  <1> QED
    BY <1>6, <1>7 DEF Insertion

LEMMA ChainStep ==
  ASSUME OneInstance, SafetyInv, [Next]_vars
  PROVE  Chain!Next
  <1>1. StoreTypeOK /\ StoreInv
    BY DEF SafetyInv, TypeInv, TypeOK
  <1>2. StoreTypeOK' /\ StoreInv'
    BY SafetyStep DEF SafetyInv, TypeInv, TypeOK
  <1>3. CASE Progress /\ Quiet
    BY <1>1, <1>3, QuietImplements DEF Chain!Next
  <1>4. ASSUME NEW p \in Projects, NEW r \in Row, Insertion(p, r)
        PROVE  Chain!Next
    BY <1>2, <1>4, InsertionImplements
  <1>5. ASSUME NEW w \in Workers, WorkerStep(w)
        PROVE  Chain!Next
    <2>1. Progress
      BY <1>5, WorkerProgress
    <2>2. CASE Moves(job[w], "pending", "running")
      <3>1. PICK e \in Key, a \in 1 .. MaxId :
              ChainOf[e][a] = "pending" /\ Chain!Set(e, a, "running")
        BY <1>1, <2>1, <2>2, MoveImplements
      <3> QED
        BY <3>1 DEF Chain!Claim, Chain!Next, Chain!Attempt
    <2>3. ASSUME NEW status \in Terminal, Moves(job[w], "running", status)
          PROVE  Chain!Next
      <3>1. PICK e \in Key, a \in 1 .. MaxId :
              ChainOf[e][a] = "running" /\ Chain!Set(e, a, status)
        BY <1>1, <2>1, <2>3, MoveImplements
      <3> QED
        BY <3>1 DEF Chain!End, Chain!Next, Chain!Attempt, Chain!Final, Terminal
    <2> QED
      BY <1>3, <1>5, <2>1, <2>2, <2>3, WorkerWrites DEF Writes, EndsAs
  <1>6. ASSUME NEW i \in Instances, InstanceStep(i)
        PROVE  Chain!Next
    BY <1>1, <1>3, <1>6, InstancesWrite, RequeuesImplement DEF Chain!Next
  <1> QED
    BY <1>3, <1>4, <1>5, <1>6, RequestsWrite DEF Next

LEMMA ChainStarts == Init => Chain!Init
  <1> SUFFICES ASSUME Init PROVE Chain!Init
    OBVIOUS
  <1>1. \A e \in Key, a \in 1 .. MaxId : StatusAt(row, e, a) = "none"
    BY StatusOfNone DEF Init, StoreInit, NoRow, IsRow
  <1> QED
    BY <1>1 DEF Chain!Init, Chain!Attempt, ChainOf

\* The table, with all its writers, is the chain of attempts users are promised.
THEOREM TableIsChain == ASSUME OneInstance PROVE Spec => ImplementsChain
  <1>1. SafetyInv /\ [Next]_vars => [Chain!Next]_ChainOf
    BY ChainStep
  <1> QED
    BY <1>1, ChainStarts, SafetyInvariant, PTL DEF Spec, ImplementsChain, Chain!Spec
===============================================================================
