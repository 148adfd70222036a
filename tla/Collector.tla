------------------------------- MODULE Collector -------------------------------
(***************************************************************************)
(* What runs leave on the machine, and the garbage collector that takes it *)
(* away: workspaces, log directories, uploaded snapshots and sandboxes.    *)
(* The collector of each process sweeps them while the workers, the retry  *)
(* requests and the restarts of Runner go on; a sweep asks the store about *)
(* one item, and then removes it.                                          *)
(*                                                                         *)
(* Every step of Runner is a step here; `Follow' adds what it does to the  *)
(* things Runner has no variable for.  Time is reduced to one bit for each *)
(* row and upload: older than the retention (Keep) or not.                 *)
(*                                                                         *)
(* On SIGTERM a process cancels the root context, under which its sweeps   *)
(* query, and only then shuts its HTTP server down and drains its workers: *)
(* CancelRoot comes first, and the step BeginDrain of Runner behind it.    *)
(*                                                                         *)
(* NoneStale, RetainedByOwner, ExpiredOnSuccess, ExpiredWithFirst,         *)
(* SameAttempt and DroppedOnUse are faults the code does not have: no      *)
(* action uses them, mutation runs put them in.                            *)
(***************************************************************************)
EXTENDS Runner

CONSTANTS
  Ids,         \* what the daemon tells sandboxes of one attempt apart by
  NoBox,       \* "no sandbox"
  MaxFailures  \* bound: queries of the collector, creations and removals of
               \* sandboxes that fail

ASSUME CollectorAssumption ==
  /\ Ids \subseteq Nat /\ NoBox \notin Key \X Ids
  /\ MaxFailures \in Nat

VARIABLES
  aged,      \* rows that ended longer ago than Keep
  upload,    \* the snapshot archive of each row
  logs,      \* rows that have a log directory
  boxes,     \* sandboxes on the container daemon
  box,       \* the sandbox each worker runs its steps in
  sweep,     \* the collector of each process
  closing,   \* processes whose root context is canceled
  failures,  \* such failures so far
  unsafe     \* a workspace or log was doomed on no answer, or before a retry
             \* of it was accepted (auxiliary)

keptVars == <<aged, upload, logs, boxes, box, failures>>
allVars  == <<vars, keptVars, sweep, closing, unsafe>>

\* A sandbox has an identity of its own; its labels name the attempt.
Box == Key \X Ids

\* The sandboxes RemoveSandbox(b) takes.
SameAttempt(b, c) == b[1] = c[1]
SameBox(b, c)     == b = c

Idle == [at |-> "idle", todo |-> {}, doomed |-> {}]

CollectorInit ==
  /\ Init
  /\ aged = {} /\ logs = {} /\ boxes = {}
  /\ upload = [k \in Key |-> "none"]
  /\ box = [w \in Workers |-> NoBox]
  /\ sweep = [i \in Instances |-> Idle]
  /\ closing = {} /\ failures = 0 /\ unsafe = FALSE

\* The daemon or the store fails a call.
CallFails == failures < MaxFailures /\ failures' = failures + 1

-------------------------------------------------------------------------------
(* What a step of Runner does besides                                       *)

Enters(w, from, to) == pc[w] \in from /\ pc'[w] = to
Submitted(k) == row[k].status = "none" /\ row'[k].status # "none"

\* CreateSnapshot stores the archive and then inserts the row; the end of the
\* run removes it, after the terminal row was written.
DroppedOnUse(w) == Enters(w, {"prepare"}, "group")
DroppedAtEnd(w) == Enters(w, {"report"}, "poll")
UploadFollows ==
  upload' = [k \in Key |->
    IF Submitted(k) /\ row'[k].source = "snapshot" THEN "fresh"
    ELSE IF \E w \in Workers : job[w] = k /\ DroppedAtEnd(w) THEN "none"
    ELSE upload[k]]

\* A snapshot can only be unpacked if it is there.
UploadNeeded ==
  \A w \in Workers : Enters(w, {"prepare"}, "group") /\ row[job[w]].source = "snapshot"
                       => upload[job[w]] \in {"fresh", "stale"}

\* run makes the log directory of the attempt before it prepares the source.
LogsFollow ==
  logs' = logs \cup {k \in Key : \E w \in Workers : job[w] = k /\ Enters(w, {"begin"}, "prepare")}

\* What is on the daemon, and what a worker or a sweep still remembers of it.
Known(b) == \/ b \in boxes
            \/ \E w \in Workers : box[w] = b
            \/ \E i \in Instances : b \in sweep[i].todo \cup sweep[i].doomed

\* The daemon names a sandbox as it named none before; names that nobody
\* remembers are as good as new, and the least of them as good as any.
New(w) ==
  LET free == {b \in {job[w]} \X Ids : ~Known(b)} IN
    {b \in free : \A c \in free : b[2] <= c[2]}

\* What earlier runs of the attempt left.
NoneStale(w) == {}
Stale(w)     == {b \in boxes : b[1] = job[w]}

\* CreateSandbox, for a workflow with docker steps.  What is stale is removed
\* first, but the sandbox is created as well when that fails, for all (the list)
\* or for some.
StartSandbox(w) ==
  /\ Enters(w, {"group", "build"}, "steps")
  /\ \E b \in New(w), gone \in SUBSET Stale(w) :
       /\ box' = [box EXCEPT ![w] = b]
       /\ boxes' = (boxes \ gone) \cup {b}
       /\ IF gone = Stale(w) THEN UNCHANGED failures ELSE CallFails

\* The run fails while the sandbox is set up (it does not start, or the image
\* cannot be pulled into it), or its process ends.  If one was created by then it
\* stays when it could not be removed, or when nobody is left to remove it.
LeaveSandbox(w) ==
  /\ Enters(w, {"group", "build"}, "report") \/ Enters(w, {"group", "build"}, "off")
  /\ \E gone \in SUBSET Stale(w) :
       \/ boxes' = boxes \ gone /\ UNCHANGED failures
       \/ /\ \E b \in New(w) : boxes' = (boxes \ gone) \cup {b}
          /\ IF gone = Stale(w) /\ pc'[w] = "off" THEN UNCHANGED failures ELSE CallFails
  /\ box' = [v \in Workers |-> IF pc'[v] = "off" THEN NoBox ELSE box[v]]

\* stopSandbox, deferred behind finish; a failure is only logged.
StopSandbox(w) ==
  /\ Enters(w, {"report"}, "poll") /\ box[w] # NoBox
  /\ box' = [box EXCEPT ![w] = NoBox]
  /\ \/ boxes' = boxes \ {box[w]} /\ UNCHANGED failures
     \/ CallFails /\ UNCHANGED boxes

NoSandbox ==
  /\ \A w \in Workers : Enters(w, {"report"}, "poll") => box[w] = NoBox
  /\ box' = [w \in Workers |-> IF pc'[w] = "off" THEN NoBox ELSE box[w]]
  /\ UNCHANGED <<boxes, failures>>

SandboxFollows ==
  NoSandbox \/ \E w \in Workers : StartSandbox(w) \/ LeaveSandbox(w) \/ StopSandbox(w)

\* The collector dies with its process.
SweepFollows ==
  sweep' = [i \in Instances |-> IF inst'[i] = "down" THEN Idle ELSE sweep[i]]

\* The workers are drained once the root context is canceled; both end with the
\* process.
ClosingFollows ==
  /\ \A i \in Instances : inst'[i] = "draining" => i \in closing
  /\ closing' = {i \in closing : inst'[i] # "down"}

\* A retry is accepted for a workspace that is already doomed.
UnsafeFollows ==
  unsafe' = (unsafe \/ \E i \in Instances, k \in Key :
               sweep[i].at = "repos" /\ Submitted(k) /\ row'[k].workspace \in sweep[i].doomed)

Follow == /\ UploadNeeded /\ UploadFollows /\ LogsFollow /\ SandboxFollows
          /\ SweepFollows /\ ClosingFollows /\ UnsafeFollows
          /\ UNCHANGED aged

-------------------------------------------------------------------------------
(* The collector                                                            *)

\* Keep goes by since a row ended, or since a snapshot was uploaded.
AgeRow(k) ==
  /\ row[k].status \in Terminal /\ k \notin aged
  /\ aged' = aged \cup {k}
  /\ UNCHANGED <<vars, upload, logs, boxes, box, sweep, closing, failures, unsafe>>

AgeUpload(k) ==
  /\ upload[k] = "fresh"
  /\ upload' = [upload EXCEPT ![k] = "stale"]
  /\ UNCHANGED <<vars, aged, logs, boxes, box, sweep, closing, failures, unsafe>>

\* WorkspaceRetained: some attempt in the workspace is active, or ended lately.
RetainedByOwner(ws) == Exists(ws) /\ ws \notin aged
Retained(ws) == \E k \in Key : row[k].workspace = ws /\ k \notin aged

\* expired: the attempt of a log directory ended longer ago than Keep.
ExpiredOnSuccess(k) == k \in aged /\ row[k].status = "success"
ExpiredWithFirst(k) == row[k].workspace \in aged
Expired(k)          == k \in aged

\* The stages of a sweep in their order, and what each lists.
Rank == [idle |-> 0, repos |-> 1, logs |-> 2, uploads |-> 3, boxes |-> 4]
Listed(stage) == CASE stage = "repos"   -> {k \in Key : dir[k] # "absent"}
                   [] stage = "logs"    -> logs
                   [] stage = "uploads" -> {k \in Key : upload[k] = "stale"}
                   [] stage = "boxes"   -> boxes
                   [] OTHER             -> {}

\* A tick begins, or a stage has been gone through: the next stage that lists
\* anything is entered.  (The select of the loop may choose a tick that is due
\* over a canceled context.)
NextStage(i) ==
  /\ inst[i] # "down"
  /\ sweep[i].todo = {} /\ sweep[i].doomed = {}
  /\ LET ahead == {s \in DOMAIN Rank : Rank[s] > Rank[sweep[i].at] /\ Listed(s) # {}} IN
       \/ /\ ahead = {} /\ sweep[i].at # "idle"
          /\ sweep' = [sweep EXCEPT ![i] = Idle]
       \/ \E s \in ahead :
            /\ \A t \in ahead : Rank[s] <= Rank[t]
            /\ sweep' = [sweep EXCEPT ![i].at = s, ![i].todo = Listed(s)]
  /\ UNCHANGED <<vars, keptVars, closing, unsafe>>

\* SIGTERM: rootCancel.  (Between it and BeginDrain, for at most five seconds,
\* workers go on to claim rows.)
CancelRoot(i) ==
  /\ inst[i] = "serving" /\ MayStop(i) /\ i \notin closing
  /\ closing' = closing \cup {i}
  /\ UNCHANGED <<vars, keptVars, sweep, unsafe>>

Doom(i, x, doomed) ==
  sweep' = [sweep EXCEPT ![i].todo = @ \ {x}, ![i].doomed = doomed]

\* A sweep that is under way when the root context is canceled goes on, with
\* every query failing; and a query may fail by itself.
QueryFails(i) == IF i \in closing THEN UNCHANGED failures ELSE CallFails

\* cleanupWorkspaces and cleanupLogs take a failed query for a no.
AskWorkspace(i) ==
  /\ inst[i] # "down" /\ sweep[i].at = "repos" /\ sweep[i].doomed = {}
  /\ \E k \in sweep[i].todo :
       \/ /\ i \notin closing
          /\ Doom(i, k, IF Retained(k) THEN {} ELSE {k})
          /\ UNCHANGED <<failures, unsafe>>
       \/ QueryFails(i) /\ Doom(i, k, {k}) /\ unsafe' = TRUE
  /\ UNCHANGED <<vars, aged, upload, logs, boxes, box, closing>>

RemoveWorkspace(i) ==
  /\ inst[i] # "down" /\ sweep[i].at = "repos"
  /\ \E k \in sweep[i].doomed :
       /\ dir' = [dir EXCEPT ![k] = "absent"]
       /\ Doom(i, k, {})
  /\ UNCHANGED <<row, seq, procVars, workerVars, retry, lost, keptVars, closing, unsafe>>

\* The query and the removal in one step: a row that ended stays ended.
CleanupLogs(i) ==
  /\ inst[i] # "down" /\ sweep[i].at = "logs"
  /\ \E k \in sweep[i].todo :
       /\ Doom(i, k, {})
       /\ \/ /\ i \notin closing
             /\ logs' = IF Expired(k) THEN logs \ {k} ELSE logs
             /\ UNCHANGED <<failures, unsafe>>
          \/ QueryFails(i) /\ logs' = logs \ {k} /\ unsafe' = TRUE
  /\ UNCHANGED <<vars, aged, upload, boxes, box, closing>>

\* cleanupUploads looks at the age of the archives alone.
CleanupUploads(i) ==
  /\ inst[i] # "down" /\ sweep[i].at = "uploads" /\ sweep[i].todo # {}
  /\ upload' = [k \in Key |-> IF upload[k] = "stale" THEN "swept" ELSE upload[k]]
  /\ sweep' = [sweep EXCEPT ![i].todo = {}]
  /\ UNCHANGED <<vars, aged, logs, boxes, box, closing, failures, unsafe>>

\* cleanupSandboxes spares a sandbox when its attempt is running, and when the
\* query fails.
AskSandbox(i) ==
  /\ inst[i] # "down" /\ sweep[i].at = "boxes" /\ sweep[i].doomed = {}
  /\ \E b \in sweep[i].todo :
       \/ /\ i \notin closing
          /\ Doom(i, b, IF row[b[1]].status = "running" THEN {} ELSE {b})
          /\ UNCHANGED failures
       \/ QueryFails(i) /\ Doom(i, b, {})
  /\ UNCHANGED <<vars, aged, upload, logs, boxes, box, closing, unsafe>>

RemoveSandbox(i) ==
  /\ inst[i] # "down" /\ sweep[i].at = "boxes"
  /\ \E b \in sweep[i].doomed :
       /\ Doom(i, b, {})
       /\ \/ /\ i \notin closing
             /\ boxes' = {c \in boxes : ~SameBox(b, c)}
             /\ UNCHANGED failures
          \/ QueryFails(i) /\ UNCHANGED boxes
  /\ UNCHANGED <<vars, aged, upload, logs, box, closing, unsafe>>

Sweep(i) == \/ NextStage(i) \/ AskWorkspace(i) \/ RemoveWorkspace(i)
            \/ CleanupLogs(i) \/ CleanupUploads(i)
            \/ AskSandbox(i) \/ RemoveSandbox(i)

Age == \E k \in Key : AgeRow(k) \/ AgeUpload(k)

CollectorNext ==
  (Next /\ Follow) \/ Age \/ \E i \in Instances : CancelRoot(i) \/ Sweep(i)

CollectorSpec == CollectorInit /\ [][CollectorNext]_allVars
===============================================================================
