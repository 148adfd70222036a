-------------------------------- MODULE Reports --------------------------------
(***************************************************************************)
(* What the outside sees of a run: readers follow its logs until it ends,  *)
(* and the code host shows a check run for its execution.  A run reports   *)
(* its result after it has written it to the store, when readers may have  *)
(* gone and the next attempt may have started.                             *)
(*                                                                         *)
(* Every step of Runner is a step here; `Follow' adds what it does to the  *)
(* logs, the streams and the reporters.  The lines of a log are reduced to *)
(* whether a stream has read all of them; a line is one written before the *)
(* terminal row, for `finished with status', and what is flushed when run  *)
(* returns, come after it.  The check run is that of a project on GitHub   *)
(* with a token; a call to its API succeeds, fails, or takes effect        *)
(* without an answer.                                                      *)
(*                                                                         *)
(* KeepsFile, AsRead, SavedOnAttempt and ShowAnyway are faults the code    *)
(* does not have: no action uses them, mutation runs put them in.          *)
(***************************************************************************)
EXTENDS Runner

CONSTANTS
  Readers,     \* clients that follow logs
  MaxFailures  \* bound: store and API calls of the reporter that fail

ASSUME ReportsAssumption == MaxFailures \in Nat

VARIABLES
  logs,      \* rows that have a setup log
  stream,    \* the stream of each reader
  reporter,  \* the reporter of each worker's run
  check,     \* the check runs of each execution
  failures,  \* such failures so far
  untold     \* executions whose last result did not reach the host (auxiliary)

seenVars    == <<logs, stream, reporter, check, failures, untold>>
reportsVars == <<vars, seenVars>>

\* wait: before a sweep of the files; look: before GetAttempt; last: before the
\* sweep that follows a terminal status.  unread: lines it has not sent yet; cut:
\* the log of an earlier run of the attempt was emptied under it.
Stream == [at : {"closed", "wait", "look", "last", "done"},
           of : Key \cup {NoKey}, host : Instances,
           unread : BOOLEAN, cut : BOOLEAN]

\* create .. mark: inside Started; told: past it; tell: before the call of
\* Finished; sent: past it.  known: checkRunID is set.
Reporter == [at : {"off", "create", "save", "mark", "told", "tell", "sent"},
             known : BOOLEAN, verdict : Terminal \cup {"none"}]

\* saved: the first attempt has a CheckRunID; shows: what that check run shows;
\* made: check runs created on the host, and lost: those never saved; latest: the
\* last attempt it heard the end of (auxiliary, these three).
Check == [saved : BOOLEAN, shows : Terminal \cup {"none", "in_progress"},
          made : Nat, lost : Nat, latest : Nat]

NoReporter == [at |-> "off", known |-> FALSE, verdict |-> "none"]
NoCheck    == [saved |-> FALSE, shows |-> "none", made |-> 0, lost |-> 0, latest |-> 0]
KeepsFile(s) == [stream[s] EXCEPT !.at = "closed"]
Closed(s)  == [stream[s] EXCEPT !.at = "closed", !.of = NoKey,
                                !.unread = FALSE, !.cut = FALSE]

ReportsInit ==
  /\ Init
  /\ logs = {} /\ failures = 0 /\ untold = {}
  /\ stream \in [Readers -> [at : {"closed"}, of : {NoKey}, host : Instances,
                             unread : {FALSE}, cut : {FALSE}]]
  /\ reporter = [w \in Workers |-> NoReporter]
  /\ check = [e \in Key |-> NoCheck]

-------------------------------------------------------------------------------
(* What a step of Runner does besides                                       *)

Enters(w, from, to) == pc[w] \in from /\ pc'[w] = to

\* run empties the setup log of the attempt, and writes its first line.
Truncates(k) == \E w \in Workers : job[w] = k /\ Enters(w, {"begin"}, "prepare")
LogsFollow == logs' = logs \cup {k \in Key : Truncates(k)}

\* A stream of an earlier run then waits for the file to outgrow what it has read.
Open(s) == stream[s].at # "closed"
Emptied(t) == IF t.of \in logs THEN [t EXCEPT !.cut = TRUE, !.unread = FALSE]
                              ELSE [t EXCEPT !.unread = TRUE]
StreamsFollow ==
  stream' = [s \in Readers |->
    IF Open(s) /\ inst'[stream[s].host] = "down" THEN Closed(s)
    ELSE IF Open(s) /\ Truncates(stream[s].of) THEN Emptied(stream[s])
    ELSE stream[s]]

Of(w) == row[job[w]].execution

\* Started is called between the group and the image build: not before a run
\* fails on its source or ci.yml, and always before its steps.
StartedInTime ==
  \A w \in Workers :
    /\ Enters(w, {"group", "build"}, "steps") => reporter[w].at = "told"
    /\ Enters(w, {"group"}, "supersede") => reporter[w].at = "off"
    /\ Enters(w, {"group", "build"}, "report") => reporter[w].at \in {"off", "told"}
    /\ Enters(w, {"report"}, "poll") => reporter[w].at = "sent"

\* finish has written the terminal row, and calls Finished with its status, which
\* does nothing without a check run.
Ended(w) == Enters(w, InRun, "report")
Told(w, verdict) ==
  [at |-> IF reporter[w].at = "told" /\ reporter[w].known THEN "tell" ELSE "sent",
   known |-> reporter[w].known, verdict |-> verdict]
ReportersFollow ==
  \/ /\ \A w \in Workers : ~Ended(w)
     /\ reporter' = [w \in Workers |->
          IF pc'[w] \in {"group", "build", "steps", "report"} THEN reporter[w] ELSE NoReporter]
  \/ \E w \in Workers, verdict \in Terminal :
       /\ Ended(w)
       /\ row'[job[w]].status \in Terminal => verdict = row'[job[w]].status
       /\ reporter' = [reporter EXCEPT ![w] = Told(w, verdict)]

\* A check run that was made and not saved is lost with its process; a result
\* is lost with a run that ends without the check run, or before it is told.
CheckFollows ==
  check' = [e \in Key |->
    IF \E w \in Workers : /\ pc[w] \in InRun /\ pc'[w] = "off"
                          /\ Of(w) = e /\ reporter[w].at = "save"
    THEN [check[e] EXCEPT !.lost = @ + 1] ELSE check[e]]
UntoldFollows ==
  untold' = untold \cup {e \in Key : check[e].saved /\ \E w \in Workers :
    /\ job[w] # NoKey /\ Of(w) = e
    /\ \/ Ended(w) /\ ~reporter[w].known
       \/ pc[w] = "report" /\ pc'[w] = "off" /\ reporter[w].at = "tell"}

Follow == /\ LogsFollow /\ StreamsFollow
          /\ StartedInTime /\ ReportersFollow /\ CheckFollows /\ UntoldFollows
          /\ UNCHANGED failures

-------------------------------------------------------------------------------
(* Logs and their readers                                                   *)

StreamOnly == UNCHANGED <<vars, logs, reporter, check, failures, untold>>

Writing == {"prepare", "group", "supersede", "build", "steps"}

\* A line of the setup log or of a step's log.
WriteLine(w) ==
  /\ pc[w] \in Writing
  /\ stream' = [s \in Readers |->
       IF stream[s].of = job[w] /\ ~stream[s].cut
       THEN [stream[s] EXCEPT !.unread = TRUE] ELSE stream[s]]
  /\ StreamOnly

\* LogStream: the attempt exists.
OpenStream(s, k, i) ==
  /\ inst[i] = "serving" /\ ~Open(s) /\ Exists(k)
  /\ stream' = [stream EXCEPT ![s] =
       [at |-> "wait", of |-> k, host |-> i, unread |-> k \in logs, cut |-> FALSE]]
  /\ StreamOnly

\* What a sweep of the files leaves of a stream.
AsRead(t)    == t
ReadAll(t)   == [t EXCEPT !.unread = FALSE]
LastRead(t)  == ReadAll(t)

Sweep(s) ==
  /\ stream[s].at = "wait"
  /\ stream' = [stream EXCEPT ![s] = [ReadAll(@) EXCEPT !.at = "look"]]
  /\ StreamOnly

\* GetAttempt: the state goes to the reader if it changed.
Look(s) ==
  /\ stream[s].at = "look"
  /\ stream' = [stream EXCEPT ![s].at =
       IF row[stream[s].of].status \in Terminal THEN "last" ELSE "wait"]
  /\ StreamOnly

\* The sweep behind a terminal status, and the done event.
LastSweep(s) ==
  /\ stream[s].at = "last"
  /\ stream' = [stream EXCEPT ![s] = [LastRead(@) EXCEPT !.at = "done"]]
  /\ StreamOnly

\* The done event has arrived; or the reader goes away, or GetAttempt fails.
CloseStream(s) ==
  /\ Open(s)
  /\ stream' = [stream EXCEPT ![s] = Closed(s)]
  /\ StreamOnly

-------------------------------------------------------------------------------
(* The reporter of a run                                                    *)

ReporterOnly == UNCHANGED <<vars, logs, stream>>

Pass(w, at) == reporter' = [reporter EXCEPT ![w].at = at]

\* A call with the context of the run, and one that goes wrong.
Called(w) == ctx[w] = "live" /\ UNCHANGED failures
Refused(w) == \/ ctx[w] = "canceled" /\ UNCHANGED failures
              \/ failures < MaxFailures /\ failures' = failures + 1

\* The CheckRunID of the first attempt.
SavedOnAttempt(w) == check[Of(w)].saved /\ job[w] = Of(w)
Saved(w)          == check[Of(w)].saved

\* For: a snapshot has no check run.
HasCheck(w) == row[job[w]].source = "git"

\* Started: GetExecutionAttempt reads the first attempt.
Start(w) ==
  /\ pc[w] \in {"group", "build"} /\ reporter[w].at = "off"
  /\ \/ HasCheck(w) /\ Refused(w) /\ Pass(w, "told")
     \/ /\ HasCheck(w) => ctx[w] = "live"
        /\ Pass(w, IF ~HasCheck(w) THEN "told" ELSE IF Saved(w) THEN "mark" ELSE "create")
        /\ UNCHANGED failures
  /\ ReporterOnly /\ UNCHANGED <<check, untold>>

\* CreateCheckRun; it may have been made although it fails.
Create(w) ==
  /\ reporter[w].at = "create"
  /\ \/ Called(w) /\ Pass(w, "save") /\ check' = [check EXCEPT ![Of(w)].made = @ + 1]
     \/ Refused(w) /\ Pass(w, "told") /\ UNCHANGED check
     \/ /\ ctx[w] = "live" /\ Refused(w) /\ Pass(w, "told")
        /\ check' = [check EXCEPT ![Of(w)].made = @ + 1, ![Of(w)].lost = @ + 1]
  /\ ReporterOnly /\ UNCHANGED untold

\* SetCheckRunID.
Save(w) ==
  /\ reporter[w].at = "save"
  /\ \/ Called(w) /\ Pass(w, "mark")
        /\ check' = [check EXCEPT ![Of(w)].saved = TRUE, ![Of(w)].shows = "in_progress"]
     \/ Refused(w) /\ Pass(w, "told") /\ check' = [check EXCEPT ![Of(w)].lost = @ + 1]
  /\ ReporterOnly /\ UNCHANGED untold

\* UpdateCheckRun, in progress; whatever comes of it checkRunID is set.
Mark(w) ==
  /\ reporter[w].at = "mark"
  /\ reporter' = [reporter EXCEPT ![w].at = "told", ![w].known = TRUE]
  /\ \/ Called(w) /\ check' = [check EXCEPT ![Of(w)].shows = "in_progress"]
     \/ Refused(w) /\ UNCHANGED check
  /\ ReporterOnly /\ UNCHANGED untold

\* What UpdateCheckRun says of a status.
ShowAnyway(status) == "success"
Conclusion(status) == status

\* Finished, with the context of the run.  It may come after the report of a
\* later attempt.
Tell(w) ==
  /\ reporter[w].at = "tell"
  /\ Pass(w, "sent")
  /\ LET e == Of(w)
         late == row[job[w]].attempt < check[e].latest
     IN \/ /\ Called(w)
           /\ check' = [check EXCEPT ![e].shows = Conclusion(reporter[w].verdict),
                                     ![e].latest = IF late THEN @ ELSE row[job[w]].attempt]
           /\ untold' = IF late THEN untold \cup {e}
                        ELSE IF LatestAttempt(job[w]) THEN untold \ {e} ELSE untold
        \/ /\ Refused(w) /\ UNCHANGED check
           /\ untold' = IF late THEN untold ELSE untold \cup {e}
  /\ ReporterOnly

-------------------------------------------------------------------------------
ReaderStep(s) ==
  \/ \E k \in Key, i \in Instances : OpenStream(s, k, i)
  \/ Sweep(s) \/ Look(s) \/ LastSweep(s) \/ CloseStream(s)

ReporterStep(w) == Start(w) \/ Create(w) \/ Save(w) \/ Mark(w) \/ Tell(w)

ReportsNext ==
  \/ Next /\ Follow
  \/ \E s \in Readers : ReaderStep(s)
  \/ \E w \in Workers : WriteLine(w) \/ ReporterStep(w)

ReportsSpec == ReportsInit /\ [][ReportsNext]_reportsVars
===============================================================================
