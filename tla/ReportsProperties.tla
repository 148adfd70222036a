--------------------------- MODULE ReportsProperties ---------------------------
(***************************************************************************)
(* What readers and the code host can rely on.                             *)
(***************************************************************************)
EXTENDS Reports, RunnerProperties

\* Every variable holds a value of its type; a reporter works only for a run that
\* has its source, and the end of a run is told by a reporter with a verdict.
ReportsTypeOK ==
  /\ TypeOK
  /\ logs \subseteq Key
  /\ stream \in [Readers -> Stream]
  /\ \A s \in Readers : Open(s) <=> stream[s].of # NoKey
  /\ reporter \in [Workers -> Reporter]
  /\ \A w \in Workers :
       /\ reporter[w].at # "off" => pc[w] \in {"group", "build", "steps", "report"}
       /\ reporter[w].verdict # "none" <=> pc[w] = "report"
  /\ check \in [Key -> Check]
  /\ failures \in 0 .. MaxFailures
  /\ untold \subseteq Key

\* "Follows an Execution's log files and reports what happens until it reaches a
\* terminal status": a stream that is done has sent every line the run wrote
\* before its terminal row, at whatever moment between two of its reads the run
\* wrote them and ended, unless a requeued run emptied the log of the run before it
\* under the stream.
StreamTellsAll ==
  \A s \in Readers : stream[s].at = "done" => stream[s].cut \/ ~stream[s].unread

\* No run of execution e is under way, and no end of one is being told.
Settled(e) ==
  /\ \A k \in Key : row[k].execution = e => row[k].status \in Terminal
  /\ \A w \in Workers : pc[w] = "report" => Of(w) # e

\* Once an execution is over, its check run shows how its last attempt ended,
\* although attempts report at their own pace and a retry may start before the
\* end of the attempt before it is told: unless the last word was lost (the call
\* failed, the run was canceled or interrupted, or it ended before it had the
\* check run) or came before that of an earlier attempt.
CheckShowsResult ==
  \A e \in Key : check[e].saved /\ Settled(e) /\ e \notin untold =>
    \A k \in Key : row[k].execution = e /\ LatestAttempt(k) => check[e].shows = row[k].status

\* "githubReporter keeps one check run per Execution: a retry updates the check
\* run the first Attempt created": no execution gets a second one, over retries,
\* requeues and cancellations, but for those whose number was never saved.
OneCheckRun == \A e \in Key : check[e].made <= 1 + check[e].lost
===============================================================================
