------------------------------ MODULE Executions ------------------------------
(***************************************************************************)
(* The executions table of the store, shared by every pici process: one    *)
(* row per Attempt.  Rows are identified, as in the database, by a project *)
(* and a number drawn from the project's execution_seq; the attempts of    *)
(* one logical Execution share `execution' and `workspace', and the pair   *)
(* (execution, attempt) is kept unique by an index.                        *)
(*                                                                         *)
(* Data is abstracted to what the rest of the system decides on:           *)
(*   retryable  hasRetryableSteps(steps): some step failed or was skipped  *)
(*   error      "exists" when the clone found a repository already there   *)
(*   source     whether the run clones the project or unpacks an upload    *)
(* claimed_by, the timestamps and the descriptive columns are left out:    *)
(* no query reads claimed_by.                                              *)
(*                                                                         *)
(* What steps_json and error hold while a row is active no query decides   *)
(* on, so only the terminal write fixes `retryable' and `error'.           *)
(*                                                                         *)
(* NoUniqueIndex, AlwaysPending, RequeuedUnflagged, RequeuedUnknown and    *)
(* NotRequeued are faults the code does not have: no action uses them,     *)
(* mutation runs put them in.                                              *)
(***************************************************************************)
EXTENDS Integers

CONSTANTS
  Projects,  \* projects known to the store
  MaxId,     \* bound: rows a project may have
  Groups,    \* concurrency groups a ci.yml may name
  NoGroup,   \* the empty concurrency group
  NoKey      \* "no row", for absent references

Key == Projects \X (1 .. MaxId)

ASSUME ExecutionsAssumption ==
  /\ MaxId \in Nat \ {0}
  /\ NoKey \notin Key
  /\ NoGroup \notin Groups

VARIABLES
  row,  \* [Key -> Row], status "none" where nothing was inserted yet
  seq   \* projects.execution_seq

storeVars == <<row, seq>>

Active   == {"pending", "running"}
Terminal == {"success", "failed", "canceled"}
Status   == {"none"} \cup Active \cup Terminal

Row == [status          : Status,
        execution       : Key \cup {NoKey},
        attempt         : Nat,
        workspace       : Key \cup {NoKey},
        previous        : Key \cup {NoKey},
        source          : {"git", "snapshot"},
        trigger         : {"origin", "retry"},
        retryable       : BOOLEAN,
        error           : {"none", "exists", "other"},
        cancelRequested : BOOLEAN,
        group           : Groups \cup {NoGroup}]

NoRow == [status |-> "none", execution |-> NoKey, attempt |-> 0,
          workspace |-> NoKey, previous |-> NoKey, source |-> "git",
          trigger |-> "origin", retryable |-> FALSE, error |-> "none",
          cancelRequested |-> FALSE, group |-> NoGroup]

StoreInit ==
  /\ row = [k \in Key |-> NoRow]
  /\ seq = [p \in Projects |-> 0]

StoreTypeOK ==
  /\ row \in [Key -> Row]
  /\ seq \in [Projects -> 0 .. MaxId]

Exists(k) == row[k].status # "none"

-------------------------------------------------------------------------------
(* Rows as the runner fills them before CreateExecution.                    *)

\* Enqueue, EnqueueSnapshot and EnqueueRebuild: a new logical Execution.  Its
\* execution and workspace are its own number (CreateExecution fills them in).
FirstAttempt(id, src) ==
  [NoRow EXCEPT !.status = "pending", !.execution = id, !.attempt = 1,
                !.workspace = id, !.source = src]

\* EnqueueRetry: the next attempt of the same Execution, in the workspace the
\* previous attempts used.
NextAttempt(prev) ==
  [NoRow EXCEPT !.status = "pending", !.execution = row[prev].execution,
                !.attempt = row[prev].attempt + 1,
                !.workspace = row[prev].workspace, !.previous = prev,
                !.trigger = "retry"]

-------------------------------------------------------------------------------
(* Store operations.  Each is one transaction.                              *)

\* The number CreateExecution draws for project p.
NextKey(p) == <<p, seq[p] + 1>>

\* A store without the index would admit any row.
NoUniqueIndex(r) == TRUE

\* The unique index on (project_id, execution_id, attempt) admits r.
UniqueIndexAllows(r) ==
  \A k \in Key : Exists(k) /\ row[k].execution = r.execution
                   => row[k].attempt # r.attempt

\* CreateExecution: bump the sequence and insert; a unique index violation
\* rolls both back, so a refused insert changes nothing.
CreateExecution(p, r) ==
  /\ seq[p] < MaxId
  /\ UniqueIndexAllows(r)
  /\ row' = [row EXCEPT ![NextKey(p)] = r]
  /\ seq' = [seq EXCEPT ![p] = @ + 1]

\* UpdateExecution overwrites the columns the worker owns, whatever the row
\* holds; cancel_requested is not one of them.
UpdateExecution(k, status, retryable, error) ==
  /\ row' = [row EXCEPT ![k] = [@ EXCEPT !.status = status,
                                         !.retryable = retryable,
                                         !.error = error]]
  /\ UNCHANGED seq

\* The pending row ClaimPendingExecution's SELECT returns: the lowest number,
\* which is per project, so two projects may tie.
OldestPending(k) ==
  /\ row[k].status = "pending"
  /\ \A j \in Key : row[j].status = "pending" => k[2] <= j[2]

\* The condition of the claim's UPDATE: the row selected was not taken since.
AlwaysPending(k) == TRUE
StillPending(k)  == row[k].status = "pending"

\* The attempt GetExecutionAttempt(.., 0) returns for k's Execution is k.
LatestAttempt(k) ==
  /\ Exists(k)
  /\ \A j \in Key : Exists(j) /\ row[j].execution = row[k].execution
                      => row[j].attempt <= row[k].attempt

WorkspaceBusy(ws) ==
  \E k \in Key : row[k].workspace = ws /\ row[k].status \in Active

\* RequeueOrphanedExecutions: every running row, whoever runs it, is pending
\* again; its cancel_requested is kept.
RequeuedAs(r, status) == [r EXCEPT !.status = status]

RequeuedUnflagged(r) == [RequeuedAs(r, "pending") EXCEPT !.cancelRequested = FALSE]
RequeuedUnknown(r)   == RequeuedAs(r, "queued")
NotRequeued(r)       == r
Requeued(r)          == RequeuedAs(r, "pending")

RequeueOrphaned ==
  row' = [k \in Key |-> IF row[k].status = "running" THEN Requeued(row[k])
                                                     ELSE row[k]]

\* SetCancelRequested.
SetCancelRequested(k) ==
  /\ row' = [row EXCEPT ![k].cancelRequested = TRUE]
  /\ UNCHANGED seq

\* CancelRunningInGroup: every other running row of the project's group.
CancelRunningInGroup(k, group) ==
  /\ row' = [j \in Key |->
               IF /\ j[1] = k[1] /\ j # k
                  /\ row[j].group = group /\ row[j].status = "running"
               THEN [row[j] EXCEPT !.cancelRequested = TRUE]
               ELSE row[j]]
  /\ UNCHANGED seq
===============================================================================
