-------------------------------- MODULE Triggers --------------------------------
(***************************************************************************)
(* The requests and runs that read ci.yml files: webhooks, which start the *)
(* workflows of the commit they announce; the listing of workflows, which  *)
(* brings their schedules up to date; and the sync a run does for its own  *)
(* workflow.  Webhooks and listings of a project clone into one discovery  *)
(* directory of the process they reach, which each of them empties first;  *)
(* nothing makes one wait for another.  These are the requests and runs of *)
(* one process, Here; the table is shared with the schedulers of all.      *)
(*                                                                         *)
(* AnyAction and KeptAsIs are faults the code does not have: no action      *)
(* uses them, mutation runs put them in.                                   *)
(***************************************************************************)
EXTENDS Schedules, WorkflowMatching

CONSTANTS
  Commits,        \* commits of the repository
  Branches,       \* its branches
  DefaultBranch,  \* the default branch of the project
  Tree,           \* the ci.yml of each workflow at each commit
  Here,           \* the process these requests reach
  Requests,       \* requests handled at a time
  Events,         \* payloads the code host sends
  NoCommit

ASSUME TriggersAssumption ==
  /\ DefaultBranch \in Branches /\ Branches \cap Commits = {}
  /\ Here \in Processes
  /\ Absent = NoCron /\ NoCommit \notin Commits
  /\ \A e \in Events : e.sha \in Commits /\ e.kind \in {"push", "pull_request"}

VARIABLES
  head,     \* the commit of each branch
  disc,     \* the discovery directory: a .git in it, the files of a commit
  request,  \* the requests
  run       \* a run between the next time it computed and its sync

trigVars == <<head, disc, request, run>>
vars == <<schedVars, trigVars>>

EmptyDir == [repo |-> FALSE, tree |-> NoCommit]
NoSync   == [workflow |-> NoCron, commit |-> NoCommit, at |-> Zero]

\* kind: what the request is for; own: no other request touched the directory
\* since this one emptied it; lost: the store refused a run of it; sync: the
\* file whose schedule it is about to write, and when it computed the next time.
Quiet == [pc |-> "idle", kind |-> "none", event |-> NoCommit, ref |-> NoCommit,
          todo |-> {}, started |-> {}, own |-> TRUE, lost |-> FALSE,
          sync |-> NoSync]

Init ==
  /\ ScheduleInit
  /\ head \in [Branches -> Commits]
  /\ disc = EmptyDir
  /\ request = [r \in Requests |-> Quiet]
  /\ run = NoSync

Valid(c) == c \in Crons \cup {NoCron}
File(c, w) == Tree[c][w]     \* Absent: no ci.yml, or one that does not parse
CloneHead(ref) == head[IF ref \in Branches THEN ref ELSE DefaultBranch]

-------------------------------------------------------------------------------
(* Requests arrive                                                          *)

AnyAction(e) == TRUE
\* A push that deletes a ref has nothing to check out; a pull request counts when
\* it was opened or changed, and only if it is not from a fork.
Accepts(e) ==
  IF e.kind = "push" THEN ~e.deleted
  ELSE e.action \in {"opened", "synchronize", "reopened"} /\ ~e.fork

Webhook(r, e) ==
  /\ request[r].pc = "idle"
  /\ request' = [request EXCEPT ![r] =
       [Quiet EXCEPT !.pc = IF Accepts(e) THEN "clear" ELSE "done",
                     !.kind = "webhook", !.event = e, !.ref = e.sha]]
  /\ UNCHANGED <<schedVars, head, disc, run>>

\* The listing of the API, and of the web page at the default branch, ends with
\* SyncProjectSchedules; the page at another branch, or at a commit, only lists.
ListConfigs(r, b) ==
  /\ request[r].pc = "idle"
  /\ request' = [request EXCEPT ![r] =
       [Quiet EXCEPT !.pc = "clear", !.ref = b,
                     !.kind = IF b = DefaultBranch THEN "sync" ELSE "view"]]
  /\ UNCHANGED <<schedVars, head, disc, run>>

-------------------------------------------------------------------------------
(* DiscoverProjectWorkflows                                                 *)

Goto(r, pc) == request' = [request EXCEPT ![r].pc = pc]

\* r writes to the directory: what others found in it is no longer theirs.
Touch(r, pc) ==
  request' = [q \in Requests |->
    IF q = r THEN [request[r] EXCEPT !.pc = pc, !.own = (pc = "clone" \/ @)]
    ELSE [request[q] EXCEPT !.own = FALSE]]

\* os.RemoveAll, of what an earlier request left.
KeptAsIs == disc
Cleared  == EmptyDir
Clear(r) ==
  /\ request[r].pc = "clear"
  /\ disc' = Cleared
  /\ Touch(r, "clone")
  /\ UNCHANGED <<schedVars, head, run>>

\* git.Clone starts: refused if there is a repository by now.  A branch is tried
\* again as a tag, in a directory that is removed first.
Clone(r) ==
  /\ request[r].pc = "clone"
  /\ IF ~disc.repo
     THEN disc' = [repo |-> TRUE, tree |-> NoCommit] /\ Touch(r, "checkout")
     ELSE IF request[r].ref \in Branches
          THEN disc' = EmptyDir /\ Touch(r, "tag")
          ELSE Goto(r, "failed") /\ UNCHANGED disc
  /\ UNCHANGED <<schedVars, head, run>>

\* It ends, with the files of the branch; for a commit, with those of the default
\* branch at first.  Or it fails, and cleans up behind it.
Checkout(r) ==
  /\ request[r].pc = "checkout"
  /\ \/ /\ disc' = [repo |-> TRUE, tree |-> CloneHead(request[r].ref)]
        /\ Touch(r, IF request[r].ref \in Branches THEN "list" ELSE "detach")
     \/ disc' = EmptyDir /\ Touch(r, IF request[r].ref \in Branches THEN "tag" ELSE "failed")
  /\ UNCHANGED <<schedVars, head, run>>

\* The files of the commit replace them, or it is not to be found.
Detach(r) ==
  /\ request[r].pc = "detach"
  /\ \/ /\ disc.repo
        /\ disc' = [disc EXCEPT !.tree = request[r].ref]
        /\ Touch(r, "list")
     \/ Goto(r, "failed") /\ UNCHANGED disc
  /\ UNCHANGED <<schedVars, head, run>>

\* No tag has the name of a branch: refused, or a clone that cleans up behind it.
AsTag(r) ==
  /\ \/ /\ request[r].pc = "tag"
        /\ IF disc.repo THEN Goto(r, "failed") /\ UNCHANGED disc
           ELSE disc' = [repo |-> TRUE, tree |-> NoCommit] /\ Touch(r, "notag")
     \/ /\ request[r].pc = "notag"
        /\ disc' = EmptyDir /\ Touch(r, "failed")
  /\ UNCHANGED <<schedVars, head, run>>

\* The directories under .ci that hold a ci.yml.
List(r) ==
  /\ request[r].pc = "list"
  /\ IF disc.tree = NoCommit THEN Goto(r, "failed")
     ELSE request' = [request EXCEPT
            ![r].pc = IF request[r].kind = "view" THEN "done" ELSE "loop",
            ![r].todo = {w \in Workflows : File(disc.tree, w) # Absent}]
  /\ UNCHANGED <<schedVars, head, disc, run>>

-------------------------------------------------------------------------------
(* The loops over the workflows                                             *)

Matches(cfg, e) ==
  IF e.kind = "push" THEN MatchesPush(cfg, DefaultBranch, e.ref, e.tag, e.changed)
  ELSE MatchesPullRequest(cfg, DefaultBranch, e.base, e.changed)

\* The ci.yml that is there now; Absent if there is none any more.
Reads(w) == IF disc.tree = NoCommit THEN Absent ELSE File(disc.tree, w)

\* trigger: read, match, Enqueue; a run the store refuses is left out of the reply.
StartWorkflow(r) ==
  /\ request[r].pc = "loop" /\ request[r].kind = "webhook"
  /\ \E w \in request[r].todo :
       LET wanted == Reads(w) # Absent /\ Matches(Reads(w), request[r].event) IN
         \/ request' = [request EXCEPT ![r].todo = @ \ {w},
                                       ![r].started = IF wanted THEN @ \cup {w} ELSE @]
         \/ /\ wanted
            /\ request' = [request EXCEPT ![r].todo = @ \ {w}, ![r].lost = TRUE]
  /\ UNCHANGED <<schedVars, head, disc, run>>

\* SyncProjectSchedules reads a file and computes its next time; a file that is
\* not there, or does not parse, is skipped.
Reading(q, w) ==
  IF Reads(w) = Absent THEN [q EXCEPT !.todo = q.todo \ {w}]
  ELSE [q EXCEPT !.todo = q.todo \ {w}, !.pc = "write",
                 !.sync = [workflow |-> w, commit |-> disc.tree, at |-> now]]
ReadSchedule(r) ==
  /\ request[r].pc = "loop" /\ request[r].kind = "sync"
  /\ \E w \in request[r].todo : request' = [request EXCEPT ![r] = Reading(request[r], w)]
  /\ UNCHANGED <<schedVars, head, disc, run>>

\* The file of a reader, as it read it, is written to the table; or the store fails.
Expression(s) == EffectiveSchedule(File(s.commit, s.workflow))
Syncs(s)      == SyncSchedule(s.workflow, Expression(s), s.at)
SyncFails     == UNCHANGED <<sched, held>>

Written(r, pc) == request' = [request EXCEPT ![r].pc = pc, ![r].sync = NoSync]

\* A listing stops at the first sync that fails; that of an invalid expression does.
SyncWorkflow(r) ==
  /\ request[r].pc = "write"
  /\ \/ Valid(Expression(request[r].sync)) /\ Syncs(request[r].sync) /\ Written(r, "loop")
     \/ SyncFails /\ Written(r, "failed")
  /\ UNCHANGED <<now, due, queued, ran, again, failures, crashes, head, disc, run>>

LoopEnds(r) ==
  /\ request[r].pc = "loop" /\ request[r].todo = {}
  /\ Goto(r, "done")
  /\ UNCHANGED <<schedVars, head, disc, run>>

Reply(r) ==
  /\ request[r].pc \in {"done", "failed"}
  /\ request' = [request EXCEPT ![r] = Quiet]
  /\ UNCHANGED <<schedVars, head, disc, run>>

RequestStep(r) ==
  \/ \E e \in Events : Webhook(r, e)
  \/ \E b \in Branches \cup Commits : ListConfigs(r, b)
  \/ Clear(r) \/ Clone(r) \/ Checkout(r) \/ Detach(r) \/ AsTag(r) \/ List(r)
  \/ StartWorkflow(r) \/ ReadSchedule(r) \/ SyncWorkflow(r)
  \/ LoopEnds(r) \/ Reply(r)

-------------------------------------------------------------------------------
(* Runs, pushes, restarts                                                   *)

\* A run of any workflow at any commit: anyone may ask for one, a retry keeps its
\* commit, and a cron run is at the head of the default branch.  It has cloned that
\* commit, and computed a next time for its ci.yml.
RunStarts(w, c) ==
  /\ run = NoSync
  /\ File(c, w) # Absent
  /\ run' = [workflow |-> w, commit |-> c, at |-> now]
  /\ UNCHANGED <<schedVars, head, disc, request>>

\* A failed sync is logged.
RunSyncs ==
  /\ run # NoSync
  /\ Syncs(run) \/ SyncFails
  /\ run' = NoSync
  /\ UNCHANGED <<now, due, queued, ran, again, failures, crashes, head, disc, request>>

Push(b, c) ==
  /\ head[b] # c
  /\ head' = [head EXCEPT ![b] = c]
  /\ UNCHANGED <<schedVars, disc, request, run>>

\* The requests and runs end with their process.
TriggersRestart(p) ==
  /\ Restart(p)
  /\ IF p = Here THEN request' = [r \in Requests |-> Quiet] /\ run' = NoSync
     ELSE UNCHANGED <<request, run>>
  /\ UNCHANGED <<head, disc>>

Next ==
  \/ Tock /\ UNCHANGED trigVars
  \/ \E p \in Processes : (Tick(p) /\ UNCHANGED trigVars) \/ TriggersRestart(p)
  \/ \E r \in Requests : RequestStep(r)
  \/ \E w \in Workflows, c \in Commits : RunStarts(w, c)
  \/ RunSyncs
  \/ \E b \in Branches, c \in Commits : Push(b, c)

Spec == Init /\ [][Next]_vars
===============================================================================
