--------------------------- MODULE TriggersProperties ---------------------------
(***************************************************************************)
(* What webhooks, listings and runs promise about the workflows they read. *)
(***************************************************************************)
EXTENDS Triggers

\* A file that was read, and is about to be written to the table of schedules.
Pending == [workflow : Workflows, commit : Commits, at : 0 .. now]

\* Every variable holds a value of its type, only a clone that got that far leaves
\* files behind, one that no other request disturbs meets no repository, and a next
\* time about to be written was computed in the past.
TriggersTypeOK ==
  /\ sched \in [Workflows -> Row \cup {NoRow}]
  /\ head \in [Branches -> Commits]
  /\ disc.tree \in Commits \cup {NoCommit}
  /\ disc.tree # NoCommit => disc.repo
  /\ \A r \in Requests :
       /\ request[r].pc \in {"idle", "clear", "clone", "checkout", "detach", "tag",
                             "notag", "list", "loop", "write", "done", "failed"}
       /\ request[r].pc = "write" =>
            request[r].sync \in Pending /\ request[r].sync.workflow \notin request[r].todo
       /\ request[r].started \cap request[r].todo = {}
       /\ request[r].pc = "clone" /\ request[r].own => ~disc.repo
  /\ run \in Pending \cup {NoSync}

-------------------------------------------------------------------------------
(* What docs/guide/workflows.md says of `on', `paths' and `paths_ignore'    *)

\* If only branches or only tags are set, the other kind of push does not run; if
\* both are, each is filtered by its own; if neither is, every push runs.
RefSelected(filter, ref, isTag) ==
  CASE filter.branches = {} /\ filter.tags = {}  -> TRUE
    [] filter.branches = {} /\ filter.tags # {}  -> isTag /\ ref \in UNION filter.tags
    [] filter.branches # {} /\ filter.tags = {}  -> ~isTag /\ ref \in UNION filter.branches
    [] OTHER -> IF isTag THEN ref \in UNION filter.tags ELSE ref \in UNION filter.branches

\* A change counts when it touches a listed path, and none that is ignored.
ChangeSelected(cfg, changed) ==
  changed # {} => /\ cfg.paths # {} => changed \cap UNION cfg.paths # {}
                  /\ changed \cap UNION cfg.ignore = {}

\* Without `on', pushes to the default branch and pull requests into it; with it,
\* the declared events only.  Pull requests from forks and deleted refs: never.
Wanted(e, cfg) ==
  /\ cfg # Absent
  /\ ChangeSelected(cfg, e.changed)
  /\ \/ /\ e.kind = "push" /\ ~e.deleted
        /\ \/ cfg.on = Absent /\ ~e.tag /\ e.ref = DefaultBranch
           \/ cfg.on # Absent /\ cfg.on.push # Absent /\ RefSelected(cfg.on.push, e.ref, e.tag)
     \/ /\ e.kind = "pull_request" /\ ~e.fork
        /\ e.action \in {"opened", "synchronize", "reopened"}
        /\ \/ cfg.on = Absent /\ e.base = DefaultBranch
           \/ /\ cfg.on # Absent /\ cfg.on.pull # Absent
              /\ cfg.on.pull = {} \/ e.base \in UNION cfg.on.pull

\* A webhook starts exactly the workflows its own commit declares for the event,
\* unless another request got at the discovery directory meanwhile or the store
\* refused a run; whatever repository an earlier request left there.
WebhookStartsWanted ==
  \A r \in Requests :
    request[r].pc = "done" /\ request[r].kind = "webhook"
      => LET e == request[r].event
             wanted == {w \in Workflows : Wanted(e, File(e.sha, w))} IN
         \/ request[r].started = wanted
         \/ ~request[r].own
         \/ request[r].lost /\ request[r].started \subseteq wanted

\* Requests and runs write to the table of schedules as `Schedules' says: what that
\* module promises holds in their company.
ImplementsSchedules == ScheduleSpec
===============================================================================
