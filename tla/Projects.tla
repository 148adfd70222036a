-------------------------------- MODULE Projects --------------------------------
(***************************************************************************)
(* Projects and their variables, the rows that hang on them, and who works *)
(* with copies of them: requests, which find a project by name or id and   *)
(* act on what they found; runs, which take the project, then the global   *)
(* variables, then its own; and the scheduler.  Meanwhile projects are     *)
(* renamed, deleted, and registered again under a name that has become     *)
(* free.                                                                   *)
(***************************************************************************)
EXTENDS Naturals

CONSTANTS
  Ids,        \* ids of projects, each given once
  Names, Urls, Users, Branches, Keys,
  Values,     \* values of variables, tokens, keys and webhook secrets
  Workflows,
  Host,       \* the provider the host of each URL belongs to
  Requests, Runs,
  Blank,      \* an empty field
  Global      \* the scope of a global variable

Providers == {"github", "gitlab", "generic"}
AuthTypes == {"none", "token", "ssh"}

Project == [name : Names, url : Urls, provider : Providers, auth : AuthTypes,
            user : Users \cup {Blank, "oauth2", "git"}, secret : Values \cup {Blank},
            hook : Values \cup {Blank}, branch : Branches \cup {Blank}]
NoProject == [name |-> Blank, url |-> Blank, provider |-> "generic", auth |-> "none",
              user |-> Blank, secret |-> Blank, hook |-> Blank, branch |-> Blank]

\* What a request or a form says of a project.  An enum that is not valid is blank in
\* a form; a request that has one is refused when it is decoded.
Draft == [name : Names \cup {Blank}, url : Urls \cup {Blank},
          provider : Providers \cup {Blank}, auth : AuthTypes \cup {Blank},
          user : Users \cup {Blank, "oauth2", "git"}, secret : Values \cup {Blank},
          hook : Values \cup {Blank}, branch : Branches \cup {Blank}]

Scopes   == Ids \cup {Global}
Variable == [scope : Scopes, key : Keys, value : Values, secret : BOOLEAN]

VARIABLES
  project,   \* the row of each id
  used,      \* ids that were given
  vars,      \* the table of variables
  runs,      \* projects and workflows that have rows of executions
  sched,     \* those that have a schedule
  due,       \* those a tick of the scheduler has listed and not yet moved on
  request,   \* requests between their reads and their write
  run,       \* runs and what they hold
  given      \* values given to each project, or to all (auxiliary)

rowVars      == <<project, used, vars, runs, sched>>
projectsVars == <<rowVars, due, request, run, given>>

Quiet == [pc |-> "idle", id |-> Global, row |-> NoProject]
NoRun == [pc |-> "off", id |-> Global, workflow |-> Blank, copy |-> NoProject, vars |-> {}]

ProjectsInit ==
  /\ project = [i \in Ids |-> NoProject] /\ used = {}
  /\ vars = {} /\ runs = {} /\ sched = {} /\ due = {}
  /\ request = [r \in Requests |-> Quiet]
  /\ run = [n \in Runs |-> NoRun]
  /\ given = [s \in Scopes |-> {}]

Exists(i) == project[i] # NoProject
Free(name, i) == \A j \in Ids : j # i => project[j].name # name

\* The values a draft gives to project i.
Gives(i, draft) == given' = [given EXCEPT ![i] = @ \cup ({draft.secret, draft.hook} \ {Blank})]

-------------------------------------------------------------------------------
(* normalize                                                                *)

Or(x, y) == IF x = Blank THEN y ELSE x

DefaultUser(auth) == CASE auth = "token" -> "oauth2" [] auth = "ssh" -> "git" [] OTHER -> Blank
AuthFor(p) == Or(p.auth, IF p.secret # Blank THEN "token" ELSE "none")

\* A name and a URL are required; head is the branch ListRefs finds, if it does.
Acceptable(p) == p.name # Blank /\ p.url # Blank
Normalized(p, head) ==
  LET filled == [provider |-> Or(p.provider, Host[p.url]), auth |-> AuthFor(p),
                 user |-> Or(p.user, DefaultUser(AuthFor(p))), branch |-> Or(p.branch, head)]
  IN [f \in DOMAIN p |-> IF f \in DOMAIN filled THEN filled[f] ELSE p[f]]

\* What an update keeps of the row it read: the API keeps every field it is not
\* given, the form of the web page only the secrets.
FromApi(p, draft) == [f \in DOMAIN p |-> Or(draft[f], p[f])]
FromForm(p, draft) ==
  [f \in DOMAIN p |-> IF f \in {"secret", "hook"} THEN Or(draft[f], p[f]) ELSE draft[f]]

-------------------------------------------------------------------------------
(* Requests                                                                 *)

\* An id, or the name of a project: two reads, of which the first finds it or the
\* second does.
ById(i)      == Exists(i)
ByName(i, n) == Exists(i) /\ project[i].name = n
Resolved(i)  == ById(i) \/ \E n \in Names : ByName(i, n)

\* A request has read the row of project i, and what comes next is its write.
Begins(r, i, pc, row) ==
  /\ request[r].pc = "idle" /\ Resolved(i)
  /\ request' = [request EXCEPT ![r] = [pc |-> pc, id |-> i, row |-> row]]
  /\ UNCHANGED <<rowVars, due, run>>

Answers(r) == request' = [request EXCEPT ![r] = Quiet]

\* Module.Create: the INSERT under a new id, which a name in use refuses.
Create(i, draft, head) ==
  /\ i \notin used /\ used' = used \cup {i}
  /\ Acceptable(draft)
  /\ project' = IF Free(draft.name, i) THEN [project EXCEPT ![i] = Normalized(draft, head)]
                                       ELSE project
  /\ Gives(i, draft)
  /\ UNCHANGED <<vars, runs, sched, due, request, run>>

\* The read and the normalization of an update, which may call the code host.
BeginUpdate(r, i, draft, head) ==
  \E p \in {FromApi(project[i], draft), FromForm(project[i], draft)} :
    /\ Acceptable(p)
    /\ Begins(r, i, "update", Normalized(p, head))
    /\ Gives(i, draft)

\* UpdateProject: the whole row, of a project that is still there, unless another
\* one has the name.
Update(r) ==
  /\ request[r].pc = "update"
  /\ LET i == request[r].id  row == request[r].row IN
       project' = IF Exists(i) /\ Free(row.name, i) THEN [project EXCEPT ![i] = row] ELSE project
  /\ Answers(r)
  /\ UNCHANGED <<used, vars, runs, sched, due, run, given>>

BeginDelete(r, i) == Begins(r, i, "delete", NoProject) /\ UNCHANGED given

\* DeleteProject: ON DELETE CASCADE takes what hangs on the row.
Of(rows, i)  == {x \in rows : x[1] = i}
Owned(i)     == {v \in vars : v.scope = i}
Delete(r) ==
  /\ request[r].pc = "delete"
  /\ LET i == request[r].id IN
       /\ project' = [project EXCEPT ![i] = NoProject]
       /\ vars' = vars \ Owned(i)
       /\ runs' = runs \ Of(runs, i) /\ sched' = sched \ Of(sched, i)
  /\ Answers(r)
  /\ UNCHANGED <<used, due, run, given>>

BeginWrite(r, i) == Begins(r, i, "write", NoProject) /\ UNCHANGED given

\* What a row refers to: the foreign key of each table.
Holds(s) == s = Global \/ Exists(s)
Others(s, k) == {v \in vars : ~(v.scope = s /\ v.key = k)}

\* SetVariable and DeleteVariable of the project a request has found, or of all.
SetVariable(s, v) ==
  /\ vars' = IF Holds(s) THEN Others(s, v.key) \cup {[v EXCEPT !.scope = s]} ELSE vars
  /\ given' = [given EXCEPT ![s] = @ \cup {v.value}]
  /\ UNCHANGED <<project, used, runs, sched, due, run>>
DeleteVariable(s, k) ==
  /\ vars' = Others(s, k)
  /\ UNCHANGED <<project, used, runs, sched, due, run, given>>
WriteVariable(r, v) ==
  /\ request[r].pc = "write"
  /\ SetVariable(request[r].id, v) \/ DeleteVariable(request[r].id, v.key)
  /\ Answers(r)
WriteGlobal(v) ==
  /\ SetVariable(Global, v) \/ DeleteVariable(Global, v.key)
  /\ UNCHANGED request

\* CreateExecution, of a request or a webhook that has found the project.
Submit(r, w) ==
  /\ request[r].pc = "write"
  /\ runs' = IF Exists(request[r].id) THEN runs \cup {<<request[r].id, w>>} ELSE runs
  /\ Answers(r)
  /\ UNCHANGED <<project, used, vars, sched, due, run, given>>

\* SyncSchedules: the row of a workflow is replaced, or taken away.
Synced(row) == \/ sched' = sched \ {row}
               \/ sched' = IF Exists(row[1]) THEN sched \cup {row} ELSE sched

\* The page that lists the workflows of a project synchronises them too.
SyncRequest(r, w) ==
  /\ request[r].pc = "write"
  /\ Synced(<<request[r].id, w>>)
  /\ Answers(r)
  /\ UNCHANGED <<project, used, vars, runs, due, run, given>>

\* The client goes away, or a statement fails.
Abandon(r) ==
  /\ request[r].pc # "idle"
  /\ Answers(r)
  /\ UNCHANGED <<rowVars, due, run, given>>

-------------------------------------------------------------------------------
(* Runs                                                                     *)

RunOnly == UNCHANGED <<rowVars, due, request, given>>

\* The project, or the run fails; then loadVariables.
BeginRun(n, i, w) ==
  /\ run[n].pc = "off" /\ <<i, w>> \in runs /\ Exists(i)
  /\ run' = [run EXCEPT ![n] =
       [pc |-> "global", id |-> i, workflow |-> w, copy |-> project[i], vars |-> {}]]
  /\ RunOnly

\* A list that fails is empty.
Lists(s) == {{}, {v \in vars : v.scope = s}}
ReadGlobal(n) ==
  /\ run[n].pc = "global"
  /\ \E list \in Lists(Global) :
       run' = [run EXCEPT ![n].pc = "project", ![n].vars = list]
  /\ RunOnly
ReadProject(n) ==
  /\ run[n].pc = "project"
  /\ \E list \in Lists(run[n].id) :
       run' = [run EXCEPT ![n].pc = "sync", ![n].vars = @ \cup list]
  /\ RunOnly

\* collectSecrets: what the log of the run is searched for.
Masked(n) == ({v.value : v \in {u \in run[n].vars : u.secret}}
                \cup {run[n].copy.secret, run[n].copy.hook}) \ {Blank}
\* The schedules of its checkout are synchronised.
SyncRun(n) ==
  /\ run[n].pc = "sync"
  /\ run' = [run EXCEPT ![n] = [@ EXCEPT !.pc = "steps"]]
  /\ Synced(<<run[n].id, run[n].workflow>>)
  /\ UNCHANGED <<project, used, vars, runs, due, request, given>>

EndRun(n) ==
  /\ run[n].pc # "off"
  /\ run' = [run EXCEPT ![n] = NoRun]
  /\ RunOnly

-------------------------------------------------------------------------------
(* The scheduler                                                            *)

TickList ==
  /\ due = {} /\ due' \in SUBSET sched
  /\ UNCHANGED <<rowVars, request, run, given>>

\* The project is read; the run is queued and the row written back, each if the
\* project is there.
Tick(x) ==
  /\ x \in due /\ due' = due \ {x}
  /\ \/ /\ Exists(x[1])
        /\ runs' = runs \cup {x} /\ sched' \in {sched, sched \cup {x}}
     \/ UNCHANGED <<runs, sched>>
  /\ UNCHANGED <<project, used, vars, request, run, given>>

RequestStep(r) ==
  \/ \E i \in Ids, d \in Draft, h \in Branches \cup {Blank} : BeginUpdate(r, i, d, h)
  \/ \E i \in Ids : BeginDelete(r, i) \/ BeginWrite(r, i)
  \/ Update(r) \/ Delete(r)
  \/ \E v \in Variable : WriteVariable(r, v)
  \/ \E w \in Workflows : Submit(r, w) \/ SyncRequest(r, w)
  \/ Abandon(r)

RunStep(n) ==
  \/ \E i \in Ids, w \in Workflows : BeginRun(n, i, w)
  \/ ReadGlobal(n) \/ ReadProject(n) \/ SyncRun(n) \/ EndRun(n)

ProjectsNext ==
  \/ \E i \in Ids, d \in Draft, h \in Branches \cup {Blank} : Create(i, d, h)
  \/ \E v \in Variable : WriteGlobal(v)
  \/ \E r \in Requests : RequestStep(r)
  \/ \E n \in Runs : RunStep(n)
  \/ TickList \/ \E x \in due : Tick(x)

ProjectsSpec == ProjectsInit /\ [][ProjectsNext]_projectsVars
===============================================================================
