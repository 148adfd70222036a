------------------------- MODULE ProjectsProperties -------------------------
(***************************************************************************)
(* What holds of projects, their variables and the rows that hang on them, *)
(* whatever is renamed, deleted and registered again meanwhile.            *)
(***************************************************************************)
EXTENDS Projects

Run == [pc : {"off", "global", "project", "sync", "steps"}, id : Scopes,
        workflow : Workflows \cup {Blank}, copy : Project \cup {NoProject},
        vars : SUBSET Variable]

\* Every variable holds a value of its type.  A request that is between its read
\* and its write, and a run, are of some project.
ProjectsTypeOK ==
  /\ project \in [Ids -> Project \cup {NoProject}]
  /\ used \subseteq Ids
  /\ vars \subseteq Variable
  /\ runs \subseteq Ids \X Workflows
  /\ sched \subseteq Ids \X Workflows
  /\ due \subseteq Ids \X Workflows
  /\ request \in [Requests -> [pc : {"idle", "update", "delete", "write"}, id : Scopes,
                               row : Project \cup {NoProject}]]
  /\ \A r \in Requests : request[r].pc # "idle" => request[r].id \in Ids
  /\ \A r \in Requests : request[r].pc = "update" => request[r].row \in Project
  /\ run \in [Runs -> Run]
  /\ \A n \in Runs : run[n].pc # "off" => run[n].id \in Ids /\ run[n].workflow \in Workflows
  /\ given \in [Scopes -> SUBSET Values]

\* Two projects never have the same name, even when requests that read before
\* either had it create, rename and register again at once.
NamesUnique ==
  \A i, j \in Ids : i # j /\ Exists(i) /\ Exists(j) => project[i].name # project[j].name

\* No row is left behind by a project that is deleted, and none is written after
\* it: not by a request that found the project before, not by a run of it that
\* synchronises its schedule, not by a tick that had listed it.
RowsHaveProject ==
  /\ \A v \in vars : Holds(v.scope)
  /\ \A x \in runs \cup sched : Exists(x[1])

\* A key has one value per scope.
KeysUnique == \A v, u \in vars : v.scope = u.scope /\ v.key = u.key => v = u

\* A project, its variables, a run of it and an update under way hold nothing but
\* what was given to this project, or to all: a request or run that outlives its
\* project does not meet the one registered next under its name.
Secrets(p) == {p.secret, p.hook} \ {Blank}
OwnSecrets ==
  /\ \A i \in Ids : Secrets(project[i]) \subseteq given[i]
  /\ \A r \in Requests : request[r].pc = "update" => Secrets(request[r].row) \subseteq given[request[r].id]
  /\ \A v \in vars : v.value \in given[v.scope]
  /\ \A n \in Runs : Masked(n) \subseteq given[run[n].id] \cup given[Global]

\* A project that was deleted does not come back: an update that read it before
\* finds no row to write.
DeletedStays == [][\A i \in used : ~Exists(i) => ~Exists(i)']_projectsVars
===============================================================================
