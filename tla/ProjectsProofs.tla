--------------------------- MODULE ProjectsProofs ---------------------------
(***************************************************************************)
(* The properties of ProjectsProperties, for every set of projects, names, *)
(* values, requests and runs.                                              *)
(***************************************************************************)
EXTENDS ProjectsProperties, TLAPS

\* What is asked of the constants: an empty field is not a name or a value, the
\* scope of the global variables is not a project, and every URL has a provider.
Constants ==
  /\ Blank \notin Names \cup Urls \cup Values \cup Workflows
  /\ Blank \notin Providers \cup AuthTypes
  /\ Global \notin Ids
  /\ Host \in [Urls -> Providers]

\* What holds of the project rows, and is kept by every step.
Rows == RowsHaveProject /\ KeysUnique /\ \A i \in Ids : Exists(i) => i \in used
ProjectsInv == ProjectsTypeOK /\ NamesUnique /\ Rows /\ OwnSecrets

\* A draft that normalize accepts becomes a full row, with the draft's name and secrets.
LEMMA NormalizedIsProject ==
  ASSUME Constants, NEW p \in Draft, NEW head \in Branches \cup {Blank}, Acceptable(p)
  PROVE  /\ Normalized(p, head) \in Project
         /\ Normalized(p, head).name = p.name
         /\ Secrets(Normalized(p, head)) = Secrets(p)
<1>1. AuthFor(p) \in AuthTypes
  BY DEF AuthFor, Or, Draft, AuthTypes
<1>2. DefaultUser(AuthFor(p)) \in {Blank, "oauth2", "git"}
  BY DEF DefaultUser
<1>3. /\ p.name \in Names /\ p.url \in Urls
      /\ p.secret \in Values \cup {Blank} /\ p.hook \in Values \cup {Blank}
  BY DEF Acceptable, Draft
<1>4. /\ Or(p.provider, Host[p.url]) \in Providers
      /\ Or(p.user, DefaultUser(AuthFor(p))) \in Users \cup {Blank, "oauth2", "git"}
      /\ Or(p.branch, head) \in Branches \cup {Blank}
  BY <1>2, <1>3 DEF Or, Draft, Constants
<1>5. Normalized(p, head) =
        [name |-> p.name, url |-> p.url, provider |-> Or(p.provider, Host[p.url]),
         auth |-> AuthFor(p), user |-> Or(p.user, DefaultUser(AuthFor(p))),
         secret |-> p.secret, hook |-> p.hook, branch |-> Or(p.branch, head)]
  BY DEF Normalized, Draft
<1>6. QED
  BY <1>1, <1>3, <1>4, <1>5 DEF Project, Secrets

\* What an update makes of the row it read is a draft, which holds what the row
\* and the request hold.
LEMMA UpdateIsDraft ==
  ASSUME NEW p \in Project, NEW draft \in Draft
  PROVE  /\ FromApi(p, draft) \in Draft /\ FromForm(p, draft) \in Draft
         /\ Secrets(FromApi(p, draft)) \subseteq Secrets(p) \cup Secrets(draft)
         /\ Secrets(FromForm(p, draft)) \subseteq Secrets(p) \cup Secrets(draft)
<1>1. FromApi(p, draft) =
        [name |-> Or(draft.name, p.name), url |-> Or(draft.url, p.url),
         provider |-> Or(draft.provider, p.provider), auth |-> Or(draft.auth, p.auth),
         user |-> Or(draft.user, p.user), secret |-> Or(draft.secret, p.secret),
         hook |-> Or(draft.hook, p.hook), branch |-> Or(draft.branch, p.branch)]
  BY DEF FromApi, Project, Draft
<1>2. FromForm(p, draft) =
        [name |-> draft.name, url |-> draft.url, provider |-> draft.provider,
         auth |-> draft.auth, user |-> draft.user, secret |-> Or(draft.secret, p.secret),
         hook |-> Or(draft.hook, p.hook), branch |-> draft.branch]
  BY DEF FromForm, Project, Draft
<1>3. FromApi(p, draft) \in Draft
  BY <1>1 DEF Or, Draft, Project
<1>4. FromForm(p, draft) \in Draft
  BY <1>2 DEF Or, Draft, Project
<1>5. QED
  BY <1>1, <1>2, <1>3, <1>4 DEF Or, Secrets

\* Secrets stay with their project in a step that adds to what was given, when
\* whatever a row, an update or a run holds after it was held before or given.
LEMMA SecretsStay ==
  ASSUME ProjectsInv, ProjectsTypeOK',
         \A s \in Scopes : given[s] \subseteq given'[s],
         \A i \in Ids : Secrets(project'[i]) \subseteq Secrets(project[i]) \cup given'[i],
         \A r \in Requests : request'[r].pc = "update" =>
           request'[r] = request[r] \/ Secrets(request'[r].row) \subseteq given'[request'[r].id],
         \A v \in vars' : v \in vars \/ v.value \in given'[v.scope],
         \A n \in Runs :
           run'[n] = run[n] \/ Masked(n)' \subseteq given'[run'[n].id] \cup given'[Global]
  PROVE  OwnSecrets'
<1>1. \A i \in Ids : Secrets(project'[i]) \subseteq given'[i]
  BY DEF ProjectsInv, OwnSecrets, Scopes
<1>2. \A r \in Requests :
        request'[r].pc = "update" => Secrets(request'[r].row) \subseteq given'[request'[r].id]
  BY DEF ProjectsInv, ProjectsTypeOK, OwnSecrets, Scopes
<1>3. \A v \in vars' : v.value \in given'[v.scope]
  BY DEF ProjectsInv, ProjectsTypeOK, OwnSecrets, Variable
<1>4. \A n \in Runs : Masked(n)' \subseteq given'[run'[n].id] \cup given'[Global]
  <2>1. TAKE n \in Runs
  <2>2. CASE run'[n] = run[n]
    <3>1. Masked(n)' = Masked(n)
      BY <2>2 DEF Masked
    <3>2. run[n].id \in Scopes /\ Global \in Scopes
      BY DEF ProjectsInv, ProjectsTypeOK, Scopes, Run
    <3>3. QED
      BY <2>2, <3>1, <3>2 DEF ProjectsInv, OwnSecrets
  <2>3. QED
    BY <2>2
<1>5. QED
  BY <1>1, <1>2, <1>3, <1>4 DEF OwnSecrets, Secrets

-------------------------------------------------------------------------------
(* One lemma per action.                                                     *)

LEMMA CreateKeeps ==
  ASSUME Constants, ProjectsInv, NEW i \in Ids, NEW draft \in Draft,
         NEW head \in Branches \cup {Blank}, Create(i, draft, head)
  PROVE  ProjectsInv'
<1> DEFINE row == Normalized(draft, head)
<1>1. row \in Project /\ row.name = draft.name /\ Secrets(row) = Secrets(draft)
  BY NormalizedIsProject DEF Create
<1>2. Secrets(draft) \subseteq Values
  BY DEF Secrets, Draft
<1>3. ProjectsTypeOK'
  BY <1>1, <1>2 DEF Create, Gives, Secrets, ProjectsInv, ProjectsTypeOK, Scopes
<1>4. NamesUnique'
  BY <1>1 DEF Create, Free, Exists, NamesUnique, ProjectsInv, ProjectsTypeOK
<1>5. Rows'
  BY <1>1 DEF Create, Exists, Holds, Rows, RowsHaveProject, KeysUnique, ProjectsInv, ProjectsTypeOK, Constants, NoProject, Project, Scopes
<1>6. OwnSecrets'
  <2>1. given' = [given EXCEPT ![i] = @ \cup Secrets(draft)]
    BY DEF Create, Gives, Secrets
  <2>2. \A s \in Scopes : given[s] \subseteq given'[s]
    BY <2>1 DEF ProjectsInv, ProjectsTypeOK
  <2>3. \A j \in Ids : Secrets(project'[j]) \subseteq Secrets(project[j]) \cup given'[j]
    BY <1>1, <2>1 DEF Create, ProjectsInv, ProjectsTypeOK, Scopes
  <2>4. QED
    BY <1>3, <2>2, <2>3, SecretsStay DEF Create
<1>7. QED
  BY <1>3, <1>4, <1>5, <1>6 DEF ProjectsInv

LEMMA BeginUpdateKeeps ==
  ASSUME Constants, ProjectsInv, NEW r \in Requests, NEW i \in Ids, NEW draft \in Draft,
         NEW head \in Branches \cup {Blank}, BeginUpdate(r, i, draft, head)
  PROVE  ProjectsInv'
<1>1. PICK p \in {FromApi(project[i], draft), FromForm(project[i], draft)} :
        /\ Acceptable(p)
        /\ Begins(r, i, "update", Normalized(p, head))
        /\ Gives(i, draft)
  BY DEF BeginUpdate
<1>2. project[i] \in Project
  BY <1>1 DEF Begins, Resolved, ById, ByName, Exists, ProjectsInv, ProjectsTypeOK
<1>3. p \in Draft /\ Secrets(p) \subseteq Secrets(project[i]) \cup Secrets(draft)
  BY <1>2, UpdateIsDraft
<1> DEFINE row == Normalized(p, head)
<1>4. row \in Project /\ Secrets(row) = Secrets(p)
  BY <1>1, <1>3, NormalizedIsProject
<1>5. Secrets(draft) \subseteq Values
  BY DEF Secrets, Draft
<1> HIDE DEF row
<1>6. /\ request' = [request EXCEPT ![r] = [pc |-> "update", id |-> i, row |-> row]]
      /\ UNCHANGED <<rowVars, due, run>>
      /\ given' = [given EXCEPT ![i] = @ \cup Secrets(draft)]
  BY <1>1 DEF Begins, Gives, Secrets, row
<1>7. ProjectsTypeOK'
  BY <1>4, <1>5, <1>6 DEF rowVars, ProjectsInv, ProjectsTypeOK, Scopes
<1>8. NamesUnique' /\ Rows'
  BY <1>6 DEF rowVars, Exists, Holds, NamesUnique, Rows, RowsHaveProject, KeysUnique, ProjectsInv
<1>9. OwnSecrets'
  <2>1. \A s \in Scopes : given[s] \subseteq given'[s]
    BY <1>6 DEF ProjectsInv, ProjectsTypeOK
  <2>2. Secrets(row) \subseteq given'[i]
    BY <1>3, <1>4, <1>6 DEF ProjectsInv, ProjectsTypeOK, OwnSecrets, Scopes
  <2>3. QED
    BY <1>6, <1>7, <2>1, <2>2, SecretsStay DEF rowVars, ProjectsInv, ProjectsTypeOK
<1>10. QED
  BY <1>7, <1>8, <1>9 DEF ProjectsInv

LEMMA BeginDeleteKeeps ==
  ASSUME Constants, ProjectsInv, NEW r \in Requests, NEW i \in Ids, BeginDelete(r, i)
  PROVE  ProjectsInv'
<1>1. ProjectsTypeOK'
  BY DEF BeginDelete, Begins, rowVars, ProjectsInv, ProjectsTypeOK, Scopes
<1>2. NamesUnique'
  BY DEF BeginDelete, Begins, rowVars, Exists, NamesUnique, ProjectsInv
<1>3. Rows'
  BY DEF BeginDelete, Begins, rowVars, Exists, Holds, Rows, RowsHaveProject, KeysUnique, ProjectsInv
<1>4. OwnSecrets'
  BY <1>1, SecretsStay DEF BeginDelete, Begins, rowVars, ProjectsInv, ProjectsTypeOK
<1>5. QED
  BY <1>1, <1>2, <1>3, <1>4 DEF ProjectsInv

LEMMA BeginWriteKeeps ==
  ASSUME Constants, ProjectsInv, NEW r \in Requests, NEW i \in Ids, BeginWrite(r, i)
  PROVE  ProjectsInv'
<1>1. ProjectsTypeOK'
  BY DEF BeginWrite, Begins, rowVars, ProjectsInv, ProjectsTypeOK, Scopes
<1>2. NamesUnique'
  BY DEF BeginWrite, Begins, rowVars, Exists, NamesUnique, ProjectsInv
<1>3. Rows'
  BY DEF BeginWrite, Begins, rowVars, Exists, Holds, Rows, RowsHaveProject, KeysUnique, ProjectsInv
<1>4. OwnSecrets'
  BY <1>1, SecretsStay DEF BeginWrite, Begins, rowVars, ProjectsInv, ProjectsTypeOK
<1>5. QED
  BY <1>1, <1>2, <1>3, <1>4 DEF ProjectsInv

LEMMA UpdateKeeps ==
  ASSUME Constants, ProjectsInv, NEW r \in Requests, Update(r)
  PROVE  ProjectsInv'
<1>1. ProjectsTypeOK'
  BY DEF Update, Answers, Quiet, Free, ProjectsInv, ProjectsTypeOK, Scopes
<1>2. NamesUnique'
  BY DEF Update, Answers, Quiet, Free, Exists, NamesUnique, ProjectsInv, ProjectsTypeOK
<1>3. Rows'
  BY DEF Update, Answers, Quiet, Free, Exists, Holds, Rows, RowsHaveProject, KeysUnique, ProjectsInv, ProjectsTypeOK, NoProject, Project, Constants, Scopes
<1>4. OwnSecrets'
  BY <1>1, SecretsStay DEF Update, Answers, Quiet, Free, ProjectsInv, ProjectsTypeOK, OwnSecrets, Secrets
<1>5. QED
  BY <1>1, <1>2, <1>3, <1>4 DEF ProjectsInv

LEMMA DeleteKeeps ==
  ASSUME Constants, ProjectsInv, NEW r \in Requests, Delete(r)
  PROVE  ProjectsInv'
<1>1. ProjectsTypeOK'
  BY DEF Delete, Answers, Quiet, Of, Owned, ProjectsInv, ProjectsTypeOK, Scopes
<1>2. NamesUnique'
  BY DEF Delete, Answers, Quiet, Of, Owned, Exists, NamesUnique, ProjectsInv, ProjectsTypeOK
<1>3. Rows'
  BY DEF Delete, Answers, Quiet, Of, Owned, Exists, Holds, Rows, RowsHaveProject, KeysUnique, ProjectsInv, ProjectsTypeOK, Variable, Scopes
<1>4. OwnSecrets'
  BY <1>1, SecretsStay DEF Delete, Answers, Quiet, Of, Owned, ProjectsInv, ProjectsTypeOK, Secrets, NoProject
<1>5. QED
  BY <1>1, <1>2, <1>3, <1>4 DEF ProjectsInv

LEMMA SubmitKeeps ==
  ASSUME Constants, ProjectsInv, NEW r \in Requests, NEW w \in Workflows, Submit(r, w)
  PROVE  ProjectsInv'
<1>1. ProjectsTypeOK'
  BY DEF Submit, Answers, Quiet, ProjectsInv, ProjectsTypeOK, Scopes
<1>2. NamesUnique'
  BY DEF Submit, Answers, Quiet, Exists, NamesUnique, ProjectsInv
<1>3. Rows'
  BY DEF Submit, Answers, Quiet, Exists, Holds, Rows, RowsHaveProject, KeysUnique, ProjectsInv, ProjectsTypeOK
<1>4. OwnSecrets'
  BY <1>1, SecretsStay DEF Submit, Answers, Quiet, ProjectsInv, ProjectsTypeOK
<1>5. QED
  BY <1>1, <1>2, <1>3, <1>4 DEF ProjectsInv

LEMMA SyncRequestKeeps ==
  ASSUME Constants, ProjectsInv, NEW r \in Requests, NEW w \in Workflows, SyncRequest(r, w)
  PROVE  ProjectsInv'
<1>1. ProjectsTypeOK'
  BY DEF SyncRequest, Synced, Answers, Quiet, ProjectsInv, ProjectsTypeOK, Scopes
<1>2. NamesUnique'
  BY DEF SyncRequest, Synced, Answers, Quiet, Exists, NamesUnique, ProjectsInv
<1>3. Rows'
  BY DEF SyncRequest, Synced, Answers, Quiet, Exists, Holds, Rows, RowsHaveProject, KeysUnique, ProjectsInv, ProjectsTypeOK
<1>4. OwnSecrets'
  BY <1>1, SecretsStay DEF SyncRequest, Synced, Answers, Quiet, ProjectsInv, ProjectsTypeOK
<1>5. QED
  BY <1>1, <1>2, <1>3, <1>4 DEF ProjectsInv

LEMMA AbandonKeeps ==
  ASSUME Constants, ProjectsInv, NEW r \in Requests, Abandon(r)
  PROVE  ProjectsInv'
<1>1. ProjectsTypeOK'
  BY DEF Abandon, Answers, Quiet, rowVars, ProjectsInv, ProjectsTypeOK, Scopes
<1>2. NamesUnique'
  BY DEF Abandon, Answers, Quiet, rowVars, Exists, NamesUnique, ProjectsInv
<1>3. Rows'
  BY DEF Abandon, Answers, Quiet, rowVars, Exists, Holds, Rows, RowsHaveProject, KeysUnique, ProjectsInv
<1>4. OwnSecrets'
  BY <1>1, SecretsStay DEF Abandon, Answers, Quiet, rowVars, ProjectsInv, ProjectsTypeOK
<1>5. QED
  BY <1>1, <1>2, <1>3, <1>4 DEF ProjectsInv

LEMMA BeginRunKeeps ==
  ASSUME Constants, ProjectsInv, NEW n \in Runs, NEW i \in Ids, NEW w \in Workflows, BeginRun(n, i, w)
  PROVE  ProjectsInv'
<1>1. ProjectsTypeOK'
  BY DEF BeginRun, RunOnly, rowVars, ProjectsInv, ProjectsTypeOK, Scopes, Run
<1>2. NamesUnique'
  BY DEF BeginRun, RunOnly, rowVars, Exists, NamesUnique, ProjectsInv
<1>3. Rows'
  BY DEF BeginRun, RunOnly, rowVars, Exists, Holds, Rows, RowsHaveProject, KeysUnique, ProjectsInv
<1>4. OwnSecrets'
  <2>1. UNCHANGED <<project, vars, request, given>>
    BY DEF BeginRun, RunOnly, rowVars
  <2>2. /\ run'[n].id = i /\ run'[n].copy = project[i] /\ run'[n].vars = {}
        /\ \A m \in Runs : m # n => run'[m] = run[m]
    BY DEF BeginRun, ProjectsInv, ProjectsTypeOK
  <2>3. Secrets(project[i]) \subseteq given[i]
    BY DEF ProjectsInv, OwnSecrets
  <2>4. Masked(n)' \subseteq given[i] \cup given[Global]
    BY <2>2, <2>3 DEF Masked, Secrets
  <2>5. QED
    BY <1>1, <2>1, <2>2, <2>4, SecretsStay
<1>5. QED
  BY <1>1, <1>2, <1>3, <1>4 DEF ProjectsInv

LEMMA ReadGlobalKeeps ==
  ASSUME Constants, ProjectsInv, NEW n \in Runs, ReadGlobal(n)
  PROVE  ProjectsInv'
<1>1. ProjectsTypeOK'
  <2>1. PICK list \in Lists(Global) :
          run' = [run EXCEPT ![n].pc = "project", ![n].vars = list]
    BY DEF ReadGlobal
  <2>2. run[n] \in Run /\ list \in SUBSET Variable
    BY DEF Lists, ProjectsInv, ProjectsTypeOK
  <2>3. run'[n] \in Run /\ run'[n].id = run[n].id /\ run'[n].workflow = run[n].workflow
    BY <2>1, <2>2 DEF Run, ProjectsInv, ProjectsTypeOK
  <2>4. \A m \in Runs \ {n} : run'[m] = run[m]
    BY <2>1 DEF ProjectsInv, ProjectsTypeOK
  <2>5. run' \in [Runs -> Run]
    BY <2>1, <2>3, <2>4 DEF ProjectsInv, ProjectsTypeOK
  <2>6. run[n].pc # "off"
    BY DEF ReadGlobal
  <2>7. QED
    BY <2>3, <2>4, <2>5, <2>6 DEF ReadGlobal, RunOnly, rowVars, ProjectsInv, ProjectsTypeOK
<1>2. NamesUnique'
  BY DEF ReadGlobal, Lists, RunOnly, rowVars, Exists, NamesUnique, ProjectsInv
<1>3. Rows'
  BY DEF ReadGlobal, Lists, RunOnly, rowVars, Exists, Holds, Rows, RowsHaveProject, KeysUnique, ProjectsInv
<1>4. OwnSecrets'
  <2>1. PICK list \in Lists(Global) :
          run' = [run EXCEPT ![n].pc = "project", ![n].vars = list]
    BY DEF ReadGlobal
  <2>2. UNCHANGED <<project, vars, request, given>>
    BY DEF ReadGlobal, RunOnly, rowVars
  <2>3. /\ run'[n].id = run[n].id /\ run'[n].copy = run[n].copy
        /\ run'[n].vars \subseteq run[n].vars \cup list
        /\ \A m \in Runs : m # n => run'[m] = run[m]
    BY <2>1 DEF ProjectsInv, ProjectsTypeOK, Run
  <2>4. \A v \in list : v.value \in given[Global]
    BY <2>1 DEF Lists, ProjectsInv, OwnSecrets
  <2>5. Masked(n) \subseteq given[run[n].id] \cup given[Global]
    BY DEF ProjectsInv, OwnSecrets
  <2>6. Masked(n)' \subseteq given[run[n].id] \cup given[Global]
    BY <2>3, <2>4, <2>5 DEF Masked
  <2>7. QED
    BY <1>1, <2>2, <2>3, <2>6, SecretsStay
<1>5. QED
  BY <1>1, <1>2, <1>3, <1>4 DEF ProjectsInv

LEMMA ReadProjectKeeps ==
  ASSUME Constants, ProjectsInv, NEW n \in Runs, ReadProject(n)
  PROVE  ProjectsInv'
<1>1. ProjectsTypeOK'
  <2>1. PICK list \in Lists(run[n].id) :
          run' = [run EXCEPT ![n].pc = "sync", ![n].vars = @ \cup list]
    BY DEF ReadProject
  <2>2. run[n] \in Run /\ list \in SUBSET Variable
    BY DEF Lists, ProjectsInv, ProjectsTypeOK
  <2>3. run'[n] \in Run /\ run'[n].id = run[n].id /\ run'[n].workflow = run[n].workflow
    BY <2>1, <2>2 DEF Run, ProjectsInv, ProjectsTypeOK
  <2>4. \A m \in Runs \ {n} : run'[m] = run[m]
    BY <2>1 DEF ProjectsInv, ProjectsTypeOK
  <2>5. run' \in [Runs -> Run]
    BY <2>1, <2>3, <2>4 DEF ProjectsInv, ProjectsTypeOK
  <2>6. run[n].pc # "off"
    BY DEF ReadProject
  <2>7. QED
    BY <2>3, <2>4, <2>5, <2>6 DEF ReadProject, RunOnly, rowVars, ProjectsInv, ProjectsTypeOK
<1>2. NamesUnique'
  BY DEF ReadProject, Lists, RunOnly, rowVars, Exists, NamesUnique, ProjectsInv
<1>3. Rows'
  BY DEF ReadProject, Lists, RunOnly, rowVars, Exists, Holds, Rows, RowsHaveProject, KeysUnique, ProjectsInv
<1>4. OwnSecrets'
  <2>1. PICK list \in Lists(run[n].id) :
          run' = [run EXCEPT ![n].pc = "sync", ![n].vars = @ \cup list]
    BY DEF ReadProject
  <2>2. UNCHANGED <<project, vars, request, given>>
    BY DEF ReadProject, RunOnly, rowVars
  <2>3. /\ run'[n].id = run[n].id /\ run'[n].copy = run[n].copy
        /\ run'[n].vars \subseteq run[n].vars \cup list
        /\ \A m \in Runs : m # n => run'[m] = run[m]
    BY <2>1 DEF ProjectsInv, ProjectsTypeOK, Run
  <2>4. \A v \in list : v.value \in given[run[n].id]
    BY <2>1 DEF Lists, ProjectsInv, OwnSecrets
  <2>5. Masked(n) \subseteq given[run[n].id] \cup given[Global]
    BY DEF ProjectsInv, OwnSecrets
  <2>6. Masked(n)' \subseteq given[run[n].id] \cup given[Global]
    BY <2>3, <2>4, <2>5 DEF Masked
  <2>7. QED
    BY <1>1, <2>2, <2>3, <2>6, SecretsStay
<1>5. QED
  BY <1>1, <1>2, <1>3, <1>4 DEF ProjectsInv

LEMMA SyncRunKeeps ==
  ASSUME Constants, ProjectsInv, NEW n \in Runs, SyncRun(n)
  PROVE  ProjectsInv'
<1>1. ProjectsTypeOK'
  <2>1. run[n] \in Run /\ run' = [run EXCEPT ![n] = [run[n] EXCEPT !.pc = "steps"]]
    BY DEF SyncRun, Synced, ProjectsInv, ProjectsTypeOK
  <2>2. run' \in [Runs -> Run]
    BY <2>1 DEF Run, ProjectsInv, ProjectsTypeOK
  <2>3. QED
    BY <2>1, <2>2 DEF SyncRun, Synced, Run, ProjectsInv, ProjectsTypeOK
<1>2. NamesUnique'
  BY DEF SyncRun, Synced, Exists, NamesUnique, ProjectsInv
<1>3. Rows'
  BY DEF SyncRun, Synced, Exists, Holds, Rows, RowsHaveProject, KeysUnique, ProjectsInv, ProjectsTypeOK
<1>4. OwnSecrets'
  <2>1. UNCHANGED <<project, vars, request, given>>
    BY DEF SyncRun
  <2>2. /\ run'[n].id = run[n].id /\ run'[n].copy = run[n].copy /\ run'[n].vars = run[n].vars
        /\ \A m \in Runs : m # n => run'[m] = run[m]
    BY DEF SyncRun, ProjectsInv, ProjectsTypeOK, Run
  <2>3. Masked(n)' \subseteq given[run[n].id] \cup given[Global]
    BY <2>2 DEF Masked, ProjectsInv, OwnSecrets
  <2>4. QED
    BY <1>1, <2>1, <2>2, <2>3, SecretsStay
<1>5. QED
  BY <1>1, <1>2, <1>3, <1>4 DEF ProjectsInv

LEMMA EndRunKeeps ==
  ASSUME Constants, ProjectsInv, NEW n \in Runs, EndRun(n)
  PROVE  ProjectsInv'
<1>1. ProjectsTypeOK'
  BY DEF EndRun, RunOnly, rowVars, NoRun, ProjectsInv, ProjectsTypeOK, Scopes, Run
<1>2. NamesUnique'
  BY DEF EndRun, RunOnly, rowVars, NoRun, Exists, NamesUnique, ProjectsInv
<1>3. Rows'
  BY DEF EndRun, RunOnly, rowVars, NoRun, Exists, Holds, Rows, RowsHaveProject, KeysUnique, ProjectsInv
<1>4. OwnSecrets'
  BY <1>1, SecretsStay DEF EndRun, RunOnly, rowVars, NoRun, ProjectsInv, ProjectsTypeOK, Masked, NoProject
<1>5. QED
  BY <1>1, <1>2, <1>3, <1>4 DEF ProjectsInv

LEMMA TickListKeeps ==
  ASSUME Constants, ProjectsInv, TickList
  PROVE  ProjectsInv'
<1>1. ProjectsTypeOK'
  BY DEF TickList, rowVars, ProjectsInv, ProjectsTypeOK, Scopes
<1>2. NamesUnique'
  BY DEF TickList, rowVars, Exists, NamesUnique, ProjectsInv
<1>3. Rows'
  BY DEF TickList, rowVars, Exists, Holds, Rows, RowsHaveProject, KeysUnique, ProjectsInv
<1>4. OwnSecrets'
  BY <1>1, SecretsStay DEF TickList, rowVars, ProjectsInv, ProjectsTypeOK
<1>5. QED
  BY <1>1, <1>2, <1>3, <1>4 DEF ProjectsInv

LEMMA TickKeeps ==
  ASSUME Constants, ProjectsInv, NEW x \in due, Tick(x)
  PROVE  ProjectsInv'
<1>1. ProjectsTypeOK'
  BY DEF Tick, ProjectsInv, ProjectsTypeOK, Scopes
<1>2. NamesUnique'
  BY DEF Tick, Exists, NamesUnique, ProjectsInv
<1>3. Rows'
  BY DEF Tick, Exists, Holds, Rows, RowsHaveProject, KeysUnique, ProjectsInv, ProjectsTypeOK
<1>4. OwnSecrets'
  BY <1>1, SecretsStay DEF Tick, ProjectsInv, ProjectsTypeOK
<1>5. QED
  BY <1>1, <1>2, <1>3, <1>4 DEF ProjectsInv

\* SetVariable and DeleteVariable, of a project or of all.
LEMMA VariableKeeps ==
  ASSUME Constants, ProjectsInv, NEW v \in Variable, NEW s \in Scopes,
         SetVariable(s, v) \/ DeleteVariable(s, v.key),
         \/ UNCHANGED request
         \/ \E r \in Requests : Answers(r)
  PROVE  ProjectsInv'
<1>1. vars' \subseteq Variable
  BY DEF SetVariable, DeleteVariable, Others, Variable, ProjectsInv, ProjectsTypeOK
<1>2. given' \in [Scopes -> SUBSET Values] /\ \A t \in Scopes : given[t] \subseteq given'[t]
  <2>1. given \in [Scopes -> SUBSET Values] /\ v.value \in Values
    BY DEF Variable, ProjectsInv, ProjectsTypeOK
  <2>2. given' = given \/ given' = [given EXCEPT ![s] = given[s] \cup {v.value}]
    BY DEF SetVariable, DeleteVariable
  <2>3. QED
    BY <2>1, <2>2
<1>3. \A r \in Requests : request'[r] = request[r] \/ request'[r] = Quiet
  BY DEF Answers, ProjectsInv, ProjectsTypeOK
<1>4. request' \in [Requests -> [pc : {"idle", "update", "delete", "write"}, id : Scopes,
                                 row : Project \cup {NoProject}]]
  BY DEF Answers, Quiet, Scopes, ProjectsInv, ProjectsTypeOK
<1>5. UNCHANGED <<project, used, runs, sched, due, run>>
  BY DEF SetVariable, DeleteVariable
<1>6. ProjectsTypeOK'
  BY <1>1, <1>2, <1>3, <1>4, <1>5 DEF Quiet, ProjectsInv, ProjectsTypeOK
<1>7. NamesUnique'
  BY <1>5 DEF Exists, NamesUnique, ProjectsInv
<1>8. Rows'
  <2>1. \A u \in vars' : u \in vars \/ (Holds(s) /\ u = [v EXCEPT !.scope = s])
    BY DEF SetVariable, DeleteVariable, Others
  <2>2. [v EXCEPT !.scope = s].scope = s
    BY DEF Variable
  <2>3. KeysUnique'
    BY DEF SetVariable, DeleteVariable, Others, KeysUnique, Rows, Variable, ProjectsInv, ProjectsTypeOK
  <2>4. QED
    BY <1>5, <2>1, <2>2, <2>3 DEF Exists, Holds, Rows, RowsHaveProject, ProjectsInv
<1>9. OwnSecrets'
  <2>1. \A u \in vars' : u \in vars \/ u.value \in given'[u.scope]
    BY DEF SetVariable, DeleteVariable, Others, Variable, ProjectsInv, ProjectsTypeOK
  <2>2. QED
    BY <1>2, <1>3, <1>5, <1>6, <2>1, SecretsStay DEF Quiet
<1>10. QED
  BY <1>6, <1>7, <1>8, <1>9 DEF ProjectsInv

LEMMA StutterKeeps ==
  ASSUME ProjectsInv, UNCHANGED projectsVars
  PROVE  ProjectsInv'
BY DEF projectsVars, rowVars, ProjectsInv, ProjectsTypeOK, NamesUnique, Rows, RowsHaveProject,
       KeysUnique, OwnSecrets, Exists, Holds, Masked, Secrets

-------------------------------------------------------------------------------
(* The invariant, and what follows from it.                                  *)

LEMMA InitHolds ==
  ASSUME Constants, ProjectsInit
  PROVE  ProjectsInv
BY DEF Constants, ProjectsInit, ProjectsInv, ProjectsTypeOK, NamesUnique, Rows, RowsHaveProject,
       KeysUnique, OwnSecrets, Exists, Masked, Secrets, Quiet, NoRun, NoProject, Scopes, Run

LEMMA NextKeeps ==
  ASSUME Constants, ProjectsInv, [ProjectsNext]_projectsVars
  PROVE  ProjectsInv'
<1>1. CASE \E i \in Ids, d \in Draft, h \in Branches \cup {Blank} : Create(i, d, h)
  BY <1>1, CreateKeeps
<1>2. CASE \E v \in Variable : WriteGlobal(v)
  BY <1>2, VariableKeeps DEF WriteGlobal, Scopes
<1>3. ASSUME NEW r \in Requests, RequestStep(r)
      PROVE  ProjectsInv'
  <2>1. CASE \E i \in Ids, d \in Draft, h \in Branches \cup {Blank} : BeginUpdate(r, i, d, h)
    BY <2>1, BeginUpdateKeeps
  <2>2. CASE \E i \in Ids : BeginDelete(r, i) \/ BeginWrite(r, i)
    BY <2>2, BeginDeleteKeeps, BeginWriteKeeps
  <2>3. CASE Update(r) \/ Delete(r)
    BY <2>3, UpdateKeeps, DeleteKeeps
  <2>4. CASE \E v \in Variable : WriteVariable(r, v)
    <3>1. PICK v \in Variable : WriteVariable(r, v)
      BY <2>4
    <3>2. request[r].id \in Scopes
      BY DEF ProjectsInv, ProjectsTypeOK
    <3>3. QED
      BY <3>1, <3>2, VariableKeeps DEF WriteVariable
  <2>5. CASE (\E w \in Workflows : Submit(r, w) \/ SyncRequest(r, w)) \/ Abandon(r)
    BY <2>5, SubmitKeeps, SyncRequestKeeps, AbandonKeeps
  <2>6. QED
    BY <1>3, <2>1, <2>2, <2>3, <2>4, <2>5 DEF RequestStep
<1>4. ASSUME NEW n \in Runs, RunStep(n)
      PROVE  ProjectsInv'
  <2>1. CASE \E i \in Ids, w \in Workflows : BeginRun(n, i, w)
    BY <2>1, BeginRunKeeps
  <2>2. QED
    BY <1>4, <2>1, ReadGlobalKeeps, ReadProjectKeeps, SyncRunKeeps, EndRunKeeps DEF RunStep
<1>5. CASE TickList \/ \E x \in due : Tick(x)
  BY <1>5, TickListKeeps, TickKeeps
<1>6. CASE UNCHANGED projectsVars
  BY <1>6, StutterKeeps
<1>7. QED
  BY <1>1, <1>2, <1>3, <1>4, <1>5, <1>6 DEF ProjectsNext

LEMMA InvariantHolds ==
  ASSUME Constants
  PROVE  ProjectsSpec => []ProjectsInv
<1>1. ProjectsInit => ProjectsInv
  BY InitHolds
<1>2. ProjectsInv /\ [ProjectsNext]_projectsVars => ProjectsInv'
  BY NextKeeps
<1>3. QED
  BY <1>1, <1>2, PTL DEF ProjectsSpec

\* Names stay unique, no row is left without its project, a key has one value:
\* for any number of projects, requests and runs.
THEOREM TablesHold ==
  ASSUME Constants
  PROVE  ProjectsSpec => [](NamesUnique /\ RowsHaveProject /\ KeysUnique)
<1>1. ProjectsInv => NamesUnique /\ RowsHaveProject /\ KeysUnique
  BY DEF ProjectsInv, Rows
<1>2. QED
  BY <1>1, InvariantHolds, PTL

\* A value given to one project reaches no other: not its row, its variables, an
\* update or a run of it.
THEOREM SecretsStayApart ==
  ASSUME Constants
  PROVE  ProjectsSpec => []OwnSecrets
<1>1. ProjectsInv => OwnSecrets
  BY DEF ProjectsInv
<1>2. QED
  BY <1>1, InvariantHolds, PTL

\* A deleted project stays deleted, whatever requests had read before.
THEOREM NoResurrection ==
  ASSUME Constants
  PROVE  ProjectsSpec => DeletedStays
<1>1. ProjectsInv /\ [ProjectsNext]_projectsVars
        => [\A i \in used : ~Exists(i) => ~Exists(i)']_projectsVars
  <2> SUFFICES ASSUME ProjectsInv, ProjectsNext, NEW i \in used, ~Exists(i)
               PROVE  ~Exists(i)'
    OBVIOUS
  <2>1. i \in Ids /\ project \in [Ids -> Project \cup {NoProject}]
    BY DEF ProjectsInv, ProjectsTypeOK
  <2>2. CASE \E j \in Ids, d \in Draft, h \in Branches \cup {Blank} : Create(j, d, h)
    BY <2>1, <2>2 DEF Create, Exists
  <2>3. CASE \E r \in Requests : RequestStep(r)
    BY <2>1, <2>3 DEF RequestStep, BeginUpdate, BeginDelete, BeginWrite, Begins, Update, Delete,
                      WriteVariable, SetVariable, DeleteVariable, Submit, SyncRequest,
                      Abandon, Exists, rowVars
  <2>4. CASE \E n \in Runs : RunStep(n)
    BY <2>4 DEF RunStep, BeginRun, ReadGlobal, ReadProject, SyncRun, EndRun, RunOnly, rowVars, Exists
  <2>5. CASE (\E v \in Variable : WriteGlobal(v)) \/ TickList \/ \E x \in due : Tick(x)
    BY <2>5 DEF WriteGlobal, SetVariable, DeleteVariable, TickList, Tick, rowVars, Exists
  <2>6. QED
    BY <2>2, <2>3, <2>4, <2>5 DEF ProjectsNext
<1>2. QED
  BY <1>1, InvariantHolds, PTL DEF ProjectsSpec, DeletedStays
===============================================================================
