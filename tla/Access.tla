-------------------------------- MODULE Access --------------------------------
(***************************************************************************)
(* Who may use pici: users sign in with an account of an OAuth provider,   *)
(* requests authenticate with a browser session or a personal token, and   *)
(* the revalidation pass of every process that shares the store asks the   *)
(* provider about the active users and disables those who lost their       *)
(* access.  Requests, passes, the provider and time interleave; a process  *)
(* may stop and come back with another configuration.                      *)
(*                                                                         *)
(* OAuth tokens are reduced to what the provider would say about them, and *)
(* that truth is kept where the tokens are: in the row of the user, in the *)
(* copy a pass works on, in a login under way.  Clocks are reduced to      *)
(* what is compared with them: whether a session, a token, a credential or *)
(* a check is older than its limit.  Cookies, CSRF tokens, hashes and      *)
(* profiles are left out: a request that fails a check on them changes     *)
(* nothing.                                                                *)
(*                                                                         *)
(* DeleteExpired, AnyProvider, Revived, GoesOn, KeepOldRefresh and         *)
(* SameProvider are faults the code does not have: no action uses them,    *)
(* mutation runs put them in.                                              *)
(***************************************************************************)
EXTENDS Integers

CONSTANTS
  Processes,   \* pici processes that share the store
  Accounts,    \* accounts people have with the providers
  ProviderOf,  \* the provider of each
  Issued,      \* what the providers issue
  Configs,     \* configurations a process may be started with
  Sessions,    \* numbers of the browser sessions that may be created
  Tokens,      \* personal API tokens that may be created
  Requests,    \* HTTP requests in flight
  ServerOf,    \* the process each of them reaches
  Grants,      \* numbers of the refresh tokens in the copies of passes
  None,        \* "no account", "no credential", "no configuration"
  MaxFaults    \* bound: stops of a process, statements that fail, answers
               \* that are lost

Provider == {"github", "gitlab", "oidc"}

\* What a provider may issue: a lasting token, or one that expires, with a refresh
\* token or without.
Answer(access, refresh) ==
  [access |-> access, refresh |-> refresh, revoked |-> FALSE]
Answers == {Answer("lasting", "none"), Answer("young", "none"), Answer("young", "good")}

Config == [provider : Provider,
           teams    : BOOLEAN,            \* some team or group is configured
           listed   : SUBSET Accounts]    \* the allowlist

ASSUME AccessAssumption ==
  /\ ProviderOf \in [Accounts -> Provider]
  /\ ServerOf \in [Requests -> Processes]
  /\ Configs \subseteq Config /\ Issued \subseteq Answers
  /\ Sessions \subseteq Nat /\ Grants \subseteq Nat \ {0}
  /\ None \notin Processes \cup Accounts \cup Sessions \cup Tokens \cup Config
  /\ MaxFaults \in Nat

VARIABLES
  config,   \* the configuration each process runs with, None when it is down
  faults,   \* such events so far
  member,   \* who belongs to a configured team
  user,     \* the users table
  session,  \* the sessions table
  token,    \* the api_tokens table
  request,  \* requests in flight
  pass,     \* the revalidation pass of each process
  ended     \* sessions that were given up (auxiliary)

tables == <<user, session, token>>
accessVars == <<config, faults, member, tables, request, pass, ended>>

\* What is stored of an OAuth credential: whether the access token expires, and
\* is within the leeway of it; whether there is a refresh token, and if it was used
\* (taken: by another pass than the one that has it in hand); whether the user took
\* it all back.
Credential == [access : {"lasting", "young", "old"},
               refresh : {"none", "good", "spent", "taken"}, revoked : BOOLEAN]

\* A row of users: checked within the last day.
User == [status : {"unknown", "active", "disabled"}, checked : BOOLEAN, oauth : Credential]

\* outcast: the user was disabled when the session existed (auxiliary).
Session == [status : {"unused", "on", "gone"}, who : Accounts \cup {None},
            expired : BOOLEAN, outcast : BOOLEAN]

\* A row of api_tokens, or nobody's where there is none.
Token == [who : Accounts \cup {None}, expired : BOOLEAN]

\* late: why the request should not be served, if it should not (auxiliary).
Request == [pc : {"idle", "drop", "user", "expel", "touch", "act", "token",
                  "serve", "upsert", "create"},
            cred : Sessions \cup Tokens \cup {None},
            who : Accounts \cup {None}, oauth : Credential,
            late : {"no", "barred", "ended"}]

\* What of a listed row a pass looks at.  Copies with the same number have the same
\* refresh token; 0 is that of the row.
Copy == [oauth : Credential, grant : Grants \cup {0}]

Pass == [pc : {"idle", "next", "refresh", "store", "ask", "mark", "disable", "expel"},
         todo : SUBSET Accounts, copy : [Accounts -> Copy],
         who : Accounts \cup {None}, why : {"none", "refresh", "other"}]

NoOAuth   == Answer("lasting", "none")
NoCopy    == [oauth |-> NoOAuth, grant |-> 0]
NoUser    == [status |-> "unknown", checked |-> FALSE, oauth |-> NoOAuth]
NoSession == [status |-> "unused", who |-> None, expired |-> FALSE, outcast |-> FALSE]
NoToken   == [who |-> None, expired |-> FALSE]
NoRequest == [pc |-> "idle", cred |-> None, who |-> None, oauth |-> NoOAuth, late |-> "no"]
NoPass    == [pc |-> "idle", todo |-> {}, copy |-> [a \in Accounts |-> NoCopy],
              who |-> None, why |-> "none"]

AccessInit ==
  /\ config = [p \in Processes |-> None] /\ faults = 0
  /\ member \in [Accounts -> BOOLEAN]
  /\ user = [a \in Accounts |-> NoUser]
  /\ session = [s \in Sessions |-> NoSession]
  /\ token = [t \in Tokens |-> NoToken]
  /\ request = [r \in Requests |-> NoRequest]
  /\ pass = [p \in Processes |-> NoPass]
  /\ ended = {}

Up(p) == config[p] # None
Fault == faults < MaxFaults /\ faults' = faults + 1

-------------------------------------------------------------------------------
(* The provider and the store, as requests and passes use them              *)

\* authorized: on the allowlist, or in one of the teams if there are any.
InTeam(p, a)  == config[p].teams /\ member[a]
Allowed(p, a) == a \in config[p].listed \/ InTeam(p, a)

Foreign(p, a)  == ProviderOf[a] # config[p].provider
Entitled(p, a) == Up(p) /\ ~Foreign(p, a) /\ Allowed(p, a)

\* n is the least number that no pass of ps gives to a copy of the row of a.
Fresh(a, ps, n) ==
  LET used == {pass[p].copy[a].grant : p \in ps} IN
    n \notin used /\ \A m \in Grants : m < n => m \in used

\* The refresh token with number m takes the place of the one with number n.
Renumbered(q, a, m, n) ==
  IF q.copy[a].oauth.refresh # "none" /\ q.copy[a].grant \in {m, n}
  THEN [q EXCEPT !.copy[a].grant = IF @ = m THEN n ELSE m] ELSE q

Live(s, a) == session[s].status = "on" /\ session[s].who = a

End(creds) == ended' = ended \cup creds

\* What is left of a deleted row (its owner, for what is said about it later).
Gone(t) == [NoSession EXCEPT !.status = "gone", !.who = t.who]

\* DeleteUserSessions.
DeleteExpired(a) ==
  [s \in Sessions |-> IF Live(s, a) /\ session[s].expired THEN Gone(session[s]) ELSE session[s]]
WithoutSessions(a) ==
  [s \in Sessions |-> IF Live(s, a) THEN Gone(session[s]) ELSE session[s]]

\* DeleteUserSession, DeleteSession.
WithoutSession(s) == [session EXCEPT ![s] = IF @.status = "on" THEN Gone(@) ELSE @]

-------------------------------------------------------------------------------
(* Requests                                                                  *)

Become(r, q) == request' = [request EXCEPT ![r] = q]
Leave(r) == Become(r, NoRequest)
RequestOnly == UNCHANGED <<config, member, pass>>

\* The user GetUser returns is refused: disabled, or of another provider.
AnyProvider(p, a) == user[a].status = "disabled"
Refused(p, a)     == user[a].status = "disabled" \/ Foreign(p, a)

\* Whoever this is must not get in, unless they sign in again.
Barred(p, a) == user[a].status # "active" \/ Foreign(p, a)

\* sessionAuth and AuthenticateSession: GetSession finds the row (or the request
\* is refused), and its expiry is compared on that copy.
BeginSession(r, s) ==
  /\ Up(ServerOf[r]) /\ request[r].pc = "idle"
  /\ session[s].status = "on"
  /\ Become(r, [pc |-> IF session[s].expired THEN "drop" ELSE "user", cred |-> s,
                who |-> session[s].who, oauth |-> NoOAuth,
                late |-> IF s \in ended \/ session[s].expired THEN "ended"
                         ELSE IF Barred(ServerOf[r], session[s].who) THEN "barred" ELSE "no"])
  /\ RequestOnly /\ UNCHANGED <<faults, tables, ended>>

\* The expired session is deleted; an error is dropped.
DropSession(r) ==
  /\ request[r].pc = "drop"
  /\ \/ session' = WithoutSession(request[r].cred) /\ End({request[r].cred}) /\ UNCHANGED faults
     \/ Fault /\ UNCHANGED <<session, ended>>
  /\ Leave(r)
  /\ RequestOnly /\ UNCHANGED <<user, token>>

\* GetUser: a disabled user, or one of another provider, is thrown out; otherwise
\* the session is touched if that was not done within the hour.
CheckUser(r) ==
  /\ request[r].pc = "user"
  /\ \E next \in IF Refused(ServerOf[r], request[r].who) THEN {"expel"} ELSE {"touch", "act"} :
       Become(r, [request[r] EXCEPT !.pc = next])
  /\ RequestOnly /\ UNCHANGED <<faults, tables, ended>>

\* DeleteUserSessions, on what GetUser said: the user may be back by now.
ExpelUser(r) ==
  /\ request[r].pc = "expel"
  /\ \/ /\ session' = WithoutSessions(request[r].who)
        /\ End({s \in Sessions : Live(s, request[r].who)})
        /\ UNCHANGED faults
     \/ Fault /\ UNCHANGED <<session, ended>>
  /\ Leave(r)
  /\ RequestOnly /\ UNCHANGED <<user, token>>

\* TouchSession slides the expiry of the row, if it is still there; an error is
\* dropped.
Revived(t) == [t EXCEPT !.status = "on", !.expired = FALSE]
Touched(t) == IF t.status = "on" THEN [t EXCEPT !.expired = FALSE] ELSE t
TouchSession(r) ==
  /\ request[r].pc = "touch"
  /\ LET s == request[r].cred IN
       \/ session' = [session EXCEPT ![s] = Touched(session[s])] /\ UNCHANGED faults
       \/ Fault /\ UNCHANGED session
  /\ Become(r, [request[r] EXCEPT !.pc = "act"])
  /\ RequestOnly /\ UNCHANGED <<user, token, ended>>

\* A page is served, and nothing here changes.
ServePage(r) ==
  /\ request[r].pc \in {"act", "serve"}
  /\ Leave(r)
  /\ RequestOnly /\ UNCHANGED <<faults, tables, ended>>

\* Logout: when the statement fails the cookie is cleared all the same.
Logout(r) ==
  /\ request[r].pc = "act"
  /\ \/ session' = WithoutSession(request[r].cred) /\ End({request[r].cred}) /\ UNCHANGED faults
     \/ Fault /\ UNCHANGED <<session, ended>>
  /\ Leave(r)
  /\ RequestOnly /\ UNCHANGED <<user, token>>

\* AccountSessionDelete: DELETE ... WHERE user_id = ? AND id = ?, for the session
\* that is named.
DeleteSession(r, s) ==
  /\ request[r].pc = "act"
  /\ IF Live(s, request[r].who) THEN session' = WithoutSession(s) /\ End({s})
                                ELSE UNCHANGED <<session, ended>>
  /\ Leave(r)
  /\ RequestOnly /\ UNCHANGED <<faults, user, token>>

\* AccountSessionsDeleteAll.
DeleteAllSessions(r) ==
  /\ request[r].pc = "act"
  /\ session' = WithoutSessions(request[r].who)
  /\ End({s \in Sessions : Live(s, request[r].who)})
  /\ Leave(r)
  /\ RequestOnly /\ UNCHANGED <<faults, user, token>>

\* AccountTokenCreate.
CreateToken(r, t) ==
  /\ request[r].pc = "act"
  /\ token[t] = NoToken
  /\ token' = [token EXCEPT ![t] = [who |-> request[r].who, expired |-> FALSE]]
  /\ Leave(r)
  /\ RequestOnly /\ UNCHANGED <<faults, user, session, ended>>

\* AccountTokenDelete.
DeleteToken(r, t) ==
  /\ request[r].pc = "act"
  /\ token[t].who = request[r].who
  /\ token' = [token EXCEPT ![t] = NoToken]
  /\ Leave(r)
  /\ RequestOnly /\ UNCHANGED <<faults, user, session, ended>>

\* The API middleware and AuthenticateToken: the row is found and not expired.
BeginToken(r, t) ==
  /\ Up(ServerOf[r]) /\ request[r].pc = "idle"
  /\ token[t].who # None /\ ~token[t].expired
  /\ Become(r, [pc |-> "token", cred |-> t, who |-> token[t].who, oauth |-> NoOAuth,
                late |-> IF Barred(ServerOf[r], token[t].who) THEN "barred" ELSE "no"])
  /\ RequestOnly /\ UNCHANGED <<faults, tables, ended>>

\* GetUser; a refused token stays where it is.
CheckTokenUser(r) ==
  /\ request[r].pc = "token"
  /\ IF Refused(ServerOf[r], request[r].who) THEN Leave(r)
                                ELSE Become(r, [request[r] EXCEPT !.pc = "serve"])
  /\ RequestOnly /\ UNCHANGED <<faults, tables, ended>>

\* LoginCallback and Login: the code is exchanged for a credential, and the
\* provider is asked about the user.  A login that fails up to here changes
\* nothing.  A provider that leaves out the refresh token, as some do for a user
\* who has signed in before, still takes the one it gave then.
BeginLogin(r, a, issued) ==
  /\ Up(ServerOf[r]) /\ request[r].pc = "idle"
  /\ Entitled(ServerOf[r], a)
  /\ issued.refresh = "none" => ~user[a].oauth.revoked
  /\ Become(r, [NoRequest EXCEPT !.pc = "upsert", !.who = a, !.oauth = issued])
  /\ RequestOnly /\ UNCHANGED <<faults, tables, ended>>

\* UpsertUser: the user is active and checked, whatever the row said; a login
\* without a refresh token keeps the one stored.
Renewed(old, new) == IF new.refresh = "none" THEN [new EXCEPT !.refresh = old.refresh] ELSE new
UpsertUser(r) ==
  /\ request[r].pc = "upsert"
  /\ LET a == request[r].who
         new == request[r].oauth
     IN /\ user' = [user EXCEPT ![a] = [status |-> "active", checked |-> TRUE,
                                        oauth |-> Renewed(@.oauth, new)]]
        /\ request' = [q \in Requests |->
             IF q = r THEN [NoRequest EXCEPT !.pc = "create", !.who = a]
             ELSE IF request[q].who = a /\ request[q].late = "barred"
                  THEN [request[q] EXCEPT !.late = "no"]
                  ELSE request[q]]
        /\ IF new.refresh = "none" THEN UNCHANGED pass
           ELSE \E n \in Grants :
                  /\ Fresh(a, Processes, n)
                  /\ pass' = [p \in Processes |-> Renumbered(pass[p], a, n, 0)]
  /\ UNCHANGED <<config, faults, member, session, token, ended>>

\* CreateSession.
CreateSession(r, s) ==
  /\ request[r].pc = "create"
  /\ session[s].status = "unused"
  /\ \A other \in Sessions : session[other].status = "unused" => s <= other
  /\ session' = [session EXCEPT ![s] = [NoSession EXCEPT !.status = "on", !.who = request[r].who]]
  /\ Leave(r)
  /\ RequestOnly /\ UNCHANGED <<faults, user, token, ended>>

\* The client goes away, or a statement of the request fails: it ends here.
Abandon(r) ==
  /\ request[r].pc # "idle"
  /\ Leave(r)
  /\ RequestOnly /\ UNCHANGED <<faults, tables, ended>>

-------------------------------------------------------------------------------
(* The revalidation passes, one a process                                    *)

PassOnly == UNCHANGED <<config, member, request>>
PassGoes(p, q) == pass' = [pass EXCEPT ![p] = q]
GoesOn(q)  == [q EXCEPT !.pc = "next", !.why = "none"]
Proceed(q) == [q EXCEPT !.pc = "next", !.who = None, !.why = "none",
                        !.copy = [a \in Accounts |-> IF a \in q.todo THEN q.copy[a] ELSE NoCopy]]

\* ListActiveUsers, without those checked within the last day.
SameProvider(p, a) == user[a].status = "active" /\ ~user[a].checked /\ ~Foreign(p, a)
Due(p, a)          == user[a].status = "active" /\ (Foreign(p, a) \/ ~user[a].checked)

\* A row with a refresh token that another pass has used, and has yet to replace.
Listed(p, a) ==
  IF user[a].oauth.refresh = "spent" /\ \E q \in Processes \ {p} : pass[q].pc = "store" /\ pass[q].who = a
  THEN [user[a].oauth EXCEPT !.refresh = "taken"]
  ELSE user[a].oauth

\* The tick of RunRevalidator: the pass works on copies of the rows.
StartPass(p) ==
  /\ Up(p) /\ pass[p].pc = "idle"
  /\ PassGoes(p, Proceed([NoPass EXCEPT !.todo = {a \in Accounts : Due(p, a)},
                                        !.copy = [a \in Accounts |-> [oauth |-> Listed(p, a), grant |-> 0]]]))
  /\ PassOnly /\ UNCHANGED <<faults, tables, ended>>

Condemn(q, a, why) == [q EXCEPT !.pc = "disable", !.who = a, !.why = why]

\* accessToken: a token without refresh token or expiry is used as it is, and so
\* is one that is young; it may have aged since it was listed.
MayUse(c)    == c.refresh = "none" \/ c.access \in {"lasting", "young"}
MayRefresh(c) == c.refresh # "none" /\ c.access \in {"young", "old"}

\* The next user: of another provider, or to be asked about.
NextUser(p, a) ==
  /\ pass[p].pc = "next" /\ a \in pass[p].todo
  /\ LET left == [pass[p] EXCEPT !.todo = @ \ {a}]
         held == pass[p].copy[a].oauth
     IN \/ Foreign(p, a) /\ PassGoes(p, Condemn(left, a, "other"))
        \/ ~Foreign(p, a) /\ MayRefresh(held) /\ PassGoes(p, [left EXCEPT !.pc = "refresh", !.who = a])
        \/ ~Foreign(p, a) /\ MayUse(held) /\ PassGoes(p, [left EXCEPT !.pc = "ask", !.who = a])
  /\ PassOnly /\ UNCHANGED <<faults, tables, ended>>

\* The pass ends: DeleteExpiredSessions takes what had expired when it began.
EndPass(p) ==
  /\ pass[p].pc = "next" /\ pass[p].todo = {}
  /\ \E gone \in SUBSET {s \in Sessions : session[s].status = "on" /\ session[s].expired} :
       /\ session' = [s \in Sessions |-> IF s \in gone THEN Gone(session[s]) ELSE session[s]]
       /\ End(gone)
  /\ PassGoes(p, NoPass)
  /\ PassOnly /\ UNCHANGED <<faults, user, token>>

\* The credential a pass has in hand.
Held(p) == pass[p].copy[pass[p].who].oauth
Good(c) == c.refresh = "good" /\ ~c.revoked

\* The refresh token p has in hand is used up: the row may have it too, and the
\* copies of other passes.
Number(p) == pass[p].copy[pass[p].who].grant
RowSpent(p) ==
  IF Number(p) = 0 THEN [user EXCEPT ![pass[p].who].oauth.refresh = "spent"] ELSE user
Taken(c, n) ==
  IF c.oauth.refresh # "none" /\ c.grant = n THEN [c EXCEPT !.oauth.refresh = "taken"] ELSE c
Spend(p, next) ==
  /\ user' = RowSpent(p)
  /\ pass' = [q \in Processes |->
       IF q = p THEN next ELSE [pass[q] EXCEPT !.copy[pass[p].who] = Taken(@, Number(p))]]

\* Refresh is answered: the token is refused for good; it is renewed by a new
\* credential, the old refresh token being spent; or only the access token is.
RefreshRefused(p) ==
  /\ pass[p].pc = "refresh" /\ ~Good(Held(p))
  /\ PassGoes(p, Condemn(pass[p], pass[p].who, "refresh"))
  /\ PassOnly /\ UNCHANGED <<faults, tables, ended>>

RefreshRenews(p) ==
  /\ pass[p].pc = "refresh" /\ Good(Held(p))
  /\ LET a == pass[p].who
         next == [pass[p] EXCEPT !.pc = "store", !.copy[a].oauth.access = "young"]
     IN \/ \E n \in Grants : Fresh(a, Processes \ {p}, n) /\ Spend(p, [next EXCEPT !.copy[a].grant = n])
        \/ PassGoes(p, next) /\ UNCHANGED user
  /\ PassOnly /\ UNCHANGED <<faults, session, token, ended>>

\* The provider cannot be reached, is rate limited or fails: access is kept.  Or
\* it renewed the credential, and the answer did not arrive.
RefreshFails(p) ==
  /\ pass[p].pc = "refresh"
  /\ \/ PassGoes(p, Proceed(pass[p])) /\ UNCHANGED <<user, faults>>
     \/ Good(Held(p)) /\ Spend(p, Proceed(pass[p])) /\ Fault
  /\ PassOnly /\ UNCHANGED <<session, token, ended>>

\* UpdateUserOAuthToken; when it fails the pass goes on to the next user.
KeepOldRefresh(old, new) == [new EXCEPT !.refresh = old.refresh]
Stored(old, new)         == new
StoreToken(p) ==
  /\ pass[p].pc = "store"
  /\ LET a == pass[p].who
         next == [pass[p] EXCEPT !.pc = "ask"]
     IN \/ /\ user' = [user EXCEPT ![a].oauth = Stored(@, Held(p))]
           /\ pass' = [q \in Processes |->
                Renumbered(IF q = p THEN next ELSE pass[q], a, Number(p), 0)]
           /\ UNCHANGED faults
        \/ Fault /\ PassGoes(p, Proceed(pass[p])) /\ UNCHANGED user
  /\ PassOnly /\ UNCHANGED <<session, token, ended>>

\* authorized, answered: the access token is refused (it may be, within the leeway
\* of its expiry; and GitHub and GitLab refuse for reasons of their own, which count
\* as that), the user is not allowed, or everything is as it was.
MayReject(p) == Held(p).revoked \/ Held(p).access = "old" \/ config[p].provider # "oidc"
Ask(p) ==
  /\ pass[p].pc = "ask"
  /\ LET settled == [pass[p] EXCEPT !.copy[pass[p].who] = NoCopy] IN
       \/ /\ MayReject(p) \/ ~Allowed(p, pass[p].who)
          /\ PassGoes(p, Condemn(settled, pass[p].who, "other"))
       \/ /\ ~Held(p).revoked /\ Allowed(p, pass[p].who)
          /\ PassGoes(p, [settled EXCEPT !.pc = "mark"])
  /\ PassOnly /\ UNCHANGED <<faults, tables, ended>>

\* The provider does not answer: access is kept.
AskFails(p) ==
  /\ pass[p].pc = "ask"
  /\ PassGoes(p, Proceed(pass[p]))
  /\ PassOnly /\ UNCHANGED <<faults, tables, ended>>

\* SetUserOrgCheck; an error only makes the next pass ask again.
Mark(p) ==
  /\ pass[p].pc = "mark"
  /\ \/ user' = [user EXCEPT ![pass[p].who].checked = TRUE] /\ UNCHANGED faults
     \/ Fault /\ UNCHANGED user
  /\ PassGoes(p, Proceed(pass[p]))
  /\ PassOnly /\ UNCHANGED <<session, token, ended>>

\* DisableUser, whatever happened to the row since it was listed; when it fails
\* the sessions stay too.
Disable(p) ==
  /\ pass[p].pc = "disable"
  /\ LET a == pass[p].who IN
       \/ /\ user' = [user EXCEPT ![a].status = "disabled"]
          /\ session' = [s \in Sessions |-> IF Live(s, a)
                           THEN [session[s] EXCEPT !.outcast = TRUE] ELSE session[s]]
          /\ PassGoes(p, [pass[p] EXCEPT !.pc = "expel"])
          /\ UNCHANGED faults
       \/ Fault /\ PassGoes(p, Proceed(pass[p])) /\ UNCHANGED <<user, session>>
  /\ PassOnly /\ UNCHANGED <<token, ended>>

\* DeleteUserSessions of the disabled user; a failure is only logged.
Expel(p) ==
  /\ pass[p].pc = "expel"
  /\ \/ /\ session' = WithoutSessions(pass[p].who)
        /\ End({s \in Sessions : Live(s, pass[p].who)})
        /\ UNCHANGED faults
     \/ Fault /\ UNCHANGED <<session, ended>>
  /\ PassGoes(p, Proceed(pass[p]))
  /\ PassOnly /\ UNCHANGED <<user, token>>

-------------------------------------------------------------------------------
(* The processes, people, the provider and time                              *)

StartServer(p, c) ==
  /\ ~Up(p)
  /\ config' = [config EXCEPT ![p] = c]
  /\ UNCHANGED <<faults, member, tables, request, pass, ended>>

\* SIGTERM or a crash: its requests and its pass end where they are.
StopServer(p) ==
  /\ Up(p) /\ Fault
  /\ config' = [config EXCEPT ![p] = None]
  /\ request' = [r \in Requests |-> IF ServerOf[r] = p THEN NoRequest ELSE request[r]]
  /\ PassGoes(p, NoPass)
  /\ UNCHANGED <<member, tables, ended>>

Outside == UNCHANGED <<config, faults, ended>>

JoinOrLeave(a) ==
  /\ member' = [member EXCEPT ![a] = ~@]
  /\ Outside /\ UNCHANGED <<tables, request, pass>>

\* The user revokes the app, or the account is suspended or deleted.
Revoke(a) ==
  /\ user[a].status # "unknown" \/ \E r \in Requests : request[r].pc = "upsert" /\ request[r].who = a
  /\ user' = [user EXCEPT ![a].oauth.revoked = TRUE]
  /\ pass' = [p \in Processes |->
       IF a \in pass[p].todo \/ a = pass[p].who
       THEN [pass[p] EXCEPT !.copy[a].oauth.revoked = TRUE] ELSE pass[p]]
  /\ request' = [r \in Requests |->
       IF request[r].pc = "upsert" /\ request[r].who = a
       THEN [request[r] EXCEPT !.oauth.revoked = TRUE] ELSE request[r]]
  /\ Outside /\ UNCHANGED <<member, session, token>>

\* The access token of a row nears its expiry.
AgeToken(a) ==
  /\ user[a].oauth.access = "young"
  /\ user' = [user EXCEPT ![a].oauth.access = "old"]
  /\ Outside /\ UNCHANGED <<member, session, token, request, pass>>

ExpireSession(s) ==
  /\ session[s].status = "on" /\ ~session[s].expired
  /\ session' = [session EXCEPT ![s].expired = TRUE]
  /\ Outside /\ UNCHANGED <<member, user, token, request, pass>>

ExpireToken(t) ==
  /\ token[t].who # None /\ ~token[t].expired
  /\ token' = [token EXCEPT ![t].expired = TRUE]
  /\ Outside /\ UNCHANGED <<member, user, session, request, pass>>

\* A day goes by since the last check of a user.
CheckDue(a) ==
  /\ user[a].checked
  /\ user' = [user EXCEPT ![a].checked = FALSE]
  /\ UNCHANGED <<config, faults, member, session, token, request, pass, ended>>

-------------------------------------------------------------------------------
RequestStep(r) ==
  \/ \E s \in Sessions : BeginSession(r, s) \/ DeleteSession(r, s) \/ CreateSession(r, s)
  \/ \E t \in Tokens : BeginToken(r, t) \/ CreateToken(r, t) \/ DeleteToken(r, t)
  \/ \E a \in Accounts, issued \in Issued : BeginLogin(r, a, issued)
  \/ DropSession(r) \/ CheckUser(r) \/ ExpelUser(r) \/ TouchSession(r)
  \/ ServePage(r) \/ Logout(r) \/ DeleteAllSessions(r) \/ CheckTokenUser(r)
  \/ UpsertUser(r) \/ Abandon(r)

PassStep(p) ==
  \/ StartPass(p) \/ (\E a \in Accounts : NextUser(p, a)) \/ EndPass(p)
  \/ RefreshRefused(p) \/ RefreshRenews(p) \/ RefreshFails(p)
  \/ StoreToken(p) \/ Ask(p) \/ AskFails(p) \/ Mark(p) \/ Disable(p) \/ Expel(p)

WorldStep ==
  \/ \E a \in Accounts : JoinOrLeave(a) \/ Revoke(a) \/ AgeToken(a) \/ CheckDue(a)
  \/ \E s \in Sessions : ExpireSession(s)
  \/ \E t \in Tokens : ExpireToken(t)

AccessNext ==
  \/ \E p \in Processes :
       (\E c \in Configs : StartServer(p, c)) \/ StopServer(p) \/ PassStep(p)
  \/ \E r \in Requests : RequestStep(r)
  \/ WorldStep

AccessSpec == AccessInit /\ [][AccessNext]_accessVars
===============================================================================
