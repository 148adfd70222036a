---------------------------- MODULE AccessProofs ----------------------------
(***************************************************************************)
(* The safety properties of AccessProperties, for every set of processes,  *)
(* accounts, configurations, sessions, tokens and requests, and any number *)
(* of faults.                                                              *)
(***************************************************************************)
EXTENDS AccessProperties, TLAPS

\* A process that is down has no requests and no pass.
Stopped ==
  \A p \in Processes : ~Up(p) =>
    /\ pass[p].pc = "idle"
    /\ \A r \in Requests : ServerOf[r] = p => request[r].pc = "idle"

\* Whoever holds a session or a token, or makes a request with one, has signed in.
Known ==
  /\ \A s \in Sessions : session[s].status = "on" =>
       session[s].who \in Accounts /\ user[session[s].who].status # "unknown"
  /\ \A t \in Tokens : token[t].who # None => user[token[t].who].status # "unknown"
  /\ \A r \in Requests : request[r].pc # "idle" => request[r].who \in Accounts
  /\ \A r \in Requests : request[r].pc \notin {"idle", "upsert"} =>
       user[request[r].who].status # "unknown"
  /\ \A r \in Requests : request[r].pc \in {"drop", "user", "expel", "touch", "act"} =>
       request[r].cred \in Sessions /\ session[request[r].cred].status # "unused"

\* A session that was given up is gone, and its number is not used again.
EndedGone == \A s \in ended : session[s].status = "gone"

\* A request that should not be served is on its way out: it has an expired
\* session, or comes to the check of a user who is still refused.
LateLeaves ==
  \A r \in Requests :
    /\ request[r].late = "ended" => request[r].pc = "drop"
    /\ request[r].late = "barred" =>
         /\ request[r].pc \in {"user", "expel", "token"}
         /\ request[r].pc \in {"user", "token"} => Refused(ServerOf[r], request[r].who)

\* A refresh token is spent in no copy, and in a row only until the pass that spent
\* it stores the next one; a pass refreshes what can be.
Storing(p, a) == pass[p].pc = "store" /\ pass[p].who = a

SpentStored ==
  /\ \A r \in Requests : request[r].oauth.refresh # "spent"
  /\ Undisturbed =>
       /\ \A p \in Processes, a \in Accounts : pass[p].copy[a].oauth.refresh # "spent"
       /\ \A a \in Accounts : user[a].oauth.refresh = "spent" =>
            \E p \in Processes : Storing(p, a)
       /\ \A p \in Processes : pass[p].pc = "refresh" => Held(p).refresh # "none"

AccessInv ==
  /\ AccessTypeOK /\ Stopped /\ Known /\ EndedGone /\ LateLeaves
  /\ DisableEndsSessions /\ SpentStored /\ RefreshTokenKept

-------------------------------------------------------------------------------
(* What the helpers of Access return, and what a step keeps when it only ends  *)
(* sessions, or only moves the pass.                                           *)

\* The values that stand for nothing.
LEMMA NoPassFacts ==
  /\ NoOAuth \in Credential /\ NoOAuth.refresh = "none"
  /\ NoCopy \in Copy /\ NoRequest \in Request /\ NoPass \in Pass
  /\ NoPass.pc = "idle" /\ NoPass.who = None
  /\ \A a \in Accounts : NoPass.copy[a] = NoCopy
<1>1. NoOAuth \in Credential /\ NoOAuth.refresh = "none"
  BY DEF NoOAuth, Answer, Credential
<1>2. NoCopy \in Copy /\ NoRequest \in Request
  BY <1>1 DEF NoCopy, Copy, NoRequest, Request
<1>3. QED
  BY <1>1, <1>2 DEF NoPass, Pass

LEMMA GoneFacts ==
  ASSUME NEW t \in Session
  PROVE  Gone(t) \in Session /\ Gone(t).status = "gone"
BY DEF Gone, NoSession, Session

LEMMA ProceedFacts ==
  ASSUME AccessAssumption, NEW p \in Pass
  PROVE  /\ Proceed(p) \in Pass
         /\ Proceed(p).pc = "next" /\ Proceed(p).who = None /\ Proceed(p).why = "none"
         /\ \A a \in Accounts : Proceed(p).copy[a] \in {p.copy[a], NoCopy}
<1>1. NoCopy \in Copy
  BY NoPassFacts
<1>2. [a \in Accounts |-> IF a \in p.todo THEN p.copy[a] ELSE NoCopy] \in [Accounts -> Copy]
  BY <1>1 DEF Pass
<1>3. QED
  BY <1>2 DEF Proceed, Pass

\* A credential that is taken back, or expires, is one, and so is what holds it.
LEMMA RevokedFacts ==
  ASSUME NEW c \in Credential, NEW x \in BOOLEAN
  PROVE  /\ [c EXCEPT !.revoked = x] \in Credential
         /\ [c EXCEPT !.revoked = x].refresh = c.refresh
         /\ [c EXCEPT !.revoked = x].revoked = x
         /\ [c EXCEPT !.access = "old"] \in Credential
         /\ [c EXCEPT !.access = "old"].refresh = c.refresh
BY DEF Credential

LEMMA HolderFacts ==
  ASSUME NEW c \in Credential
  PROVE  /\ \A u \in User : /\ u.oauth \in Credential
                            /\ [u EXCEPT !.oauth = c] \in User
                            /\ [u EXCEPT !.oauth = c].status = u.status
                            /\ [u EXCEPT !.oauth = c].oauth = c
         /\ \A h \in Copy : /\ h.oauth \in Credential
                            /\ [h EXCEPT !.oauth = c] \in Copy
                            /\ [h EXCEPT !.oauth = c].oauth = c
BY DEF User, Copy

LEMMA HeldCredential ==
  /\ \A u \in User : u.oauth \in Credential
  /\ \A h \in Copy : h.oauth \in Credential
  /\ \A q \in Request : q.oauth \in Credential
BY DEF User, Copy, Request

LEMMA CondemnFacts ==
  ASSUME NEW p \in Pass, NEW a \in Accounts, NEW why \in {"refresh", "other"}
  PROVE  /\ Condemn(p, a, why) \in Pass
         /\ Condemn(p, a, why).pc = "disable" /\ Condemn(p, a, why).who = a
         /\ Condemn(p, a, why).why = why /\ Condemn(p, a, why).copy = p.copy
BY DEF Condemn, Pass

LEMMA TouchedFacts ==
  ASSUME NEW t \in Session
  PROVE  /\ Touched(t) \in Session /\ Touched(t).status = t.status
         /\ Touched(t).who = t.who /\ Touched(t).outcast = t.outcast
BY DEF Touched, Session

\* Sessions only end, and those given up are among them.
Shrunk ==
  /\ session' \in [Sessions -> Session]
  /\ \A s \in Sessions : session'[s] = session[s] \/
       (session[s].status = "on" /\ session'[s].status = "gone")
  /\ ended' \subseteq Sessions
  /\ \A s \in ended' : s \in ended \/ session'[s].status = "gone"

\* The faults are counted.
Counts == faults' \in 0 .. MaxFaults /\ (faults' = 0 => faults = 0)

LEMMA FaultCounts ==
  ASSUME AccessAssumption, AccessTypeOK, Fault \/ UNCHANGED faults
  PROVE  Counts
BY DEF AccessAssumption, AccessTypeOK, Fault, Counts

LEMMA OneSessionEnds ==
  ASSUME AccessInv, NEW s \in Sessions, session[s].status # "unused",
         session' = WithoutSession(s), End({s})
  PROVE  Shrunk
<1>1. session \in [Sessions -> Session] /\ ended \subseteq Sessions
  BY DEF AccessInv, AccessTypeOK
<1>2. session[s].status \in {"on", "gone"}
  BY <1>1 DEF Session
<1>3. Gone(session[s]) \in Session /\ Gone(session[s]).status = "gone"
  BY <1>1, GoneFacts
<1>4. session'[s] \in Session /\ session'[s].status = "gone"
  BY <1>1, <1>2, <1>3 DEF WithoutSession
<1>5. QED
  BY <1>1, <1>2, <1>3, <1>4 DEF WithoutSession, End, Shrunk

LEMMA AllSessionsEnd ==
  ASSUME AccessInv, NEW a \in Accounts,
         session' = WithoutSessions(a), End({s \in Sessions : Live(s, a)})
  PROVE  /\ Shrunk
         /\ \A s \in Sessions : ~(session'[s].status = "on" /\ session'[s].who = a)
<1>1. session \in [Sessions -> Session] /\ ended \subseteq Sessions
  BY DEF AccessInv, AccessTypeOK
<1>2. \A s \in Sessions : Gone(session[s]) \in Session /\ Gone(session[s]).status = "gone"
  BY <1>1, GoneFacts
<1>3. \A s \in Sessions : session'[s] = IF Live(s, a) THEN Gone(session[s]) ELSE session[s]
  BY DEF WithoutSessions
<1>4. session' \in [Sessions -> Session]
  BY <1>1, <1>2 DEF WithoutSessions
<1>5. QED
  BY <1>1, <1>2, <1>3, <1>4 DEF Live, End, Shrunk

LEMMA EndKeepsRows ==
  ASSUME AccessInv, Shrunk, UNCHANGED user
  PROVE  /\ EndedGone'
         /\ \A s \in Sessions : session'[s].status = "on" =>
              /\ session'[s] = session[s] /\ session'[s].who \in Accounts
              /\ user'[session'[s].who].status # "unknown"
         /\ \A s \in Sessions : session[s].status # "unused" => session'[s].status # "unused"
BY DEF Shrunk, AccessInv, AccessTypeOK, EndedGone, Known

\* A request ends sessions, and with that it is done.
LEMMA RequestEndsSessions ==
  ASSUME AccessAssumption, AccessInv, NEW r \in Requests, Leave(r), RequestOnly, Counts,
         Shrunk, UNCHANGED <<user, token>>
  PROVE  AccessInv'
<1> DEFINE kept == \A s \in Sessions : session'[s].status = "on" =>
              /\ session'[s] = session[s] /\ session'[s].who \in Accounts
              /\ user'[session'[s].who].status # "unknown"
<1>1. /\ request' = [request EXCEPT ![r] = NoRequest]
      /\ UNCHANGED <<config, member, pass, user, token>>
  BY DEF Leave, Become, RequestOnly
<1>2. EndedGone' /\ kept
      /\ \A s \in Sessions : session[s].status # "unused" => session'[s].status # "unused"
  BY EndKeepsRows
<1>3. NoRequest \in Request
  BY NoPassFacts
<1>4. AccessTypeOK'
  BY <1>1, <1>2, <1>3 DEF Shrunk, Counts, AccessInv, AccessTypeOK, AccessAssumption
<1>5. Stopped'
  BY <1>1 DEF AccessInv, AccessTypeOK, Stopped, Up, NoRequest
<1>6. Known'
  BY <1>1, <1>2 DEF AccessInv, AccessTypeOK, Known, NoRequest
<1>7. LateLeaves'
  BY <1>1 DEF AccessInv, AccessTypeOK, LateLeaves, Refused, Foreign, NoRequest
<1>8. DisableEndsSessions'
  BY <1>1, <1>2 DEF Counts, AccessInv, DisableEndsSessions, Undisturbed
<1>9. SpentStored'
  BY <1>1 DEF Counts, AccessInv, AccessTypeOK, SpentStored, Storing, Undisturbed, Held,
              NoRequest, NoOAuth, Answer
<1>10. RefreshTokenKept'
  BY <1>1 DEF Counts, AccessInv, RefreshTokenKept, Undisturbed, Held
<1>11. QED
  BY <1>2, <1>4, <1>5, <1>6, <1>7, <1>8, <1>9, <1>10 DEF AccessInv

LEMMA RequestEndsNothing ==
  ASSUME AccessAssumption, AccessInv, NEW r \in Requests, Leave(r), RequestOnly, Counts,
         UNCHANGED <<user, token, session, ended>>
  PROVE  AccessInv'
<1>1. Shrunk
  BY DEF Shrunk, AccessInv, AccessTypeOK
<1>2. QED
  BY <1>1, RequestEndsSessions

\* A request goes on, without touching a row.
LEMMA RequestMoves ==
  ASSUME AccessAssumption, AccessInv, NEW r \in Requests, Up(ServerOf[r]),
         NEW q \in Request, Become(r, q),
         UNCHANGED <<config, faults, member, user, session, token, pass, ended>>,
         q.who \in Accounts, q.oauth.refresh # "spent",
         q.pc # "upsert" => user[q.who].status # "unknown",
         q.pc \in {"drop", "user", "expel", "touch", "act"} =>
           q.cred \in Sessions /\ session[q.cred].status # "unused",
         q.late = "ended" => q.pc = "drop",
         q.late = "barred" => q.pc \in {"user", "token"} /\ Refused(ServerOf[r], q.who)
  PROVE  AccessInv'
<1>1. /\ request \in [Requests -> Request] /\ request' \in [Requests -> Request]
      /\ request'[r] = q /\ \A p \in Requests \ {r} : request'[p] = request[p]
  BY DEF Become, AccessInv, AccessTypeOK
<1>2. AccessTypeOK'
  BY <1>1 DEF AccessInv, AccessTypeOK
<1>3. Stopped' /\ EndedGone' /\ DisableEndsSessions' /\ RefreshTokenKept'
  <2>1. Stopped'
    BY <1>1 DEF Up, AccessInv, Stopped
  <2>2. EndedGone' /\ DisableEndsSessions'
    BY DEF AccessInv, EndedGone, DisableEndsSessions, Undisturbed
  <2>3. RefreshTokenKept'
    BY DEF AccessInv, RefreshTokenKept, Undisturbed, Held
  <2>4. QED
    BY <2>1, <2>2, <2>3
<1>4. Known'
  BY <1>1 DEF AccessInv, Known
<1>5. LateLeaves'
  BY <1>1 DEF AccessInv, LateLeaves, Refused, Foreign
<1>6. SpentStored'
  BY <1>1 DEF AccessInv, SpentStored, Storing, Undisturbed, Held
<1>7. QED
  BY <1>2, <1>3, <1>4, <1>5, <1>6 DEF AccessInv

\* Nobody who signed in is unknown again.
LEMMA KnownKept ==
  ASSUME AccessInv, UNCHANGED <<request, token>>,
         \A a \in Accounts : user[a].status # "unknown" => user'[a].status # "unknown",
         \A s \in Sessions : session'[s].status = "on" =>
           session[s].status = "on" /\ session'[s].who = session[s].who,
         \A s \in Sessions : session[s].status # "unused" => session'[s].status # "unused"
  PROVE  Known'
<1>1. \A s \in Sessions : session'[s].status = "on" =>
        session'[s].who \in Accounts /\ user'[session'[s].who].status # "unknown"
  BY DEF AccessInv, Known
<1>2. \A t \in Tokens : token'[t].who # None => user'[token'[t].who].status # "unknown"
  <2>1. \A t \in Tokens : token[t].who \in Accounts \cup {None}
    BY DEF AccessInv, AccessTypeOK, Token
  <2>2. QED
    BY <2>1 DEF AccessInv, Known
<1>3. \A r \in Requests : request'[r].pc # "idle" => request'[r].who \in Accounts
  BY DEF AccessInv, Known
<1>4. \A r \in Requests : request'[r].pc \notin {"idle", "upsert"} =>
        user'[request'[r].who].status # "unknown"
  BY DEF AccessInv, Known
<1>5. \A r \in Requests : request'[r].pc \in {"drop", "user", "expel", "touch", "act"} =>
        request'[r].cred \in Sessions /\ session'[request'[r].cred].status # "unused"
  BY DEF AccessInv, Known
<1>6. QED
  BY <1>1, <1>2, <1>3, <1>4, <1>5 DEF Known

\* The pass of p moves; the others only find their copies renumbered, spent by p or
\* taken back.
Alike(c, d) ==
  /\ c.oauth.revoked => d.oauth.revoked
  /\ \/ d.oauth.refresh = c.oauth.refresh
     \/ c.oauth.refresh # "none" /\ d.oauth.refresh = "taken"

Follows(q, s) ==
  /\ s.pc = q.pc /\ s.who = q.who /\ s.why = q.why
  /\ \A a \in Accounts : Alike(q.copy[a], s.copy[a])

PassMoves(p) ==
  /\ pass' \in [Processes -> Pass]
  /\ pass'[p].pc \in {"idle", "next"} <=> pass'[p].who = None
  /\ \A q \in Processes \ {p} : Follows(pass[q], pass'[q])

LEMMA PassGoesMoves ==
  ASSUME AccessInv, NEW p \in Processes, NEW q \in Pass, PassGoes(p, q),
         q.pc \in {"idle", "next"} <=> q.who = None
  PROVE  PassMoves(p) /\ pass'[p] = q
BY DEF PassGoes, PassMoves, Follows, Alike, AccessInv, AccessTypeOK

LEMMA Others ==
  ASSUME AccessInv, NEW p \in Processes, PassMoves(p), NEW q \in Processes, q # p
  PROVE  /\ pass'[q].pc = pass[q].pc /\ pass'[q].who = pass[q].who
         /\ pass'[q].why = pass[q].why
         /\ pass[q].pc \in {"refresh", "disable"} => pass[q].who \in Accounts
         /\ \A a \in Accounts : Alike(pass[q].copy[a], pass'[q].copy[a])
BY DEF PassMoves, Follows, AccessInv, AccessTypeOK, Pass

\* What p has in hand is fit for where it is.
Fit(p) ==
  /\ \A a \in Accounts : pass[p].copy[a].oauth.refresh # "spent"
  /\ pass[p].pc = "refresh" => Held(p).refresh # "none"
  /\ pass[p].pc = "disable" /\ pass[p].why = "refresh"
       => Held(p).revoked \/ Held(p).refresh = "taken"

LEMMA AllFit ==
  ASSUME AccessInv, Undisturbed, NEW p \in Processes
  PROVE  Fit(p)
BY DEF Fit, AccessInv, SpentStored, RefreshTokenKept

LEMMA OthersFit ==
  ASSUME AccessInv, NEW p \in Processes, PassMoves(p), NEW q \in Processes, q # p, Fit(q)
  PROVE  Fit(q)'
<1>1. /\ pass'[q].pc = pass[q].pc /\ pass'[q].who = pass[q].who
      /\ pass'[q].why = pass[q].why
      /\ pass[q].pc \in {"refresh", "disable"} => pass[q].who \in Accounts
      /\ \A a \in Accounts : Alike(pass[q].copy[a], pass'[q].copy[a])
  BY Others
<1>2. \A a \in Accounts : pass'[q].copy[a].oauth.refresh # "spent"
  BY <1>1 DEF Fit, Alike
<1>3. pass'[q].pc = "refresh" => Held(q)'.refresh # "none"
  BY <1>1 DEF Fit, Alike, Held
<1>4. pass'[q].pc = "disable" /\ pass'[q].why = "refresh"
        => Held(q)'.revoked \/ Held(q)'.refresh = "taken"
  BY <1>1 DEF Fit, Alike, Held
<1>5. QED
  BY <1>2, <1>3, <1>4 DEF Fit

\* A pass moves, no user changes their status, and no session ends: whatever it does,
\* it must not have a spent token in hand, or leave a row with one behind.
LEMMA PassKeepsRows ==
  ASSUME AccessAssumption, AccessInv, NEW p \in Processes, PassMoves(p),
         Up(p) \/ pass[p].pc # "idle", pass[p].pc # "expel",
         UNCHANGED <<config, member, request, session, token, ended>>, Counts,
         user' \in [Accounts -> User], \A a \in Accounts : user'[a].status = user[a].status,
         faults' = 0 => Fit(p)',
         faults' = 0 => \A a \in Accounts : user'[a].oauth.refresh = "spent" =>
           \/ user[a].oauth.refresh = "spent" /\ ~Storing(p, a)
           \/ Storing(p, a)'
  PROVE  AccessInv'
<1>1. AccessTypeOK'
  BY Others DEF PassMoves, Counts, AccessInv, AccessTypeOK
<1>2. Stopped' /\ EndedGone'
  BY Others DEF AccessInv, Stopped, EndedGone, Up
<1>3. Known'
  BY KnownKept
<1>4. LateLeaves'
  <2>1. \A q \in Requests : request[q].late = "barred" => request[q].who \in Accounts
    BY DEF AccessInv, LateLeaves, Known
  <2>2. \A q \in Processes, a \in Accounts : Refused(q, a)' = Refused(q, a)
    BY DEF Refused, Foreign
  <2>3. QED
    BY <2>1, <2>2 DEF AccessInv, LateLeaves, AccessAssumption
<1>5. DisableEndsSessions'
  <2>1. ASSUME NEW s \in Sessions, faults' = 0, session[s].status = "on", session[s].outcast
        PROVE  \E q \in Processes : pass'[q].pc = "expel" /\ pass'[q].who = session[s].who
    <3>1. PICK q \in Processes : pass[q].pc = "expel" /\ pass[q].who = session[s].who
      BY <2>1 DEF Counts, AccessInv, DisableEndsSessions, Undisturbed
    <3>2. QED
      BY <3>1, Others
  <2>2. QED
    BY <2>1 DEF DisableEndsSessions, Undisturbed
<1>6. ASSUME faults' = 0, NEW q \in Processes PROVE Fit(q)'
  BY <1>6, AllFit, OthersFit DEF Counts, Undisturbed
<1>7. ASSUME faults' = 0, NEW a \in Accounts, user'[a].oauth.refresh = "spent"
      PROVE  \E q \in Processes : Storing(q, a)'
  <2>1. CASE Storing(p, a)'
    BY <2>1
  <2>2. CASE user[a].oauth.refresh = "spent" /\ ~Storing(p, a)
    <3>1. PICK q \in Processes : Storing(q, a)
      BY <1>7, <2>2 DEF Counts, AccessInv, SpentStored, Undisturbed
    <3>2. pass'[q].pc = pass[q].pc /\ pass'[q].who = pass[q].who
      BY <2>2, <3>1, Others
    <3>3. QED
      BY <3>1, <3>2 DEF Storing
  <2>3. QED
    BY <1>7, <2>1, <2>2
<1>8. SpentStored'
  BY <1>6, <1>7 DEF AccessInv, SpentStored, Undisturbed, Fit
<1>9. RefreshTokenKept'
  BY <1>6 DEF RefreshTokenKept, Undisturbed, Fit
<1>10. QED
  BY <1>1, <1>2, <1>3, <1>4, <1>5, <1>8, <1>9 DEF AccessInv

\* A pass goes on to its next user.
LEMMA ProceedFits ==
  ASSUME AccessAssumption, AccessInv, NEW p \in Processes, PassGoes(p, Proceed(pass[p]))
  PROVE  /\ PassMoves(p) /\ (Undisturbed => Fit(p)')
         /\ pass'[p].pc = "next" /\ pass'[p].who = None
<1>1. pass[p] \in Pass
  BY DEF AccessInv, AccessTypeOK
<1>2. /\ Proceed(pass[p]) \in Pass
      /\ Proceed(pass[p]).pc = "next" /\ Proceed(pass[p]).who = None
      /\ \A a \in Accounts : Proceed(pass[p]).copy[a] \in {pass[p].copy[a], NoCopy}
  BY <1>1, ProceedFacts
<1>3. PassMoves(p) /\ pass'[p] = Proceed(pass[p])
  BY <1>2, PassGoesMoves
<1>4. Undisturbed => \A a \in Accounts : pass'[p].copy[a].oauth.refresh # "spent"
  BY <1>2, <1>3, AllFit DEF Fit, NoCopy, NoOAuth, Answer
<1>5. QED
  BY <1>2, <1>3, <1>4 DEF Fit

\* A row ages.
LEMMA RowKeeps ==
  ASSUME AccessAssumption, AccessInv,
         UNCHANGED <<config, faults, member, session, token, request, pass, ended>>,
         user' \in [Accounts -> User],
         \A a \in Accounts : user'[a].status = user[a].status
                             /\ user'[a].oauth.refresh = user[a].oauth.refresh
  PROVE  AccessInv'
<1>1. AccessTypeOK' /\ Stopped' /\ EndedGone'
  BY DEF AccessInv, AccessTypeOK, Stopped, EndedGone, Up
<1>2. Known'
  BY KnownKept
<1>3. LateLeaves'
  <2>1. \A q \in Processes, a \in Accounts : Refused(q, a)' = Refused(q, a)
    BY DEF Refused, Foreign
  <2>2. \A q \in Requests : request[q].late = "barred" => request[q].who \in Accounts
    BY DEF AccessInv, LateLeaves, Known
  <2>3. QED
    BY <2>1, <2>2 DEF AccessInv, LateLeaves, AccessAssumption
<1>4. DisableEndsSessions' /\ RefreshTokenKept'
  BY DEF AccessInv, DisableEndsSessions, RefreshTokenKept, Undisturbed, Held
<1>5. SpentStored'
  BY DEF AccessInv, SpentStored, Undisturbed, Held, Storing
<1>6. QED
  BY <1>1, <1>2, <1>3, <1>4, <1>5 DEF AccessInv

\* A pass ends sessions, and goes on or is over.
LEMMA PassEndsSessions ==
  ASSUME AccessAssumption, AccessInv, NEW p \in Processes, PassMoves(p),
         pass[p].pc \notin {"idle", "store"},
         UNCHANGED <<config, member, request, token, user>>, Counts, Shrunk,
         pass'[p].pc \in {"idle", "next"}, faults' = 0 => Fit(p)',
         \A s \in Sessions : faults' = 0 /\ session'[s].status = "on" /\ session'[s].outcast
           => ~(pass[p].pc = "expel" /\ pass[p].who = session'[s].who)
  PROVE  AccessInv'
<1>1. AccessTypeOK'
  <2>1. \A s \in Sessions : session'[s].status = "on" => session'[s].who # None
    BY EndKeepsRows DEF AccessAssumption
  <2>2. \A q \in Processes : pass'[q].pc \in {"idle", "next"} <=> pass'[q].who = None
    BY Others DEF PassMoves, AccessInv, AccessTypeOK
  <2>3. QED
    BY <2>1, <2>2 DEF PassMoves, Counts, Shrunk, AccessInv, AccessTypeOK
<1>2. Stopped' /\ EndedGone'
  BY EndKeepsRows, Others DEF AccessInv, Stopped, Up
<1>3. Known'
  <2>1. /\ \A s \in Sessions : session'[s].status = "on" =>
             session[s].status = "on" /\ session'[s].who = session[s].who
        /\ \A s \in Sessions : session[s].status # "unused" => session'[s].status # "unused"
    BY EndKeepsRows
  <2>2. QED
    BY <2>1, KnownKept
<1>4. LateLeaves'
  BY DEF AccessInv, LateLeaves, Refused, Foreign
<1>5. DisableEndsSessions'
  <2>1. ASSUME NEW s \in Sessions, faults' = 0, session'[s].status = "on", session'[s].outcast
        PROVE  \E q \in Processes : pass'[q].pc = "expel" /\ pass'[q].who = session'[s].who
    <3>1. session'[s] = session[s]
      BY <2>1, EndKeepsRows
    <3>2. PICK q \in Processes : pass[q].pc = "expel" /\ pass[q].who = session[s].who
      BY <2>1, <3>1 DEF Counts, AccessInv, DisableEndsSessions, Undisturbed
    <3>3. q # p
      BY <2>1, <3>1, <3>2
    <3>4. QED
      BY <3>1, <3>2, <3>3, Others
  <2>2. QED
    BY <2>1 DEF DisableEndsSessions, Undisturbed
<1>6. ASSUME faults' = 0, NEW q \in Processes PROVE Fit(q)'
  BY <1>6, AllFit, OthersFit DEF Counts, Undisturbed
<1>7. ASSUME faults' = 0, NEW a \in Accounts, user'[a].oauth.refresh = "spent"
      PROVE  \E q \in Processes : Storing(q, a)'
  <2>1. PICK q \in Processes : Storing(q, a)
    BY <1>7 DEF Counts, AccessInv, SpentStored, Undisturbed
  <2>2. q # p
    BY <2>1 DEF Storing
  <2>3. QED
    BY <2>1, <2>2, Others DEF Storing
<1>8. SpentStored'
  BY <1>6, <1>7 DEF AccessInv, SpentStored, Undisturbed, Fit
<1>9. RefreshTokenKept'
  BY <1>6 DEF RefreshTokenKept, Undisturbed, Fit
<1>10. QED
  BY <1>1, <1>2, <1>3, <1>4, <1>5, <1>8, <1>9 DEF AccessInv

\* Renumbering touches nothing but numbers, and using up a token nothing but its state.
LEMMA RenumberedFacts ==
  ASSUME NEW q \in Pass, NEW a \in Accounts,
         NEW m \in Grants \cup {0}, NEW n \in Grants \cup {0}
  PROVE  /\ Renumbered(q, a, m, n) \in Pass
         /\ Renumbered(q, a, m, n).pc = q.pc /\ Renumbered(q, a, m, n).who = q.who
         /\ Renumbered(q, a, m, n).why = q.why
         /\ \A b \in Accounts : Renumbered(q, a, m, n).copy[b].oauth = q.copy[b].oauth
<1> DEFINE g == IF q.copy[a].grant = m THEN n ELSE m
           c == [q.copy[a] EXCEPT !.grant = g]
           f == [q.copy EXCEPT ![a] = c]
<1>1. q.copy \in [Accounts -> Copy] /\ q.copy[a] \in Copy
  BY DEF Pass
<1>2. c \in Copy /\ c.oauth = q.copy[a].oauth
  BY <1>1 DEF Copy
<1>3. \/ Renumbered(q, a, m, n) = q
      \/ Renumbered(q, a, m, n) = [q EXCEPT !.copy = f]
  BY <1>1 DEF Renumbered
<1> HIDE DEF c
<1>4. f \in [Accounts -> Copy] /\ \A b \in Accounts : f[b].oauth = q.copy[b].oauth
  BY <1>1, <1>2
<1> HIDE DEF f
<1>5. QED
  BY <1>3, <1>4 DEF Pass

LEMMA TakenFacts ==
  ASSUME NEW c \in Copy, NEW n
  PROVE  Taken(c, n) \in Copy /\ Alike(c, Taken(c, n))
<1> DEFINE d == [c.oauth EXCEPT !.refresh = "taken"]
<1>1. c.oauth \in Credential
  BY DEF Copy
<1>2. d \in Credential /\ d.refresh = "taken" /\ d.revoked = c.oauth.revoked
  BY <1>1 DEF Credential
<1>3. \/ Taken(c, n) = c
      \/ c.oauth.refresh # "none" /\ Taken(c, n) = [c EXCEPT !.oauth = d]
  BY DEF Taken
<1> HIDE DEF d
<1>4. [c EXCEPT !.oauth = d] \in Copy /\ [c EXCEPT !.oauth = d].oauth = d
  BY <1>2 DEF Copy
<1>5. QED
  BY <1>1, <1>2, <1>3, <1>4 DEF Alike

LEMMA SpendFacts ==
  ASSUME AccessInv, NEW p \in Processes, pass[p].who \in Accounts,
         NEW next \in Pass, next.pc \in {"idle", "next"} <=> next.who = None, Spend(p, next)
  PROVE  /\ PassMoves(p) /\ pass'[p] = next
         /\ user' \in [Accounts -> User]
         /\ \A a \in Accounts : user'[a].status = user[a].status
         /\ \A a \in Accounts \ {pass[p].who} : user'[a] = user[a]
<1> DEFINE w == pass[p].who
<1>1. \A q \in Processes : pass[q] \in Pass /\ pass[q].copy \in [Accounts -> Copy]
  BY DEF AccessInv, AccessTypeOK, Pass
<1>2. ASSUME NEW q \in Processes
      PROVE  /\ [pass[q] EXCEPT !.copy[w] = Taken(@, Number(p))] \in Pass
             /\ Follows(pass[q], [pass[q] EXCEPT !.copy[w] = Taken(@, Number(p))])
  <2> DEFINE t == Taken(pass[q].copy[w], Number(p))
             f == [pass[q].copy EXCEPT ![w] = t]
  <2>1. t \in Copy /\ Alike(pass[q].copy[w], t)
    BY <1>1, <1>2, TakenFacts
  <2>2. [pass[q] EXCEPT !.copy[w] = Taken(@, Number(p))] = [pass[q] EXCEPT !.copy = f]
    BY <1>1, <1>2 DEF Pass
  <2> HIDE DEF t
  <2>3. f \in [Accounts -> Copy] /\ \A a \in Accounts : Alike(pass[q].copy[a], f[a])
    BY <1>1, <1>2, <2>1 DEF Alike
  <2> HIDE DEF f
  <2>4. QED
    BY <1>1, <1>2, <2>2, <2>3 DEF Pass, Follows
<1>3. /\ pass' = [q \in Processes |->
           IF q = p THEN next ELSE [pass[q] EXCEPT !.copy[w] = Taken(@, Number(p))]]
      /\ user' = RowSpent(p)
  BY DEF Spend
<1>4. PassMoves(p) /\ pass'[p] = next
  BY <1>2, <1>3 DEF PassMoves
<1> DEFINE row == user[w]
           spent == [row EXCEPT !.oauth = [row.oauth EXCEPT !.refresh = "spent"]]
<1>5. user \in [Accounts -> User] /\ row \in User
  BY DEF AccessInv, AccessTypeOK
<1>6. spent \in User /\ spent.status = row.status
  BY <1>5 DEF User, Credential
<1>7. RowSpent(p) = user \/ RowSpent(p) = [user EXCEPT ![w] = spent]
  BY <1>5 DEF RowSpent
<1> HIDE DEF spent, row
<1>8. QED
  BY <1>3, <1>4, <1>5, <1>6, <1>7 DEF row

-------------------------------------------------------------------------------
(* One lemma per action.                                                     *)

LEMMA BeginSessionKeeps ==
  ASSUME AccessAssumption, AccessInv, NEW r \in Requests, NEW s \in Sessions, BeginSession(r, s)
  PROVE  AccessInv'
<1> DEFINE who == session[s].who
           q == [pc |-> IF session[s].expired THEN "drop" ELSE "user", cred |-> s,
                 who |-> who, oauth |-> NoOAuth,
                 late |-> IF s \in ended \/ session[s].expired THEN "ended"
                          ELSE IF Barred(ServerOf[r], who) THEN "barred" ELSE "no"]
<1>1. /\ who \in Accounts /\ user[who] \in User /\ user[who].status # "unknown"
      /\ session[s].status = "on" /\ s \notin ended
  BY DEF BeginSession, AccessInv, AccessTypeOK, Known, EndedGone
<1>2. Barred(ServerOf[r], who) => Refused(ServerOf[r], who)
  BY <1>1 DEF Barred, Refused, User
<1>3. q \in Request /\ q.oauth.refresh # "spent"
  BY <1>1 DEF Request, NoOAuth, Answer, Credential
<1>4. /\ Become(r, q) /\ Up(ServerOf[r])
      /\ UNCHANGED <<config, faults, member, user, session, token, pass, ended>>
  BY DEF BeginSession, RequestOnly, tables
<1>5. /\ q.late = "ended" => q.pc = "drop"
      /\ q.late = "barred" => q.pc \in {"user", "token"} /\ Refused(ServerOf[r], q.who)
  BY <1>1, <1>2
<1>6. q.who = who /\ q.cred = s /\ q.pc # "upsert"
  OBVIOUS
<1> HIDE DEF q, who
<1>7. QED
  BY <1>1, <1>3, <1>4, <1>5, <1>6, RequestMoves

LEMMA DropSessionKeeps ==
  ASSUME AccessAssumption, AccessInv, NEW r \in Requests, DropSession(r)
  PROVE  AccessInv'
<1>1. request[r].cred \in Sessions /\ session[request[r].cred].status # "unused"
  BY DEF DropSession, AccessInv, Known
<1>2. CASE session' = WithoutSession(request[r].cred) /\ End({request[r].cred}) /\ UNCHANGED faults
  <2>1. Shrunk
    BY <1>1, <1>2, OneSessionEnds
  <2>2. Counts
    BY <1>2, FaultCounts DEF AccessInv
  <2>3. QED
    BY <2>1, <2>2, RequestEndsSessions DEF DropSession
<1>3. CASE Fault /\ UNCHANGED <<session, ended>>
  <2>1. Counts
    BY <1>3, FaultCounts DEF AccessInv
  <2>2. QED
    BY <1>3, <2>1, RequestEndsNothing DEF DropSession
<1>4. QED
  BY <1>2, <1>3 DEF DropSession

LEMMA CheckUserKeeps ==
  ASSUME AccessAssumption, AccessInv, NEW r \in Requests, CheckUser(r)
  PROVE  AccessInv'
<1>1. AccessTypeOK'
  <2>1. request[r] \in Request /\ request \in [Requests -> Request]
    BY DEF AccessInv, AccessTypeOK
  <2>2. PICK next \in {"expel", "touch", "act"} :
          request' = [request EXCEPT ![r] = [request[r] EXCEPT !.pc = next]]
    BY DEF CheckUser, Become
  <2>3. [request[r] EXCEPT !.pc = next] \in Request
    BY <2>1 DEF Request
  <2>4. request' \in [Requests -> Request]
    BY <2>1, <2>2, <2>3
  <2>5. UNCHANGED <<config, member, pass, faults, user, session, token, ended>>
    BY DEF CheckUser, RequestOnly, tables
  <2>6. QED
    BY <2>4, <2>5 DEF AccessInv, AccessTypeOK
<1>2. Stopped'
  BY DEF CheckUser, Leave, Become, RequestOnly, tables, AccessInv, Stopped, AccessTypeOK, Up,
         NoRequest
<1>3. Known'
  BY DEF CheckUser, Leave, Become, RequestOnly, tables, AccessInv, Known, AccessTypeOK,
         NoRequest
<1>4. EndedGone'
  BY DEF CheckUser, Leave, Become, RequestOnly, tables, AccessInv, EndedGone, AccessTypeOK
<1>5. LateLeaves'
  BY DEF CheckUser, Leave, Become, RequestOnly, tables, AccessInv, LateLeaves, Refused,
         Foreign, AccessTypeOK, NoRequest
<1>6. DisableEndsSessions'
  BY DEF CheckUser, Leave, Become, RequestOnly, tables, AccessInv, DisableEndsSessions,
         Undisturbed, AccessTypeOK
<1>7. SpentStored'
  BY DEF CheckUser, Leave, Become, RequestOnly, tables, AccessInv, SpentStored, Storing, Undisturbed,
         Held, AccessTypeOK, NoRequest, NoOAuth, Answer
<1>8. RefreshTokenKept'
  BY DEF CheckUser, Leave, Become, RequestOnly, tables, AccessInv, RefreshTokenKept,
         SpentStored, Storing, Undisturbed, Held, AccessTypeOK
<1>9. QED
  BY <1>1, <1>2, <1>3, <1>4, <1>5, <1>6, <1>7, <1>8 DEF AccessInv

LEMMA ExpelUserKeeps ==
  ASSUME AccessAssumption, AccessInv, NEW r \in Requests, ExpelUser(r)
  PROVE  AccessInv'
<1>1. request[r].who \in Accounts
  BY DEF ExpelUser, AccessInv, Known
<1>2. CASE /\ session' = WithoutSessions(request[r].who)
           /\ End({s \in Sessions : Live(s, request[r].who)})
           /\ UNCHANGED faults
  <2>1. Shrunk
    BY <1>1, <1>2, AllSessionsEnd
  <2>2. Counts
    BY <1>2, FaultCounts DEF AccessInv
  <2>3. QED
    BY <2>1, <2>2, RequestEndsSessions DEF ExpelUser
<1>3. CASE Fault /\ UNCHANGED <<session, ended>>
  <2>1. Counts
    BY <1>3, FaultCounts DEF AccessInv
  <2>2. QED
    BY <1>3, <2>1, RequestEndsNothing DEF ExpelUser
<1>4. QED
  BY <1>2, <1>3 DEF ExpelUser

LEMMA TouchSessionKeeps ==
  ASSUME AccessAssumption, AccessInv, NEW r \in Requests, TouchSession(r)
  PROVE  AccessInv'
<1> DEFINE s == request[r].cred
<1>1. s \in Sessions /\ request[r] \in Request /\ session \in [Sessions -> Session]
  BY DEF TouchSession, AccessInv, AccessTypeOK, Known
<1>2. /\ session' \in [Sessions -> Session]
      /\ \A q \in Sessions : /\ session'[q].status = session[q].status
                             /\ session'[q].who = session[q].who
                             /\ session'[q].outcast = session[q].outcast
  <2>1. /\ Touched(session[s]) \in Session /\ Touched(session[s]).status = session[s].status
        /\ Touched(session[s]).who = session[s].who
        /\ Touched(session[s]).outcast = session[s].outcast
    BY <1>1, TouchedFacts
  <2>2. session' = session \/ session' = [session EXCEPT ![s] = Touched(session[s])]
    BY DEF TouchSession
  <2>3. QED
    BY <1>1, <2>1, <2>2
<1>3. /\ Counts /\ UNCHANGED <<config, member, pass, user, token, ended>>
      /\ request[r].pc = "touch"
      /\ request' = [request EXCEPT ![r] = [request[r] EXCEPT !.pc = "act"]]
  BY FaultCounts DEF TouchSession, Become, RequestOnly, AccessInv
<1>4. request' \in [Requests -> Request]
  BY <1>1, <1>3 DEF Request, AccessInv, AccessTypeOK
<1>5. AccessTypeOK'
  BY <1>2, <1>3, <1>4 DEF Counts, AccessInv, AccessTypeOK
<1>6. Stopped' /\ EndedGone'
  BY <1>2, <1>3 DEF AccessInv, AccessTypeOK, Stopped, Up, EndedGone
<1>7. Known'
  <2>1. /\ request'[r].pc = "act" /\ request'[r].who = request[r].who
        /\ request'[r].cred = request[r].cred
        /\ \A q \in Requests \ {r} : request'[q] = request[q]
    BY <1>1, <1>3 DEF Request, AccessInv, AccessTypeOK
  <2>2. \A q \in Sessions : /\ session'[q].status = session[q].status
                             /\ session'[q].who = session[q].who
    BY <1>2
  <2>3. QED
    BY <1>1, <1>3, <2>1, <2>2 DEF AccessInv, Known
<1>8. LateLeaves'
  BY <1>1, <1>3 DEF Request, AccessInv, AccessTypeOK, LateLeaves, Refused, Foreign
<1>9. DisableEndsSessions'
  BY <1>2, <1>3 DEF Counts, AccessInv, DisableEndsSessions, Undisturbed
<1>10. SpentStored'
  BY <1>1, <1>3 DEF Request, Counts, AccessInv, AccessTypeOK, SpentStored, Storing, Undisturbed, Held
<1>11. RefreshTokenKept'
  BY <1>3 DEF Counts, AccessInv, RefreshTokenKept, Undisturbed, Held
<1>12. QED
  BY <1>5, <1>6, <1>7, <1>8, <1>9, <1>10, <1>11 DEF AccessInv

LEMMA ServePageKeeps ==
  ASSUME AccessAssumption, AccessInv, NEW r \in Requests, ServePage(r)
  PROVE  AccessInv'
<1>1. Counts
  BY FaultCounts DEF ServePage, tables, AccessInv
<1>2. QED
  BY <1>1, RequestEndsNothing DEF ServePage, tables

LEMMA LogoutKeeps ==
  ASSUME AccessAssumption, AccessInv, NEW r \in Requests, Logout(r)
  PROVE  AccessInv'
<1>1. request[r].cred \in Sessions /\ session[request[r].cred].status # "unused"
  BY DEF Logout, AccessInv, Known
<1>2. CASE session' = WithoutSession(request[r].cred) /\ End({request[r].cred}) /\ UNCHANGED faults
  <2>1. Shrunk
    BY <1>1, <1>2, OneSessionEnds
  <2>2. Counts
    BY <1>2, FaultCounts DEF AccessInv
  <2>3. QED
    BY <2>1, <2>2, RequestEndsSessions DEF Logout
<1>3. CASE Fault /\ UNCHANGED <<session, ended>>
  <2>1. Counts
    BY <1>3, FaultCounts DEF AccessInv
  <2>2. QED
    BY <1>3, <2>1, RequestEndsNothing DEF Logout
<1>4. QED
  BY <1>2, <1>3 DEF Logout

LEMMA DeleteSessionKeeps ==
  ASSUME AccessAssumption, AccessInv, NEW r \in Requests, NEW s \in Sessions, DeleteSession(r, s)
  PROVE  AccessInv'
<1>1. Counts
  BY FaultCounts DEF DeleteSession, AccessInv
<1>2. CASE Live(s, request[r].who)
  <2>1. Shrunk
    BY <1>2, OneSessionEnds DEF DeleteSession, Live
  <2>2. QED
    BY <1>1, <2>1, RequestEndsSessions DEF DeleteSession
<1>3. CASE ~Live(s, request[r].who)
  BY <1>1, <1>3, RequestEndsNothing DEF DeleteSession
<1>4. QED
  BY <1>2, <1>3

LEMMA DeleteAllSessionsKeeps ==
  ASSUME AccessAssumption, AccessInv, NEW r \in Requests, DeleteAllSessions(r)
  PROVE  AccessInv'
<1>1. Counts
  BY FaultCounts DEF DeleteAllSessions, AccessInv
<1>2. Shrunk
  BY AllSessionsEnd DEF DeleteAllSessions, AccessInv, Known
<1>3. QED
  BY <1>1, <1>2, RequestEndsSessions DEF DeleteAllSessions

LEMMA CreateTokenKeeps ==
  ASSUME AccessAssumption, AccessInv, NEW r \in Requests, NEW t \in Tokens, CreateToken(r, t)
  PROVE  AccessInv'
<1>1. AccessTypeOK'
  BY DEF CreateToken, Leave, Become, RequestOnly, tables, AccessInv, AccessTypeOK, Request,
         NoRequest, NoOAuth, Answer, Credential, Token, NoToken, AccessAssumption
<1>2. Stopped'
  BY DEF CreateToken, Leave, Become, RequestOnly, tables, AccessInv, Stopped, AccessTypeOK,
         Up, NoRequest
<1>3. Known'
  BY DEF CreateToken, Leave, Become, RequestOnly, tables, AccessInv, Known, AccessTypeOK,
         NoRequest, NoToken
<1>4. EndedGone'
  BY DEF CreateToken, Leave, Become, RequestOnly, tables, AccessInv, EndedGone, AccessTypeOK
<1>5. LateLeaves'
  BY DEF CreateToken, Leave, Become, RequestOnly, tables, AccessInv, LateLeaves, Refused,
         Foreign, AccessTypeOK, NoRequest
<1>6. DisableEndsSessions'
  BY DEF CreateToken, Leave, Become, RequestOnly, tables, AccessInv, DisableEndsSessions,
         Undisturbed, AccessTypeOK
<1>7. SpentStored'
  BY DEF CreateToken, Leave, Become, RequestOnly, tables, AccessInv, SpentStored, Storing, Undisturbed,
         Held, AccessTypeOK, NoRequest, NoOAuth, Answer
<1>8. RefreshTokenKept'
  BY DEF CreateToken, Leave, Become, RequestOnly, tables, AccessInv, RefreshTokenKept,
         SpentStored, Storing, Undisturbed, Held, AccessTypeOK
<1>9. QED
  BY <1>1, <1>2, <1>3, <1>4, <1>5, <1>6, <1>7, <1>8 DEF AccessInv

LEMMA DeleteTokenKeeps ==
  ASSUME AccessAssumption, AccessInv, NEW r \in Requests, NEW t \in Tokens, DeleteToken(r, t)
  PROVE  AccessInv'
<1>1. AccessTypeOK'
  BY DEF DeleteToken, NoToken, Leave, Become, RequestOnly, tables, AccessInv, AccessTypeOK,
         Request, NoRequest, NoOAuth, Answer, Credential, Token, AccessAssumption
<1>2. Stopped'
  BY DEF DeleteToken, NoToken, Leave, Become, RequestOnly, tables, AccessInv, Stopped,
         AccessTypeOK, Up, NoRequest
<1>3. Known'
  BY DEF DeleteToken, NoToken, Leave, Become, RequestOnly, tables, AccessInv, Known,
         AccessTypeOK, NoRequest
<1>4. EndedGone'
  BY DEF DeleteToken, NoToken, Leave, Become, RequestOnly, tables, AccessInv, EndedGone,
         AccessTypeOK
<1>5. LateLeaves'
  BY DEF DeleteToken, NoToken, Leave, Become, RequestOnly, tables, AccessInv, LateLeaves,
         Refused, Foreign, AccessTypeOK, NoRequest
<1>6. DisableEndsSessions'
  BY DEF DeleteToken, NoToken, Leave, Become, RequestOnly, tables, AccessInv,
         DisableEndsSessions, Undisturbed, AccessTypeOK
<1>7. SpentStored'
  BY DEF DeleteToken, NoToken, Leave, Become, RequestOnly, tables, AccessInv, SpentStored,
         Storing, Undisturbed, Held, AccessTypeOK, NoRequest, NoOAuth, Answer
<1>8. RefreshTokenKept'
  BY DEF DeleteToken, NoToken, Leave, Become, RequestOnly, tables, AccessInv,
         RefreshTokenKept, SpentStored, Storing, Undisturbed, Held, AccessTypeOK
<1>9. QED
  BY <1>1, <1>2, <1>3, <1>4, <1>5, <1>6, <1>7, <1>8 DEF AccessInv

LEMMA BeginTokenKeeps ==
  ASSUME AccessAssumption, AccessInv, NEW r \in Requests, NEW t \in Tokens, BeginToken(r, t)
  PROVE  AccessInv'
<1> DEFINE who == token[t].who
           q == [pc |-> "token", cred |-> t, who |-> who, oauth |-> NoOAuth,
                 late |-> IF Barred(ServerOf[r], who) THEN "barred" ELSE "no"]
<1>1. who \in Accounts /\ user[who] \in User /\ user[who].status # "unknown"
  <2>1. who \in Accounts \cup {None} /\ who # None
    BY DEF BeginToken, AccessInv, AccessTypeOK, Token
  <2>2. QED
    BY <2>1 DEF AccessInv, AccessTypeOK, Known
<1>2. Barred(ServerOf[r], who) => Refused(ServerOf[r], who)
  BY <1>1 DEF Barred, Refused, User
<1>3. q \in Request /\ q.oauth.refresh # "spent"
  BY <1>1 DEF Request, NoOAuth, Answer, Credential
<1>4. /\ Become(r, q) /\ Up(ServerOf[r])
      /\ UNCHANGED <<config, faults, member, user, session, token, pass, ended>>
  BY DEF BeginToken, RequestOnly, tables
<1>5. /\ q.late # "ended" /\ q.pc = "token" /\ q.who = who
      /\ q.late = "barred" => Refused(ServerOf[r], q.who)
  BY <1>2
<1> HIDE DEF q, who
<1>6. QED
  BY <1>1, <1>3, <1>4, <1>5, RequestMoves

LEMMA CheckTokenUserKeeps ==
  ASSUME AccessAssumption, AccessInv, NEW r \in Requests, CheckTokenUser(r)
  PROVE  AccessInv'
<1>1. CASE Refused(ServerOf[r], request[r].who)
  <2>1. Counts
    BY FaultCounts DEF CheckTokenUser, tables, AccessInv
  <2>2. QED
    BY <1>1, <2>1, RequestEndsNothing DEF CheckTokenUser, tables
<1>2. CASE ~Refused(ServerOf[r], request[r].who)
  <2> DEFINE q == [request[r] EXCEPT !.pc = "serve"]
  <2>1. request[r] \in Request /\ request[r].pc = "token"
    BY DEF CheckTokenUser, AccessInv, AccessTypeOK
  <2>2. /\ request[r].who \in Accounts /\ user[request[r].who].status # "unknown"
        /\ request[r].late = "no" /\ request[r].oauth.refresh # "spent"
    BY <1>2, <2>1 DEF AccessInv, Known, LateLeaves, SpentStored, Request
  <2>3. /\ q \in Request /\ q.pc = "serve" /\ q.who = request[r].who /\ q.late = "no"
        /\ q.oauth = request[r].oauth
    BY <2>1, <2>2 DEF Request
  <2>4. /\ Become(r, q) /\ Up(ServerOf[r])
        /\ UNCHANGED <<config, faults, member, user, session, token, pass, ended>>
    BY <1>2, <2>1 DEF CheckTokenUser, RequestOnly, tables, AccessInv, Stopped, Up
  <2> HIDE DEF q
  <2>5. QED
    BY <2>2, <2>3, <2>4, RequestMoves
<1>3. QED
  BY <1>1, <1>2

LEMMA BeginLoginKeeps ==
  ASSUME AccessAssumption, AccessInv, NEW r \in Requests, NEW a \in Accounts, NEW issued \in Issued, BeginLogin(r, a, issued)
  PROVE  AccessInv'
<1> DEFINE q == [NoRequest EXCEPT !.pc = "upsert", !.who = a, !.oauth = issued]
<1>1. issued \in Credential /\ issued.refresh # "spent"
  <2>1. issued \in Answers
    BY DEF AccessAssumption
  <2>2. \A x \in {"lasting", "young"}, y \in {"none", "good"} :
          Answer(x, y) \in Credential /\ Answer(x, y).refresh # "spent"
    BY DEF Answer, Credential
  <2>3. QED
    BY <2>1, <2>2 DEF Answers
<1>2. /\ q \in Request /\ q.pc = "upsert" /\ q.who = a /\ q.oauth = issued
      /\ q.late = "no"
  BY <1>1 DEF NoRequest, Request, NoOAuth, Answer, Credential
<1>3. /\ Become(r, q) /\ Up(ServerOf[r])
      /\ UNCHANGED <<config, faults, member, user, session, token, pass, ended>>
  BY DEF BeginLogin, RequestOnly, tables
<1> HIDE DEF q
<1>4. QED
  BY <1>1, <1>2, <1>3, RequestMoves

LEMMA UpsertUserKeeps ==
  ASSUME AccessAssumption, AccessInv, NEW r \in Requests, UpsertUser(r)
  PROVE  AccessInv'
<1> DEFINE a == request[r].who
           new == request[r].oauth
           row == [status |-> "active", checked |-> TRUE, oauth |-> Renewed(user[a].oauth, new)]
<1>1. /\ request[r].pc = "upsert" /\ user \in [Accounts -> User] /\ a \in Accounts
      /\ request \in [Requests -> Request] /\ pass \in [Processes -> Pass]
      /\ new \in Credential /\ new.refresh # "spent"
      /\ UNCHANGED <<config, faults, member, session, token, ended>>
  BY DEF UpsertUser, AccessInv, AccessTypeOK, Known, SpentStored, Request
<1>2. /\ Renewed(user[a].oauth, new) \in Credential
      /\ Renewed(user[a].oauth, new).refresh \in {new.refresh, user[a].oauth.refresh}
      /\ new.refresh # "none" => Renewed(user[a].oauth, new).refresh = new.refresh
  BY <1>1 DEF Renewed, User, Credential
<1>3. /\ user' = [user EXCEPT ![a] = row] /\ row \in User
      /\ user' \in [Accounts -> User] /\ user'[a].status = "active"
      /\ user'[a].oauth = Renewed(user[a].oauth, new)
      /\ \A b \in Accounts \ {a} : user'[b] = user[b]
  BY <1>1, <1>2 DEF UpsertUser, User
<1>4. /\ request' \in [Requests -> Request]
      /\ request'[r].pc = "create" /\ request'[r].who = a /\ request'[r].late = "no"
      /\ request'[r].oauth.refresh # "spent"
      /\ \A q \in Requests \ {r} :
           /\ request'[q].pc = request[q].pc /\ request'[q].who = request[q].who
           /\ request'[q].cred = request[q].cred /\ request'[q].oauth = request[q].oauth
           /\ request'[q].late = request[q].late \/ request'[q].late = "no"
           /\ request'[q].late = "barred" => request[q].who # a
  <2>1. /\ [NoRequest EXCEPT !.pc = "create", !.who = a] \in Request
        /\ \A q \in Requests : [request[q] EXCEPT !.late = "no"] \in Request
    <3>1. NoOAuth \in Credential
      BY DEF NoOAuth, Answer, Credential
    <3>2. [NoRequest EXCEPT !.pc = "create", !.who = a] \in Request
      BY <1>1, <3>1 DEF NoRequest, Request
    <3>3. ASSUME NEW q \in Requests
          PROVE  [request[q] EXCEPT !.late = "no"] \in Request
      BY <1>1 DEF Request
    <3>4. QED
      BY <3>2, <3>3
  <2>2. request' = [q \in Requests |->
             IF q = r THEN [NoRequest EXCEPT !.pc = "create", !.who = a]
             ELSE IF request[q].who = a /\ request[q].late = "barred"
                  THEN [request[q] EXCEPT !.late = "no"]
                  ELSE request[q]]
    BY DEF UpsertUser
  <2>3. request' \in [Requests -> Request]
    BY <1>1, <2>1, <2>2
  <2>4. /\ request'[r].pc = "create" /\ request'[r].who = a /\ request'[r].late = "no"
        /\ request'[r].oauth.refresh # "spent"
    BY <2>2 DEF NoRequest, NoOAuth, Answer
  <2>5. ASSUME NEW q \in Requests \ {r}
        PROVE  /\ request'[q].pc = request[q].pc /\ request'[q].who = request[q].who
               /\ request'[q].cred = request[q].cred /\ request'[q].oauth = request[q].oauth
               /\ request'[q].late = request[q].late \/ request'[q].late = "no"
               /\ request'[q].late = "barred" => request[q].who # a
    BY <1>1, <2>2 DEF Request
  <2>6. QED
    BY <2>3, <2>4, <2>5
<1>5. /\ pass' \in [Processes -> Pass]
      /\ \A p \in Processes :
           /\ pass'[p].pc = pass[p].pc /\ pass'[p].who = pass[p].who /\ pass'[p].why = pass[p].why
           /\ \A b \in Accounts : pass'[p].copy[b].oauth = pass[p].copy[b].oauth
  <2>1. CASE UNCHANGED pass
    BY <1>1, <2>1
  <2>2. CASE ~UNCHANGED pass
    <3>1. PICK n \in Grants : pass' = [p \in Processes |-> Renumbered(pass[p], a, n, 0)]
      BY <2>2 DEF UpsertUser
    <3> HIDE DEF a
    <3>2. ASSUME NEW p \in Processes
          PROVE  /\ pass'[p] \in Pass /\ pass'[p].pc = pass[p].pc /\ pass'[p].who = pass[p].who
                 /\ pass'[p].why = pass[p].why
                 /\ \A b \in Accounts : pass'[p].copy[b].oauth = pass[p].copy[b].oauth
      BY <1>1, <3>1, RenumberedFacts
    <3>3. pass' = [p \in Processes |-> pass'[p]]
      BY <3>1
    <3>4. QED
      BY <3>2, <3>3
  <2>3. QED
    BY <2>1, <2>2
<1> HIDE DEF a, new, row
<1>6. AccessTypeOK'
  <2>1. \A p \in Processes : pass'[p].pc \in {"idle", "next"} <=> pass'[p].who = None
    BY <1>5 DEF AccessInv, AccessTypeOK
  <2>2. QED
    BY <1>1, <1>3, <1>4, <1>5, <2>1 DEF AccessInv, AccessTypeOK
<1>7. Stopped' /\ EndedGone' /\ DisableEndsSessions'
  <2>1. Stopped'
    BY <1>1, <1>4, <1>5 DEF AccessInv, Stopped, Up
  <2>2. EndedGone'
    BY <1>1 DEF AccessInv, EndedGone
  <2>3. DisableEndsSessions'
    BY <1>1, <1>5 DEF AccessInv, DisableEndsSessions, Undisturbed
  <2>4. QED
    BY <2>1, <2>2, <2>3
<1>8. Known'
  <2>1. \A b \in Accounts : user[b].status # "unknown" => user'[b].status # "unknown"
    BY <1>3
  <2>2. \A t \in Tokens : token[t].who \in Accounts \cup {None}
    BY DEF AccessInv, AccessTypeOK, Token
  <2>3. \A t \in Tokens : token'[t].who # None => user'[token'[t].who].status # "unknown"
    BY <1>1, <2>1, <2>2 DEF AccessInv, Known
  <2>4. \A s \in Sessions : session'[s].status = "on" =>
          session'[s].who \in Accounts /\ user'[session'[s].who].status # "unknown"
    BY <1>1, <2>1 DEF AccessInv, Known
  <2>5. \A q \in Requests : request'[q].pc # "idle" => request'[q].who \in Accounts
    BY <1>1, <1>4 DEF AccessInv, Known
  <2>6. \A q \in Requests : request'[q].pc \notin {"idle", "upsert"} =>
          user'[request'[q].who].status # "unknown"
    BY <1>1, <1>3, <1>4, <2>1 DEF AccessInv, Known
  <2>7. \A q \in Requests : request'[q].pc \in {"drop", "user", "expel", "touch", "act"} =>
          request'[q].cred \in Sessions /\ session'[request'[q].cred].status # "unused"
    BY <1>1, <1>4 DEF AccessInv, Known
  <2>8. QED
    BY <2>3, <2>4, <2>5, <2>6, <2>7 DEF Known
<1>9. LateLeaves'
  BY <1>1, <1>3, <1>4 DEF AccessInv, LateLeaves, Known, Refused, Foreign, AccessAssumption
<1>10. SpentStored'
  <2>1. \A q \in Requests : request'[q].oauth.refresh # "spent"
    BY <1>1, <1>4 DEF AccessInv, SpentStored
  <2>2. \A b \in Accounts : user'[b].oauth.refresh = "spent" => user[b].oauth.refresh = "spent"
    BY <1>1, <1>2, <1>3
  <2>3. \A p \in Processes : pass[p].pc = "refresh" => pass[p].who \in Accounts
    BY <1>1 DEF AccessInv, AccessTypeOK, Pass
  <2>4. ASSUME Undisturbed
        PROVE  /\ \A p \in Processes, b \in Accounts : pass'[p].copy[b].oauth.refresh # "spent"
               /\ \A p \in Processes : pass'[p].pc = "refresh" => Held(p)'.refresh # "none"
    <3>1. /\ \A p \in Processes, b \in Accounts : pass[p].copy[b].oauth.refresh # "spent"
          /\ \A p \in Processes : pass[p].pc = "refresh" => Held(p).refresh # "none"
      BY <2>4 DEF AccessInv, SpentStored
    <3>2. \A p \in Processes, b \in Accounts : pass'[p].copy[b].oauth.refresh # "spent"
      BY <1>5, <3>1
    <3>3. ASSUME NEW p \in Processes, pass'[p].pc = "refresh" PROVE Held(p)'.refresh # "none"
      BY <1>5, <2>3, <3>1, <3>3 DEF Held
    <3>4. QED
      BY <3>2, <3>3
  <2>5. ASSUME Undisturbed
        PROVE  \A b \in Accounts : user'[b].oauth.refresh = "spent" =>
                 \E p \in Processes : Storing(p, b)'
    BY <1>5, <2>2, <2>5 DEF AccessInv, SpentStored, Storing
  <2>6. QED
    BY <1>1, <2>1, <2>4, <2>5 DEF SpentStored, Undisturbed
<1>11. RefreshTokenKept'
  <2>1. \A p \in Processes : pass[p].pc = "disable" => pass[p].who \in Accounts
    BY <1>1 DEF AccessInv, AccessTypeOK, Pass
  <2>2. QED
    BY <1>1, <1>5, <2>1 DEF AccessInv, RefreshTokenKept, Undisturbed, Held
<1>12. QED
  BY <1>6, <1>7, <1>8, <1>9, <1>10, <1>11 DEF AccessInv

LEMMA CreateSessionKeeps ==
  ASSUME AccessAssumption, AccessInv, NEW r \in Requests, NEW s \in Sessions, CreateSession(r, s)
  PROVE  AccessInv'
<1> DEFINE new == [NoSession EXCEPT !.status = "on", !.who = request[r].who]
<1>1. request[r].who \in Accounts /\ user[request[r].who].status # "unknown"
  BY DEF CreateSession, AccessInv, Known
<1>2. /\ new \in Session /\ new.status = "on" /\ new.who = request[r].who
      /\ new.outcast = FALSE /\ new.who # None
  BY <1>1 DEF NoSession, Session, AccessAssumption
<1>3. /\ session \in [Sessions -> Session] /\ session[s].status = "unused"
      /\ session' = [session EXCEPT ![s] = new]
      /\ request' = [request EXCEPT ![r] = NoRequest]
      /\ request \in [Requests -> Request]
      /\ UNCHANGED <<config, faults, member, user, token, pass, ended>>
  BY DEF CreateSession, Leave, Become, RequestOnly, AccessInv, AccessTypeOK
<1> HIDE DEF new
<1>4. NoRequest \in Request
  BY NoPassFacts
<1>5. AccessTypeOK'
  BY <1>2, <1>3, <1>4 DEF AccessInv, AccessTypeOK
<1>6. Stopped' /\ RefreshTokenKept' /\ EndedGone'
  BY <1>3 DEF AccessInv, Stopped, Up, EndedGone, RefreshTokenKept, Undisturbed, Held, NoRequest
<1>7. Known'
  BY <1>1, <1>2, <1>3 DEF AccessInv, Known, NoRequest
<1>8. LateLeaves'
  BY <1>3 DEF AccessInv, LateLeaves, Refused, Foreign, NoRequest
<1>9. DisableEndsSessions'
  BY <1>2, <1>3 DEF AccessInv, DisableEndsSessions, Undisturbed
<1>10. SpentStored'
  BY <1>3 DEF AccessInv, SpentStored, Storing, Undisturbed, Held, NoRequest, NoOAuth, Answer
<1>11. QED
  BY <1>5, <1>6, <1>7, <1>8, <1>9, <1>10 DEF AccessInv

LEMMA AbandonKeeps ==
  ASSUME AccessAssumption, AccessInv, NEW r \in Requests, Abandon(r)
  PROVE  AccessInv'
<1>1. Counts
  BY FaultCounts DEF Abandon, tables, AccessInv
<1>2. QED
  BY <1>1, RequestEndsNothing DEF Abandon, tables

LEMMA StartPassKeeps ==
  ASSUME AccessAssumption, AccessInv, NEW p \in Processes, StartPass(p)
  PROVE  AccessInv'
<1> DEFINE listed == [a \in Accounts |-> [oauth |-> Listed(p, a), grant |-> 0]]
           q == [NoPass EXCEPT !.todo = {a \in Accounts : Due(p, a)}, !.copy = listed]
<1>1. \A a \in Accounts : Listed(p, a) \in Credential
  BY HeldCredential DEF Listed, Credential, AccessInv, AccessTypeOK
<1>2. q \in Pass /\ q.copy = listed
  BY <1>1 DEF NoPass, Pass, Copy
<1>3. /\ Proceed(q) \in Pass /\ Proceed(q).pc = "next" /\ Proceed(q).who = None
      /\ \A a \in Accounts : Proceed(q).copy[a] \in {listed[a], NoCopy}
  BY <1>2, ProceedFacts
<1>4. PassMoves(p) /\ pass'[p] = Proceed(q)
  BY <1>3, PassGoesMoves DEF StartPass
<1>5. ASSUME Undisturbed, NEW a \in Accounts PROVE Listed(p, a).refresh # "spent"
  <2>1. user[a].oauth.refresh = "spent" => \E s \in Processes \ {p} : pass[s].pc = "store" /\ pass[s].who = a
    BY <1>5 DEF StartPass, AccessInv, SpentStored, Storing
  <2>2. user[a].oauth \in Credential
    BY HeldCredential DEF AccessInv, AccessTypeOK
  <2>3. QED
    BY <2>1, <2>2 DEF Listed, Credential
<1>6. Undisturbed => Fit(p)'
  <2>1. \A a \in Accounts : listed[a].oauth = Listed(p, a)
    OBVIOUS
  <2>2. NoCopy.oauth.refresh # "spent"
    BY DEF NoCopy, NoOAuth, Answer
  <2> HIDE DEF q, listed
  <2>3. Undisturbed => \A a \in Accounts : pass'[p].copy[a].oauth.refresh # "spent"
    BY <1>3, <1>4, <1>5, <2>1, <2>2
  <2>4. QED
    BY <1>3, <1>4, <2>3 DEF Fit
<1>7. /\ UNCHANGED <<config, member, request, session, token, ended, user, faults>>
      /\ Up(p) /\ pass[p].pc = "idle"
  BY DEF StartPass, PassOnly, tables
<1>8. Counts /\ user' \in [Accounts -> User]
  BY <1>7, FaultCounts DEF AccessInv, AccessTypeOK
<1>9. QED
  BY <1>4, <1>6, <1>7, <1>8, PassKeepsRows DEF Undisturbed, Storing

LEMMA NextUserKeeps ==
  ASSUME AccessAssumption, AccessInv, NEW p \in Processes, NEW a \in Accounts, NextUser(p, a)
  PROVE  AccessInv'
<1> DEFINE left == [pass[p] EXCEPT !.todo = @ \ {a}]
<1>1. /\ left \in Pass /\ left.copy = pass[p].copy /\ a # None /\ pass[p].pc = "next"
  <2>1. pass[p] \in Pass
    BY DEF AccessInv, AccessTypeOK
  <2>2. left \in Pass /\ left.copy = pass[p].copy
    BY <2>1 DEF Pass
  <2>3. a # None /\ pass[p].pc = "next"
    BY DEF NextUser, AccessAssumption
  <2>4. QED
    BY <2>2, <2>3
<1> HIDE DEF left
<1>2. PICK q \in Pass :
        /\ PassGoes(p, q) /\ q.pc \in {"disable", "refresh", "ask"} /\ q.who = a
        /\ q.pc = "disable" => q.why = "other"
        /\ q.pc = "refresh" => q.copy[a].oauth.refresh # "none"
        /\ q.copy = pass[p].copy
  <2>1. CASE PassGoes(p, Condemn(left, a, "other"))
    BY <1>1, <2>1, CondemnFacts
  <2>2. CASE /\ MayRefresh(pass[p].copy[a].oauth)
             /\ PassGoes(p, [left EXCEPT !.pc = "refresh", !.who = a])
    <3> DEFINE q == [left EXCEPT !.pc = "refresh", !.who = a]
    <3>1. q \in Pass /\ q.pc = "refresh" /\ q.who = a /\ q.copy = pass[p].copy
      BY <1>1 DEF Pass
    <3> HIDE DEF q
    <3>2. PassGoes(p, q)
      BY <2>2 DEF q
    <3>3. QED
      BY <2>2, <3>1, <3>2 DEF MayRefresh
  <2>3. CASE PassGoes(p, [left EXCEPT !.pc = "ask", !.who = a])
    <3> DEFINE q == [left EXCEPT !.pc = "ask", !.who = a]
    <3>1. q \in Pass /\ q.pc = "ask" /\ q.who = a /\ q.copy = pass[p].copy
      BY <1>1 DEF Pass
    <3> HIDE DEF q
    <3>2. PassGoes(p, q)
      BY <2>3 DEF q
    <3>3. QED
      BY <3>1, <3>2
  <2>4. QED
    BY <2>1, <2>2, <2>3 DEF NextUser, left
<1>3. PassMoves(p) /\ pass'[p] = q
  BY <1>1, <1>2, PassGoesMoves
<1>4. Undisturbed => Fit(p)'
  BY <1>2, <1>3, AllFit DEF Fit, Held
<1>5. UNCHANGED <<config, member, request, session, token, ended, user, faults>>
  BY DEF NextUser, PassOnly, tables
<1>6. Counts /\ user' \in [Accounts -> User]
  BY <1>5, FaultCounts DEF AccessInv, AccessTypeOK
<1>7. QED
  BY <1>1, <1>3, <1>4, <1>5, <1>6, PassKeepsRows DEF Undisturbed, Storing

LEMMA EndPassKeeps ==
  ASSUME AccessAssumption, AccessInv, NEW p \in Processes, EndPass(p)
  PROVE  AccessInv'
<1>1. PICK gone \in SUBSET {s \in Sessions : session[s].status = "on" /\ session[s].expired} :
        /\ session' = [s \in Sessions |-> IF s \in gone THEN Gone(session[s]) ELSE session[s]]
        /\ End(gone)
  BY DEF EndPass
<1>2. session \in [Sessions -> Session] /\ ended \subseteq Sessions
  BY DEF AccessInv, AccessTypeOK
<1>3. \A s \in Sessions : Gone(session[s]) \in Session /\ Gone(session[s]).status = "gone"
  BY <1>2, GoneFacts
<1>4. session' \in [Sessions -> Session]
  BY <1>1, <1>2, <1>3
<1>5. /\ \A s \in gone : session'[s].status = "gone" /\ session[s].status = "on"
      /\ \A s \in Sessions \ gone : session'[s] = session[s]
  BY <1>1, <1>3
<1>6. Shrunk
  BY <1>1, <1>2, <1>4, <1>5 DEF End, Shrunk
<1>7. Counts
  BY FaultCounts DEF EndPass, AccessInv
<1>8. /\ NoPass \in Pass /\ NoPass.pc = "idle" /\ NoPass.who = None
      /\ \A a \in Accounts : NoPass.copy[a] = NoCopy
  BY NoPassFacts
<1>9. /\ pass[p].pc = "next" /\ UNCHANGED <<config, faults, member, request, token, user>>
      /\ PassGoes(p, NoPass)
  BY DEF EndPass, PassOnly
<1>10. PassMoves(p) /\ pass'[p] = NoPass
  BY <1>8, <1>9, PassGoesMoves
<1>11. Fit(p)'
  BY <1>8, <1>10 DEF Fit, NoCopy, NoOAuth, Answer
<1>12. QED
  BY <1>6, <1>7, <1>8, <1>9, <1>10, <1>11, PassEndsSessions

LEMMA RefreshRefusedKeeps ==
  ASSUME AccessAssumption, AccessInv, NEW p \in Processes, RefreshRefused(p)
  PROVE  AccessInv'
<1> DEFINE q == Condemn(pass[p], pass[p].who, "refresh")
<1>1. /\ pass[p].who \in Accounts /\ pass[p] \in Pass /\ pass[p].who # None
      /\ pass[p].pc = "refresh" /\ PassGoes(p, q) /\ ~Good(Held(p))
      /\ Held(p) \in Credential
  BY DEF RefreshRefused, AccessInv, AccessTypeOK, Pass, Held, Copy
<1>2. /\ q \in Pass /\ q.pc = "disable" /\ q.who = pass[p].who /\ q.copy = pass[p].copy
  BY <1>1, CondemnFacts
<1> HIDE DEF q
<1>3. PassMoves(p) /\ pass'[p] = q
  BY <1>1, <1>2, PassGoesMoves
<1>4. Undisturbed => Fit(p)'
  <2>1. Held(p)' = Held(p)
    BY <1>2, <1>3 DEF Held
  <2>2. Undisturbed => Held(p).refresh \notin {"none", "spent"}
    BY <1>1, AllFit DEF Fit, Held
  <2>3. Undisturbed => Held(p).revoked \/ Held(p).refresh = "taken"
    BY <1>1, <2>2 DEF Good, Credential
  <2>4. QED
    BY <1>2, <1>3, <2>1, <2>3, AllFit DEF Fit
<1>5. UNCHANGED <<config, member, request, session, token, ended, user, faults>>
  BY DEF RefreshRefused, PassOnly, tables
<1>6. Counts /\ user' \in [Accounts -> User]
  BY <1>5, FaultCounts DEF AccessInv, AccessTypeOK
<1>7. QED
  BY <1>1, <1>3, <1>4, <1>5, <1>6, PassKeepsRows DEF Undisturbed, Storing

LEMMA RefreshRenewsKeeps ==
  ASSUME AccessAssumption, AccessInv, NEW p \in Processes, RefreshRenews(p)
  PROVE  AccessInv'
<1> DEFINE w == pass[p].who
           young == [pass[p].copy[w].oauth EXCEPT !.access = "young"]
           copy(g) == [oauth |-> young, grant |-> g]
           q(g) == [pass[p] EXCEPT !.pc = "store", !.copy = [pass[p].copy EXCEPT ![w] = copy(g)]]
<1>1. /\ w \in Accounts /\ pass[p] \in Pass /\ pass[p].pc = "refresh"
      /\ pass[p].copy \in [Accounts -> Copy] /\ pass[p].copy[w] \in Copy
      /\ UNCHANGED <<config, member, request, faults, session, token, ended>>
  <2>1. pass[p] \in Pass /\ (pass[p].pc \in {"idle", "next"} <=> w = None)
    BY DEF AccessInv, AccessTypeOK
  <2>2. /\ pass[p].pc = "refresh"
        /\ UNCHANGED <<config, member, request, faults, session, token, ended>>
    BY DEF RefreshRenews, PassOnly
  <2>3. QED
    BY <2>1, <2>2 DEF Pass
<1>2. ASSUME NEW g \in Grants \cup {0}
      PROVE  /\ q(g) \in Pass /\ q(g).pc = "store" /\ q(g).who = w
             /\ \A a \in Accounts : q(g).copy[a].oauth.refresh = pass[p].copy[a].oauth.refresh
  <2>1. young \in Credential /\ young.refresh = pass[p].copy[w].oauth.refresh
    BY <1>1 DEF Copy, Credential
  <2>2. copy(g) \in Copy /\ copy(g).oauth.refresh = pass[p].copy[w].oauth.refresh
    BY <1>2, <2>1 DEF Copy
  <2> HIDE DEF copy
  <2>3. [pass[p].copy EXCEPT ![w] = copy(g)] \in [Accounts -> Copy]
    BY <1>1, <2>2
  <2>4. QED
    BY <1>1, <2>2, <2>3 DEF Pass
<1>3. Counts
  BY <1>1, FaultCounts DEF AccessInv
<1>4. w # None
  BY <1>1 DEF AccessAssumption
<1>5. PICK g \in Grants \cup {0} :
        \/ Spend(p, q(g))
        \/ PassGoes(p, q(g)) /\ UNCHANGED user
  <2> DEFINE next == [pass[p] EXCEPT !.pc = "store", !.copy[w].oauth.access = "young"]
  <2>1. next = q(pass[p].copy[w].grant)
    <3> DEFINE x == pass[p].copy[w]
    <3>1. [x EXCEPT !.oauth.access = "young"] = copy(x.grant)
      <4>1. x \in [oauth : Credential, grant : Grants \cup {0}]
        BY <1>1 DEF Copy
      <4>2. [x EXCEPT !.oauth.access = "young"] = [x EXCEPT !.oauth = young]
        OBVIOUS
      <4> HIDE DEF x, young
      <4>3. [x EXCEPT !.oauth = young] = copy(x.grant)
        BY <4>1
      <4>4. QED
        BY <4>2, <4>3
    <3>2. next = [pass[p] EXCEPT !.pc = "store",
                    !.copy = [pass[p].copy EXCEPT ![w] = [x EXCEPT !.oauth.access = "young"]]]
      BY <1>1 DEF Pass
    <3>3. QED
      BY <3>1, <3>2
  <2>2. ASSUME NEW n PROVE [next EXCEPT !.copy[w].grant = n] = q(n)
    <3> DEFINE c == copy(pass[p].copy[w].grant)
               f == [pass[p].copy EXCEPT ![w] = c]
    <3>1. [c EXCEPT !.grant = n] = copy(n)
      OBVIOUS
    <3> HIDE DEF c, next
    <3>2. [f EXCEPT ![w].grant = n] = [pass[p].copy EXCEPT ![w] = copy(n)]
      BY <1>1, <3>1
    <3>3. next = [pass[p] EXCEPT !.pc = "store", !.copy = f]
      BY <2>1 DEF c
    <3> HIDE DEF f, copy
    <3>4. QED
      BY <1>1, <3>2, <3>3 DEF Pass
  <2>3. pass[p].copy[w].grant \in Grants \cup {0}
    BY <1>1 DEF Copy
  <2>4. \/ \E n \in Grants : Spend(p, [next EXCEPT !.copy[w].grant = n])
        \/ PassGoes(p, next) /\ UNCHANGED user
    BY DEF RefreshRenews
  <2>5. CASE PassGoes(p, next) /\ UNCHANGED user
    <3> HIDE DEF q, next
    <3>1. QED
      BY <2>1, <2>3, <2>5
  <2>6. CASE \E n \in Grants : Spend(p, [next EXCEPT !.copy[w].grant = n])
    <3>1. PICK n \in Grants : Spend(p, [next EXCEPT !.copy[w].grant = n])
      BY <2>6
    <3>2. [next EXCEPT !.copy[w].grant = n] = q(n)
      BY <2>2
    <3> HIDE DEF q, next
    <3>3. QED
      BY <3>1, <3>2
  <2>7. QED
    BY <2>4, <2>5, <2>6
<1>6. /\ PassMoves(p) /\ pass'[p] = q(g)
      /\ user' \in [Accounts -> User]
      /\ \A a \in Accounts : user'[a].status = user[a].status
      /\ \A a \in Accounts \ {w} : user'[a] = user[a]
  <2>1. /\ q(g) \in Pass /\ q(g).pc = "store" /\ q(g).who = w
    BY <1>2
  <2> HIDE DEF q
  <2>2. CASE Spend(p, q(g))
    BY <1>1, <1>4, <2>1, <2>2, SpendFacts
  <2>3. CASE PassGoes(p, q(g)) /\ UNCHANGED user
    <3>1. PassMoves(p) /\ pass'[p] = q(g)
      BY <1>4, <2>1, <2>3, PassGoesMoves
    <3>2. QED
      BY <2>3, <3>1 DEF AccessInv, AccessTypeOK
  <2>4. QED
    BY <1>5, <2>2, <2>3
<1>7. /\ pass'[p].pc = "store" /\ pass'[p].who = w
      /\ \A a \in Accounts : pass'[p].copy[a].oauth.refresh = pass[p].copy[a].oauth.refresh
  <2> HIDE DEF q
  <2>1. QED
    BY <1>2, <1>6
<1> HIDE DEF q, young, copy
<1>8. Undisturbed => Fit(p)'
  BY <1>7, AllFit DEF Fit
<1>9. \A a \in Accounts : user'[a].oauth.refresh = "spent" =>
           \/ user[a].oauth.refresh = "spent" /\ ~Storing(p, a)
           \/ Storing(p, a)'
  BY <1>1, <1>6, <1>7 DEF Storing
<1>10. QED
  BY <1>1, <1>3, <1>6, <1>8, <1>9, PassKeepsRows DEF Undisturbed

LEMMA RefreshFailsKeeps ==
  ASSUME AccessAssumption, AccessInv, NEW p \in Processes, RefreshFails(p)
  PROVE  AccessInv'
<1>1. /\ pass[p].who \in Accounts /\ pass[p] \in Pass /\ pass[p].pc = "refresh"
      /\ UNCHANGED <<config, member, request, session, token, ended>>
  BY DEF RefreshFails, PassOnly, AccessInv, AccessTypeOK, Pass
<1>2. Counts
  BY FaultCounts DEF RefreshFails, AccessInv
<1>3. CASE PassGoes(p, Proceed(pass[p])) /\ UNCHANGED <<user, faults>>
  <2>1. PassMoves(p) /\ (Undisturbed => Fit(p)')
    BY <1>3, ProceedFits
  <2>2. user' \in [Accounts -> User] /\ user' = user
    BY <1>3 DEF AccessInv, AccessTypeOK
  <2>3. QED
    BY <1>1, <1>2, <1>3, <2>1, <2>2, PassKeepsRows DEF Undisturbed, Storing
<1>4. CASE Spend(p, Proceed(pass[p])) /\ Fault
  <2>1. /\ Proceed(pass[p]) \in Pass
        /\ Proceed(pass[p]).pc = "next" /\ Proceed(pass[p]).who = None
    BY <1>1, ProceedFacts
  <2>2. /\ PassMoves(p) /\ user' \in [Accounts -> User]
        /\ \A a \in Accounts : user'[a].status = user[a].status
    BY <1>1, <1>4, <2>1, SpendFacts
  <2>3. faults' # 0
    BY <1>4 DEF Fault, AccessInv, AccessTypeOK
  <2>4. QED
    BY <1>1, <1>2, <2>2, <2>3, PassKeepsRows
<1>5. QED
  BY <1>3, <1>4 DEF RefreshFails

LEMMA StoreTokenKeeps ==
  ASSUME AccessAssumption, AccessInv, NEW p \in Processes, StoreToken(p)
  PROVE  AccessInv'
<1> DEFINE w == pass[p].who
           next == [pass[p] EXCEPT !.pc = "ask"]
<1>1. /\ w \in Accounts /\ pass[p] \in Pass /\ w # None /\ pass[p].pc = "store"
      /\ pass \in [Processes -> Pass] /\ Number(p) \in Grants \cup {0}
      /\ UNCHANGED <<config, member, request, session, token, ended>>
  BY DEF StoreToken, PassOnly, AccessInv, AccessTypeOK, Pass, Copy, Number
<1>2. CASE /\ user' = [user EXCEPT ![w].oauth = Stored(@, Held(p))]
           /\ pass' = [q \in Processes |-> Renumbered(IF q = p THEN next ELSE pass[q], w, Number(p), 0)]
           /\ UNCHANGED faults
  <2>1. /\ Held(p) \in Credential /\ user' \in [Accounts -> User]
        /\ \A a \in Accounts : user'[a].status = user[a].status
        /\ user'[w].oauth = Held(p)
        /\ \A a \in Accounts \ {w} : user'[a].oauth = user[a].oauth
    <3> DEFINE row == [user[w] EXCEPT !.oauth = Held(p)]
    <3>1. Held(p) \in Credential
      BY <1>1 DEF Held, Copy, Pass
    <3>2. user \in [Accounts -> User]
      BY DEF AccessInv, AccessTypeOK
    <3>3. row \in User /\ row.status = user[w].status /\ row.oauth = Held(p)
      BY <1>1, <3>1, <3>2 DEF User
    <3>4. user' = [user EXCEPT ![w] = row]
      BY <1>2 DEF Stored
    <3> HIDE DEF row
    <3>5. QED
      BY <1>1, <3>1, <3>2, <3>3, <3>4
  <2>2. next \in Pass /\ next.pc = "ask" /\ next.who = w /\ next.copy = pass[p].copy
    BY <1>1 DEF Pass
  <2> HIDE DEF next
  <2>3. /\ pass'[p] \in Pass /\ pass'[p].pc = "ask" /\ pass'[p].who = w
        /\ \A a \in Accounts : pass'[p].copy[a].oauth = pass[p].copy[a].oauth
    <3>1. pass'[p] = Renumbered(next, w, Number(p), 0)
      BY <1>2
    <3>2. 0 \in Grants \cup {0}
      OBVIOUS
    <3>3. QED
      <4> DEFINE t == Renumbered(next, w, Number(p), 0)
      <4>1. /\ t \in Pass /\ t.pc = next.pc /\ t.who = next.who
            /\ \A b \in Accounts : t.copy[b].oauth = next.copy[b].oauth
        <5> HIDE DEF w
        <5>1. next \in Pass /\ w \in Accounts /\ Number(p) \in Grants \cup {0}
          BY <1>1, <2>2
        <5>2. QED
          BY ONLY <5>1, <3>2, RenumberedFacts
      <4> HIDE DEF t
      <4>2. QED
        BY <2>2, <3>1, <4>1 DEF t
  <2>4. ASSUME NEW q \in Processes \ {p} PROVE pass'[q] \in Pass /\ Follows(pass[q], pass'[q])
    <3>1. pass'[q] = Renumbered(pass[q], w, Number(p), 0)
      BY <1>2
    <3>2. pass[q] \in Pass /\ 0 \in Grants \cup {0}
      BY <1>1
    <3>3. /\ pass'[q] \in Pass /\ pass'[q].pc = pass[q].pc /\ pass'[q].who = pass[q].who
          /\ pass'[q].why = pass[q].why
          /\ \A b \in Accounts : pass'[q].copy[b].oauth = pass[q].copy[b].oauth
      <4> DEFINE t == Renumbered(pass[q], w, Number(p), 0)
      <4>1. /\ t \in Pass /\ t.pc = pass[q].pc /\ t.who = pass[q].who
            /\ t.why = pass[q].why
            /\ \A b \in Accounts : t.copy[b].oauth = pass[q].copy[b].oauth
        <5> HIDE DEF w
        <5>1. QED
          BY ONLY <1>1, <3>2, RenumberedFacts
      <4> HIDE DEF t
      <4>2. QED
        BY <3>1, <4>1 DEF t
    <3>4. QED
      BY <3>3 DEF Follows, Alike
  <2>5. PassMoves(p)
    <3>1. pass' = [q \in Processes |-> pass'[q]]
      BY <1>2
    <3>2. QED
      BY <1>1, <2>3, <2>4, <3>1 DEF PassMoves
  <2>6. Counts
    BY <1>2, FaultCounts DEF AccessInv
  <2>7. Undisturbed => Fit(p)'
    BY <2>3, AllFit DEF Fit
  <2>8. Undisturbed => Held(p).refresh # "spent"
    BY <1>1, AllFit DEF Fit, Held
  <2>9. Undisturbed => \A a \in Accounts : user'[a].oauth.refresh = "spent" =>
           user[a].oauth.refresh = "spent" /\ ~Storing(p, a)
    BY <1>1, <2>1, <2>8 DEF Storing
  <2>10. QED
    BY <1>1, <1>2, <2>1, <2>5, <2>6, <2>7, <2>9, PassKeepsRows DEF Undisturbed
<1>3. CASE Fault /\ PassGoes(p, Proceed(pass[p])) /\ UNCHANGED user
  <2>1. PassMoves(p)
    BY <1>3, ProceedFits
  <2>2. Counts /\ faults' # 0 /\ user' \in [Accounts -> User]
    BY <1>3, FaultCounts DEF Fault, AccessInv, AccessTypeOK
  <2>3. QED
    BY <1>1, <1>3, <2>1, <2>2, PassKeepsRows
<1>4. QED
  BY <1>2, <1>3 DEF StoreToken

LEMMA AskKeeps ==
  ASSUME AccessAssumption, AccessInv, NEW p \in Processes, Ask(p)
  PROVE  AccessInv'
<1> DEFINE w == pass[p].who
           settled == [pass[p] EXCEPT !.copy[w] = NoCopy]
<1>1. /\ w \in Accounts /\ pass[p] \in Pass /\ w # None /\ pass[p].pc = "ask"
      /\ UNCHANGED <<config, member, request, session, token, ended, user, faults>>
  BY DEF Ask, PassOnly, tables, AccessInv, AccessTypeOK, Pass
<1>2. /\ settled \in Pass /\ settled.who = w
      /\ \A a \in Accounts : settled.copy[a] \in {pass[p].copy[a], NoCopy}
  <2>1. NoCopy \in Copy
    BY NoPassFacts
  <2>2. QED
    BY <1>1, <2>1 DEF Pass
<1> HIDE DEF settled
<1>3. PICK q \in Pass :
        /\ PassGoes(p, q) /\ q.pc \in {"disable", "mark"} /\ q.who = w
        /\ q.pc = "disable" => q.why = "other"
        /\ q.copy = settled.copy
  <2>1. CASE PassGoes(p, Condemn(settled, w, "other"))
    <3> DEFINE q == Condemn(settled, w, "other")
    <3>1. /\ q \in Pass /\ q.pc = "disable" /\ q.who = w /\ q.why = "other"
          /\ q.copy = settled.copy
      BY <1>1, <1>2, CondemnFacts
    <3> HIDE DEF q
    <3>2. QED
      BY <2>1, <3>1 DEF q
  <2>2. CASE PassGoes(p, [settled EXCEPT !.pc = "mark"])
    <3> DEFINE q == [settled EXCEPT !.pc = "mark"]
    <3>1. q \in Pass /\ q.pc = "mark" /\ q.who = w /\ q.copy = settled.copy
      BY <1>2 DEF Pass
    <3>2. PassGoes(p, q)
      BY <2>2
    <3> HIDE DEF q
    <3>3. QED
      BY <3>1, <3>2
  <2>3. QED
    BY <2>1, <2>2 DEF Ask, settled
<1>4. PassMoves(p) /\ pass'[p] = q
  BY <1>1, <1>3, PassGoesMoves
<1>5. Undisturbed => Fit(p)'
  BY <1>2, <1>3, <1>4, AllFit DEF Fit, NoCopy, NoOAuth, Answer
<1>6. Counts /\ user' \in [Accounts -> User]
  BY <1>1, FaultCounts DEF AccessInv, AccessTypeOK
<1>7. QED
  BY <1>1, <1>4, <1>5, <1>6, PassKeepsRows DEF Undisturbed, Storing

LEMMA AskFailsKeeps ==
  ASSUME AccessAssumption, AccessInv, NEW p \in Processes, AskFails(p)
  PROVE  AccessInv'
<1>1. /\ pass[p].pc = "ask" /\ PassGoes(p, Proceed(pass[p]))
      /\ UNCHANGED <<config, member, request, session, token, ended, user, faults>>
  BY DEF AskFails, PassOnly, tables
<1>2. PassMoves(p) /\ (Undisturbed => Fit(p)')
  BY <1>1, ProceedFits
<1>3. Counts /\ user' \in [Accounts -> User]
  BY <1>1, FaultCounts DEF AccessInv, AccessTypeOK
<1>4. QED
  BY <1>1, <1>2, <1>3, PassKeepsRows DEF Undisturbed, Storing

LEMMA MarkKeeps ==
  ASSUME AccessAssumption, AccessInv, NEW p \in Processes, Mark(p)
  PROVE  AccessInv'
<1>1. /\ pass[p].pc = "mark" /\ PassGoes(p, Proceed(pass[p])) /\ pass[p].who \in Accounts
      /\ UNCHANGED <<config, member, request, session, token, ended>>
  BY DEF Mark, PassOnly, AccessInv, AccessTypeOK, Pass
<1>2. /\ user' \in [Accounts -> User]
      /\ \A a \in Accounts : user'[a].status = user[a].status /\ user'[a].oauth = user[a].oauth
  <2>1. user \in [Accounts -> User]
    BY DEF AccessInv, AccessTypeOK
  <2>2. [user[pass[p].who] EXCEPT !.checked = TRUE] \in User
    BY <1>1, <2>1 DEF User
  <2>3. \/ user' = user
        \/ user' = [user EXCEPT ![pass[p].who] = [user[pass[p].who] EXCEPT !.checked = TRUE]]
    BY DEF Mark
  <2>4. QED
    BY <1>1, <2>1, <2>2, <2>3 DEF User
<1>3. Counts
  BY FaultCounts DEF Mark, AccessInv
<1>4. PassMoves(p) /\ (Undisturbed => Fit(p)')
  BY <1>1, ProceedFits
<1>5. faults' = 0 => Undisturbed
  BY <1>3 DEF Counts, Undisturbed
<1>6. QED
  BY <1>1, <1>2, <1>3, <1>4, <1>5, PassKeepsRows DEF Storing

LEMMA DisableKeeps ==
  ASSUME AccessAssumption, AccessInv, NEW p \in Processes, Disable(p)
  PROVE  AccessInv'
<1> DEFINE w == pass[p].who
<1>1. /\ w \in Accounts /\ pass[p] \in Pass /\ w # None /\ pass[p].pc = "disable"
      /\ UNCHANGED <<config, member, request, token, ended>>
      /\ user \in [Accounts -> User] /\ session \in [Sessions -> Session]
  BY DEF Disable, PassOnly, AccessInv, AccessTypeOK, Pass
<1>2. CASE /\ user' = [user EXCEPT ![w].status = "disabled"]
           /\ session' = [s \in Sessions |-> IF Live(s, w)
                            THEN [session[s] EXCEPT !.outcast = TRUE] ELSE session[s]]
           /\ PassGoes(p, [pass[p] EXCEPT !.pc = "expel"])
           /\ UNCHANGED faults
  <2>1. /\ user' \in [Accounts -> User] /\ user'[w].status = "disabled"
        /\ \A a \in Accounts : user'[a].oauth = user[a].oauth
        /\ \A a \in Accounts \ {w} : user'[a] = user[a]
    <3> DEFINE row == [user[w] EXCEPT !.status = "disabled"]
    <3>1. row \in User
      BY <1>1 DEF User
    <3>2. user' = [user EXCEPT ![w] = row]
      BY <1>2
    <3>3. row.oauth = user[w].oauth /\ row.status = "disabled"
      BY <1>1 DEF User
    <3> HIDE DEF row
    <3>4. QED
      BY <1>1, <3>1, <3>2, <3>3
  <2>2. /\ session' \in [Sessions -> Session]
        /\ \A s \in Sessions : /\ session'[s].status = session[s].status
                               /\ session'[s].who = session[s].who
                               /\ ~Live(s, w) => session'[s] = session[s]
    <3>1. \A s \in Sessions : [session[s] EXCEPT !.outcast = TRUE] \in Session
      <4>1. \A t \in Session : [t EXCEPT !.outcast = TRUE] \in Session
        BY DEF Session
      <4>2. QED
        BY <1>1, <4>1
    <3>2. \A s \in Sessions : session'[s] = IF Live(s, w)
                            THEN [session[s] EXCEPT !.outcast = TRUE] ELSE session[s]
      <4>1. session' = [s \in Sessions |-> IF Live(s, w)
                          THEN [session[s] EXCEPT !.outcast = TRUE] ELSE session[s]]
        BY <1>2
      <4>2. QED
        BY ONLY <4>1
    <3>3. session' \in [Sessions -> Session]
      BY <1>1, <1>2, <3>1
    <3>4. \A s \in Sessions : /\ [session[s] EXCEPT !.outcast = TRUE].status = session[s].status
                               /\ [session[s] EXCEPT !.outcast = TRUE].who = session[s].who
      <4>1. \A t \in Session : /\ [t EXCEPT !.outcast = TRUE].status = t.status
                                /\ [t EXCEPT !.outcast = TRUE].who = t.who
        BY DEF Session
      <4>2. QED
        BY <1>1, <4>1
    <3>5. QED
      BY <3>2, <3>3, <3>4
  <2>3. /\ pass' \in [Processes -> Pass] /\ pass'[p].pc = "expel" /\ pass'[p].who = w
        /\ pass'[p].copy = pass[p].copy
        /\ \A q \in Processes \ {p} : pass'[q] = pass[q]
    BY <1>1, <1>2 DEF Pass, PassGoes, AccessInv, AccessTypeOK
  <2>4. AccessTypeOK'
    BY <1>1, <1>2, <2>1, <2>2, <2>3 DEF AccessInv, AccessTypeOK
  <2>5. Stopped' /\ EndedGone'
    BY <1>1, <2>2, <2>3 DEF AccessInv, AccessTypeOK, Stopped, EndedGone, Up
  <2>6. Known'
    <3>1. \A a \in Accounts : user[a].status # "unknown" => user'[a].status # "unknown"
      BY <2>1
    <3>2. QED
      BY <1>1, <2>2, <3>1, KnownKept
  <2>7. LateLeaves'
    <3>1. \A q \in Processes, a \in Accounts : Refused(q, a) => Refused(q, a)'
      BY <1>1, <2>1 DEF Refused, Foreign
    <3>2. \A q \in Requests : request[q].late = "barred" => request[q].who \in Accounts
      BY DEF AccessInv, LateLeaves, Known
    <3>3. QED
      BY <1>1, <3>1, <3>2 DEF AccessInv, LateLeaves, AccessAssumption
  <2>8. DisableEndsSessions'
    <3>1. ASSUME NEW s \in Sessions, faults = 0, session'[s].status = "on", session'[s].outcast
          PROVE  \E q \in Processes : pass'[q].pc = "expel" /\ pass'[q].who = session'[s].who
      <4>1. CASE session'[s].who = w
        BY <2>3, <4>1
      <4>2. CASE session'[s].who # w
        <5>1. session'[s] = session[s]
          BY <2>2, <4>2 DEF Live
        <5>2. PICK q \in Processes : pass[q].pc = "expel" /\ pass[q].who = session[s].who
          BY <3>1, <5>1 DEF AccessInv, DisableEndsSessions, Undisturbed
        <5>3. QED
          BY <1>1, <2>3, <5>1, <5>2
      <4>3. QED
        BY <4>1, <4>2
    <3>2. QED
      BY <1>2, <3>1 DEF DisableEndsSessions, Undisturbed
  <2>9. SpentStored'
    <3>1. \A q \in Processes, a \in Accounts : /\ pass'[q].copy[a] = pass[q].copy[a]
                                               /\ Storing(q, a) => Storing(q, a)'
      BY <1>1, <2>3 DEF Storing
    <3>2. \A q \in Processes : pass'[q].pc = "refresh" => pass[q].pc = "refresh" /\ Held(q)' = Held(q)
      BY <1>1, <2>3 DEF Held
    <3>3. QED
      BY <1>1, <1>2, <2>1, <3>1, <3>2 DEF AccessInv, SpentStored, Undisturbed
  <2>10. RefreshTokenKept'
    BY <1>2, <2>3 DEF AccessInv, RefreshTokenKept, Held, Undisturbed
  <2>11. QED
    BY <2>4, <2>5, <2>6, <2>7, <2>8, <2>9, <2>10 DEF AccessInv
<1>3. CASE Fault /\ PassGoes(p, Proceed(pass[p])) /\ UNCHANGED <<user, session>>
  <2>1. PassMoves(p) /\ pass'[p].pc = "next"
    BY <1>3, ProceedFits
  <2>2. Counts /\ faults' # 0
    BY <1>3, FaultCounts DEF Fault, AccessInv, AccessTypeOK
  <2>3. Shrunk
    BY <1>1, <1>3 DEF Shrunk, AccessInv, AccessTypeOK
  <2>4. QED
    BY <1>1, <1>3, <2>1, <2>2, <2>3, PassEndsSessions
<1>4. QED
  BY <1>2, <1>3 DEF Disable

LEMMA ExpelKeeps ==
  ASSUME AccessAssumption, AccessInv, NEW p \in Processes, Expel(p)
  PROVE  AccessInv'
<1>1. /\ PassGoes(p, Proceed(pass[p])) /\ pass[p].pc = "expel"
      /\ UNCHANGED <<config, member, request, token, user>>
      /\ pass[p].who \in Accounts
  BY DEF Expel, PassOnly, AccessInv, AccessTypeOK, Pass
<1>2. PassMoves(p) /\ (Undisturbed => Fit(p)') /\ pass'[p].pc = "next"
  BY <1>1, ProceedFits
<1>3. Counts /\ (faults' = 0 => Undisturbed)
  BY FaultCounts DEF Expel, AccessInv, Counts, Undisturbed
<1>4. CASE /\ session' = WithoutSessions(pass[p].who)
           /\ End({s \in Sessions : Live(s, pass[p].who)})
           /\ UNCHANGED faults
  <2>1. /\ Shrunk
        /\ \A s \in Sessions : ~(session'[s].status = "on" /\ session'[s].who = pass[p].who)
    BY <1>1, <1>4, AllSessionsEnd
  <2>2. QED
    BY <1>1, <1>2, <1>3, <2>1, PassEndsSessions
<1>5. CASE Fault /\ UNCHANGED <<session, ended>>
  <2>1. Shrunk
    BY <1>5 DEF Shrunk, AccessInv, AccessTypeOK
  <2>2. faults' # 0
    BY <1>5 DEF Fault, AccessInv, AccessTypeOK
  <2>3. QED
    BY <1>1, <1>2, <1>3, <2>1, <2>2, PassEndsSessions
<1>6. QED
  BY <1>4, <1>5 DEF Expel

LEMMA StartServerKeeps ==
  ASSUME AccessAssumption, AccessInv, NEW p \in Processes, NEW c \in Configs, StartServer(p, c)
  PROVE  AccessInv'
<1>1. UNCHANGED <<faults, member, user, session, token, request, pass, ended>>
  BY DEF StartServer, tables
<1>2. /\ config' \in [Processes -> Configs \cup {None}]
      /\ \A q \in Processes \ {p} : config'[q] = config[q]
  BY DEF StartServer, AccessInv, AccessTypeOK
<1>3. \A r \in Requests : ServerOf[r] = p => request[r].late = "no"
  BY DEF StartServer, AccessInv, Stopped, LateLeaves, AccessTypeOK, Request
<1>4. AccessTypeOK' /\ EndedGone' /\ Known' /\ SpentStored'
  BY <1>1, <1>2 DEF AccessInv, AccessTypeOK, EndedGone, Known, SpentStored, Storing,
                    Undisturbed, Held
<1>5. DisableEndsSessions' /\ RefreshTokenKept'
  BY <1>1 DEF AccessInv, DisableEndsSessions, RefreshTokenKept, Undisturbed, Held
<1>6. LateLeaves'
  BY <1>1, <1>2, <1>3 DEF AccessInv, LateLeaves, Refused, Foreign, AccessAssumption
<1>7. Stopped'
  BY <1>1, <1>2 DEF StartServer, AccessInv, Stopped, Up
<1>8. QED
  BY <1>4, <1>5, <1>6, <1>7 DEF AccessInv

LEMMA StopServerKeeps ==
  ASSUME AccessAssumption, AccessInv, NEW p \in Processes, StopServer(p)
  PROVE  AccessInv'
<1>1. /\ NoRequest \in Request /\ NoPass \in Pass
      /\ NoPass.pc = "idle" /\ NoPass.who = None
  BY NoPassFacts
<1>2. /\ UNCHANGED <<member, user, session, token, ended>> /\ Fault
      /\ config' = [config EXCEPT ![p] = None]
      /\ request' = [r \in Requests |-> IF ServerOf[r] = p THEN NoRequest ELSE request[r]]
      /\ pass' = [pass EXCEPT ![p] = NoPass]
  BY DEF StopServer, PassGoes, tables
<1>3. Counts /\ faults' # 0
  BY <1>2, FaultCounts DEF Fault, AccessInv, AccessTypeOK
<1>4. AccessTypeOK'
  BY <1>1, <1>2, <1>3 DEF Counts, AccessInv, AccessTypeOK
<1>5. Stopped'
  BY <1>1, <1>2 DEF AccessInv, AccessTypeOK, Stopped, Up, NoRequest
<1>6. Known'
  BY <1>2 DEF AccessInv, Known, NoRequest
<1>7. EndedGone'
  BY <1>2 DEF AccessInv, EndedGone
<1>8. LateLeaves'
  BY <1>2 DEF AccessInv, AccessTypeOK, LateLeaves, Refused, Foreign, NoRequest, AccessAssumption
<1>9. DisableEndsSessions' /\ RefreshTokenKept'
  BY <1>3 DEF DisableEndsSessions, RefreshTokenKept, Undisturbed
<1>10. SpentStored'
  BY <1>2, <1>3 DEF AccessInv, SpentStored, Undisturbed, NoRequest, NoOAuth, Answer
<1>11. QED
  BY <1>4, <1>5, <1>6, <1>7, <1>8, <1>9, <1>10 DEF AccessInv

LEMMA JoinOrLeaveKeeps ==
  ASSUME AccessAssumption, AccessInv, NEW a \in Accounts, JoinOrLeave(a)
  PROVE  AccessInv'
<1>1. AccessTypeOK'
  BY DEF JoinOrLeave, Outside, tables, AccessInv, AccessTypeOK, AccessAssumption
<1>2. Stopped'
  BY DEF JoinOrLeave, Outside, tables, AccessInv, Stopped, AccessTypeOK, Up
<1>3. Known'
  BY DEF JoinOrLeave, Outside, tables, AccessInv, Known, AccessTypeOK
<1>4. EndedGone'
  BY DEF JoinOrLeave, Outside, tables, AccessInv, EndedGone, AccessTypeOK
<1>5. LateLeaves'
  BY DEF JoinOrLeave, Outside, tables, AccessInv, LateLeaves, Refused, Foreign, AccessTypeOK
<1>6. DisableEndsSessions'
  BY DEF JoinOrLeave, Outside, tables, AccessInv, DisableEndsSessions, Undisturbed,
         AccessTypeOK
<1>7. SpentStored'
  BY DEF JoinOrLeave, Outside, tables, AccessInv, SpentStored, Storing, Undisturbed, Held, AccessTypeOK
<1>8. RefreshTokenKept'
  BY DEF JoinOrLeave, Outside, tables, AccessInv, RefreshTokenKept, SpentStored, Storing, Undisturbed,
         Held, AccessTypeOK
<1>9. QED
  BY <1>1, <1>2, <1>3, <1>4, <1>5, <1>6, <1>7, <1>8 DEF AccessInv

LEMMA RevokeKeeps ==
  ASSUME AccessAssumption, AccessInv, NEW a \in Accounts, Revoke(a)
  PROVE  AccessInv'
<1>1. /\ user \in [Accounts -> User] /\ pass \in [Processes -> Pass] /\ request \in [Requests -> Request]
      /\ UNCHANGED <<config, faults, ended, member, session, token>>
  BY DEF Revoke, Outside, AccessInv, AccessTypeOK
<1>2. /\ user' \in [Accounts -> User]
      /\ \A b \in Accounts : /\ user'[b].status = user[b].status
                             /\ user'[b].oauth.refresh = user[b].oauth.refresh
  <2> DEFINE c == [user[a].oauth EXCEPT !.revoked = TRUE]
             u == [user[a] EXCEPT !.oauth = c]
  <2>1. c \in Credential /\ c.refresh = user[a].oauth.refresh
    BY <1>1, HeldCredential, RevokedFacts
  <2>2. user' = [user EXCEPT ![a] = u]
    BY <1>1 DEF Revoke
  <2> HIDE DEF c
  <2>3. u \in User /\ u.status = user[a].status /\ u.oauth = c
    BY <1>1, <2>1, HolderFacts
  <2> HIDE DEF u
  <2>4. QED
    BY <1>1, <2>1, <2>2, <2>3
<1>3. /\ pass' \in [Processes -> Pass]
      /\ \A p \in Processes :
           /\ pass'[p].pc = pass[p].pc /\ pass'[p].who = pass[p].who /\ pass'[p].why = pass[p].why
           /\ \A b \in Accounts :
                /\ pass'[p].copy[b].oauth.refresh = pass[p].copy[b].oauth.refresh
                /\ pass[p].copy[b].oauth.revoked => pass'[p].copy[b].oauth.revoked
  <2> DEFINE new(p) == [pass[p] EXCEPT !.copy[a].oauth.revoked = TRUE]
  <2>1. ASSUME NEW p \in Processes
        PROVE  /\ new(p) \in Pass
               /\ new(p).pc = pass[p].pc /\ new(p).who = pass[p].who /\ new(p).why = pass[p].why
               /\ \A b \in Accounts :
                    /\ new(p).copy[b].oauth.refresh = pass[p].copy[b].oauth.refresh
                    /\ pass[p].copy[b].oauth.revoked => new(p).copy[b].oauth.revoked
    <3> DEFINE held == pass[p].copy[a]
               c == [held.oauth EXCEPT !.revoked = TRUE]
               f == [pass[p].copy EXCEPT ![a] = [held EXCEPT !.oauth = c]]
    <3>1. pass[p] \in Pass /\ pass[p].copy \in [Accounts -> Copy] /\ held \in Copy
      BY <1>1, <2>1 DEF Pass
    <3>2. c \in Credential /\ c.refresh = held.oauth.refresh /\ c.revoked
      BY <3>1, HeldCredential, RevokedFacts
    <3>3. new(p) = [pass[p] EXCEPT !.copy = f]
      BY <3>1 DEF Pass, Copy
    <3> HIDE DEF c, new
    <3>4. [held EXCEPT !.oauth = c] \in Copy /\ [held EXCEPT !.oauth = c].oauth = c
      BY <3>1, <3>2, HolderFacts
    <3>5. /\ f \in [Accounts -> Copy]
          /\ \A b \in Accounts :
               /\ f[b].oauth.refresh = pass[p].copy[b].oauth.refresh
               /\ pass[p].copy[b].oauth.revoked => f[b].oauth.revoked
      BY <3>1, <3>2, <3>4
    <3> HIDE DEF f
    <3>6. QED
      BY <3>1, <3>3, <3>5 DEF Pass
  <2>2. pass' = [p \in Processes |->
          IF a \in pass[p].todo \/ a = pass[p].who THEN new(p) ELSE pass[p]]
    BY DEF Revoke
  <2> HIDE DEF new
  <2>3. QED
    BY <1>1, <2>1, <2>2
<1>4. /\ request' \in [Requests -> Request]
      /\ \A q \in Requests :
           /\ request'[q].pc = request[q].pc /\ request'[q].who = request[q].who
           /\ request'[q].cred = request[q].cred /\ request'[q].late = request[q].late
           /\ request'[q].oauth.refresh = request[q].oauth.refresh
  <2> DEFINE taken(q) == [request[q] EXCEPT !.oauth = [request[q].oauth EXCEPT !.revoked = TRUE]]
  <2>1. ASSUME NEW q \in Requests
        PROVE  /\ taken(q) \in Request
               /\ taken(q).pc = request[q].pc /\ taken(q).who = request[q].who
               /\ taken(q).cred = request[q].cred /\ taken(q).late = request[q].late
               /\ taken(q).oauth.refresh = request[q].oauth.refresh
    <3> DEFINE c == [request[q].oauth EXCEPT !.revoked = TRUE]
    <3>1. request[q] \in Request
      BY <1>1
    <3>2. c \in Credential /\ c.refresh = request[q].oauth.refresh
      BY <3>1, HeldCredential, RevokedFacts
    <3>3. taken(q) = [request[q] EXCEPT !.oauth = c]
      OBVIOUS
    <3> HIDE DEF c, taken
    <3>4. QED
      BY <3>1, <3>2, <3>3 DEF Request
  <2>2. request' = [q \in Requests |->
          IF request[q].pc = "upsert" /\ request[q].who = a THEN taken(q) ELSE request[q]]
    BY DEF Revoke
  <2> HIDE DEF taken
  <2>3. QED
    BY <1>1, <2>1, <2>2
<1>5. AccessTypeOK'
  BY <1>1, <1>2, <1>3, <1>4 DEF AccessInv, AccessTypeOK
<1>6. Stopped' /\ EndedGone' /\ DisableEndsSessions'
  <2>1. Stopped'
    BY <1>1, <1>3, <1>4 DEF AccessInv, Stopped, Up
  <2>2. EndedGone'
    BY <1>1 DEF AccessInv, EndedGone
  <2>3. DisableEndsSessions'
    BY <1>1, <1>3 DEF AccessInv, DisableEndsSessions, Undisturbed
  <2>4. QED
    BY <2>1, <2>2, <2>3
<1>7. Known'
  <2>1. \A t \in Tokens : token[t].who \in Accounts \cup {None}
    BY DEF AccessInv, AccessTypeOK, Token
  <2>2. \A b \in Accounts : user'[b].status = user[b].status
    BY <1>2
  <2>3. /\ \A t \in Tokens : token'[t].who # None => user'[token'[t].who].status # "unknown"
        /\ \A s \in Sessions : session'[s].status = "on" =>
             session'[s].who \in Accounts /\ user'[session'[s].who].status # "unknown"
    BY <1>1, <2>1, <2>2 DEF AccessInv, Known
  <2>4. /\ \A q \in Requests : request'[q].pc # "idle" => request'[q].who \in Accounts
        /\ \A q \in Requests : request'[q].pc \notin {"idle", "upsert"} =>
             user'[request'[q].who].status # "unknown"
    BY <1>4, <2>2 DEF AccessInv, Known
  <2>5. \A q \in Requests : request'[q].pc \in {"drop", "user", "expel", "touch", "act"} =>
          request'[q].cred \in Sessions /\ session'[request'[q].cred].status # "unused"
    BY <1>1, <1>4 DEF AccessInv, Known
  <2>6. QED
    BY <2>3, <2>4, <2>5 DEF Known
<1>8. LateLeaves'
  <2>1. \A p \in Processes, b \in Accounts : Refused(p, b)' = Refused(p, b)
    BY <1>1, <1>2 DEF Refused, Foreign
  <2>2. \A q \in Requests : request[q].late = "barred" => request[q].who \in Accounts
    BY DEF AccessInv, LateLeaves, Known
  <2>3. QED
    BY <1>4, <2>1, <2>2 DEF AccessInv, LateLeaves, AccessAssumption
<1>9. \A p \in Processes : pass[p].pc \in {"refresh", "disable"} => pass[p].who \in Accounts
  BY <1>1 DEF AccessInv, AccessTypeOK, Pass
<1>10. SpentStored'
  <2>1. SpentStored
    BY DEF AccessInv
  <2>2. \A q \in Requests : request'[q].oauth.refresh # "spent"
    BY <1>4, <2>1 DEF SpentStored
  <2>3. ASSUME Undisturbed
        PROVE  /\ \A p \in Processes, b \in Accounts : pass'[p].copy[b].oauth.refresh # "spent"
               /\ \A b \in Accounts : user'[b].oauth.refresh = "spent" =>
                    \E p \in Processes : Storing(p, b)'
               /\ \A p \in Processes : pass'[p].pc = "refresh" => Held(p)'.refresh # "none"
    <3>1. \A p \in Processes, b \in Accounts : pass'[p].copy[b].oauth.refresh # "spent"
      BY <1>3, <2>1, <2>3 DEF SpentStored
    <3>2. \A b \in Accounts : user'[b].oauth.refresh = "spent" =>
            \E p \in Processes : Storing(p, b)'
      <4>1. ASSUME NEW b \in Accounts, user'[b].oauth.refresh = "spent"
            PROVE  \E p \in Processes : pass[p].pc = "store" /\ pass[p].who = b
        BY <1>2, <2>1, <2>3, <4>1 DEF SpentStored, Storing
      <4>2. QED
        BY <1>3, <4>1 DEF Storing
    <3>3. \A p \in Processes : pass'[p].pc = "refresh" => Held(p)'.refresh # "none"
      BY <1>3, <1>9, <2>1, <2>3 DEF SpentStored, Held
    <3>4. QED
      BY <3>1, <3>2, <3>3
  <2>4. QED
    BY <1>1, <2>2, <2>3 DEF SpentStored, Undisturbed
<1>11. RefreshTokenKept'
  BY <1>1, <1>3, <1>9 DEF AccessInv, RefreshTokenKept, Undisturbed, Held
<1>12. QED
  BY <1>5, <1>6, <1>7, <1>8, <1>10, <1>11 DEF AccessInv

LEMMA AgeTokenKeeps ==
  ASSUME AccessAssumption, AccessInv, NEW a \in Accounts, AgeToken(a)
  PROVE  AccessInv'
<1>1. /\ user \in [Accounts -> User]
      /\ UNCHANGED <<config, faults, member, session, token, request, pass, ended>>
  BY DEF AgeToken, Outside, AccessInv, AccessTypeOK
<1>2. /\ user' \in [Accounts -> User]
      /\ \A b \in Accounts : /\ user'[b].status = user[b].status
                             /\ user'[b].oauth.refresh = user[b].oauth.refresh
  <2> DEFINE c == [user[a].oauth EXCEPT !.access = "old"]
             u == [user[a] EXCEPT !.oauth = c]
  <2>1. c \in Credential /\ c.refresh = user[a].oauth.refresh
    BY <1>1, HeldCredential, RevokedFacts
  <2>2. user' = [user EXCEPT ![a] = u]
    BY <1>1 DEF AgeToken
  <2> HIDE DEF c
  <2>3. u \in User /\ u.status = user[a].status /\ u.oauth = c
    BY <1>1, <2>1, HolderFacts
  <2> HIDE DEF u
  <2>4. QED
    BY <1>1, <2>1, <2>2, <2>3
<1>3. QED
  BY <1>1, <1>2, RowKeeps

LEMMA ExpireSessionKeeps ==
  ASSUME AccessAssumption, AccessInv, NEW s \in Sessions, ExpireSession(s)
  PROVE  AccessInv'
<1>1. AccessTypeOK'
  <2>1. session[s] \in Session /\ session \in [Sessions -> Session]
    BY DEF AccessInv, AccessTypeOK
  <2> DEFINE t == [session[s] EXCEPT !.expired = TRUE]
  <2>2. t \in Session /\ t.status = session[s].status /\ t.who = session[s].who
    BY <2>1 DEF Session
  <2>3. session' = [session EXCEPT ![s] = t]
    BY DEF ExpireSession
  <2> HIDE DEF t
  <2>4. /\ session' \in [Sessions -> Session]
        /\ \A q \in Sessions : /\ session'[q].status = session[q].status
                               /\ session'[q].who = session[q].who
    BY <2>1, <2>2, <2>3
  <2>5. UNCHANGED <<config, faults, ended, member, user, token, request, pass>>
    BY DEF ExpireSession, Outside
  <2>6. QED
    BY <2>4, <2>5 DEF AccessInv, AccessTypeOK
<1>2. Stopped'
  BY DEF ExpireSession, Outside, tables, AccessInv, Stopped, AccessTypeOK, Up
<1>3. Known'
  BY DEF ExpireSession, Outside, tables, AccessInv, Known, AccessTypeOK, Session
<1>4. EndedGone'
  BY DEF ExpireSession, Outside, tables, AccessInv, EndedGone, AccessTypeOK
<1>5. LateLeaves'
  BY DEF ExpireSession, Outside, tables, AccessInv, LateLeaves, Refused, Foreign, AccessTypeOK
<1>6. DisableEndsSessions'
  BY DEF ExpireSession, Outside, tables, AccessInv, DisableEndsSessions, Undisturbed,
         AccessTypeOK
<1>7. SpentStored'
  BY DEF ExpireSession, Outside, tables, AccessInv, SpentStored, Storing, Undisturbed, Held,
         AccessTypeOK
<1>8. RefreshTokenKept'
  BY DEF ExpireSession, Outside, tables, AccessInv, RefreshTokenKept, SpentStored,
         Undisturbed, Held, AccessTypeOK
<1>9. QED
  BY <1>1, <1>2, <1>3, <1>4, <1>5, <1>6, <1>7, <1>8 DEF AccessInv

LEMMA ExpireTokenKeeps ==
  ASSUME AccessAssumption, AccessInv, NEW t \in Tokens, ExpireToken(t)
  PROVE  AccessInv'
<1>1. AccessTypeOK'
  <2>1. token \in [Tokens -> Token] /\ token[t] \in Token
    BY DEF AccessInv, AccessTypeOK
  <2>2. \A k \in Token : [k EXCEPT !.expired = TRUE] \in Token
    BY DEF Token
  <2>3. token' \in [Tokens -> Token]
    BY <2>1, <2>2 DEF ExpireToken
  <2>4. QED
    BY <2>3 DEF ExpireToken, Outside, AccessInv, AccessTypeOK
<1>2. Stopped'
  BY DEF ExpireToken, Outside, tables, AccessInv, Stopped, AccessTypeOK, Up
<1>3. Known'
  BY DEF ExpireToken, Outside, tables, AccessInv, Known, AccessTypeOK, Token
<1>4. EndedGone'
  BY DEF ExpireToken, Outside, tables, AccessInv, EndedGone, AccessTypeOK
<1>5. LateLeaves'
  BY DEF ExpireToken, Outside, tables, AccessInv, LateLeaves, Refused, Foreign, AccessTypeOK
<1>6. DisableEndsSessions'
  BY DEF ExpireToken, Outside, tables, AccessInv, DisableEndsSessions, Undisturbed,
         AccessTypeOK
<1>7. SpentStored'
  BY DEF ExpireToken, Outside, tables, AccessInv, SpentStored, Storing, Undisturbed, Held, AccessTypeOK
<1>8. RefreshTokenKept'
  BY DEF ExpireToken, Outside, tables, AccessInv, RefreshTokenKept, SpentStored, Storing, Undisturbed,
         Held, AccessTypeOK
<1>9. QED
  BY <1>1, <1>2, <1>3, <1>4, <1>5, <1>6, <1>7, <1>8 DEF AccessInv

LEMMA CheckDueKeeps ==
  ASSUME AccessAssumption, AccessInv, NEW a \in Accounts, CheckDue(a)
  PROVE  AccessInv'
<1>1. /\ user \in [Accounts -> User]
      /\ UNCHANGED <<config, faults, member, session, token, request, pass, ended>>
  BY DEF CheckDue, AccessInv, AccessTypeOK
<1>2. /\ user' \in [Accounts -> User]
      /\ \A b \in Accounts : /\ user'[b].status = user[b].status
                             /\ user'[b].oauth.refresh = user[b].oauth.refresh
  <2>1. \A u \in User : /\ [u EXCEPT !.checked = FALSE] \in User
                         /\ [u EXCEPT !.checked = FALSE].status = u.status
                         /\ [u EXCEPT !.checked = FALSE].oauth = u.oauth
    BY DEF User
  <2> DEFINE row == [user[a] EXCEPT !.checked = FALSE]
  <2>2. user' = [user EXCEPT ![a] = row]
    BY DEF CheckDue
  <2>3. row \in User /\ row.status = user[a].status /\ row.oauth = user[a].oauth
    BY <1>1, <2>1
  <2> HIDE DEF row
  <2>4. QED
    BY <1>1, <2>2, <2>3
<1>3. QED
  BY <1>1, <1>2, RowKeeps

-------------------------------------------------------------------------------
(* The invariant, and the properties that follow from it.                    *)

LEMMA InitHolds ==
  ASSUME AccessAssumption, AccessInit
  PROVE  AccessInv
<1>1. /\ NoUser \in User /\ NoSession \in Session /\ NoToken \in Token
      /\ NoRequest \in Request
  BY NoPassFacts DEF NoUser, User, NoSession, Session, NoToken, Token
<1>2. /\ NoPass \in Pass /\ NoPass.pc = "idle" /\ NoPass.who = None
      /\ \A a \in Accounts : NoPass.copy[a] = NoCopy
  BY NoPassFacts
<1>3. AccessTypeOK
  BY <1>1, <1>2 DEF AccessInit, AccessTypeOK, AccessAssumption, NoSession
<1>4. Stopped /\ Known /\ EndedGone /\ LateLeaves
  BY <1>2 DEF AccessInit, Stopped, Known, EndedGone, LateLeaves, NoSession, NoToken, NoRequest
<1>5. DisableEndsSessions /\ RefreshTokenKept
  BY <1>2 DEF AccessInit, DisableEndsSessions, RefreshTokenKept, NoSession
<1>6. SpentStored
  BY <1>2 DEF AccessInit, SpentStored, NoRequest, NoUser, NoOAuth, Answer, NoCopy
<1>7. QED
  BY <1>3, <1>4, <1>5, <1>6 DEF AccessInv

LEMMA StutterKeeps ==
  ASSUME AccessInv, UNCHANGED accessVars
  PROVE  AccessInv'
BY DEF accessVars, tables, AccessInv, AccessTypeOK, Stopped, Up, Storing, Known, EndedGone, LateLeaves,
       DisableEndsSessions, SpentStored, RefreshTokenKept, Undisturbed, Held, Refused, Foreign

LEMMA RequestKeeps ==
  ASSUME AccessAssumption, AccessInv, NEW r \in Requests, RequestStep(r)
  PROVE  AccessInv'
<1>1. CASE \E s \in Sessions : BeginSession(r, s) \/ DeleteSession(r, s) \/ CreateSession(r, s)
  BY <1>1, BeginSessionKeeps, DeleteSessionKeeps, CreateSessionKeeps
<1>2. CASE \E t \in Tokens : BeginToken(r, t) \/ CreateToken(r, t) \/ DeleteToken(r, t)
  BY <1>2, BeginTokenKeeps, CreateTokenKeeps, DeleteTokenKeeps
<1>3. CASE \E a \in Accounts, issued \in Issued : BeginLogin(r, a, issued)
  BY <1>3, BeginLoginKeeps
<1>4. CASE DropSession(r) \/ CheckUser(r) \/ ExpelUser(r) \/ TouchSession(r)
  BY <1>4, DropSessionKeeps, CheckUserKeeps, ExpelUserKeeps, TouchSessionKeeps
<1>5. CASE ServePage(r) \/ Logout(r) \/ DeleteAllSessions(r) \/ CheckTokenUser(r)
  BY <1>5, ServePageKeeps, LogoutKeeps, DeleteAllSessionsKeeps, CheckTokenUserKeeps
<1>6. CASE UpsertUser(r) \/ Abandon(r)
  BY <1>6, UpsertUserKeeps, AbandonKeeps
<1>7. QED
  BY <1>1, <1>2, <1>3, <1>4, <1>5, <1>6 DEF RequestStep

LEMMA PassKeeps ==
  ASSUME AccessAssumption, AccessInv, NEW p \in Processes, PassStep(p)
  PROVE  AccessInv'
<1>1. CASE StartPass(p) \/ (\E a \in Accounts : NextUser(p, a)) \/ EndPass(p)
  BY <1>1, StartPassKeeps, NextUserKeeps, EndPassKeeps
<1>2. CASE RefreshRefused(p) \/ RefreshRenews(p) \/ RefreshFails(p) \/ StoreToken(p)
  BY <1>2, RefreshRefusedKeeps, RefreshRenewsKeeps, RefreshFailsKeeps, StoreTokenKeeps
<1>3. CASE Ask(p) \/ AskFails(p) \/ Mark(p) \/ Disable(p) \/ Expel(p)
  BY <1>3, AskKeeps, AskFailsKeeps, MarkKeeps, DisableKeeps, ExpelKeeps
<1>4. QED
  BY <1>1, <1>2, <1>3 DEF PassStep

LEMMA WorldKeeps ==
  ASSUME AccessAssumption, AccessInv, WorldStep
  PROVE  AccessInv'
<1>1. CASE \E a \in Accounts : JoinOrLeave(a) \/ Revoke(a) \/ AgeToken(a) \/ CheckDue(a)
  BY <1>1, JoinOrLeaveKeeps, RevokeKeeps, AgeTokenKeeps, CheckDueKeeps
<1>2. CASE \E s \in Sessions : ExpireSession(s)
  BY <1>2, ExpireSessionKeeps
<1>3. CASE \E t \in Tokens : ExpireToken(t)
  BY <1>3, ExpireTokenKeeps
<1>4. QED
  BY <1>1, <1>2, <1>3 DEF WorldStep

\* Every step keeps what requests, rows and passes know of each other.
THEOREM Inductive == AccessSpec => []AccessInv
<1>1. AccessInit => AccessInv
  BY InitHolds, AccessAssumption
<1>2. AccessInv /\ [AccessNext]_accessVars => AccessInv'
  <2>1. SUFFICES ASSUME AccessInv, AccessNext \/ UNCHANGED accessVars
                 PROVE  AccessInv'
    OBVIOUS
  <2>2. ASSUME NEW p \in Processes, NEW c \in Configs, StartServer(p, c) PROVE AccessInv'
    BY <2>1, <2>2, StartServerKeeps, AccessAssumption
  <2>3. ASSUME NEW p \in Processes, StopServer(p) \/ PassStep(p) PROVE AccessInv'
    BY <2>1, <2>3, StopServerKeeps, PassKeeps, AccessAssumption
  <2>4. CASE \E r \in Requests : RequestStep(r)
    BY <2>1, <2>4, RequestKeeps, AccessAssumption
  <2>5. CASE WorldStep
    BY <2>1, <2>5, WorldKeeps, AccessAssumption
  <2>6. CASE UNCHANGED accessVars
    BY <2>1, <2>6, StutterKeeps
  <2>7. QED
    BY <2>1, <2>2, <2>3, <2>4, <2>5, <2>6 DEF AccessNext
<1>3. QED
  BY <1>1, <1>2, PTL DEF AccessSpec

\* Every variable has its type, whatever requests, sign-ins and passes do.
THEOREM TypesHold == AccessSpec => []AccessTypeOK
<1>1. AccessInv => AccessTypeOK
  BY DEF AccessInv
<1>2. QED
  BY <1>1, Inductive, PTL

\* AuthenticateSession and AuthenticateToken let nobody in who begins with a
\* session that was given up, or as a user who was disabled, unless they sign in.
THEOREM LateIsRefused == AccessSpec => []RevokedStaysOut
<1>1. AccessInv => RevokedStaysOut
  <2>1. SUFFICES ASSUME AccessInv, NEW r \in Requests,
                        request[r].pc \in {"touch", "act", "serve"}
                 PROVE  request[r].late = "no"
    BY DEF RevokedStaysOut
  <2>2. request[r].late \in {"no", "barred", "ended"}
    BY <2>1 DEF AccessInv, AccessTypeOK, Request
  <2>3. QED
    BY <2>1, <2>2 DEF AccessInv, LateLeaves
<1>2. QED
  BY <1>1, Inductive, PTL

\* disable leaves a user no session that a later sign-in could bring back.
THEOREM DisabledLoseSessions == AccessSpec => []DisableEndsSessions
<1>1. AccessInv => DisableEndsSessions
  BY DEF AccessInv
<1>2. QED
  BY <1>1, Inductive, PTL

\* Revalidate disables nobody for a refresh token that accessToken has spent, in this
\* process or in an earlier pass of another; only two passes that had copies of the
\* same token at the same time can do that to each other.
THEOREM SpentTokenIsNobodysFault == AccessSpec => []RefreshTokenKept
<1>1. AccessInv => RefreshTokenKept
  BY DEF AccessInv
<1>2. QED
  BY <1>1, Inductive, PTL
===============================================================================
