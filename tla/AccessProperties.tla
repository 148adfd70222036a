--------------------------- MODULE AccessProperties ---------------------------
(***************************************************************************)
(* Who gets in, who is kept out, and who must not be thrown out.           *)
(***************************************************************************)
EXTENDS Access

\* Every variable holds a value of its type; a session belongs to somebody, and a
\* pass that is at a user knows which.
AccessTypeOK ==
  /\ config \in [Processes -> Configs \cup {None}]
  /\ faults \in 0 .. MaxFaults
  /\ member \in [Accounts -> BOOLEAN]
  /\ user \in [Accounts -> User]
  /\ session \in [Sessions -> Session]
  /\ \A s \in Sessions : session[s].status = "on" => session[s].who # None
  /\ token \in [Tokens -> Token]
  /\ request \in [Requests -> Request]
  /\ pass \in [Processes -> Pass]
  /\ \A p \in Processes : pass[p].pc \in {"idle", "next"} <=> pass[p].who = None
  /\ ended \subseteq Sessions

\* A request that begins after its session or token was given up, or expired, or
\* after its user was disabled or the provider changed, is not served, whatever
\* other requests with the same session, sign-ins and passes do meanwhile; only
\* a new sign-in of the user lets such a request through.
RevokedStaysOut ==
  \A r \in Requests : request[r].pc \in {"touch", "act", "serve"} => request[r].late = "no"

\* No statement failed, no answer was lost, and the process was not stopped.
Undisturbed == faults = 0

\* disable ends every session the user had, so that a later sign-in, which makes
\* the user active again, does not bring old sessions back to life: as long as no
\* statement failed and the process was not stopped in between.
DisableEndsSessions ==
  Undisturbed =>
    \A s \in Sessions : session[s].status = "on" /\ session[s].outcast
      => \E p \in Processes : pass[p].pc = "expel" /\ pass[p].who = session[s].who

\* "A revoked token disables the user": refresh tokens are spent when they are
\* used, and passes work on copies of rows that sign-ins replace; even so no user
\* is disabled for a refresh token that pici itself has spent, as long as no
\* answer or statement was lost on the way and no process was stopped.  But for one
\* thing: two processes had copies of the same refresh token at a time, and the
\* pass of the other used it; nothing keeps them from it.
RefreshTokenKept ==
  \A p \in Processes :
    (Undisturbed /\ pass[p].pc = "disable" /\ pass[p].why = "refresh")
      => Held(p).revoked \/ Held(p).refresh = "taken"

-------------------------------------------------------------------------------
(* Liveness.  A pass is a loop with deadlines on its calls, the provider     *)
(* answers now and then, a login that was let in is carried through or       *)
(* dropped, and a process that is down is started again.                     *)

PassGoesOn(p) == \/ StartPass(p) \/ EndPass(p) \/ StoreToken(p)
                 \/ Mark(p) \/ Disable(p) \/ Expel(p)
                 \/ \E a \in Accounts : NextUser(p, a)
RefreshAnswered(p) == RefreshRefused(p) \/ RefreshRenews(p)
RefreshEnds(p) == RefreshAnswered(p) \/ RefreshFails(p)

FairAccessSpec ==
  /\ AccessSpec
  /\ \A p \in Processes :
       /\ WF_accessVars(\E c \in Configs : StartServer(p, c))
       /\ WF_accessVars(PassGoesOn(p))
       /\ SF_accessVars(Ask(p))
       /\ WF_accessVars(RefreshEnds(p)) /\ SF_accessVars(RefreshAnswered(p))
  /\ \A r \in Requests : WF_accessVars((UpsertUser(r) \/ Abandon(r)))
  /\ \A a \in Accounts : WF_accessVars(CheckDue(a))

\* Whoever is no longer entitled to access, for good, is disabled in the end: a
\* sign-in that was decided on before they left, a check just marked or an outage
\* of the provider only delay it.
LeaversLoseAccess ==
  \A a \in Accounts :
    <>[](\A p \in Processes : ~Entitled(p, a)) => <>[](user[a].status # "active")
===============================================================================
