--------------------------- MODULE ScheduleProperties ---------------------------
(***************************************************************************)
(* What the schedulers promise, whatever synchronisations come in between. *)
(***************************************************************************)
EXTENDS Schedules

\* Every variable holds a value of its type, the list of a tick has one entry for
\* a workflow and none for the one just queued, and the next time of a row is one
\* of its expression.
ScheduleTypeOK ==
  /\ now \in Moments
  /\ sched \in [Workflows -> Row \cup {NoRow}]
  /\ \A w \in Workflows :
       sched[w] # NoRow => \E t \in Moments : sched[w].next = NextTime[sched[w].cron][t]
  /\ due \in [Processes -> SUBSET Entry]
  /\ queued \in [Processes -> Queued \cup {NoEntry}]
  /\ \A p \in Processes :
       /\ \A s, t \in due[p] : s.workflow = t.workflow => s = t
       /\ queued[p] # NoEntry =>
            queued[p].since <= now /\ \A s \in due[p] : s.workflow # queued[p].workflow
  /\ ran \in [Workflows -> SUBSET Moments]
  /\ held \in [Workflows -> SUBSET Moments]
  /\ again \in BOOLEAN
  /\ failures \in 0 .. MaxFailures /\ crashes \in 0 .. MaxCrashes

\* One run for one due time.  A time a workflow was queued for comes up again only
\* if its row could not be written back, or another scheduler had listed it before
\* it was, or a writer computed it before it came and wrote it after (or it is the
\* zero time), although the table is written from copies in the middle of a tick.
OncePerDueTime == ~again

\* A scheduler only moves a row on when a run was queued for the time it lists: a
\* run that could not be queued stays due.
NoDueTimeDropped ==
  [][\A p \in Processes :
       queued[p] # NoEntry /\ queued'[p] = NoEntry /\ sched' # sched
         => queued[p].next \in ran[queued[p].workflow]]_schedVars

\* The tickers fire and the loop of a tick goes on.
FairScheduleSpec == ScheduleSpec /\ \A p \in Processes : WF_schedVars(Tick(p))

\* A row that is due does not stay: a run is queued and it is moved on, or it is
\* replaced by a synchronisation; failures and restarts only delay it.  The zero
\* time is left out: a row that has it stays due.
DueRuns ==
  \A w \in Workflows, c \in Crons, x \in Moments \ {Zero} :
    (sched[w] = [cron |-> c, next |-> x] /\ x <= now) ~> sched[w] # [cron |-> c, next |-> x]
===============================================================================
