----------------------------- MODULE TriggersProofs -----------------------------
(***************************************************************************)
(* A due time is queued once, and none is dropped, for every set of        *)
(* processes and workflows, every set of cron expressions and every bound. *)
(* Webhooks, listings and runs implement `Schedules', so this holds in     *)
(* their company too.  And, for every repository, a webhook starts what    *)
(* its own commit declares.                                                *)
(***************************************************************************)
EXTENDS TriggersProperties, ScheduleProperties, TLAPS

\* The list of a tick is a function of the workflow, and what it still holds need
\* not stay away.
DueFresh ==
  \A p \in Processes :
    /\ \A s, t \in due[p] : s.workflow = t.workflow => s = t
    /\ \A s \in due[p] : s.next <= now /\ s.next \notin held[s.workflow]

\* No row holds a time that must not come again, but for one about to be moved on.
RowsFresh ==
  \A w \in Workflows :
    sched[w].next \in held[w] =>
      \E p \in Processes : queued[p].workflow = w /\ queued[p].next = sched[w].next

\* The variables of the schedulers have their types, and what they know is past.
Shaped ==
  /\ now \in Moments
  /\ sched \in [Workflows -> Row \cup {NoRow}]
  /\ due \in [Processes -> SUBSET Entry]
  /\ queued \in [Processes -> Queued \cup {NoEntry}]
  /\ held \in [Workflows -> SUBSET Moments]
  /\ \A p \in Processes : queued[p].since <= now
  /\ \A w \in Workflows : \A t \in held[w] : t <= now

\* The inductive invariant: the types that matter, and why neither a list nor a row
\* brings a time back.
Fresh == Shaped /\ DueFresh /\ RowsFresh /\ again = FALSE

USE SchedulesAssumption

-------------------------------------------------------------------------------
\* What WriteNext writes is not a time that must stay away: it lies ahead, or it is
\* excused.
LEMMA WriteAhead ==
  ASSUME Shaped, NEW w \in Workflows, NEW c \in Crons, NEW t \in Moments, t <= now,
         WriteNext(w, c, t)
  PROVE  /\ sched' \in [Workflows -> Row \cup {NoRow}]
         /\ held' \in [Workflows -> SUBSET Moments]
         /\ sched'[w].next \notin held'[w]
         /\ \A v \in Workflows : v # w => sched'[v] = sched[v]
         /\ \A v \in Workflows : held'[v] \subseteq held[v]
<1> DEFINE x == NextTime[c][t]
<1>1. x \in Moments \cup {Never} /\ (x > t \/ x = Zero)
  OBVIOUS
<1>2. sched' = [sched EXCEPT ![w] = [cron |-> c, next |-> x]]
  BY DEF WriteNext, UpsertSchedule, Replace
<1>3. [cron |-> c, next |-> x] \in Row
  BY <1>1 DEF Row
<1> HIDE DEF x
<1>4. sched' \in [Workflows -> Row \cup {NoRow}] /\ sched'[w].next = x
  BY <1>2, <1>3 DEF Shaped
<1>5. \A v \in Workflows : v # w => sched'[v] = sched[v]
  BY <1>2 DEF Shaped
<1>6. CASE t < now \/ x = Zero
  <2>1. held' = [v \in Workflows |-> IF v = w THEN held[v] \ {x} ELSE held[v]]
    BY <1>6 DEF WriteNext, Excuse, x
  <2>2. held \in [Workflows -> SUBSET Moments]
    BY DEF Shaped
  <2>3. held' \in [Workflows -> SUBSET Moments]
    BY <2>1, <2>2
  <2>4. x \notin held'[w] /\ \A v \in Workflows : held'[v] \subseteq held[v]
    BY <2>1
  <2> QED
    BY <2>3, <2>4, <1>4, <1>5
<1>7. CASE ~(t < now \/ x = Zero)
  <2>1. held' = held
    BY <1>7 DEF WriteNext, x
  <2>2. t = now /\ x > now
    BY <1>1, <1>7 DEF Shaped, Moments
  <2>3. x \notin held[w]
    BY <1>1, <2>2 DEF Shaped, Moments, Never
  <2> QED
    BY <2>1, <2>3, <1>4, <1>5 DEF Shaped
<1> QED
  BY <1>6, <1>7

\* A time that needs to stay away no longer disturbs nothing.
LEMMA LessHeld ==
  ASSUME Fresh, held' \in [Workflows -> SUBSET Moments],
         \A v \in Workflows : held'[v] \subseteq held[v],
         due' \in [Processes -> SUBSET Entry],
         \A p \in Processes : due'[p] \subseteq due[p],
         UNCHANGED now
  PROVE  DueFresh' /\ \A w \in Workflows : \A t \in held'[w] : t <= now
<1>1. \A p \in Processes : \A s \in due[p] : s.workflow \in Workflows
  BY DEF Fresh, Shaped, Entry
<1>2. DueFresh'
  BY <1>1 DEF Fresh, DueFresh
<1> QED
  BY <1>2 DEF Fresh, Shaped

\* A writer replaces the row of a workflow, and the entry in its hands, if any, is
\* of that workflow.
LEMMA WriteFresh ==
  ASSUME Fresh, NEW w \in Workflows, NEW c \in Crons, NEW t \in Moments, t <= now,
         WriteNext(w, c, t), UNCHANGED <<now, due, again>>,
         \/ UNCHANGED queued
         \/ \E p \in Processes : /\ queued[p].workflow = w
                                 /\ queued' = [queued EXCEPT ![p] = NoEntry]
  PROVE  Fresh'
<1>1. /\ sched' \in [Workflows -> Row \cup {NoRow}]
      /\ held' \in [Workflows -> SUBSET Moments]
      /\ sched'[w].next \notin held'[w]
      /\ \A v \in Workflows : v # w => sched'[v] = sched[v]
      /\ \A v \in Workflows : held'[v] \subseteq held[v]
  BY WriteAhead DEF Fresh
<1>2. DueFresh' /\ \A v \in Workflows : \A x \in held'[v] : x <= now
  BY <1>1, LessHeld DEF Fresh, Shaped
<1>3. /\ queued' \in [Processes -> Queued \cup {NoEntry}]
      /\ \A p \in Processes : queued'[p].since <= now
      /\ \A p \in Processes : queued[p].workflow # w => queued'[p] = queued[p]
  <2>1. queued \in [Processes -> Queued \cup {NoEntry}] /\ \A p \in Processes : queued[p].since <= now
    BY DEF Fresh, Shaped
  <2>2. NoEntry.since <= now
    BY DEF Fresh, Shaped, NoEntry, Zero, Moments
  <2>3. CASE UNCHANGED queued
    BY <2>1, <2>3
  <2>4. ASSUME NEW p \in Processes, queued[p].workflow = w,
               queued' = [queued EXCEPT ![p] = NoEntry]
        PROVE  /\ queued' \in [Processes -> Queued \cup {NoEntry}]
               /\ \A q \in Processes : queued'[q].since <= now
               /\ \A q \in Processes : queued[q].workflow # w => queued'[q] = queued[q]
    BY <2>1, <2>2, <2>4
  <2> QED
    BY <2>3, <2>4
<1>4. ASSUME NEW v \in Workflows, sched'[v].next \in held'[v]
      PROVE  \E p \in Processes : queued'[p].workflow = v /\ queued'[p].next = sched'[v].next
  <2>1. v # w /\ sched'[v] = sched[v] /\ sched[v].next \in held[v]
    BY <1>1, <1>4
  <2>2. PICK p \in Processes : queued[p].workflow = v /\ queued[p].next = sched[v].next
    BY <2>1 DEF Fresh, RowsFresh
  <2> QED
    BY <1>3, <2>1, <2>2
<1>5. RowsFresh'
  BY <1>4 DEF RowsFresh
<1>6. Shaped'
  BY <1>1, <1>2, <1>3 DEF Fresh, Shaped
<1> QED
  BY <1>2, <1>5, <1>6 DEF Fresh

\* SyncSchedule, whatever expression it is given and whenever it computed the next
\* time, leaves no row with a time that must stay away.
LEMMA SyncFresh ==
  ASSUME Fresh, NEW w \in Workflows, NEW c, NEW t \in Moments, t <= now,
         SyncSchedule(w, c, t), UNCHANGED <<now, due, queued, again>>
  PROVE  Fresh'
<1>1. CASE c = NoCron
  <2>1. sched' = [sched EXCEPT ![w] = NoRow] /\ held' = held
    BY <1>1 DEF SyncSchedule
  <2>2. NoRow.next \notin held[w]
    BY DEF NoRow, Never, Moments, Fresh, Shaped
  <2>3. sched' \in [Workflows -> Row \cup {NoRow}]
    BY <2>1 DEF Fresh, Shaped
  <2>4. \A v \in Workflows : sched'[v] = sched[v] \/ (v = w /\ sched'[v] = NoRow)
    BY <2>1 DEF Fresh, Shaped
  <2>5. RowsFresh'
    BY <2>1, <2>2, <2>4 DEF Fresh, RowsFresh
  <2> QED
    BY <2>1, <2>3, <2>5 DEF Fresh, Shaped, DueFresh
<1>2. CASE c \in Crons
  BY <1>2, WriteFresh DEF SyncSchedule
<1>3. CASE c # NoCron /\ c \notin Crons
  BY <1>3 DEF SyncSchedule, Fresh, Shaped, DueFresh, RowsFresh
<1> QED
  BY <1>1, <1>2, <1>3

-------------------------------------------------------------------------------
\* The initial state has an empty table and nothing queued.
LEMMA FreshInit == ScheduleInit => Fresh
<1> SUFFICES ASSUME ScheduleInit PROVE Fresh
  OBVIOUS
<1>1. \A w \in Workflows : held[w] = {}
  BY DEF ScheduleInit
<1>2. Shaped
  BY <1>1 DEF ScheduleInit, Shaped, Moments, NoEntry, Zero
<1> QED
  BY <1>1, <1>2 DEF ScheduleInit, Fresh, DueFresh, RowsFresh

\* Whoever loses the entry in his hands is excused for it.
LEMMA ExcuseFresh ==
  ASSUME Fresh, NEW p \in Processes, Excuse(queued[p].workflow, queued[p].next),
         queued' = [queued EXCEPT ![p] = NoEntry], UNCHANGED <<now, sched, again>>,
         due' = due \/ due' = [due EXCEPT ![p] = {}]
  PROVE  Fresh'
<1>1. held' = [v \in Workflows |->
                 IF v = queued[p].workflow THEN held[v] \ {queued[p].next} ELSE held[v]]
  BY DEF Excuse
<1>2. /\ held' \in [Workflows -> SUBSET Moments]
      /\ \A w \in Workflows : held'[w] \subseteq held[w]
  BY <1>1 DEF Fresh, Shaped
<1>3. /\ due' \in [Processes -> SUBSET Entry]
      /\ \A q \in Processes : due'[q] \subseteq due[q]
  BY DEF Fresh, Shaped
<1>4. DueFresh' /\ \A w \in Workflows : \A t \in held'[w] : t <= now
  BY <1>2, <1>3, LessHeld
<1>5. /\ queued' \in [Processes -> Queued \cup {NoEntry}]
      /\ \A q \in Processes : queued'[q].since <= now
      /\ \A q \in Processes : q # p => queued'[q] = queued[q]
  BY DEF Fresh, Shaped, NoEntry, Zero, Moments
<1>6. ASSUME NEW w \in Workflows, sched[w].next \in held'[w]
      PROVE  \E q \in Processes : queued'[q].workflow = w /\ queued'[q].next = sched[w].next
  <2>1. PICK q \in Processes : queued[q].workflow = w /\ queued[q].next = sched[w].next
    BY <1>2, <1>6 DEF Fresh, RowsFresh
  <2>2. q # p
    BY <1>1, <1>6, <2>1
  <2> QED
    BY <1>5, <2>1, <2>2
<1>7. RowsFresh'
  BY <1>6 DEF RowsFresh
<1>8. Shaped'
  BY <1>2, <1>3, <1>4, <1>5 DEF Fresh, Shaped
<1> QED
  BY <1>4, <1>7, <1>8 DEF Fresh

-------------------------------------------------------------------------------
\* A tick lists the rows as they are, and what another scheduler is about to move on
\* is excused.
LEMMA TickListFresh == ASSUME Fresh, NEW p \in Processes, TickList(p) PROVE Fresh'
<1> DEFINE listed(v) == [workflow |-> v, cron |-> sched[v].cron, next |-> sched[v].next]
           L == {listed(v) : v \in {u \in Workflows : IsDue(u)}}
<1>1. \A v \in Workflows : IsDue(v) =>
        /\ sched[v].cron \in Crons /\ sched[v].next \in Moments
        /\ sched[v].next <= now
  BY DEF Fresh, Shaped, IsDue, Row, NoRow, Never, Moments
<1>2. due' = [due EXCEPT ![p] = L] /\ held' = [w \in Workflows |-> held[w] \ Meant(w)]
  BY DEF TickList
<1>3. \A s \in L : \E v \in Workflows : IsDue(v) /\ s = listed(v)
  OBVIOUS
<1>4. L \in SUBSET Entry
  BY <1>1 DEF Entry
<1>5. /\ held' \in [Workflows -> SUBSET Moments]
      /\ \A w \in Workflows : held'[w] \subseteq held[w]
  BY <1>2 DEF Fresh, Shaped
<1>6. \A s, t \in L : s.workflow = t.workflow => s = t
  BY <1>3
<1>7. ASSUME NEW v \in Workflows, IsDue(v), sched[v].next \in held'[v] PROVE FALSE
  <2>1. \E q \in Processes : queued[q].workflow = v /\ queued[q].next = sched[v].next
    BY <1>5, <1>7 DEF Fresh, RowsFresh
  <2>2. sched[v].next \in Meant(v)
    BY <1>1, <1>7, <2>1 DEF Meant
  <2> QED
    BY <1>2, <1>7, <2>2
<1>8. \A s \in L : s.next <= now /\ s.next \notin held'[s.workflow]
  BY <1>1, <1>3, <1>7
<1> HIDE DEF L
<1>9. /\ due' \in [Processes -> SUBSET Entry]
      /\ \A q \in Processes : due'[q] = IF q = p THEN L ELSE due[q]
  BY <1>2, <1>4 DEF Fresh, Shaped
<1>10. \A q \in Processes : \A s \in due[q] : s.workflow \in Workflows
  BY DEF Fresh, Shaped, Entry
<1>11. DueFresh'
  BY <1>5, <1>6, <1>8, <1>9, <1>10 DEF Fresh, DueFresh, TickList
<1>12. RowsFresh'
  BY <1>5 DEF Fresh, RowsFresh, TickList
<1>13. Shaped'
  BY <1>5, <1>9 DEF Fresh, Shaped, TickList
<1> QED
  BY <1>11, <1>12, <1>13 DEF Fresh, TickList

\* What a tick queues need not stay away, nothing else of the workflow is on its
\* list, and if it is on another list it is excused.
LEMMA TickTriggerFresh == ASSUME Fresh, NEW p \in Processes, TickTrigger(p) PROVE Fresh'
<1>1. PICK e \in due[p], s \in Queued \cup {NoEntry} :
        /\ s = [workflow |-> e.workflow, cron |-> e.cron, next |-> e.next, since |-> now]
        /\ due' = [due EXCEPT ![p] = @ \ {e}]
        /\ \/ /\ queued' = [queued EXCEPT ![p] = s]
              /\ held' = IF Shared(p, s) THEN held
                         ELSE [held EXCEPT ![s.workflow] = @ \cup {s.next}]
              /\ again' = (again \/ s.next \in held[s.workflow])
           \/ UNCHANGED <<queued, held, again>>
  <2>1. \A e \in due[p] : [workflow |-> e.workflow, cron |-> e.cron, next |-> e.next, since |-> now]
                            \in Queued
    BY DEF Fresh, Shaped, Entry, Queued
  <2> QED
    BY <2>1 DEF TickTrigger, LeaveDue, history
<1>2. /\ e.workflow \in Workflows /\ e.next \in Moments
      /\ s.workflow = e.workflow /\ s.next = e.next /\ s.since = now
  BY <1>1 DEF Fresh, Shaped, Entry
<1>3. /\ due' \in [Processes -> SUBSET Entry]
      /\ \A q \in Processes : due'[q] \subseteq due[q]
      /\ e \notin due'[p]
      /\ UNCHANGED <<now, sched>>
  BY <1>1 DEF Fresh, Shaped, TickTrigger
<1>4. CASE UNCHANGED <<queued, held, again>>
  <2>1. DueFresh'
    BY <1>3, <1>4, LessHeld DEF Fresh, Shaped
  <2> QED
    BY <1>3, <1>4, <2>1 DEF Fresh, Shaped, RowsFresh
<1>5. CASE /\ queued' = [queued EXCEPT ![p] = s]
           /\ held' = IF Shared(p, s) THEN held
                      ELSE [held EXCEPT ![s.workflow] = @ \cup {s.next}]
           /\ again' = (again \/ s.next \in held[s.workflow])
  <2>1. e.next <= now /\ e.next \notin held[e.workflow]
    BY DEF Fresh, DueFresh
  <2>2. again' = FALSE
    BY <1>2, <1>5, <2>1 DEF Fresh
  <2>3. /\ held' \in [Workflows -> SUBSET Moments]
        /\ \A w \in Workflows :
             \A t \in held'[w] : t \in held[w] \/ (w = e.workflow /\ t = e.next /\ ~Shared(p, s))
    BY <1>2, <1>5 DEF Fresh, Shaped
  <2>4. ASSUME NEW q \in Processes, NEW d \in due'[q] PROVE d.next \notin held'[d.workflow]
    <3>1. d \in due[q] /\ d.workflow \in Workflows /\ d.next \notin held[d.workflow]
      BY <1>3, <2>4 DEF Fresh, Shaped, DueFresh, Entry
    <3>2. CASE q = p
      <4>1. d.workflow # e.workflow
        BY <1>3, <2>4, <3>1, <3>2 DEF Fresh, DueFresh
      <4> QED
        BY <2>3, <3>1, <4>1
    <3>3. CASE q # p
      <4>1. d.workflow = s.workflow /\ d.next = s.next => Shared(p, s)
        BY <3>1, <3>3 DEF Shared
      <4> QED
        BY <1>2, <2>3, <3>1, <4>1
    <3> QED
      BY <3>2, <3>3
  <2>5. DueFresh'
    BY <1>3, <2>4 DEF Fresh, DueFresh
  <2>6. /\ queued' \in [Processes -> Queued \cup {NoEntry}]
        /\ queued'[p] = s
        /\ \A q \in Processes : q # p => queued'[q] = queued[q]
    BY <1>1, <1>5 DEF Fresh, Shaped
  <2>7. ASSUME NEW w \in Workflows, sched[w].next \in held'[w]
        PROVE  \E q \in Processes : queued'[q].workflow = w /\ queued'[q].next = sched[w].next
    <3>1. CASE w = e.workflow /\ sched[w].next = e.next
      BY <1>2, <2>6, <3>1
    <3>2. CASE sched[w].next \in held[w]
      <4>1. PICK q \in Processes : queued[q].workflow = w /\ queued[q].next = sched[w].next
        BY <3>2 DEF Fresh, RowsFresh
      <4>2. queued[q].next # Never
        BY <3>2, <4>1 DEF Fresh, Shaped, Moments, Never
      <4>3. q # p
        BY <4>2 DEF TickTrigger, NoEntry
      <4> QED
        BY <2>6, <4>1, <4>3
    <3> QED
      BY <2>3, <2>7, <3>1, <3>2
  <2>8. RowsFresh'
    BY <1>3, <2>7 DEF RowsFresh
  <2>9. Shaped'
    <3>1. \A w \in Workflows : \A t \in held'[w] : t <= now
      BY <2>1, <2>3 DEF Fresh, Shaped
    <3>2. \A q \in Processes : queued'[q].since <= now
      BY <1>2, <2>6 DEF Fresh, Shaped, Moments
    <3> QED
      BY <1>3, <2>3, <2>6, <3>1, <3>2 DEF Fresh, Shaped
  <2> QED
    BY <2>2, <2>5, <2>8, <2>9 DEF Fresh
<1> QED
  BY <1>1, <1>4, <1>5

\* The row just queued is moved ahead, or the time it was queued for is excused.
LEMMA TickUpsertFresh == ASSUME Fresh, NEW p \in Processes, TickUpsert(p) PROVE Fresh'
<1>1. queued[p] \in Queued
  BY DEF TickUpsert, Fresh, Shaped
<1>2. queued[p].workflow \in Workflows /\ queued[p].cron \in Crons /\ queued[p].since \in Moments
  BY <1>1 DEF Queued
<1>3. ASSUME NEW t \in queued[p].since .. now,
             WriteNext(queued[p].workflow, queued[p].cron, t)
      PROVE  Fresh'
  <2>1. t \in Moments /\ t <= now
    BY <1>2 DEF Fresh, Shaped, Moments
  <2> QED
    BY <1>2, <1>3, <2>1, WriteFresh DEF TickUpsert
<1>4. CASE Excuse(queued[p].workflow, queued[p].next) /\ UNCHANGED sched
  BY <1>4, ExcuseFresh DEF TickUpsert
<1> QED
  BY <1>3, <1>4 DEF TickUpsert

\* Every step of a scheduler, the clock, a synchronisation and a restart preserves
\* the invariant.
LEMMA FreshNext == Fresh /\ [ScheduleNext]_schedVars => Fresh'
<1> SUFFICES ASSUME Fresh, [ScheduleNext]_schedVars PROVE Fresh'
  OBVIOUS
<1>1. CASE Tock
  <2>1. now' \in Moments /\ now < now' /\ UNCHANGED <<sched, due, queued, held, again>>
    BY <1>1 DEF Tock, Fresh, Shaped, tickVars, history, Moments
  <2>2. \A w \in Workflows : \A t \in held[w] : t <= now'
    BY <2>1 DEF Fresh, Shaped, Moments
  <2>3. \A p \in Processes : queued[p].since \in Moments /\ queued[p].since <= now'
    BY <2>1 DEF Fresh, Shaped, Moments, Queued, NoEntry, Zero
  <2>4. \A p \in Processes : \A s \in due[p] : s.next \in Moments
    BY DEF Fresh, Shaped, Entry
  <2>5. DueFresh'
    BY <2>1, <2>4 DEF Fresh, Shaped, DueFresh, Moments
  <2> QED
    BY <2>1, <2>2, <2>3, <2>5 DEF Fresh, Shaped, RowsFresh
<1>2. ASSUME NEW p \in Processes, TickList(p) PROVE Fresh'
  BY <1>2, TickListFresh
<1>3. ASSUME NEW p \in Processes, TickTrigger(p) PROVE Fresh'
  BY <1>3, TickTriggerFresh
<1>4. ASSUME NEW p \in Processes, TickUpsert(p) PROVE Fresh'
  BY <1>4, TickUpsertFresh
<1>5. ASSUME NEW p \in Processes, Restart(p) PROVE Fresh'
  BY <1>5, ExcuseFresh DEF Restart
<1>6. ASSUME NEW w \in Workflows, NEW c \in Crons \cup {NoCron}, NEW t \in Moments, Sync(w, c, t)
      PROVE  Fresh'
  BY <1>6, SyncFresh DEF Sync
<1>7. CASE UNCHANGED schedVars
  BY <1>7 DEF schedVars, Fresh, Shaped, DueFresh, RowsFresh
<1> QED
  BY <1>1, <1>2, <1>3, <1>4, <1>5, <1>6, <1>7 DEF ScheduleNext, Tick

\* For any number of processes and workflows and any expressions, a due time is
\* queued once, but for the excuses that OncePerDueTime names: failures, restarts
\* and synchronisations may come between the list that was read and the copies that
\* are written back, and next times may be written long after they were computed
\* (scheduler.go, ci/schedule.go).
THEOREM DueTimesOnce == ScheduleSpec => []OncePerDueTime
<1>1. Fresh => OncePerDueTime
  BY DEF Fresh, OncePerDueTime
<1> QED
  BY <1>1, FreshInit, FreshNext, PTL DEF ScheduleSpec

-------------------------------------------------------------------------------
(* The table and the list of a tick                                          *)

\* A row has the next time its expression had at some moment.
RowsFit ==
  \A w \in Workflows :
    sched[w] # NoRow => \E t \in Moments : sched[w].next = NextTime[sched[w].cron][t]

\* The entry between its trigger and its upsert was queued for the time it lists,
\* and is the only one of its workflow.
QueuedFits ==
  \A p \in Processes :
    queued[p] # NoEntry =>
      /\ queued[p].next \in ran[queued[p].workflow]
      /\ \A s \in due[p] : s.workflow # queued[p].workflow

Ticking ==
  /\ Fresh /\ RowsFit /\ QueuedFits
  /\ ran \in [Workflows -> SUBSET Moments]
  /\ failures \in 0 .. MaxFailures /\ crashes \in 0 .. MaxCrashes

\* Every write of a row takes a time the expression has fallen at, or will.
LEMMA RowsFitWrite ==
  ASSUME Fresh, RowsFit, NEW w \in Workflows, NEW c \in Crons, NEW t \in Moments,
         WriteNext(w, c, t)
  PROVE  RowsFit'
<1> DEFINE r == [cron |-> c, next |-> NextTime[c][t]]
<1>1. sched' = [sched EXCEPT ![w] = r] /\ sched \in [Workflows -> Row \cup {NoRow}]
  BY DEF WriteNext, UpsertSchedule, Replace, Fresh, Shaped
<1>2. sched'[w].next = NextTime[sched'[w].cron][t]
  BY <1>1
<1>3. \A v \in Workflows : v # w => sched'[v] = sched[v]
  BY <1>1
<1> HIDE DEF r
<1> QED
  BY <1>1, <1>2, <1>3 DEF RowsFit

LEMMA RowsFitNext == Fresh /\ RowsFit /\ [ScheduleNext]_schedVars => RowsFit'
<1> SUFFICES ASSUME Fresh, RowsFit, [ScheduleNext]_schedVars PROVE RowsFit'
  OBVIOUS
<1>1. CASE UNCHANGED sched
  BY <1>1 DEF RowsFit
<1>2. ASSUME NEW p \in Processes, TickUpsert(p) PROVE RowsFit'
  <2>1. queued[p] \in Queued
    BY <1>2 DEF TickUpsert, Fresh, Shaped
  <2>2. queued[p].workflow \in Workflows /\ queued[p].cron \in Crons
        /\ queued[p].since .. now \subseteq Moments
    BY <2>1 DEF Queued, Fresh, Shaped, Moments
  <2> QED
    BY <1>1, <1>2, <2>2, RowsFitWrite DEF TickUpsert
<1>3. ASSUME NEW w \in Workflows, NEW c \in Crons \cup {NoCron}, NEW t \in Moments, Sync(w, c, t)
      PROVE  RowsFit'
  <2>1. CASE sched' = [sched EXCEPT ![w] = NoRow]
    BY <2>1 DEF Fresh, Shaped, RowsFit
  <2>2. CASE c \in Crons /\ WriteNext(w, c, t)
    BY <2>2, RowsFitWrite
  <2> QED
    BY <1>1, <1>3, <2>1, <2>2 DEF Sync, SyncSchedule
<1> QED
  BY <1>1, <1>2, <1>3
  DEF ScheduleNext, Tick, Tock, TickList, TickTrigger, Restart, schedVars

LEMMA QueuedFitsNext ==
  Fresh /\ QueuedFits /\ ran \in [Workflows -> SUBSET Moments] /\ [ScheduleNext]_schedVars
    => QueuedFits' /\ ran' \in [Workflows -> SUBSET Moments]
<1> SUFFICES ASSUME Fresh, QueuedFits, ran \in [Workflows -> SUBSET Moments],
                    [ScheduleNext]_schedVars
             PROVE  QueuedFits' /\ ran' \in [Workflows -> SUBSET Moments]
  OBVIOUS
<1>1. CASE UNCHANGED <<due, queued, ran>>
  BY <1>1 DEF QueuedFits
<1>2. ASSUME NEW p \in Processes, TickTrigger(p)
      PROVE  QueuedFits' /\ ran' \in [Workflows -> SUBSET Moments]
  <2>1. PICK e \in due[p], s \in Queued :
          /\ s = [workflow |-> e.workflow, cron |-> e.cron, next |-> e.next, since |-> now]
          /\ due' = [due EXCEPT ![p] = @ \ {e}]
          /\ \/ /\ queued' = [queued EXCEPT ![p] = s]
                /\ ran' = [ran EXCEPT ![s.workflow] = @ \cup {s.next}]
             \/ queued' = queued /\ ran' = ran
          /\ queued[p] = NoEntry
    <3>1. \A e \in due[p] :
            [workflow |-> e.workflow, cron |-> e.cron, next |-> e.next, since |-> now] \in Queued
      BY DEF Fresh, Shaped, Entry, Queued
    <3> QED
      BY <1>2, <3>1 DEF TickTrigger, LeaveDue, history
  <2>2. e.workflow \in Workflows /\ e.next \in Moments
    BY DEF Fresh, Shaped, Entry
  <2>3. \A t \in due'[p] : t.workflow # e.workflow
    BY <2>1 DEF Fresh, Shaped, DueFresh
  <2>4. /\ ran' \in [Workflows -> SUBSET Moments]
        /\ \A w \in Workflows : ran[w] \subseteq ran'[w]
        /\ queued' # queued => e.next \in ran'[e.workflow]
    BY <2>1, <2>2
  <2>5. ASSUME NEW q \in Processes, queued'[q] # NoEntry
        PROVE  /\ queued'[q].next \in ran'[queued'[q].workflow]
               /\ \A t \in due'[q] : t.workflow # queued'[q].workflow
    <3>1. CASE q # p
      <4>1. queued'[q] = queued[q] /\ due'[q] = due[q]
        BY <2>1, <3>1 DEF Fresh, Shaped
      <4>2. queued[q].workflow \in Workflows
        BY <2>5, <4>1 DEF Fresh, Shaped, Queued
      <4> QED
        BY <2>4, <2>5, <4>1, <4>2 DEF QueuedFits
    <3>2. CASE q = p
      <4>1. queued' = [queued EXCEPT ![p] = s] /\ queued'[p] = s /\ queued' # queued
        BY <2>1, <2>5, <3>2 DEF Fresh, Shaped
      <4> QED
        BY <2>1, <2>3, <2>4, <3>2, <4>1
    <3> QED
      BY <3>1, <3>2
  <2> QED
    BY <2>4, <2>5 DEF QueuedFits
<1>3. ASSUME NEW p \in Processes, TickList(p) PROVE QueuedFits' /\ ran' = ran
  <2>1. /\ queued' = queued /\ queued[p] = NoEntry /\ ran' = ran
        /\ \A q \in Processes : q # p => due'[q] = due[q]
    BY <1>3 DEF TickList, Fresh, Shaped
  <2> QED
    BY <2>1 DEF QueuedFits
<1>4. ASSUME NEW p \in Processes, TickUpsert(p) \/ Restart(p) PROVE QueuedFits' /\ ran' = ran
  <2>1. /\ queued' = [queued EXCEPT ![p] = NoEntry] /\ ran' = ran
        /\ \A q \in Processes : due'[q] \subseteq due[q]
    BY <1>4 DEF TickUpsert, Restart, Fresh, Shaped
  <2>2. \A q \in Processes : queued'[q] # NoEntry => queued'[q] = queued[q]
    BY <2>1 DEF Fresh, Shaped
  <2> QED
    BY <2>1, <2>2 DEF QueuedFits
<1> QED
  BY <1>1, <1>2, <1>3, <1>4
  DEF ScheduleNext, Tick, Tock, Sync, schedVars, tickVars, history

\* What is bounded stays within its bound.
LEMMA TickingInit == ScheduleInit => Ticking
BY FreshInit DEF ScheduleInit, Ticking, RowsFit, QueuedFits

LEMMA TickingNext == Ticking /\ [ScheduleNext]_schedVars => Ticking'
<1> SUFFICES ASSUME Ticking, [ScheduleNext]_schedVars PROVE Ticking'
  OBVIOUS
<1>1. Fresh' /\ RowsFit' /\ QueuedFits' /\ ran' \in [Workflows -> SUBSET Moments]
  BY FreshNext, RowsFitNext, QueuedFitsNext DEF Ticking
<1>2. \/ failures' = failures
      \/ failures < MaxFailures /\ failures' = failures + 1
  BY DEF ScheduleNext, Tick, Tock, TickList, TickTrigger, TickUpsert, Restart, Sync, schedVars,
         Fails
<1>3. \/ crashes' = crashes
      \/ crashes < MaxCrashes /\ crashes' = crashes + 1
  BY DEF ScheduleNext, Tick, Tock, TickList, TickTrigger, TickUpsert, Restart, Sync, schedVars
<1> QED
  BY <1>1, <1>2, <1>3 DEF Ticking

\* The table holds times of its expressions, and the list of each scheduler has one
\* entry of a workflow between it and the scheduler's hands, whatever is synchronised
\* meanwhile (scheduler.go, ci/schedule.go).
THEOREM SchedulesTyped == ScheduleSpec => []ScheduleTypeOK
<1>1. Ticking => ScheduleTypeOK
  <2> SUFFICES ASSUME Ticking PROVE ScheduleTypeOK
    OBVIOUS
  <2>1. Fresh
    BY DEF Ticking
  <2>2. Shaped /\ again \in BOOLEAN
    BY <2>1 DEF Fresh
  <2>3. \A p \in Processes : \A s, t \in due[p] : s.workflow = t.workflow => s = t
    BY <2>1 DEF Fresh, DueFresh
  <2> QED
    BY <2>2, <2>3 DEF Ticking, Shaped, RowsFit, QueuedFits, ScheduleTypeOK
<1> QED
  BY <1>1, TickingInit, TickingNext, PTL DEF ScheduleSpec

\* A scheduler moves a row on only when a run was queued for the time it lists; one
\* that could not be queued stays due (scheduler.go).
THEOREM NoneDropped == ScheduleSpec => NoDueTimeDropped
<1>1. Ticking => \A p \in Processes :
                   (queued[p] # NoEntry /\ queued'[p] = NoEntry /\ sched' # sched
                      => queued[p].next \in ran[queued[p].workflow])
  BY DEF Ticking, QueuedFits
<1> QED
  BY <1>1, TickingInit, TickingNext, PTL DEF ScheduleSpec, NoDueTimeDropped

-------------------------------------------------------------------------------
(* In the company of webhooks, listings and runs                             *)

USE TriggersAssumption

\* SyncSchedule with an expression that is neither valid nor absent is a stutter of
\* the table, and any other one is a synchronisation of `Schedules'.
LEMMA SyncIsSync ==
  ASSUME NEW w \in Workflows, NEW c, NEW t \in Moments, t <= now, SyncSchedule(w, c, t),
         UNCHANGED <<now, due, queued, ran, again, failures, crashes>>
  PROVE  [ScheduleNext]_schedVars
<1>1. CASE c \in Crons \cup {NoCron}
  BY <1>1 DEF ScheduleNext, Sync
<1>2. CASE c \notin Crons \cup {NoCron}
  <2>1. UNCHANGED <<sched, held>>
    BY <1>2 DEF SyncSchedule
  <2> QED
    BY <2>1 DEF schedVars
<1> QED
  BY <1>1, <1>2

-------------------------------------------------------------------------------
\* A request between two steps.
Pcs   == {"idle", "clear", "clone", "checkout", "detach", "tag", "notag", "list",
          "loop", "write", "done", "failed"}
Kinds == {"none", "webhook", "sync", "view"}
Trees   == Branches \cup Commits \cup {NoCommit}
Pendings == [workflow : Workflows, commit : Trees, at : Moments]
Request == [pc : Pcs, kind : Kinds, event : Events \cup {NoCommit},
            ref : Branches \cup Commits \cup {NoCommit},
            todo : SUBSET Workflows, started : SUBSET Workflows,
            own : BOOLEAN, lost : BOOLEAN, sync : Pendings \cup {NoSync}]

\* What is about to be written to the table was read, and computed, in the past.
Timely ==
  /\ run.at <= now
  /\ \A r \in Requests :
       /\ request[r].sync.at <= now
       /\ request[r].pc = "write" => request[r].kind = "sync" /\ request[r].sync # NoSync

\* A request has workflows left to read only among those of the project; a run is
\* of one of them.
Within ==
  /\ now \in Moments
  /\ head \in [Branches -> Commits]
  /\ disc \in [repo : BOOLEAN, tree : Trees]
  /\ request \in [Requests -> Request]
  /\ run \in Pendings \cup {NoSync}
  /\ Timely

\* A request that waits for another has a type.
LEMMA QuietIsRequest == Quiet \in Request
<1>1. {} \in SUBSET Workflows
  OBVIOUS
<1> QED
  BY <1>1 DEF Quiet, Request, Pcs, Kinds

LEMMA ListingIsRequest ==
  ASSUME NEW b \in Branches \cup Commits
  PROVE  [Quiet EXCEPT !.pc = "clear", !.ref = b,
            !.kind = IF b = DefaultBranch THEN "sync" ELSE "view"] \in Request
<1>1. \A q \in Request, k \in Kinds : [q EXCEPT !.pc = "clear", !.ref = b, !.kind = k] \in Request
  BY DEF Request, Pcs
<1>2. (IF b = DefaultBranch THEN "sync" ELSE "view") \in Kinds
  BY DEF Kinds
<1> QED
  BY <1>1, <1>2, QuietIsRequest

\* Updates of its fields keep it a request.
LEMMA StartedRequest ==
  ASSUME NEW q \in Request, NEW T \in SUBSET Workflows, NEW S \in SUBSET Workflows
  PROVE  [q EXCEPT !.todo = T, !.started = S] \in Request
BY DEF Request

LEMMA LostRequest ==
  ASSUME NEW q \in Request, NEW T \in SUBSET Workflows
  PROVE  [q EXCEPT !.todo = T, !.lost = TRUE] \in Request
BY DEF Request

LEMMA ReadRequest ==
  ASSUME NEW q \in Request, NEW p \in Pcs, NEW T \in SUBSET Workflows,
         NEW y \in Pendings \cup {NoSync}
  PROVE  /\ [q EXCEPT !.todo = T, !.pc = p, !.sync = y] \in Request
         /\ [q EXCEPT !.pc = p, !.sync = y] \in Request
BY DEF Request

LEMMA UpdatedRequest ==
  ASSUME NEW q \in Request, NEW p \in Pcs, NEW T \in SUBSET Workflows, NEW o \in BOOLEAN
  PROVE  /\ [q EXCEPT !.pc = p] \in Request
         /\ [q EXCEPT !.own = o] \in Request
         /\ [q EXCEPT !.pc = p, !.own = o] \in Request
         /\ [q EXCEPT !.pc = p, !.todo = T] \in Request
         /\ [q EXCEPT !.todo = T] \in Request
BY DEF Request

\* A write to the directory shows in the place and the ownership of a request alone.
LEMMA TouchedRequest ==
  ASSUME Within, NEW r \in Requests, NEW p \in Pcs, Touch(r, p)
  PROVE  /\ request'[r] \in Request
         /\ request'[r].pc = p /\ request'[r].kind = request[r].kind
         /\ request'[r].event = request[r].event /\ request'[r].ref = request[r].ref
         /\ request'[r].started = request[r].started
<1> DEFINE q == request[r]
           o == p = "clone" \/ q.own
<1>1. q \in Request
  BY DEF Within
<1>2. o \in BOOLEAN
  BY <1>1 DEF Request
<1>3. request'[r] = [q EXCEPT !.pc = p, !.own = o]
  BY DEF Touch
<1> HIDE DEF o, q
<1>4. /\ request'[r] \in Request
      /\ request'[r].pc = p /\ request'[r].kind = q.kind /\ request'[r].event = q.event
      /\ request'[r].ref = q.ref /\ request'[r].started = q.started
  BY <1>1, <1>2, <1>3 DEF Request
<1> QED
  BY <1>4 DEF q

\* The initial state has no request and no run.
LEMMA WithinInit == Init => Within
BY QuietIsRequest
DEF Init, ScheduleInit, Within, Timely, Quiet, NoSync, Zero, Moments, EmptyDir, Trees

\* So does a write to the directory, of every request.
LEMMA TouchWithin ==
  ASSUME Within, NEW r \in Requests, NEW p \in Pcs, Touch(r, p)
  PROVE  request' \in [Requests -> Request]
<1>1. request \in [Requests -> Request]
  BY DEF Within
<1>2. request'[r] \in Request
  BY TouchedRequest
<1>3. ASSUME NEW q \in Requests PROVE [request[q] EXCEPT !.own = FALSE] \in Request
  BY <1>1, UpdatedRequest
<1> QED
  BY <1>2, <1>3 DEF Touch

\* Steps of a request keep it one.
LEMMA RequestWithin ==
  ASSUME Within, NEW r \in Requests, RequestStep(r)
  PROVE  request' \in [Requests -> Request]
<1>1. request \in [Requests -> Request] /\ request[r] \in Request
  BY DEF Within
<1>2. ASSUME NEW e \in Events, Webhook(r, e) PROVE request' \in [Requests -> Request]
  <2> DEFINE q == [Quiet EXCEPT !.pc = IF Accepts(e) THEN "clear" ELSE "done",
                                !.kind = "webhook", !.event = e, !.ref = e.sha]
  <2>1. e.sha \in Commits
    OBVIOUS
  <2>2. q \in Request
    BY <2>1, QuietIsRequest DEF Request, Pcs, Kinds
  <2>3. request' = [request EXCEPT ![r] = q]
    BY <1>2 DEF Webhook
  <2> QED
    BY <1>1, <2>2, <2>3
<1>3. ASSUME NEW b \in Branches \cup Commits, ListConfigs(r, b)
      PROVE  request' \in [Requests -> Request]
  <2> DEFINE q == [Quiet EXCEPT !.pc = "clear", !.ref = b,
                     !.kind = IF b = DefaultBranch THEN "sync" ELSE "view"]
  <2>1. q \in Request
    BY ListingIsRequest
  <2>2. request' = [request EXCEPT ![r] = q]
    BY <1>3 DEF ListConfigs
  <2> QED
    BY <1>1, <2>1, <2>2
<1>4. ASSUME NEW p \in Pcs, Goto(r, p) PROVE request' \in [Requests -> Request]
  BY <1>1, <1>4, UpdatedRequest DEF Goto
<1>5. ASSUME NEW p \in Pcs, Touch(r, p) PROVE request' \in [Requests -> Request]
  BY <1>5, TouchWithin
<1>6. CASE Clear(r) \/ Clone(r) \/ Checkout(r) \/ Detach(r) \/ AsTag(r) \/ LoopEnds(r)
  BY <1>4, <1>5, <1>6 DEF Clear, Clone, Checkout, Detach, AsTag, LoopEnds, Pcs
<1>7. CASE List(r)
  <2>1. CASE Goto(r, "failed")
    BY <1>4, <2>1 DEF Pcs
  <2>2. CASE ~Goto(r, "failed")
    <3> DEFINE p == IF request[r].kind = "view" THEN "done" ELSE "loop"
               T == {w \in Workflows : File(disc.tree, w) # Absent}
               q == [request[r] EXCEPT !.pc = p, !.todo = T]
    <3>1. request' = [request EXCEPT ![r] = q]
      BY <1>1, <1>7, <2>2 DEF List
    <3>2. p \in Pcs /\ T \in SUBSET Workflows
      BY DEF Pcs
    <3>3. q \in Request
      BY <1>1, <3>2, UpdatedRequest
    <3> QED
      BY <1>1, <3>1, <3>3
  <2> QED
    BY <2>1, <2>2
<1>8. CASE StartWorkflow(r)
  <2>1. request[r].todo \in SUBSET Workflows /\ request[r].started \in SUBSET Workflows
    BY <1>1 DEF Request
  <2>2. PICK w \in request[r].todo, S \in SUBSET Workflows :
          \/ request' = [request EXCEPT ![r].todo = @ \ {w}, ![r].started = S]
          \/ request' = [request EXCEPT ![r].todo = @ \ {w}, ![r].lost = TRUE]
    <3>1. PICK w \in request[r].todo :
            \/ request' = [request EXCEPT ![r].todo = @ \ {w}, ![r].started = @ \cup {w}]
            \/ request' = [request EXCEPT ![r].todo = @ \ {w}, ![r].started = @]
            \/ request' = [request EXCEPT ![r].todo = @ \ {w}, ![r].lost = TRUE]
      BY <1>8 DEF StartWorkflow
    <3>2. request[r].started \cup {w} \in SUBSET Workflows
      BY <2>1
    <3> QED
      BY <2>1, <3>1, <3>2
  <2> DEFINE T == request[r].todo \ {w}
  <2>3. T \in SUBSET Workflows
    BY <2>1
  <2>4. CASE request' = [request EXCEPT ![r].todo = @ \ {w}, ![r].started = S]
    <3>1. [request[r] EXCEPT !.todo = T, !.started = S] \in Request
      BY <1>1, <2>3, StartedRequest
    <3>2. request' = [request EXCEPT ![r] = [request[r] EXCEPT !.todo = T, !.started = S]]
      BY <1>1, <2>4
    <3> QED
      BY <1>1, <3>1, <3>2
  <2>5. CASE request' = [request EXCEPT ![r].todo = @ \ {w}, ![r].lost = TRUE]
    <3>1. [request[r] EXCEPT !.todo = T, !.lost = TRUE] \in Request
      BY <1>1, <2>3, LostRequest
    <3>2. request' = [request EXCEPT ![r] = [request[r] EXCEPT !.todo = T, !.lost = TRUE]]
      BY <1>1, <2>5
    <3> QED
      BY <1>1, <3>1, <3>2
  <2> QED
    BY <2>2, <2>4, <2>5
<1>9. CASE ReadSchedule(r) \/ SyncWorkflow(r)
  <2>1. ASSUME NEW w \in request[r].todo, Reads(w) = Absent,
               request' = [request EXCEPT ![r] = [request[r] EXCEPT !.todo = request[r].todo \ {w}]]
        PROVE  request' \in [Requests -> Request]
    <3>1. request[r].todo \ {w} \in SUBSET Workflows
      BY <1>1 DEF Request
    <3>2. [request[r] EXCEPT !.todo = request[r].todo \ {w}] \in Request
      BY <1>1, <3>1, UpdatedRequest DEF Pcs
    <3> QED
      BY <1>1, <2>1, <3>2
  <2>2. ASSUME NEW w \in request[r].todo, NEW y, y = [workflow |-> w, commit |-> disc.tree, at |-> now],
               request' = [request EXCEPT ![r] =
                 [request[r] EXCEPT !.todo = request[r].todo \ {w}, !.pc = "write", !.sync = y]]
        PROVE  request' \in [Requests -> Request]
    <3>1. request[r].todo \ {w} \in SUBSET Workflows /\ y \in Pendings
      BY <1>1, <2>2 DEF Request, Within, Pendings
    <3> QED
      BY <1>1, <2>2, <3>1, ReadRequest DEF Pcs
  <2>3. ASSUME NEW p \in {"loop", "failed"}, Written(r, p)
        PROVE  request' \in [Requests -> Request]
    <3>1. [request[r] EXCEPT !.pc = p, !.sync = NoSync] \in Request
      BY <1>1, ReadRequest DEF Pcs
    <3>2. request' = [request EXCEPT ![r] = [request[r] EXCEPT !.pc = p, !.sync = NoSync]]
      BY <1>1, <2>3 DEF Written
    <3> QED
      BY <1>1, <3>1, <3>2
  <2>4. CASE ReadSchedule(r)
    <3>1. PICK w \in request[r].todo :
            request' = [request EXCEPT ![r] = Reading(request[r], w)]
      BY <2>4 DEF ReadSchedule
    <3>2. CASE Reads(w) = Absent
      BY <2>1, <3>1, <3>2 DEF Reading
    <3>3. CASE Reads(w) # Absent
      BY <2>2, <3>1, <3>3 DEF Reading
    <3> QED
      BY <3>2, <3>3
  <2>5. CASE SyncWorkflow(r)
    BY <2>3, <2>5 DEF SyncWorkflow
  <2> QED
    BY <1>9, <2>4, <2>5
<1>10. CASE Reply(r)
  BY <1>1, <1>10, QuietIsRequest DEF Reply
<1> QED
  BY <1>2, <1>3, <1>6, <1>7, <1>8, <1>9, <1>10 DEF RequestStep

\* The directory holds the files of a commit, or of none.
LEMMA TreeWithin ==
  ASSUME Within, NEW r \in Requests, RequestStep(r)
  PROVE  disc' \in [repo : BOOLEAN, tree : Trees]
<1>1. disc \in [repo : BOOLEAN, tree : Trees] /\ NoCommit \in Trees
  BY DEF Within, Trees
<1>2. request[r].ref \in Trees
  BY DEF Within, Request, Trees
<1>3. CloneHead(request[r].ref) \in Trees
  BY DEF Within, CloneHead, Trees
<1>4. CASE Clear(r) \/ Clone(r) \/ Checkout(r) \/ AsTag(r)
  <2>1. \/ disc' \in {disc, EmptyDir, [repo |-> TRUE, tree |-> NoCommit]}
        \/ disc' = [repo |-> TRUE, tree |-> CloneHead(request[r].ref)]
    BY <1>4, Zenon DEF Clear, Clone, Checkout, AsTag, Cleared
  <2>2. /\ EmptyDir \in [repo : BOOLEAN, tree : Trees]
        /\ [repo |-> TRUE, tree |-> NoCommit] \in [repo : BOOLEAN, tree : Trees]
        /\ [repo |-> TRUE, tree |-> CloneHead(request[r].ref)] \in [repo : BOOLEAN, tree : Trees]
    BY <1>1, <1>3 DEF EmptyDir
  <2> QED
    BY ONLY <1>1, <2>1, <2>2
<1>5. CASE Detach(r)
  <2>1. CASE disc' = [disc EXCEPT !.tree = request[r].ref]
    BY <1>1, <1>2, <2>1
  <2> QED
    BY <1>1, <1>5, <2>1 DEF Detach
<1>6. CASE UNCHANGED disc
  BY <1>1, <1>6
<1> QED
  BY <1>4, <1>5, <1>6 DEF RequestStep, Webhook, ListConfigs, List, StartWorkflow,
    ReadSchedule, SyncWorkflow, LoopEnds, Reply

\* A request that goes anywhere but to a write keeps what it has read, or drops it.
LEMMA TimelyStep ==
  ASSUME Within, NEW r \in Requests, RequestStep(r)
  PROVE  Timely'
<1>1. /\ request \in [Requests -> Request] /\ request' \in [Requests -> Request]
      /\ UNCHANGED <<now, run>> /\ now \in Moments /\ Timely
  BY RequestWithin DEF Within, RequestStep, Webhook, ListConfigs, Clear, Clone, Checkout, Detach,
    AsTag, List, StartWorkflow, ReadSchedule, SyncWorkflow, LoopEnds, Reply, schedVars
<1>2. SUFFICES ASSUME NEW q \in Requests
               PROVE  /\ request'[q].sync.at <= now
                      /\ request'[q].pc = "write" =>
                            request'[q].kind = "sync" /\ request'[q].sync # NoSync
  BY <1>1 DEF Timely
<1>3. /\ request[q].sync.at <= now
      /\ request[q].pc = "write" => request[q].kind = "sync" /\ request[q].sync # NoSync
  BY <1>1 DEF Timely
<1>4. CASE request'[q].sync = request[q].sync /\ request'[q].kind = request[q].kind
           /\ (request'[q].pc = "write" => request[q].pc = "write")
  BY <1>3, <1>4
<1>5. CASE request'[q].sync = NoSync /\ request'[q].pc # "write"
  BY <1>1, <1>5 DEF NoSync, Zero, Moments
<1>6. CASE q # r
  <2>1. CASE \E p \in Pcs : Touch(r, p)
    <3>1. request'[q] = [request[q] EXCEPT !.own = FALSE]
      BY <1>6, <2>1 DEF Touch
    <3> QED
      BY <1>1, <1>4, <3>1 DEF Request
  <2>2. CASE request'[q] = request[q]
    BY <1>4, <2>2
  <2>3. CASE Clear(r) \/ Clone(r) \/ Checkout(r) \/ Detach(r) \/ AsTag(r)
    <3>1. (\E p \in Pcs : Touch(r, p)) \/ Goto(r, "failed")
      BY <2>3 DEF Clear, Clone, Checkout, Detach, AsTag, Pcs
    <3> QED
      BY <1>1, <1>6, <2>1, <2>2, <3>1 DEF Goto
  <2>4. CASE List(r) \/ StartWorkflow(r) \/ ReadSchedule(r) \/ SyncWorkflow(r)
             \/ LoopEnds(r) \/ Reply(r)
    <3>1. request'[q] = request[q]
      BY <1>1, <1>6, <2>4 DEF List, StartWorkflow, ReadSchedule, SyncWorkflow, Written, LoopEnds,
        Reply, Goto
    <3> QED
      BY <2>2, <3>1
  <2>5. ASSUME NEW e \in Events, Webhook(r, e) PROVE request'[q] = request[q]
    BY <1>1, <1>6, <2>5 DEF Webhook
  <2>6. ASSUME NEW b \in Branches \cup Commits, ListConfigs(r, b) PROVE request'[q] = request[q]
    BY <1>1, <1>6, <2>6 DEF ListConfigs
  <2> QED
    BY <2>2, <2>3, <2>4, <2>5, <2>6 DEF RequestStep
<1>7. CASE q = r
  <2>1. ASSUME NEW p \in Pcs, p # "write", Touch(r, p)
        PROVE  request'[r].sync = request[r].sync /\ request'[r].kind = request[r].kind
               /\ request'[r].pc # "write"
    <3>1. request'[r] = [request[r] EXCEPT !.pc = p, !.own = (p = "clone" \/ @)]
      BY <2>1 DEF Touch
    <3> QED
      BY <1>1, <2>1, <3>1 DEF Request
  <2>2. ASSUME NEW p \in Pcs, p # "write", Goto(r, p)
        PROVE  request'[r].sync = request[r].sync /\ request'[r].kind = request[r].kind
               /\ request'[r].pc # "write"
    <3>1. request'[r] = [request[r] EXCEPT !.pc = p]
      BY <1>1, <2>2 DEF Goto
    <3> QED
      BY <1>1, <2>2, <3>1 DEF Request
  <2>3. CASE Clear(r) \/ Clone(r) \/ Checkout(r) \/ Detach(r) \/ AsTag(r) \/ LoopEnds(r)
    <3>1. \E p \in Pcs \ {"write"} : Touch(r, p) \/ Goto(r, p)
      BY <2>3 DEF Clear, Clone, Checkout, Detach, AsTag, LoopEnds, Pcs
    <3> QED
      BY <1>4, <1>7, <2>1, <2>2, <3>1
  <2>4. CASE List(r)
    <3>1. CASE Goto(r, "failed")
      <4>1. "failed" \in Pcs
        BY DEF Pcs
      <4> QED
        BY <1>4, <1>7, <2>2, <3>1, <4>1
    <3>2. CASE ~Goto(r, "failed")
      <4>1. PICK p \in {"done", "loop"}, T \in SUBSET Workflows :
              request'[r] = [request[r] EXCEPT !.pc = p, !.todo = T]
        <5> DEFINE p == IF request[r].kind = "view" THEN "done" ELSE "loop"
                   T == {w \in Workflows : File(disc.tree, w) # Absent}
        <5>1. request'[r] = [request[r] EXCEPT !.pc = p, !.todo = T]
          BY <1>1, <2>4, <3>2 DEF List
        <5>2. p \in {"done", "loop"} /\ T \in SUBSET Workflows
          OBVIOUS
        <5> HIDE DEF p, T
        <5> QED
          BY <5>1, <5>2
      <4> QED
        BY <1>1, <1>4, <1>7, <4>1 DEF Request
    <3> QED
      BY <3>1, <3>2
  <2>5. CASE StartWorkflow(r)
    <3>1. PICK w \in request[r].todo :
            \/ request'[r] = [request[r] EXCEPT !.todo = @ \ {w}, !.started = @ \cup {w}]
            \/ request'[r] = [request[r] EXCEPT !.todo = @ \ {w}, !.started = @]
            \/ request'[r] = [request[r] EXCEPT !.todo = @ \ {w}, !.lost = TRUE]
      BY <1>1, <2>5 DEF StartWorkflow
    <3>2. request[r] \in Request
      BY <1>1
    <3>3. /\ request'[r].sync = request[r].sync /\ request'[r].kind = request[r].kind
          /\ request'[r].pc = request[r].pc
      BY ONLY <3>1, <3>2 DEF Request
    <3> QED
      BY <1>4, <1>7, <3>3
  <2>6. CASE ReadSchedule(r)
    <3>1. PICK w \in request[r].todo :
            \/ request'[r] = [request[r] EXCEPT !.todo = @ \ {w}]
            \/ /\ request'[r] = [request[r] EXCEPT !.todo = @ \ {w}, !.pc = "write",
                                 !.sync = [workflow |-> w, commit |-> disc.tree, at |-> now]]
               /\ Reads(w) # Absent
      BY <1>1, <2>6 DEF ReadSchedule, Reading
    <3>2. CASE request'[r] = [request[r] EXCEPT !.todo = @ \ {w}]
      BY <1>1, <1>4, <1>7, <3>2 DEF Request
    <3>3. CASE /\ request'[r] = [request[r] EXCEPT !.todo = @ \ {w}, !.pc = "write",
                                 !.sync = [workflow |-> w, commit |-> disc.tree, at |-> now]]
               /\ Reads(w) # Absent
      <4>1. /\ request'[r].sync = [workflow |-> w, commit |-> disc.tree, at |-> now]
            /\ request'[r].kind = "sync"
        <5>1. request[r] \in Request /\ request[r].kind = "sync"
          BY <1>1, <2>6 DEF ReadSchedule
        <5> QED
          BY <3>3, <5>1 DEF Request
      <4>2. request'[r].sync.at = now /\ request'[r].sync.commit # NoCommit
        BY <3>3, <4>1 DEF Reads
      <4> QED
        BY <1>1, <1>7, <4>1, <4>2 DEF NoSync, Moments
    <3> QED
      BY <3>1, <3>2, <3>3
  <2>7. CASE SyncWorkflow(r)
    <3>1. PICK p \in {"loop", "failed"} : request'[r] = [request[r] EXCEPT !.pc = p, !.sync = NoSync]
      BY <1>1, <2>7 DEF SyncWorkflow, Written
    <3> QED
      BY <1>1, <1>5, <1>7, <3>1 DEF Request
  <2>8. CASE Reply(r)
    BY <1>1, <1>5, <1>7, <2>8 DEF Reply, Quiet
  <2>9. ASSUME NEW e \in Events, Webhook(r, e)
        PROVE  request'[r].sync = NoSync /\ request'[r].pc # "write"
    BY <1>1, <2>9 DEF Webhook, Quiet
  <2>10. ASSUME NEW b \in Branches \cup Commits, ListConfigs(r, b)
         PROVE  request'[r].sync = NoSync /\ request'[r].pc # "write"
    BY <1>1, <2>10 DEF ListConfigs, Quiet
  <2> QED
    BY <1>5, <1>7, <2>3, <2>4, <2>5, <2>6, <2>7, <2>8, <2>9, <2>10 DEF RequestStep
<1> QED
  BY <1>6, <1>7

\* Every step keeps to the workflows of the project.
LEMMA WithinNext == Within /\ [Next]_vars => Within'
<1> SUFFICES ASSUME Within, [Next]_vars PROVE Within'
  OBVIOUS
<1>1. ASSUME NEW r \in Requests, RequestStep(r) PROVE Within'
  <2>1. UNCHANGED <<now, head, run>>
    BY <1>1 DEF RequestStep, Webhook, ListConfigs, Clear, Clone, Checkout, Detach, AsTag,
      List, StartWorkflow, ReadSchedule, SyncWorkflow, LoopEnds, Reply, schedVars
  <2> QED
    BY <1>1, <2>1, RequestWithin, TreeWithin, TimelyStep DEF Within
<1>2. CASE UNCHANGED <<now, trigVars>>
  BY <1>2 DEF trigVars, Within, Timely
<1>3. CASE Tock /\ UNCHANGED trigVars
  <2>1. now' \in Moments /\ \A i \in Moments : i <= now => i <= now'
    BY <1>3 DEF Tock, Within, Moments
  <2>2. run.at \in Moments /\ \A r \in Requests : request[r].sync.at \in Moments
    BY DEF Within, Request, Pendings, NoSync, Zero, Moments
  <2> QED
    BY <1>3, <2>1, <2>2 DEF trigVars, Within, Timely
<1>4. ASSUME NEW p \in Processes, TriggersRestart(p) PROVE Within'
  <2>1. UNCHANGED <<now, head, disc>>
    BY <1>4 DEF TriggersRestart, Restart
  <2>2. CASE UNCHANGED <<request, run>>
    BY <2>1, <2>2 DEF Within, Timely
  <2>3. CASE request' = [r \in Requests |-> Quiet] /\ run' = NoSync
    BY <2>1, <2>3, QuietIsRequest DEF Within, Timely, Quiet, NoSync, Zero, Moments
  <2> QED
    BY <1>4, <2>2, <2>3 DEF TriggersRestart
<1>5. ASSUME NEW w \in Workflows, NEW c \in Commits, RunStarts(w, c) PROVE Within'
  <2>1. run' = [workflow |-> w, commit |-> c, at |-> now] /\ UNCHANGED <<now, head, disc, request>>
    BY <1>5 DEF RunStarts, schedVars
  <2>2. run' \in Pendings /\ run'.at <= now
    BY <2>1 DEF Within, Pendings, Trees, Moments
  <2> QED
    BY <2>1, <2>2 DEF Within, Timely
<1>6. CASE RunSyncs
  BY <1>6 DEF RunSyncs, Within, Timely, NoSync, Zero, Moments
<1>7. ASSUME NEW b \in Branches, NEW c \in Commits, Push(b, c) PROVE Within'
  BY <1>7 DEF Push, Within, Timely, schedVars
<1>8. ASSUME NEW p \in Processes, Tick(p) /\ UNCHANGED trigVars PROVE Within'
  BY <1>2, <1>8 DEF Tick, TickList, TickTrigger, TickUpsert, trigVars
<1> QED
  BY <1>1, <1>2, <1>3, <1>4, <1>5, <1>6, <1>7, <1>8 DEF Next, vars, schedVars

\* Every step maps to a step of `Schedules' or leaves the table and the tick alone.
LEMMA StepImplements == Within /\ [Next]_vars => [ScheduleNext]_schedVars
<1> SUFFICES ASSUME Within, [Next]_vars PROVE [ScheduleNext]_schedVars
  OBVIOUS
<1>1. ASSUME NEW s \in Pendings, s.at <= now, Syncs(s) \/ SyncFails,
             UNCHANGED <<now, due, queued, ran, again, failures, crashes>>
      PROVE  [ScheduleNext]_schedVars
  <2>1. s.workflow \in Workflows /\ s.at \in Moments
    BY DEF Pendings
  <2>2. CASE Syncs(s)
    BY <1>1, <2>1, <2>2, SyncIsSync DEF Syncs
  <2>3. CASE SyncFails
    BY <1>1, <2>3 DEF SyncFails, schedVars
  <2> QED
    BY <1>1, <2>2, <2>3
<1>2. ASSUME NEW r \in Requests, RequestStep(r) PROVE [ScheduleNext]_schedVars
  <2>1. CASE SyncWorkflow(r)
    <3>1. request[r].sync \in Pendings /\ request[r].sync.at <= now
      BY <2>1 DEF SyncWorkflow, Within, Timely, Request
    <3> QED
      BY <1>1, <2>1, <3>1 DEF SyncWorkflow
  <2>2. CASE ~SyncWorkflow(r)
    BY <1>2, <2>2 DEF RequestStep, Webhook, ListConfigs, Clear, Clone, Checkout, Detach, AsTag,
      List, StartWorkflow, ReadSchedule, LoopEnds, Reply
  <2> QED
    BY <2>1, <2>2
<1>3. CASE RunSyncs
  <2>1. run \in Pendings /\ run.at <= now
    BY <1>3 DEF RunSyncs, Within, Timely
  <2> QED
    BY <1>1, <1>3, <2>1 DEF RunSyncs
<1>4. CASE Tock
  BY <1>4 DEF ScheduleNext
<1>5. ASSUME NEW p \in Processes, Tick(p) \/ TriggersRestart(p) PROVE [ScheduleNext]_schedVars
  BY <1>5 DEF TriggersRestart, ScheduleNext
<1>6. CASE UNCHANGED schedVars
  BY <1>6
<1> QED
  BY <1>2, <1>3, <1>4, <1>5, <1>6 DEF Next, vars, RunStarts, Push

\* Whatever webhooks, listings and runs do to the table of schedules
\* (SyncProjectSchedules, SyncSchedule) is what `Schedules' allows.
THEOREM SchedulesImplemented == Spec => ImplementsSchedules
<1>1. Init => ScheduleInit
  BY DEF Init
<1> QED
  BY <1>1, WithinInit, WithinNext, StepImplements, PTL
  DEF Spec, ScheduleSpec, ImplementsSchedules

\* In the company of requests and runs, too, a due time is queued once.
THEOREM DueTimesOnceInCompany == Spec => []OncePerDueTime
BY SchedulesImplemented, DueTimesOnce DEF ImplementsSchedules
-------------------------------------------------------------------------------
(* What a webhook starts                                                     *)

\* Some pattern of a list matches a name when the name is among those they match.
LEMMA AnyIsUnion == \A P, x : MatchesAny(P, x) <=> x \in UNION P
BY DEF MatchesAny

\* MatchesRef is the table of docs/guide/workflows.md, case by case.
LEMMA RefsAgree ==
  ASSUME NEW f, NEW ref, NEW isTag
  PROVE  MatchesRef(f, ref, isTag) <=> RefSelected(f, ref, isTag)
<1>1. CASE f.tags = {} /\ f.branches = {}
  BY <1>1 DEF MatchesRef, RefSelected
<1>2. CASE f.tags # {} /\ f.branches = {}
  BY <1>2, AnyIsUnion DEF MatchesRef, RefSelected
<1>3. CASE f.tags = {} /\ f.branches # {}
  BY <1>3, AnyIsUnion DEF MatchesRef, RefSelected
<1>4. CASE f.tags # {} /\ f.branches # {}
  BY <1>4, AnyIsUnion DEF MatchesRef, RefSelected
<1> QED
  BY <1>1, <1>2, <1>3, <1>4

\* MatchesPaths is the sentence about `paths' and `paths_ignore'.
LEMMA PathsAgree ==
  ASSUME NEW cfg, NEW changed
  PROVE  MatchesPaths(cfg.paths, cfg.ignore, changed) <=> ChangeSelected(cfg, changed)
<1>1. ASSUME NEW P
      PROVE  (\E f \in changed : MatchesAny(P, f)) <=> changed \cap UNION P # {}
  BY AnyIsUnion
<1> QED
  BY <1>1 DEF MatchesPaths, ChangeSelected

\* The handler's checks, together, are what the documentation says of an event.
LEMMA ChecksAgree ==
  ASSUME NEW e \in Events, NEW cfg, cfg # Absent
  PROVE  Wanted(e, cfg) <=> Accepts(e) /\ Matches(cfg, e)
<1>1. CASE e.kind = "push"
  BY <1>1, RefsAgree, PathsAgree
  DEF Wanted, Accepts, Matches, MatchesPush
<1>2. CASE e.kind = "pull_request"
  BY <1>2, AnyIsUnion, PathsAgree
  DEF Wanted, Accepts, Matches, MatchesPullRequest
<1> QED
  BY <1>1, <1>2

\* The workflows an event starts, by the documentation.
Declared(e) == {w \in Workflows : Wanted(e, File(e.sha, w))}

\* A webhook that nobody disturbs, between two steps: what the directory holds, and
\* how far it got with the workflows of its commit.
Undisturbed(q) ==
  /\ q.pc \in {"clear", "clone", "checkout", "detach", "list", "loop"} => Accepts(q.event)
  /\ q.pc \in {"clear", "clone", "checkout", "detach", "list"} => q.started = {}
  /\ q.pc \in {"list", "loop"} /\ q.own => disc.tree = q.event.sha
  /\ q.pc = "loop" /\ q.own =>
       /\ Declared(q.event) \subseteq q.started \cup q.todo \/ q.lost
       /\ q.started \subseteq Declared(q.event)
  /\ q.pc = "done" /\ q.own =>
       /\ Declared(q.event) \subseteq q.started \/ q.lost
       /\ q.started \subseteq Declared(q.event)

\* The inductive invariant of the webhooks.
Faithful ==
  \A r \in Requests :
    request[r].pc # "idle" /\ request[r].kind = "webhook" =>
      /\ request[r].event \in Events /\ request[r].ref = request[r].event.sha
      /\ Undisturbed(request[r])

\* The initial state has no webhook.
LEMMA FaithfulInit == Init => Faithful
BY DEF Init, Quiet, Faithful

\* A write to the directory leaves the others with nothing to answer for, and the
\* one that writes with what holds of it.
LEMMA TouchFaithful ==
  ASSUME Within, Faithful, NEW r \in Requests, NEW p \in Pcs, Touch(r, p),
         request[r].pc # "idle", p \notin {"loop", "done"},
         request[r].kind = "webhook" =>
           /\ p \in {"clear", "clone", "checkout", "detach", "list"} =>
                request[r].pc \in {"clear", "clone", "checkout", "detach", "list"}
           /\ p = "list" => disc'.tree = request[r].ref
  PROVE  Faithful'
<1>1. request' \in [Requests -> Request] /\ request \in [Requests -> Request]
  BY TouchWithin DEF Within
<1>2. ASSUME NEW q \in Requests, q # r, request'[q].kind = "webhook", request'[q].pc # "idle"
      PROVE  /\ request'[q].event \in Events /\ request'[q].ref = request'[q].event.sha
             /\ Undisturbed(request[q])'
  <2>1. /\ request'[q].own = FALSE
        /\ request'[q].pc = request[q].pc /\ request'[q].kind = request[q].kind
        /\ request'[q].event = request[q].event /\ request'[q].ref = request[q].ref
        /\ request'[q].started = request[q].started
    BY <1>1, <1>2 DEF Touch, Request
  <2> QED
    BY <1>2, <2>1 DEF Faithful, Undisturbed, Accepts
<1>3. ASSUME request'[r].kind = "webhook"
      PROVE  /\ request'[r].event \in Events /\ request'[r].ref = request'[r].event.sha
             /\ Undisturbed(request[r])'
  <2>1. /\ request'[r].pc = p /\ request'[r].kind = request[r].kind
        /\ request'[r].event = request[r].event /\ request'[r].ref = request[r].ref
        /\ request'[r].started = request[r].started
    BY TouchedRequest
  <2> QED
    BY <1>3, <2>1 DEF Faithful, Undisturbed, Accepts
<1> QED
  BY <1>2, <1>3 DEF Faithful

\* A step that leaves the directory alone disturbs nobody else.
LEMMA OneMoves ==
  ASSUME Within, Faithful, NEW r \in Requests, NEW q \in Request,
         request' = [request EXCEPT ![r] = q], UNCHANGED disc,
         q.pc # "idle" /\ q.kind = "webhook" =>
           q.event \in Events /\ q.ref = q.event.sha /\ Undisturbed(q)
  PROVE  Faithful'
<1>1. request \in [Requests -> Request] /\ request'[r] = q
  BY DEF Within
<1>2. \A p \in Requests : p # r => request'[p] = request[p]
  BY <1>1
<1>3. ASSUME NEW p \in Requests, request'[p].pc # "idle", request'[p].kind = "webhook"
      PROVE  /\ request'[p].event \in Events /\ request'[p].ref = request'[p].event.sha
             /\ Undisturbed(request[p])'
  <2>1. CASE p = r
    BY <1>1, <1>3, <2>1 DEF Undisturbed
  <2>2. CASE p # r
    BY <1>2, <1>3, <2>2 DEF Faithful, Undisturbed
  <2> QED
    BY <2>1, <2>2
<1> QED
  BY <1>3 DEF Faithful

\* Failing claims nothing.
LEMMA FailsFaithful ==
  ASSUME Within, Faithful, NEW r \in Requests, Goto(r, "failed"), UNCHANGED disc,
         request[r].pc # "idle"
  PROVE  Faithful'
<1> DEFINE q == [request[r] EXCEPT !.pc = "failed"]
<1>1. request[r] \in Request /\ q \in Request
  BY UpdatedRequest DEF Within, Pcs
<1>2. request' = [request EXCEPT ![r] = q]
  BY <1>1 DEF Goto, Within
<1>3. q.pc = "failed" /\ q.kind = request[r].kind /\ q.event = request[r].event
      /\ q.ref = request[r].ref
  BY <1>1 DEF Request
<1>4. q.kind = "webhook" => q.event \in Events /\ q.ref = q.event.sha /\ Undisturbed(q)
  BY <1>3 DEF Faithful, Undisturbed
<1> HIDE DEF q
<1> QED
  BY <1>1, <1>2, <1>4, OneMoves

-------------------------------------------------------------------------------
\* A webhook that is turned away starts nothing, and nothing was declared for it.
LEMMA WebhookFaithful ==
  ASSUME Within, Faithful, NEW r \in Requests, NEW e \in Events, Webhook(r, e)
  PROVE  Faithful'
<1> DEFINE q == [Quiet EXCEPT !.pc = IF Accepts(e) THEN "clear" ELSE "done",
                              !.kind = "webhook", !.event = e, !.ref = e.sha]
<1>1. q \in Request
  BY QuietIsRequest DEF Request, Pcs, Kinds
<1>2. /\ q.pc = (IF Accepts(e) THEN "clear" ELSE "done")
      /\ q.event = e /\ q.ref = e.sha /\ q.started = {}
  BY DEF Quiet
<1>3. ~Accepts(e) => Declared(e) = {}
  BY ChecksAgree DEF Declared, Wanted
<1>4. Undisturbed(q)
  BY <1>2, <1>3 DEF Undisturbed
<1>5. request' = [request EXCEPT ![r] = q] /\ UNCHANGED disc
  BY DEF Webhook
<1> HIDE DEF q
<1> QED
  BY <1>1, <1>2, <1>4, <1>5, OneMoves

\* The listing of the commit's files has every workflow it declares.
LEMMA ListFaithful ==
  ASSUME Within, Faithful, NEW r \in Requests, List(r)
  PROVE  Faithful'
<1>1. CASE Goto(r, "failed")
  BY <1>1, FailsFaithful DEF List
<1>2. CASE ~Goto(r, "failed")
  <2> DEFINE p == IF request[r].kind = "view" THEN "done" ELSE "loop"
             T == {w \in Workflows : File(disc.tree, w) # Absent}
             q == [request[r] EXCEPT !.pc = p, !.todo = T]
  <2>1. request[r] \in Request /\ request \in [Requests -> Request]
    BY DEF Within
  <2>2. p \in Pcs /\ T \in SUBSET Workflows
    BY DEF Pcs
  <2>3. q \in Request
    BY <2>1, <2>2, UpdatedRequest
  <2>4. request' = [request EXCEPT ![r] = q] /\ UNCHANGED disc
    BY <1>2, <2>1 DEF List
  <2>5. /\ q.pc = p /\ q.todo = T /\ q.kind = request[r].kind
        /\ q.event = request[r].event /\ q.ref = request[r].ref
        /\ q.started = request[r].started /\ q.own = request[r].own
    BY <2>1 DEF Request
  <2>6. ASSUME q.kind = "webhook"
        PROVE  q.event \in Events /\ q.ref = q.event.sha /\ Undisturbed(q)
    <3>1. /\ q.pc = "loop" /\ q.started = {} /\ q.event \in Events /\ q.ref = q.event.sha
          /\ Accepts(q.event)
          /\ q.own => disc.tree = q.event.sha
      BY <2>5, <2>6 DEF List, Faithful, Undisturbed
    <3>2. disc.tree = q.event.sha => Declared(q.event) \subseteq q.todo
      BY <2>5 DEF Declared, Wanted
    <3> QED
      BY <3>1, <3>2 DEF Undisturbed
  <2> HIDE DEF q
  <2> QED
    BY <2>3, <2>4, <2>6, OneMoves
<1> QED
  BY <1>1, <1>2

\* A run is started when the file declares the event, or the store refuses it.
LEMMA StartFaithful ==
  ASSUME Within, Faithful, NEW r \in Requests, StartWorkflow(r)
  PROVE  Faithful'
<1>1. request[r] \in Request /\ request \in [Requests -> Request]
  BY DEF Within
<1>2. PICK w \in request[r].todo, S \in SUBSET Workflows, l \in BOOLEAN :
        LET wanted == Reads(w) # Absent /\ Matches(Reads(w), request[r].event) IN
          /\ request' = [request EXCEPT ![r] =
               [request[r] EXCEPT !.todo = request[r].todo \ {w}, !.started = S, !.lost = l]]
          /\ \/ /\ l = request[r].lost
                /\ S = IF wanted THEN request[r].started \cup {w} ELSE request[r].started
             \/ l = TRUE /\ S = request[r].started
  <2>1. PICK w \in request[r].todo :
        LET wanted == Reads(w) # Absent /\ Matches(Reads(w), request[r].event) IN
         \/ request' = [request EXCEPT ![r].todo = @ \ {w},
                                       ![r].started = IF wanted THEN @ \cup {w} ELSE @]
         \/ /\ wanted
            /\ request' = [request EXCEPT ![r].todo = @ \ {w}, ![r].lost = TRUE]
    BY DEF StartWorkflow
  <2>2. w \in Workflows /\ request[r].started \in SUBSET Workflows
        /\ request[r].lost \in BOOLEAN
    BY <1>1 DEF Request
  <2> DEFINE wanted == Reads(w) # Absent /\ Matches(Reads(w), request[r].event)
             S == IF wanted THEN request[r].started \cup {w} ELSE request[r].started
             T == request[r].todo \ {w}
  <2>3. S \in SUBSET Workflows
    BY <2>2
  <2>4. CASE request' = [request EXCEPT ![r].todo = @ \ {w},
                                        ![r].started = IF wanted THEN @ \cup {w} ELSE @]
    <3>1. [request[r] EXCEPT !.todo = T, !.started = S]
            = [request[r] EXCEPT !.todo = T, !.started = S, !.lost = request[r].lost]
      BY <1>1 DEF Request
    <3>2. request' = [request EXCEPT ![r] = [request[r] EXCEPT !.todo = T, !.started = S]]
      BY <1>1, <2>4
    <3> QED
      BY <2>2, <2>3, <3>1, <3>2
  <2>5. CASE request' = [request EXCEPT ![r].todo = @ \ {w}, ![r].lost = TRUE]
    <3>1. [request[r] EXCEPT !.todo = T, !.lost = TRUE]
            = [request[r] EXCEPT !.todo = T, !.started = request[r].started, !.lost = TRUE]
      BY <1>1 DEF Request
    <3>2. request' = [request EXCEPT ![r] = [request[r] EXCEPT !.todo = T, !.lost = TRUE]]
      BY <1>1, <2>5
    <3> QED
      BY <2>2, <3>1, <3>2
  <2> QED
    BY <2>1, <2>4, <2>5
<1> DEFINE q == [request[r] EXCEPT !.todo = request[r].todo \ {w}, !.started = S, !.lost = l]
<1>3. q \in Request
  BY <1>1 DEF Request
<1>4. /\ q.pc = "loop" /\ q.kind = "webhook" /\ q.event = request[r].event
      /\ q.ref = request[r].ref /\ q.own = request[r].own
      /\ q.todo = request[r].todo \ {w} /\ q.started = S /\ q.lost = l
  BY <1>1 DEF Request, StartWorkflow
<1>5. /\ q.event \in Events /\ q.ref = q.event.sha /\ Accepts(q.event)
      /\ q.own => /\ disc.tree = q.event.sha
                  /\ \/ Declared(q.event) \subseteq request[r].started \cup request[r].todo
                     \/ request[r].lost
                  /\ request[r].started \subseteq Declared(q.event)
  BY <1>4 DEF StartWorkflow, Faithful, Undisturbed
<1>6. ASSUME q.own
      PROVE  Reads(w) # Absent /\ Matches(Reads(w), q.event) <=> w \in Declared(q.event)
  <2>1. w \in Workflows /\ Reads(w) = File(q.event.sha, w)
    BY <1>1, <1>5, <1>6 DEF Reads, Request
  <2>2. CASE Reads(w) = Absent
    BY <2>1, <2>2 DEF Declared, Wanted
  <2>3. CASE Reads(w) # Absent
    BY <1>5, <2>1, <2>3, ChecksAgree DEF Declared
  <2> QED
    BY <2>2, <2>3
<1>7. Undisturbed(q)
  BY <1>2, <1>4, <1>5, <1>6 DEF Undisturbed
<1>8. request' = [request EXCEPT ![r] = q] /\ UNCHANGED disc
  BY <1>2 DEF StartWorkflow
<1> HIDE DEF q
<1> QED
  BY <1>3, <1>5, <1>7, <1>8, OneMoves

\* At the end of the loop nothing that was declared is left.
LEMMA LoopEndsFaithful ==
  ASSUME Within, Faithful, NEW r \in Requests, LoopEnds(r)
  PROVE  Faithful'
<1> DEFINE q == [request[r] EXCEPT !.pc = "done"]
<1>1. request[r] \in Request /\ q \in Request
  BY UpdatedRequest DEF Within, Pcs
<1>2. request' = [request EXCEPT ![r] = q] /\ UNCHANGED disc
  BY <1>1 DEF LoopEnds, Goto, Within
<1>3. /\ q.pc = "done" /\ q.kind = request[r].kind /\ q.event = request[r].event
      /\ q.ref = request[r].ref /\ q.own = request[r].own
      /\ q.started = request[r].started /\ q.lost = request[r].lost
  BY <1>1 DEF Request
<1>4. q.kind = "webhook" => q.event \in Events /\ q.ref = q.event.sha /\ Undisturbed(q)
  BY <1>3 DEF LoopEnds, Faithful, Undisturbed
<1> HIDE DEF q
<1> QED
  BY <1>1, <1>2, <1>4, OneMoves

\* Every step of a request preserves the invariant.
LEMMA RequestFaithful ==
  ASSUME Within, Faithful, NEW r \in Requests, RequestStep(r)
  PROVE  Faithful'
<1>1. ASSUME NEW e \in Events, Webhook(r, e) PROVE Faithful'
  BY <1>1, WebhookFaithful
<1>2. ASSUME NEW b \in Branches \cup Commits, ListConfigs(r, b) PROVE Faithful'
  <2> DEFINE q == [Quiet EXCEPT !.pc = "clear", !.ref = b,
                     !.kind = IF b = DefaultBranch THEN "sync" ELSE "view"]
  <2>1. q \in Request
    BY ListingIsRequest
  <2>2. q.kind # "webhook"
    BY DEF Quiet
  <2>3. request' = [request EXCEPT ![r] = q] /\ UNCHANGED disc
    BY <1>2 DEF ListConfigs
  <2> HIDE DEF q
  <2> QED
    BY <2>1, <2>2, <2>3, OneMoves
<1>3. ASSUME request[r].kind = "webhook", request[r].pc # "idle"
      PROVE  request[r].ref \notin Branches
  BY <1>3 DEF Faithful
<1>4. CASE Clear(r)
  BY <1>4, TouchFaithful DEF Clear, Pcs
<1>5. CASE Clone(r)
  BY <1>3, <1>5, TouchFaithful, FailsFaithful DEF Clone, Pcs
<1>6. CASE Checkout(r)
  BY <1>3, <1>6, TouchFaithful DEF Checkout, Pcs
<1>7. CASE Detach(r)
  <2>1. CASE Goto(r, "failed") /\ UNCHANGED disc
    BY <1>7, <2>1, FailsFaithful DEF Detach
  <2>2. CASE disc' = [disc EXCEPT !.tree = request[r].ref] /\ Touch(r, "list")
    <3>1. disc'.tree = request[r].ref
      BY <2>2
    <3> QED
      BY <1>7, <2>2, <3>1, TouchFaithful DEF Detach, Pcs
  <2> QED
    BY <1>7, <2>1, <2>2 DEF Detach
<1>8. CASE AsTag(r)
  BY <1>8, TouchFaithful, FailsFaithful DEF AsTag, Pcs
<1>9. CASE List(r)
  BY <1>9, ListFaithful
<1>10. CASE StartWorkflow(r)
  BY <1>10, StartFaithful
<1>11. CASE ReadSchedule(r) \/ SyncWorkflow(r)
  <2>1. PICK q \in Request :
          request' = [request EXCEPT ![r] = q] /\ q.kind = "sync"
    <3>1. request[r] \in Request /\ request \in [Requests -> Request]
      BY DEF Within
    <3>2. request' \in [Requests -> Request]
      BY RequestWithin
    <3>3. request[r].kind = "sync"
      BY <1>11 DEF ReadSchedule, SyncWorkflow, Within, Timely
    <3>4. request' = [request EXCEPT ![r] = request'[r]]
      BY <1>11, <3>1, <3>2 DEF ReadSchedule, SyncWorkflow, Written
    <3>5. request'[r].kind = request[r].kind
      <4>1. CASE ReadSchedule(r)
        <5>1. PICK w \in request[r].todo : request' = [request EXCEPT ![r] = Reading(request[r], w)]
          BY <4>1 DEF ReadSchedule
        <5>2. Reading(request[r], w).kind = request[r].kind
          BY <3>1 DEF Reading, Request
        <5> QED
          BY <3>1, <5>1, <5>2
      <4>2. CASE SyncWorkflow(r)
        BY <3>1, <4>2 DEF SyncWorkflow, Written, Request
      <4> QED
        BY <1>11, <4>1, <4>2
    <3> QED
      BY <3>2, <3>3, <3>4, <3>5
  <2> QED
    BY <1>11, <2>1, OneMoves DEF ReadSchedule, SyncWorkflow
<1>12. CASE LoopEnds(r)
  BY <1>12, LoopEndsFaithful
<1>13. CASE Reply(r)
  <2>1. Quiet.kind # "webhook"
    BY DEF Quiet
  <2> QED
    BY <1>13, <2>1, QuietIsRequest, OneMoves DEF Reply
<1> QED
  BY <1>1, <1>2, <1>4, <1>5, <1>6, <1>7, <1>8, <1>9, <1>10, <1>11, <1>12, <1>13
  DEF RequestStep

\* Nothing but a request touches requests or the directory, and a restart drops the
\* requests there were.
LEMMA FaithfulNext == Within /\ Faithful /\ [Next]_vars => Faithful'
<1> SUFFICES ASSUME Within, Faithful, [Next]_vars PROVE Faithful'
  OBVIOUS
<1>1. CASE UNCHANGED <<disc, request>>
  BY <1>1 DEF Faithful, Undisturbed
<1>2. ASSUME NEW p \in Processes, TriggersRestart(p) PROVE Faithful'
  <2>1. CASE request' = [r \in Requests |-> Quiet]
    BY <2>1 DEF Faithful, Quiet
  <2> QED
    BY <1>1, <1>2, <2>1 DEF TriggersRestart
<1>3. ASSUME NEW r \in Requests, RequestStep(r) PROVE Faithful'
  BY <1>3, RequestFaithful
<1> QED
  BY <1>1, <1>2, <1>3 DEF Next, vars, trigVars, RunStarts, RunSyncs, Push

\* A webhook starts exactly the workflows its own commit declares, unless another
\* request got at the discovery directory or the store refused a run, for every
\* repository, every set of events and any number of requests
\* (handlers/webhooks.go, ci/discover.go, git/git.go, ci/config.go).
THEOREM StartsWhatIsWanted == Spec => []WebhookStartsWanted
<1>1. ASSUME Within, Faithful PROVE WebhookStartsWanted
  <2>1. ASSUME NEW r \in Requests, request[r].pc = "done", request[r].kind = "webhook"
        PROVE  \/ request[r].started = Declared(request[r].event)
               \/ ~request[r].own
               \/ request[r].lost /\ request[r].started \subseteq Declared(request[r].event)
    BY <1>1, <2>1 DEF Faithful, Undisturbed
  <2> QED
    BY <2>1 DEF WebhookStartsWanted, Declared
<1> QED
  BY <1>1, WithinInit, WithinNext, FaithfulInit, FaithfulNext, PTL DEF Spec

-------------------------------------------------------------------------------
(* The discovery directory and what a request holds of it                    *)

\* Before it has listed the directory, a request has started nothing.
Discovering == {"clear", "clone", "checkout", "detach", "tag", "notag", "list"}

Fits(q) ==
  /\ q.pc # "idle" => q.ref \in Branches \cup Commits
  /\ q.pc = "detach" => q.ref \in Commits
  /\ q.pc \in Discovering => q.started = {}
  /\ q.started \cap q.todo = {}
  /\ q.pc = "clone" /\ q.own => ~disc.repo
  /\ q.pc = "write" => q.sync.commit \in Commits /\ q.sync.workflow \notin q.todo

AllFit == \A r \in Requests : Fits(request[r])

\* Files are there only in a repository.
DirFits ==
  /\ disc \in [repo : BOOLEAN, tree : Commits \cup {NoCommit}]
  /\ disc.tree # NoCommit => disc.repo

Typed ==
  /\ Within /\ AllFit /\ DirFits
  /\ run # NoSync => run.commit \in Commits

\* A write to the directory takes it from those who were about to clone into it.
LEMMA TouchFits ==
  ASSUME Within, AllFit, NEW r \in Requests, NEW p \in Pcs, Touch(r, p),
         request[r].pc \in Discovering, p \in Discovering \cup {"failed"},
         p = "detach" => request[r].ref \in Commits,
         p = "clone" => ~disc'.repo
  PROVE  AllFit'
<1>1. request \in [Requests -> Request] /\ request' \in [Requests -> Request]
  BY TouchWithin DEF Within
<1>2. ASSUME NEW q \in Requests, q # r PROVE Fits(request[q])'
  <2>1. /\ request'[q].own = FALSE
        /\ request'[q].pc = request[q].pc /\ request'[q].ref = request[q].ref
        /\ request'[q].started = request[q].started /\ request'[q].todo = request[q].todo
        /\ request'[q].sync = request[q].sync
    BY <1>1, <1>2 DEF Touch, Request
  <2>2. Fits(request[q])
    BY DEF AllFit
  <2> QED
    BY <2>1, <2>2 DEF Fits
<1>3. Fits(request[r])'
  <2>1. /\ request'[r].pc = p /\ request'[r].ref = request[r].ref
        /\ request'[r].started = request[r].started
    BY TouchedRequest
  <2>2. request[r].started = {} /\ request[r].ref \in Branches \cup Commits
    BY DEF AllFit, Fits, Discovering
  <2>3. p # "write"
    BY DEF Discovering
  <2> QED
    BY <2>1, <2>2, <2>3 DEF Fits
<1> QED
  BY <1>2, <1>3 DEF AllFit

\* A step that leaves the directory alone concerns one request.
LEMMA OneFits ==
  ASSUME Within, AllFit, NEW r \in Requests, NEW q \in Request,
         request' = [request EXCEPT ![r] = q], UNCHANGED disc, Fits(q)
  PROVE  AllFit'
<1>1. request \in [Requests -> Request] /\ request'[r] = q
  BY DEF Within
<1>2. \A p \in Requests : p # r => request'[p] = request[p]
  BY <1>1
<1>3. ASSUME NEW p \in Requests PROVE Fits(request[p])'
  <2>1. CASE p = r
    BY <1>1, <2>1 DEF Fits
  <2>2. CASE p # r
    BY <1>2, <2>2 DEF AllFit, Fits
  <2> QED
    BY <2>1, <2>2
<1> QED
  BY <1>3 DEF AllFit

\* A request that fails, or is done, keeps what it has started.
LEMMA GoesFit ==
  ASSUME Within, AllFit, NEW r \in Requests, request[r].pc # "idle",
         NEW p \in {"done", "failed"}, Goto(r, p), UNCHANGED disc
  PROVE  AllFit'
<1> DEFINE q == [request[r] EXCEPT !.pc = p]
<1>1. request[r] \in Request /\ q \in Request
  BY UpdatedRequest DEF Within, Pcs
<1>2. request' = [request EXCEPT ![r] = q]
  BY <1>1 DEF Goto, Within
<1>3. /\ q.pc = p /\ q.ref = request[r].ref
      /\ q.started = request[r].started /\ q.todo = request[r].todo
  BY <1>1 DEF Request
<1> HIDE DEF q
<1>4. Fits(q)
  BY <1>3 DEF AllFit, Fits, Discovering
<1> QED
  BY <1>1, <1>2, <1>4, OneFits

\* A workflow leaves the list of a request for good, and is started at most then.
LEMMA LoopFits ==
  ASSUME Within, AllFit, NEW r \in Requests, NEW q \in Request,
         q.pc \in {"loop", "failed"}
           \/ (q.pc = "write" /\ q.sync.commit \in Commits /\ q.sync.workflow \notin q.todo),
         request[r].pc \in {"loop", "write"}, q.ref = request[r].ref,
         q.todo \subseteq request[r].todo,
         q.started \subseteq request[r].started \cup (request[r].todo \ q.todo),
         request' = [request EXCEPT ![r] = q], UNCHANGED disc
  PROVE  AllFit'
<1>1. Fits(request[r])
  BY DEF AllFit
<1>2. Fits(q)
  BY <1>1 DEF Fits, Discovering
<1> QED
  BY <1>2, OneFits

LEMMA ListFits ==
  ASSUME Within, AllFit, NEW r \in Requests, List(r)
  PROVE  AllFit'
<1>1. CASE Goto(r, "failed")
  BY <1>1, GoesFit DEF List
<1>2. CASE ~Goto(r, "failed")
  <2> DEFINE p == IF request[r].kind = "view" THEN "done" ELSE "loop"
             T == {w \in Workflows : File(disc.tree, w) # Absent}
             q == [request[r] EXCEPT !.pc = p, !.todo = T]
  <2>1. request[r] \in Request /\ request \in [Requests -> Request]
    BY DEF Within
  <2>2. p \in Pcs /\ T \in SUBSET Workflows
    BY DEF Pcs
  <2>3. q \in Request
    BY <2>1, <2>2, UpdatedRequest
  <2>4. request' = [request EXCEPT ![r] = q] /\ UNCHANGED disc
    BY <1>2, <2>1 DEF List
  <2>5. q.pc = p /\ q.ref = request[r].ref /\ q.started = request[r].started
    BY <2>1 DEF Request
  <2>6. request[r].started = {} /\ request[r].ref \in Branches \cup Commits
    BY DEF AllFit, Fits, Discovering, List
  <2>7. Fits(q)
    BY <2>5, <2>6 DEF Fits, Discovering
  <2> HIDE DEF q
  <2> QED
    BY <2>3, <2>4, <2>7, OneFits
<1> QED
  BY <1>1, <1>2

LEMMA StartFits ==
  ASSUME Within, AllFit, NEW r \in Requests, StartWorkflow(r)
  PROVE  AllFit'
<1> DEFINE q == request'[r]
<1>1. request \in [Requests -> Request] /\ request' \in [Requests -> Request]
  BY RequestWithin DEF Within, RequestStep
<1>2. PICK w \in request[r].todo :
        \/ request' = [request EXCEPT ![r].todo = @ \ {w}, ![r].started = @ \cup {w}]
        \/ request' = [request EXCEPT ![r].todo = @ \ {w}, ![r].started = @]
        \/ request' = [request EXCEPT ![r].todo = @ \ {w}, ![r].lost = TRUE]
  BY DEF StartWorkflow
<1>3. /\ q \in Request /\ q.pc = "loop" /\ q.ref = request[r].ref
      /\ q.todo = request[r].todo \ {w} /\ q.started \subseteq request[r].started \cup {w}
  BY <1>1, <1>2 DEF StartWorkflow, Request
<1>4. request' = [request EXCEPT ![r] = q]
  BY <1>1, <1>2
<1>5. request[r].pc = "loop" /\ UNCHANGED disc
  BY DEF StartWorkflow
<1> HIDE DEF q
<1>6. /\ q.todo \subseteq request[r].todo
      /\ q.started \subseteq request[r].started \cup (request[r].todo \ q.todo)
  BY <1>2, <1>3
<1> QED
  BY <1>3, <1>4, <1>5, <1>6, LoopFits

LEMMA SyncFits ==
  ASSUME Within, DirFits, AllFit, NEW r \in Requests, ReadSchedule(r) \/ SyncWorkflow(r)
  PROVE  AllFit'
<1> DEFINE q == request'[r]
<1>1. /\ request \in [Requests -> Request] /\ request' \in [Requests -> Request]
      /\ request[r] \in Request /\ q \in Request
  BY RequestWithin DEF Within, RequestStep
<1>2. request' = [request EXCEPT ![r] = q] /\ UNCHANGED disc
  BY <1>1 DEF ReadSchedule, SyncWorkflow, Written
<1>3. CASE ReadSchedule(r)
  <2>1. PICK w \in request[r].todo : q = Reading(request[r], w)
    BY <1>1, <1>3 DEF ReadSchedule
  <2>2. request[r].pc = "loop"
    BY <1>3 DEF ReadSchedule
  <2>3. /\ q.ref = request[r].ref /\ q.started = request[r].started
        /\ q.todo = request[r].todo \ {w}
    BY <1>1, <2>1 DEF Reading, Request
  <2>4. CASE Reads(w) = Absent
    <3>1. q.pc = "loop"
      BY <1>1, <2>1, <2>2, <2>4 DEF Reading, Request
    <3> HIDE DEF q
    <3> QED
      BY <1>1, <1>2, <2>2, <2>3, <3>1, LoopFits
  <2>5. CASE Reads(w) # Absent
    <3>1. /\ q.pc = "write"
          /\ q.sync = [workflow |-> w, commit |-> disc.tree, at |-> now]
      BY <1>1, <2>1, <2>5 DEF Reading, Request
    <3>2. disc.tree \in Commits
      BY <2>5 DEF Reads, DirFits
    <3> HIDE DEF q
    <3>3. q.sync.commit \in Commits /\ q.sync.workflow \notin q.todo
      BY <2>3, <3>1, <3>2
    <3> QED
      BY <1>1, <1>2, <2>2, <2>3, <3>1, <3>3, LoopFits
  <2> QED
    BY <2>4, <2>5
<1>4. CASE SyncWorkflow(r)
  <2>1. /\ q.pc \in {"loop", "failed"} /\ q.ref = request[r].ref
        /\ q.started = request[r].started /\ q.todo = request[r].todo
    BY <1>1, <1>4 DEF SyncWorkflow, Written, Request
  <2>2. request[r].pc = "write"
    BY <1>4 DEF SyncWorkflow
  <2> HIDE DEF q
  <2> QED
    BY <1>1, <1>2, <2>1, <2>2, LoopFits
<1> QED
  BY <1>3, <1>4

\* No step of a request breaks what another one relies on.
LEMMA RequestFits ==
  ASSUME Typed, NEW r \in Requests, RequestStep(r)
  PROVE  AllFit'
<1>1. Within /\ AllFit /\ DirFits /\ Fits(request[r])
  BY DEF Typed, AllFit
<1>2. ASSUME NEW q, q \in Request, q.pc \in {"idle", "clear", "done"}, q.started = {},
             q.pc # "idle" => q.ref \in Branches \cup Commits,
             request' = [request EXCEPT ![r] = q], UNCHANGED disc
      PROVE  AllFit'
  <2>1. Fits(q)
    BY <1>2 DEF Fits
  <2> QED
    BY <1>1, <1>2, <2>1, OneFits
<1>3. ASSUME NEW e \in Events, Webhook(r, e) PROVE AllFit'
  <2> DEFINE q == [Quiet EXCEPT !.pc = IF Accepts(e) THEN "clear" ELSE "done",
                                !.kind = "webhook", !.event = e, !.ref = e.sha]
  <2>1. q \in Request
    BY QuietIsRequest DEF Request, Pcs, Kinds
  <2>2. q.pc \in {"clear", "done"} /\ q.started = {} /\ q.ref \in Commits
    BY DEF Quiet
  <2>3. request' = [request EXCEPT ![r] = q] /\ UNCHANGED disc
    BY <1>3 DEF Webhook
  <2> HIDE DEF q
  <2> QED
    BY <1>2, <2>1, <2>2, <2>3
<1>4. ASSUME NEW b \in Branches \cup Commits, ListConfigs(r, b) PROVE AllFit'
  <2> DEFINE q == [Quiet EXCEPT !.pc = "clear", !.ref = b,
                     !.kind = IF b = DefaultBranch THEN "sync" ELSE "view"]
  <2>1. q \in Request
    BY ListingIsRequest
  <2>2. q.pc = "clear" /\ q.started = {} /\ q.ref = b
    BY DEF Quiet
  <2>3. request' = [request EXCEPT ![r] = q] /\ UNCHANGED disc
    BY <1>4 DEF ListConfigs
  <2> HIDE DEF q
  <2> QED
    BY <1>2, <2>1, <2>2, <2>3
<1>5. ASSUME request[r].pc \in Discovering, NEW p \in {"checkout", "list", "tag", "notag", "failed"},
             Touch(r, p)
      PROVE  AllFit'
  BY <1>1, <1>5, TouchFits DEF Pcs, Discovering
<1>6. ASSUME request[r].pc \in Discovering, Goto(r, "failed"), UNCHANGED disc PROVE AllFit'
  BY <1>1, <1>6, GoesFit DEF Discovering
<1>7. CASE Clear(r)
  <2>1. ~disc'.repo
    BY <1>7 DEF Clear, Cleared, EmptyDir
  <2> QED
    BY <1>1, <1>7, <2>1, TouchFits DEF Clear, Pcs, Discovering
<1>8. CASE Clone(r)
  BY <1>5, <1>6, <1>8 DEF Clone, Discovering
<1>9. CASE Checkout(r)
  <2>1. request[r].ref \in Branches \cup Commits
    BY <1>1, <1>9 DEF Fits, Checkout
  <2>2. CASE Touch(r, "detach") /\ request[r].ref \notin Branches
    BY <1>1, <1>9, <2>1, <2>2, TouchFits DEF Checkout, Pcs, Discovering
  <2> QED
    BY <1>5, <1>9, <2>2 DEF Checkout, Discovering
<1>10. CASE Detach(r)
  BY <1>5, <1>6, <1>10 DEF Detach, Discovering
<1>11. CASE AsTag(r)
  BY <1>5, <1>6, <1>11 DEF AsTag, Discovering
<1>12. CASE LoopEnds(r)
  BY <1>1, <1>12, GoesFit DEF LoopEnds
<1>13. CASE Reply(r)
  BY <1>2, <1>13, QuietIsRequest DEF Reply, Quiet
<1> QED
  BY <1>1, <1>3, <1>4, <1>7, <1>8, <1>9, <1>10, <1>11, <1>12, <1>13, ListFits, StartFits, SyncFits
  DEF RequestStep

\* The directory is empty, being cloned into, or has the files of a commit.
LEMMA DirFitsNext ==
  ASSUME Typed, NEW r \in Requests, RequestStep(r)
  PROVE  DirFits'
<1>1. disc \in [repo : BOOLEAN, tree : Commits \cup {NoCommit}] /\ (disc.tree # NoCommit => disc.repo)
  BY DEF Typed, DirFits
<1>2. CASE UNCHANGED disc
  BY <1>1, <1>2 DEF DirFits
<1>3. CASE disc' = EmptyDir \/ disc' = [repo |-> TRUE, tree |-> NoCommit]
  <2>1. ASSUME NEW b \in BOOLEAN, disc' = [repo |-> b, tree |-> NoCommit] PROVE DirFits'
    <3>1. disc'.tree = NoCommit
      BY <2>1
    <3>2. disc' \in [repo : BOOLEAN, tree : Commits \cup {NoCommit}]
      BY <2>1
    <3> QED
      BY <3>1, <3>2 DEF DirFits
  <2> QED
    BY <1>3, <2>1 DEF EmptyDir
<1>4. CASE Checkout(r) /\ disc' = [repo |-> TRUE, tree |-> CloneHead(request[r].ref)]
  <2>1. CloneHead(request[r].ref) \in Commits
    BY DEF CloneHead, Typed, Within
  <2> QED
    BY <1>4, <2>1 DEF DirFits
<1>5. CASE Detach(r) /\ disc.repo /\ disc' = [disc EXCEPT !.tree = request[r].ref]
  <2>1. request[r].ref \in Commits
    BY <1>5 DEF Detach, Typed, AllFit, Fits
  <2>2. disc' = [repo |-> TRUE, tree |-> request[r].ref]
    BY <1>1, <1>5
  <2> QED
    BY <2>1, <2>2 DEF DirFits
<1>6. CASE Clear(r) \/ AsTag(r)
  BY <1>2, <1>3, <1>6 DEF Clear, Cleared, AsTag
<1>7. CASE Clone(r)
  BY <1>2, <1>3, <1>7 DEF Clone
<1>8. CASE Checkout(r)
  BY <1>3, <1>4, <1>8 DEF Checkout
<1>9. CASE Detach(r)
  BY <1>2, <1>5, <1>9 DEF Detach
<1>10. CASE ~(Clear(r) \/ Clone(r) \/ Checkout(r) \/ Detach(r) \/ AsTag(r))
  <2>1. ASSUME NEW e \in Events, Webhook(r, e) PROVE UNCHANGED disc
    BY <2>1 DEF Webhook
  <2>2. ASSUME NEW b \in Branches \cup Commits, ListConfigs(r, b) PROVE UNCHANGED disc
    BY <2>2 DEF ListConfigs
  <2>3. List(r) \/ StartWorkflow(r) \/ ReadSchedule(r) \/ SyncWorkflow(r) \/ LoopEnds(r)
          \/ Reply(r) => UNCHANGED disc
    BY DEF List, StartWorkflow, ReadSchedule, SyncWorkflow, LoopEnds, Reply
  <2> QED
    BY <1>2, <1>10, <2>1, <2>2, <2>3 DEF RequestStep
<1> QED
  BY <1>6, <1>7, <1>8, <1>9, <1>10

LEMMA TypedInit == Init => Typed
<1> SUFFICES ASSUME Init PROVE Typed
  OBVIOUS
<1>1. AllFit
  BY DEF Init, AllFit, Fits, Quiet, Discovering
<1>2. DirFits
  BY DEF Init, DirFits, EmptyDir
<1> QED
  BY <1>1, <1>2, WithinInit DEF Init, Typed

LEMMA TypedNext == Typed /\ [Next]_vars => Typed'
<1> SUFFICES ASSUME Typed, [Next]_vars PROVE Typed'
  OBVIOUS
<1>1. Within'
  BY WithinNext DEF Typed
<1>2. AllFit' /\ DirFits'
  <2>1. CASE UNCHANGED <<disc, request>>
    BY <2>1 DEF Typed, AllFit, Fits, DirFits
  <2>2. ASSUME NEW p \in Processes, TriggersRestart(p) PROVE AllFit' /\ DirFits'
    <3>1. CASE request' = [r \in Requests |-> Quiet] /\ UNCHANGED disc
      BY <3>1 DEF Typed, AllFit, Fits, Quiet, Discovering, DirFits
    <3> QED
      BY <2>1, <2>2, <3>1 DEF TriggersRestart
  <2>3. ASSUME NEW r \in Requests, RequestStep(r) PROVE AllFit' /\ DirFits'
    BY <2>3, RequestFits, DirFitsNext
  <2> QED
    BY <2>1, <2>2, <2>3 DEF Next, vars, trigVars, RunStarts, RunSyncs, Push
<1>3. run' # NoSync => run'.commit \in Commits
  <2>1. run # NoSync => run.commit \in Commits
    BY DEF Typed
  <2>2. ASSUME NEW r \in Requests, RequestStep(r) PROVE UNCHANGED run
    BY <2>2 DEF RequestStep, Webhook, ListConfigs, Clear, Clone, Checkout, Detach, AsTag,
      List, StartWorkflow, ReadSchedule, SyncWorkflow, LoopEnds, Reply
  <2>3. ASSUME NEW w \in Workflows, NEW c \in Commits, RunStarts(w, c)
        PROVE  run'.commit \in Commits
    BY <2>3 DEF RunStarts
  <2>4. ASSUME NEW b \in Branches, NEW c \in Commits, Push(b, c)
        PROVE  run' = run
    BY <2>4 DEF Push
  <2>5. ASSUME NEW p \in Processes, TriggersRestart(p) PROVE run' \in {run, NoSync}
    BY <2>5 DEF TriggersRestart
  <2>6. RunSyncs => run' = NoSync
    BY DEF RunSyncs
  <2> QED
    BY <2>1, <2>2, <2>3, <2>4, <2>5, <2>6 DEF Next, vars, trigVars
<1> QED
  BY <1>1, <1>2, <1>3 DEF Typed

\* A clone that nobody disturbs meets no repository, files are there only in one, and
\* no workflow is started while it is still on the list (ci/discover.go, git/git.go).
THEOREM TriggersTyped == Spec => []TriggersTypeOK
<1>1. ASSUME Typed, Fresh PROVE TriggersTypeOK
  <2>1. \A r \in Requests : request[r].pc \in Pcs /\ Fits(request[r])
    BY <1>1 DEF Typed, Within, AllFit, Request
  <2>2. ASSUME NEW s \in Pendings, s.commit \in Commits, s.at <= now PROVE s \in Pending
    BY <2>2 DEF Pendings, Pending, Moments
  <2>3. \A r \in Requests : request[r].pc = "write" => request[r].sync \in Pending
    BY <1>1, <2>1, <2>2 DEF Typed, Within, Timely, Request, Fits
  <2>4. run \in Pending \cup {NoSync}
    BY <1>1, <2>2 DEF Typed, Within, Timely
  <2> QED
    BY <1>1, <2>1, <2>3, <2>4 DEF Typed, Within, DirFits, Fits, Pcs, Fresh, Shaped, TriggersTypeOK
<1>2. Spec => []Fresh
  <2>1. Spec => ScheduleSpec
    BY SchedulesImplemented DEF ImplementsSchedules
  <2>2. ScheduleSpec => []Fresh
    BY FreshInit, FreshNext, PTL DEF ScheduleSpec
  <2> QED
    BY <2>1, <2>2
<1> QED
  BY <1>1, <1>2, TypedInit, TypedNext, PTL DEF Spec
===============================================================================
