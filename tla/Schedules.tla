------------------------------- MODULE Schedules -------------------------------
(***************************************************************************)
(* The schedules table of one project and its two kinds of writers: the    *)
(* schedulers, one in every process that serves the database, which at     *)
(* every tick list the entries that are due, queue a run for each and move *)
(* it to its next time; and the synchronisations with a ci.yml, by a run   *)
(* or by a listing of workflows of any process.  A scheduler works on the  *)
(* list it read, statement by statement, and no writer looks at the clock  *)
(* again when it writes the next time it has computed.                     *)
(*                                                                         *)
(* KeepOld, KeepTime, OnTheDot and MoveAnyway are faults the code does not *)
(* have: no action uses them, mutation runs put them in.                   *)
(***************************************************************************)
EXTENDS Naturals

CONSTANTS
  Processes,    \* processes on the database, a scheduler in each
  Workflows,    \* names of workflows
  Crons,        \* valid cron expressions
  NextTime,     \* cron.Next: the first time after another at which each falls
  NoCron,       \* "no schedule": a ci.yml without one, an absent row
  MaxTime,      \* bound: the clock
  MaxFailures,  \* bound: store calls of the schedulers that fail
  MaxCrashes    \* bound: crashes, or shutdowns, each followed by a restart

\* The zero time of Go is before any clock: an expression that falls on no day of
\* the next five years has it for its next time.
Zero    == 0
Moments == 0 .. MaxTime
Never   == MaxTime + 1     \* any time beyond the bound

ASSUME SchedulesAssumption ==
  /\ MaxTime \in Nat /\ MaxFailures \in Nat /\ MaxCrashes \in Nat
  /\ NextTime \in [Crons -> [Moments -> Moments \cup {Never}]]
  /\ \A c \in Crons, t \in Moments : NextTime[c][t] > t \/ NextTime[c][t] = Zero
  /\ NoCron \notin Crons

VARIABLES
  now,       \* the clock
  sched,     \* the table: expression and next time of each workflow
  due,       \* entries the tick of each process has listed and not yet queued
  queued,    \* the entry it has queued and not yet moved, and since when
  ran,       \* times each workflow was queued for (auxiliary)
  held,      \* those of them that must not come again (auxiliary)
  again,     \* one of these did (auxiliary)
  failures,  \* store calls that failed so far
  crashes    \* crashes so far

history   == <<ran, held, again>>
tickVars  == <<due, queued, history>>
schedVars == <<now, sched, due, queued, ran, held, again, failures, crashes>>

Row     == [cron : Crons, next : Moments \cup {Never}]
NoRow   == [cron |-> NoCron, next |-> Never]
Entry   == [workflow : Workflows, cron : Crons, next : Moments]
Queued  == [workflow : Workflows, cron : Crons, next : Moments, since : Moments]
NoEntry == [workflow |-> NoCron, cron |-> NoCron, next |-> Never, since |-> Zero]

ScheduleInit ==
  /\ now = 0
  /\ sched = [w \in Workflows |-> NoRow]
  /\ due = [p \in Processes |-> {}] /\ queued = [p \in Processes |-> NoEntry]
  /\ ran = [w \in Workflows |-> {}] /\ held = ran /\ again = FALSE
  /\ failures = 0 /\ crashes = 0

Fails == failures < MaxFailures /\ failures' = failures + 1

Tock ==
  /\ now < MaxTime
  /\ now' = now + 1
  /\ UNCHANGED <<sched, tickVars, failures, crashes>>

-------------------------------------------------------------------------------
(* The table                                                                *)

\* The INSERT ... ON CONFLICT DO UPDATE of UpsertSchedule.
KeepOld(w, r)  == IF sched[w] = NoRow THEN r ELSE sched[w]
KeepTime(w, r) == IF sched[w] = NoRow THEN r ELSE [r EXCEPT !.next = sched[w].next]
Replace(w, r)  == r
UpsertSchedule(w, r) == sched' = [sched EXCEPT ![w] = Replace(w, r)]

\* A second run for time x is not held against anybody.
Excuse(w, x) == held' = [v \in Workflows |-> IF v = w THEN held[v] \ {x} ELSE held[v]]

\* The next time that was computed at t is written now.  It may have come
\* meanwhile, and been run: then it is due again; and so is the zero time, always.
WriteNext(w, c, t) ==
  /\ UpsertSchedule(w, [cron |-> c, next |-> NextTime[c][t]])
  /\ IF t < now \/ NextTime[c][t] = Zero THEN Excuse(w, NextTime[c][t]) ELSE UNCHANGED held

\* SyncSchedule with the expression of a ci.yml, at t: none deletes the row; an
\* invalid one is an error and changes nothing.
SyncSchedule(w, c, t) ==
  CASE c = NoCron  -> sched' = [sched EXCEPT ![w] = NoRow] /\ UNCHANGED held
    [] c \in Crons -> WriteNext(w, c, t)
    [] OTHER       -> UNCHANGED <<sched, held>>

\* Whatever ci.yml a run or a listing read, however long ago; if the statement
\* fails nothing happens.
Sync(w, c, t) ==
  /\ t <= now
  /\ SyncSchedule(w, c, t)
  /\ UNCHANGED <<now, due, queued, ran, again, failures, crashes>>

-------------------------------------------------------------------------------
(* The scheduler of a process                                               *)

\* ListDueSchedules.
OnTheDot(w) == sched[w].next = now
IsDue(w)    == sched[w].next <= now

\* A row that another scheduler has queued and not yet moved is queued twice.
Meant(w)  == {x \in Moments : \E q \in Processes :
               queued[q].workflow = w /\ queued[q].next = x /\ sched[w].next = x}

TickList(p) ==
  /\ due[p] = {} /\ queued[p] = NoEntry
  /\ due' = [due EXCEPT ![p] =
       {[workflow |-> w, cron |-> sched[w].cron, next |-> sched[w].next] :
          w \in {v \in Workflows : IsDue(v)}}]
  /\ due'[p] # {}
  /\ held' = [w \in Workflows |-> held[w] \ Meant(w)]
  /\ UNCHANGED <<now, sched, queued, ran, again, failures, crashes>>

\* What happens to an entry whose run was not queued: the loop goes on to the
\* next one, and the entry stays due.
MoveAnyway(p, s) == queued' = [queued EXCEPT ![p] = s]
LeaveDue(p, s)   == UNCHANGED queued

\* Another scheduler has the same time of the same workflow on its list.
Shared(p, s) ==
  \E q \in Processes \ {p} : \E e \in due[q] : e.workflow = s.workflow /\ e.next = s.next

\* Trigger queues a run on the default branch, or fails (so may the read of the
\* project before it).
TickTrigger(p) ==
  /\ queued[p] = NoEntry
  /\ \E e \in due[p] :
       LET s == [workflow |-> e.workflow, cron |-> e.cron, next |-> e.next, since |-> now] IN
       /\ due' = [due EXCEPT ![p] = @ \ {e}]
       /\ \/ /\ queued' = [queued EXCEPT ![p] = s]
             /\ ran' = [ran EXCEPT ![s.workflow] = @ \cup {s.next}]
             /\ held' = IF Shared(p, s) THEN held
                        ELSE [held EXCEPT ![s.workflow] = @ \cup {s.next}]
             /\ again' = (again \/ s.next \in held[s.workflow])
             /\ UNCHANGED failures
          \/ Fails /\ LeaveDue(p, s) /\ UNCHANGED history
  /\ UNCHANGED <<now, sched, crashes>>

\* The copy of the entry is written back with its next time as of some moment
\* since the run was queued; the error is dropped.
TickUpsert(p) ==
  /\ queued[p] # NoEntry
  /\ queued' = [queued EXCEPT ![p] = NoEntry]
  /\ \/ /\ \E t \in queued[p].since .. now : WriteNext(queued[p].workflow, queued[p].cron, t)
        /\ UNCHANGED failures
     \/ Fails /\ Excuse(queued[p].workflow, queued[p].next) /\ UNCHANGED sched
  /\ UNCHANGED <<now, due, ran, again, crashes>>

\* The process ends, at a crash or a shutdown, and is started again.
Restart(p) ==
  /\ crashes < MaxCrashes /\ crashes' = crashes + 1
  /\ due' = [due EXCEPT ![p] = {}] /\ queued' = [queued EXCEPT ![p] = NoEntry]
  /\ Excuse(queued[p].workflow, queued[p].next)
  /\ UNCHANGED <<now, sched, ran, again, failures>>

Tick(p) == TickList(p) \/ TickTrigger(p) \/ TickUpsert(p)

ScheduleNext ==
  \/ Tock
  \/ \E p \in Processes : Tick(p) \/ Restart(p)
  \/ \E w \in Workflows, c \in Crons \cup {NoCron}, t \in Moments : Sync(w, c, t)

ScheduleSpec == ScheduleInit /\ [][ScheduleNext]_schedVars
===============================================================================
