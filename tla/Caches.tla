-------------------------------- MODULE Caches --------------------------------
(***************************************************************************)
(* The sizes of cache volumes, which the daemon only knows by walking all  *)
(* of them: the module keeps the result of the last walk, a loop renews it *)
(* and a page that finds none walks for itself, one at a time under        *)
(* refreshMu.  A deletion edits the kept sizes after the daemon has done   *)
(* it.  The two volumes behind pici's own registries are purged on request *)
(* and by the garbage collector, which goes by the kept sizes as well, and *)
(* runs may bring the registries up again in the middle of that.           *)
(*                                                                         *)
(* A size is 0 where the map has no entry, as a lookup in Go has it.       *)
(* Images, and the listing of volumes a page joins the sizes to, are read  *)
(* from the daemon as they are and keep no state here.                     *)
(***************************************************************************)
EXTENDS Integers

CONSTANTS
  ProjectVolumes,     \* cache volumes of projects
  ImagesVol, HubVol,  \* the volumes of the two registries
  Size,               \* sizes a volume with something in it may have
  MaxSize,            \* RegistryCacheMaxSize
  Requests,           \* HTTP requests and runs in flight
  Refresher,          \* the loop that renews the sizes
  Collector,          \* the garbage collector
  None                \* no lock holder, no sizes, no volume

Registry == {ImagesVol, HubVol}
Volumes  == ProjectVolumes \cup Registry
Threads  == Requests \cup {Refresher, Collector}

VARIABLES
  disk,         \* what is on disk of each volume, None where there is no volume
  mounted,      \* registry volumes that a container has
  sizes,        \* the kept sizes, None before the first walk
  walker,       \* who holds refreshMu
  seen,         \* what its walk has seen so far
  todo,         \* volumes it has yet to visit
  thread,       \* what everybody is doing
  during,       \* volumes removed since the walk began (auxiliary)
  ghosts,       \* volumes removed during the walk that made the sizes (auxiliary)
  unforgotten   \* volumes removed by calls and purges that then failed (auxiliary)

daemon == <<disk, mounted>>
walk   == <<walker, seen, todo>>
marks  == <<during, ghosts, unforgotten>>
cacheVars == <<daemon, sizes, walk, thread, marks>>

\* held: the sizes it got; at: the registry a purge is at; gone: what it has removed.
Thread == [job : {"none", "refresh", "page", "collect", "remove", "purge", "ensure"},
           pc : {"idle", "lock", "walk", "show", "stop", "drop", "up", "forget"},
           held : [Volumes -> Size \cup {0}], at : Registry, gone : SUBSET Volumes]

Nothing == [v \in Volumes |-> 0]
Idle(t) == [t EXCEPT !.job = "none", !.pc = "idle", !.gone = {}]
NoThread == [job |-> "none", pc |-> "idle", held |-> Nothing, at |-> ImagesVol, gone |-> {}]

CachesInit ==
  /\ disk \in [Volumes -> Size \cup {0, None}]
  /\ mounted \in SUBSET {v \in Registry : disk[v] # None}
  /\ sizes = None
  /\ walker = None /\ seen = Nothing /\ todo = {}
  /\ thread = [t \in Threads |-> NoThread]
  /\ during = {} /\ ghosts = {} /\ unforgotten = {}

Goes(t, to) == thread' = [thread EXCEPT ![t] = to]
Ends(t)     == Goes(t, Idle(thread[t]))
Begin(t, job, pc) ==
  /\ thread[t].pc = "idle"
  /\ Goes(t, [thread[t] EXCEPT !.job = job, !.pc = pc, !.at = ImagesVol])

-------------------------------------------------------------------------------
(* Reading the sizes                                                         *)

\* The loop's refresh, at its start and at every tick.
BeginRefresh ==
  /\ Begin(Refresher, "refresh", "lock")
  /\ UNCHANGED <<daemon, sizes, walk, marks>>

\* volumeSizes, for Get or RegistrySize: the kept sizes if there are any.
BeginRead(t, job) ==
  /\ thread[t].pc = "idle"
  /\ Goes(t, IF sizes # None
             THEN [thread[t] EXCEPT !.job = job, !.pc = "show", !.held = sizes]
             ELSE [thread[t] EXCEPT !.job = job, !.pc = "lock"])
  /\ UNCHANGED <<daemon, sizes, walk, marks>>

\* refreshMu: somebody else may have walked while a reader waited for it.
Lock(t) ==
  /\ thread[t].pc = "lock" /\ walker = None
  /\ IF thread[t].job # "refresh" /\ sizes # None
     THEN /\ Goes(t, [thread[t] EXCEPT !.pc = "show", !.held = sizes])
          /\ UNCHANGED <<walk, during>>
     ELSE /\ walker' = t /\ seen' = Nothing /\ todo' = Volumes /\ during' = {}
          /\ Goes(t, [thread[t] EXCEPT !.pc = "walk"])
  /\ UNCHANGED <<daemon, sizes, ghosts, unforgotten>>

\* The daemon walks the volumes, one after the other.
Visit(v) ==
  /\ walker # None /\ v \in todo
  /\ todo' = todo \ {v}
  /\ seen' = [seen EXCEPT ![v] = IF disk[v] = None THEN 0 ELSE disk[v]]
  /\ UNCHANGED <<daemon, sizes, walker, thread, marks>>

\* The walk is done, and its result kept whatever was forgotten meanwhile.
Walked(t) ==
  /\ thread[t].pc = "walk" /\ todo = {}
  /\ sizes' = seen
  /\ walker' = None
  /\ ghosts' = during /\ unforgotten' = {}
  /\ IF thread[t].job = "refresh" THEN Ends(t)
     ELSE Goes(t, [thread[t] EXCEPT !.pc = "show", !.held = seen])
  /\ UNCHANGED <<daemon, seen, todo, during>>

\* It failed or took a minute: the sizes stay as they are.
WalkFails(t) ==
  /\ thread[t].pc = "walk"
  /\ walker' = None
  /\ Ends(t)
  /\ UNCHANGED <<daemon, sizes, seen, todo, marks>>

\* The page is shown, with the volumes there are now.
ShowPage(t) ==
  /\ thread[t].pc = "show" /\ thread[t].job = "page"
  /\ Ends(t)
  /\ UNCHANGED <<daemon, sizes, walk, marks>>

\* The collector purges the registries when they have grown past their cap.
Judge ==
  /\ thread[Collector].pc = "show"
  /\ IF thread[Collector].held[ImagesVol] + thread[Collector].held[HubVol] > MaxSize
     THEN Goes(Collector, [thread[Collector] EXCEPT !.job = "purge", !.pc = "stop",
                                                    !.at = ImagesVol])
     ELSE Ends(Collector)
  /\ UNCHANGED <<daemon, sizes, walk, marks>>

-------------------------------------------------------------------------------
(* Deletions                                                                 *)

Removed(v) ==
  /\ disk' = [disk EXCEPT ![v] = None]
  /\ during' = IF walker # None THEN during \cup {v} ELSE during

\* The daemon has done it and the call fails all the same, as when the client of
\* the request has gone: nothing is forgotten.
RemovedUnheard(t, v) ==
  /\ Removed(v)
  /\ unforgotten' = unforgotten \cup thread[t].gone \cup {v}
  /\ Ends(t)

\* RemoveVolume of a project's volume; a refusal, as for one in use, changes nothing.
RemoveVolume(t, v) ==
  /\ thread[t].pc = "idle"
  /\ \/ /\ Removed(v)
        /\ Goes(t, [thread[t] EXCEPT !.job = "remove", !.pc = "forget", !.gone = {v}])
        /\ UNCHANGED unforgotten
     \/ RemovedUnheard(t, v)
  /\ UNCHANGED <<mounted, sizes, walk, ghosts>>

BeginPurge(t) ==
  /\ Begin(t, "purge", "stop")
  /\ UNCHANGED <<daemon, sizes, walk, marks>>

\* The next step of PurgeRegistry: for the other registry, or the next thing to do.
After(p) ==
  IF p.at = ImagesVol THEN [p EXCEPT !.at = HubVol]
  ELSE CASE p.pc = "stop" -> [p EXCEPT !.at = ImagesVol, !.pc = "drop"]
         [] p.pc = "drop" -> [p EXCEPT !.at = ImagesVol, !.pc = "up"]
         [] OTHER -> IF p.job = "ensure" THEN Idle(p) ELSE [p EXCEPT !.pc = "forget"]

\* The container goes, or not: the error is dropped.
StopRegistry(t) ==
  /\ thread[t].pc = "stop"
  /\ mounted' \in {mounted, mounted \ {thread[t].at}}
  /\ Goes(t, After(thread[t]))
  /\ UNCHANGED <<disk, sizes, walk, marks>>

\* The purge ends with an error, and forgets nothing.
GivesUp(t) ==
  /\ unforgotten' = unforgotten \cup thread[t].gone
  /\ Ends(t)

\* The volume goes, or seems not to; not while somebody has brought its registry up
\* again.
DropVolume(t) ==
  /\ thread[t].pc = "drop"
  /\ \/ /\ thread[t].at \notin mounted
        /\ Removed(thread[t].at)
        /\ Goes(t, After([thread[t] EXCEPT !.gone = @ \cup {thread[t].at}]))
        /\ UNCHANGED unforgotten
     \/ thread[t].at \notin mounted /\ RemovedUnheard(t, thread[t].at)
     \/ GivesUp(t) /\ UNCHANGED <<disk, during>>
  /\ UNCHANGED <<mounted, sizes, walk, ghosts>>

\* EnsureRegistries when the process starts, and for runs when that has failed.
BeginEnsure(t) ==
  /\ Begin(t, "ensure", "up")
  /\ UNCHANGED <<daemon, sizes, walk, marks>>

\* ensureRegistry: the volume is made if it is missing, and the container; or some
\* of it fails.
StartRegistry(t) ==
  /\ thread[t].pc = "up"
  /\ LET v == thread[t].at
         made == [disk EXCEPT ![v] = IF @ = None THEN 0 ELSE @] IN
       \/ disk' = made /\ mounted' = mounted \cup {v}
          /\ Goes(t, After(thread[t])) /\ UNCHANGED unforgotten
       \/ /\ \/ UNCHANGED daemon
             \/ disk' = made /\ mounted' \in {mounted, mounted \cup {v}}
          /\ GivesUp(t)
  /\ UNCHANGED <<sizes, walk, during, ghosts>>

\* forgetSizes: a new map without the names, so that readers keep the one they have.
Forgotten(p) == IF p.job = "purge" THEN Registry ELSE p.gone
Forget(t) ==
  /\ thread[t].pc = "forget"
  /\ sizes' = IF sizes = None THEN None
              ELSE [v \in Volumes |-> IF v \in Forgotten(thread[t]) THEN 0 ELSE sizes[v]]
  /\ Ends(t)
  /\ UNCHANGED <<daemon, walk, marks>>

-------------------------------------------------------------------------------
(* Runs and the process                                                      *)

\* The steps of a run mount a cache and write to it; images go to a registry.
RunWrites(v, n) ==
  /\ v \in Registry => v \in mounted
  /\ disk' = [disk EXCEPT ![v] = n]
  /\ UNCHANGED <<mounted, sizes, walk, thread, marks>>

\* The process is started again; volumes and containers stay.
CachesRestart ==
  /\ sizes' = None
  /\ walker' = None /\ seen' = Nothing /\ todo' = {}
  /\ thread' = [t \in Threads |-> NoThread]
  /\ during' = {} /\ ghosts' = {} /\ unforgotten' = {}
  /\ UNCHANGED daemon

RequestStep(t) ==
  \/ BeginRead(t, "page") \/ ShowPage(t)
  \/ \E v \in ProjectVolumes : RemoveVolume(t, v)
  \/ BeginPurge(t) \/ BeginEnsure(t)

ThreadStep(t) ==
  \/ Lock(t) \/ Walked(t) \/ WalkFails(t)
  \/ StopRegistry(t) \/ DropVolume(t) \/ StartRegistry(t) \/ Forget(t)

CachesNext ==
  \/ BeginRefresh
  \/ BeginRead(Collector, "collect") \/ Judge
  \/ \E t \in Requests : RequestStep(t)
  \/ \E t \in Threads : ThreadStep(t)
  \/ \E v \in Volumes : Visit(v)
  \/ \E v \in Volumes, n \in Size : RunWrites(v, n)
  \/ CachesRestart

CachesSpec == CachesInit /\ [][CachesNext]_cacheVars
===============================================================================
