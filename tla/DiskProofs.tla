------------------------------ MODULE DiskProofs -------------------------------
(***************************************************************************)
(* What runs leave on disk for later runs and for requests: the volumes of *)
(* the caches and the artifacts of a step, for any number of each.  The    *)
(* two components share no state; each has its invariant.                  *)
(*                                                                         *)
(* CachesInv: the kept sizes give a deleted volume nothing.  It carries    *)
(* what a walk has seen so far (WalkSees), and which jobs have removed     *)
(* something they are still to forget (ThreadsFit).                        *)
(*                                                                         *)
(* ArtifactsInv: hashes tell the bytes of artifacts.  It carries what a    *)
(* collection has done so far: the paths it is still to copy have no file  *)
(* (Fresh), the hashes it has taken are those of the copies (EntriesTell), *)
(* and there is no manifest while it copies (Unlisted); as far as it is    *)
(* alone (Alone).                                                          *)
(***************************************************************************)
EXTENDS CachesProperties, ArtifactsProperties, TLAPS

-------------------------------------------------------------------------------
(* Caches                                                                    *)

\* Which job is at which point, and what it may have removed by then.
JobFits(p) ==
  /\ p.pc = "idle" => p.job = "none"
  /\ p.pc \in {"lock", "walk", "show"} => p.job \in {"refresh", "page", "collect"}
  /\ p.pc \in {"stop", "drop"} => p.job = "purge"
  /\ p.pc = "up" => p.job \in {"purge", "ensure"}
  /\ p.pc = "forget" => p.job \in {"remove", "purge"}
  /\ p.job \notin {"remove", "purge"} => p.gone = {}
  /\ p.job = "purge" => p.gone \subseteq Registry

ThreadsFit == \A t \in Threads : JobFits(thread[t])

\* What a walk has seen of a volume that is now empty was removed during the walk.
WalkSees ==
  walker # None =>
    \A v \in Volumes \ todo : Empty(v) /\ seen[v] # 0 => v \in during

CachesInv ==
  /\ CachesTypeOK /\ ThreadsFit /\ OneWalk /\ WalkSees
  /\ RemovalShows /\ MountedExists

-------------------------------------------------------------------------------
(* Facts about threads                                                       *)

\* An idle thread fits, whatever it did before.
LEMMA IdleFits ==
  ASSUME NEW p \in Thread
  PROVE  /\ Idle(p) \in Thread /\ JobFits(Idle(p))
         /\ Idle(p).gone = {} /\ Idle(p).pc = "idle"
BY DEF Thread, Idle, JobFits

\* The next step of a purge fits, and forgets nothing of what it has removed; that of
\* a run which brings the registries up has removed nothing.
LEMMA AfterFits ==
  ASSUME NEW p \in Thread, JobFits(p), p.pc \in {"stop", "drop", "up"}
  PROVE  /\ After(p) \in Thread /\ JobFits(After(p))
         /\ After(p).gone = p.gone /\ After(p).pc # "walk"
<1> DEFINE hub   == [p EXCEPT !.at = HubVol]
           drop  == [p EXCEPT !.at = ImagesVol, !.pc = "drop"]
           up    == [p EXCEPT !.at = ImagesVol, !.pc = "up"]
           forgo == [p EXCEPT !.pc = "forget"]
<1>1. hub \in Thread /\ JobFits(hub) /\ hub.gone = p.gone /\ hub.pc # "walk"
  BY DEF Thread, JobFits, Registry
<1>2. p.pc = "stop" => drop \in Thread /\ JobFits(drop) /\ drop.gone = p.gone /\ drop.pc # "walk"
  BY DEF Thread, JobFits, Registry
<1>3. p.pc = "drop" => up \in Thread /\ JobFits(up) /\ up.gone = p.gone /\ up.pc # "walk"
  BY DEF Thread, JobFits, Registry
<1>4. p.job = "purge" => forgo \in Thread /\ JobFits(forgo) /\ forgo.gone = p.gone /\ forgo.pc # "walk"
  BY DEF Thread, JobFits, Registry
<1>5. p.job = "ensure" => p.gone = {} /\ Idle(p).gone = p.gone
  BY IdleFits DEF JobFits
<1>6. CASE p.at = ImagesVol
  BY <1>1, <1>6 DEF After
<1>7. CASE p.at # ImagesVol /\ p.pc = "stop"
  BY <1>2, <1>7 DEF After
<1>8. CASE p.at # ImagesVol /\ p.pc = "drop"
  BY <1>3, <1>8 DEF After
<1>9. CASE p.at # ImagesVol /\ p.pc = "up" /\ p.job = "ensure"
  BY <1>5, <1>9, IdleFits DEF After
<1>10. CASE p.at # ImagesVol /\ p.pc = "up" /\ p.job = "purge"
  BY <1>4, <1>10 DEF After
<1>11. p.pc = "up" => p.job \in {"purge", "ensure"}
  BY DEF JobFits
<1> QED
  BY <1>6, <1>7, <1>8, <1>9, <1>10, <1>11

\* What a step of one thread leaves of the others.
LEMMA GoesTo ==
  ASSUME CachesTypeOK, ThreadsFit, NEW t \in Threads, NEW p \in Thread, JobFits(p), Goes(t, p)
  PROVE  /\ thread' \in [Threads -> Thread] /\ ThreadsFit'
         /\ thread'[t] = p /\ \A u \in Threads \ {t} : thread'[u] = thread[u]
<1>1. thread \in [Threads -> Thread]
  BY DEF CachesTypeOK
<1>2. /\ thread' \in [Threads -> Thread]
      /\ thread'[t] = p /\ \A u \in Threads \ {t} : thread'[u] = thread[u]
  BY <1>1 DEF Goes
<1>3. ThreadsFit'
  <2> SUFFICES ASSUME NEW u \in Threads PROVE JobFits(thread[u])'
    BY DEF ThreadsFit
  <2>1. CASE u = t
    BY <1>2, <2>1 DEF JobFits, Registry
  <2>2. CASE u # t
    BY <1>2, <2>2 DEF JobFits, Registry, ThreadsFit
  <2> QED BY <2>1, <2>2
<1> QED BY <1>2, <1>3

\* A step of one thread that neither walks nor removes, keeps or forgets a size.
LEMMA Quiet ==
  ASSUME CachesInv, NEW t \in Threads, NEW p \in Thread, JobFits(p), Goes(t, p),
         p.gone = thread[t].gone, p.pc # "walk", thread[t].pc # "walk",
         UNCHANGED <<disk, sizes, walk, marks>>, mounted' \subseteq mounted
  PROVE  CachesInv'
<1>1. CachesTypeOK /\ ThreadsFit /\ OneWalk /\ WalkSees /\ RemovalShows /\ MountedExists
  BY DEF CachesInv
<1>2. /\ thread' \in [Threads -> Thread] /\ ThreadsFit'
      /\ thread'[t] = p /\ \A u \in Threads \ {t} : thread'[u] = thread[u]
  BY <1>1, GoesTo
<1>3. CachesTypeOK'
  BY <1>1, <1>2 DEF CachesTypeOK, walk, marks
<1>4. OneWalk'
  BY <1>1, <1>2 DEF OneWalk, walk
<1>5. WalkSees' /\ MountedExists'
  BY <1>1 DEF WalkSees, MountedExists, Empty, walk, marks
<1>6. \A v : Pending(v) => Pending(v)'
  BY <1>2 DEF Pending
<1>7. RemovalShows'
  BY <1>1, <1>6 DEF RemovalShows, Empty, marks
<1> QED
  BY <1>2, <1>3, <1>4, <1>5, <1>7 DEF CachesInv

-------------------------------------------------------------------------------
(* Steps that leave the sizes alone                                          *)

\* The constants, as the steps use them.
LEMMA ConstantFacts ==
  ASSUME CachesConstants
  PROVE  /\ 0 \notin Size /\ None \notin Size /\ None # 0
         /\ None \notin Threads /\ None \notin [Volumes -> Size \cup {0}]
         /\ Refresher \in Threads /\ Collector \in Threads /\ Requests \subseteq Threads
         /\ Registry \subseteq Volumes /\ ProjectVolumes \subseteq Volumes
         /\ Registry \cap ProjectVolumes = {}
         /\ Nothing \in [Volumes -> Size \cup {0}]
BY DEF CachesConstants, Threads, Volumes, Nothing

\* Beginning a job, reading the sizes there are, and the decision of the collector.
LEMMA BeginKeeps ==
  ASSUME CachesConstants, CachesInv,
         NEW t \in Threads, NEW job, NEW pc, Begin(t, job, pc),
         <<job, pc>> \in {<<"refresh", "lock">>, <<"purge", "stop">>, <<"ensure", "up">>},
         UNCHANGED <<daemon, sizes, walk, marks>>
  PROVE  CachesInv'
<1> DEFINE p == [thread[t] EXCEPT !.job = job, !.pc = pc, !.at = ImagesVol]
<1>1. thread[t] \in Thread /\ JobFits(thread[t]) /\ thread[t].pc = "idle"
  BY DEF CachesInv, CachesTypeOK, ThreadsFit, Begin
<1>2. thread[t].gone = {}
  BY <1>1 DEF JobFits
<1>3. p \in Thread /\ p.gone = thread[t].gone /\ p.pc = pc /\ p.job = job
  BY <1>1 DEF Thread, Registry
<1>4. JobFits(p)
  BY <1>2, <1>3 DEF JobFits
<1>5. Goes(t, p)
  BY DEF Begin
<1> HIDE DEF p
<1> QED
  BY <1>1, <1>3, <1>4, <1>5, Quiet DEF daemon

LEMMA BeginReadKeeps ==
  ASSUME CachesConstants, CachesInv, NEW t \in Threads, NEW job \in {"page", "collect"},
         BeginRead(t, job)
  PROVE  CachesInv'
<1> DEFINE shows == [thread[t] EXCEPT !.job = job, !.pc = "show", !.held = sizes]
           waits == [thread[t] EXCEPT !.job = job, !.pc = "lock"]
<1>1. thread[t] \in Thread /\ JobFits(thread[t]) /\ thread[t].pc = "idle"
  BY DEF CachesInv, CachesTypeOK, ThreadsFit, BeginRead
<1>2. thread[t].gone = {}
  BY <1>1 DEF JobFits
<1>3. sizes # None => sizes \in [Volumes -> Size \cup {0}]
  BY DEF CachesInv, CachesTypeOK
<1>4. waits \in Thread /\ waits.gone = {} /\ waits.pc = "lock" /\ waits.job = job
  BY <1>1, <1>2 DEF Thread
<1>5. sizes # None => /\ shows \in Thread /\ shows.gone = {}
                      /\ shows.pc = "show" /\ shows.job = job
  BY <1>1, <1>2, <1>3 DEF Thread
<1>6. JobFits(waits) /\ (sizes # None => JobFits(shows))
  BY <1>4, <1>5 DEF JobFits
<1>7. /\ sizes # None => Goes(t, shows)
      /\ sizes = None => Goes(t, waits)
      /\ UNCHANGED <<daemon, sizes, walk, marks>>
  BY DEF BeginRead
<1> HIDE DEF shows, waits
<1> QED
  BY <1>1, <1>2, <1>4, <1>5, <1>6, <1>7, Quiet DEF daemon

\* A job that ends without having removed anything.
LEMMA EndsQuietly ==
  ASSUME CachesInv, NEW t \in Threads, Ends(t), thread[t].gone = {}, thread[t].pc # "walk",
         UNCHANGED <<daemon, sizes, walk, marks>>
  PROVE  CachesInv'
<1>1. thread[t] \in Thread
  BY DEF CachesInv, CachesTypeOK
<1> QED
  BY <1>1, IdleFits, Quiet DEF Ends, daemon

LEMMA ShowPageKeeps ==
  ASSUME CachesInv, NEW t \in Threads, ShowPage(t)
  PROVE  CachesInv'
<1>1. thread[t] \in Thread /\ JobFits(thread[t]) /\ thread[t].pc = "show"
  BY DEF CachesInv, CachesTypeOK, ThreadsFit, ShowPage
<1>2. thread[t].gone = {}
  BY <1>1 DEF JobFits
<1> QED
  BY <1>1, <1>2, EndsQuietly DEF ShowPage

LEMMA JudgeKeeps ==
  ASSUME CachesConstants, CachesInv, Judge
  PROVE  CachesInv'
<1> DEFINE p == [thread[Collector] EXCEPT !.job = "purge", !.pc = "stop", !.at = ImagesVol]
<1>1. Collector \in Threads
  BY ConstantFacts
<1>2. /\ thread[Collector] \in Thread /\ JobFits(thread[Collector])
      /\ thread[Collector].pc = "show"
  BY <1>1 DEF CachesInv, CachesTypeOK, ThreadsFit, Judge
<1>3. thread[Collector].gone = {}
  BY <1>2 DEF JobFits
<1>4. p \in Thread /\ p.gone = {} /\ p.pc = "stop" /\ p.job = "purge"
  BY <1>2, <1>3 DEF Thread, Registry
<1>5. JobFits(p)
  BY <1>4 DEF JobFits
<1>6. Goes(Collector, p) \/ Ends(Collector)
  BY DEF Judge
<1>7. UNCHANGED <<daemon, sizes, walk, marks>>
  BY DEF Judge
<1>8. CASE Goes(Collector, p)
  <2> HIDE DEF p
  <2> QED BY <1>1, <1>2, <1>3, <1>4, <1>5, <1>7, <1>8, Quiet DEF daemon
<1>9. CASE Ends(Collector)
  BY <1>1, <1>2, <1>3, <1>7, <1>9, EndsQuietly
<1> QED BY <1>6, <1>8, <1>9

LEMMA StopKeeps ==
  ASSUME CachesInv, NEW t \in Threads, StopRegistry(t)
  PROVE  CachesInv'
<1>1. thread[t] \in Thread /\ JobFits(thread[t]) /\ thread[t].pc = "stop"
  BY DEF CachesInv, CachesTypeOK, ThreadsFit, StopRegistry
<1>2. Goes(t, After(thread[t])) /\ mounted' \subseteq mounted
  BY DEF StopRegistry
<1>3. UNCHANGED <<disk, sizes, walk, marks>>
  BY DEF StopRegistry
<1> QED
  BY <1>1, <1>2, <1>3, AfterFits, Quiet

-------------------------------------------------------------------------------
(* Walks                                                                     *)

\* refreshMu is free, so nobody is walking.
LEMMA LockKeeps ==
  ASSUME CachesConstants, CachesInv, NEW t \in Threads, Lock(t)
  PROVE  CachesInv'
<1> DEFINE shows == [thread[t] EXCEPT !.pc = "show", !.held = sizes]
           walks == [thread[t] EXCEPT !.pc = "walk"]
<1>1. CachesTypeOK /\ ThreadsFit /\ OneWalk /\ WalkSees /\ RemovalShows /\ MountedExists
  BY DEF CachesInv
<1>2. /\ thread[t] \in Thread /\ JobFits(thread[t])
      /\ thread[t].pc = "lock" /\ walker = None
  BY <1>1 DEF CachesTypeOK, ThreadsFit, Lock
<1>3. thread[t].gone = {} /\ thread[t].job \in {"refresh", "page", "collect"}
  BY <1>2 DEF JobFits
<1>4. UNCHANGED <<daemon, sizes, ghosts, unforgotten>>
  BY DEF Lock
<1>5. CASE sizes # None /\ Goes(t, shows) /\ UNCHANGED <<walk, during>>
  <2>1. sizes \in [Volumes -> Size \cup {0}]
    BY <1>1, <1>5 DEF CachesTypeOK
  <2>2. /\ shows \in Thread /\ shows.gone = {} /\ shows.pc = "show"
        /\ shows.job = thread[t].job
    BY <1>2, <1>3, <2>1 DEF Thread
  <2>3. JobFits(shows)
    BY <1>3, <2>2 DEF JobFits
  <2> HIDE DEF shows
  <2> QED
    BY <1>2, <1>3, <1>4, <1>5, <2>2, <2>3, Quiet DEF daemon, marks
<1>6. CASE /\ walker' = t /\ seen' = Nothing /\ todo' = Volumes /\ during' = {}
           /\ Goes(t, walks)
  <2>1. /\ walks \in Thread /\ walks.gone = {} /\ walks.pc = "walk"
        /\ walks.job = thread[t].job
    BY <1>2, <1>3 DEF Thread
  <2>2. JobFits(walks)
    BY <1>3, <2>1 DEF JobFits
  <2> HIDE DEF walks
  <2>3. /\ thread' \in [Threads -> Thread] /\ ThreadsFit'
        /\ thread'[t] = walks /\ \A u \in Threads \ {t} : thread'[u] = thread[u]
    BY <1>1, <1>6, <2>1, <2>2, GoesTo
  <2>4. CachesTypeOK'
    BY <1>1, <1>4, <1>6, <2>3, ConstantFacts DEF CachesTypeOK, daemon
  <2>5. OneWalk'
    BY <1>1, <1>2, <1>6, <2>1, <2>3, ConstantFacts DEF OneWalk
  <2>6. WalkSees' /\ MountedExists'
    BY <1>1, <1>4, <1>6 DEF WalkSees, MountedExists, daemon
  <2>7. \A v : Pending(v) => Pending(v)'
    BY <1>3, <2>1, <2>3 DEF Pending
  <2>8. RemovalShows'
    BY <1>1, <1>4, <2>7 DEF RemovalShows, Empty, daemon
  <2> QED
    BY <2>3, <2>4, <2>5, <2>6, <2>8 DEF CachesInv
<1> QED
  BY <1>5, <1>6 DEF Lock

LEMMA VisitKeeps ==
  ASSUME CachesConstants, CachesInv, NEW v \in Volumes, Visit(v)
  PROVE  CachesInv'
<1>1. CachesTypeOK /\ ThreadsFit /\ OneWalk /\ WalkSees /\ RemovalShows /\ MountedExists
  BY DEF CachesInv
<1>2. UNCHANGED <<daemon, sizes, walker, thread, marks>>
  BY DEF Visit
<1>3. /\ todo' = todo \ {v}
      /\ seen' = [seen EXCEPT ![v] = IF disk[v] = None THEN 0 ELSE disk[v]]
  BY DEF Visit
<1>4. disk[v] \in Size \cup {0, None}
  BY <1>1 DEF CachesTypeOK
<1>5. CachesTypeOK'
  <2>1. seen' \in [Volumes -> Size \cup {0}]
    BY <1>1, <1>3, <1>4 DEF CachesTypeOK
  <2> QED
    BY <1>1, <1>2, <1>3, <2>1 DEF CachesTypeOK, daemon, marks
<1>6. ThreadsFit'
  BY <1>1, <1>2 DEF ThreadsFit, JobFits, Registry
<1>7. OneWalk' /\ MountedExists'
  BY <1>1, <1>2 DEF OneWalk, MountedExists, daemon
<1>8. WalkSees'
  BY <1>1, <1>2, <1>3 DEF WalkSees, Empty, CachesTypeOK, daemon, marks
<1>9. RemovalShows'
  BY <1>1, <1>2 DEF RemovalShows, Empty, Pending, daemon, marks
<1> QED
  BY <1>5, <1>6, <1>7, <1>8, <1>9 DEF CachesInv

\* What the walk brings back is what was removed while it was under way.
LEMMA WalkedKeeps ==
  ASSUME CachesConstants, CachesInv, NEW t \in Threads, Walked(t)
  PROVE  CachesInv'
<1> DEFINE shows == [thread[t] EXCEPT !.pc = "show", !.held = seen]
<1>1. CachesTypeOK /\ ThreadsFit /\ OneWalk /\ WalkSees /\ RemovalShows /\ MountedExists
  BY DEF CachesInv
<1>2. thread[t] \in Thread /\ JobFits(thread[t]) /\ thread[t].pc = "walk" /\ todo = {}
  BY <1>1 DEF CachesTypeOK, ThreadsFit, Walked
<1>3. thread[t].gone = {} /\ thread[t].job \in {"refresh", "page", "collect"}
  BY <1>2 DEF JobFits
<1>4. /\ sizes' = seen /\ walker' = None /\ ghosts' = during /\ unforgotten' = {}
      /\ UNCHANGED <<daemon, seen, todo, during>>
  BY DEF Walked
<1>5. shows \in Thread /\ shows.gone = {} /\ shows.pc = "show" /\ shows.job = thread[t].job
  BY <1>1, <1>2, <1>3 DEF Thread, CachesTypeOK
<1>6. JobFits(shows)
  BY <1>3, <1>5 DEF JobFits
<1>7. PICK p \in {shows, Idle(thread[t])} : Goes(t, p)
  BY DEF Walked, Ends
<1>8. p \in Thread /\ JobFits(p) /\ p.gone = {} /\ p.pc # "walk"
  BY <1>2, <1>5, <1>6, <1>7, IdleFits
<1> HIDE DEF shows
<1>9. /\ thread' \in [Threads -> Thread] /\ ThreadsFit'
      /\ thread'[t] = p /\ \A u \in Threads \ {t} : thread'[u] = thread[u]
  BY <1>1, <1>7, <1>8, GoesTo
<1>10. CachesTypeOK'
  BY <1>1, <1>4, <1>9 DEF CachesTypeOK, daemon
<1>11. OneWalk'
  BY <1>1, <1>2, <1>4, <1>8, <1>9, ConstantFacts DEF OneWalk
<1>12. WalkSees' /\ MountedExists'
  BY <1>1, <1>4 DEF WalkSees, MountedExists, daemon
<1>13. walker # None
  BY <1>1, <1>2, ConstantFacts DEF OneWalk
<1>14. RemovalShows'
  BY <1>1, <1>2, <1>4, <1>13 DEF RemovalShows, WalkSees, Empty, daemon
<1> QED
  BY <1>9, <1>10, <1>11, <1>12, <1>14 DEF CachesInv

LEMMA WalkFailsKeeps ==
  ASSUME CachesConstants, CachesInv, NEW t \in Threads, WalkFails(t)
  PROVE  CachesInv'
<1>1. CachesTypeOK /\ ThreadsFit /\ OneWalk /\ WalkSees /\ RemovalShows /\ MountedExists
  BY DEF CachesInv
<1>2. thread[t] \in Thread /\ JobFits(thread[t]) /\ thread[t].pc = "walk"
  BY <1>1 DEF CachesTypeOK, ThreadsFit, WalkFails
<1>3. thread[t].gone = {}
  BY <1>2 DEF JobFits
<1>4. /\ walker' = None /\ Goes(t, Idle(thread[t]))
      /\ UNCHANGED <<daemon, sizes, seen, todo, marks>>
  BY DEF WalkFails, Ends
<1>5. /\ thread' \in [Threads -> Thread] /\ ThreadsFit'
      /\ thread'[t] = Idle(thread[t]) /\ \A u \in Threads \ {t} : thread'[u] = thread[u]
  BY <1>1, <1>2, <1>4, IdleFits, GoesTo
<1>6. CachesTypeOK'
  BY <1>1, <1>4, <1>5 DEF CachesTypeOK, daemon, marks
<1>7. OneWalk'
  BY <1>1, <1>2, <1>4, <1>5, IdleFits, ConstantFacts DEF OneWalk
<1>8. WalkSees' /\ MountedExists'
  BY <1>1, <1>4 DEF WalkSees, MountedExists, daemon
<1>9. \A v : Pending(v) => Pending(v)'
  BY <1>3, <1>5 DEF Pending
<1>10. RemovalShows'
  BY <1>1, <1>4, <1>9 DEF RemovalShows, Empty, daemon, marks
<1> QED
  BY <1>5, <1>6, <1>7, <1>8, <1>10 DEF CachesInv

-------------------------------------------------------------------------------
(* Deletions                                                                 *)

\* A volume nobody has mounted goes: whoever removed it is to forget its size, or has
\* not heard of it.
LEMMA RemovedKeeps ==
  ASSUME CachesConstants, CachesInv, NEW t \in Threads, NEW v \in Volumes \ mounted,
         Removed(v), NEW p \in Thread, JobFits(p), Goes(t, p),
         thread[t].gone \cup {v} \subseteq p.gone \cup unforgotten',
         unforgotten \subseteq unforgotten', unforgotten' \subseteq Volumes,
         p.pc # "walk", thread[t].pc # "walk",
         UNCHANGED <<mounted, sizes, walk, ghosts>>
  PROVE  CachesInv'
<1>1. CachesTypeOK /\ ThreadsFit /\ OneWalk /\ WalkSees /\ RemovalShows /\ MountedExists
  BY DEF CachesInv
<1>2. /\ thread' \in [Threads -> Thread] /\ ThreadsFit'
      /\ thread'[t] = p /\ \A u \in Threads \ {t} : thread'[u] = thread[u]
  BY <1>1, GoesTo
<1>3. /\ disk' = [disk EXCEPT ![v] = None]
      /\ during' = IF walker # None THEN during \cup {v} ELSE during
  BY DEF Removed
<1>4. CachesTypeOK'
  BY <1>1, <1>2, <1>3 DEF CachesTypeOK, walk
<1>5. OneWalk'
  BY <1>1, <1>2 DEF OneWalk, walk
<1>6. \A w \in Volumes \ {v} : disk'[w] = disk[w]
  BY <1>1, <1>3 DEF CachesTypeOK
<1>7. WalkSees'
  BY <1>1, <1>3, <1>6 DEF WalkSees, Empty, walk
<1>8. MountedExists'
  BY <1>1, <1>6, ConstantFacts DEF MountedExists, CachesTypeOK
<1>9. \A w : w = v \/ Pending(w) => Pending(w)' \/ w \in unforgotten'
  BY <1>2 DEF Pending
<1>10. RemovalShows'
  BY <1>1, <1>6, <1>9 DEF RemovalShows, Empty
<1> QED
  BY <1>2, <1>4, <1>5, <1>7, <1>8, <1>10 DEF CachesInv

\* So it is when its call fails after the daemon has done it.
LEMMA UnheardKeeps ==
  ASSUME CachesConstants, CachesInv, NEW t \in Threads, NEW v \in Volumes \ mounted,
         RemovedUnheard(t, v), thread[t].pc # "walk", UNCHANGED <<mounted, sizes, walk, ghosts>>
  PROVE  CachesInv'
<1>1. thread[t] \in Thread /\ unforgotten \subseteq Volumes
  BY DEF CachesInv, CachesTypeOK
<1>2. /\ Removed(v) /\ Goes(t, Idle(thread[t]))
      /\ unforgotten' = unforgotten \cup thread[t].gone \cup {v}
  BY DEF RemovedUnheard, Ends
<1>3. /\ thread[t].gone \cup {v} \subseteq Idle(thread[t]).gone \cup unforgotten'
      /\ unforgotten \subseteq unforgotten' /\ unforgotten' \subseteq Volumes
  BY <1>1, <1>2 DEF Thread
<1>4. Idle(thread[t]) \in Thread /\ JobFits(Idle(thread[t])) /\ Idle(thread[t]).pc # "walk"
  BY <1>1, IdleFits
<1> QED
  BY <1>2, <1>3, <1>4, RemovedKeeps

\* A project's volume is never that of a registry.
LEMMA RemoveVolumeKeeps ==
  ASSUME CachesConstants, CachesInv, NEW t \in Threads, NEW v \in ProjectVolumes,
         RemoveVolume(t, v)
  PROVE  CachesInv'
<1> DEFINE p == [thread[t] EXCEPT !.job = "remove", !.pc = "forget", !.gone = {v}]
<1>1. /\ thread[t] \in Thread /\ JobFits(thread[t])
      /\ thread[t].pc = "idle" /\ mounted \subseteq Registry
  BY DEF CachesInv, CachesTypeOK, ThreadsFit, RemoveVolume
<1>2. thread[t].gone = {} /\ v \in Volumes \ mounted
  BY <1>1, ConstantFacts DEF JobFits
<1>3. p \in Thread /\ p.gone = {v} /\ p.pc = "forget" /\ p.job = "remove"
  BY <1>1, <1>2 DEF Thread
<1>4. JobFits(p)
  BY <1>3 DEF JobFits
<1>5. UNCHANGED <<mounted, sizes, walk, ghosts>>
  BY DEF RemoveVolume
<1>6. (Removed(v) /\ Goes(t, p) /\ UNCHANGED unforgotten) \/ RemovedUnheard(t, v)
  BY DEF RemoveVolume
<1>7. unforgotten \subseteq Volumes
  BY DEF CachesInv, CachesTypeOK
<1> HIDE DEF p
<1>8. CASE Removed(v) /\ Goes(t, p) /\ UNCHANGED unforgotten
  BY <1>1, <1>2, <1>3, <1>4, <1>5, <1>7, <1>8, RemovedKeeps
<1>9. CASE RemovedUnheard(t, v)
  BY <1>1, <1>2, <1>5, <1>9, UnheardKeeps
<1> QED
  BY <1>6, <1>8, <1>9

\* A purge that fails leaves what it has removed unforgotten.
LEMMA GivesUpKeeps ==
  ASSUME CachesConstants, CachesInv, NEW t \in Threads, GivesUp(t), thread[t].pc # "walk",
         UNCHANGED <<sizes, walk, during, ghosts>>,
         CachesTypeOK', MountedExists', \A v \in Volumes : Empty(v)' => Empty(v)
  PROVE  CachesInv'
<1>1. CachesTypeOK /\ ThreadsFit /\ OneWalk /\ WalkSees /\ RemovalShows
  BY DEF CachesInv
<1>2. thread[t] \in Thread
  BY <1>1 DEF CachesTypeOK
<1>3. /\ unforgotten' = unforgotten \cup thread[t].gone
      /\ Goes(t, Idle(thread[t]))
  BY DEF GivesUp, Ends
<1>4. /\ ThreadsFit'
      /\ thread'[t] = Idle(thread[t]) /\ \A u \in Threads \ {t} : thread'[u] = thread[u]
  BY <1>1, <1>2, <1>3, IdleFits, GoesTo
<1>5. OneWalk'
  BY <1>1, <1>2, <1>4, IdleFits DEF OneWalk, walk
<1>6. WalkSees'
  BY <1>1 DEF WalkSees, walk
<1>7. \A v : Pending(v) => Pending(v)' \/ v \in unforgotten'
  BY <1>3, <1>4 DEF Pending
<1>8. RemovalShows'
  BY <1>1, <1>3, <1>7 DEF RemovalShows
<1> QED
  BY <1>4, <1>5, <1>6, <1>8 DEF CachesInv

\* What a purge that gives up has removed is a set of volumes.
LEMMA UnforgottenTyped ==
  ASSUME CachesInv, NEW t \in Threads, GivesUp(t)
  PROVE  unforgotten' \subseteq Volumes /\ thread' \in [Threads -> Thread]
<1>1. thread[t] \in Thread /\ CachesTypeOK /\ ThreadsFit
  BY DEF CachesInv, CachesTypeOK
<1>2. Goes(t, Idle(thread[t])) /\ unforgotten' = unforgotten \cup thread[t].gone
  BY DEF GivesUp, Ends
<1>3. thread' \in [Threads -> Thread]
  BY <1>1, <1>2, IdleFits, GoesTo
<1> QED
  BY <1>1, <1>2, <1>3 DEF CachesTypeOK, Thread

LEMMA DropKeeps ==
  ASSUME CachesConstants, CachesInv, NEW t \in Threads, DropVolume(t)
  PROVE  CachesInv'
<1> DEFINE v == thread[t].at
           more == [thread[t] EXCEPT !.gone = @ \cup {v}]
<1>1. thread[t] \in Thread /\ JobFits(thread[t]) /\ thread[t].pc = "drop"
  BY DEF CachesInv, CachesTypeOK, ThreadsFit, DropVolume
<1>2. UNCHANGED <<mounted, sizes, walk, ghosts>>
  BY DEF DropVolume
<1>3. CASE v \notin mounted /\ Removed(v) /\ Goes(t, After(more)) /\ UNCHANGED unforgotten
  <2>1. v \in Registry /\ v \in Volumes \ mounted
    BY <1>1, <1>3, ConstantFacts DEF Thread
  <2>2. /\ more \in Thread /\ more.gone = thread[t].gone \cup {v}
        /\ more.pc = "drop" /\ more.job = thread[t].job
    BY <1>1, <2>1, ConstantFacts DEF Thread
  <2>3. JobFits(more)
    BY <1>1, <2>1, <2>2 DEF JobFits
  <2> HIDE DEF more
  <2>4. /\ After(more) \in Thread /\ JobFits(After(more))
        /\ After(more).gone = thread[t].gone \cup {v} /\ After(more).pc # "walk"
    BY <2>2, <2>3, AfterFits
  <2>5. unforgotten \subseteq Volumes
    BY DEF CachesInv, CachesTypeOK
  <2> HIDE DEF v
  <2> QED
    BY <1>1, <1>2, <1>3, <2>1, <2>4, <2>5, RemovedKeeps
<1>4. CASE v \notin mounted /\ RemovedUnheard(t, v)
  <2>1. v \in Volumes \ mounted
    BY <1>1, <1>4, ConstantFacts DEF Thread
  <2> HIDE DEF v
  <2> QED
    BY <1>1, <1>2, <1>4, <2>1, UnheardKeeps
<1>5. CASE GivesUp(t) /\ UNCHANGED <<disk, during>>
  <2>1. CachesTypeOK'
    BY <1>2, <1>5, UnforgottenTyped DEF CachesInv, CachesTypeOK, walk
  <2>2. MountedExists' /\ \A w \in Volumes : Empty(w)' => Empty(w)
    BY <1>2, <1>5 DEF CachesInv, MountedExists, Empty
  <2> QED
    BY <1>1, <1>2, <1>5, <2>1, <2>2, GivesUpKeeps
<1> QED
  BY <1>3, <1>4, <1>5 DEF DropVolume

\* A volume that is made is empty, as one that is missing is.
LEMMA StartKeeps ==
  ASSUME CachesConstants, CachesInv, NEW t \in Threads, StartRegistry(t)
  PROVE  CachesInv'
<1> DEFINE v == thread[t].at
           made == [disk EXCEPT ![v] = IF @ = None THEN 0 ELSE @]
<1>1. CachesTypeOK /\ ThreadsFit /\ OneWalk /\ WalkSees /\ RemovalShows /\ MountedExists
  BY DEF CachesInv
<1>2. thread[t] \in Thread /\ JobFits(thread[t]) /\ thread[t].pc = "up"
  BY <1>1 DEF CachesTypeOK, ThreadsFit, StartRegistry
<1>3. v \in Registry /\ v \in Volumes
  BY <1>2, ConstantFacts DEF Thread
<1>4. UNCHANGED <<sizes, walk, during, ghosts>>
  BY DEF StartRegistry
<1>5. /\ made \in [Volumes -> Size \cup {0, None}] /\ made[v] # None
      /\ \A w \in Volumes : (made[w] \in {0, None} => Empty(w)) /\ (disk[w] # None => made[w] # None)
  BY <1>1, <1>3, ConstantFacts DEF CachesTypeOK, Empty
<1>6. \A on \in {mounted, mounted \cup {v}} :
        on \subseteq Registry /\ \A w \in on : made[w] # None
  BY <1>1, <1>3, <1>5, ConstantFacts DEF CachesTypeOK, MountedExists
<1> DEFINE Comes == /\ disk' = made /\ mounted' = mounted \cup {v}
                    /\ Goes(t, After(thread[t])) /\ unforgotten' = unforgotten
           Fails == /\ \/ disk' = disk /\ mounted' = mounted
                       \/ disk' = made /\ mounted' \in {mounted, mounted \cup {v}}
                    /\ GivesUp(t)
<1>0. Comes \/ Fails
  BY DEF StartRegistry, daemon
<1> HIDE DEF v, made
<1>7. CASE Comes
  <2>1. /\ After(thread[t]) \in Thread /\ JobFits(After(thread[t]))
        /\ After(thread[t]).gone = thread[t].gone /\ After(thread[t]).pc # "walk"
    BY <1>2, AfterFits
  <2>2. /\ thread' \in [Threads -> Thread] /\ ThreadsFit'
        /\ thread'[t] = After(thread[t]) /\ \A u \in Threads \ {t} : thread'[u] = thread[u]
    BY <1>1, <1>7, <2>1, GoesTo
  <2>3. CachesTypeOK'
    BY <1>1, <1>4, <1>5, <1>6, <1>7, <2>2 DEF CachesTypeOK, walk
  <2>4. OneWalk'
    BY <1>1, <1>2, <1>4, <2>1, <2>2 DEF OneWalk, walk
  <2>5. \A w \in Volumes : Empty(w)' => Empty(w)
    BY <1>5, <1>7 DEF Empty
  <2>6. WalkSees'
    BY <1>1, <1>4, <2>5 DEF WalkSees, walk
  <2>7. MountedExists'
    BY <1>6, <1>7 DEF MountedExists
  <2>8. \A w : Pending(w) => Pending(w)'
    BY <2>1, <2>2 DEF Pending
  <2>9. RemovalShows'
    BY <1>1, <1>4, <1>7, <2>5, <2>8 DEF RemovalShows
  <2> QED
    BY <2>2, <2>3, <2>4, <2>6, <2>7, <2>9 DEF CachesInv
<1>8. CASE Fails
  <2>1. /\ disk' \in [Volumes -> Size \cup {0, None}] /\ mounted' \subseteq Registry
        /\ MountedExists' /\ \A w \in Volumes : Empty(w)' => Empty(w)
    <3>1. CASE disk' = disk /\ mounted' = mounted
      BY <1>1, <3>1 DEF CachesTypeOK, MountedExists, Empty
    <3>2. CASE disk' = made /\ mounted' \in {mounted, mounted \cup {v}}
      BY <1>5, <1>6, <3>2 DEF MountedExists, Empty
    <3> QED
      BY <1>8, <3>1, <3>2
  <2>2. CachesTypeOK'
    <3>1. unforgotten' \subseteq Volumes /\ thread' \in [Threads -> Thread]
      BY <1>8, UnforgottenTyped
    <3> QED
      BY <1>1, <1>4, <2>1, <3>1 DEF CachesTypeOK, walk
  <2>3. GivesUp(t) /\ thread[t].pc # "walk"
    BY <1>2, <1>8
  <2> QED
    BY <1>4, <2>1, <2>2, <2>3, GivesUpKeeps
<1> QED
  BY <1>0, <1>7, <1>8

\* What a job has removed is among what it forgets.
LEMMA ForgetKeeps ==
  ASSUME CachesConstants, CachesInv, NEW t \in Threads, Forget(t)
  PROVE  CachesInv'
<1> DEFINE kept == [v \in Volumes |-> IF v \in Forgotten(thread[t]) THEN 0 ELSE sizes[v]]
<1>1. CachesTypeOK /\ ThreadsFit /\ OneWalk /\ WalkSees /\ RemovalShows /\ MountedExists
  BY DEF CachesInv
<1>2. thread[t] \in Thread /\ JobFits(thread[t]) /\ thread[t].pc = "forget"
  BY <1>1 DEF CachesTypeOK, ThreadsFit, Forget
<1>3. thread[t].gone \subseteq Forgotten(thread[t])
  BY <1>2 DEF Forgotten, JobFits
<1>4. /\ sizes' = IF sizes = None THEN None ELSE kept
      /\ Goes(t, Idle(thread[t])) /\ UNCHANGED <<daemon, walk, marks>>
  BY DEF Forget, Ends
<1>5. sizes # None => kept \in [Volumes -> Size \cup {0}] /\ kept # None
  BY <1>1, ConstantFacts DEF CachesTypeOK
<1>6. \A v \in Volumes : kept[v] # 0 => kept[v] = sizes[v] /\ v \notin thread[t].gone
  BY <1>3
<1> HIDE DEF kept
<1>7. /\ thread' \in [Threads -> Thread] /\ ThreadsFit'
      /\ thread'[t] = Idle(thread[t]) /\ \A u \in Threads \ {t} : thread'[u] = thread[u]
  BY <1>1, <1>2, <1>4, IdleFits, GoesTo
<1>8. CachesTypeOK'
  BY <1>1, <1>4, <1>5, <1>7 DEF CachesTypeOK, daemon, walk, marks
<1>9. OneWalk'
  BY <1>1, <1>2, <1>4, <1>7, IdleFits DEF OneWalk, walk
<1>10. WalkSees' /\ MountedExists'
  BY <1>1, <1>4 DEF WalkSees, MountedExists, Empty, daemon, walk, marks
<1>11. \A v : Pending(v) => Pending(v)' \/ v \in thread[t].gone
  BY <1>7 DEF Pending
<1>12. RemovalShows'
  BY <1>1, <1>4, <1>5, <1>6, <1>11 DEF RemovalShows, Empty, daemon, marks
<1> QED
  BY <1>7, <1>8, <1>9, <1>10, <1>12 DEF CachesInv

LEMMA RunWritesKeeps ==
  ASSUME CachesConstants, CachesInv, NEW v \in Volumes, NEW n \in Size, RunWrites(v, n)
  PROVE  CachesInv'
<1>1. CachesTypeOK /\ ThreadsFit /\ OneWalk /\ WalkSees /\ RemovalShows /\ MountedExists
  BY DEF CachesInv
<1>2. disk' = [disk EXCEPT ![v] = n] /\ UNCHANGED <<mounted, sizes, walk, thread, marks>>
  BY DEF RunWrites
<1>3. CachesTypeOK'
  BY <1>1, <1>2 DEF CachesTypeOK, walk, marks
<1>4. \A w \in Volumes : Empty(w)' => Empty(w)
  BY <1>1, <1>2, ConstantFacts DEF Empty, CachesTypeOK
<1>5. ThreadsFit' /\ OneWalk'
  BY <1>1, <1>2 DEF ThreadsFit, JobFits, Registry, OneWalk, walk
<1>6. WalkSees'
  BY <1>1, <1>2, <1>4 DEF WalkSees, walk, marks
<1>7. RemovalShows'
  BY <1>1, <1>2, <1>4 DEF RemovalShows, Pending, marks
<1>8. MountedExists'
  BY <1>1, <1>2, ConstantFacts DEF MountedExists, CachesTypeOK
<1> QED
  BY <1>3, <1>5, <1>6, <1>7, <1>8 DEF CachesInv

-------------------------------------------------------------------------------
(* The invariant                                                             *)

\* Nobody is doing anything, and there are no sizes yet.
LEMMA FreshFits ==
  ASSUME CachesConstants
  PROVE  NoThread \in Thread /\ JobFits(NoThread) /\ NoThread.pc = "idle" /\ NoThread.gone = {}
BY ConstantFacts DEF NoThread, Thread, JobFits, Registry

LEMMA InitHolds ==
  ASSUME CachesConstants, CachesInit
  PROVE  CachesInv
<1>1. \A t \in Threads : thread[t] = NoThread
  BY DEF CachesInit
<1>2. CachesTypeOK
  BY FreshFits, ConstantFacts DEF CachesInit, CachesTypeOK
<1>3. ThreadsFit /\ OneWalk
  BY <1>1, FreshFits, ConstantFacts DEF ThreadsFit, OneWalk, CachesInit
<1> QED
  BY <1>2, <1>3 DEF CachesInv, WalkSees, RemovalShows, MountedExists, CachesInit

LEMMA RestartKeeps ==
  ASSUME CachesConstants, CachesInv, CachesRestart
  PROVE  CachesInv'
<1>1. thread' = [t \in Threads |-> NoThread]
  BY DEF CachesRestart
<1>2. CachesTypeOK'
  BY <1>1, FreshFits, ConstantFacts DEF CachesInv, CachesRestart, CachesTypeOK, daemon
<1>3. ThreadsFit'
  BY <1>1, FreshFits DEF ThreadsFit, JobFits, Registry
<1>4. OneWalk'
  BY <1>1, FreshFits, ConstantFacts DEF OneWalk, CachesRestart
<1>5. WalkSees' /\ RemovalShows' /\ MountedExists'
  BY DEF CachesInv, WalkSees, RemovalShows, MountedExists, CachesRestart, daemon
<1> QED
  BY <1>2, <1>3, <1>4, <1>5 DEF CachesInv

LEMMA StutterKeeps ==
  ASSUME CachesInv, UNCHANGED cacheVars
  PROVE  CachesInv'
<1>1. /\ CachesTypeOK' /\ OneWalk' /\ WalkSees' /\ RemovalShows' /\ MountedExists'
  BY DEF CachesInv, CachesTypeOK, OneWalk, WalkSees, RemovalShows, MountedExists, Empty,
         Pending, cacheVars, daemon, walk, marks
<1>2. ThreadsFit'
  BY DEF CachesInv, ThreadsFit, JobFits, Registry, cacheVars
<1> QED
  BY <1>1, <1>2 DEF CachesInv

\* The invariant holds of every run of the daemon, the loop, the collector and the
\* requests of cache.go, whatever volumes and sizes there are.
THEOREM CachesHold ==
  ASSUME CachesConstants
  PROVE  CachesSpec => []CachesInv
<1>1. CachesInit => CachesInv
  BY InitHolds
<1>2. CachesInv /\ [CachesNext]_cacheVars => CachesInv'
  <2> SUFFICES ASSUME CachesInv, [CachesNext]_cacheVars PROVE CachesInv'
    OBVIOUS
  <2>1. CASE BeginRefresh
    <3>1. Refresher \in Threads
      BY ConstantFacts
    <3>2. Begin(Refresher, "refresh", "lock") /\ UNCHANGED <<daemon, sizes, walk, marks>>
      BY <2>1 DEF BeginRefresh
    <3> QED
      BY <3>1, <3>2, BeginKeeps
  <2>2. CASE BeginRead(Collector, "collect") \/ Judge
    BY <2>2, BeginReadKeeps, JudgeKeeps, ConstantFacts
  <2>3. ASSUME NEW t \in Requests, RequestStep(t) PROVE CachesInv'
    <3>1. t \in Threads
      BY ConstantFacts
    <3>2. CASE BeginRead(t, "page") \/ ShowPage(t)
      BY <3>1, <3>2, BeginReadKeeps, ShowPageKeeps
    <3>3. CASE \E v \in ProjectVolumes : RemoveVolume(t, v)
      BY <3>1, <3>3, RemoveVolumeKeeps
    <3>4. CASE BeginPurge(t)
      BY <3>1, <3>4, BeginKeeps DEF BeginPurge
    <3>5. CASE BeginEnsure(t)
      BY <3>1, <3>5, BeginKeeps DEF BeginEnsure
    <3> QED
      BY <2>3, <3>2, <3>3, <3>4, <3>5 DEF RequestStep
  <2>4. ASSUME NEW t \in Threads, ThreadStep(t) PROVE CachesInv'
    BY <2>4, LockKeeps, WalkedKeeps, WalkFailsKeeps, StopKeeps, DropKeeps, StartKeeps,
       ForgetKeeps DEF ThreadStep
  <2>5. ASSUME NEW v \in Volumes, Visit(v) PROVE CachesInv'
    BY <2>5, VisitKeeps
  <2>6. ASSUME NEW v \in Volumes, NEW n \in Size, RunWrites(v, n) PROVE CachesInv'
    BY <2>6, RunWritesKeeps
  <2>7. CASE CachesRestart
    BY <2>7, RestartKeeps
  <2>8. CASE UNCHANGED cacheVars
    BY <2>8, StutterKeeps
  <2> QED
    BY <2>1, <2>2, <2>3, <2>4, <2>5, <2>6, <2>7, <2>8 DEF CachesNext
<1> QED
  BY <1>1, <1>2, PTL DEF CachesSpec

\* One thread walks at a time: refreshMu.
THEOREM WalksAlone ==
  ASSUME CachesConstants
  PROVE  CachesSpec => []OneWalk
<1>1. CachesInv => OneWalk
  BY DEF CachesInv
<1> QED BY <1>1, CachesHold, PTL

\* The kept sizes give a deleted volume nothing once its size is forgotten, but for
\* walks that were under way (refresh), purges that failed (PurgeRegistry) and removals
\* that failed after the daemon had done them (RemoveVolume).
THEOREM DeletionShows ==
  ASSUME CachesConstants
  PROVE  CachesSpec => []RemovalShows
<1>1. CachesInv => RemovalShows
  BY DEF CachesInv
<1> QED BY <1>1, CachesHold, PTL

\* A registry that is up has its volume, however PurgeRegistry and EnsureRegistries overlap.
THEOREM RegistriesHaveVolumes ==
  ASSUME CachesConstants
  PROVE  CachesSpec => []MountedExists
<1>1. CachesInv => MountedExists
  BY DEF CachesInv
<1> QED BY <1>1, CachesHold, PTL

-------------------------------------------------------------------------------
(* Artifacts                                                                 *)

Started(r) == run[r].pc \in {"reset", "unlist"} => run[r].at = NoFile /\ run[r].entries = NoHashes
EntriesTell(r) ==
  run[r].pc = "copy" /\ ~run[r].crossed =>
    \A p \in Paths : run[r].entries[p] # NoFile =>
      files[p] = run[r].entries[p] /\ p \notin run[r].todo /\ p # run[r].at
CopyUnderWay(r) ==
  run[r].pc = "copy" /\ run[r].at # NoFile =>
    run[r].at \notin run[r].todo /\ (~run[r].crossed => run[r].linked /\ files[run[r].at] = Part)
Fresh(r) ==
  run[r].pc \in {"unlist", "copy"} /\ ~torn => \A p \in run[r].todo : files[p] = NoFile
Collection(r) == Started(r) /\ EntriesTell(r) /\ CopyUnderWay(r) /\ Fresh(r)

\* Two collections that are under way have crossed each other, and that is known.
Alone(r) ==
  /\ run[r].crossed => torn
  /\ \A q \in Launches \ {r} : run[r].pc # "idle" /\ run[q].pc # "idle" => run[r].crossed

Unlisted == (\E r \in Launches : run[r].pc = "copy") /\ ~stale => manifest = NoHashes
Collects == Unlisted /\ \A r \in Launches : Collection(r) /\ Alone(r)

\* What has been opened is there as long as it is linked.
LinkedThere ==
  \A d \in Downloads :
    /\ download[d].pc # "idle" => download[d].path \in Paths
    /\ download[d].linked => /\ download[d].pc # "idle" /\ download[d].path \in Paths
                             /\ files[download[d].path] # NoFile

\* While files are copied, only listings that began before the manifest went have hashes.
ListingsCross ==
  (\E r \in Launches : run[r].pc = "copy") /\ ~torn =>
    \A l \in Listings : listing[l].pc = "walk" /\ ~listing[l].crossed
                          => listing[l].hashes = NoHashes

RequestsHold == LinkedThere /\ TagTells /\ ListTells /\ ListingsCross
ArtifactsInv == ArtifactsTypeOK /\ (stale => torn) /\ HashesTell /\ Collects /\ RequestsHold

-------------------------------------------------------------------------------
(* Facts about files and downloads                                           *)

\* Requests that have ended, or not begun, are of their types.
LEMMA IdleTyped ==
  /\ NoHashes \in Hashes /\ \A p \in Paths : NoHashes[p] = NoFile
  /\ IdleRun \in Run /\ IdleRun.pc = "idle" /\ ~IdleRun.crossed
  /\ IdleDownload \in Download /\ IdleDownload.pc = "idle" /\ ~IdleDownload.linked
  /\ IdleListing \in Listing /\ IdleListing.pc = "idle"
<1>1. NoHashes \in Hashes /\ \A p \in Paths : NoHashes[p] = NoFile
  BY DEF NoHashes, Hashes
<1> QED
  BY <1>1 DEF IdleRun, Run, IdleDownload, Download, IdleListing, Listing

\* Unlinking takes nothing from what is being served.
LEMMA UnlinkedServes ==
  ASSUME ArtifactsTypeOK, LinkedThere, NEW gone \in SUBSET Paths, Unlinked(gone),
         \A p \in Paths : files'[p] = IF p \in gone THEN NoFile ELSE files[p]
  PROVE  /\ download' \in [Downloads -> Download] /\ LinkedThere'
         /\ \A d \in Downloads :
              /\ download'[d].pc = download[d].pc /\ download'[d].tag = download[d].tag
              /\ download'[d].late = download[d].late
              /\ download[d].pc # "idle" => Served(d)' = Served(d)
<1> SUFFICES ASSUME NEW d \in Downloads
             PROVE  /\ download'[d] \in Download
                    /\ download'[d].pc = download[d].pc /\ download'[d].path = download[d].path
                    /\ download'[d].tag = download[d].tag
                    /\ download'[d].late = download[d].late
                    /\ Served(d)' = Served(d)
                    /\ download'[d].linked => download[d].linked /\ download[d].path \notin gone
  <2>1. download' = [e \in Downloads |-> download'[e]]
    BY DEF Unlinked
  <2> HIDE DEF Served
  <2> QED
    BY <2>1 DEF LinkedThere
<1> DEFINE was == download[d]
           gets == [was EXCEPT !.linked = FALSE, !.kept = files[was.path]]
<1>1. was \in Download
  BY DEF ArtifactsTypeOK
<1>2. download'[d] = IF was.path \in gone /\ was.linked THEN gets ELSE was
  BY DEF Unlinked
<1>3. CASE was.path \in gone /\ was.linked
  <2>1. files[was.path] \in Contents \cup {Part, NoFile}
    BY <1>3 DEF ArtifactsTypeOK
  <2>2. gets \in Download
    BY <1>1, <2>1 DEF Download
  <2>3. /\ gets.pc = was.pc /\ gets.path = was.path /\ gets.tag = was.tag
        /\ gets.late = was.late /\ gets.linked = FALSE /\ gets.kept = files[was.path]
    BY <1>1 DEF Download
  <2>4. download'[d] = gets
    BY <1>2, <1>3
  <2> HIDE DEF gets
  <2> QED
    BY <1>3, <2>2, <2>3, <2>4 DEF Served
<1>4. CASE ~(was.path \in gone /\ was.linked)
  <2>1. download'[d] = was
    BY <1>2, <1>4
  <2>2. was.linked => was.path \in Paths
    BY DEF LinkedThere
  <2>3. Served(d)' = Served(d)
    BY <1>4, <2>1, <2>2 DEF Served
  <2> QED
    BY <1>1, <1>4, <2>1, <2>3
<1> QED
  BY <1>3, <1>4

\* So what a tag tells stays true.
LEMMA UnlinkedTells ==
  ASSUME ArtifactsTypeOK, LinkedThere, TagTells, NEW gone \in SUBSET Paths, Unlinked(gone),
         \A p \in Paths : files'[p] = IF p \in gone THEN NoFile ELSE files[p],
         torn => torn'
  PROVE  TagTells'
<1>1. \A d \in Downloads :
        /\ download'[d].pc = download[d].pc /\ download'[d].tag = download[d].tag
        /\ download'[d].late = download[d].late
        /\ download[d].pc # "idle" => Served(d)' = Served(d)
  BY UnlinkedServes
<1> HIDE DEF Served
<1> QED
  BY <1>1 DEF TagTells

-------------------------------------------------------------------------------
(* Collecting                                                                *)

\* What a launch has done when another one goes on; it may only lose its file.
Alike(q) ==
  /\ run'[q].pc = run[q].pc /\ run'[q].todo = run[q].todo /\ run'[q].at = run[q].at
  /\ run'[q].entries = run[q].entries /\ run'[q].crossed = run[q].crossed

LEMMA MovesTo ==
  ASSUME ArtifactsTypeOK, NEW r \in Launches, NEW to \in Run, NEW gone, Moves(r, to, gone)
  PROVE  /\ run' \in [Launches -> Run] /\ run'[r] = to
         /\ \A q \in Launches \ {r} : Alike(q)
<1> DEFINE cut(q) == [run[q] EXCEPT !.linked = run[q].linked /\ run[q].at \notin gone]
<1>1. run' = [q \in Launches |-> IF q = r THEN to ELSE cut(q)]
  BY DEF Moves
<1>2. ASSUME NEW q \in Launches
      PROVE  /\ cut(q) \in Run /\ cut(q).pc = run[q].pc /\ cut(q).todo = run[q].todo
             /\ cut(q).at = run[q].at /\ cut(q).entries = run[q].entries
             /\ cut(q).crossed = run[q].crossed
  BY DEF ArtifactsTypeOK, Run
<1> HIDE DEF cut
<1> QED
  BY <1>1, <1>2 DEF Alike

\* A launch that goes on does nothing to the collections of others: either none is
\* under way, or they are known to have crossed it.
LEMMA OthersCollect ==
  ASSUME ArtifactsInv, NEW r \in Launches, run[r].pc # "idle", torn => torn',
         NEW q \in Launches \ {r}, Alike(q)
  PROVE  Collection(q)'
<1>1. Collection(q) /\ Alone(q) /\ torn \in BOOLEAN
  BY DEF ArtifactsInv, ArtifactsTypeOK, Collects
<1>2. run[q].pc # "idle" => run[q].crossed /\ torn'
  BY <1>1 DEF Alone
<1>3. Started(q)'
  BY <1>1 DEF Collection, Started, Alike, NoHashes
<1>4. EntriesTell(q)' /\ CopyUnderWay(q)'
  BY <1>1, <1>2 DEF Collection, EntriesTell, CopyUnderWay, Alike
<1>5. Fresh(q)'
  BY <1>2 DEF Fresh, Alike
<1> QED
  BY <1>3, <1>4, <1>5 DEF Collection

\* Nor does it change who has crossed whom.
LEMMA AloneKeeps ==
  ASSUME ArtifactsInv, NEW r \in Launches, run[r].pc # "idle", torn => torn',
         run'[r].crossed => run[r].crossed, run'[r].crossed \/ run'[r].pc = "idle" \/ ~run[r].crossed,
         \A q \in Launches \ {r} : Alike(q)
  PROVE  \A q \in Launches : Alone(q)'
<1>1. \A q \in Launches : Alone(q)
  BY DEF ArtifactsInv, Collects
<1> QED
  BY <1>1 DEF Alone, Alike

LEMMA CollectKeeps ==
  ASSUME ArtifactsInv, NEW r \in Launches, Collect(r)
  PROVE  ArtifactsInv'
<1> DEFINE others == {q \in Launches \ {r} : run[q].pc # "idle"}
           begun  == [IdleRun EXCEPT !.pc = "reset", !.todo = Paths, !.crossed = (others # {})]
           met(q) == [run[q] EXCEPT !.crossed = run[q].crossed \/ q \in others]
<1>1. /\ ArtifactsTypeOK /\ (stale => torn) /\ HashesTell /\ Collects /\ RequestsHold
      /\ run[r].pc = "idle"
  BY DEF ArtifactsInv, Collect
<1>2. UNCHANGED <<files, manifest, download, listing, stale>> /\ torn' = (torn \/ others # {})
  BY DEF Collect
<1>3. run' = [q \in Launches |-> IF q = r THEN begun ELSE met(q)]
  BY DEF Collect
<1>4. /\ begun \in Run /\ begun.pc = "reset" /\ begun.at = NoFile /\ begun.entries = NoHashes
      /\ begun.crossed = (others # {})
  BY IdleTyped DEF Run, IdleRun
<1>5. ASSUME NEW q \in Launches
      PROVE  /\ met(q) \in Run /\ met(q).pc = run[q].pc /\ met(q).todo = run[q].todo
             /\ met(q).at = run[q].at /\ met(q).entries = run[q].entries
             /\ met(q).linked = run[q].linked
             /\ met(q).crossed = (run[q].crossed \/ q \in others)
  BY <1>1 DEF ArtifactsTypeOK, Run
<1> HIDE DEF begun, met
<1>6. /\ run' \in [Launches -> Run] /\ run'[r] = begun
      /\ \A q \in Launches \ {r} : run'[q] = met(q)
  BY <1>3, <1>4, <1>5
<1>7. ArtifactsTypeOK' /\ (stale => torn)' /\ HashesTell'
  BY <1>1, <1>2, <1>6 DEF ArtifactsTypeOK, HashesTell
<1>8. ASSUME NEW q \in Launches PROVE Collection(q)'
  <2>1. CASE q = r
    BY <1>4, <1>6, <2>1 DEF Collection, Started, EntriesTell, CopyUnderWay, Fresh, NoHashes
  <2>2. CASE q # r
    <3>1. /\ Started(q) /\ EntriesTell(q) /\ CopyUnderWay(q) /\ Fresh(q)
          /\ run'[q].pc = run[q].pc /\ run'[q].todo = run[q].todo /\ run'[q].at = run[q].at
          /\ run'[q].entries = run[q].entries /\ run'[q].linked = run[q].linked
          /\ ~run'[q].crossed => ~run[q].crossed
      BY <1>1, <1>5, <1>6, <2>2 DEF Collects, Collection
    <3>2. Started(q)'
      BY <3>1 DEF Started, NoHashes
    <3>3. EntriesTell(q)' /\ CopyUnderWay(q)'
      BY <1>2, <3>1 DEF EntriesTell, CopyUnderWay
    <3>4. Fresh(q)'
      BY <1>2, <3>1 DEF Fresh
    <3> QED
      BY <3>2, <3>3, <3>4 DEF Collection
  <2> QED BY <2>1, <2>2
<1>9. ASSUME NEW q \in Launches PROVE Alone(q)'
  <2>1. Alone(q) /\ (run[q].crossed => torn)
    BY <1>1 DEF Collects, Alone
  <2>2. CASE q = r
    BY <1>2, <1>4, <1>5, <1>6, <2>2 DEF Alone
  <2>3. CASE q # r
    <3>1. /\ run'[q].pc = run[q].pc /\ run'[q].crossed = (run[q].crossed \/ q \in others)
          /\ run[q].pc # "idle" => q \in others
      BY <1>5, <1>6, <2>3
    <3>2. \A u \in Launches \ {q, r} : run'[u].pc = run[u].pc
      BY <1>5, <1>6
    <3> QED
      BY <1>2, <2>1, <3>1, <3>2 DEF Alone
  <2> QED BY <2>2, <2>3
<1>10. (\E q \in Launches : run'[q].pc = "copy") => \E q \in Launches : run[q].pc = "copy"
  BY <1>4, <1>5, <1>6
<1>11. Unlisted'
  BY <1>1, <1>2, <1>10 DEF Collects, Unlisted, NoHashes
<1>12. RequestsHold'
  BY <1>1, <1>2, <1>10
     DEF RequestsHold, LinkedThere, TagTells, ListTells, ListingsCross, Served, NoHashes
<1> QED
  BY <1>7, <1>8, <1>9, <1>11, <1>12 DEF ArtifactsInv, Collects

\* Files go, and no hash is left with another file than its own.
LEMMA ResetKeeps ==
  ASSUME ArtifactsInv, NEW r \in Launches, Reset(r)
  PROVE  ArtifactsInv'
<1> DEFINE to == [run[r] EXCEPT !.pc = "unlist"]
<1>1. /\ ArtifactsTypeOK /\ (stale => torn) /\ HashesTell /\ Collects
      /\ LinkedThere /\ TagTells /\ ListTells /\ ListingsCross
  BY DEF ArtifactsInv, RequestsHold
<1>2. UNCHANGED <<manifest, listing, stale>> /\ run[r].pc = "reset"
  BY DEF Reset
<1>3. /\ to \in Run /\ to.pc = "unlist" /\ to.at = run[r].at /\ to.crossed = run[r].crossed
      /\ to.entries = run[r].entries /\ to.todo = run[r].todo
  BY <1>1 DEF ArtifactsTypeOK, Run
<1>4. PICK gone \in SUBSET Paths :
        /\ files' = [p \in Paths |-> IF p \in gone THEN NoFile ELSE files[p]]
        /\ Unlinked(gone) /\ Moves(r, to, gone) /\ torn' = (torn \/ gone # Paths)
  BY DEF Reset
<1> HIDE DEF to
<1>5. \A p \in Paths : files'[p] = IF p \in gone THEN NoFile ELSE files[p]
  BY <1>4
<1>6. download' \in [Downloads -> Download] /\ LinkedThere'
  BY <1>1, <1>4, <1>5, UnlinkedServes
<1>7. /\ run' \in [Launches -> Run] /\ run'[r] = to
      /\ \A q \in Launches \ {r} : Alike(q)
  BY <1>1, <1>3, <1>4, MovesTo
<1>8. ArtifactsTypeOK' /\ (stale => torn)' /\ HashesTell'
  BY <1>1, <1>2, <1>4, <1>5, <1>6, <1>7 DEF ArtifactsTypeOK, HashesTell
<1>9. Collection(r)'
  <2>1. Started(r)'
    BY <1>1, <1>2, <1>3, <1>7 DEF Collects, Collection, Started, NoHashes
  <2>2. Fresh(r)'
    <3>1. run[r].todo \subseteq Paths
      BY <1>1 DEF ArtifactsTypeOK, Run
    <3> QED
      BY <1>3, <1>4, <1>5, <1>7, <3>1 DEF Fresh
  <2> QED
    BY <1>3, <1>7, <2>1, <2>2 DEF Collection, EntriesTell, CopyUnderWay
<1>10. Collects'
  <2>1. \A q \in Launches : Alone(q)'
    BY <1>2, <1>3, <1>4, <1>7, AloneKeeps
  <2>2. \A q \in Launches \ {r} : Collection(q)'
    BY <1>2, <1>4, <1>7, OthersCollect
  <2>3. Unlisted'
    BY <1>1, <1>2, <1>3, <1>7 DEF Collects, Unlisted, NoHashes, Alike
  <2> QED
    BY <1>9, <2>1, <2>2, <2>3 DEF Collects
<1>11. TagTells'
  BY <1>1, <1>4, <1>5, UnlinkedTells
<1>12. ListTells' /\ ListingsCross'
  <2>1. ListTells'
    BY <1>1, <1>2, <1>4, <1>5 DEF ListTells
  <2>2. (\E q \in Launches : run'[q].pc = "copy") => \E q \in Launches : run[q].pc = "copy"
    BY <1>3, <1>7 DEF Alike
  <2>3. ListingsCross'
    BY <1>1, <1>2, <1>4, <2>2 DEF ListingsCross, NoHashes
  <2> QED BY <2>1, <2>3
<1> QED
  BY <1>6, <1>8, <1>10, <1>11, <1>12 DEF ArtifactsInv, RequestsHold

\* Every listing under way is crossed.
LEMMA UnlistKeeps ==
  ASSUME ArtifactsInv, NEW r \in Launches, Unlist(r)
  PROVE  ArtifactsInv'
<1> DEFINE to == [run[r] EXCEPT !.pc = "copy"]
<1>1. /\ ArtifactsTypeOK /\ (stale => torn) /\ HashesTell /\ Collects
      /\ LinkedThere /\ TagTells
  BY DEF ArtifactsInv, RequestsHold
<1>2. UNCHANGED <<files, download>> /\ run[r].pc = "unlist" /\ Moves(r, to, {})
  BY DEF Unlist
<1>3. /\ to \in Run /\ to.pc = "copy" /\ to.at = NoFile /\ to.crossed = run[r].crossed
      /\ to.entries = NoHashes /\ to.todo = run[r].todo
  BY <1>1, <1>2 DEF Collects, Collection, Started, ArtifactsTypeOK, Run
<1> HIDE DEF to
<1>4. \/ manifest' = NoHashes /\ stale' = FALSE /\ torn' = torn
      \/ stale' = TRUE /\ torn' = TRUE /\ manifest' = manifest
  BY DEF Unlist
<1>5. listing' \in [Listings -> Listing] /\ \A l \in Listings : listing'[l].crossed
  BY <1>1 DEF Unlist, ArtifactsTypeOK, Listing
<1>6. /\ run' \in [Launches -> Run] /\ run'[r] = to
      /\ \A q \in Launches \ {r} : Alike(q)
  BY <1>1, <1>2, <1>3, MovesTo
<1>7. torn => torn'
  BY <1>4
<1>8. ArtifactsTypeOK' /\ (stale => torn)' /\ HashesTell'
  BY <1>1, <1>2, <1>4, <1>5, <1>6, IdleTyped DEF ArtifactsTypeOK, HashesTell
<1>9. Collection(r)'
  <2>1. EntriesTell(r)'
    BY <1>3, <1>6, IdleTyped DEF EntriesTell
  <2>2. Fresh(r)'
    BY <1>1, <1>2, <1>3, <1>4, <1>6 DEF Collects, Collection, Fresh
  <2> QED
    BY <1>3, <1>6, <2>1, <2>2 DEF Collection, Started, CopyUnderWay
<1>10. Collects'
  <2>1. \A q \in Launches : Alone(q)'
    BY <1>2, <1>3, <1>6, <1>7, AloneKeeps
  <2>2. \A q \in Launches \ {r} : Collection(q)'
    BY <1>2, <1>6, <1>7, OthersCollect
  <2>3. Unlisted'
    BY <1>4 DEF Unlisted, NoHashes
  <2> QED
    BY <1>9, <2>1, <2>2, <2>3 DEF Collects
<1>11. LinkedThere' /\ TagTells'
  BY <1>1, <1>2, <1>4 DEF LinkedThere, TagTells, Served
<1>12. ListTells' /\ ListingsCross'
  BY <1>5 DEF ListTells, ListingsCross
<1> QED
  BY <1>8, <1>10, <1>11, <1>12 DEF ArtifactsInv, RequestsHold

\* A path that is still to copy has no file, so nobody reads what is overwritten.
LEMMA CopyStartsKeeps ==
  ASSUME ArtifactsConstants, ArtifactsInv, NEW r \in Launches, NEW p \in Paths, CopyStarts(r, p)
  PROVE  ArtifactsInv'
<1> DEFINE to == [run[r] EXCEPT !.todo = run[r].todo \ {p}, !.at = p, !.linked = TRUE]
<1>1. /\ ArtifactsTypeOK /\ (stale => torn) /\ HashesTell /\ Collects
      /\ LinkedThere /\ TagTells /\ ListTells /\ ListingsCross
  BY DEF ArtifactsInv, RequestsHold
<1>2. /\ UNCHANGED <<manifest, download, listing, stale, torn>>
      /\ run[r].pc = "copy" /\ p \in run[r].todo /\ run[r].at = NoFile /\ Moves(r, to, {})
  BY DEF CopyStarts, flaws
<1>3. /\ to \in Run /\ to.pc = "copy" /\ to.at = p /\ to.linked /\ to.crossed = run[r].crossed
      /\ to.entries = run[r].entries /\ to.todo = run[r].todo \ {p}
  BY <1>1, <1>2 DEF ArtifactsTypeOK, Run
<1> HIDE DEF to
<1>4. /\ files' \in [Paths -> Contents \cup {Part, NoFile}] /\ files'[p] = Part
      /\ \A q \in Paths \ {p} : files'[q] = files[q]
  BY <1>1 DEF CopyStarts, ArtifactsTypeOK
<1>5. ~stale => \A q \in Paths : manifest[q] = NoFile
  BY <1>1, <1>2, IdleTyped DEF Collects, Unlisted
<1>6. /\ run' \in [Launches -> Run] /\ run'[r] = to
      /\ \A q \in Launches \ {r} : Alike(q)
  BY <1>1, <1>2, <1>3, MovesTo
<1>7. ArtifactsTypeOK' /\ (stale => torn)' /\ HashesTell'
  BY <1>1, <1>2, <1>4, <1>5, <1>6 DEF ArtifactsTypeOK, HashesTell
<1>8. Collection(r)'
  <2>1. EntriesTell(r)'
    BY <1>1, <1>2, <1>3, <1>4, <1>6 DEF Collects, Collection, EntriesTell
  <2>2. Fresh(r)' /\ run[r].todo \subseteq Paths
    BY <1>1, <1>2, <1>3, <1>4, <1>6 DEF Collects, Collection, Fresh, ArtifactsTypeOK, Run
  <2> QED
    BY <1>3, <1>4, <1>6, <2>1, <2>2 DEF Collection, Started, CopyUnderWay
<1>9. Collects'
  <2>1. \A q \in Launches : Alone(q)'
    BY <1>2, <1>3, <1>6, AloneKeeps
  <2>2. \A q \in Launches \ {r} : Collection(q)'
    BY <1>2, <1>6, OthersCollect
  <2>3. Unlisted'
    BY <1>1, <1>2 DEF Collects, Unlisted, NoHashes
  <2> QED
    BY <1>8, <2>1, <2>2, <2>3 DEF Collects
<1>10. LinkedThere'
  BY <1>1, <1>2, <1>4, ArtifactsConstants DEF LinkedThere, ArtifactsConstants
<1>11. TagTells'
  <2> SUFFICES ASSUME NEW d \in Downloads, download[d].pc = "tagged", download[d].tag # NoFile,
                      ~download[d].late, ~torn
               PROVE  Served(d)' = download[d].tag
    BY <1>2 DEF TagTells
  <2>1. files[p] = NoFile
    BY <1>1, <1>2 DEF Collects, Collection, Fresh
  <2>2. download[d].linked => download[d].path \in Paths \ {p}
    BY <1>1, <2>1 DEF LinkedThere
  <2> QED
    BY <1>1, <1>2, <1>4, <2>2 DEF TagTells, Served
<1>12. ListTells' /\ ListingsCross'
  <2>1. ListingsCross'
    BY <1>1, <1>2 DEF ListingsCross, NoHashes
  <2>2. ListTells'
    BY <1>1, <1>2, IdleTyped DEF ListTells, ListingsCross
  <2> QED BY <2>1, <2>2
<1> QED
  BY <1>7, <1>9, <1>10, <1>11, <1>12 DEF ArtifactsInv, RequestsHold

\* The path has no hash yet, and nobody has a tag for a file that is being written.
LEMMA CopyEndsKeeps ==
  ASSUME ArtifactsConstants, ArtifactsInv, NEW r \in Launches, NEW c \in Contents, CopyEnds(r, c)
  PROVE  ArtifactsInv'
<1> DEFINE p  == run[r].at
           to == [run[r] EXCEPT !.at = NoFile, !.entries = [run[r].entries EXCEPT ![p] = c]]
<1>1. /\ ArtifactsTypeOK /\ (stale => torn) /\ HashesTell /\ Collects
      /\ LinkedThere /\ TagTells /\ ListTells /\ ListingsCross
  BY DEF ArtifactsInv, RequestsHold
<1>2. /\ UNCHANGED <<manifest, download, listing, stale, torn>>
      /\ run[r].pc = "copy" /\ p # NoFile /\ Moves(r, to, {})
  BY DEF CopyEnds, flaws
<1>3. /\ p \in Paths /\ p \notin run[r].todo
      /\ ~run[r].crossed => run[r].linked /\ files[p] = Part
  BY <1>1, <1>2 DEF ArtifactsTypeOK, Run, Collects, Collection, CopyUnderWay
<1>4. /\ to \in Run /\ to.pc = "copy" /\ to.at = NoFile /\ to.todo = run[r].todo
      /\ to.crossed = run[r].crossed
      /\ to.entries[p] = c /\ \A q \in Paths \ {p} : to.entries[q] = run[r].entries[q]
  <2>1. run[r] \in Run /\ run[r].entries \in Hashes
    BY <1>1 DEF ArtifactsTypeOK, Run
  <2>2. [run[r].entries EXCEPT ![p] = c] \in Hashes
    BY <2>1 DEF Hashes
  <2> QED
    BY <1>2, <1>3, <2>1, <2>2 DEF Run, Hashes
<1>5. PICK b \in {c, Part} :
        /\ ~run[r].crossed => b = c
        /\ files' = IF run[r].linked THEN [files EXCEPT ![p] = b] ELSE files
  BY DEF CopyEnds
<1>6. /\ files' \in [Paths -> Contents \cup {Part, NoFile}]
      /\ ~run[r].crossed => files'[p] = c
      /\ \A q \in Paths \ {p} : files'[q] = files[q]
  BY <1>1, <1>3, <1>5 DEF ArtifactsTypeOK
<1>7. ~stale => \A q \in Paths : manifest[q] = NoFile
  BY <1>1, <1>2, IdleTyped DEF Collects, Unlisted
<1>8. c # NoFile /\ Part \notin Contents /\ Part # NoFile
  BY DEF ArtifactsConstants
<1>9. files'[p] = files[p] \/ files'[p] \in {c, Part}
  BY <1>1, <1>3, <1>5 DEF ArtifactsTypeOK
<1> HIDE DEF p, to
<1>10. /\ run' \in [Launches -> Run] /\ run'[r] = to
       /\ \A q \in Launches \ {r} : Alike(q)
  BY <1>1, <1>2, <1>4, MovesTo
<1>11. ArtifactsTypeOK' /\ (stale => torn)' /\ HashesTell'
  BY <1>1, <1>2, <1>6, <1>7, <1>10 DEF ArtifactsTypeOK, HashesTell
<1>12. Collection(r)'
  <2>1. EntriesTell(r)'
    <3>1. EntriesTell(r)
      BY <1>1 DEF Collects, Collection
    <3> QED
      BY <1>2, <1>3, <1>4, <1>6, <1>8, <1>10, <3>1 DEF EntriesTell, ArtifactsConstants
  <2>2. Fresh(r)'
    <3>1. Fresh(r) /\ run[r].todo \subseteq Paths
      BY <1>1 DEF Collects, Collection, ArtifactsTypeOK, Run
    <3> QED
      BY <1>2, <1>3, <1>4, <1>6, <1>10, <3>1 DEF Fresh
  <2> QED
    BY <1>4, <1>10, <2>1, <2>2 DEF Collection, Started, CopyUnderWay
<1>13. Collects'
  <2>1. \A q \in Launches : Alone(q)'
    BY <1>2, <1>4, <1>10, AloneKeeps
  <2>2. \A q \in Launches \ {r} : Collection(q)'
    BY <1>2, <1>10, OthersCollect
  <2>3. Unlisted'
    BY <1>1, <1>2 DEF Collects, Unlisted, NoHashes
  <2> QED
    BY <1>12, <2>1, <2>2, <2>3 DEF Collects
<1>14. LinkedThere'
  BY <1>1, <1>2, <1>6, <1>8, <1>9 DEF LinkedThere
<1>15. TagTells'
  <2> SUFFICES ASSUME NEW d \in Downloads, download[d].pc = "tagged", download[d].tag # NoFile,
                      ~download[d].late, ~torn
               PROVE  Served(d)' = download[d].tag
    BY <1>2 DEF TagTells
  <2>1. Served(d) = download[d].tag /\ download[d].tag \in Contents
    BY <1>1 DEF TagTells, ArtifactsTypeOK, Download
  <2>2. files[p] = Part
    BY <1>1, <1>3 DEF Collects, Alone
  <2>3. download[d].linked => download[d].path \in Paths \ {p}
    BY <1>1, <1>8, <2>1, <2>2 DEF LinkedThere, Served
  <2> QED
    BY <1>2, <1>6, <2>1, <2>3 DEF Served
<1>16. ListTells' /\ ListingsCross'
  <2>1. ListingsCross'
    BY <1>1, <1>2 DEF ListingsCross, NoHashes
  <2>2. ListTells'
    BY <1>1, <1>2, IdleTyped DEF ListTells, ListingsCross
  <2> QED BY <2>1, <2>2
<1> QED
  BY <1>11, <1>13, <1>14, <1>15, <1>16 DEF ArtifactsInv, RequestsHold

LEMMA CopyFailsKeeps ==
  ASSUME ArtifactsConstants, ArtifactsInv, NEW r \in Launches, CopyFails(r)
  PROVE  ArtifactsInv'
<1> DEFINE to == [run[r] EXCEPT !.at = NoFile]
<1>1. /\ ArtifactsTypeOK /\ (stale => torn) /\ HashesTell /\ Collects
      /\ LinkedThere /\ TagTells /\ ListTells /\ ListingsCross
  BY DEF ArtifactsInv, RequestsHold
<1>2. /\ UNCHANGED <<manifest, listing, stale, torn>>
      /\ run[r].pc = "copy" /\ run[r].at # NoFile
  BY DEF CopyFails, flaws
<1>3. run[r].at \in Paths /\ run[r].todo \subseteq Paths
  BY <1>1, <1>2 DEF ArtifactsTypeOK, Run
<1>4. /\ to \in Run /\ to.pc = "copy" /\ to.at = NoFile /\ to.crossed = run[r].crossed
      /\ to.todo = run[r].todo /\ to.entries = run[r].entries
  BY <1>1, <1>2 DEF ArtifactsTypeOK, Run
<1>5. PICK gone \in SUBSET Paths :
        /\ gone \subseteq {run[r].at}
        /\ files' = [p \in Paths |-> IF p \in gone THEN NoFile ELSE files[p]]
        /\ Unlinked(gone) /\ Moves(r, to, gone)
  BY <1>3 DEF CopyFails
<1> HIDE DEF to
<1>6. /\ \A q \in Paths : files'[q] = IF q \in gone THEN NoFile ELSE files[q]
      /\ files' \in [Paths -> Contents \cup {Part, NoFile}]
  BY <1>1, <1>5 DEF ArtifactsTypeOK
<1>7. download' \in [Downloads -> Download] /\ LinkedThere' /\ TagTells'
  BY <1>1, <1>2, <1>5, <1>6, UnlinkedServes, UnlinkedTells
<1>8. /\ run' \in [Launches -> Run] /\ run'[r] = to
      /\ \A q \in Launches \ {r} : Alike(q)
  BY <1>1, <1>4, <1>5, MovesTo
<1>9. ArtifactsTypeOK' /\ (stale => torn)' /\ HashesTell'
  BY <1>1, <1>2, <1>6, <1>7, <1>8 DEF ArtifactsTypeOK, HashesTell
<1>10. Collection(r)'
  <2>1. EntriesTell(r) /\ Fresh(r)
    BY <1>1 DEF Collects, Collection
  <2>2. EntriesTell(r)'
    BY <1>2, <1>3, <1>4, <1>5, <1>6, <1>8, <2>1 DEF EntriesTell, ArtifactsConstants
  <2>3. Fresh(r)'
    BY <1>2, <1>3, <1>4, <1>6, <1>8, <2>1 DEF Fresh
  <2> QED
    BY <1>4, <1>8, <2>2, <2>3 DEF Collection, Started, CopyUnderWay
<1>11. Collects'
  <2>1. \A q \in Launches : Alone(q)'
    BY <1>2, <1>4, <1>8, AloneKeeps
  <2>2. \A q \in Launches \ {r} : Collection(q)'
    BY <1>2, <1>8, OthersCollect
  <2>3. Unlisted'
    BY <1>1, <1>2 DEF Collects, Unlisted, NoHashes
  <2> QED
    BY <1>10, <2>1, <2>2, <2>3 DEF Collects
<1>12. ListTells' /\ ListingsCross'
  <2>1. ListTells'
    BY <1>1, <1>2, <1>6 DEF ListTells
  <2>2. ListingsCross'
    BY <1>1, <1>2 DEF ListingsCross, NoHashes
  <2> QED BY <2>1, <2>2
<1> QED
  BY <1>7, <1>9, <1>11, <1>12 DEF ArtifactsInv, RequestsHold

\* The manifest gets the hashes of the copies, if no other collection crossed.
LEMMA WriteManifestKeeps ==
  ASSUME ArtifactsInv, NEW r \in Launches, WriteManifest(r)
  PROVE  ArtifactsInv'
<1>1. /\ ArtifactsTypeOK /\ (stale => torn) /\ HashesTell /\ Collects
      /\ LinkedThere /\ TagTells /\ ListTells /\ ListingsCross
  BY DEF ArtifactsInv, RequestsHold
<1>2. /\ UNCHANGED <<files, download, listing, torn>>
      /\ run[r].pc = "copy" /\ Moves(r, IdleRun, {})
  BY DEF WriteManifest
<1>3. \/ manifest' = run[r].entries /\ stale' = run[r].crossed
      \/ manifest' = manifest /\ stale' = stale
  BY DEF WriteManifest
<1>4. /\ run' \in [Launches -> Run] /\ run'[r] = IdleRun
      /\ \A q \in Launches \ {r} : Alike(q)
  BY <1>1, <1>2, IdleTyped, MovesTo
<1>5. /\ EntriesTell(r) /\ Alone(r) /\ run[r] \in Run
      /\ IdleRun.pc = "idle" /\ ~IdleRun.crossed
  BY <1>1 DEF Collects, Collection, ArtifactsTypeOK, IdleRun
<1>6. ArtifactsTypeOK' /\ (stale => torn)' /\ HashesTell'
  <2>1. run[r].entries \in Hashes /\ run[r].crossed \in BOOLEAN
    BY <1>5 DEF Run
  <2>2. HashesTell'
    BY <1>1, <1>2, <1>3, <1>5 DEF HashesTell, EntriesTell
  <2>3. stale' \in BOOLEAN
    BY <1>1, <1>3, <2>1 DEF ArtifactsTypeOK
  <2>4. (stale => torn)'
    BY <1>1, <1>2, <1>3, <1>5 DEF Alone
  <2>5. ArtifactsTypeOK'
    BY <1>1, <1>2, <1>3, <1>4, <2>1, <2>3 DEF ArtifactsTypeOK
  <2> QED
    BY <2>2, <2>4, <2>5
<1>7. ASSUME NEW q \in Launches \ {r}, run[q].pc # "idle"
      PROVE  run[r].crossed /\ torn
  BY <1>2, <1>5, <1>7 DEF Alone
<1>8. Collects'
  <2>1. \A q \in Launches : Alone(q)'
    BY <1>2, <1>4, <1>5, AloneKeeps
  <2>2. \A q \in Launches \ {r} : Collection(q)'
    BY <1>2, <1>4, OthersCollect
  <2>3. Collection(r)'
    BY <1>4, <1>5 DEF Collection, Started, EntriesTell, CopyUnderWay, Fresh
  <2>4. Unlisted'
    <3> SUFFICES ASSUME NEW q \in Launches, run'[q].pc = "copy", ~stale'
                 PROVE  manifest' = NoHashes
      BY DEF Unlisted, NoHashes
    <3>1. q # r /\ run[q].pc = "copy"
      BY <1>4, <1>5 DEF Alike
    <3>2. run[r].crossed
      BY <1>7, <3>1
    <3> QED
      BY <1>1, <1>3, <3>1, <3>2 DEF Collects, Unlisted
  <2> QED
    BY <2>1, <2>2, <2>3, <2>4 DEF Collects
<1>9. LinkedThere' /\ TagTells' /\ ListTells'
  BY <1>1, <1>2 DEF LinkedThere, TagTells, ListTells, Served
<1>10. ListingsCross'
  <2> SUFFICES ASSUME NEW q \in Launches, run'[q].pc = "copy", ~torn' PROVE FALSE
    BY DEF ListingsCross, NoHashes
  <2>1. q # r /\ run[q].pc = "copy"
    BY <1>4, <1>5 DEF Alike
  <2> QED
    BY <1>2, <1>7, <2>1
<1> QED
  BY <1>6, <1>8, <1>9, <1>10 DEF ArtifactsInv, RequestsHold

\* The process starts with what the disk has, and knows of no failure but a manifest
\* that has outlived its files.
LEMMA FreshProcess ==
  ASSUME run = [r \in Launches |-> IdleRun], download = [d \in Downloads |-> IdleDownload],
         listing = [l \in Listings |-> IdleListing]
  PROVE  /\ run \in [Launches -> Run] /\ download \in [Downloads -> Download]
         /\ listing \in [Listings -> Listing] /\ Collects /\ RequestsHold
<1>1. /\ \A d \in Downloads : download[d].pc = "idle" /\ ~download[d].linked
      /\ \A l \in Listings : listing[l].pc = "idle"
      /\ \A r \in Launches : run[r].pc = "idle" /\ ~run[r].crossed
  BY IdleTyped
<1>2. RequestsHold
  BY <1>1 DEF RequestsHold, LinkedThere, TagTells, ListTells, ListingsCross
<1>3. Collects
  BY <1>1 DEF Collects, Unlisted, Collection, Alone, Started, EntriesTell, CopyUnderWay, Fresh
<1> QED
  BY <1>2, <1>3, IdleTyped

LEMMA NoCollection ==
  ASSUME ArtifactsInit
  PROVE  ArtifactsInv
<1>1. ArtifactsTypeOK /\ HashesTell
  BY FreshProcess, IdleTyped DEF ArtifactsInit, ArtifactsTypeOK, HashesTell
<1> QED
  BY <1>1, FreshProcess DEF ArtifactsInit, ArtifactsInv

LEMMA CutShortKeeps ==
  ASSUME ArtifactsInv, Restart
  PROVE  ArtifactsInv'
<1>1. /\ run' = [r \in Launches |-> IdleRun] /\ torn' = stale /\ UNCHANGED <<files, manifest, stale>>
      /\ download' = [d \in Downloads |-> IdleDownload]
      /\ listing' = [l \in Listings |-> IdleListing]
  BY DEF Restart
<1>2. /\ \A d \in Downloads : download'[d].pc = "idle" /\ ~download'[d].linked
      /\ \A l \in Listings : listing'[l].pc = "idle"
      /\ \A r \in Launches : run'[r].pc = "idle" /\ ~run'[r].crossed
  BY <1>1, IdleTyped
<1>3. RequestsHold'
  BY <1>2 DEF RequestsHold, LinkedThere, TagTells, ListTells, ListingsCross
<1>4. Collects'
  BY <1>2 DEF Collects, Unlisted, Collection, Alone, Started, EntriesTell, CopyUnderWay, Fresh
<1>5. ArtifactsTypeOK' /\ (stale => torn)' /\ HashesTell'
  BY <1>1, IdleTyped DEF ArtifactsInv, ArtifactsTypeOK, HashesTell
<1> QED
  BY <1>3, <1>4, <1>5 DEF ArtifactsInv

-------------------------------------------------------------------------------
(* Requests                                                                      *)

\* A step of one download, which leaves the rest alone.
LEMMA DownloadSteps ==
  ASSUME ArtifactsInv, NEW d \in Downloads, NEW to \in Download,
         download' = [download EXCEPT ![d] = to],
         UNCHANGED <<files, manifest, run, listing, flaws>>,
         to.pc # "idle" => to.path \in Paths,
         to.linked => to.pc # "idle" /\ to.path \in Paths /\ files[to.path] # NoFile,
         to.pc = "tagged" /\ to.tag # NoFile /\ ~to.late /\ ~torn
           => to.linked /\ files[to.path] = to.tag
  PROVE  ArtifactsInv'
<1>1. UNCHANGED <<files, manifest, run, listing, stale, torn>>
  BY DEF flaws
<1>2. /\ download' \in [Downloads -> Download] /\ download'[d] = to
      /\ \A e \in Downloads \ {d} : download'[e] = download[e]
  BY DEF ArtifactsInv, ArtifactsTypeOK
<1>3. ArtifactsTypeOK' /\ (stale => torn)' /\ HashesTell'
  BY <1>1, <1>2 DEF ArtifactsInv, ArtifactsTypeOK, HashesTell
<1>4. Collects'
  BY <1>1 DEF ArtifactsInv, Collects, Unlisted, Collection, Alone, Started, EntriesTell,
               CopyUnderWay, Fresh, NoHashes
<1>5. LinkedThere'
  BY <1>1, <1>2 DEF ArtifactsInv, RequestsHold, LinkedThere
<1>6. TagTells'
  BY <1>1, <1>2 DEF ArtifactsInv, RequestsHold, TagTells, Served
<1>7. ListTells' /\ ListingsCross'
  BY <1>1 DEF ArtifactsInv, RequestsHold, ListTells, ListingsCross, NoHashes
<1> QED
  BY <1>3, <1>4, <1>5, <1>6, <1>7 DEF ArtifactsInv, RequestsHold

LEMMA OpenFileKeeps ==
  ASSUME ArtifactsInv, NEW d \in Downloads, NEW p \in Paths, OpenFile(d, p)
  PROVE  ArtifactsInv'
<1> DEFINE to == [IdleDownload EXCEPT !.pc = "opened", !.path = p, !.linked = TRUE]
<1>1. to \in Download /\ to.pc = "opened" /\ to.path = p /\ to.linked
  BY IdleTyped DEF Download
<1>2. /\ files[p] # NoFile /\ download' = [download EXCEPT ![d] = to]
      /\ UNCHANGED <<files, manifest, run, listing, flaws>>
  BY DEF OpenFile
<1> HIDE DEF to
<1> QED
  BY <1>1, <1>2, DownloadSteps

\* If the file is still linked, the manifest has no other hash for it.
LEMMA ReadTagKeeps ==
  ASSUME ArtifactsInv, NEW d \in Downloads, ReadTag(d)
  PROVE  ArtifactsInv'
<1> DEFINE was == download[d]
           to  == [was EXCEPT !.pc = "tagged", !.tag = manifest[was.path], !.late = ~was.linked]
<1>1. /\ was \in Download /\ was.pc = "opened" /\ was.path \in Paths
      /\ was.linked => files[was.path] # NoFile
  BY DEF ReadTag, ArtifactsInv, ArtifactsTypeOK, RequestsHold, LinkedThere
<1>2. manifest[was.path] \in Contents \cup {NoFile}
  BY <1>1 DEF ArtifactsInv, ArtifactsTypeOK, Hashes
<1>3. to \in Download
  BY <1>1, <1>2 DEF Download
<1>4. /\ to.pc = "tagged" /\ to.path = was.path /\ to.linked = was.linked
      /\ to.tag = manifest[was.path] /\ to.late = ~was.linked
  BY <1>1 DEF Download
<1>5. ~torn /\ manifest[was.path] # NoFile => files[was.path] \in {manifest[was.path], NoFile}
  BY <1>1 DEF ArtifactsInv, HashesTell
<1>6. /\ download' = [download EXCEPT ![d] = to]
      /\ UNCHANGED <<files, manifest, run, listing, flaws>>
  BY DEF ReadTag
<1> HIDE DEF to, was
<1> QED
  BY <1>1, <1>3, <1>4, <1>5, <1>6, DownloadSteps

LEMMA CloseFileKeeps ==
  ASSUME ArtifactsInv, NEW d \in Downloads, CloseFile(d)
  PROVE  ArtifactsInv'
<1>1. /\ download' = [download EXCEPT ![d] = IdleDownload]
      /\ UNCHANGED <<files, manifest, run, listing, flaws>>
  BY DEF CloseFile
<1> QED
  BY <1>1, IdleTyped, DownloadSteps

LEMMA ListingSteps ==
  ASSUME ArtifactsInv, NEW l \in Listings, NEW to \in Listing,
         listing' = [listing EXCEPT ![l] = to],
         UNCHANGED <<files, manifest, run, download, flaws>>,
         to.pc = "idle" \/ to.hashes = manifest
  PROVE  ArtifactsInv'
<1>1. UNCHANGED <<files, manifest, run, download, stale, torn>>
  BY DEF flaws
<1>2. /\ listing' \in [Listings -> Listing] /\ listing'[l] = to
      /\ \A k \in Listings \ {l} : listing'[k] = listing[k]
  BY DEF ArtifactsInv, ArtifactsTypeOK
<1>3. ArtifactsTypeOK' /\ (stale => torn)' /\ HashesTell'
  BY <1>1, <1>2 DEF ArtifactsInv, ArtifactsTypeOK, HashesTell
<1>4. Collects'
  BY <1>1 DEF ArtifactsInv, Collects, Unlisted, Collection, Alone, Started, EntriesTell,
               CopyUnderWay, Fresh, NoHashes
<1>5. LinkedThere' /\ TagTells'
  BY <1>1 DEF ArtifactsInv, RequestsHold, LinkedThere, TagTells, Served
<1>6. ListTells'
  BY <1>1, <1>2 DEF ArtifactsInv, HashesTell, RequestsHold, ListTells
<1>7. ListingsCross'
  BY <1>1, <1>2 DEF ArtifactsInv, Collects, Unlisted, RequestsHold, ListingsCross, NoHashes
<1> QED
  BY <1>3, <1>4, <1>5, <1>6, <1>7 DEF ArtifactsInv, RequestsHold

LEMMA ReadHashesKeeps ==
  ASSUME ArtifactsInv, NEW l \in Listings, ReadHashes(l) \/ Listed(l)
  PROVE  ArtifactsInv'
<1> DEFINE to == [pc |-> "walk", hashes |-> manifest, crossed |-> FALSE]
<1>1. to \in Listing /\ to.hashes = manifest
  BY DEF Listing, ArtifactsInv, ArtifactsTypeOK
<1> HIDE DEF to
<1>2. CASE ReadHashes(l)
  BY <1>1, <1>2, ListingSteps DEF ReadHashes, to
<1>3. CASE Listed(l)
  BY <1>3, IdleTyped, ListingSteps DEF Listed
<1> QED BY <1>2, <1>3

-------------------------------------------------------------------------------
(* The invariant                                                             *)

LEMMA NothingMoves ==
  ASSUME ArtifactsInv, UNCHANGED artifactVars
  PROVE  ArtifactsInv'
<1>1. UNCHANGED <<files, manifest, run, download, listing, stale, torn>>
  BY DEF artifactVars, flaws
<1>2. ArtifactsTypeOK' /\ (stale => torn)' /\ HashesTell'
  BY <1>1 DEF ArtifactsInv, ArtifactsTypeOK, HashesTell
<1>3. Collects'
  BY <1>1 DEF ArtifactsInv, Collects, Unlisted, Collection, Alone, Started, EntriesTell,
               CopyUnderWay, Fresh, NoHashes
<1>4. RequestsHold'
  BY <1>1 DEF ArtifactsInv, RequestsHold, LinkedThere, TagTells, ListTells, ListingsCross, Served, NoHashes
<1> QED
  BY <1>2, <1>3, <1>4 DEF ArtifactsInv

\* The invariant holds however collections, failures, crashes and requests follow
\* each other.
THEOREM ArtifactsHold ==
  ASSUME ArtifactsConstants
  PROVE  ArtifactsSpec => []ArtifactsInv
<1>1. ArtifactsInit => ArtifactsInv
  BY NoCollection
<1>2. ArtifactsInv /\ [ArtifactsNext]_artifactVars => ArtifactsInv'
  <2> SUFFICES ASSUME ArtifactsInv, [ArtifactsNext]_artifactVars PROVE ArtifactsInv'
    OBVIOUS
  <2>1. ASSUME NEW r \in Launches, LaunchStep(r) PROVE ArtifactsInv'
    BY <2>1, CollectKeeps, ResetKeeps, UnlistKeeps, CopyFailsKeeps, WriteManifestKeeps,
       CopyStartsKeeps, CopyEndsKeeps DEF LaunchStep
  <2>2. CASE Restart
    BY <2>2, CutShortKeeps
  <2>3. ASSUME NEW d \in Downloads, NEW p \in Paths, OpenFile(d, p) PROVE ArtifactsInv'
    BY <2>3, OpenFileKeeps
  <2>4. ASSUME NEW d \in Downloads, ReadTag(d) \/ CloseFile(d) PROVE ArtifactsInv'
    BY <2>4, ReadTagKeeps, CloseFileKeeps
  <2>5. ASSUME NEW l \in Listings, ReadHashes(l) \/ Listed(l) PROVE ArtifactsInv'
    BY <2>5, ReadHashesKeeps
  <2>6. CASE UNCHANGED artifactVars
    BY <2>6, NothingMoves
  <2> QED
    BY <2>1, <2>2, <2>3, <2>4, <2>5, <2>6 DEF ArtifactsNext
<1> QED
  BY <1>1, <1>2, PTL DEF ArtifactsSpec

\* A hash in the manifest is that of the file, whatever was cut short (collectArtifacts).
THEOREM ManifestTells ==
  ASSUME ArtifactsConstants
  PROVE  ArtifactsSpec => []HashesTell
<1>1. ArtifactsInv => HashesTell
  BY DEF ArtifactsInv
<1> QED BY <1>1, ArtifactsHold, PTL

\* A download serves the bytes its ETag is of (Open), and a listing gives each file
\* its own hash (List), but for requests that a new collection crosses.
THEOREM RequestsTell ==
  ASSUME ArtifactsConstants
  PROVE  ArtifactsSpec => [](TagTells /\ ListTells)
<1>1. ArtifactsInv => TagTells /\ ListTells
  BY DEF ArtifactsInv, RequestsHold
<1> QED BY <1>1, ArtifactsHold, PTL
===============================================================================
