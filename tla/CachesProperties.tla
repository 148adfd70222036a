--------------------------- MODULE CachesProperties ---------------------------
(***************************************************************************)
(* What the kept sizes may say of volumes that were deleted.               *)
(***************************************************************************)
EXTENDS Caches

\* What the constants have to be: sizes of volumes with something in them are
\* positive, and the two loops, the requests and the volumes are told apart.
CachesConstants ==
  /\ Size \subseteq Nat \ {0} /\ MaxSize \in Nat
  /\ ImagesVol # HubVol /\ Registry \cap ProjectVolumes = {}
  /\ Refresher # Collector /\ {Refresher, Collector} \cap Requests = {}
  /\ None \notin Threads \cup Volumes \cup Size \cup {0} \cup [Volumes -> Size \cup {0}]

\* Every variable holds a value of its type.
CachesTypeOK ==
  /\ disk \in [Volumes -> Size \cup {0, None}]
  /\ mounted \subseteq Registry
  /\ sizes \in [Volumes -> Size \cup {0}] \cup {None}
  /\ walker \in Threads \cup {None}
  /\ seen \in [Volumes -> Size \cup {0}] /\ todo \subseteq Volumes
  /\ thread \in [Threads -> Thread]
  /\ during \subseteq Volumes /\ ghosts \subseteq Volumes /\ unforgotten \subseteq Volumes

\* refreshMu lets one thread walk at a time, whoever else waits for it.
OneWalk == \A t \in Threads : thread[t].pc = "walk" <=> walker = t

Empty(v) == disk[v] \in {0, None}

\* Somebody has removed v and is on the way to forget its size.
Pending(v) == \E t \in Threads : v \in thread[t].gone

\* "A deletion shows up without waiting for the next refresh": the kept sizes give
\* a deleted volume nothing as soon as its size is forgotten, whatever walks, purges
\* and runs do meanwhile; except that a walk that was under way when it was deleted
\* brings it back until the next one, and that a purge that fails, or a deletion that
\* fails after the daemon has done it, forgets nothing.
RemovalShows ==
  sizes # None =>
    \A v \in Volumes : Empty(v) /\ sizes[v] # 0
                         => v \in ghosts \cup unforgotten \/ Pending(v)

\* A registry that is up has its volume, however purges and runs that bring it up
\* overlap: a volume in use is never removed.
MountedExists == \A v \in mounted : disk[v] # None
===============================================================================
