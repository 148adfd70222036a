------------------------------ MODULE Artifacts -------------------------------
(***************************************************************************)
(* The artifacts of one step of an execution: the files a run copies after *)
(* the step has succeeded (or carries over to a retry), the manifest of    *)
(* their hashes it writes at the end, and the requests that list and       *)
(* download them while it does so.  A row that is requeued after a crash   *)
(* collects into the same place again; and so does a step that is launched *)
(* twice, while its first collection may still be under way.               *)
(*                                                                         *)
(* A hash stands for the contents it was taken of.  A file is an inode: a  *)
(* download keeps what it has opened when the file is unlinked, and sees   *)
(* what is written to it when it is truncated.                             *)
(***************************************************************************)

CONSTANTS
  Launches,   \* launches of the step, each of which may collect
  Paths,      \* files the patterns of the step match
  Contents,   \* what they may hold
  Part,       \* a file that is being written, or was when the process died
  Downloads,  \* requests for one artifact
  Listings,   \* requests for all of them
  NoFile      \* no file, no hash

VARIABLES
  files,      \* the copies
  manifest,   \* the hash of each path, NoFile without an entry or a manifest
  run,        \* the collections under way
  download, listing,
  stale,      \* the manifest outlived a reset, or collections overlapped (auxiliary)
  torn        \* since the process started a reset has failed, or they did (auxiliary)

flaws == <<stale, torn>>
artifactVars == <<files, manifest, run, download, listing, flaws>>

Hashes  == [Paths -> Contents \cup {NoFile}]
NoHashes == [p \in Paths |-> NoFile]

\* todo: paths WalkDir has not come to; at: the one being copied; linked: whether what
\* it writes is still the file of that name; entries: the hashes so far; crossed:
\* another collection was under way since it began (auxiliary).
Run == [pc : {"idle", "reset", "unlist", "copy"}, todo : SUBSET Paths,
        at : Paths \cup {NoFile}, linked : BOOLEAN, entries : Hashes, crossed : BOOLEAN]

\* linked: whether what it has opened is still the file of that name; kept: what it
\* reads if not; tag: its ETag; late: unlinked before the manifest was read (auxiliary).
Download == [pc : {"idle", "opened", "tagged"}, path : Paths \cup {NoFile},
             linked : BOOLEAN, kept : Contents \cup {Part, NoFile},
             tag : Contents \cup {NoFile}, late : BOOLEAN]

\* crossed: the manifest was removed while it listed (auxiliary).
Listing == [pc : {"idle", "walk"}, hashes : Hashes, crossed : BOOLEAN]

IdleRun == [pc |-> "idle", todo |-> {}, at |-> NoFile, linked |-> FALSE,
            entries |-> NoHashes, crossed |-> FALSE]
IdleDownload == [pc |-> "idle", path |-> NoFile, linked |-> FALSE, kept |-> NoFile,
                 tag |-> NoFile, late |-> FALSE]
IdleListing == [pc |-> "idle", hashes |-> NoHashes, crossed |-> FALSE]

ArtifactsInit ==
  /\ files = [p \in Paths |-> NoFile] /\ manifest = NoHashes
  /\ run = [r \in Launches |-> IdleRun]
  /\ download = [d \in Downloads |-> IdleDownload]
  /\ listing = [l \in Listings |-> IdleListing]
  /\ stale = FALSE /\ torn = FALSE

\* What becomes of the downloads when the files of some paths are unlinked.
Unlinked(gone) ==
  download' = [d \in Downloads |->
    IF download[d].path \in gone /\ download[d].linked
    THEN [download[d] EXCEPT !.linked = FALSE, !.kept = files[download[d].path]]
    ELSE download[d]]

-------------------------------------------------------------------------------
(* collectArtifacts                                                          *)

\* r goes on, having unlinked the files of some paths: what another launch was
\* writing to there has no name any more.
Moves(r, to, gone) ==
  run' = [q \in Launches |->
    IF q = r THEN to ELSE [run[q] EXCEPT !.linked = @ /\ run[q].at \notin gone]]

\* A step without patterns never gets here.
Collect(r) ==
  /\ run[r].pc = "idle"
  /\ LET others == {q \in Launches \ {r} : run[q].pc # "idle"} IN
       /\ run' = [q \in Launches |->
            IF q = r THEN [IdleRun EXCEPT !.pc = "reset", !.todo = Paths,
                                          !.crossed = others # {}]
            ELSE [run[q] EXCEPT !.crossed = @ \/ q \in others]]
       /\ torn' = (torn \/ others # {})
  /\ UNCHANGED <<files, manifest, download, listing, stale>>

\* RemoveAll of the directory: all of the files, or some and a warning.
Reset(r) ==
  /\ run[r].pc = "reset"
  /\ \E gone \in SUBSET Paths :
       /\ files' = [p \in Paths |-> IF p \in gone THEN NoFile ELSE files[p]]
       /\ Unlinked(gone)
       /\ Moves(r, [run[r] EXCEPT !.pc = "unlist"], gone)
       /\ torn' = (torn \/ gone # Paths)
  /\ UNCHANGED <<manifest, listing, stale>>

\* Remove of the manifest; a failure leaves it, and is a warning.
Unlist(r) ==
  /\ run[r].pc = "unlist"
  /\ Moves(r, [run[r] EXCEPT !.pc = "copy"], {})
  /\ listing' = [l \in Listings |-> [listing[l] EXCEPT !.crossed = TRUE]]
  /\ \/ manifest' = NoHashes /\ stale' = FALSE /\ UNCHANGED torn
     \/ stale' = TRUE /\ torn' = TRUE /\ UNCHANGED manifest
  /\ UNCHANGED <<files, download>>

\* HashFile creates the copy, or truncates one that is there.
CopyStarts(r, p) ==
  /\ run[r].pc = "copy" /\ run[r].at = NoFile /\ p \in run[r].todo
  /\ Moves(r, [run[r] EXCEPT !.todo = @ \ {p}, !.at = p, !.linked = TRUE], {})
  /\ files' = [files EXCEPT ![p] = Part]
  /\ UNCHANGED <<manifest, download, listing, flaws>>

\* The bytes that were read are written and hashed, whatever steps that run beside
\* do to the source.  The file has them, if nobody else writes to it.
CopyEnds(r, c) ==
  /\ run[r].pc = "copy" /\ run[r].at # NoFile
  /\ LET p == run[r].at IN
       /\ \E b \in IF run[r].crossed THEN {c, Part} ELSE {c} :
            files' = IF run[r].linked THEN [files EXCEPT ![p] = b] ELSE files
       /\ Moves(r, [run[r] EXCEPT !.at = NoFile, !.entries = [run[r].entries EXCEPT ![p] = c]], {})
  /\ UNCHANGED <<manifest, download, listing, flaws>>

\* A copy that fails is removed, by its name, and has no entry.
CopyFails(r) ==
  /\ run[r].pc = "copy" /\ run[r].at # NoFile
  /\ \E gone \in {{}, {run[r].at}} :
       /\ files' = [p \in Paths |-> IF p \in gone THEN NoFile ELSE files[p]]
       /\ Unlinked(gone)
       /\ Moves(r, [run[r] EXCEPT !.at = NoFile], gone)
  /\ UNCHANGED <<manifest, listing, flaws>>

\* WriteManifest: a temporary file, renamed, or a warning.  Paths that did not match
\* or could not be read have no entry.
WriteManifest(r) ==
  /\ run[r].pc = "copy" /\ run[r].at = NoFile
  /\ Moves(r, IdleRun, {})
  /\ \/ manifest' = run[r].entries /\ stale' = run[r].crossed
     \/ UNCHANGED <<manifest, stale>>
  /\ UNCHANGED <<files, download, listing, torn>>

\* The process dies and is started again: the row runs again, the requests are gone.
Restart ==
  /\ run' = [r \in Launches |-> IdleRun]
  /\ download' = [d \in Downloads |-> IdleDownload]
  /\ listing' = [l \in Listings |-> IdleListing]
  /\ torn' = stale
  /\ UNCHANGED <<files, manifest, stale>>

-------------------------------------------------------------------------------
(* Requests                                                                  *)

\* Open: the file first, then its hash.
OpenFile(d, p) ==
  /\ download[d].pc = "idle" /\ files[p] # NoFile
  /\ download' = [download EXCEPT
       ![d] = [IdleDownload EXCEPT !.pc = "opened", !.path = p, !.linked = TRUE]]
  /\ UNCHANGED <<files, manifest, run, listing, flaws>>

ReadTag(d) ==
  /\ download[d].pc = "opened"
  /\ download' = [download EXCEPT
       ![d] = [download[d] EXCEPT !.pc = "tagged", !.tag = manifest[download[d].path],
                                  !.late = ~download[d].linked]]
  /\ UNCHANGED <<files, manifest, run, listing, flaws>>

\* What ServeContent reads, at any time until it is done.
Served(d) == IF download[d].linked THEN files[download[d].path] ELSE download[d].kept

CloseFile(d) ==
  /\ download[d].pc = "tagged"
  /\ download' = [download EXCEPT ![d] = IdleDownload]
  /\ UNCHANGED <<files, manifest, run, listing, flaws>>

\* List: the hashes first, then a walk over the files.
ReadHashes(l) ==
  /\ listing[l].pc = "idle"
  /\ listing' = [listing EXCEPT ![l] = [pc |-> "walk", hashes |-> manifest, crossed |-> FALSE]]
  /\ UNCHANGED <<files, manifest, run, download, flaws>>

Listed(l) ==
  /\ listing[l].pc = "walk"
  /\ listing' = [listing EXCEPT ![l] = IdleListing]
  /\ UNCHANGED <<files, manifest, run, download, flaws>>

LaunchStep(r) ==
  \/ Collect(r) \/ Reset(r) \/ Unlist(r) \/ CopyFails(r) \/ WriteManifest(r)
  \/ \E p \in Paths : CopyStarts(r, p)
  \/ \E c \in Contents : CopyEnds(r, c)

ArtifactsNext ==
  \/ \E r \in Launches : LaunchStep(r)
  \/ Restart
  \/ \E d \in Downloads, p \in Paths : OpenFile(d, p)
  \/ \E d \in Downloads : ReadTag(d) \/ CloseFile(d)
  \/ \E l \in Listings : ReadHashes(l) \/ Listed(l)

ArtifactsSpec == ArtifactsInit /\ [][ArtifactsNext]_artifactVars
===============================================================================
