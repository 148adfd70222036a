------------------------- MODULE ArtifactsProperties --------------------------
(***************************************************************************)
(* What the hashes of artifacts say of their bytes: "Each artifact carries *)
(* a hash object with the sha256 digest of its bytes ... Downloads send    *)
(* that digest as a strong ETag" (docs/guide/api.md).                      *)
(***************************************************************************)
EXTENDS Artifacts

\* What the constants have to be: no hash is NoFile or that of a file that is being written.
ArtifactsConstants == NoFile \notin Contents \cup Paths \cup {Part} /\ Part \notin Contents

\* Every variable holds a value of its type.
ArtifactsTypeOK ==
  /\ files \in [Paths -> Contents \cup {Part, NoFile}]
  /\ manifest \in Hashes /\ run \in [Launches -> Run]
  /\ download \in [Downloads -> Download] /\ listing \in [Listings -> Listing]
  /\ stale \in BOOLEAN /\ torn \in BOOLEAN

\* A hash in the manifest is that of the file of its path, if there is one, whether a
\* collection is under way, was cut short by a crash or has failed in part; unless the
\* manifest could not be removed when the files were, or one of two collections that
\* overlapped wrote it (of a step that was launched twice): that lasts until the next.
HashesTell ==
  ~stale => \A p \in Paths : manifest[p] # NoFile => files[p] \in {manifest[p], NoFile}

\* A download with an ETag serves the bytes the tag is of, to its end, though the
\* artifacts are collected anew or removed meanwhile; unless its file went between the
\* opening and the reading of the manifest (Open reads them in that order), or since
\* the process started a reset has failed or two collections overlapped.
TagTells ==
  \A d \in Downloads :
    download[d].pc = "tagged" /\ download[d].tag # NoFile /\ ~download[d].late /\ ~torn
      => Served(d) = download[d].tag

\* A listing gives a file the hash of its bytes, whenever it comes to it; unless the
\* artifacts were reset since it read the manifest, or a reset has failed or two
\* collections overlapped.
ListTells ==
  \A l \in Listings, p \in Paths :
    listing[l].pc = "walk" /\ listing[l].hashes[p] # NoFile /\ ~listing[l].crossed /\ ~torn
      => files[p] \in {listing[l].hashes[p], NoFile}
===============================================================================
