------------------------------ MODULE Mirrorer ------------------------------
(***************************************************************************)
(* The Mirrorer (netkan/mirrorer.py): it takes the paths of .ckan files    *)
(* from the Mirroring queue and uploads the mods they describe to the      *)
(* Internet Archive.  With it come the webhook that fills the queue        *)
(* (webhooks/github_mirror.py) and clean_cache, because the three share    *)
(* the metadata repository and the download cache with others.             *)
(*                                                                         *)
(* A message is the path it names.  A path stands for one version of one   *)
(* mod, hence for one item of the archive, one download URL and one entry  *)
(* of the cache.  A zip is its contents; a .ckan file has the sha256 of    *)
(* the zip it wants, which is modelled as that zip.                        *)
(***************************************************************************)
EXTENDS SqsFifo

CONSTANTS
  Ckans,      \* what a .ckan file can hold
  Zips,       \* what a download can hold
  Broken,     \* an error page, or a file cut short
  Absent,     \* no file
  MaxFaults,  \* bound on what goes wrong
  MaxEdits    \* bound on what others do to the host and the cache

Paths == Kinds

\* can_mirror: kind, content type and license allow it; sha1: the metadata has
\* a sha1 besides the sha256; source: it names a repository to archive too.
ASSUME MirrorerAssumption ==
  /\ Broken \notin Zips /\ Absent \notin Zips \cup {Broken} /\ Absent \notin Ckans
  /\ Ckans \subseteq [can_mirror : BOOLEAN, sha1 : BOOLEAN, source : BOOLEAN, zip : Zips]
  /\ MaxFaults \in Nat /\ MaxEdits \in Nat

VARIABLES
  meta,      \* the primary branch of CKAN-meta on GitHub
  pushed,    \* paths GitHub will tell the webhook about
  recent,    \* paths sent within the deduplication interval of SQS
  host,      \* what the download URL of a path serves
  cache,     \* the zip cached for a path, shared with Inflator and CleanCache
  sidecars,  \* paths whose cached zip has its .sha1 and .sha256 files
  archived,  \* the item of a path: <<zip its name stands for, its contents>>
  sources,   \* paths whose source is archived
  repo,      \* the clone of CKAN-meta
  todo,      \* the messages of the batch not looked at yet
  toDelete,  \* to_delete
  step,      \* where process_queue is
  aim,       \* what the download is for: its sha1, or the upload
  faults, edits,
  lost,      \* messages deleted as if their .ckan file were not there
  swapped,   \* paths whose cached zip changed between check and upload
  excused    \* paths whose last change will not be mirrored

others == <<meta, pushed, recent, host>>
store == <<cache, sidecars, archived, sources>>
work == <<repo, todo, toDelete, step, aim>>
history == <<lost, swapped, excused>>
vars == <<sqsVars, others, store, work, history, faults, edits>>

Files == Zips \cup {Broken, Absent}
Steps == {"poll", "update", "next", "look", "open", "download", "copy", "upload", "source"}

TypeOK ==
  /\ SqsTypeOK
  /\ meta \in [Paths -> Ckans \cup {Absent}] /\ repo \in [Paths -> Ckans \cup {Absent}]
  /\ pushed \subseteq Paths /\ recent \subseteq Paths
  /\ host \in [Paths -> Zips]
  /\ cache \in [Paths -> Files]
  /\ sidecars \subseteq Paths /\ sources \subseteq Paths
  /\ archived \in [Paths -> SUBSET (Zips \X Files)]
  /\ todo \subseteq Ids /\ toDelete \subseteq Ids \ todo
  /\ step \in Steps /\ aim \in {"sha1", "upload"}
  /\ faults \in Nat /\ edits \in Nat
  /\ lost \subseteq Ids /\ swapped \subseteq Paths /\ excused \subseteq Paths

Init ==
  /\ SqsInit
  /\ meta = [p \in Paths |-> Absent] /\ repo = meta
  /\ pushed = {} /\ recent = {}
  /\ host \in [Paths -> Zips]
  /\ cache = [p \in Paths |-> Absent]
  /\ sidecars = {} /\ sources = {}
  /\ archived = [p \in Paths |-> {}]
  /\ todo = {} /\ toDelete = {}
  /\ step = "poll" /\ aim = "upload"
  /\ faults = 0 /\ edits = 0
  /\ lost = {} /\ swapped = {} /\ excused = {}

\* Something goes wrong.
Fault == faults < MaxFaults /\ faults' = faults + 1

\* The message at work, its path, its .ckan file and the zip it wants.
Earliest(S) == CHOOSE m \in S : \A n \in S : m <= n
Current == Earliest(todo)
Path == sent[Current]
Ckan == repo[Path]
Zip == Ckan.zip

-----------------------------------------------------------------------------
(* Those who feed the queue.                                               *)

\* Someone, the Indexer for one, pushes a .ckan file to the primary branch.
Publish(p, c) ==
  /\ Len(sent) + Cardinality(pushed) < MaxSent
  /\ meta[p] # c
  /\ meta' = [meta EXCEPT ![p] = c]
  /\ pushed' = pushed \cup {p}
  /\ excused' = excused \ {p}
  /\ UNCHANGED <<sqsVars, recent, host, store, work, lost, swapped, faults, edits>>

\* A .ckan file is removed: paths_from_commits looks at added and modified
\* files only.
Remove(p) ==
  /\ edits < MaxEdits /\ edits' = edits + 1
  /\ meta[p] # Absent
  /\ meta' = [meta EXCEPT ![p] = Absent]
  /\ UNCHANGED <<sqsVars, pushed, recent, host, store, work, history, faults>>

\* A message for p that will be looked at with what is on GitHub now.
Awaited(p) == \E m \in Stored : sent[m] = p /\ (m \in hidden => step = "update")

\* mirror_hook sends the path, deduplicated by the path: SQS drops it when the
\* same path was sent a short time ago, processed by now or not.
Hook(p) ==
  /\ p \in pushed
  /\ pushed' = pushed \ {p}
  /\ \/ /\ p \notin recent
        /\ SqsSend(p)
        /\ recent' = recent \cup {p}
        /\ UNCHANGED excused
     \/ /\ p \in recent
        /\ excused' = IF Awaited(p) THEN excused ELSE excused \cup {p}
        /\ UNCHANGED <<sqsVars, recent>>
  /\ UNCHANGED <<meta, host, store, work, lost, swapped, faults, edits>>

\* The deduplication interval of p is over.
Forget(p) ==
  /\ recent' = recent \ {p}
  /\ p \in recent
  /\ UNCHANGED <<sqsVars, meta, pushed, host, store, work, history, faults, edits>>

-----------------------------------------------------------------------------
(* Those who share the cache.                                              *)

\* The author replaces the file behind the URL.
HostChanges(p, z) ==
  /\ edits < MaxEdits /\ edits' = edits + 1
  /\ host[p] # z
  /\ host' = [host EXCEPT ![p] = z]
  /\ UNCHANGED <<sqsVars, meta, pushed, recent, store, work, history, faults>>

\* The Inflator downloads the mod, and may have its hashes stored next to it.
InflatorStores(p, hashed) ==
  /\ edits < MaxEdits /\ edits' = edits + 1
  /\ cache[p] # host[p]
  /\ cache' = [cache EXCEPT ![p] = host[p]]
  /\ sidecars' = IF hashed THEN sidecars \cup {p} ELSE sidecars \ {p}
  /\ swapped' = IF step = "upload" /\ p = Path THEN swapped \cup {p} ELSE swapped
  /\ UNCHANGED <<sqsVars, others, archived, sources, work, lost, excused, faults>>

\* clean_cache unlinks old files one at a time, zips and hashes alike.
CleanZip(p) ==
  /\ edits < MaxEdits /\ edits' = edits + 1
  /\ cache[p] # Absent
  /\ cache' = [cache EXCEPT ![p] = Absent]
  /\ UNCHANGED <<sqsVars, others, sidecars, archived, sources, work, history, faults>>

CleanSidecars(p) ==
  /\ edits < MaxEdits /\ edits' = edits + 1
  /\ p \in sidecars
  /\ sidecars' = sidecars \ {p}
  /\ UNCHANGED <<sqsVars, others, cache, archived, sources, work, history, faults>>

-----------------------------------------------------------------------------
(* process_queue.                                                          *)

Receive(S) ==
  /\ step = "poll"
  /\ SqsReceive(S)
  /\ todo' = S
  /\ step' = "update"
  /\ UNCHANGED <<others, store, repo, toDelete, aim, history, faults, edits>>

\* checkout_primary and pull: the clone has no commits of its own.
Update ==
  /\ step = "update"
  /\ repo' = meta
  /\ step' = "next"
  /\ UNCHANGED <<sqsVars, others, store, todo, toDelete, aim, history, faults, edits>>

\* The next message, when the archive is not overloaded.
Taking == step = "next" /\ todo # {}

\* The archive is overloaded, or the question raises: leave the rest alone.
Overloaded ==
  /\ Taking
  /\ Fault
  /\ todo' = {}
  /\ UNCHANGED <<sqsVars, others, store, repo, toDelete, step, aim, history, edits>>

\* try_mirror returns True, or FileNotFoundError says there is nothing to do.
Done ==
  /\ todo' = todo \ {Current}
  /\ toDelete' = toDelete \cup {Current}
  /\ step' = "next"
  /\ UNCHANGED <<repo, aim>>

\* try_mirror returns False.
NotDone ==
  /\ todo' = todo \ {Current}
  /\ step' = "next"
  /\ UNCHANGED <<repo, toDelete, aim>>

\* FileNotFoundError although the .ckan file is there.
Vanished ==
  /\ Done
  /\ lost' = lost \cup {Current}
  /\ excused' = excused \cup {Path}
  /\ UNCHANGED swapped

\* Mutant: the item is enough, its files are not looked at.
Matches_Item == archived[Path] # {}

\* A file of the item has the contents the .ckan file wants.
Matches == \E file \in archived[Path] : file[2] = Zip

ItemExists == archived[Path] # {} \/ Path \in sources

\* The .ckan file is gone, or the mod is not to be mirrored.
Skip ==
  /\ Taking
  /\ Ckan = Absent \/ (Ckan # Absent /\ ~Ckan.can_mirror)
  /\ Done
  /\ UNCHANGED <<sqsVars, others, store, history, faults, edits>>

ToMirror == Taking /\ Ckan # Absent /\ Ckan.can_mirror

\* mirrored is true.
AlreadyMirrored ==
  /\ ToMirror
  /\ ItemExists /\ Ckan.sha1 /\ Matches
  /\ Done
  /\ UNCHANGED <<sqsVars, others, store, history, faults, edits>>

\* mirrored is false.  Without a sha1 in the metadata it is computed from the
\* download, in upper case, and compared with a lower-cased one: never equal
\* (a digest of 40 characters without a letter aside).
Begin ==
  /\ ToMirror
  /\ ~(ItemExists /\ Ckan.sha1 /\ Matches)
  /\ aim' = IF ItemExists /\ ~Ckan.sha1 THEN "sha1" ELSE "upload"
  /\ step' = "look"
  /\ UNCHANGED <<sqsVars, others, store, repo, todo, toDelete, history, faults, edits>>

-----------------------------------------------------------------------------
(* open_download.                                                          *)

\* The file is there: on to the second open_download, or to the upload.
Opened ==
  /\ step' = IF aim = "sha1" THEN "look" ELSE "upload"
  /\ aim' = "upload"
  /\ UNCHANGED <<repo, todo, toDelete>>

\* cache_find_file.
Look ==
  /\ step = "look"
  /\ step' = IF cache[Path] = Absent THEN "download" ELSE "open"
  /\ UNCHANGED <<sqsVars, others, store, repo, todo, toDelete, aim, history, faults, edits>>

\* Mutant: the file in the cache is taken as it is.
OpenCached_Unchecked ==
  /\ step = "open" /\ cache[Path] # Absent
  /\ Opened
  /\ UNCHANGED <<sqsVars, others, store, history, faults, edits>>

\* open_if_hash_match finds the file that was looked up, and it is right.
OpenCached ==
  /\ step = "open" /\ cache[Path] = Zip
  /\ Opened
  /\ UNCHANGED <<sqsVars, others, store, history, faults, edits>>

\* It is wrong: it is purged, with the two files next to it if they are there.
PurgeCached ==
  /\ step = "open" /\ cache[Path] \notin {Absent, Zip}
  /\ Path \in sidecars
  /\ cache' = [cache EXCEPT ![Path] = Absent]
  /\ sidecars' = sidecars \ {Path}
  /\ step' = "download"
  /\ UNCHANGED <<sqsVars, others, archived, sources, repo, todo, toDelete, aim, history, faults, edits>>

\* unlink of a file that is not there raises; so does open, when CleanCache
\* was faster.
PurgeRaises ==
  /\ step = "open" /\ cache[Path] # Zip
  /\ cache[Path] # Absent => Path \notin sidecars
  /\ cache' = [cache EXCEPT ![Path] = Absent]
  /\ Vanished
  /\ UNCHANGED <<sqsVars, others, sidecars, archived, sources, faults, edits>>

\* The download is right; shutil.copyfile begins.
Download ==
  /\ step = "download" /\ host[Path] = Zip
  /\ cache' = [cache EXCEPT ![Path] = Broken]
  /\ step' = "copy"
  /\ UNCHANGED <<sqsVars, others, sidecars, archived, sources, repo, todo, toDelete, aim, history, faults, edits>>

Copied ==
  /\ step = "copy"
  /\ cache' = [cache EXCEPT ![Path] = Zip]
  /\ Opened
  /\ UNCHANGED <<sqsVars, others, sidecars, archived, sources, history, faults, edits>>

\* The download is wrong, or is an error page (nobody looks at the status):
\* the temporary file is unlinked, and then a .sha1 file it never has.
DownloadWrong ==
  /\ step = "download"
  /\ \/ host[Path] # Zip /\ UNCHANGED faults
     \/ host[Path] = Zip /\ Fault
  /\ Vanished
  /\ UNCHANGED <<sqsVars, others, store, edits>>

-----------------------------------------------------------------------------
(* The uploads.                                                            *)

\* Mutant: a failed upload counts as done.
UploadFails_Done ==
  /\ step \in {"upload", "source"}
  /\ Fault /\ Done
  /\ UNCHANGED <<sqsVars, others, store, history, edits>>

\* Any exception of the uploads ends in False; what is uploaded stays.
UploadFails ==
  /\ step \in {"upload", "source"}
  /\ \/ Fault
     \/ step = "upload" /\ cache[Path] = Absent /\ UNCHANGED faults
  /\ NotDone
  /\ UNCHANGED <<sqsVars, others, store, history, edits>>

\* The file is uploaded by its name, so as it is in the cache now, under a
\* name made from the hash in the metadata; one of the same name is replaced.
Upload ==
  /\ step = "upload" /\ cache[Path] # Absent
  /\ archived' = [archived EXCEPT ![Path] = {file \in @ : file[1] # Zip} \cup {<<Zip, cache[Path]>>}]
  /\ IF Ckan.source
     THEN step' = "source" /\ UNCHANGED <<repo, todo, toDelete, aim>>
     ELSE Done
  /\ UNCHANGED <<sqsVars, others, cache, sidecars, sources, history, faults, edits>>

ArchiveSource ==
  /\ step = "source"
  /\ sources' = sources \cup {Path}
  /\ Done
  /\ UNCHANGED <<sqsVars, others, cache, sidecars, archived, history, faults, edits>>

-----------------------------------------------------------------------------
(* The end of a batch, and of the process.                                 *)

\* Mutant: the whole batch is deleted.
Finish_WholeBatch ==
  /\ step = "next" /\ todo = {}
  /\ SqsDelete(hidden)
  /\ toDelete' = {} /\ step' = "poll"
  /\ UNCHANGED <<others, store, repo, todo, aim, history, faults, edits>>

\* Mutant: nothing is deleted.
Finish_DeletesNone ==
  /\ step = "next" /\ todo = {}
  /\ toDelete' = {} /\ step' = "poll"
  /\ UNCHANGED <<sqsVars, others, store, repo, todo, aim, history, faults, edits>>

Finish ==
  /\ step = "next" /\ todo = {}
  /\ SqsDelete(toDelete)
  /\ toDelete' = {} /\ step' = "poll"
  /\ UNCHANGED <<others, store, repo, todo, aim, history, faults, edits>>

\* The messages become visible again, while nothing runs or during a batch.
Reappear ==
  /\ SqsExpire
  /\ \/ step = "poll" /\ UNCHANGED faults
     \/ step # "poll" /\ Fault
  /\ UNCHANGED <<others, store, work, history, edits>>

\* Whatever is not caught (the pull, the archive, the download) ends the
\* process, and so does a crash; the cache is on a volume of the host.
Crash ==
  /\ step # "poll"
  /\ Fault
  /\ todo' = {} /\ toDelete' = {}
  /\ step' = "poll" /\ aim' = "upload"
  /\ repo' = meta
  /\ UNCHANGED <<sqsVars, others, store, history, edits>>

Handle ==
  \/ Update
  \/ Skip \/ AlreadyMirrored \/ Begin
  \/ Look \/ OpenCached \/ PurgeCached \/ PurgeRaises
  \/ Download \/ Copied \/ DownloadWrong
  \/ Upload \/ UploadFails \/ ArchiveSource
  \/ Finish

Next ==
  \/ \E p \in Paths, c \in Ckans : Publish(p, c)
  \/ \E p \in Paths : Remove(p) \/ Hook(p) \/ Forget(p) \/ CleanZip(p) \/ CleanSidecars(p)
  \/ \E p \in Paths, z \in Zips : HostChanges(p, z)
  \/ \E p \in Paths, hashed \in BOOLEAN : InflatorStores(p, hashed)
  \/ \E S \in SUBSET Stored : Receive(S)
  \/ Overloaded
  \/ Handle
  \/ Reappear
  \/ Crash

Spec == Init /\ [][Next]_vars

\* The process takes its next step while it lives, the webhook answers GitHub,
\* and the visibility timeout passes.
Fairness ==
  /\ WF_vars(\E S \in SUBSET Stored : Receive(S))
  /\ WF_vars(Handle)
  /\ WF_vars(Reappear)
  /\ \A p \in Paths : WF_vars(Hook(p))

FairSpec == Spec /\ Fairness

-----------------------------------------------------------------------------
(* Properties.                                                             *)

Wanted(p, c) == c # Absent /\ c.can_mirror

\* Zip c wants is archived for p under its own name, or something else is,
\* because it came into the cache after the check.
Archived(p, z) == <<z, z>> \in archived[p] \/ p \in swapped

\* What is archived under the name of a zip is that zip, whatever the host
\* served, the cache held and crashes left in it: only a file that the Inflator
\* put into the cache between the check and the upload goes unseen.
ArchivedIsChecked ==
  \A p \in Paths : \A file \in archived[p] : file[1] = file[2] \/ p \in swapped

\* Once the queue is empty and the webhook has nothing left to send, every
\* .ckan file on GitHub that is to be mirrored is mirrored as it is now, except
\* for the two ways of losing one that the code has: FileNotFoundError, and a
\* second change that SQS takes for a duplicate of a message processed already.
QuietIsMirrored ==
  (step = "poll" /\ Stored = {} /\ pushed = {}) =>
    \A p \in Paths : Wanted(p, meta[p]) => Archived(p, meta[p].zip) \/ p \in excused

\* A message the process did not get to, or whose upload failed, is not deleted:
\* each deleted one was for a file that was gone or not to be mirrored, or is
\* mirrored as the clone had it, or was lost to FileNotFoundError.
DeletedIsHandled ==
  [][\A m \in acked' \ acked :
       Wanted(sent[m], repo[sent[m]]) => Archived(sent[m], repo[sent[m]].zip) \/ m \in lost]_vars

\* Every message is deleted in the end.
AllIsDeleted == \A m \in 1 .. MaxSent : m \in Ids ~> m \in acked

\* A message whose download does not match its hash is kept, to be tried again:
\* open_if_hash_match purges the file and returns None.
MismatchIsKept == [][(step \in {"open", "download"}) => toDelete' \subseteq toDelete]_vars

-----------------------------------------------------------------------------
(* The inductive invariant behind the safety properties.                   *)

\* Why message m may be deleted.
Handled(m) ==
  Wanted(sent[m], repo[sent[m]]) => Archived(sent[m], repo[sent[m]].zip) \/ m \in lost

HandledOnly == \A m \in toDelete : Handled(m)

Trying == step \in {"look", "open", "download", "copy", "upload", "source"}

\* What holds between the steps of one message, and of one batch.
StepIsReached ==
  /\ Trying => todo # {} /\ Wanted(Path, Ckan)
  /\ step = "upload" => cache[Path] \in {Zip, Absent} \/ Path \in swapped
  /\ step = "source" => Archived(Path, Zip)
  /\ step \in {"poll", "update"} => toDelete = {}

\* Message m is not deleted before its path was looked at as it is on GitHub now.
Pending(m) ==
  m \in hidden /\ step \notin {"poll", "update"} => m \notin toDelete /\ repo[sent[m]] = meta[sent[m]]

\* QuietIsMirrored, before all is quiet: what is not mirrored is still to come.
NoneForgotten ==
  \A p \in Paths : Wanted(p, meta[p]) =>
    \/ Archived(p, meta[p].zip) \/ p \in excused \cup pushed
    \/ \E m \in Stored : sent[m] = p /\ Pending(m)

MirrorInv == TypeOK /\ ArchivedIsChecked /\ HandledOnly /\ StepIsReached /\ NoneForgotten
=============================================================================
