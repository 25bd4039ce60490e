--------------------------- MODULE MirrorerProofs ---------------------------
(***************************************************************************)
(* Proofs about Mirrorer, for every set of paths, .ckan files and zips and *)
(* every bound.                                                            *)
(***************************************************************************)
EXTENDS Mirrorer, WellFoundedInduction, TLAPS

\* The message at work is one of those left.
LEMMA CurrentIsLeft ==
  ASSUME todo \subseteq Nat, todo # {}
  PROVE  Current \in todo
<1>1. PICK R : /\ IsWellFoundedOn(R, Nat)
               /\ \A m, n \in Nat : n < m => <<n, m>> \in R
  <2>1. \A m, n \in Nat : n < m => <<n, m>> \in OpToRel(<, Nat)
    BY DEF OpToRel
  <2> QED
    BY <2>1, NatLessThanWellFounded
<1>2. PICK m \in todo : \A n \in todo : ~(<<n, m>> \in R)
  BY <1>1, WFMin
<1>3. \A n \in todo : m <= n
  <2> SUFFICES ASSUME NEW n \in todo PROVE ~(n < m)
    OBVIOUS
  <2> QED
    BY <1>1, <1>2
<1> QED
  BY <1>3 DEF Current, Earliest

\* What the message at work is.
LEMMA WorkFacts ==
  ASSUME TypeOK, todo # {}
  PROVE  /\ Current \in todo /\ Current \in Ids /\ Path \in Paths
         /\ Ckan \in Ckans \cup {Absent}
<1>1. todo \subseteq Ids /\ Ids \subseteq Nat
  BY DEF TypeOK, Ids
<1>2. Current \in todo
  BY <1>1, CurrentIsLeft
<1>3. sent \in Seq(Paths) /\ Current \in 1 .. Len(sent)
  BY <1>1, <1>2 DEF TypeOK, SqsTypeOK, Ids, Paths
<1>4. Path \in Paths
  BY <1>3 DEF Path
<1> QED
  BY <1>1, <1>2, <1>4 DEF TypeOK, Ckan

LEMMA WantedZip ==
  ASSUME TypeOK, todo # {}, Wanted(Path, Ckan)
  PROVE  Ckan \in Ckans /\ Zip \in Zips
BY WorkFacts, MirrorerAssumption DEF Wanted, Zip

-----------------------------------------------------------------------------
(* Types.                                                                  *)

LEMMA InitType == Init => TypeOK
BY DEF Init, TypeOK, SqsInit, SqsTypeOK, Paths, Ids, Stored, Files, Steps

LEMMA SendType ==
  ASSUME SqsTypeOK, NEW p \in Paths, SqsSend(p)
  PROVE  /\ SqsTypeOK' /\ Ids \subseteq Ids'
         /\ \A m \in Ids : sent'[m] = sent[m]
<1>1. sent \in Seq(Paths) /\ sent' = Append(sent, p) /\ UNCHANGED <<acked, hidden>>
  BY DEF SqsSend, SqsTypeOK, Paths
<1>2. /\ sent' \in Seq(Paths) /\ Ids \subseteq Ids'
      /\ \A m \in Ids : sent'[m] = sent[m]
  BY <1>1 DEF Ids
<1> QED
  BY <1>1, <1>2 DEF SqsTypeOK, Paths, Stored

LEMMA OthersType ==
  ASSUME TypeOK, NEW p \in Paths,
         \/ \E c \in Ckans : Publish(p, c)
         \/ Remove(p) \/ Forget(p) \/ CleanZip(p) \/ CleanSidecars(p)
         \/ \E z \in Zips : HostChanges(p, z)
         \/ \E hashed \in BOOLEAN : InflatorStores(p, hashed)
  PROVE  TypeOK'
<1>1. UNCHANGED <<sent, acked, hidden, archived, sources, work, lost>>
  BY DEF Publish, Remove, Forget, CleanZip, CleanSidecars, HostChanges, InflatorStores,
         sqsVars, store, work, history
<1>2. SqsTypeOK' /\ Ids' = Ids
  BY <1>1 DEF TypeOK, SqsTypeOK, Ids, Stored
<1>3. meta' \in [Paths -> Ckans \cup {Absent}] /\ pushed' \subseteq Paths /\ recent' \subseteq Paths
  BY DEF TypeOK, Publish, Remove, Forget, CleanZip, CleanSidecars, HostChanges, InflatorStores, others
<1>4. host' \in [Paths -> Zips] /\ cache' \in [Paths -> Files] /\ sidecars' \subseteq Paths
  BY DEF TypeOK, Publish, Remove, Forget, CleanZip, CleanSidecars, HostChanges, InflatorStores,
         others, store, Files
<1>5. faults' \in Nat /\ edits' \in Nat /\ swapped' \subseteq Paths /\ excused' \subseteq Paths
  BY DEF TypeOK, Publish, Remove, Forget, CleanZip, CleanSidecars, HostChanges, InflatorStores, history
<1> QED
  BY <1>1, <1>2, <1>3, <1>4, <1>5 DEF TypeOK, work

LEMMA HookType ==
  ASSUME TypeOK, NEW p \in Paths, Hook(p)
  PROVE  TypeOK'
<1>1. SqsTypeOK' /\ Ids \subseteq Ids'
  BY SendType DEF Hook, TypeOK, SqsTypeOK, sqsVars, Stored, Ids
<1> QED
  BY <1>1 DEF Hook, TypeOK, others, store, work

LEMMA QueueType ==
  ASSUME TypeOK, StepIsReached,
         \/ \E S \in SUBSET Stored : Receive(S)
         \/ Finish \/ Reappear \/ Crash \/ Overloaded
  PROVE  TypeOK'
<1>1. /\ sent' = sent /\ hidden' \subseteq Stored' /\ acked' \subseteq Ids'
      /\ todo' \subseteq Ids /\ toDelete' \subseteq Ids \ todo' /\ step' \in Steps
      /\ repo' \in {repo, meta} /\ aim' \in {aim, "upload"}
      /\ faults' \in Nat /\ edits' = edits /\ UNCHANGED <<others, store, history>>
  <2>1. CASE \E S \in SUBSET Stored : Receive(S)
    <3> PICK S \in SUBSET Stored : Receive(S)
      BY <2>1
    <3>1. toDelete' = {}
      BY DEF Receive, StepIsReached
    <3> QED
      BY <3>1 DEF Receive, SqsReceive, TypeOK, SqsTypeOK, Steps, Stored, Ids
  <2>2. CASE Finish
    BY <2>2 DEF Finish, SqsDelete, TypeOK, SqsTypeOK, Steps, Stored, Ids
  <2>3. CASE Reappear
    BY <2>3 DEF Reappear, SqsExpire, TypeOK, SqsTypeOK, Steps, Stored, Ids, Fault, work
  <2>4. CASE Crash
    BY <2>4 DEF Crash, sqsVars, TypeOK, SqsTypeOK, Steps, Stored, Ids, Fault
  <2>5. CASE Overloaded
    BY <2>5 DEF Overloaded, sqsVars, TypeOK, SqsTypeOK, Steps, Stored, Ids, Fault
  <2> QED
    BY <2>1, <2>2, <2>3, <2>4, <2>5
<1> QED
  BY <1>1 DEF TypeOK, SqsTypeOK, others, store, history, Ids, Stored

\* The steps of one message change the work and what is stored outside.
LEMMA DoneType ==
  ASSUME TypeOK, todo # {}, Done \/ NotDone
  PROVE  /\ todo' \subseteq Ids /\ toDelete' \subseteq Ids \ todo'
         /\ step' = "next" /\ repo' = repo /\ aim' = aim
BY WorkFacts DEF Done, NotDone, TypeOK

LEMMA HandleType ==
  ASSUME TypeOK, StepIsReached, Handle
  PROVE  TypeOK'
<1>1. CASE Finish
  BY <1>1, QueueType
<1>2. CASE Update \/ Begin \/ Look \/ OpenCached
  <2>1. /\ UNCHANGED <<sqsVars, others, store, todo, toDelete, history, faults, edits>>
        /\ step' \in Steps /\ aim' \in {"sha1", "upload"} /\ repo' \in {repo, meta}
    BY <1>2 DEF Update, Begin, Look, OpenCached, Opened, Steps, TypeOK
  <2> QED
    BY <2>1 DEF TypeOK, SqsTypeOK, sqsVars, others, store, history, Ids, Stored
<1>3. CASE PurgeCached \/ Download \/ Copied
  <2>1. Trying
    BY <1>3 DEF PurgeCached, Download, Copied, Trying
  <2>2. Path \in Paths /\ Zip \in Zips
    BY <2>1, WorkFacts, WantedZip DEF StepIsReached
  <2>3. /\ UNCHANGED <<sqsVars, others, archived, sources, repo, todo, toDelete, history, faults, edits>>
        /\ step' \in Steps /\ aim' \in {"sha1", "upload"}
        /\ sidecars' \subseteq Paths /\ cache' \in [Paths -> Files]
    BY <1>3, <2>2 DEF PurgeCached, Download, Copied, Opened, Steps, TypeOK, Files
  <2> QED
    BY <2>3 DEF TypeOK, SqsTypeOK, sqsVars, others, history, Ids, Stored
<1>4. CASE Skip \/ AlreadyMirrored \/ UploadFails
  <2>1. todo # {} /\ (Done \/ NotDone)
    BY <1>4 DEF Skip, AlreadyMirrored, ToMirror, Taking, UploadFails, StepIsReached, Trying
  <2>2. UNCHANGED <<sqsVars, others, store, history, edits>> /\ faults' \in Nat
    BY <1>4 DEF Skip, AlreadyMirrored, UploadFails, Fault, TypeOK
  <2> QED
    BY <2>1, <2>2, DoneType DEF TypeOK, SqsTypeOK, sqsVars, others, store, history, Ids, Stored, Steps
<1>5. CASE PurgeRaises \/ DownloadWrong
  <2>1. todo # {} /\ Vanished /\ Done
    BY <1>5 DEF PurgeRaises, DownloadWrong, StepIsReached, Trying, Vanished
  <2>2. /\ UNCHANGED <<sqsVars, others, sidecars, archived, sources, edits>> /\ faults' \in Nat
        /\ cache' \in [Paths -> Files]
    BY <1>5 DEF PurgeRaises, DownloadWrong, Fault, TypeOK, store, Files
  <2>3. lost' \subseteq Ids /\ excused' \subseteq Paths /\ swapped' = swapped
    BY <2>1, WorkFacts DEF Vanished, TypeOK
  <2> QED
    BY <2>1, <2>2, <2>3, DoneType DEF TypeOK, SqsTypeOK, sqsVars, others, Ids, Stored, Steps
<1>6. CASE Upload \/ ArchiveSource
  <2>1. todo # {} /\ Wanted(Path, Ckan)
    BY <1>6 DEF Upload, ArchiveSource, StepIsReached, Trying
  <2>2. /\ UNCHANGED <<sqsVars, others, cache, sidecars, history, faults, edits>>
        /\ \/ Done
           \/ step' = "source" /\ UNCHANGED <<repo, todo, toDelete, aim>>
    BY <1>6 DEF Upload, ArchiveSource
  <2>3. sources' \subseteq Paths /\ archived' \in [Paths -> SUBSET (Zips \X Files)]
    BY <1>6, <2>1, WorkFacts, WantedZip DEF Upload, ArchiveSource, TypeOK
  <2> QED
    BY <2>1, <2>2, <2>3, DoneType DEF TypeOK, SqsTypeOK, sqsVars, others, history, Ids, Stored, Steps
<1> QED
  BY <1>1, <1>2, <1>3, <1>4, <1>5, <1>6 DEF Handle

LEMMA NextType ==
  ASSUME TypeOK, StepIsReached, Next
  PROVE  TypeOK'
BY OthersType, HookType, QueueType, HandleType DEF Next

-----------------------------------------------------------------------------
(* Why a message may be deleted.                                           *)

\* What others do leaves what the process has found true.
LEMMA OthersInv ==
  ASSUME MirrorInv, UNCHANGED <<archived, lost, work>>,
         \A m \in Ids : sent'[m] = sent[m],
         swapped \subseteq swapped',
         step = "upload" => cache'[Path] \in {cache[Path], Absent} \/ Path \in swapped'
  PROVE  ArchivedIsChecked' /\ HandledOnly' /\ StepIsReached'
<1>1. ArchivedIsChecked'
  BY DEF MirrorInv, ArchivedIsChecked
<1>2. UNCHANGED <<repo, todo, toDelete, step, aim>> /\ toDelete \subseteq Ids
  BY DEF MirrorInv, TypeOK, work
<1>3. HandledOnly'
  <2> SUFFICES ASSUME NEW m \in toDelete PROVE Handled(m)'
    BY <1>2 DEF HandledOnly
  <2>1. sent'[m] = sent[m] /\ Handled(m)
    BY <1>2 DEF MirrorInv, HandledOnly
  <2> QED
    BY <1>2, <2>1 DEF Handled, Archived
<1>4. CASE todo = {}
  BY <1>1, <1>2, <1>3, <1>4 DEF MirrorInv, StepIsReached, Trying
<1>5. CASE todo # {}
  <2>1. Current' = Current /\ Current \in Ids
    BY <1>2, <1>5, WorkFacts DEF MirrorInv, Current
  <2>2. Path' = Path
    BY <2>1 DEF Path
  <2>3. Ckan' = Ckan /\ Zip' = Zip /\ Trying' = Trying
    BY <1>2, <2>2 DEF Ckan, Zip, Trying
  <2> QED
    BY <1>1, <1>2, <1>3, <2>2, <2>3 DEF MirrorInv, StepIsReached, Archived
<1> QED
  BY <1>1, <1>3, <1>4, <1>5

\* A message is done with: it was handled, and the others stay so.
LEMMA DoneInv ==
  ASSUME MirrorInv, NEW k, k = Current, Done, UNCHANGED sent,
         lost \subseteq lost',
         \A p \in Paths, z \in Zips : Archived(p, z) => Archived(p, z)',
         Handled(k)'
  PROVE  HandledOnly' /\ StepIsReached'
<1>1. /\ toDelete' = toDelete \cup {k} /\ step' = "next" /\ repo' = repo
      /\ toDelete \subseteq Ids
  BY DEF Done, MirrorInv, TypeOK
<1>2. ASSUME NEW m \in toDelete PROVE Handled(m)'
  <2>1. Handled(m) /\ sent[m] \in Paths /\ repo \in [Paths -> Ckans \cup {Absent}]
    BY <1>1 DEF MirrorInv, HandledOnly, TypeOK, SqsTypeOK, Ids, Paths
  <2>2. CASE ~Wanted(sent[m], repo[sent[m]])
    BY <1>1, <2>2 DEF Handled
  <2>3. CASE Wanted(sent[m], repo[sent[m]])
    <3>1. repo[sent[m]].zip \in Zips
      BY <2>1, <2>3, MirrorerAssumption DEF Wanted
    <3> QED
      BY <1>1, <2>1, <2>3, <3>1 DEF Handled
  <2> QED
    BY <2>2, <2>3
<1>3. HandledOnly'
  BY <1>1, <1>2 DEF HandledOnly
<1>4. StepIsReached'
  BY <1>1 DEF StepIsReached, Trying
<1> QED
  BY <1>3, <1>4

\* A step that does not end the work on a message, or ends it with False.
LEMMA MoveInv ==
  ASSUME MirrorInv, UNCHANGED <<sent, archived, sources, repo, toDelete, lost, swapped>>,
         step \notin {"poll", "update"}, step' \notin {"poll", "update"},
         Trying' => todo' = todo /\ Wanted(Path, Ckan) /\ todo # {},
         step' = "upload" => cache'[Path] = Zip,
         step' # "source"
  PROVE  ArchivedIsChecked' /\ HandledOnly' /\ StepIsReached'
<1>1. ArchivedIsChecked' /\ HandledOnly'
  BY DEF MirrorInv, ArchivedIsChecked, HandledOnly, Handled, Archived
<1>2. CASE Trying'
  <2>1. Path' = Path /\ Ckan' = Ckan /\ Zip' = Zip
    BY <1>2 DEF Path, Ckan, Zip, Current
  <2> QED
    BY <1>1, <1>2, <2>1 DEF StepIsReached
<1>3. CASE ~Trying'
  BY <1>1, <1>3 DEF StepIsReached, Trying
<1> QED
  BY <1>1, <1>2, <1>3

LEMMA HandleInv ==
  ASSUME MirrorInv, Handle
  PROVE  ArchivedIsChecked' /\ HandledOnly' /\ StepIsReached'
<1>. PICK k : k = Current
  OBVIOUS
<1>. sent[k] = Path /\ repo[Path] = Ckan /\ Ckan.zip = Zip
  BY DEF Path, Ckan, Zip
<1>1. CASE Update
  <2>1. /\ UNCHANGED <<sent, archived, todo, toDelete, lost, swapped>> /\ step' = "next" /\ toDelete = {}
    BY <1>1 DEF Update, sqsVars, store, history, MirrorInv, StepIsReached
  <2> QED
    BY <2>1 DEF MirrorInv, ArchivedIsChecked, HandledOnly, StepIsReached, Trying
<1>2. CASE Begin
  <2>1. /\ UNCHANGED <<sent, archived, sources, repo, toDelete, lost, swapped, todo>>
        /\ step = "next" /\ step' = "look" /\ todo # {} /\ Wanted(Path, Ckan)
    BY <1>2 DEF Begin, ToMirror, Taking, Wanted, sqsVars, store, history
  <2> QED
    BY <2>1, MoveInv
<1>3. CASE Look \/ OpenCached \/ PurgeCached \/ Download \/ Copied
  <2>1. /\ UNCHANGED <<sent, archived, sources, repo, toDelete, lost, swapped, todo>>
        /\ step \in {"look", "open", "download", "copy"}
        /\ step' \in {"look", "open", "download", "copy", "upload"}
    BY <1>3 DEF Look, OpenCached, PurgeCached, Download, Copied, Opened, sqsVars, store, history
  <2>2. todo # {} /\ Wanted(Path, Ckan)
    BY <2>1 DEF MirrorInv, StepIsReached, Trying
  <2>3. cache \in [Paths -> Files] /\ Path \in Paths
    BY <2>2, WorkFacts DEF MirrorInv, TypeOK
  <2>4. step' = "upload" => cache'[Path] = Zip
    BY <1>3, <2>3 DEF Look, OpenCached, PurgeCached, Download, Copied, Opened, store
  <2> QED
    BY <2>1, <2>2, <2>4, MoveInv
<1>4. CASE UploadFails
  <2>1. /\ UNCHANGED <<sent, archived, sources, repo, toDelete, lost, swapped>>
        /\ step \in {"upload", "source"} /\ step' = "next"
    BY <1>4 DEF UploadFails, NotDone, sqsVars, store, history
  <2> QED
    BY <2>1, MoveInv DEF Trying
<1>5. CASE Skip \/ AlreadyMirrored
  <2>1. todo # {} /\ Taking /\ Done /\ UNCHANGED <<sent, repo, archived, lost, swapped>>
    BY <1>5 DEF Done, Skip, AlreadyMirrored, ToMirror, Taking, sqsVars, store, history
  <2>2. Wanted(Path, Ckan) => Archived(Path, Zip)
    BY <1>5, <2>1, WorkFacts DEF Skip, AlreadyMirrored, Matches, Wanted, MirrorInv, TypeOK,
         ArchivedIsChecked, Archived
  <2>3. Handled(k)'
    BY <2>1, <2>2 DEF Handled, Archived
  <2>4. HandledOnly' /\ StepIsReached'
    BY <2>1, <2>3, DoneInv DEF Archived
  <2> QED
    BY <2>1, <2>4 DEF MirrorInv, ArchivedIsChecked
<1>6. CASE PurgeRaises \/ DownloadWrong
  <2>1. /\ Trying /\ Done /\ UNCHANGED <<sent, repo, archived, swapped>>
        /\ lost' = lost \cup {k}
    BY <1>6 DEF PurgeRaises, DownloadWrong, Vanished, Done, Trying, sqsVars, store
  <2>2. Handled(k)' /\ todo # {}
    BY <2>1 DEF Handled, MirrorInv, StepIsReached
  <2>3. HandledOnly' /\ StepIsReached'
    BY <2>1, <2>2, DoneInv DEF Archived
  <2> QED
    BY <2>1, <2>3 DEF MirrorInv, ArchivedIsChecked
<1>7. CASE ArchiveSource
  <2>1. Trying /\ step = "source" /\ Done /\ UNCHANGED <<sent, repo, archived, lost, swapped>>
    BY <1>7 DEF ArchiveSource, Done, Trying, sqsVars, history
  <2>2. Handled(k)' /\ todo # {}
    BY <2>1 DEF Handled, Archived, MirrorInv, StepIsReached
  <2>3. HandledOnly' /\ StepIsReached'
    BY <2>1, <2>2, DoneInv DEF Archived
  <2> QED
    BY <2>1, <2>3 DEF MirrorInv, ArchivedIsChecked
<1>8. CASE Upload
  <2>1. /\ Trying /\ step = "upload" /\ UNCHANGED <<sent, repo, lost, swapped>>
        /\ todo # {} /\ Wanted(Path, Ckan)
        /\ cache[Path] = Zip \/ Path \in swapped
    BY <1>8 DEF Upload, Done, Trying, MirrorInv, StepIsReached, sqsVars, history
  <2>2. /\ archived' = [archived EXCEPT ![Path] = {file \in @ : file[1] # Zip} \cup {<<Zip, cache[Path]>>}]
        /\ Path \in Paths /\ archived \in [Paths -> SUBSET (Zips \X Files)]
    BY <1>8, <2>1, WorkFacts DEF Upload, MirrorInv, TypeOK
  <2>3. ArchivedIsChecked'
    BY <2>1, <2>2 DEF MirrorInv, ArchivedIsChecked
  <2>4. \A p \in Paths, z \in Zips : Archived(p, z) => Archived(p, z)'
    BY <2>1, <2>2 DEF Archived
  <2>5. <<Zip, Zip>> \in archived'[Path] \/ Path \in swapped'
    BY <2>1, <2>2 DEF Archived
  <2>6. CASE Done
    <3>1. Handled(k)'
      BY <2>1, <2>2, <2>6 DEF Handled, Archived
    <3> QED
      BY <2>1, <2>3, <2>4, <2>6, <3>1, DoneInv
  <2>7. CASE step' = "source" /\ UNCHANGED <<repo, todo, toDelete, aim>>
    <3>1. Path' = Path /\ Ckan' = Ckan /\ Zip' = Zip
      BY <2>1, <2>7 DEF Path, Ckan, Zip, Current
    <3>2. StepIsReached'
      BY <2>1, <2>2, <2>7, <3>1 DEF StepIsReached, Trying, Archived
    <3>3. HandledOnly'
      <4> SUFFICES ASSUME NEW m \in toDelete PROVE Handled(m)'
        BY <2>7 DEF HandledOnly
      <4>1. Handled(m) /\ sent[m] \in Paths /\ repo \in [Paths -> Ckans \cup {Absent}]
        BY DEF MirrorInv, HandledOnly, TypeOK, SqsTypeOK, Ids, Paths
      <4>2. Wanted(sent[m], repo[sent[m]]) => repo[sent[m]].zip \in Zips
        BY <4>1, MirrorerAssumption DEF Wanted
      <4> QED
        BY <2>1, <2>4, <4>1, <4>2 DEF Handled
    <3> QED
      BY <2>3, <3>2, <3>3
  <2> QED
    BY <1>8, <2>6, <2>7 DEF Upload
<1>9. CASE Finish
  <2>1. UNCHANGED <<archived, swapped>> /\ toDelete' = {} /\ step' = "poll"
    BY <1>9 DEF Finish, store, history
  <2> QED
    BY <2>1 DEF MirrorInv, ArchivedIsChecked, HandledOnly, StepIsReached, Trying
<1> QED
  BY <1>1, <1>2, <1>3, <1>4, <1>5, <1>6, <1>7, <1>8, <1>9 DEF Handle

-----------------------------------------------------------------------------
(* What is not mirrored is still to come.                                  *)

Comes(p) ==
  \/ Archived(p, meta[p].zip) \/ p \in excused \cup pushed
  \/ \E m \in Stored : sent[m] = p /\ Pending(m)

\* It is, unless its file changes, when every message for it stays or is done.
LEMMA ComesStill ==
  ASSUME NEW p \in Paths, Comes(p), meta'[p] = meta[p],
         \A z : z = meta[p].zip /\ Archived(p, z) => Archived(p, z)',
         p \in excused \cup pushed => p \in excused' \cup pushed',
         \A m \in Stored : sent[m] = p /\ Pending(m) =>
           Comes(p)' \/ (m \in Stored' /\ sent'[m] = p /\ Pending(m)')
  PROVE  Comes(p)'
<1>1. CASE Archived(p, meta[p].zip)
  BY <1>1 DEF Comes, Archived
<1>2. CASE p \in excused \cup pushed
  BY <1>2 DEF Comes
<1>3. ASSUME NEW m \in Stored, sent[m] = p, Pending(m) PROVE Comes(p)'
  BY <1>3 DEF Comes
<1> QED
  BY <1>1, <1>2, <1>3 DEF Comes

\* No step that keeps the messages, the clone and the files as they are.
LEMMA ComesAnyway ==
  ASSUME NEW p \in Paths, Comes(p), meta'[p] = meta[p],
         UNCHANGED <<sqsVars, toDelete, repo>>,
         step' \in {"poll", "update"} \/ step \notin {"poll", "update"},
         \A z : z = meta[p].zip /\ Archived(p, z) => Archived(p, z)',
         p \in excused \cup pushed => p \in excused' \cup pushed'
  PROVE  Comes(p)'
<1>1. \A m \in Stored : sent[m] = p /\ Pending(m) => m \in Stored' /\ sent'[m] = p /\ Pending(m)'
  BY DEF sqsVars, Stored, Ids, Pending
<1> QED
  BY <1>1, ComesStill

\* The people and programs around the Mirrorer.
LEMMA ComesOthers ==
  ASSUME TypeOK, NoneForgotten, NEW q \in Paths,
         \/ \E c \in Ckans : Publish(q, c)
         \/ Remove(q) \/ Forget(q) \/ CleanZip(q) \/ CleanSidecars(q)
         \/ \E z \in Zips : HostChanges(q, z)
         \/ \E hashed \in BOOLEAN : InflatorStores(q, hashed)
  PROVE  NoneForgotten'
<1> SUFFICES ASSUME NEW p \in Paths, Wanted(p, meta'[p]) PROVE Comes(p)'
  BY DEF NoneForgotten, Comes
<1>1. /\ UNCHANGED <<sqsVars, toDelete, repo, step, archived>> /\ swapped \subseteq swapped'
  BY DEF Publish, Remove, Forget, CleanZip, CleanSidecars, HostChanges, InflatorStores, store, work, history
<1>2. \/ p \in pushed'
      \/ /\ meta'[p] = meta[p]
         /\ p \in excused \cup pushed => p \in excused' \cup pushed'
  BY DEF TypeOK, Wanted, Publish, Remove, Forget, CleanZip, CleanSidecars, HostChanges, InflatorStores,
         others, history
<1>3. CASE p \in pushed'
  BY <1>3 DEF Comes
<1>4. CASE meta'[p] = meta[p] /\ (p \in excused \cup pushed => p \in excused' \cup pushed')
  <2>1. Comes(p)
    BY <1>4 DEF NoneForgotten, Comes
  <2>2. \A z : Archived(p, z) => Archived(p, z)'
    BY <1>1 DEF Archived
  <2>3. \A m \in Stored : sent[m] = p /\ Pending(m) => m \in Stored' /\ sent'[m] = p /\ Pending(m)'
    BY <1>1, <1>4 DEF sqsVars, Stored, Ids, Pending
  <2> QED
    BY <1>4, <2>1, <2>2, <2>3, ComesStill
<1> QED
  BY <1>2, <1>3, <1>4

\* The webhook sends a message, or one that SQS has not forgotten is stored.
LEMMA ComesHook ==
  ASSUME TypeOK, NoneForgotten, NEW q \in Paths, Hook(q)
  PROVE  NoneForgotten'
<1> SUFFICES ASSUME NEW p \in Paths, Wanted(p, meta'[p]) PROVE Comes(p)'
  BY DEF NoneForgotten, Comes
<1>1. /\ UNCHANGED <<meta, store, work, swapped, acked, hidden>>
      /\ pushed' = pushed \ {q} /\ excused \subseteq excused'
  BY DEF Hook, others, sqsVars, SqsSend
<1>2. sent' = sent \/ SqsSend(q)
  BY DEF Hook, sqsVars
<1>3. /\ sent \in Seq(Paths) /\ acked \subseteq Ids /\ hidden \subseteq Stored
      /\ Ids \subseteq Ids' /\ \A m \in Ids : sent'[m] = sent[m]
  <2>1. SqsTypeOK
    BY DEF TypeOK
  <2>2. CASE sent' = sent
    BY <2>1, <2>2 DEF Ids, SqsTypeOK, Paths
  <2>3. CASE SqsSend(q)
    BY <2>1, <2>3, SendType DEF SqsTypeOK, Paths
  <2> QED
    BY <1>2, <2>2, <2>3
<1>4. ASSUME NEW m \in Stored, Pending(m) PROVE m \in Stored' /\ sent'[m] = sent[m] /\ Pending(m)'
  <2>1. m \in Stored' /\ sent'[m] = sent[m]
    BY <1>1, <1>3 DEF Stored
  <2> QED
    BY <1>1, <1>4, <2>1 DEF Pending, work
<1>5. CASE p # q
  <2>1. Comes(p)
    BY <1>1 DEF NoneForgotten, Comes
  <2>2. \A z : Archived(p, z) => Archived(p, z)'
    BY <1>1 DEF Archived, store
  <2>3. p \in excused \cup pushed => p \in excused' \cup pushed'
    BY <1>1, <1>5
  <2> QED
    BY <1>1, <1>4, <2>1, <2>2, <2>3, ComesStill
<1>6. CASE p = q /\ SqsSend(q)
  <2>1. sent' = Append(sent, p)
    BY <1>6 DEF SqsSend
  <2>2. /\ Len(sent) + 1 \in Ids' /\ sent'[Len(sent) + 1] = p /\ Len(sent) + 1 \notin Ids
    BY <1>3, <2>1 DEF Ids
  <2>3. Len(sent) + 1 \in Stored' /\ Len(sent) + 1 \notin hidden'
    BY <1>1, <1>3, <2>2 DEF Stored
  <2> QED
    BY <2>2, <2>3 DEF Comes, Pending
<1>7. CASE p = q /\ ~SqsSend(q)
  <2>1. excused' = IF Awaited(p) THEN excused ELSE excused \cup {p}
    BY <1>7 DEF Hook
  <2>2. CASE Awaited(p)
    <3>1. PICK m \in Stored : sent[m] = p /\ (m \in hidden => step = "update")
      BY <2>2 DEF Awaited
    <3>2. Pending(m)
      BY <3>1 DEF Pending
    <3> QED
      BY <1>4, <3>1, <3>2 DEF Comes
  <2>3. CASE ~Awaited(p)
    BY <2>1, <2>3 DEF Comes
  <2> QED
    BY <2>2, <2>3
<1> QED
  BY <1>5, <1>6, <1>7

\* A batch begins and ends.
LEMMA ComesQueue ==
  ASSUME TypeOK, StepIsReached, NoneForgotten,
         \/ \E S \in SUBSET Stored : Receive(S)
         \/ Finish \/ Reappear \/ Crash \/ Overloaded \/ Update
  PROVE  NoneForgotten'
<1> SUFFICES ASSUME NEW p \in Paths, Wanted(p, meta'[p]) PROVE Comes(p)'
  BY DEF NoneForgotten, Comes
<1>1. UNCHANGED <<meta, pushed, excused, archived, swapped, sent>>
  BY DEF Receive, Finish, Reappear, Crash, Overloaded, Update, others, store, history, sqsVars,
         SqsReceive, SqsDelete, SqsExpire
<1>2. Comes(p)
  BY <1>1 DEF NoneForgotten, Comes
<1>3. \A z : Archived(p, z) => Archived(p, z)'
  BY <1>1 DEF Archived
<1>4. ASSUME NEW m \in Stored, sent[m] = p, Pending(m)
      PROVE  m \in Stored' /\ sent'[m] = p /\ Pending(m)'
  <2>1. CASE \E S \in SUBSET Stored : Receive(S)
    BY <1>1, <1>4, <2>1 DEF Receive, SqsReceive, Stored, Ids, Pending
  <2>2. CASE Finish
    <3>1. m \notin toDelete \cap hidden
      BY <1>4, <2>2 DEF Finish, Pending
    <3> QED
      BY <1>1, <1>4, <2>2, <3>1 DEF Finish, SqsDelete, Stored, Ids, Pending
  <2>3. CASE Reappear
    BY <1>1, <1>4, <2>3 DEF Reappear, SqsExpire, Stored, Ids, Pending
  <2>4. CASE Crash
    BY <1>1, <1>4, <2>4 DEF Crash, sqsVars, Stored, Ids, Pending
  <2>5. CASE Overloaded
    BY <1>1, <1>4, <2>5 DEF Overloaded, Taking, sqsVars, Stored, Ids, Pending
  <2>6. CASE Update
    BY <1>1, <1>4, <2>6 DEF Update, StepIsReached, sqsVars, Stored, Ids, Pending
  <2> QED
    BY <2>1, <2>2, <2>3, <2>4, <2>5, <2>6
<1> QED
  BY <1>1, <1>2, <1>3, <1>4, ComesStill

\* A message that is done with was for a path that is excused or mirrored as the
\* clone has it.
LEMMA ComesDone ==
  ASSUME TypeOK, StepIsReached, NoneForgotten, NEW k, k = Current, todo # {}, Done,
         UNCHANGED <<sqsVars, meta, pushed>>, excused \subseteq excused',
         step \notin {"poll", "update"},
         \A p \in Paths, z \in Zips : Archived(p, z) => Archived(p, z)',
         NEW q, q = Path, NEW c, c = Ckan,
         Wanted(q, c) => Archived(q, c.zip)' \/ q \in excused'
  PROVE  NoneForgotten'
<1> SUFFICES ASSUME NEW p \in Paths, Wanted(p, meta'[p]) PROVE Comes(p)'
  BY DEF NoneForgotten, Comes
<1>1. Comes(p) /\ meta[p] \in Ckans /\ meta[p].zip \in Zips
  BY MirrorerAssumption DEF NoneForgotten, Comes, TypeOK, Wanted
<1>2. /\ q = sent[k] /\ c = repo[q] /\ repo' = repo /\ toDelete' = toDelete \cup {k} /\ step' = "next"
  BY DEF Path, Ckan, Done
<1>3. ASSUME NEW m \in Stored, sent[m] = p, Pending(m)
      PROVE  Comes(p)' \/ (m \in Stored' /\ sent'[m] = p /\ Pending(m)')
  <2>1. m \in Stored' /\ sent'[m] = p
    BY <1>3 DEF sqsVars, Stored, Ids
  <2>2. CASE m # k \/ m \notin hidden
    BY <1>2, <1>3, <2>1, <2>2 DEF Pending, sqsVars
  <2>3. CASE m = k /\ m \in hidden
    <3>1. q = p /\ c = meta[p]
      BY <1>2, <1>3, <2>3 DEF Pending
    <3>2. Wanted(q, c)
      BY <3>1
    <3> QED
      BY <3>1, <3>2 DEF Comes, Archived
  <2> QED
    BY <2>1, <2>2, <2>3
<1>4. \A z : z = meta[p].zip /\ Archived(p, z) => Archived(p, z)'
  BY <1>1
<1>5. p \in excused \cup pushed => p \in excused' \cup pushed'
  OBVIOUS
<1> QED
  BY <1>1, <1>3, <1>4, <1>5, ComesStill

LEMMA ComesHandle ==
  ASSUME TypeOK, ArchivedIsChecked, StepIsReached, NoneForgotten, Handle
  PROVE  NoneForgotten'
<1> PICK k : k = Current
  OBVIOUS
<1> PICK q : q = Path
  OBVIOUS
<1> PICK c : c = Ckan
  OBVIOUS
<1> c.zip = Zip /\ (todo # {} => k \in todo /\ q \in Paths)
  BY WorkFacts DEF Zip
<1>1. ASSUME UNCHANGED <<sqsVars, others, repo, toDelete, excused>>,
             step \notin {"poll", "update"},
             \A p \in Paths, z \in Zips : Archived(p, z) => Archived(p, z)'
      PROVE  NoneForgotten'
  <2> SUFFICES ASSUME NEW p \in Paths, Wanted(p, meta'[p]) PROVE Comes(p)'
    BY DEF NoneForgotten, Comes
  <2>1. Comes(p) /\ meta[p] \in Ckans /\ meta[p].zip \in Zips /\ meta' = meta /\ pushed' = pushed
    BY <1>1, MirrorerAssumption DEF NoneForgotten, Comes, TypeOK, Wanted, others
  <2> QED
    BY <1>1, <2>1, ComesAnyway
<1>2. CASE Update \/ Finish
  BY <1>2, ComesQueue
<1>3. CASE Begin \/ Look \/ OpenCached \/ PurgeCached \/ Download \/ Copied \/ UploadFails
  <2>1. /\ UNCHANGED <<sqsVars, others, repo, toDelete, excused, archived, swapped>>
        /\ step \notin {"poll", "update"}
    BY <1>3 DEF Begin, ToMirror, Taking, Look, OpenCached, PurgeCached, Download, Copied, Opened, UploadFails,
         NotDone, store, history
  <2> QED
    BY <1>1, <2>1 DEF Archived
<1>4. CASE Skip \/ AlreadyMirrored
  <2>1. /\ Taking /\ todo # {} /\ Done /\ UNCHANGED <<sqsVars, others, archived, swapped, excused>>
    BY <1>4 DEF Skip, AlreadyMirrored, ToMirror, Taking, store, history
  <2>2. Wanted(q, c) => Archived(q, c.zip)
    BY <1>4, <2>1 DEF Skip, AlreadyMirrored, Matches, Wanted, TypeOK, ArchivedIsChecked, Archived
  <2>3. Archived(q, c.zip) => Archived(q, c.zip)'
    BY <2>1 DEF Archived
  <2> QED
    BY <2>1, <2>2, <2>3, ComesDone DEF Archived, others, Taking
<1>5. CASE PurgeRaises \/ DownloadWrong
  <2>1. /\ Trying /\ step \notin {"poll", "update"} /\ Done
        /\ UNCHANGED <<sqsVars, others, archived, swapped>> /\ excused' = excused \cup {q}
    BY <1>5 DEF PurgeRaises, DownloadWrong, Vanished, Trying, store
  <2> QED
    BY <2>1, ComesDone DEF Archived, others, StepIsReached
<1>6. CASE ArchiveSource
  <2>1. /\ step = "source" /\ todo # {} /\ Done
        /\ UNCHANGED <<sqsVars, others, archived, swapped, excused>> /\ Archived(q, c.zip)
    BY <1>6 DEF ArchiveSource, StepIsReached, Trying, history
  <2>2. Archived(q, c.zip)'
    BY <2>1 DEF Archived
  <2> QED
    BY <2>1, <2>2, ComesDone DEF Archived, others
<1>7. CASE Upload
  <2>1. /\ step = "upload" /\ todo # {} /\ UNCHANGED <<sqsVars, others, swapped, excused>>
        /\ cache[q] = c.zip \/ q \in swapped
    BY <1>7 DEF Upload, StepIsReached, Trying, history
  <2>2. /\ archived' = [archived EXCEPT ![q] = {file \in @ : file[1] # c.zip} \cup {<<c.zip, cache[q]>>}]
        /\ archived \in [Paths -> SUBSET (Zips \X Files)]
    BY <1>7 DEF Upload, TypeOK
  <2>3. \A p \in Paths, z \in Zips : Archived(p, z) => Archived(p, z)'
    BY <2>1, <2>2 DEF Archived
  <2>4. <<c.zip, c.zip>> \in archived'[q] \/ q \in swapped'
    BY <2>1, <2>2
  <2>5. CASE Done
    BY <2>1, <2>3, <2>4, <2>5, ComesDone DEF Archived, others
  <2>6. CASE UNCHANGED <<repo, todo, toDelete, aim>>
    BY <1>1, <2>1, <2>3, <2>6
  <2> QED
    BY <1>7, <2>5, <2>6 DEF Upload
<1> QED
  BY <1>2, <1>3, <1>4, <1>5, <1>6, <1>7 DEF Handle

LEMMA ComesNext == TypeOK /\ ArchivedIsChecked /\ StepIsReached /\ NoneForgotten /\ [Next]_vars => NoneForgotten'
<1> SUFFICES ASSUME TypeOK, ArchivedIsChecked, StepIsReached, NoneForgotten, [Next]_vars PROVE NoneForgotten'
  OBVIOUS
<1>1. CASE UNCHANGED vars
  BY <1>1 DEF vars, sqsVars, others, store, work, history, NoneForgotten, Wanted, Archived, Pending, Stored, Ids
<1>2. CASE Next
  BY <1>2, ComesOthers, ComesHook, ComesQueue, ComesHandle DEF Next
<1> QED
  BY <1>1, <1>2

-----------------------------------------------------------------------------
(* The theorems.                                                           *)

LEMMA InitInv == Init => MirrorInv
<1> SUFFICES ASSUME Init PROVE MirrorInv
  OBVIOUS
<1>1. /\ archived = [p \in Paths |-> {}] /\ toDelete = {} /\ step = "poll"
  BY DEF Init
<1>2. NoneForgotten
  BY DEF Init, NoneForgotten, Wanted
<1> QED
  BY <1>1, <1>2, InitType DEF MirrorInv, ArchivedIsChecked, HandledOnly, StepIsReached, Trying

LEMMA NextInv ==
  ASSUME MirrorInv, [Next]_vars
  PROVE  MirrorInv'
<1>. NoneForgotten'
  BY ComesNext DEF MirrorInv
<1>1. CASE UNCHANGED vars
  BY <1>1 DEF vars, sqsVars, others, store, work, history, MirrorInv, TypeOK, SqsTypeOK, Ids,
       Stored, ArchivedIsChecked, HandledOnly, Handled, Wanted, Archived, StepIsReached, Trying,
       Path, Ckan, Zip, Current, Matches
<1>2. CASE Next
  <2>1. TypeOK'
    BY <1>2, NextType DEF MirrorInv
  <2>2. ASSUME NEW p \in Paths,
               \/ \E c \in Ckans : Publish(p, c)
               \/ Remove(p) \/ Hook(p) \/ Forget(p) \/ CleanZip(p) \/ CleanSidecars(p)
               \/ \E z \in Zips : HostChanges(p, z)
               \/ \E hashed \in BOOLEAN : InflatorStores(p, hashed)
        PROVE  ArchivedIsChecked' /\ HandledOnly' /\ StepIsReached'
    <3>1. UNCHANGED <<archived, lost, work>> /\ swapped \subseteq swapped'
      BY <2>2 DEF Publish, Remove, Hook, Forget, CleanZip, CleanSidecars, HostChanges,
           InflatorStores, store, history
    <3>2. \A m \in Ids : sent'[m] = sent[m]
      BY <2>2, SendType DEF Publish, Remove, Hook, Forget, CleanZip, CleanSidecars, HostChanges,
           InflatorStores, sqsVars, MirrorInv, TypeOK
    <3>3. cache \in [Paths -> Files]
      BY DEF MirrorInv, TypeOK
    <3>4. step = "upload" => Path \in Paths
      BY WorkFacts DEF MirrorInv, StepIsReached, Trying
    <3>5. step = "upload" => cache'[Path] \in {cache[Path], Absent} \/ Path \in swapped'
      BY <2>2, <3>3, <3>4 DEF Publish, Remove, Hook, Forget, CleanZip, CleanSidecars,
           HostChanges, InflatorStores, store
    <3> QED
      BY <3>1, <3>2, <3>5, OthersInv
  <2>3. CASE \E S \in SUBSET Stored : Receive(S)
    <3>1. UNCHANGED <<archived, swapped, toDelete>> /\ step = "poll" /\ step' = "update"
      BY <2>3 DEF Receive, store, history
    <3> QED
      BY <2>1, <3>1 DEF MirrorInv, ArchivedIsChecked, HandledOnly, StepIsReached, Trying
  <2>4. CASE Overloaded
    <3>1. /\ UNCHANGED <<sent, archived, sources, repo, toDelete, lost, swapped, step>>
          /\ step = "next"
      BY <2>4 DEF Overloaded, Taking, sqsVars, store, history
    <3> QED
      BY <2>1, <3>1, MoveInv DEF Trying, MirrorInv
  <2>5. CASE Handle
    BY <2>1, <2>5, HandleInv DEF MirrorInv
  <2>6. CASE Reappear
    <3>1. UNCHANGED <<sent, archived, cache, lost, swapped, work>>
      BY <2>6 DEF Reappear, SqsExpire, store, history
    <3> QED
      BY <2>1, <3>1, OthersInv DEF MirrorInv
  <2>7. CASE Crash
    <3>1. UNCHANGED <<archived, swapped>> /\ toDelete' = {} /\ step' = "poll"
      BY <2>7 DEF Crash, store, history
    <3> QED
      BY <2>1, <3>1 DEF MirrorInv, ArchivedIsChecked, HandledOnly, StepIsReached, Trying
  <2> QED
    BY <1>2, <2>1, <2>2, <2>3, <2>4, <2>5, <2>6, <2>7 DEF Next, MirrorInv
<1> QED
  BY <1>1, <1>2

\* The invariant of the Mirrorer (MirrorInv): each step of try_mirror finds what
\* the steps before it established, whatever the other users of the cache do.
THEOREM Invariance == Spec => []MirrorInv
BY InitInv, NextInv, PTL DEF Spec

\* Nothing is archived under the name of another zip (ArchivedIsChecked), but for
\* the race with the Inflator.
THEOREM Checked == Spec => []ArchivedIsChecked
<1>1. MirrorInv => ArchivedIsChecked
  BY DEF MirrorInv
<1> QED
  BY <1>1, Invariance, PTL

\* Once all is quiet every file that is to be mirrored is mirrored as it is on
\* GitHub then (QuietIsMirrored), through redeliveries, crashes, full queues and
\* duplicates, but for the two ways of losing one that the code has.
THEOREM QuietMirrored == Spec => []QuietIsMirrored
<1>1. MirrorInv => QuietIsMirrored
  BY DEF MirrorInv, NoneForgotten, QuietIsMirrored
<1> QED
  BY <1>1, Invariance, PTL

\* What is deleted from the queue was handled (DeletedIsHandled).
THEOREM DeletesHandled == Spec => DeletedIsHandled
<1>1. ASSUME MirrorInv, [Next]_vars
      PROVE  [\A m \in acked' \ acked :
                Wanted(sent[m], repo[sent[m]]) => Archived(sent[m], repo[sent[m]].zip) \/ m \in lost]_vars
  <2>1. ASSUME NEW m \in acked' \ acked PROVE m \in toDelete
    BY <1>1 DEF Next, vars, Publish, Remove, Hook, SqsSend, Forget, CleanZip, CleanSidecars,
         HostChanges, InflatorStores, Receive, SqsReceive, Overloaded, Handle, Update, Skip,
         AlreadyMirrored, Begin, Look, OpenCached, PurgeCached, PurgeRaises, Download, Copied,
         DownloadWrong, Upload, UploadFails, ArchiveSource, Finish, SqsDelete, Reappear, SqsExpire,
         Crash, sqsVars
  <2> QED
    BY <1>1, <2>1 DEF MirrorInv, HandledOnly, Handled
<1> QED
  BY <1>1, InitInv, NextInv, PTL DEF Spec, DeletedIsHandled
=============================================================================
