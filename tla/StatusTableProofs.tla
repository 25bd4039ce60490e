-------------------------- MODULE StatusTableProofs --------------------------
(***************************************************************************)
(* Proofs about the status table and the Auto-Freezer, for every set of    *)
(* mods and release dates and every value of the bounds.                   *)
(***************************************************************************)
EXTENDS StatusTableInv, XkanRepoProofs

-----------------------------------------------------------------------------
(* The branches and the rows.                                              *)

LEMMA BranchFacts ==
  /\ Nk \in Repos /\ Repos = {Nk} /\ Nk \in Branches
  /\ FreezeAuto \in Topics /\ Topics = {FreezeAuto} /\ FreezeAuto \in Branches
  /\ Nk # FreezeAuto /\ Home[FreezeAuto] = Nk
  /\ Branches = {Nk, FreezeAuto}
BY StatusAssumption, RepoAssumption DEF Branches

LEMMA RowFacts ==
  /\ NoRow \notin Rows /\ NewRow \in Rows /\ NewRow.release = NoDate
  /\ \A row \in Rows :
       /\ row.release \in Dates \cup {NoDate}
       /\ [row EXCEPT !.indexed = TRUE] \in Rows
       /\ [row EXCEPT !.indexed = TRUE].release = row.release
       /\ [row EXCEPT !.frozen = TRUE] \in Rows
       /\ [row EXCEPT !.frozen = TRUE].release = row.release
       /\ [row EXCEPT !.frozen = TRUE].indexed = row.indexed
BY StatusAssumption DEF Rows, NewRow

LEMMA UpdatedFacts ==
  ASSUME NEW row \in Rows, NEW date \in Dates \cup {NoDate}, NEW commit \in BOOLEAN
  PROVE  /\ Updated(row, date, commit) \in Rows
         /\ Updated(row, date, commit).release = IF date # NoDate THEN date ELSE row.release
         /\ row.indexed => Updated(row, date, commit).indexed
BY DEF Updated, Rows

\* What is read of the table is to be put back with the date it had.
LEMMA ReadFacts ==
  ASSUME Shape, NEW S \in SUBSET Files, RecoverReads(S) \/ MarkReads(S)
  PROVE  /\ unread' \in [Writers -> SUBSET Files]
         /\ puts \subseteq puts'
         /\ \A u \in puts' \ puts :
              /\ u \in Writers \X Files \X Rows
              /\ table[u[2]] # NoRow /\ u[3].release = table[u[2]].release
              /\ u[1] = "freezer" => fz = "mark" /\ local[Nk][u[2]] = Frozen
<1>0. table \in [Files -> Rows \cup {NoRow}] /\ unread \in [Writers -> SUBSET Files]
  BY DEF Shape, TypeOK
<1>1. CASE RecoverReads(S)
  <2>1. PICK known \in SUBSET S :
          /\ unread' = [unread EXCEPT !["recover"] = @ \ S]
          /\ puts' = puts \cup {<<"recover", m, [table[m] EXCEPT !.indexed = TRUE]>> :
                                 m \in S \cap {n \in known : table[n] # NoRow /\ ~table[n].indexed}}
    BY <1>1 DEF RecoverReads, Read
  <2>2. unread' \in [Writers -> SUBSET Files]
    BY <1>0, <2>1
  <2>3. ASSUME NEW u \in puts' \ puts
        PROVE  /\ u \in Writers \X Files \X Rows /\ u[1] = "recover"
               /\ table[u[2]] # NoRow /\ u[3].release = table[u[2]].release
    <3>1. PICK m \in Files : u = <<"recover", m, [table[m] EXCEPT !.indexed = TRUE]>> /\ table[m] # NoRow
      BY <2>1, <2>3
    <3>2. table[m] \in Rows
      BY <1>0, <3>1
    <3> QED
      BY <3>1, <3>2, RowFacts DEF Writers
  <2> QED
    BY <2>1, <2>2, <2>3
<1>2. CASE MarkReads(S)
  <2>1. /\ fz = "mark"
        /\ unread' = [unread EXCEPT !["freezer"] = @ \ S]
        /\ puts' = puts \cup {<<"freezer", m, [table[m] EXCEPT !.frozen = TRUE]>> : m \in S \cap ToMark}
    BY <1>2 DEF MarkReads, Read
  <2>2. unread' \in [Writers -> SUBSET Files]
    BY <1>0, <2>1
  <2>3. ASSUME NEW u \in puts' \ puts
        PROVE  /\ u \in Writers \X Files \X Rows /\ local[Nk][u[2]] = Frozen
               /\ table[u[2]] # NoRow /\ u[3].release = table[u[2]].release
    <3>1. PICK m \in Files : /\ u = <<"freezer", m, [table[m] EXCEPT !.frozen = TRUE]>>
                             /\ table[m] # NoRow /\ local[Nk][m] = Frozen
      BY <2>1, <2>3 DEF ToMark
    <3>2. table[m] \in Rows
      BY <1>0, <3>1
    <3> QED
      BY <3>1, <3>2, RowFacts DEF Writers
  <2> QED
    BY <2>1, <2>2, <2>3
<1> QED
  BY <1>1, <1>2

-----------------------------------------------------------------------------
(* Shape: types, clone, branches.                                          *)

\* Everything but the repository keeps its type.
Typed ==
  /\ world \in [Files -> Dates \cup {NoDate}]
  /\ queue \in Seq([mod : Files, release : Dates \cup {NoDate}])
  /\ got \in [mod : Files, exists : BOOLEAN] \cup {Off}
  /\ table \in [Files -> Rows \cup {NoRow}]
  /\ dump \in [Files -> Rows \cup {NoRow}]
  /\ hooked \subseteq Files
  /\ marking \in Files \cup {Off}
  /\ fz \in {"off", "find", "merge", "publish", "propose", "mark"}
  /\ unread \in [Writers -> SUBSET Files]
  /\ puts \subseteq Writers \X Files \X Rows
  /\ prs \in BOOLEAN
  /\ idled \subseteq Files
  /\ faults \in 0 .. MaxFaults

\* The first of the results on their way.
LEMMA HeadFacts ==
  ASSUME NEW R, NEW s \in Seq(R), s # <<>>
  PROVE  /\ 1 \in DOMAIN s /\ Head(s) = s[1] /\ Head(s) \in R /\ Tail(s) \in Seq(R)
         /\ \A i \in DOMAIN Tail(s) : i + 1 \in DOMAIN s /\ i + 1 # 1 /\ Tail(s)[i] = s[i + 1]
OBVIOUS

\* What the Inflators send back.
Results == [mod : Files, release : Dates \cup {NoDate}]

LEMMA ResultFacts ==
  ASSUME NEW s \in Seq(Results), NEW i \in DOMAIN s
  PROVE  s[i].mod \in Files /\ s[i].release \in Dates \cup {NoDate}
<1>1. s[i] \in Results
  OBVIOUS
<1> QED
  BY <1>1 DEF Results

LEMMA AppendFacts ==
  ASSUME NEW R, NEW s \in Seq(R), NEW e \in R
  PROVE  \A i \in DOMAIN Append(s, e) :
           \/ i \in DOMAIN s /\ Append(s, e)[i] = s[i]
           \/ i \notin DOMAIN s /\ i = Len(s) + 1 /\ Append(s, e)[i] = e
OBVIOUS

LEMMA TypedMeans == TypeOK <=> RepoTypeOK /\ Typed
BY DEF TypeOK, Typed

LEMMA ShapeInit == Init => Shape
<1> SUFFICES ASSUME Init PROVE Shape
  OBVIOUS
<1>0. PICK tree \in [Files -> Contents] :
        /\ remote = [b \in Branches |-> IF b = Nk THEN tree ELSE NoTree]
        /\ shown = [b \in Branches |-> IF b = Nk THEN PairsOf(tree) ELSE {}]
  BY DEF Init
<1>1. tree \in Trees /\ tree # NoTree /\ PairsOf(tree) \subseteq Pairs
  BY RepoAssumption, PairsOfTyped DEF Trees
<1>2. RepoTypeOK
  BY <1>0, <1>1 DEF Init, RepoTypeOK, Branches
<1>3. world \in [Files -> Dates \cup {NoDate}]
  BY StatusAssumption DEF Init
<1>4. TypeOK
  <2>1. 0 \in 0 .. MaxFaults
    BY StatusAssumption
  <2>2. queue \in Seq([mod : Files, release : Dates \cup {NoDate}])
    BY DEF Init
  <2>3. Typed
    BY <1>3, <2>1, <2>2 DEF Init, Typed
  <2> QED
    BY <1>2, <2>3, TypedMeans
<1>5. RepoInv
  BY <1>0, <1>1, BranchFacts
  DEF Init, RepoInv, RemoteShown, LocalShown, BaseIsRemote, PrimaryExists, Cloned
<1>6. Position /\ TwoForms
  BY <1>0, BranchFacts DEF Init, Position, TwoForms, InTopic
<1> QED
  BY <1>4, <1>5, <1>6 DEF Shape

\* The steps that leave the repository and the Freezer's place alone.
LEMMA ShapeStill ==
  ASSUME Shape, UNCHANGED <<repoVars, fz>>, Typed'
  PROVE  Shape'
<1>1. RepoTypeOK' /\ RepoInv'
  BY RepoUnchanged DEF Shape, TypeOK
<1>2. UNCHANGED <<remote, local, unpushed, active, fz>>
  BY DEF repoVars, remoteVars, cloneVars
<1>3. Position' /\ TwoForms'
  BY <1>2 DEF Shape, Position, TwoForms, InTopic, Cloned
<1> QED
  BY <1>1, <1>3 DEF Shape, TypeOK, Typed

\* The queue and the rows, as the Indexer, the commands and the hook leave them.
LEMMA TypedRows ==
  ASSUME Shape, Held,
         \/ \E m \in Files : Inflate(m) \/ HookGets(m)
         \/ IndexerGets \/ IndexerWrites \/ \E u \in puts : Put(u[1], u[2], u[3])
         \/ Recover \/ Export \/ Restore \/ HookMarks \/ HookRaises
         \/ \E m \in Files, d \in Dates : Release(m, d)
  PROVE  Typed' /\ UNCHANGED <<repoVars, fz>>
<1>0. Typed
  BY TypedMeans DEF Shape
<1>1. ASSUME NEW m \in Files, Inflate(m) PROVE Typed' /\ UNCHANGED <<repoVars, fz>>
  <2>1. [mod |-> m, release |-> world[m]] \in [mod : Files, release : Dates \cup {NoDate}]
    BY <1>0 DEF Typed
  <2>2. queue' \in Seq([mod : Files, release : Dates \cup {NoDate}])
    BY <1>0, <1>1, <2>1 DEF Typed, Inflate
  <2>3. UNCHANGED <<got, table, dump, world, hookVars, freezerVars, repoVars, faults>>
    BY <1>1 DEF Inflate
  <2> QED
    BY <1>0, <2>2, <2>3 DEF Typed, hookVars, freezerVars
<1>2. ASSUME NEW m \in Files, HookGets(m) PROVE Typed' /\ UNCHANGED <<repoVars, fz>>
  BY <1>0, <1>2 DEF Typed, HookGets, tableVars, freezerVars
<1>3. ASSUME IndexerGets PROVE Typed' /\ UNCHANGED <<repoVars, fz>>
  <2>1. Head(queue).mod \in Files
    <3>1. Head(queue) \in [mod : Files, release : Dates \cup {NoDate}]
      BY <1>0, <1>3, HeadFacts DEF Typed, IndexerGets
    <3> QED
      BY <3>1
  <2>2. got' \in [mod : Files, exists : BOOLEAN]
    BY <1>3, <2>1 DEF IndexerGets
  <2>3. UNCHANGED <<queue, table, dump, world, hookVars, freezerVars, repoVars, faults>>
    BY <1>3 DEF IndexerGets
  <2> QED
    BY <1>0, <2>2, <2>3 DEF Typed, hookVars, freezerVars
<1>4. ASSUME IndexerWrites PROVE Typed' /\ UNCHANGED <<repoVars, fz>>
  <2>1. PICK commit \in BOOLEAN :
          table' = [table EXCEPT ![got.mod] =
                      Updated(IF got.exists THEN @ ELSE NewRow, Head(queue).release, commit)]
    BY <1>4 DEF IndexerWrites
  <2>2. /\ queue # <<>> /\ got.mod \in Files /\ Head(queue).release \in Dates \cup {NoDate}
        /\ got.exists => table[got.mod] \in Rows
    <3>1. got # Off /\ queue # <<>> /\ (got.exists => table[got.mod] # NoRow)
      BY <1>4 DEF Held, RowStays, IndexerWrites
    <3>2. Head(queue) \in [mod : Files, release : Dates \cup {NoDate}]
      BY <1>0, <3>1, HeadFacts DEF Typed
    <3>3. got.mod \in Files /\ table[got.mod] \in Rows \cup {NoRow}
      BY <1>0, <3>1 DEF Typed
    <3> QED
      BY <3>1, <3>2, <3>3
  <2>3. Updated(IF got.exists THEN table[got.mod] ELSE NewRow, Head(queue).release, commit) \in Rows
    BY <2>2, RowFacts, UpdatedFacts
  <2>4. table' \in [Files -> Rows \cup {NoRow}]
    BY <1>0, <2>1, <2>3 DEF Typed
  <2>5. queue' \in Seq([mod : Files, release : Dates \cup {NoDate}])
    BY <1>0, <1>4, <2>2 DEF Typed, IndexerWrites
  <2>6. got' = Off /\ UNCHANGED <<dump, world, hookVars, freezerVars, repoVars, faults>>
    BY <1>4 DEF IndexerWrites
  <2> QED
    BY <1>0, <2>4, <2>5, <2>6 DEF Typed, hookVars, freezerVars
<1>5. ASSUME NEW u \in puts, Put(u[1], u[2], u[3]) PROVE Typed' /\ UNCHANGED <<repoVars, fz>>
  <2>1. u[2] \in Files /\ u[3] \in Rows
    BY <1>0 DEF Typed
  <2>2. table' \in [Files -> Rows \cup {NoRow}] /\ puts' \subseteq puts
    BY <1>0, <1>5, <2>1 DEF Typed, Put
  <2> QED
    BY <1>0, <1>5, <2>2 DEF Typed, Put, hookVars
<1>6. ASSUME Recover PROVE Typed' /\ UNCHANGED <<repoVars, fz>>
  <2>1. faults' \in 0 .. MaxFaults
    BY <1>0, <1>6, StatusAssumption DEF Typed, Recover, Command
  <2>2. unread' \in [Writers -> SUBSET Files]
    BY <1>0, <1>6 DEF Typed, Recover, Scan
  <2> QED
    BY <1>0, <1>6, <2>1, <2>2 DEF Typed, Recover, Command, hookVars
<1>7. ASSUME Export PROVE Typed' /\ UNCHANGED <<repoVars, fz>>
  <2>1. faults' \in 0 .. MaxFaults
    BY <1>0, <1>7, StatusAssumption DEF Typed, Export, Command
  <2> QED
    BY <1>0, <1>7, <2>1 DEF Typed, Export, Command, hookVars
<1>8. ASSUME Restore PROVE Typed' /\ UNCHANGED <<repoVars, fz>>
  <2>1. faults' \in 0 .. MaxFaults
    BY <1>0, <1>8, StatusAssumption DEF Typed, Restore, Command
  <2>2. puts' = puts \cup {<<"restore", m, dump[m]>> : m \in {f \in Files : dump[f] # NoRow}}
    BY <1>8 DEF Restore
  <2>3. puts' \subseteq Writers \X Files \X Rows
    BY <1>0, <2>2 DEF Typed, Writers
  <2> QED
    BY <1>0, <1>8, <2>1, <2>3 DEF Typed, Restore, Command, hookVars
<1>9. ASSUME HookMarks PROVE Typed' /\ UNCHANGED <<repoVars, fz>>
  <2>1. marking \in Files /\ table[marking] \in Rows
    BY <1>0, <1>9 DEF Typed, HookMarks, Held, RowStays
  <2>2. [table[marking] EXCEPT !.frozen = TRUE] \in Rows
    BY <2>1, RowFacts
  <2>3. table' \in [Files -> Rows \cup {NoRow}]
    BY <1>0, <1>9, <2>2 DEF Typed, HookMarks
  <2> QED
    BY <1>0, <1>9, <2>3 DEF Typed, HookMarks, freezerVars
<1>10. ASSUME HookRaises PROVE Typed' /\ UNCHANGED <<repoVars, fz>>
  BY <1>0, <1>10 DEF Typed, HookRaises, tableVars, freezerVars
<1>11. ASSUME NEW m \in Files, NEW d \in Dates, Release(m, d) PROVE Typed' /\ UNCHANGED <<repoVars, fz>>
  <2>1. world' \in [Files -> Dates \cup {NoDate}]
    BY <1>0, <1>11 DEF Typed, Release
  <2> QED
    BY <1>0, <1>11, <2>1 DEF Typed, Release, hookVars, freezerVars
<1> QED
  BY <1>1, <1>2, <1>3, <1>4, <1>5, <1>6, <1>7, <1>8, <1>9, <1>10, <1>11

\* A tree of NetKAN: each mod has one of its files.
LEMMA TreeForms ==
  ASSUME NEW tree \in Trees, \A f \in Files : tree[f] \in Contents
  PROVE  tree \in [Files -> Contents]
BY DEF Trees

LEMMA ShapeStart == Shape /\ Start7Days => Shape'
<1> SUFFICES ASSUME Shape, Start7Days PROVE Shape'
  OBVIOUS
<1>1. /\ fz = "off" /\ fz' = "find" /\ CloneAll({Nk})
      /\ UNCHANGED <<tableVars, hookVars, faults, unread, puts, prs, idled>>
  BY DEF Start7Days, Freezer
<1>2. RepoTypeOK' /\ RepoInv' /\ Cloned(Nk)'
  BY <1>1, CloneAllInv, BranchFacts DEF Shape, TypeOK
<1>3. Typed'
  BY <1>1, TypedMeans DEF Typed, tableVars, hookVars, Shape
<1>4. Position' /\ TwoForms'
  BY <1>1, <1>2, BranchFacts
  DEF Shape, Position, TwoForms, InTopic, Cloned, CloneAll, remoteVars
<1> QED
  BY <1>2, <1>3, <1>4 DEF Shape, TypeOK, Typed

\* What the branch holds once it is opened.
LEMMA OpenFrozen ==
  ASSUME Shape, fz = "find", NEW M \in SUBSET Files,
         OpenTopic(FreezeAuto, {<<m, Frozen>> : m \in M})
  PROVE  /\ RepoTypeOK' /\ RepoInv' /\ Cloned(Nk) /\ local'[Nk] = local[Nk]
         /\ local'[FreezeAuto] # NoTree /\ unpushed'[Nk] = unpushed[Nk]
         /\ active'[Nk] = FreezeAuto
         /\ Start(FreezeAuto) \in {local[FreezeAuto], remote[FreezeAuto], local[Nk]} \ {NoTree}
         /\ \A f \in Files : local'[FreezeAuto][f] = IF f \in M THEN Frozen ELSE Start(FreezeAuto)[f]
<1> DEFINE C == {<<m, Frozen>> : m \in M}
<1>1. C \in SUBSET (Files \X Contents)
  BY StatusAssumption
<1>2. \A f \in Files, c \in Contents : <<f, c>> \in C <=> f \in M /\ c = Frozen
  OBVIOUS
<1>3. Frozen \in Contents
  BY StatusAssumption
<1>4. \A f \in Files : (IF \E c \in Contents : <<f, c>> \in C
                        THEN CHOOSE c \in Contents : <<f, c>> \in C
                        ELSE Start(FreezeAuto)[f]) = IF f \in M THEN Frozen ELSE Start(FreezeAuto)[f]
  BY <1>2, <1>3
<1>5. OpenTopic(FreezeAuto, C)
  OBVIOUS
<1> HIDE DEF C
<1>6. Cloned(Nk) /\ active[Nk] = Nk /\ active \in [Repos -> Branches]
  BY DEF Shape, Position, InTopic, TypeOK, RepoTypeOK
<1>7. /\ RepoTypeOK' /\ RepoInv' /\ local'[FreezeAuto] # NoTree
      /\ \A b \in Branches \ {FreezeAuto} : local'[b] = local[b] /\ unpushed'[b] = unpushed[b]
      /\ active' = [active EXCEPT ![Nk] = FreezeAuto]
  BY <1>1, <1>5, <1>6, OpenTopicInv, BranchFacts DEF Shape, TypeOK, Cloned
<1>8. \A f \in Files : local'[FreezeAuto][f] = IF f \in M THEN Frozen ELSE Start(FreezeAuto)[f]
  <2>1. local'[FreezeAuto] = [f \in Files |-> IF \E c \in Contents : <<f, c>> \in C
                                             THEN CHOOSE c \in Contents : <<f, c>> \in C
                                             ELSE Start(FreezeAuto)[f]]
    BY <1>5, BranchFacts DEF OpenTopic, Shape, TypeOK, RepoTypeOK
  <2> QED
    BY <1>4, <2>1
<1>9. Start(FreezeAuto) \in {local[FreezeAuto], remote[FreezeAuto], local[Nk]} \ {NoTree}
  BY <1>6, BranchFacts DEF Start, Cloned
<1> QED
  BY <1>6, <1>7, <1>8, <1>9, BranchFacts

LEMMA ShapeFreeze == Shape /\ FreezeIdle => Shape'
<1> SUFFICES ASSUME Shape, FreezeIdle PROVE Shape'
  OBVIOUS
<1>1. PICK M \in SUBSET Files : OpenTopic(FreezeAuto, {<<m, Frozen>> : m \in M})
  BY DEF FreezeIdle, IdleMods
<1>2. /\ fz = "find" /\ fz' = "merge"
      /\ UNCHANGED <<tableVars, hookVars, faults, unread, puts, prs, idled>>
  BY DEF FreezeIdle, Freezer
<1>3. /\ RepoTypeOK' /\ RepoInv' /\ Cloned(Nk) /\ local'[Nk] = local[Nk]
      /\ local'[FreezeAuto] # NoTree /\ unpushed'[Nk] = unpushed[Nk]
      /\ active'[Nk] = FreezeAuto
      /\ Start(FreezeAuto) \in {local[FreezeAuto], remote[FreezeAuto], local[Nk]} \ {NoTree}
  BY <1>1, <1>2, OpenFrozen
<1>4. Typed'
  BY <1>2, TypedMeans DEF Typed, tableVars, hookVars, Shape
<1>5. local'[FreezeAuto] \in [Files -> Contents]
  <2>1. Start(FreezeAuto) \in [Files -> Contents]
    BY <1>3, BranchFacts DEF Shape, TwoForms
  <2>2. \A f \in Files : local'[FreezeAuto][f] \in {Frozen, Start(FreezeAuto)[f]}
    BY <1>1, <1>2, OpenFrozen
  <2>3. \A f \in Files : local'[FreezeAuto][f] \in Contents
    BY <2>1, <2>2, StatusAssumption
  <2>4. local'[FreezeAuto] \in Trees
    BY <1>3, BranchFacts DEF RepoTypeOK
  <2> QED
    BY <2>3, <2>4, TreeForms
<1>6. Position' /\ TwoForms'
  BY <1>2, <1>3, <1>5, BranchFacts
  DEF Shape, Position, TwoForms, InTopic, Cloned, FreezeIdle, OpenTopic, remoteVars
<1> QED
  BY <1>3, <1>4, <1>6 DEF Shape, TypeOK, Typed

LEMMA ShapeMerge == Shape /\ FreezeMerge => Shape'
<1> SUFFICES ASSUME Shape, FreezeMerge PROVE Shape'
  OBVIOUS
<1>1. /\ fz = "merge" /\ fz' = "publish" /\ PullTopic(FreezeAuto)
      /\ UNCHANGED <<tableVars, hookVars, faults, unread, puts, prs, idled>>
  BY DEF FreezeMerge, Freezer
<1>2. Typed'
  BY <1>1, TypedMeans DEF Typed, tableVars, hookVars, Shape
<1>3. local[FreezeAuto] # NoTree /\ active' = active /\ active \in [Repos -> Branches]
  BY <1>1 DEF Shape, Position, InTopic, PullTopic, TypeOK, RepoTypeOK
<1>4. CASE Pull(FreezeAuto)
  <2>1. /\ RepoTypeOK' /\ RepoInv' /\ local'[Nk] = local[Nk] /\ unpushed' = unpushed
        /\ \A f \in Files : local'[FreezeAuto][f] \in {local[FreezeAuto][f], remote[FreezeAuto][f]}
        /\ local'[FreezeAuto] # NoTree
    BY <1>3, <1>4, PullInv, BranchFacts DEF Shape, TypeOK
  <2>2. remote[FreezeAuto] # NoTree /\ remote' = remote
    BY <1>4 DEF Pull, Mergeable, remoteVars
  <2>3. \A f \in Files : local'[FreezeAuto][f] \in Contents
    BY <1>3, <2>1, <2>2, BranchFacts DEF Shape, TwoForms
  <2>4. local'[FreezeAuto] \in [Files -> Contents]
    BY <2>1, <2>3, TreeForms, BranchFacts DEF RepoTypeOK
  <2>5. Position' /\ TwoForms'
    BY <1>1, <1>3, <2>1, <2>2, <2>4, BranchFacts DEF Shape, Position, TwoForms, InTopic, Cloned
  <2> QED
    BY <1>2, <2>1, <2>5 DEF Shape, TypeOK, Typed
<1>5. CASE UNCHANGED <<local, base, behind, unpushed, remoteVars>>
  <2>1. UNCHANGED repoVars
    BY <1>3, <1>5 DEF repoVars, cloneVars
  <2>2. RepoTypeOK' /\ RepoInv'
    BY <2>1, RepoUnchanged DEF Shape, TypeOK
  <2>3. Position' /\ TwoForms'
    BY <1>1, <1>3, <1>5 DEF Shape, Position, TwoForms, InTopic, Cloned, remoteVars
  <2> QED
    BY <1>2, <2>2, <2>3 DEF Shape, TypeOK, Typed
<1> QED
  BY <1>1, <1>4, <1>5 DEF PullTopic

LEMMA ShapePublish == Shape /\ FreezePublish => Shape'
<1> SUFFICES ASSUME Shape, FreezePublish PROVE Shape'
  OBVIOUS
<1>1. /\ fz = "publish" /\ fz' = "propose" /\ Pushed(FreezeAuto)
      /\ active' = [active EXCEPT ![Nk] = Nk]
      /\ UNCHANGED <<tableVars, hookVars, faults, unread, puts, prs, idled>>
  BY BranchFacts DEF FreezePublish, CloseTopic, Freezer
<1>2. Typed'
  BY <1>1, TypedMeans DEF Typed, tableVars, hookVars, Shape
<1>3. local[FreezeAuto] # NoTree /\ Cloned(Nk) /\ active \in [Repos -> Branches]
  BY <1>1 DEF Shape, Position, InTopic, TypeOK, RepoTypeOK
<1>4. active' \in [Repos -> Branches] /\ active'[Nk] = Nk
  BY <1>1, <1>3, BranchFacts
<1>5. RepoTypeOK' /\ RepoInv' /\ unpushed'[Nk] = unpushed[Nk]
  BY <1>1, <1>3, <1>4, PushedInv, BranchFacts DEF Shape, TypeOK
<1>6. local' = local /\ remote' = [remote EXCEPT ![FreezeAuto] = local[FreezeAuto]]
  BY <1>1 DEF Pushed
<1>7. Position' /\ TwoForms'
  BY <1>1, <1>3, <1>4, <1>5, <1>6, BranchFacts
  DEF Shape, Position, TwoForms, InTopic, Cloned, TypeOK, RepoTypeOK
<1> QED
  BY <1>2, <1>5, <1>7 DEF Shape, TypeOK, Typed

\* The steps that look at the clone only.
LEMMA ShapeLook ==
  ASSUME Shape, NothingIdle \/ FreezePropose \/ \E S \in SUBSET Files : RecoverReads(S) \/ MarkReads(S)
  PROVE  Shape'
<1>0. Typed
  BY TypedMeans DEF Shape
<1>1. ASSUME NothingIdle \/ FreezePropose PROVE Shape'
  <2>1. unread' \in [Writers -> SUBSET Files] /\ prs' \in BOOLEAN
    BY <1>0, <1>1 DEF Typed, NothingIdle, FreezePropose, Mark, Scan
  <2>2. /\ fz \in {"find", "propose"} /\ fz' = "mark"
        /\ UNCHANGED <<tableVars, hookVars, faults, puts, idled, repoVars>>
    BY <1>1 DEF NothingIdle, FreezePropose, Mark, Freezer
  <2>3. Typed'
    BY <1>0, <2>1, <2>2 DEF Typed, tableVars, hookVars
  <2>4. RepoTypeOK' /\ RepoInv'
    BY <2>2, RepoUnchanged DEF Shape, TypeOK
  <2>5. UNCHANGED <<remote, local, unpushed, active>>
    BY <2>2 DEF repoVars, remoteVars, cloneVars
  <2>6. Position' /\ TwoForms'
    BY <2>2, <2>5 DEF Shape, Position, TwoForms, InTopic, Cloned
  <2> QED
    BY <2>3, <2>4, <2>6 DEF Shape, TypeOK, Typed
<1>2. ASSUME NEW S \in SUBSET Files, RecoverReads(S) \/ MarkReads(S) PROVE Shape'
  <2>1. unread' \in [Writers -> SUBSET Files] /\ puts' \subseteq Writers \X Files \X Rows
    BY <1>0, <1>2, ReadFacts DEF Typed
  <2>2. UNCHANGED <<tableVars, hookVars, fz, prs, idled, repoVars, faults>>
    BY <1>2 DEF RecoverReads, MarkReads, Freezer
  <2>3. Typed'
    BY <1>0, <2>1, <2>2 DEF Typed, tableVars, hookVars
  <2> QED
    BY <2>2, <2>3, ShapeStill
<1> QED
  BY <1>1, <1>2

LEMMA ShapeExits ==
  ASSUME Shape, FreezerDone \/ FreezerRaises \/ FreezerCrashes
  PROVE  Shape'
<1>0. Typed
  BY TypedMeans DEF Shape
<1>1. FreezerExits /\ faults' \in 0 .. MaxFaults
  BY <1>0, StatusAssumption DEF FreezerDone, FreezerRaises, FreezerCrashes, Typed
<1>2. /\ fz' = "off" /\ puts' \subseteq puts /\ LoseClones
      /\ unread' = [unread EXCEPT !["freezer"] = {}]
      /\ UNCHANGED <<tableVars, hookVars, prs, idled>>
  BY <1>1 DEF FreezerExits
<1>3. unread' \in [Writers -> SUBSET Files]
  BY <1>0, <1>2 DEF Typed
<1>4. Typed'
  BY <1>0, <1>1, <1>2, <1>3 DEF Typed, tableVars, hookVars
<1>5. RepoTypeOK' /\ RepoInv'
  BY <1>2, LoseClonesInv DEF Shape, TypeOK
<1>6. Position' /\ TwoForms'
  BY <1>2, BranchFacts DEF Shape, Position, TwoForms, InTopic, Cloned, LoseClones, remoteVars
<1> QED
  BY <1>4, <1>5, <1>6 DEF Shape, TypeOK, Typed

LEMMA ShapeOthers ==
  ASSUME Shape,
         \/ \E b \in Branches, m \in Files, c \in Contents : OthersEdit(b, m, c)
         \/ \E m \in Files : OthersMerge(m)
  PROVE  Shape'
<1>0. Typed
  BY TypedMeans DEF Shape
<1>1. hooked' \subseteq Files
  BY <1>0 DEF OthersEdit, OthersMerge, Hooks, Typed
<1>2. /\ UNCHANGED <<fz, local, unpushed, active, marking, tableVars, unread, puts, idled, faults>>
      /\ prs' \in BOOLEAN
  BY <1>0 DEF OthersEdit, OthersMerge, OutsideEdit, Outside, OutsideMerge, freezerVars, Typed
<1>3. Typed'
  BY <1>0, <1>1, <1>2 DEF Typed, tableVars
<1>4. RepoTypeOK' /\ RepoInv'
  BY OutsideEditInv, OutsideMergeInv, BranchFacts DEF OthersEdit, OthersMerge, Shape, TypeOK
<1>5. \A b \in Branches : remote'[b] # NoTree => remote'[b] \in [Files -> Contents]
  <2>1. ASSUME NEW a \in Branches, NEW m \in Files, NEW c \in Contents, OthersEdit(a, m, c),
               NEW b \in Branches, remote'[b] # NoTree
        PROVE  remote'[b] \in [Files -> Contents]
    <3>1. remote' = [remote EXCEPT ![a] = [remote[a] EXCEPT ![m] = c]] /\ remote[a] # NoTree
      BY <2>1 DEF OthersEdit, OutsideEdit, Outside
    <3>2. [remote[a] EXCEPT ![m] = c] \in [Files -> Contents]
      BY <3>1 DEF Shape, TwoForms
    <3>3. remote'[b] = IF b = a THEN [remote[a] EXCEPT ![m] = c] ELSE remote[b]
      BY <3>1 DEF Shape, TypeOK, RepoTypeOK
    <3> QED
      BY <2>1, <3>2, <3>3 DEF Shape, TwoForms
  <2>2. ASSUME NEW m \in Files, OthersMerge(m), NEW b \in Branches, remote'[b] # NoTree
        PROVE  remote'[b] \in [Files -> Contents]
    <3> DEFINE news == {g \in Files : g = m \/ <<g, remote[FreezeAuto][g]>> \notin shown[Nk]}
               tree == [g \in Files |-> IF g \in news THEN remote[FreezeAuto][g] ELSE remote[Nk][g]]
    <3>1. remote[FreezeAuto] # NoTree /\ remote' = [remote EXCEPT ![Nk] = tree, ![FreezeAuto] = NoTree]
      BY <2>2, BranchFacts DEF OthersMerge, OutsideMerge
    <3>2. remote[FreezeAuto] \in [Files -> Contents] /\ remote[Nk] \in [Files -> Contents]
      BY <3>1, BranchFacts DEF Shape, TwoForms, RepoInv, PrimaryExists
    <3>3. tree \in [Files -> Contents]
      BY <3>2
    <3> HIDE DEF tree
    <3>4. b = Nk /\ remote'[Nk] = tree
      BY <2>2, <3>1, BranchFacts DEF Shape, TypeOK, RepoTypeOK
    <3> QED
      BY <3>3, <3>4
  <2> QED
    BY <2>1, <2>2
<1>6. Position' /\ TwoForms'
  BY <1>2, <1>5 DEF Shape, Position, TwoForms, InTopic, Cloned
<1> QED
  BY <1>3, <1>4, <1>6 DEF Shape, TypeOK, Typed

LEMMA ShapeNext == Shape /\ Held /\ [Next]_vars => Shape'
<1> SUFFICES ASSUME Shape, Held, [Next]_vars PROVE Shape'
  OBVIOUS
<1>1. CASE UNCHANGED vars
  <2>1. Typed'
    BY <1>1, TypedMeans DEF Shape, Typed, vars, tableVars, hookVars, freezerVars
  <2> QED
    BY <1>1, <2>1, ShapeStill DEF vars, freezerVars
<1>2. CASE Freezing
  BY <1>2, ShapeStart, ShapeFreeze, ShapeMerge, ShapePublish, ShapeLook, ShapeExits DEF Freezing
<1> QED
  BY <1>1, <1>2, TypedRows, ShapeStill, ShapeLook, ShapeExits, ShapeOthers DEF Next

-----------------------------------------------------------------------------
(* Held: the rows that were read.                                          *)

\* Who changes the world, the queue, the row looked up and the mod to be marked.
LEMMA WorldStep ==
  ASSUME [Next]_vars
  PROVE  /\ idled' = idled
         /\ \/ UNCHANGED <<world, queue, got>>
            \/ \E m \in Files : Inflate(m)
            \/ IndexerGets \/ IndexerWrites
            \/ \E m \in Files, d \in Dates : Release(m, d)
         /\ \/ marking' \in {marking, Off}
            \/ table[marking'] # NoRow /\ table' = table
<1>1. ASSUME NEW m \in Files, HookGets(m)
      PROVE  /\ marking' = Off \/ table[marking'] # NoRow
             /\ UNCHANGED <<table, world, queue, got, idled>>
  BY <1>1 DEF HookGets, tableVars, freezerVars
<1>2. ASSUME HookMarks \/ HookRaises
      PROVE  marking' \in {marking, Off} /\ UNCHANGED <<world, queue, got, idled>>
  BY <1>2 DEF HookMarks, HookRaises, tableVars, freezerVars
<1>3. ASSUME Freezing \/ FreezerCrashes \/ \E S \in SUBSET Files : RecoverReads(S)
      PROVE  UNCHANGED <<world, queue, got, idled, marking>>
  BY <1>3
  DEF Freezing, Start7Days, FreezeIdle, NothingIdle, FreezeMerge, FreezePublish, FreezePropose, MarkReads,
      FreezerDone, FreezerRaises, FreezerCrashes, FreezerExits, Freezer, RecoverReads, tableVars, hookVars
<1>4. ASSUME Recover \/ Export \/ Restore \/ \E u \in puts : Put(u[1], u[2], u[3])
      PROVE  UNCHANGED <<world, queue, got, idled, marking>>
  BY <1>4 DEF Recover, Export, Restore, Command, Put, hookVars
<1>5. ASSUME (\E m \in Files : Inflate(m)) \/ IndexerGets \/ IndexerWrites
             \/ \E m \in Files, d \in Dates : Release(m, d)
      PROVE  UNCHANGED <<idled, marking>>
  BY <1>5 DEF Inflate, IndexerGets, IndexerWrites, Release, hookVars, freezerVars
<1>6. ASSUME (\E b \in Branches, m \in Files, c \in Contents : OthersEdit(b, m, c))
             \/ \E m \in Files : OthersMerge(m)
      PROVE  UNCHANGED <<world, queue, got, idled, marking>>
  BY <1>6 DEF OthersEdit, OthersMerge, tableVars, freezerVars
<1>7. CASE UNCHANGED vars
  BY <1>7 DEF vars, tableVars, hookVars, freezerVars
<1> QED
  BY <1>1, <1>2, <1>3, <1>4, <1>5, <1>6, <1>7 DEF Next

\* Who changes the rows: those that are there stay, and but for the Indexer they
\* have dates that rows of the mod had.
RowsCome ==
  \A m \in Files :
    /\ table'[m] = NoRow <=> table[m] = NoRow
    /\ dump'[m] # NoRow => table'[m] # NoRow
    /\ \A row \in RowsOf(m)' : \E old \in RowsOf(m) : old.release = row.release

\* What is put, or about to be, is a row with a date that rows of the mod had.
PutsCome ==
  \A u \in puts' :
    /\ table[u[2]] # NoRow /\ u[2] \in Files
    /\ \E old \in RowsOf(u[2]) : old.release = u[3].release
    /\ u \in puts \/ (u[1] = "freezer" => fz = "mark" /\ local[Nk][u[2]] = Frozen)

LEMMA RowsOfMeans ==
  ASSUME NEW m, NEW row
  PROVE  row \in RowsOf(m) <=>
           \/ row \in {table[m], dump[m]} /\ row # NoRow
           \/ \E u \in puts : u[2] = m /\ row = u[3]
BY DEF RowsOf

LEMMA OldPuts ==
  ASSUME Shape, Held, NEW u \in puts
  PROVE  /\ u[2] \in Files /\ u[3] \in Rows /\ u[3] # NoRow
         /\ table[u[2]] # NoRow /\ u[3] \in RowsOf(u[2])
BY RowFacts DEF Shape, TypeOK, Held, RowStays, RowsOf

LEMMA PutsStep == Shape /\ Held /\ [Next]_vars => PutsCome
<1> SUFFICES ASSUME Shape, Held, [Next]_vars PROVE PutsCome
  OBVIOUS
<1>1. ASSUME puts' \subseteq puts PROVE PutsCome
  BY <1>1, OldPuts DEF PutsCome
<1>2. ASSUME NEW S \in SUBSET Files, RecoverReads(S) \/ MarkReads(S) PROVE PutsCome
  <2>1. \A m \in Files : table[m] # NoRow => table[m] \in RowsOf(m)
    BY DEF RowsOf
  <2> QED
    BY <1>2, <2>1, ReadFacts, OldPuts DEF PutsCome
<1>3. ASSUME Restore PROVE PutsCome
  <2>1. puts' = puts \cup {<<"restore", m, dump[m]>> : m \in {f \in Files : dump[f] # NoRow}}
    BY <1>3 DEF Restore
  <2>2. \A m \in Files : dump[m] # NoRow => dump[m] \in RowsOf(m) /\ table[m] # NoRow
    BY DEF RowsOf, Held, RowStays
  <2> QED
    BY <2>1, <2>2, OldPuts DEF PutsCome
<1>4. ASSUME Freezing, \A S \in SUBSET Files : ~MarkReads(S) PROVE PutsCome
  BY <1>1, <1>4
  DEF Freezing, Start7Days, FreezeIdle, NothingIdle, FreezeMerge, FreezePublish, FreezePropose,
      FreezerDone, FreezerRaises, FreezerExits
<1>5. ASSUME FreezerCrashes \/ Recover \/ Export \/ \E u \in puts : Put(u[1], u[2], u[3]) PROVE PutsCome
  BY <1>1, <1>5 DEF FreezerCrashes, FreezerExits, Recover, Export, Put
<1>6. ASSUME UNCHANGED puts PROVE PutsCome
  BY <1>1, <1>6
<1>7. ASSUME UNCHANGED freezerVars PROVE PutsCome
  BY <1>6, <1>7 DEF freezerVars
<1> QED
  BY <1>2, <1>3, <1>4, <1>5, <1>6, <1>7
  DEF Next, Inflate, IndexerGets, IndexerWrites, HookGets, HookMarks, HookRaises, OthersEdit, OthersMerge,
      Release, vars

LEMMA RowsStep == Shape /\ Held /\ [Next]_vars /\ ~IndexerWrites => RowsCome
<1> SUFFICES ASSUME Shape, Held, [Next]_vars, ~IndexerWrites PROVE RowsCome
  OBVIOUS
<1>1. PutsCome
  BY PutsStep
<1>2. ASSUME dump' = dump \/ dump' = table,
             \A m \in Files : /\ table'[m] = NoRow <=> table[m] = NoRow
                              /\ table'[m] # NoRow =>
                                   \E old \in RowsOf(m) : old.release = table'[m].release
      PROVE  RowsCome
  <2> SUFFICES ASSUME NEW m \in Files
               PROVE  /\ dump'[m] # NoRow => table'[m] # NoRow
                      /\ \A row \in RowsOf(m)' : \E old \in RowsOf(m) : old.release = row.release
    BY <1>2 DEF RowsCome
  <2>0. dump[m] # NoRow => table[m] # NoRow
    BY DEF Held, RowStays
  <2>1. dump'[m] # NoRow => table'[m] # NoRow /\ dump'[m] \in RowsOf(m)
    BY <1>2, <2>0, RowsOfMeans
  <2>2. ASSUME NEW row \in RowsOf(m)' PROVE \E old \in RowsOf(m) : old.release = row.release
    <3>1. \/ row \in {table'[m], dump'[m]} /\ row # NoRow
          \/ \E u \in puts' : u[2] = m /\ row = u[3]
      BY <2>2 DEF RowsOf
    <3>2. CASE row = table'[m] /\ row # NoRow
      BY <1>2, <3>2
    <3>3. CASE row = dump'[m] /\ row # NoRow
      BY <2>1, <3>3
    <3>4. CASE \E u \in puts' : u[2] = m /\ row = u[3]
      BY <1>1, <3>4 DEF PutsCome
    <3> QED
      BY <3>1, <3>2, <3>3, <3>4
  <2> QED
    BY <2>1, <2>2
<1>3. \A m \in Files : table[m] # NoRow => table[m] \in RowsOf(m)
  BY DEF RowsOf
<1>4. ASSUME table' = table, dump' \in {dump, table} PROVE RowsCome
  BY <1>2, <1>3, <1>4
<1>5. ASSUME NEW u \in puts, Put(u[1], u[2], u[3]) PROVE RowsCome
  <2>1. table' = [table EXCEPT ![u[2]] = u[3]] /\ dump' = dump
    BY <1>5 DEF Put
  <2>2. \A m \in Files : table'[m] = IF m = u[2] THEN u[3] ELSE table[m]
    BY <2>1 DEF Shape, TypeOK
  <2> QED
    BY <1>2, <1>3, <2>1, <2>2, OldPuts
<1>6. ASSUME HookMarks PROVE RowsCome
  <2>1. /\ table' = [table EXCEPT ![marking] = [table[marking] EXCEPT !.frozen = TRUE]] /\ dump' = dump
        /\ marking \in Files /\ table[marking] \in Rows
    BY <1>6 DEF HookMarks, Shape, TypeOK, Held, RowStays
  <2>2. [table[marking] EXCEPT !.frozen = TRUE] \in Rows
        /\ [table[marking] EXCEPT !.frozen = TRUE].release = table[marking].release
    BY <2>1, RowFacts
  <2>3. \A m \in Files : table'[m] = IF m = marking THEN [table[marking] EXCEPT !.frozen = TRUE] ELSE table[m]
    BY <2>1 DEF Shape, TypeOK
  <2>4. table[marking] # NoRow /\ [table[marking] EXCEPT !.frozen = TRUE] # NoRow
    BY <2>1, <2>2, RowFacts
  <2>5. \A m \in Files : /\ table'[m] = NoRow <=> table[m] = NoRow
                         /\ table'[m] # NoRow => table'[m].release = table[m].release
    BY <2>2, <2>3, <2>4
  <2>6. \A m \in Files : table'[m] # NoRow => \E old \in RowsOf(m) : old.release = table'[m].release
    BY <1>3, <2>5
  <2> QED
    BY <1>2, <2>1, <2>5, <2>6
<1>7. ASSUME Freezing \/ FreezerCrashes \/ \E S \in SUBSET Files : RecoverReads(S) PROVE RowsCome
  BY <1>4, <1>7
  DEF Freezing, Start7Days, FreezeIdle, NothingIdle, FreezeMerge, FreezePublish, FreezePropose, MarkReads,
      FreezerDone, FreezerRaises, FreezerCrashes, FreezerExits, Freezer, RecoverReads, tableVars
<1>8. ASSUME Recover \/ Export \/ Restore PROVE RowsCome
  BY <1>4, <1>8 DEF Recover, Export, Restore, Command
<1>9. ASSUME \/ \E m \in Files : Inflate(m) \/ HookGets(m) \/ OthersMerge(m)
             \/ IndexerGets \/ HookRaises
             \/ \E b \in Branches, m \in Files, c \in Contents : OthersEdit(b, m, c)
             \/ \E m \in Files, d \in Dates : Release(m, d)
      PROVE  RowsCome
  BY <1>4, <1>9 DEF Inflate, HookGets, OthersMerge, IndexerGets, HookRaises, OthersEdit, Release, tableVars
<1>10. CASE UNCHANGED vars
  BY <1>4, <1>10 DEF vars, tableVars
<1> QED
  BY <1>4, <1>5, <1>6, <1>7, <1>8, <1>9, <1>10 DEF Next

\* What the Indexer writes.
LEMMA WriteStep ==
  ASSUME Shape, Held, IndexerWrites
  PROVE  /\ got.mod \in Files /\ queue # <<>> /\ Head(queue) = queue[1] /\ 1 \in DOMAIN queue
         /\ queue[1].mod = got.mod /\ queue' = Tail(queue) /\ got' = Off
         /\ UNCHANGED <<dump, puts, world, idled, marking>>
         /\ table'[got.mod] \in Rows /\ table'[got.mod] # NoRow
         /\ \A m \in Files \ {got.mod} : table'[m] = table[m]
         /\ table'[got.mod].release =
               IF queue[1].release # NoDate THEN queue[1].release
               ELSE IF table[got.mod] # NoRow THEN table[got.mod].release ELSE NoDate
         /\ table[got.mod] # NoRow /\ table[got.mod].indexed => table'[got.mod].indexed
<1>1. /\ queue \in Seq([mod : Files, release : Dates \cup {NoDate}]) /\ queue # <<>>
      /\ got.mod = Head(queue).mod /\ got.exists = (table[got.mod] # NoRow)
      /\ table \in [Files -> Rows \cup {NoRow}]
  BY DEF IndexerWrites, Held, RowStays, Shape, TypeOK
<1>2. Head(queue) = queue[1] /\ 1 \in DOMAIN queue /\ Head(queue) \in [mod : Files, release : Dates \cup {NoDate}]
  BY <1>1, HeadFacts
<1>3. got.mod \in Files /\ Head(queue).release \in Dates \cup {NoDate}
  BY <1>1, <1>2
<1> DEFINE row == IF got.exists THEN table[got.mod] ELSE NewRow
<1>4. PICK commit \in BOOLEAN :
        table' = [table EXCEPT ![got.mod] = Updated(row, Head(queue).release, commit)]
  BY <1>3 DEF IndexerWrites
<1>5. row \in Rows /\ (table[got.mod] = NoRow => row.release = NoDate)
  BY <1>1, <1>3, RowFacts
<1>6. table'[got.mod] = Updated(row, Head(queue).release, commit)
      /\ \A m \in Files \ {got.mod} : table'[m] = table[m]
  BY <1>1, <1>3, <1>4
<1>7. table[got.mod] # NoRow => row = table[got.mod]
  BY <1>1
<1> HIDE DEF row
<1>8. /\ table'[got.mod] \in Rows
      /\ table'[got.mod].release = IF queue[1].release # NoDate THEN queue[1].release ELSE row.release
      /\ row.indexed => table'[got.mod].indexed
  BY <1>2, <1>3, <1>5, <1>6, UpdatedFacts
<1>9. queue' = Tail(queue) /\ got' = Off /\ UNCHANGED <<dump, puts, world, idled, marking>>
  BY DEF IndexerWrites, hookVars, freezerVars
<1> QED
  BY <1>1, <1>2, <1>3, <1>5, <1>6, <1>7, <1>8, <1>9, RowFacts

\* The clone of NetKAN stays as it was made, until it is gone with what was read.
LEMMA CloneStep ==
  ASSUME Shape, [Next]_vars, Cloned(Nk)
  PROVE  local'[Nk] = local[Nk] \/ \A u \in puts' : u[1] # "freezer"
<1>1. ASSUME local' = local PROVE local'[Nk] = local[Nk]
  BY <1>1
<1>2. ASSUME UNCHANGED repoVars PROVE local'[Nk] = local[Nk]
  BY <1>2 DEF repoVars, cloneVars
<1>3. ASSUME Start7Days PROVE local'[Nk] = local[Nk]
  BY <1>3, BranchFacts DEF Start7Days, CloneAll
<1>4. ASSUME FreezeIdle \/ FreezeMerge PROVE local'[Nk] = local[Nk]
  BY <1>4, BranchFacts
  DEF FreezeIdle, FreezeMerge, OpenTopic, PullTopic, Pull, Shape, TypeOK, RepoTypeOK
<1>5. ASSUME FreezePublish PROVE local' = local
  BY <1>5 DEF FreezePublish, CloseTopic, Pushed
<1>6. ASSUME FreezerExits PROVE \A u \in puts' : u[1] # "freezer"
  BY <1>6 DEF FreezerExits
<1>7. ASSUME Freezing \/ FreezerCrashes
      PROVE  local'[Nk] = local[Nk] \/ \A u \in puts' : u[1] # "freezer"
  BY <1>1, <1>2, <1>3, <1>4, <1>5, <1>6, <1>7
  DEF Freezing, NothingIdle, FreezePropose, MarkReads, FreezerDone, FreezerRaises, FreezerCrashes
<1>8. ASSUME (\E b \in Branches, m \in Files, c \in Contents : OthersEdit(b, m, c))
             \/ \E m \in Files : OthersMerge(m)
      PROVE  local' = local
  BY <1>8 DEF OthersEdit, OutsideEdit, Outside, OthersMerge, OutsideMerge
<1>9. CASE UNCHANGED vars
  BY <1>2, <1>9 DEF vars
<1> QED
  BY <1>1, <1>2, <1>7, <1>8, <1>9
  DEF Next, Inflate, IndexerGets, IndexerWrites, Put, Recover, RecoverReads, Export, Restore, Command,
      HookGets, HookMarks, HookRaises, Release

LEMMA HeldInit == Init => Held
BY DEF Init, Held, RowStays, FrozenInClone

LEMMA HeldNext == Shape /\ Held /\ [Next]_vars => Held'
<1> SUFFICES ASSUME Shape, Held, [Next]_vars PROVE Held'
  OBVIOUS
<1>0. queue \in Seq([mod : Files, release : Dates \cup {NoDate}]) /\ got \in [mod : Files, exists : BOOLEAN] \cup {Off}
      /\ marking \in Files \cup {Off} /\ Typed' /\ PutsCome
  BY ShapeNext, PutsStep, TypedMeans DEF Shape, TypeOK, Typed
<1>1. RowStays'
  <2>1. CASE IndexerWrites
    <3>1. \A m \in Files : table[m] # NoRow => table'[m] # NoRow
      BY <2>1, WriteStep
    <3>2. got' = Off /\ UNCHANGED <<dump, puts, marking>>
      BY <2>1, WriteStep
    <3>3. \A u \in puts : u[2] \in Files /\ table[u[2]] # NoRow
      BY OldPuts
    <3> QED
      BY <1>0, <3>1, <3>2, <3>3 DEF Held, RowStays
  <2>2. CASE ~IndexerWrites
    <3>1. RowsCome
      BY <2>2, RowsStep
    <3>2. marking' # Off => table'[marking'] # NoRow
      <4>1. marking' \in Files \cup {Off}
        BY <1>0 DEF Typed
      <4> QED
        BY <4>1, <3>1, WorldStep DEF RowsCome, Held, RowStays
    <3>3. got' # Off => queue' # <<>> /\ got'.mod = Head(queue').mod /\ got'.exists = (table'[got'.mod] # NoRow)
      <4>1. CASE UNCHANGED <<queue, got>>
        BY <1>0, <3>1, <4>1 DEF RowsCome, Held, RowStays
      <4>2. ASSUME NEW m \in Files, Inflate(m) PROVE got' # Off => queue' # <<>> /\ Head(queue') = Head(queue)
        BY <1>0, <4>2 DEF Inflate, Held, RowStays
      <4>3. ASSUME NEW m \in Files, Inflate(m) PROVE got' = got /\ table' = table
        BY <4>3 DEF Inflate
      <4>4. CASE IndexerGets
        BY <4>4 DEF IndexerGets
      <4> QED
        BY <2>2, <4>1, <4>2, <4>3, <4>4, WorldStep DEF Held, RowStays, Release
    <3> QED
      BY <1>0, <3>1, <3>2, <3>3 DEF RowStays, RowsCome, PutsCome
  <2> QED
    BY <2>1, <2>2
<1>2. FrozenInClone'
  <2> SUFFICES ASSUME NEW u \in puts', u[1] = "freezer"
               PROVE  Cloned(Nk)' /\ local'[Nk][u[2]] = Frozen
    BY DEF FrozenInClone
  <2>1. Cloned(Nk) /\ local[Nk][u[2]] = Frozen
    <3>1. CASE u \in puts
      BY <3>1 DEF Held, FrozenInClone
    <3>2. CASE u \notin puts
      <4>1. fz = "mark" /\ local[Nk][u[2]] = Frozen /\ u[2] \in Files
        BY <1>0, <3>2 DEF PutsCome
      <4>2. Cloned(Nk) /\ local[Nk] \in [Files -> Contents]
        BY <4>1, BranchFacts DEF Shape, Position, TwoForms, Cloned
      <4> QED
        BY <4>1, <4>2, StatusAssumption
    <3> QED
      BY <3>1, <3>2
  <2>2. local'[Nk] = local[Nk]
    BY <2>1, CloneStep
  <2> QED
    BY <2>1, <2>2 DEF Cloned
<1> QED
  BY <1>1, <1>2 DEF Held

-----------------------------------------------------------------------------
(* Release dates.                                                          *)

LEMMA DatedInit == Init => Dated /\ Fresh
<1> SUFFICES ASSUME Init PROVE Dated /\ Fresh
  OBVIOUS
<1>1. queue = <<>> /\ idled = {m \in Files : world[m] \in IdleDates}
  BY DEF Init
<1>2. \A m \in Files : RowsOf(m) = {}
  BY DEF Init, RowsOf
<1>3. IdleDates \subseteq Dates
  BY StatusAssumption
<1> QED
  BY <1>1, <1>2, <1>3 DEF Dated, Fresh

\* Steps that write no new date into a row, and leave the world and the queue.
LEMMA DatedSame ==
  ASSUME Shape, Dated, Fresh, RowsCome, UNCHANGED <<world, queue, idled>>
  PROVE  Dated' /\ Fresh'
<1>1. \A i \in DOMAIN queue : queue[i].mod \in Files
  <2>1. queue \in Seq(Results)
    BY DEF Shape, TypeOK, Results
  <2> QED
    BY <2>1, ResultFacts
<1>2. \A m, date : Worldly(m, date)' <=> Worldly(m, date)
  BY DEF Worldly
<1>3. Dated'
  BY <1>2 DEF Dated, RowsCome
<1>4. Fresh'
  BY <1>1 DEF Fresh, RowsCome
<1> QED
  BY <1>3, <1>4

LEMMA DatedInflate ==
  ASSUME Shape, Dated, Fresh, RowsCome, NEW m \in Files, Inflate(m), idled' = idled
  PROVE  Dated' /\ Fresh'
<1> DEFINE e == [mod |-> m, release |-> world[m]]
<1>1. queue' = Append(queue, e) /\ world' = world /\ \A i \in DOMAIN queue : queue[i].mod # m
  BY DEF Inflate
<1>2. queue \in Seq(Results) /\ e \in Results /\ e.mod = m /\ e.release = world[m]
  BY DEF Shape, TypeOK, Results
<1> HIDE DEF e
<1>3. \A i \in DOMAIN queue' :
        \/ i \in DOMAIN queue /\ queue'[i] = queue[i]
        \/ i \notin DOMAIN queue /\ i = Len(queue) + 1 /\ queue'[i] = e
  BY <1>1, <1>2, AppendFacts
<1>4. \A i \in DOMAIN queue : queue[i].mod \in Files
  BY <1>2, ResultFacts
<1>5. \A n, date : Worldly(n, date)' <=> Worldly(n, date)
  BY <1>1 DEF Worldly
<1>6. Dated'
  <2>1. \A i \in DOMAIN queue' : Worldly(queue'[i].mod, queue'[i].release)
    BY <1>2, <1>3 DEF Dated, Worldly
  <2>2. \A n \in Files : \A row \in RowsOf(n)' : row.release = NoDate \/ Worldly(n, row.release)
    BY DEF Dated, RowsCome
  <2>3. \A i \in DOMAIN queue' : \A n, date :
          n = queue'[i].mod /\ date = queue'[i].release => Worldly(n, date)'
    BY <1>5, <2>1
  <2> QED
    BY <1>1, <1>5, <2>2, <2>3 DEF Dated
<1>7. Fresh'
  <2>1. \A i, j \in DOMAIN queue' : queue'[i].mod = queue'[j].mod => i = j
    BY <1>1, <1>2, <1>3 DEF Fresh
  <2>2. ASSUME NEW i \in DOMAIN queue', NEW n, n = queue'[i].mod, queue'[i].release # world[n],
               NEW row \in RowsOf(n)'
        PROVE  row.release # world[n]
    <3>1. i \in DOMAIN queue /\ queue'[i] = queue[i] /\ n \in Files
      BY <1>2, <1>3, <1>4, <2>2
    <3>2. \A old \in RowsOf(n) : old.release # world[n]
      BY <2>2, <3>1 DEF Fresh
    <3> QED
      BY <3>1, <3>2 DEF RowsCome
  <2> QED
    BY <1>1, <2>1, <2>2 DEF Fresh
<1> QED
  BY <1>6, <1>7

LEMMA DatedRelease ==
  ASSUME Shape, Dated, Fresh, RowsCome, NEW m \in Files, NEW d \in Dates, Release(m, d), idled' = idled
  PROVE  Dated' /\ Fresh'
<1>1. world[m] \in IdleDates /\ d \notin IdleDates /\ d # NoDate /\ queue' = queue /\ m \in idled
  BY StatusAssumption DEF Release, Dated
<1>2. \A n \in Files : world'[n] = IF n = m THEN d ELSE world[n]
  BY DEF Release, Shape, TypeOK
<1>3. idled \subseteq Files /\ \A i \in DOMAIN queue : queue[i].mod \in Files
  <2>1. queue \in Seq(Results) /\ idled \subseteq Files
    BY DEF Shape, TypeOK, Results
  <2> QED
    BY <2>1, ResultFacts
<1>4. \A n \in Files : \A date : Worldly(n, date) => Worldly(n, date)'
  BY <1>1, <1>2 DEF Worldly
<1>5. \A date : Worldly(m, date) => date # d
  BY <1>1 DEF Worldly
<1>6. Dated'
  <2>1. \A i \in DOMAIN queue : \A n, date :
          n = queue[i].mod /\ date = queue[i].release => Worldly(n, date)'
    BY <1>3, <1>4 DEF Dated
  <2>2. \A n \in Files : \A row \in RowsOf(n)' : row.release = NoDate \/ Worldly(n, row.release)'
    BY <1>4 DEF Dated, RowsCome
  <2>3. /\ \A n \in Files : world'[n] \in IdleDates => n \in idled
        /\ \A n \in idled : world'[n] \in Dates
    BY <1>1, <1>2, <1>3 DEF Dated
  <2> QED
    BY <1>1, <2>1, <2>2, <2>3 DEF Dated
<1>7. Fresh'
  <2>1. ASSUME NEW i \in DOMAIN queue, NEW n \in Files, n = queue[i].mod, queue[i].release # world'[n],
               NEW row \in RowsOf(n)'
        PROVE  row.release # world'[n]
    <3>1. PICK old \in RowsOf(n) : old.release = row.release
      BY DEF RowsCome
    <3>2. CASE n = m
      BY <1>1, <1>2, <1>5, <3>1, <3>2 DEF Dated
    <3>3. CASE n # m
      BY <1>2, <2>1, <3>1, <3>3 DEF Fresh
    <3> QED
      BY <3>2, <3>3
  <2> QED
    BY <1>1, <1>3, <2>1 DEF Fresh
<1> QED
  BY <1>6, <1>7

\* The result that is written is the only one of its mod.
LEMMA DatedWrites ==
  ASSUME Shape, Held, Dated, Fresh, IndexerWrites
  PROVE  Dated' /\ Fresh'
<1>1. /\ queue \in Seq(Results) /\ queue # <<>>
      /\ queue' = Tail(queue) /\ UNCHANGED <<world, idled, dump, puts>>
  BY WriteStep DEF Shape, TypeOK, Results
<1>2. /\ \A i \in DOMAIN queue' : i + 1 \in DOMAIN queue /\ i + 1 # 1 /\ queue'[i] = queue[i + 1]
      /\ \A i \in DOMAIN queue' : i \in Nat
      /\ \A i \in DOMAIN queue' : queue'[i].mod \in Files
  BY <1>1, HeadFacts, ResultFacts
<1>3. PICK m \in Files : /\ m = got.mod /\ queue[1].mod = m /\ 1 \in DOMAIN queue
                         /\ table'[m].release =
                              IF queue[1].release # NoDate THEN queue[1].release
                              ELSE IF table[m] # NoRow THEN table[m].release ELSE NoDate
                         /\ \A n \in Files \ {m} : table'[n] = table[n]
  BY WriteStep
<1>4. \A i \in DOMAIN queue' : queue'[i].mod # m
  BY <1>2, <1>3 DEF Fresh
<1>5. \A n, date : Worldly(n, date)' <=> Worldly(n, date)
  BY <1>1 DEF Worldly
<1>6. \A n \in Files \ {m} : RowsOf(n)' = RowsOf(n)
  BY <1>1, <1>3 DEF RowsOf
<1>7. \A row \in RowsOf(m)' : row = table'[m] \/ row \in RowsOf(m)
  BY <1>1 DEF RowsOf
<1>8. table'[m].release = NoDate \/ Worldly(m, table'[m].release)
  <2>1. Worldly(m, queue[1].release)
    BY <1>3 DEF Dated
  <2>2. table[m] # NoRow => table[m].release = NoDate \/ Worldly(m, table[m].release)
    BY RowsOfMeans DEF Dated
  <2> QED
    BY <1>3, <2>1, <2>2
<1>9. Dated'
  <2>1. \A n \in Files : \A row \in RowsOf(n)' : row.release = NoDate \/ Worldly(n, row.release)
    BY <1>6, <1>7, <1>8 DEF Dated
  <2>2. \A i \in DOMAIN queue' : \A n, date :
          n = queue'[i].mod /\ date = queue'[i].release => Worldly(n, date)'
    BY <1>2, <1>5 DEF Dated
  <2> QED
    BY <1>1, <1>5, <2>1, <2>2 DEF Dated
<1>10. Fresh'
  <2>1. \A i, j \in DOMAIN queue' : queue'[i].mod = queue'[j].mod => i + 1 = j + 1
    BY <1>2 DEF Fresh
  <2>2. \A i, j \in DOMAIN queue' : queue'[i].mod = queue'[j].mod => i = j
    BY <1>2, <2>1
  <2>3. ASSUME NEW i \in DOMAIN queue', NEW n, n = queue'[i].mod, queue'[i].release # world[n],
               NEW row \in RowsOf(n)'
        PROVE  row.release # world[n]
    <3>1. n \in Files \ {m} /\ queue[i + 1].mod = n /\ queue[i + 1].release # world[n]
      BY <1>2, <1>4, <2>3
    <3> QED
      BY <1>2, <1>6, <2>3, <3>1 DEF Fresh
  <2> QED
    BY <1>1, <2>2, <2>3 DEF Fresh
<1> QED
  BY <1>9, <1>10

LEMMA DatedNext == Shape /\ Held /\ Dated /\ Fresh /\ [Next]_vars => Dated' /\ Fresh'
<1> SUFFICES ASSUME Shape, Held, Dated, Fresh, [Next]_vars PROVE Dated' /\ Fresh'
  OBVIOUS
<1>1. CASE IndexerWrites
  BY <1>1, DatedWrites
<1>2. CASE ~IndexerWrites
  <2>1. RowsCome /\ idled' = idled
    BY <1>2, RowsStep, WorldStep
  <2>2. CASE IndexerGets
    BY <2>1, <2>2, DatedSame DEF IndexerGets
  <2> QED
    BY <1>2, <2>1, <2>2, WorldStep, DatedSame, DatedInflate, DatedRelease
<1> QED
  BY <1>1, <1>2

-----------------------------------------------------------------------------
(* What is frozen.                                                         *)

LEMMA AllowedStays ==
  ASSUME Shape, [Next]_vars
  PROVE  \A m \in Files : Allowed(m) => Allowed(m)'
<1>1. idled' = idled
  BY WorldStep
<1>2. shown[Nk] \subseteq shown'[Nk] /\ edited \subseteq edited'
  <2>1. ASSUME UNCHANGED remoteVars PROVE shown[Nk] \subseteq shown'[Nk] /\ edited \subseteq edited'
    BY <2>1 DEF remoteVars
  <2>2. ASSUME UNCHANGED repoVars PROVE UNCHANGED remoteVars
    BY <2>2 DEF repoVars
  <2>3. ASSUME FreezePublish PROVE shown[Nk] \subseteq shown'[Nk] /\ edited \subseteq edited'
    BY <2>3, BranchFacts DEF FreezePublish, CloseTopic, Pushed, Shape, TypeOK, RepoTypeOK
  <2>4. ASSUME Start7Days \/ FreezeIdle \/ FreezeMerge \/ FreezerExits PROVE UNCHANGED remoteVars
    BY <2>4 DEF Start7Days, CloneAll, FreezeIdle, OpenTopic, FreezeMerge, PullTopic, Pull, FreezerExits,
                LoseClones
  <2>5. ASSUME Freezing \/ FreezerCrashes PROVE shown[Nk] \subseteq shown'[Nk] /\ edited \subseteq edited'
    BY <2>1, <2>2, <2>3, <2>4, <2>5
    DEF Freezing, NothingIdle, FreezePropose, MarkReads, FreezerDone, FreezerRaises, FreezerCrashes
  <2>6. ASSUME (\E b \in Branches, m \in Files, c \in Contents : OthersEdit(b, m, c))
               \/ \E m \in Files : OthersMerge(m)
        PROVE  shown[Nk] \subseteq shown'[Nk] /\ edited \subseteq edited'
    <3>1. shown[Nk] \subseteq shown'[Nk]
      BY <2>6, OutsideEditInv, OutsideMergeInv, BranchFacts DEF OthersEdit, OthersMerge, Shape, TypeOK
    <3> QED
      BY <2>6, <3>1 DEF OthersEdit, OutsideEdit, OthersMerge, OutsideMerge
  <2>7. CASE UNCHANGED vars
    BY <2>1, <2>2, <2>7 DEF vars
  <2> QED
    BY <2>1, <2>2, <2>5, <2>6, <2>7
    DEF Next, Inflate, IndexerGets, IndexerWrites, Put, Recover, RecoverReads, Export, Restore, Command,
        HookGets, HookMarks, HookRaises, Release
<1> QED
  BY <1>1, <1>2 DEF Allowed

\* OnlyIdleFrozen, in the words of ClonedIdle.
LEMMA IdleMeans ==
  OnlyIdleFrozen <=>
    \A m \in Files : remote[FreezeAuto] # NoTree /\ remote[FreezeAuto][m] = Frozen => Allowed(m)
BY DEF OnlyIdleFrozen, Allowed

LEMMA IdleInit == Init => OnlyIdleFrozen /\ ClonedIdle
BY BranchFacts DEF Init, OnlyIdleFrozen, ClonedIdle

LEMMA IdleSame ==
  ASSUME Shape, [Next]_vars, OnlyIdleFrozen, ClonedIdle,
         \A m \in Files :
           /\ remote'[FreezeAuto] # NoTree /\ remote'[FreezeAuto][m] = Frozen =>
                \/ remote[FreezeAuto] # NoTree /\ remote[FreezeAuto][m] = Frozen
                \/ local[FreezeAuto] # NoTree /\ local[FreezeAuto][m] = Frozen
                \/ Allowed(m)'
           /\ local'[FreezeAuto] # NoTree /\ local'[FreezeAuto][m] = Frozen =>
                \/ remote[FreezeAuto] # NoTree /\ remote[FreezeAuto][m] = Frozen
                \/ local[FreezeAuto] # NoTree /\ local[FreezeAuto][m] = Frozen
                \/ Allowed(m)'
  PROVE  OnlyIdleFrozen' /\ ClonedIdle'
<1>1. \A m \in Files : remote'[FreezeAuto] # NoTree /\ remote'[FreezeAuto][m] = Frozen => Allowed(m)'
  BY AllowedStays, IdleMeans DEF ClonedIdle
<1>2. OnlyIdleFrozen'
  BY <1>1 DEF OnlyIdleFrozen, Allowed
<1>3. ClonedIdle'
  BY AllowedStays, IdleMeans DEF ClonedIdle
<1> QED
  BY <1>2, <1>3

\* A mod the Freezer finds idle was idle at first: a row has no older date.
LEMMA FoundIdle ==
  ASSUME Dated, NEW m \in Files, Idle(m)
  PROVE  m \in idled
<1>1. table[m] \in RowsOf(m) /\ table[m].release \in IdleDates
  BY RowsOfMeans DEF Idle
<1>2. table[m].release = NoDate \/ Worldly(m, table[m].release)
  BY <1>1 DEF Dated
<1> QED
  BY <1>1, <1>2, StatusAssumption DEF Worldly, Dated

LEMMA IdleFreeze ==
  ASSUME Shape, Dated, [Next]_vars, OnlyIdleFrozen, ClonedIdle, FreezeIdle
  PROVE  OnlyIdleFrozen' /\ ClonedIdle'
<1>1. PICK M \in SUBSET Files :
        /\ OpenTopic(FreezeAuto, {<<m, Frozen>> : m \in M})
        /\ \A m \in M : Idle(m)
  <2>1. {f \in IdleMods : Start(FreezeAuto)[f] # Frozen} \in SUBSET Files
    BY DEF IdleMods
  <2> QED
    BY <2>1 DEF FreezeIdle, IdleMods
<1>2. fz = "find"
  BY DEF FreezeIdle
<1>3. /\ Cloned(Nk)
      /\ Start(FreezeAuto) \in {local[FreezeAuto], remote[FreezeAuto], local[Nk]} \ {NoTree}
      /\ \A f \in Files : local'[FreezeAuto][f] = IF f \in M THEN Frozen ELSE Start(FreezeAuto)[f]
  BY <1>1, <1>2, OpenFrozen
<1>4. \A m \in M : Allowed(m)'
  BY <1>1, FoundIdle, AllowedStays DEF Allowed
<1>5. ASSUME NEW m \in Files, local[Nk][m] = Frozen PROVE Allowed(m)'
  <2>1. <<m, Frozen>> \in PairsOf(local[Nk])
    BY <1>5 DEF PairsOf
  <2>2. <<m, Frozen>> \in shown[Nk]
    BY <1>3, <2>1, BranchFacts DEF Shape, RepoInv, LocalShown, TwoForms
  <2> QED
    BY <2>2, AllowedStays DEF Allowed
<1>6. remote' = remote
  BY <1>1 DEF OpenTopic, remoteVars
<1> QED
  BY <1>3, <1>4, <1>5, <1>6, IdleSame

LEMMA IdleNext ==
  Shape /\ Dated /\ OnlyIdleFrozen /\ ClonedIdle /\ [Next]_vars => OnlyIdleFrozen' /\ ClonedIdle'
<1> SUFFICES ASSUME Shape, Dated, OnlyIdleFrozen, ClonedIdle, [Next]_vars
             PROVE  OnlyIdleFrozen' /\ ClonedIdle'
  OBVIOUS
<1>1. ASSUME UNCHANGED <<remote, local>> PROVE OnlyIdleFrozen' /\ ClonedIdle'
  BY <1>1, IdleSame
<1>2. ASSUME UNCHANGED repoVars PROVE OnlyIdleFrozen' /\ ClonedIdle'
  BY <1>1, <1>2 DEF repoVars, remoteVars, cloneVars
<1>3. ASSUME Start7Days PROVE OnlyIdleFrozen' /\ ClonedIdle'
  <2>1. remote' = remote /\ local'[FreezeAuto] = local[FreezeAuto]
    BY <1>3, BranchFacts DEF Start7Days, CloneAll, remoteVars
  <2> QED
    BY <2>1, IdleSame
<1>4. ASSUME FreezeMerge PROVE OnlyIdleFrozen' /\ ClonedIdle'
  <2>1. CASE Pull(FreezeAuto)
    <3>1. remote' = remote /\ remote[FreezeAuto] # NoTree /\ local[FreezeAuto] # NoTree
      BY <1>4, <2>1 DEF Pull, Mergeable, remoteVars, FreezeMerge, Shape, Position, InTopic
    <3>2. \A f \in Files : local'[FreezeAuto][f] \in {local[FreezeAuto][f], remote[FreezeAuto][f]}
      BY <2>1, BranchFacts DEF Pull, MergeOurs, Shape, TypeOK, RepoTypeOK
    <3> QED
      BY <3>1, <3>2, IdleSame
  <2>2. CASE UNCHANGED <<local, base, behind, unpushed, remoteVars>>
    BY <1>1, <2>2 DEF remoteVars
  <2> QED
    BY <1>4, <2>1, <2>2 DEF FreezeMerge, PullTopic
<1>5. ASSUME FreezePublish PROVE OnlyIdleFrozen' /\ ClonedIdle'
  <2>1. local' = local /\ remote'[FreezeAuto] = local[FreezeAuto]
    BY <1>5, BranchFacts DEF FreezePublish, CloseTopic, Pushed, Shape, TypeOK, RepoTypeOK
  <2> QED
    BY <2>1, IdleSame
<1>6. ASSUME FreezerExits PROVE OnlyIdleFrozen' /\ ClonedIdle'
  <2>1. local'[FreezeAuto] = NoTree /\ remote' = remote
    BY <1>6, BranchFacts DEF FreezerExits, LoseClones, remoteVars
  <2> QED
    BY <2>1, IdleSame
<1>7. ASSUME Freezing \/ FreezerCrashes PROVE OnlyIdleFrozen' /\ ClonedIdle'
  BY <1>2, <1>3, <1>4, <1>5, <1>6, <1>7, IdleFreeze
  DEF Freezing, NothingIdle, FreezePropose, MarkReads, FreezerDone, FreezerRaises, FreezerCrashes
<1>8. ASSUME NEW b \in Branches, NEW m \in Files, NEW c \in Contents, OthersEdit(b, m, c)
      PROVE  OnlyIdleFrozen' /\ ClonedIdle'
  <2>1. /\ remote' = [remote EXCEPT ![b] = [remote[b] EXCEPT ![m] = c]] /\ local' = local
        /\ m \in edited' /\ remote[b] # NoTree
    BY <1>8 DEF OthersEdit, OutsideEdit, Outside
  <2>2. remote[b] \in Trees
    BY <2>1 DEF Shape, TypeOK, RepoTypeOK
  <2>3. \A n \in Files \ {m} : [remote[b] EXCEPT ![m] = c][n] = remote[b][n]
    BY <2>2 DEF Trees
  <2>4. remote'[FreezeAuto] = remote[FreezeAuto] \/ (b = FreezeAuto /\ remote'[b] = [remote[b] EXCEPT ![m] = c])
    BY <2>1, BranchFacts DEF Shape, TypeOK, RepoTypeOK
  <2>5. Allowed(m)'
    BY <2>1 DEF Allowed
  <2> QED
    BY <2>1, <2>3, <2>4, <2>5, IdleSame
<1>9. ASSUME NEW m \in Files, OthersMerge(m) PROVE OnlyIdleFrozen' /\ ClonedIdle'
  <2>1. local' = local /\ remote'[FreezeAuto] = NoTree
    BY <1>9, BranchFacts DEF OthersMerge, OutsideMerge, Shape, TypeOK, RepoTypeOK
  <2> QED
    BY <2>1, IdleSame
<1>10. CASE UNCHANGED vars
  BY <1>2, <1>10 DEF vars
<1> QED
  BY <1>2, <1>7, <1>8, <1>9, <1>10
  DEF Next, Inflate, IndexerGets, IndexerWrites, Put, Recover, RecoverReads, Export, Restore, Command,
      HookGets, HookMarks, HookRaises, Release

-----------------------------------------------------------------------------
(* The theorems.                                                           *)

LEMMA TableInvNext == TableInv /\ [Next]_vars => TableInv'
<1> SUFFICES ASSUME TableInv, [Next]_vars PROVE TableInv'
  OBVIOUS
<1>1. Shape' /\ Held'
  BY ShapeNext, HeldNext DEF TableInv
<1>2. Dated' /\ Fresh'
  BY DatedNext DEF TableInv
<1>3. OnlyIdleFrozen' /\ ClonedIdle'
  BY IdleNext DEF TableInv
<1> QED
  BY <1>1, <1>2, <1>3 DEF TableInv

\* The inductive invariant holds in every behaviour.
THEOREM Invariance == Spec => []TableInv
<1>1. Init => TableInv
  BY ShapeInit, HeldInit, DatedInit, IdleInit DEF TableInv
<1> QED
  BY <1>1, TableInvNext, PTL DEF Spec

\* Every variable keeps its type.
THEOREM TypeCorrect == Spec => []TypeOK
<1>1. TableInv => TypeOK
  BY DEF TableInv, Shape
<1> QED
  BY <1>1, Invariance, PTL

\* The branch of the Freezer freezes nothing but mods that were idle once, and
\* what others froze: for any number of mods, weeks, crashes and pushes.
THEOREM IdleFrozen == Spec => []OnlyIdleFrozen
<1>1. TableInv => OnlyIdleFrozen
  BY DEF TableInv
<1> QED
  BY <1>1, Invariance, PTL

\* The Indexer never takes back what it wrote, and the hook touches frozen alone.
LEMMA GainStep ==
  ASSUME TableInv, [Next]_vars, NEW m \in Files, table[m] # NoRow
  PROVE  OnlyGains(m) \/ MayGoBack(m)
<1>1. Shape /\ Held /\ Dated /\ Fresh
  BY DEF TableInv
<1>2. ASSUME table' = table PROVE OnlyGains(m)
  BY <1>2 DEF OnlyGains
<1>3. CASE IndexerWrites
  <2>1. CASE m # got.mod
    <3>1. table'[m] = table[m]
      BY <1>1, <1>3, <2>1, WriteStep
    <3> QED
      BY <3>1 DEF OnlyGains
  <2>2. CASE m = got.mod
    <3>1. /\ 1 \in DOMAIN queue /\ queue[1].mod = m /\ table'[m] # NoRow
          /\ table[m].indexed => table'[m].indexed
          /\ table'[m].release = IF queue[1].release # NoDate THEN queue[1].release ELSE table[m].release
      BY <1>1, <1>3, <2>2, WriteStep
    <3>2. table[m] \in RowsOf(m)
      BY RowsOfMeans
    <3>3. table[m].release = world[m] => queue[1].release = world[m]
      BY <1>1, <3>1, <3>2 DEF Fresh
    <3> QED
      BY <3>1, <3>3 DEF OnlyGains
  <2> QED
    BY <2>1, <2>2
<1>4. ASSUME NEW u \in puts, Put(u[1], u[2], u[3]) PROVE OnlyGains(m) \/ MayGoBack(m)
  <2>1. CASE u[2] = m
    BY <1>1, <2>1 DEF MayGoBack, Held, FrozenInClone
  <2>2. CASE u[2] # m
    <3>1. table'[m] = table[m]
      BY <1>1, <1>4, <2>2 DEF Put, Shape, TypeOK
    <3> QED
      BY <3>1 DEF OnlyGains
  <2> QED
    BY <2>1, <2>2
<1>5. CASE HookMarks
  <2>1. /\ table' = [table EXCEPT ![marking] = [table[marking] EXCEPT !.frozen = TRUE]]
        /\ marking \in Files /\ table[marking] \in Rows /\ table \in [Files -> Rows \cup {NoRow}]
    BY <1>1, <1>5 DEF HookMarks, Shape, TypeOK, Held, RowStays
  <2>2. /\ [table[marking] EXCEPT !.frozen = TRUE] # NoRow
        /\ [table[marking] EXCEPT !.frozen = TRUE].release = table[marking].release
        /\ [table[marking] EXCEPT !.frozen = TRUE].indexed = table[marking].indexed
    BY <2>1, RowFacts
  <2>3. table'[m] = IF m = marking THEN [table[marking] EXCEPT !.frozen = TRUE] ELSE table[m]
    BY <2>1
  <2> QED
    BY <2>2, <2>3 DEF OnlyGains
<1>6. ASSUME \/ Freezing \/ FreezerCrashes \/ Recover \/ Export \/ Restore
             \/ \E S \in SUBSET Files : RecoverReads(S)
      PROVE  table' = table
  BY <1>6
  DEF Freezing, Start7Days, FreezeIdle, NothingIdle, FreezeMerge, FreezePublish, FreezePropose, MarkReads,
      FreezerDone, FreezerRaises, FreezerCrashes, FreezerExits, Freezer, RecoverReads, tableVars,
      Recover, Export, Restore, Command
<1>7. ASSUME \/ \E n \in Files : Inflate(n) \/ HookGets(n) \/ OthersMerge(n)
             \/ IndexerGets \/ HookRaises
             \/ \E b \in Branches, n \in Files, c \in Contents : OthersEdit(b, n, c)
             \/ \E n \in Files, d \in Dates : Release(n, d)
      PROVE  table' = table
  BY <1>7 DEF Inflate, HookGets, OthersMerge, IndexerGets, HookRaises, OthersEdit, Release, tableVars
<1>8. CASE UNCHANGED vars
  BY <1>2, <1>8 DEF vars, tableVars
<1> QED
  BY <1>2, <1>3, <1>4, <1>5, <1>6, <1>7, <1>8 DEF Next

\* Rows of mods that are not frozen lose what the Indexer wrote to commands alone.
THEOREM RowsGoBack == Spec => OnlyFrozenRowsGoBack
<1>1. TableInv /\ [Next]_vars => [\A m \in Files : OnlyGains(m) \/ MayGoBack(m)]_vars
  BY GainStep DEF OnlyGains
<1> QED
  BY <1>1, Invariance, PTL DEF Spec, OnlyFrozenRowsGoBack
==============================================================================
