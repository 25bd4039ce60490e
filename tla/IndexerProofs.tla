---------------------------- MODULE IndexerProofs ----------------------------
(***************************************************************************)
(* Proofs about the Indexer, for every set of games, files, contents and   *)
(* kinds of messages and every value of the bounds.                        *)
(***************************************************************************)
EXTENDS IndexerInv, XkanRepoProofs

-----------------------------------------------------------------------------
(* The loop and its messages.                                              *)

\* What the attributes of a stored message are.
LEMMA KindFacts ==
  ASSUME TypeOK, NEW i \in Ids
  PROVE  /\ sent[i].mod \in Mods /\ sent[i].file \in Files
         /\ sent[i].content \in Contents
         /\ sent[i].staged \in BOOLEAN /\ sent[i].success \in BOOLEAN
         /\ sent[i].game \in Games => Home[sent[i].file] = sent[i].game
<1>1. sent[i] \in Kinds
  BY DEF TypeOK, QH!TypeOK, SqsTypeOK, QH!SqsTypeOK, Ids, QH!Ids
<1> QED
  BY <1>1, KindsAssumption

LEMMA BranchFacts == Games \subseteq Branches /\ Files \subseteq Branches /\ Repos = Games /\ Topics = Files
BY IndexerAssumption DEF Branches

LEMMA LoopUnchanged == QH!TypeOK /\ UNCHANGED loopVars => QH!TypeOK'
BY DEF QH!TypeOK, QH!SqsTypeOK, QH!Ids, QH!Stored, loopVars, sqsVars

-----------------------------------------------------------------------------
(* Shape: the types, the flow of process_messages, and the clones.         *)

LEMMA ShapeInit == Init => Shape
<1> SUFFICES ASSUME Init PROVE Shape
  OBVIOUS
<1>1. QH!TypeOK
  BY IndexerAssumption DEF Init, QH!Init, QH!SqsInit, QH!TypeOK, QH!SqsTypeOK, QH!Ids, QH!Stored
<1>2. RepoTypeOK /\ RepoInv
  BY RepoInitInv DEF Init
<1>3. TypeOK
  BY <1>1, <1>2 DEF Init, TypeOK, Steps
<1>4. Flow
  BY DEF Init, QH!Init, QH!SqsInit, Flow, HandlersCloned, OwnMessages, Position, InTopic, OnCur
<1> QED
  BY <1>2, <1>3, <1>4 DEF Shape

LEMMA ShapeSend ==
  ASSUME Shape, NEW k \in Kinds, Send(k)
  PROVE  Shape' /\ Ids \subseteq Ids' /\ \A i \in Ids : sent'[i] = sent[i]
<1>1. sent \in Seq(Kinds)
  BY DEF Shape, TypeOK, QH!TypeOK, QH!SqsTypeOK
<1>2. sent' = Append(sent, k) /\ UNCHANGED <<acked, hidden, since, batch, todo, turn, processed, faults>>
  BY DEF Send, QH!Send, QH!SqsSend, QH!loopVars
<1>3. sent' \in Seq(Kinds) /\ Ids \subseteq Ids' /\ \A i \in Ids : sent'[i] = sent[i]
  BY <1>1, <1>2 DEF Ids
<1>4. QH!TypeOK'
  BY <1>2, <1>3 DEF Shape, TypeOK, QH!TypeOK, QH!SqsTypeOK, QH!Ids, QH!Stored, Ids
<1>5. RepoTypeOK' /\ RepoInv'
  BY RepoUnchanged DEF Shape, TypeOK, Send
<1>6. TypeOK'
  BY <1>4, <1>5 DEF Shape, TypeOK, Send, stepVars, hubVars
<1>7. UNCHANGED <<step, cur, back, local, active>>
  BY DEF Send, stepVars, repoVars, cloneVars
<1>8. HandlersCloned'
  BY <1>2, <1>7 DEF Shape, Flow, HandlersCloned, Cloned
<1>9. OwnMessages'
  BY <1>2, <1>3 DEF Shape, Flow, OwnMessages
<1>10. Position'
  <2>1. OnCur => cur \in Ids
    BY BranchFacts DEF Shape, TypeOK, QH!TypeOK, Flow, OwnMessages, Position, OnCur
  <2> QED
    BY <1>2, <1>3, <1>7, <2>1 DEF Shape, Flow, Position, InTopic, OnCur
<1> QED
  BY <1>3, <1>5, <1>6, <1>8, <1>9, <1>10 DEF Shape, Flow

\* The loop starts a round.
LEMMA ShapePoll ==
  ASSUME Shape, NEW S \in SUBSET Stored, Poll(S)
  PROVE  Shape'
<1> DEFINE R == {g \in Games : since'[g] # 0}
<1>1. /\ turn = Idle /\ todo = {} /\ S \subseteq Ids /\ S \subseteq Stored
      /\ hidden' = S /\ UNCHANGED <<sent, acked, turn, processed, faults>>
      /\ batch' = [g \in Games |-> {i \in S : sent[i].game = g}]
      /\ since' \in [Games -> {0} \cup Ids]
      /\ \A g \in Games : since[g] # 0 => since'[g] = since[g]
      /\ todo' = R
  BY DEF Poll, QH!Poll, QH!Polling, QH!SqsReceive, QH!Deliverable, QH!GameOf, QH!Created,
         Stored, Ids, QH!Stored, QH!Ids
<1>2. QH!TypeOK'
  <2> HIDE DEF R
  <2>1. S \subseteq Nat
    <3>1. S \subseteq Ids
      BY <1>1
    <3> QED
      BY <3>1 DEF Ids
  <2>2. batch' \in [Games -> SUBSET Nat]
    <3>1. \A g \in Games : {i \in S : sent[i].game = g} \in SUBSET Nat
      BY <2>1
    <3>2. batch' = [g \in Games |-> {i \in S : sent[i].game = g}]
      BY <1>1
    <3> QED
      BY <3>1, <3>2
  <2>3. since' \in [Games -> Nat]
    BY <1>1 DEF Ids
  <2>4. todo' \in SUBSET Games
    BY <1>1 DEF R
  <2> QED
    BY <1>1, <2>2, <2>3, <2>4
    DEF Shape, TypeOK, QH!TypeOK, QH!SqsTypeOK, QH!Stored, QH!Ids, Stored, Ids
<1>3. RepoTypeOK' /\ RepoInv' /\ \A r \in Repos : Cloned(r) \/ r \in R => Cloned(r)'
  <2>1. CloneAll(R) /\ R \in SUBSET Repos
    BY BranchFacts DEF Poll
  <2> QED
    BY <2>1, CloneAllInv DEF Shape, TypeOK
<1>4. UNCHANGED <<step, cur, back, active, indexed, dropped, status, prs, raised, unproposed>>
  BY DEF Poll, stepVars, hubVars, CloneAll
<1>5. TypeOK'
  BY <1>2, <1>3, <1>4 DEF Shape, TypeOK
<1>6. HandlersCloned'
  BY <1>1, <1>3, BranchFacts DEF Shape, Flow, HandlersCloned
<1>7. OwnMessages'
  BY <1>1 DEF Shape, Flow, OwnMessages, Ids
<1>8. Position'
  BY <1>1, <1>4 DEF Shape, Flow, Position, OnCur, InTopic
<1> QED
  BY <1>3, <1>5, <1>6, <1>7, <1>8 DEF Shape, Flow

\* The state in which a handler runs.
LEMMA Running ==
  ASSUME Shape, turn # Idle
  PROVE  /\ turn \in Games /\ turn \in Branches /\ turn \in Repos /\ Cloned(turn)
         /\ ~InTopic => active[turn] = turn
         /\ \A i \in batch[turn] : /\ i \in Ids /\ sent[i].game = turn
                                   /\ sent[i].file \in Files /\ sent[i].file \in Topics
                                   /\ sent[i].file \in Branches /\ sent[i].file # turn
                                   /\ sent[i].content \in Contents /\ sent[i].mod \in Mods
                                   /\ sent[i].success \in BOOLEAN
                                   /\ Home[sent[i].file] = turn
<1>1. turn \in Games /\ turn \in Branches /\ turn \in Repos /\ Cloned(turn)
  BY BranchFacts DEF Shape, TypeOK, QH!TypeOK, Flow, HandlersCloned
<1>2. ~InTopic => active[turn] = turn
  BY DEF Shape, Flow, Position
<1>3. ASSUME NEW i \in batch[turn]
      PROVE  i \in Ids /\ sent[i].game = turn
  BY <1>1 DEF Shape, Flow, OwnMessages
<1> QED
  BY <1>1, <1>2, <1>3, KindFacts, BranchFacts, RepoAssumption DEF Shape

\* The state inside change_branch, and until its pull request is made.
LEMMA InBranch ==
  ASSUME Shape, OnCur
  PROVE  /\ turn # Idle /\ turn \in Games /\ cur \in batch[turn] /\ cur \in Ids
         /\ sent[cur].staged /\ sent[cur].success /\ sent[cur].game = turn
         /\ sent[cur].file \in Files /\ sent[cur].file \in Topics
         /\ sent[cur].file \in Branches /\ sent[cur].file # turn
         /\ sent[cur].content \in Contents /\ Home[sent[cur].file] = turn
         /\ InTopic => back = turn /\ local[sent[cur].file] # NoTree
         /\ Pair(cur) \in Pairs
<1>1. /\ turn # Idle /\ cur \in batch[turn] /\ sent[cur].staged /\ sent[cur].success
      /\ InTopic => back = turn /\ local[sent[cur].file] # NoTree
  BY DEF Shape, Flow, Position, OnCur, InTopic
<1> QED
  BY <1>1, Running DEF Pair, Pairs

\* The process starts anew: after a crash, an exception or an exit.
LEMMA ShapeFresh ==
  ASSUME Shape, QH!Fresh, Lost, UNCHANGED <<sent, acked>>,
         hidden' \subseteq Stored, faults' \in Nat
  PROVE  Shape'
<1>1. QH!TypeOK'
  BY DEF Shape, TypeOK, QH!Fresh, QH!TypeOK, QH!SqsTypeOK, QH!Stored, QH!Ids, Stored, Ids
<1>2. RepoTypeOK' /\ RepoInv'
  BY LoseClonesInv DEF Shape, TypeOK, Lost
<1>3. TypeOK'
  <2>1. unproposed' \subseteq Topics
    BY InBranch DEF Shape, TypeOK, Lost, OnCur
  <2> QED
    BY <1>1, <1>2, <2>1 DEF Shape, TypeOK, Lost, Steps
<1>4. turn' = Idle /\ todo' = {} /\ processed' = {} /\ step' = "primary"
  BY DEF QH!Fresh, Lost
<1>5. HandlersCloned'
  BY <1>4 DEF HandlersCloned, QH!Fresh
<1>6. OwnMessages'
  BY DEF Shape, Flow, OwnMessages, QH!Fresh, Ids
<1>7. Position'
  BY <1>4 DEF Position, OnCur, InTopic
<1> QED
  BY <1>2, <1>3, <1>5, <1>6, <1>7 DEF Shape, Flow

LEMMA ShapeRestart == Shape /\ Restart => Shape'
<1> SUFFICES ASSUME Shape, Restart PROVE Shape'
  OBVIOUS
<1>1. hidden' \subseteq Stored /\ faults' \in Nat
  BY DEF Shape, TypeOK, QH!TypeOK, QH!SqsTypeOK, QH!Stored, QH!Ids, Stored, Ids, Restart, sqsVars
<1> QED
  BY <1>1, ShapeFresh DEF Restart, sqsVars

LEMMA ShapePollExits ==
  ASSUME Shape, NEW S \in SUBSET Stored, PollExits(S)
  PROVE  Shape'
BY ShapeFresh DEF PollExits, QH!PollExits, QH!SqsReceive, Shape, TypeOK, QH!TypeOK

LEMMA ShapeCrash == Shape /\ Crash => Shape'
<1> SUFFICES ASSUME Shape, Crash PROVE Shape'
  OBVIOUS
<1>1. hidden' \subseteq Stored /\ faults' \in Nat
  BY DEF Shape, TypeOK, QH!TypeOK, QH!SqsTypeOK, QH!Stored, QH!Ids, Stored, Ids, Crash,
         QH!Crash, QH!sqsVars
<1> QED
  BY <1>1, ShapeFresh DEF Crash, QH!Crash, QH!sqsVars

LEMMA ShapeEnter ==
  ASSUME Shape, NEW g \in Games, Enter(g)
  PROVE  Shape'
<1>1. /\ turn = Idle /\ g \in todo /\ turn' = g /\ todo' = todo \ {g}
      /\ UNCHANGED <<sent, acked, hidden, since, batch, processed, faults>>
      /\ step' = "primary" /\ indexed' = FALSE
      /\ UNCHANGED <<cur, back, dropped, status, prs, raised, unproposed>>
  BY DEF Enter, QH!Enter, QH!Due, QH!sqsVars, hubVars
<1>2. QH!TypeOK'
  BY <1>1 DEF Shape, TypeOK, QH!TypeOK, QH!SqsTypeOK, QH!Stored, QH!Ids
<1>3. g \in Branches /\ g \in Repos /\ local[g] # NoTree
  BY <1>1, BranchFacts DEF Shape, Flow, HandlersCloned, Cloned
<1>4. active' \in [Repos -> Branches] /\ active'[g] = g
  BY <1>3 DEF Shape, TypeOK, RepoTypeOK, Enter
<1>5. /\ RepoTypeOK' /\ RepoInv'
      /\ \A b \in Branches : local[b] # NoTree => local'[b] # NoTree
  BY <1>3, <1>4, PullInv DEF Shape, TypeOK, Enter
<1>6. TypeOK'
  BY <1>1, <1>2, <1>5 DEF Shape, TypeOK, Steps
<1>7. HandlersCloned'
  BY <1>1, <1>5, BranchFacts DEF Shape, Flow, HandlersCloned, Cloned
<1>8. OwnMessages'
  BY <1>1 DEF Shape, Flow, OwnMessages, Ids
<1>9. Position'
  BY <1>1, <1>4 DEF Position, OnCur, InTopic
<1> QED
  BY <1>5, <1>6, <1>7, <1>8, <1>9 DEF Shape, Flow

-----------------------------------------------------------------------------
(* Shape in process_messages.                                              *)

\* One message more is processed.
LEMMA ProcessType ==
  ASSUME Shape, NEW i, QH!Process(i)
  PROVE  /\ QH!TypeOK' /\ OwnMessages'
         /\ UNCHANGED <<sent, acked, hidden, since, todo, turn, faults>>
         /\ turn # Idle /\ turn \in Games /\ i \in batch[turn]
         /\ processed' = processed \cup {i}
         /\ batch'[turn] = batch[turn] \ {i}
<1>1. /\ UNCHANGED <<sent, acked, hidden, since, todo, turn, faults>>
      /\ turn # Idle /\ i \in batch[turn]
      /\ processed' = processed \cup {i}
      /\ batch' = [batch EXCEPT ![turn] = batch[turn] \ {i}]
  BY DEF QH!Process, QH!sqsVars
<1>2. turn \in Games
  BY <1>1, Running
<1>3. i \in Ids /\ sent[i].game = turn
  BY <1>1, Running
<1>4. batch \in [Games -> SUBSET Nat] /\ processed \subseteq Nat /\ i \in Nat
  BY <1>3 DEF Shape, TypeOK, QH!TypeOK, Ids
<1>5. batch' \in [Games -> SUBSET Nat] /\ processed' \subseteq Nat
  BY <1>1, <1>4
<1>6. \A g \in Games : batch'[g] \subseteq batch[g]
  BY <1>1, <1>4
<1>7. QH!TypeOK'
  BY <1>1, <1>5 DEF Shape, TypeOK, QH!TypeOK, QH!SqsTypeOK, QH!Stored, QH!Ids
<1>8. OwnMessages'
  BY <1>1, <1>3, <1>6 DEF Shape, Flow, OwnMessages, Ids
<1>9. batch'[turn] = batch[turn] \ {i}
  BY <1>1, <1>2, <1>4
<1> QED
  BY <1>1, <1>2, <1>7, <1>8, <1>9

LEMMA StatusType ==
  ASSUME TypeOK, NEW i \in Ids, sent[i].game \in Games, NEW x, RecordStatus(i, x)
  PROVE  status' \in [Rows -> [inflated : Nat, indexed : Nat]]
<1>1. Row(i) \in Rows /\ i \in Nat
  BY KindFacts DEF Ids, Row, Rows
<1>2. status[Row(i)].indexed \in Nat
  BY <1>1 DEF TypeOK
<1>3. [inflated |-> i, indexed |-> IF x THEN i ELSE status[Row(i)].indexed]
        \in [inflated : Nat, indexed : Nat]
  BY <1>1, <1>2
<1> QED
  BY <1>1, <1>3 DEF TypeOK, RecordStatus

LEMMA ShapePrimary ==
  ASSUME Shape, NEW i \in Ids, ProcessPrimary(i)
  PROVE  Shape'
<1> DEFINE commit == sent[i].success /\ Changed(i)
<1>1. /\ QH!Process(i) /\ step = "primary"
      /\ IF commit THEN CommitTo(turn, sent[i].file, sent[i].content) ELSE UNCHANGED repoVars
      /\ indexed' = (indexed \/ commit)
      /\ RecordStatus(i, commit)
      /\ UNCHANGED <<step, cur, back, prs, raised, unproposed, dropped>>
  BY DEF ProcessPrimary, hubVars
<1>2. /\ QH!TypeOK' /\ OwnMessages' /\ turn # Idle /\ i \in batch[turn]
      /\ UNCHANGED <<since, todo, turn>>
  BY <1>1, ProcessType
<1>3. active[turn] = turn /\ local[turn] # NoTree
  BY <1>1, <1>2, Running DEF InTopic, Cloned
<1>4. /\ RepoTypeOK' /\ RepoInv' /\ active' = active
      /\ \A b \in Branches : local[b] # NoTree => local'[b] # NoTree
  <2>1. CASE commit
    <3>1. CommitTo(turn, sent[i].file, sent[i].content)
      BY <2>1, <1>1
    <3>2. turn \in Repos /\ sent[i].file \in Files /\ sent[i].content \in Contents
      BY <1>2, Running
    <3>3. local[active[turn]] # NoTree
      BY <1>3
    <3>4. active' = active
      BY <3>1 DEF CommitTo
    <3> QED
      BY <3>1, <3>2, <3>3, <3>4, CommitToInv DEF Shape, TypeOK
  <2>2. CASE ~commit
    BY <2>2, <1>1, RepoUnchanged DEF Shape, TypeOK, repoVars, cloneVars
  <2> QED
    BY <2>1, <2>2
<1>5. TypeOK'
  <2>1. indexed' \in BOOLEAN
    BY <1>1
  <2> QED
    BY <1>1, <1>2, <1>4, <2>1, StatusType, Running DEF Shape, TypeOK
<1>6. HandlersCloned'
  BY <1>2, <1>4, BranchFacts DEF Shape, Flow, HandlersCloned, Cloned
<1>7. Position'
  BY <1>1, <1>2, <1>3, <1>4 DEF Position, OnCur, InTopic
<1> QED
  BY <1>2, <1>4, <1>5, <1>6, <1>7 DEF Shape, Flow

\* Steps that only move the handler on, with the clones left in order.
LEMMA ShapeMove ==
  ASSUME Shape, RepoTypeOK', RepoInv', UNCHANGED <<loopVars, cur, status>>,
         step' \in {"primary", "push", "staged"}, ~InTopic, turn # Idle,
         indexed' \in BOOLEAN, dropped' \subseteq Pairs,
         UNCHANGED <<back, active, prs, raised, unproposed>>,
         \A b \in Branches : local[b] # NoTree => local'[b] # NoTree
  PROVE  Shape'
<1>1. QH!TypeOK'
  BY LoopUnchanged DEF Shape, TypeOK
<1>2. TypeOK'
  BY <1>1 DEF Shape, TypeOK, Steps
<1>3. HandlersCloned'
  BY BranchFacts DEF Shape, Flow, HandlersCloned, Cloned, loopVars
<1>4. OwnMessages'
  BY DEF Shape, Flow, OwnMessages, loopVars, sqsVars, Ids
<1>5. Position'
  BY DEF Shape, Flow, Position, OnCur, InTopic, loopVars
<1> QED
  BY <1>2, <1>3, <1>4, <1>5 DEF Shape, Flow

LEMMA ShapeSkip == Shape /\ SkipPush => Shape'
<1> SUFFICES ASSUME Shape, SkipPush PROVE Shape'
  OBVIOUS
<1>1. RepoTypeOK' /\ RepoInv'
  BY RepoUnchanged DEF Shape, TypeOK, SkipPush
<1> QED
  BY <1>1, ShapeMove DEF SkipPush, PrimaryDone, InTopic, Shape, TypeOK, hubVars, repoVars, cloneVars

LEMMA ShapePull == Shape /\ PullPrimary => Shape'
<1> SUFFICES ASSUME Shape, PullPrimary PROVE Shape'
  OBVIOUS
<1>1. turn # Idle /\ ~InTopic
  BY DEF PullPrimary, PrimaryDone, InTopic
<1>2. /\ RepoTypeOK' /\ RepoInv'
      /\ \A b \in Branches : local[b] # NoTree => local'[b] # NoTree
  BY <1>1, Running, PullInv DEF PullPrimary, Shape, TypeOK, RepoTypeOK, Cloned
<1> QED
  BY <1>1, <1>2, ShapeMove DEF PullPrimary, Shape, TypeOK, hubVars

LEMMA ShapePush == Shape /\ PushPrimary => Shape'
<1> SUFFICES ASSUME Shape, PushPrimary PROVE Shape'
  OBVIOUS
<1>1. /\ turn # Idle /\ ~InTopic /\ step' = "staged" /\ indexed' = FALSE
      /\ UNCHANGED <<loopVars, cur, back, prs, raised, unproposed, status>>
  BY DEF PushPrimary, InTopic, hubVars
<1>2. CASE Pushed(turn) /\ UNCHANGED <<active, dropped>>
  <2>1. RepoTypeOK' /\ RepoInv'
    BY <1>1, <1>2, Running, PushedInv DEF Shape, TypeOK, RepoTypeOK, Cloned
  <2> QED
    BY <1>1, <1>2, <2>1, ShapeMove DEF Shape, TypeOK, Pushed
<1>3. CASE dropped' = dropped \cup unpushed[turn] /\ UNCHANGED repoVars
  <2>1. RepoTypeOK' /\ RepoInv'
    BY <1>3, RepoUnchanged DEF Shape, TypeOK
  <2>2. dropped' \subseteq Pairs
    BY <1>1, <1>3, Running DEF Shape, TypeOK, RepoTypeOK
  <2> QED
    BY <1>1, <1>3, <2>1, <2>2, ShapeMove DEF repoVars, cloneVars
<1> QED
  BY <1>2, <1>3 DEF PushPrimary

\* What is left to show of a step once its parts are known to be in order.
LEMMA ShapeParts ==
  ASSUME Shape, QH!TypeOK', RepoTypeOK', RepoInv', OwnMessages', Position',
         since' = since, todo' \subseteq todo, turn' \in {turn, Idle},
         step' \in Steps, cur' \in Nat, back' \in Branches \cup {Idle},
         indexed' \in BOOLEAN, dropped' \subseteq Pairs,
         status' \in [Rows -> [inflated : Nat, indexed : Nat]],
         prs' \subseteq Topics, raised' \subseteq Topics, unproposed' \subseteq Topics,
         \A b \in Branches : local[b] # NoTree => local'[b] # NoTree
  PROVE  Shape'
<1>1. TypeOK'
  BY DEF TypeOK
<1>2. HandlersCloned'
  BY BranchFacts DEF Shape, Flow, HandlersCloned, Cloned
<1> QED
  BY <1>1, <1>2 DEF Shape, Flow

LEMMA ShapeProcessStaged ==
  ASSUME Shape, NEW i \in Ids, ProcessStaged(i)
  PROVE  Shape'
<1>1. /\ QH!Process(i) /\ RecordStatus(i, FALSE) /\ step = "staged"
      /\ UNCHANGED <<repoVars, step, cur, back, indexed, prs, raised, unproposed, dropped>>
  BY DEF ProcessStaged, NextStaged, stepVars, hubVars
<1>2. /\ QH!TypeOK' /\ OwnMessages' /\ turn # Idle
      /\ UNCHANGED <<since, todo, turn>>
  BY <1>1, ProcessType
<1>3. active[turn] = turn
  BY <1>1, <1>2, Running DEF InTopic
<1>4. RepoTypeOK' /\ RepoInv' /\ UNCHANGED <<active, local>>
  BY <1>1, RepoUnchanged DEF Shape, TypeOK, repoVars, cloneVars
<1>5. Position'
  BY <1>1, <1>2, <1>3, <1>4 DEF Position, OnCur, InTopic
<1>6. sent[i].game \in Games
  BY <1>1, ProcessType, Running
<1> QED
  BY <1>1, <1>2, <1>4, <1>5, <1>6, StatusType, ShapeParts DEF Shape, TypeOK

LEMMA ShapeOpen ==
  ASSUME Shape, NEW i \in Ids, OpenStaged(i)
  PROVE  Shape'
<1> DEFINE t == sent[i].file
           commit == Start(t)[t] # sent[i].content
           C == IF commit THEN {Pair(i)} ELSE {}
<1>1. /\ turn # Idle /\ step = "staged" /\ i \in batch[turn]
      /\ sent[i].staged /\ sent[i].success
      /\ OpenTopic(t, C) /\ RecordStatus(i, commit) /\ indexed' = commit
      /\ back' = active[turn] /\ cur' = i /\ step' = "merge"
      /\ UNCHANGED <<loopVars, prs, raised, unproposed, dropped>>
  BY DEF OpenStaged, NextStaged, Earliest, Staged, ToStage, hubVars
<1>2. /\ turn \in Branches /\ active[turn] = turn /\ local[turn] # NoTree
      /\ t \in Topics /\ Home[t] = turn /\ Pair(i) \in Files \X Contents
  BY <1>1, Running DEF InTopic, Cloned, Pair
<1>3. C \in SUBSET (Files \X Contents)
  BY <1>2
<1>4. local[active[Home[t]]] # NoTree
  BY <1>2
<1> HIDE DEF C, commit, t
<1>5. /\ RepoTypeOK' /\ RepoInv' /\ local'[t] # NoTree
      /\ \A b \in Branches : local[b] # NoTree => local'[b] # NoTree
  BY <1>1, <1>2, <1>3, <1>4, OpenTopicInv DEF Shape, TypeOK
<1>6. QH!TypeOK' /\ OwnMessages' /\ UNCHANGED <<since, todo, turn, batch, sent>>
  BY <1>1, LoopUnchanged DEF Shape, TypeOK, Flow, OwnMessages, loopVars, sqsVars, Ids
<1>7. Position'
  BY <1>1, <1>2, <1>5, <1>6 DEF Position, OnCur, InTopic, t
<1>8. indexed' \in BOOLEAN
  BY <1>1, Zenon DEF commit
<1>9. i \in Nat
  BY DEF Ids
<1>10. status' \in [Rows -> [inflated : Nat, indexed : Nat]]
  BY <1>1, StatusType, Running DEF Shape
<1> QED
  BY <1>1, <1>2, <1>5, <1>6, <1>7, <1>8, <1>9, <1>10, ShapeParts DEF Shape, TypeOK, Steps

LEMMA ShapeMerge == Shape /\ MergeStaged => Shape'
<1> SUFFICES ASSUME Shape, MergeStaged PROVE Shape'
  OBVIOUS
<1> DEFINE t == sent[cur].file
<1>1. /\ step = "merge" /\ step' = "publish" /\ PullTopic(t) /\ active' = active
      /\ UNCHANGED <<loopVars, cur, back, indexed, prs, raised, unproposed, dropped, status>>
  BY DEF MergeStaged, PullTopic, hubVars
<1>2. /\ turn # Idle /\ t \in Branches /\ local[t] # NoTree /\ back = turn
      /\ cur \in batch[turn] /\ sent[cur].staged /\ sent[cur].success
  BY <1>1, InBranch DEF OnCur, InTopic
<1> HIDE DEF t
<1>3. active' \in [Repos -> Branches]
  BY <1>1 DEF Shape, TypeOK, RepoTypeOK
<1>4. /\ RepoTypeOK' /\ RepoInv'
      /\ \A b \in Branches : local[b] # NoTree => local'[b] # NoTree
  <2>1. CASE Pull(t)
    BY <2>1, <1>2, <1>3, PullInv DEF Shape, TypeOK
  <2>2. CASE UNCHANGED <<local, base, behind, unpushed, remoteVars>>
    BY <2>2, <1>3, CheckoutInv DEF Shape, TypeOK
  <2> QED
    BY <1>1, <2>1, <2>2 DEF PullTopic
<1>5. QH!TypeOK' /\ OwnMessages' /\ UNCHANGED <<since, todo, turn, batch, sent>>
  BY <1>1, LoopUnchanged DEF Shape, TypeOK, Flow, OwnMessages, loopVars, sqsVars, Ids
<1>6. Position'
  BY <1>1, <1>2, <1>4, <1>5 DEF Position, OnCur, InTopic, t
<1> QED
  BY <1>1, <1>4, <1>5, <1>6, ShapeParts DEF Shape, TypeOK, Steps

LEMMA ShapePublish == Shape /\ PublishStaged => Shape'
<1> SUFFICES ASSUME Shape, PublishStaged PROVE Shape'
  OBVIOUS
<1> DEFINE t == sent[cur].file
<1>1. /\ step = "publish" /\ back' = Idle
      /\ Pushed(t) /\ active' = [active EXCEPT ![Home[t]] = back] /\ local' = local
      /\ UNCHANGED <<prs, raised, unproposed, dropped, status>>
  BY DEF PublishStaged, CloseTopic, Pushed, hubVars
<1>2. /\ turn # Idle /\ turn \in Repos /\ t \in Branches /\ local[t] # NoTree /\ back = turn
      /\ Home[t] = turn
      /\ cur \in batch[turn] /\ cur \in Ids /\ sent[cur].staged /\ sent[cur].success
  BY <1>1, InBranch, BranchFacts DEF OnCur, InTopic
<1> HIDE DEF t
<1>3. active' \in [Repos -> Branches] /\ active'[turn] = turn
  BY <1>1, <1>2 DEF Shape, TypeOK, RepoTypeOK, Branches
<1>4. RepoTypeOK' /\ RepoInv'
  BY <1>1, <1>2, <1>3, PushedInv DEF Shape, TypeOK
<1>5. CASE step' = "propose" /\ UNCHANGED <<loopVars, cur, indexed>>
  <2>1. QH!TypeOK' /\ OwnMessages' /\ UNCHANGED <<since, todo, turn, batch, sent>>
    BY <1>5, LoopUnchanged DEF Shape, TypeOK, Flow, OwnMessages, loopVars, sqsVars, Ids
  <2>2. Position'
    BY <1>2, <1>3, <1>5, <2>1 DEF Position, OnCur, InTopic
  <2> QED
    BY <1>1, <1>4, <1>5, <2>1, <2>2, ShapeParts DEF Shape, TypeOK, Steps
<1>6. CASE StagedDone
  <2>1. /\ QH!TypeOK' /\ OwnMessages' /\ UNCHANGED <<since, todo, turn>>
        /\ cur' = 0 /\ step' = "staged" /\ indexed' = FALSE
    BY <1>6, ProcessType DEF StagedDone
  <2>2. Position'
    BY <1>2, <1>3, <2>1 DEF Position, OnCur, InTopic
  <2> QED
    BY <1>1, <1>4, <2>1, <2>2, ShapeParts DEF Shape, TypeOK, Steps
<1> QED
  BY <1>5, <1>6 DEF PublishStaged

LEMMA ShapeProposed ==
  ASSUME Shape, step = "propose", StagedDone, UNCHANGED <<local, active, back, status>>,
         RepoTypeOK', RepoInv', dropped' \subseteq Pairs,
         prs' \subseteq Topics, raised' \subseteq Topics, unproposed' \subseteq Topics
  PROVE  Shape'
<1>1. turn # Idle /\ active[turn] = turn
  BY InBranch, Running DEF OnCur, InTopic
<1>2. /\ QH!TypeOK' /\ OwnMessages' /\ UNCHANGED <<since, todo, turn>>
      /\ cur' = 0 /\ step' = "staged" /\ indexed' = FALSE
  BY ProcessType DEF StagedDone
<1>3. Position'
  BY <1>1, <1>2 DEF Position, OnCur, InTopic
<1> QED
  BY <1>2, <1>3, ShapeParts DEF Shape, TypeOK, Steps

LEMMA ShapePropose == Shape /\ Propose => Shape'
<1> SUFFICES ASSUME Shape, Propose PROVE Shape'
  OBVIOUS
<1>1. RepoTypeOK' /\ RepoInv' /\ UNCHANGED <<local, active>>
  BY RepoUnchanged DEF Shape, TypeOK, Propose, repoVars, cloneVars
<1>2. prs' \subseteq Topics /\ raised' \subseteq Topics /\ unproposed' \subseteq Topics
  BY InBranch DEF Shape, TypeOK, Propose, OnCur
<1> QED
  BY <1>1, <1>2, ShapeProposed DEF Propose, Shape, TypeOK

LEMMA ShapeProposeFails == Shape /\ ProposeFails => Shape'
<1> SUFFICES ASSUME Shape, ProposeFails PROVE Shape'
  OBVIOUS
<1>1. RepoTypeOK'
  BY DEF Shape, TypeOK, RepoTypeOK, ProposeFails, cloneVars
<1>2. RepoInv'
  BY DEF Shape, RepoInv, RemoteShown, LocalShown, BaseIsRemote, PrimaryExists, Cloned,
         ProposeFails, cloneVars
<1>3. dropped' \subseteq Pairs
  BY InBranch DEF Shape, TypeOK, ProposeFails, OnCur
<1> QED
  BY <1>1, <1>2, <1>3, ShapeProposed DEF ProposeFails, Shape, TypeOK, hubVars, cloneVars

\* Steps of the loop that do not concern the handler's own state.
LEMMA ShapeOthers ==
  ASSUME Shape, QH!TypeOK', OwnMessages', Position', UNCHANGED Others,
         since' = since, todo' \subseteq todo, turn' \in {turn, Idle}
  PROVE  Shape'
<1>1. /\ RepoTypeOK' /\ RepoInv'
      /\ UNCHANGED <<local, step, cur, back, indexed, prs, raised, unproposed, dropped, status>>
  BY RepoUnchanged DEF Shape, TypeOK, Others, repoVars, cloneVars, stepVars, hubVars
<1> QED
  BY <1>1, ShapeParts DEF Shape, TypeOK

LEMMA ShapeLeave ==
  ASSUME Shape, AtEnd, NEW D \in SUBSET processed, QH!Leave(D), UNCHANGED Others,
         faults' \in Nat
  PROVE  Shape'
<1>1. /\ turn' = Idle /\ processed' = {} /\ UNCHANGED <<since, batch, todo, sent>>
      /\ acked' = acked \cup (D \cap hidden) /\ hidden' = hidden \ D
  BY DEF QH!Leave, QH!SqsDelete
<1>2. QH!TypeOK'
  BY <1>1 DEF Shape, TypeOK, QH!TypeOK, QH!SqsTypeOK, QH!Stored, QH!Ids
<1>3. OwnMessages'
  BY <1>1 DEF Shape, TypeOK, QH!TypeOK, Flow, OwnMessages, Ids
<1>4. Position'
  BY <1>1 DEF AtEnd, Position, OnCur, InTopic, Others, stepVars
<1> QED
  BY <1>1, <1>2, <1>3, <1>4, ShapeOthers

LEMMA ShapeFinish == Shape /\ Finish => Shape'
BY ShapeLeave DEF Finish, QH!Finish, Shape, TypeOK, QH!TypeOK

LEMMA ShapeFinishPartly == Shape /\ FinishPartly => Shape'
<1> SUFFICES ASSUME Shape, FinishPartly PROVE Shape'
  OBVIOUS
<1>1. PICK D \in SUBSET processed : QH!Leave(D)
  BY DEF FinishPartly, QH!FinishPartly
<1>2. faults' \in Nat
  BY DEF FinishPartly, QH!FinishPartly, Shape, TypeOK, QH!TypeOK
<1> QED
  BY <1>1, <1>2, ShapeLeave DEF FinishPartly

LEMMA ShapeExpire ==
  ASSUME Shape, QH!SqsExpire, UNCHANGED <<since, batch, todo, turn, processed>>,
         UNCHANGED Others, faults' \in Nat
  PROVE  Shape'
<1>1. hidden' = {} /\ UNCHANGED <<sent, acked, step, cur, back, local, active>>
  BY DEF QH!SqsExpire, Others, stepVars, repoVars, cloneVars
<1>2. QH!TypeOK'
  BY <1>1 DEF Shape, TypeOK, QH!TypeOK, QH!SqsTypeOK, QH!Stored, QH!Ids
<1>3. OwnMessages' /\ Position'
  BY <1>1 DEF Shape, Flow, OwnMessages, Position, OnCur, InTopic, Ids
<1> QED
  BY <1>2, <1>3, ShapeOthers

LEMMA ShapeReappear == Shape /\ Reappear => Shape'
BY ShapeExpire DEF Reappear, QH!Reappear, QH!loopVars, Shape, TypeOK, QH!TypeOK

LEMMA ShapeOverrun == Shape /\ Overrun => Shape'
BY ShapeExpire DEF Overrun, QH!Overrun, QH!loopVars, Shape, TypeOK, QH!TypeOK

\* What others do on GitHub.
LEMMA ShapeOutside ==
  ASSUME Shape, RepoTypeOK', RepoInv', UNCHANGED <<local, active>>,
         UNCHANGED <<loopVars, stepVars, raised, unproposed, dropped, status>>, prs' \subseteq prs
  PROVE  Shape'
<1>1. QH!TypeOK' /\ OwnMessages' /\ UNCHANGED <<since, todo, turn, batch, sent>>
  BY LoopUnchanged DEF Shape, TypeOK, Flow, OwnMessages, loopVars, sqsVars, Ids
<1>2. Position'
  BY <1>1 DEF Shape, Flow, Position, OnCur, InTopic, stepVars
<1> QED
  BY <1>1, <1>2, ShapeParts DEF Shape, TypeOK, stepVars

LEMMA ShapeOthersEdit ==
  ASSUME Shape, NEW b \in Branches, NEW f \in Files, NEW c \in Contents \cup {Absent},
         OthersEdit(b, f, c)
  PROVE  Shape'
<1>1. RepoTypeOK' /\ RepoInv' /\ UNCHANGED <<local, active>>
  BY OutsideEditInv DEF Shape, TypeOK, OthersEdit, OutsideEdit, Outside
<1> QED
  BY <1>1, ShapeOutside DEF OthersEdit, hubVars

LEMMA ShapeOthersMerge ==
  ASSUME Shape, NEW t \in Topics, OthersMerge(t)
  PROVE  Shape'
<1>1. t \in Files
  BY BranchFacts
<1>2. RepoTypeOK' /\ RepoInv' /\ UNCHANGED <<local, active>>
  BY <1>1, OutsideMergeInv DEF Shape, TypeOK, OthersMerge, OutsideMerge
<1> QED
  BY <1>2, ShapeOutside DEF OthersMerge

LEMMA ShapeStutter == Shape /\ UNCHANGED vars => Shape'
BY ShapeOutside, RepoUnchanged DEF Shape, TypeOK, vars, repoVars, cloneVars, hubVars

LEMMA ShapeNext == Shape /\ [Next]_vars => Shape'
<1> SUFFICES ASSUME Shape, [Next]_vars PROVE Shape'
  OBVIOUS
<1>1. ASSUME Handle PROVE Shape'
  <2>1. ASSUME NEW g \in Games, Enter(g) \/ EnterRaises(g) PROVE Shape'
    BY <2>1, ShapeEnter, ShapeRestart DEF EnterRaises
  <2>2. ASSUME NEW i \in Ids, ProcessPrimary(i) \/ ProcessStaged(i) \/ OpenStaged(i)
        PROVE  Shape'
    BY <2>2, ShapePrimary, ShapeProcessStaged, ShapeOpen
  <2>3. ASSUME SkipPush \/ PullPrimary \/ PullRaises \/ PushPrimary PROVE Shape'
    BY <2>3, ShapeSkip, ShapePull, ShapeRestart, ShapePush DEF PullRaises
  <2>4. ASSUME MergeStaged \/ PublishStaged \/ PublishRaises \/ Propose PROVE Shape'
    BY <2>4, ShapeMerge, ShapePublish, ShapeRestart, ShapePropose DEF PublishRaises
  <2> QED
    BY <1>1, <2>1, <2>2, <2>3, <2>4, ShapeFinish DEF Handle
<1>2. ASSUME NEW k \in Kinds, Send(k) PROVE Shape'
  BY <1>2, ShapeSend
<1>3. ASSUME NEW S \in SUBSET Stored, Poll(S) \/ PollExits(S) PROVE Shape'
  BY <1>3, ShapePoll, ShapePollExits
<1>4. ASSUME ProposeFails \/ FinishPartly \/ Reappear \/ Overrun \/ Crash PROVE Shape'
  BY <1>4, ShapeProposeFails, ShapeFinishPartly, ShapeReappear, ShapeOverrun, ShapeCrash
<1>5. ASSUME NEW b \in Branches, NEW f \in Files, NEW c \in Contents \cup {Absent},
             OthersEdit(b, f, c)
      PROVE  Shape'
  BY <1>5, ShapeOthersEdit
<1>6. ASSUME NEW t \in Topics, OthersMerge(t) PROVE Shape'
  BY <1>6, ShapeOthersMerge
<1> QED
  BY <1>1, <1>2, <1>3, <1>4, <1>5, <1>6, ShapeStutter DEF Next

LEMMA ShapeHolds == Spec => []Shape
BY ShapeInit, ShapeNext, PTL DEF Spec

\* Every variable keeps its type: in particular the branch checked out is
\* always a branch of the clone, whatever raised or died in change_branch.
THEOREM TypeCorrect == Spec => []TypeOK
<1>1. Shape => TypeOK
  BY DEF Shape
<1> QED
  BY <1>1, ShapeHolds, PTL

-----------------------------------------------------------------------------
(* What is on GitHub, or was refused, stays so.                            *)

LEMMA PublishedStays ==
  ASSUME Shape, NEW i \in Ids, sent[i].game \in Games, sent'[i] = sent[i],
         \A b \in Branches : shown[b] \subseteq shown'[b],
         dropped \subseteq dropped', Published(i)
  PROVE  Published(i)'
<1>1. sent[i].game \in Branches /\ sent[i].file \in Branches
  BY KindFacts, BranchFacts DEF Shape
<1> QED
  BY <1>1 DEF Published, Pair

LEMMA DeletedStays ==
  ASSUME Shape, DeletedIsPublished, acked' = acked, \A i \in Ids : sent'[i] = sent[i],
         \A b \in Branches : shown[b] \subseteq shown'[b], dropped \subseteq dropped'
  PROVE  DeletedIsPublished'
<1>1. \A i \in acked : i \in Ids /\ sent[i].game \in Games
  BY DEF Shape, Flow, OwnMessages
<1> QED
  BY <1>1, PublishedStays DEF DeletedIsPublished

\* What has been processed stays published when the step of the handler is
\* still before, or still after, the push to the primary branch.
LEMMA ProcessedStays ==
  ASSUME Shape, ProcessedKept, turn' = turn, processed' \subseteq processed,
         \A i \in Ids : sent'[i] = sent[i],
         step' \in {"primary", "push"} <=> step \in {"primary", "push"},
         \A b \in Branches : shown[b] \subseteq shown'[b], dropped \subseteq dropped',
         turn # Idle => unpushed[turn] \subseteq shown'[turn] \cup dropped' \cup unpushed'[turn]
  PROVE  ProcessedKept'
<1> SUFFICES ASSUME NEW i \in processed', sent'[i].success
             PROVE  IF step' \in {"primary", "push"}
                    THEN Pair(i)' \in shown'[turn] \cup dropped' \cup unpushed'[turn]
                    ELSE Published(i)'
  BY DEF ProcessedKept
<1>1. i \in processed /\ i \in Ids /\ turn # Idle /\ sent[i].game = turn /\ sent'[i] = sent[i]
  BY DEF Shape, Flow, OwnMessages
<1>2. turn \in Games /\ turn \in Branches
  BY <1>1, Running
<1>3. Pair(i)' = Pair(i)
  BY <1>1 DEF Pair
<1>4. CASE step \in {"primary", "push"}
  BY <1>1, <1>2, <1>3, <1>4 DEF ProcessedKept
<1>5. CASE step \notin {"primary", "push"}
  BY <1>1, <1>2, <1>5, PublishedStays DEF ProcessedKept
<1> QED
  BY <1>4, <1>5

\* Steps that leave the topic branches of the clone and the message inside
\* change_branch alone.
LEMMA TopicStays ==
  ASSUME Shape, TopicShown, InTopic' => InTopic, InTopic => InTopic',
         InTopic => sent'[cur'] = sent[cur],
         \A t \in Topics : local'[t] = local[t] \/ local'[t] = NoTree,
         \A b \in Branches : shown[b] \subseteq shown'[b]
  PROVE  TopicShown'
BY DEF TopicShown, Branches

Kept == Content /\ DeletedIsPublished

-----------------------------------------------------------------------------
(* The loop.                                                               *)

LEMMA KeptInit == Init => Kept
BY DEF Init, QH!Init, QH!SqsInit, RepoInit, Kept, Content, TopicShown, UnpushedDropped,
       ProcessedKept, CurKept, OnCur, DeletedIsPublished, Branches

\* Steps of the loop, or of SQS, in which the handler does not move.
LEMMA KeptOutside ==
  ASSUME Shape, Kept, UNCHANGED <<acked, turn, processed, step, cur, indexed, unpushed>>,
         \A i \in Ids : sent'[i] = sent[i],
         \A t \in Topics : local'[t] = local[t],
         \A b \in Branches : shown[b] \subseteq shown'[b], dropped' = dropped
  PROVE  Kept'
<1>1. DeletedIsPublished'
  BY DeletedStays DEF Kept
<1>2. OnCur => cur \in Ids /\ sent[cur].file \in Branches
  BY InBranch
<1>3. OnCur' = OnCur /\ InTopic' = InTopic
  BY DEF OnCur, InTopic
<1>4. TopicShown'
  BY <1>2, <1>3, TopicStays DEF Kept, Content, OnCur, InTopic
<1>5. UnpushedDropped'
  BY DEF Kept, Content, UnpushedDropped, Owing
<1>6. ProcessedKept'
  BY ProcessedStays DEF Kept, Content
<1>7. CurKept'
  BY <1>2, <1>3 DEF Kept, Content, CurKept, Pair
<1> QED
  BY <1>1, <1>4, <1>5, <1>6, <1>7 DEF Kept, Content

\* The process starts anew.
LEMMA KeptFresh ==
  ASSUME Shape, Kept, QH!Fresh, Lost, UNCHANGED <<sent, acked>>
  PROVE  Kept'
<1>1. /\ turn' = Idle /\ processed' = {} /\ step' = "primary" /\ indexed' = FALSE
      /\ shown' = shown /\ dropped' = dropped
      /\ local' = [b \in Branches |-> NoTree] /\ unpushed' = [b \in Branches |-> {}]
  BY DEF QH!Fresh, Lost, LoseClones, remoteVars
<1>2. DeletedIsPublished'
  BY <1>1, DeletedStays DEF Kept
<1>3. Content'
  BY <1>1 DEF Content, TopicShown, UnpushedDropped, ProcessedKept, CurKept, OnCur, Branches
<1> QED
  BY <1>2, <1>3 DEF Kept

LEMMA KeptRestart == Shape /\ Kept /\ (Restart \/ Crash) => Kept'
BY KeptFresh DEF Restart, Crash, QH!Crash, QH!sqsVars, sqsVars

LEMMA KeptPollExits ==
  ASSUME Shape, Kept, NEW S \in SUBSET Stored, PollExits(S)
  PROVE  Kept'
BY KeptFresh DEF PollExits, QH!PollExits, QH!SqsReceive

LEMMA KeptSend ==
  ASSUME Shape, Kept, NEW k \in Kinds, Send(k)
  PROVE  Kept'
<1>1. \A i \in Ids : sent'[i] = sent[i]
  BY ShapeSend
<1>2. UNCHANGED <<acked, turn, processed, step, cur, indexed, unpushed, local, shown, dropped>>
  BY DEF Send, QH!Send, QH!SqsSend, QH!loopVars, repoVars, cloneVars, remoteVars, stepVars
<1> QED
  BY <1>1, <1>2, KeptOutside

LEMMA KeptPoll ==
  ASSUME Shape, Kept, NEW S \in SUBSET Stored, Poll(S)
  PROVE  Kept'
<1>1. \A t \in Topics : local'[t] = local[t]
  BY RepoAssumption, BranchFacts DEF Poll, CloneAll, Branches
<1>2. UNCHANGED <<sent, acked, turn, processed, step, cur, indexed, unpushed, shown, dropped>>
  BY DEF Poll, QH!Poll, QH!SqsReceive, CloneAll, remoteVars, stepVars
<1> QED
  BY <1>1, <1>2, KeptOutside

LEMMA KeptExpire == Shape /\ Kept /\ (Reappear \/ Overrun) => Kept'
BY KeptOutside DEF Reappear, QH!Reappear, Overrun, QH!Overrun, QH!SqsExpire, QH!loopVars, Others,
                   repoVars, cloneVars, remoteVars, stepVars

LEMMA KeptOthersEdit ==
  ASSUME Shape, Kept, NEW b \in Branches, NEW f \in Files, NEW c \in Contents \cup {Absent},
         OthersEdit(b, f, c)
  PROVE  Kept'
<1>1. \A a \in Branches : shown[a] \subseteq shown'[a]
  BY OutsideEditInv DEF Shape, TypeOK, OthersEdit
<1> QED
  BY <1>1, KeptOutside DEF OthersEdit, OutsideEdit, Outside, loopVars, sqsVars, stepVars

LEMMA KeptOthersMerge ==
  ASSUME Shape, Kept, NEW t \in Topics, OthersMerge(t)
  PROVE  Kept'
<1>1. \A a \in Branches : shown[a] \subseteq shown'[a]
  BY OutsideMergeInv, BranchFacts DEF Shape, TypeOK, OthersMerge
<1> QED
  BY <1>1, KeptOutside DEF OthersMerge, OutsideMerge, loopVars, sqsVars, stepVars

-----------------------------------------------------------------------------
(* The primary queue.                                                      *)

\* Without a handler nothing has been processed, and no push is owed.
LEMMA KeptEnter ==
  ASSUME Shape, Kept, NEW g \in Games, Enter(g)
  PROVE  Kept'
<1>1. /\ turn = Idle /\ turn' = g /\ step' = "primary" /\ indexed' = FALSE
      /\ UNCHANGED <<sent, acked, processed, cur, shown, unpushed, dropped>>
  BY DEF Enter, QH!Enter, QH!Due, QH!sqsVars, Pull, remoteVars
<1>2. processed = {} /\ ~InTopic /\ ~InTopic'
  BY <1>1 DEF Shape, Flow, OwnMessages, Position, InTopic
<1>3. \A t \in Topics : local'[t] = local[t]
  BY RepoAssumption, BranchFacts DEF Enter, Pull, Shape, TypeOK, RepoTypeOK, Branches
<1>4. DeletedIsPublished'
  BY <1>1, DeletedStays DEF Kept
<1>5. TopicShown'
  BY <1>1, <1>2, <1>3, TopicStays DEF Kept, Content
<1>6. Idle \notin Repos
  BY IndexerAssumption
<1>7. UnpushedDropped'
  BY <1>1, <1>6 DEF Kept, Content, UnpushedDropped, Owing
<1>8. ProcessedKept' /\ CurKept'
  BY <1>1, <1>2 DEF ProcessedKept, CurKept, OnCur
<1> QED
  BY <1>4, <1>5, <1>7, <1>8 DEF Kept, Content

\* The metadata of a message that needs no commit is in the clone already.
LEMMA UnchangedKnown ==
  ASSUME Shape, turn # Idle, ~InTopic, NEW i \in batch[turn], ~Changed(i)
  PROVE  Pair(i) \in shown[turn] \cup unpushed[turn]
<1>1. local[turn][sent[i].file] = sent[i].content /\ turn \in Repos /\ Cloned(turn)
      /\ sent[i].file \in Files
  BY Running DEF Changed
<1>2. Pair(i) \in PairsOf(local[turn])
  BY <1>1 DEF PairsOf, Pair
<1> QED
  BY <1>1, <1>2 DEF Shape, RepoInv, LocalShown

LEMMA KeptPrimary ==
  ASSUME Shape, Kept, NEW i \in Ids, ProcessPrimary(i)
  PROVE  Kept'
<1> DEFINE commit == sent[i].success /\ Changed(i)
<1>1. /\ QH!Process(i) /\ step = "primary" /\ step' = "primary"
      /\ IF commit THEN CommitTo(turn, sent[i].file, sent[i].content) ELSE UNCHANGED repoVars
      /\ indexed' = (indexed \/ commit)
      /\ UNCHANGED <<cur, dropped>>
  BY DEF ProcessPrimary
<1>2. /\ turn # Idle /\ turn \in Games /\ i \in batch[turn] /\ processed' = processed \cup {i}
      /\ UNCHANGED <<sent, acked, turn>>
  BY <1>1, ProcessType
<1>3. ~InTopic /\ ~InTopic' /\ active[turn] = turn /\ turn \in Branches
  BY <1>1, <1>2, Running DEF InTopic
<1>4. /\ shown' = shown
      /\ \A b \in Branches \ {turn} : local'[b] = local[b] /\ unpushed'[b] = unpushed[b]
      /\ unpushed[turn] \subseteq unpushed'[turn]
      /\ commit => Pair(i) \in unpushed'[turn]
      /\ ~commit => unpushed' = unpushed
  BY <1>1, <1>3 DEF CommitTo, Shape, TypeOK, RepoTypeOK, remoteVars, repoVars, cloneVars, Pair
<1> HIDE DEF commit
<1>5. DeletedIsPublished'
  BY <1>1, <1>2, <1>4, DeletedStays DEF Kept
<1>6. turn \notin Topics
  BY <1>2, RepoAssumption, BranchFacts
<1>7. TopicShown'
  BY <1>1, <1>2, <1>3, <1>4, <1>6, TopicStays DEF Kept, Content, Branches
<1>8. UnpushedDropped'
  <2> SUFFICES ASSUME NEW r \in Repos, ~Owing(r)' PROVE unpushed'[r] \subseteq dropped
    BY <1>1 DEF UnpushedDropped
  <2>1. ~Owing(r) /\ (r = turn => ~commit)
    BY <1>1, <1>2, Zenon DEF Owing
  <2> QED
    BY <2>1, <1>4 DEF Kept, Content, UnpushedDropped, Branches
<1>9. ProcessedKept'
  <2> SUFFICES ASSUME NEW j \in processed', sent[j].success
               PROVE  Pair(j) \in shown[turn] \cup dropped \cup unpushed'[turn]
    BY <1>1, <1>2, <1>4 DEF ProcessedKept, Pair
  <2>1. CASE j \in processed
    BY <2>1, <1>1, <1>4 DEF Kept, Content, ProcessedKept
  <2>2. CASE j = i /\ ~commit
    BY <2>2, <1>2, <1>3, <1>4, UnchangedKnown DEF commit
  <2>3. CASE j = i /\ commit
    BY <2>3, <1>4
  <2> QED
    BY <1>2, <2>1, <2>2, <2>3
<1>10. CurKept'
  BY <1>1 DEF CurKept, OnCur
<1> QED
  BY <1>5, <1>7, <1>8, <1>9, <1>10 DEF Kept, Content

LEMMA KeptSkip == Shape /\ Kept /\ SkipPush => Kept'
<1> SUFFICES ASSUME Shape, Kept, SkipPush PROVE Kept'
  OBVIOUS
<1>1. /\ turn # Idle /\ step = "primary" /\ ~indexed /\ step' = "staged"
      /\ UNCHANGED <<sent, acked, turn, processed, cur, indexed, local, shown, unpushed, dropped>>
  BY DEF SkipPush, PrimaryDone, loopVars, sqsVars, repoVars, cloneVars, remoteVars
<1>2. turn \in Repos /\ unpushed[turn] \subseteq dropped
  BY <1>1, Running DEF Kept, Content, UnpushedDropped, Owing
<1>3. DeletedIsPublished'
  BY <1>1, DeletedStays DEF Kept
<1>4. TopicShown'
  BY <1>1, TopicStays DEF Kept, Content, InTopic
<1>5. UnpushedDropped'
  BY <1>1, <1>2 DEF Kept, Content, UnpushedDropped, Owing
<1>6. ProcessedKept'
  <2> SUFFICES ASSUME NEW i \in processed, sent[i].success
               PROVE  Pair(i) \in shown[sent[i].game] \cup dropped
    BY <1>1 DEF ProcessedKept, Published, Pair
  <2>1. sent[i].game = turn
    BY DEF Shape, Flow, OwnMessages
  <2> QED
    BY <2>1, <1>1, <1>2 DEF Kept, Content, ProcessedKept
<1>7. CurKept'
  BY <1>1 DEF CurKept, OnCur
<1> QED
  BY <1>3, <1>4, <1>5, <1>6, <1>7 DEF Kept, Content

LEMMA KeptPull == Shape /\ Kept /\ PullPrimary => Kept'
<1> SUFFICES ASSUME Shape, Kept, PullPrimary PROVE Kept'
  OBVIOUS
<1>1. /\ turn # Idle /\ step = "primary" /\ indexed /\ step' = "push"
      /\ UNCHANGED <<sent, acked, turn, processed, cur, indexed, shown, unpushed, dropped>>
  BY DEF PullPrimary, PrimaryDone, Pull, loopVars, sqsVars, remoteVars
<1>2. turn \in Branches /\ turn \notin Topics
  BY <1>1, Running, RepoAssumption
<1>3. \A t \in Topics : local'[t] = local[t]
  BY <1>2 DEF PullPrimary, Pull, Shape, TypeOK, RepoTypeOK, Branches
<1>4. DeletedIsPublished'
  BY <1>1, DeletedStays DEF Kept
<1>5. TopicShown'
  BY <1>1, <1>3, TopicStays DEF Kept, Content, InTopic
<1>6. UnpushedDropped'
  BY <1>1 DEF Kept, Content, UnpushedDropped, Owing
<1>7. ProcessedKept'
  BY <1>1, ProcessedStays DEF Kept, Content
<1>8. CurKept'
  BY <1>1 DEF CurKept, OnCur
<1> QED
  BY <1>4, <1>5, <1>6, <1>7, <1>8 DEF Kept, Content

\* After the push nothing is owed: what it carried is on GitHub or dropped.
LEMMA KeptPush == Shape /\ Kept /\ PushPrimary => Kept'
<1> SUFFICES ASSUME Shape, Kept, PushPrimary PROVE Kept'
  OBVIOUS
<1>1. /\ turn # Idle /\ step = "push" /\ step' = "staged" /\ indexed' = FALSE
      /\ UNCHANGED <<sent, acked, turn, processed, cur>>
  BY DEF PushPrimary, loopVars, sqsVars
<1>2. turn \in Repos /\ turn \in Branches /\ local[turn] # NoTree /\ active' = active
  BY <1>1, Running DEF Cloned, PushPrimary, repoVars, cloneVars
<1>3. /\ local' = local /\ dropped \subseteq dropped'
      /\ \A b \in Branches : shown[b] \subseteq shown'[b]
      /\ \A b \in Branches : unpushed'[b] \subseteq unpushed[b]
      /\ unpushed'[turn] \subseteq dropped'
      /\ unpushed[turn] \subseteq shown'[turn] \cup dropped'
  <2>1. CASE Pushed(turn) /\ UNCHANGED <<active, dropped>>
    BY <2>1, <1>2 DEF Pushed, Shape, TypeOK, RepoTypeOK
  <2>2. CASE dropped' = dropped \cup unpushed[turn] /\ UNCHANGED repoVars
    BY <2>2 DEF repoVars, cloneVars, remoteVars
  <2> QED
    BY <2>1, <2>2 DEF PushPrimary
<1>4. DeletedIsPublished'
  BY <1>1, <1>3, DeletedStays DEF Kept
<1>5. TopicShown'
  BY <1>1, <1>3, TopicStays DEF Kept, Content, InTopic
<1>6. UnpushedDropped'
  BY <1>1, <1>3 DEF Kept, Content, UnpushedDropped, Owing, Branches
<1>7. ProcessedKept'
  <2> SUFFICES ASSUME NEW i \in processed, sent[i].success
               PROVE  Pair(i) \in shown'[sent[i].game] \cup dropped'
    BY <1>1 DEF ProcessedKept, Published, Pair
  <2>1. sent[i].game = turn
    BY DEF Shape, Flow, OwnMessages
  <2> QED
    BY <2>1, <1>1, <1>2, <1>3 DEF Kept, Content, ProcessedKept
<1>8. CurKept'
  BY <1>1 DEF CurKept, OnCur
<1> QED
  BY <1>4, <1>5, <1>6, <1>7, <1>8 DEF Kept, Content

-----------------------------------------------------------------------------
(* The staged queue.                                                       *)

LEMMA KeptProcessStaged ==
  ASSUME Shape, Kept, NEW i \in Ids, ProcessStaged(i)
  PROVE  Kept'
<1>1. /\ QH!Process(i) /\ step = "staged" /\ ~ToStage(i)
      /\ UNCHANGED <<step, cur, indexed, local, shown, unpushed, dropped>>
  BY DEF ProcessStaged, NextStaged, stepVars, repoVars, cloneVars, remoteVars
<1>2. /\ turn # Idle /\ turn \in Repos /\ i \in batch[turn] /\ processed' = processed \cup {i}
      /\ sent[i].game = turn
      /\ UNCHANGED <<sent, acked, turn>>
  BY <1>1, ProcessType, Running
<1>3. DeletedIsPublished'
  BY <1>1, <1>2, DeletedStays DEF Kept
<1>4. TopicShown'
  BY <1>1, <1>2, TopicStays DEF Kept, Content, InTopic
<1>5. UnpushedDropped' /\ CurKept'
  BY <1>1, <1>2 DEF Kept, Content, UnpushedDropped, Owing, CurKept, OnCur
<1>6. ProcessedKept'
  <2> SUFFICES ASSUME NEW j \in processed', sent[j].success PROVE Published(j)
    BY <1>1, <1>2 DEF ProcessedKept, Published, Pair
  <2>1. CASE j \in processed
    BY <2>1, <1>1 DEF Kept, Content, ProcessedKept
  <2>2. CASE j = i
    <3>1. Pair(i) \in shown[turn] \cup unpushed[turn]
      BY <2>2, <1>1, <1>2, UnchangedKnown DEF ToStage, InTopic
    <3>2. unpushed[turn] \subseteq dropped
      BY <1>1, <1>2 DEF Kept, Content, UnpushedDropped, Owing
    <3> QED
      BY <2>2, <3>1, <3>2, <1>2 DEF Published
  <2> QED
    BY <1>2, <2>1, <2>2
<1> QED
  BY <1>3, <1>4, <1>5, <1>6 DEF Kept, Content

\* A staging branch that needs no commit for the message has it in its history.
LEMMA TopicKnown ==
  ASSUME Shape, Kept, turn # Idle, ~InTopic, NEW i \in batch[turn], Changed(i),
         Start(sent[i].file)[sent[i].file] = sent[i].content
  PROVE  Pair(i) \in shown[sent[i].file]
<1> DEFINE t == sent[i].file
<1>1. /\ t \in Topics /\ t \in Files /\ t \in Branches /\ Home[t] = turn
      /\ active[turn] = turn
  BY Running
<1>2. CASE local[t] # NoTree
  <2>1. PairsOf(local[t]) \subseteq shown[t] /\ local[t][t] = sent[i].content
    BY <1>1, <1>2 DEF Kept, Content, TopicShown, Start
  <2> QED
    BY <2>1, <1>1 DEF PairsOf, Pair
<1>3. CASE local[t] = NoTree /\ remote[t] # NoTree
  <2>1. PairsOf(remote[t]) \subseteq shown[t] /\ remote[t][t] = sent[i].content
    BY <1>1, <1>3 DEF Shape, RepoInv, RemoteShown, Start
  <2> QED
    BY <2>1, <1>1 DEF PairsOf, Pair
<1>4. CASE local[t] = NoTree /\ remote[t] = NoTree
  <2>1. local[turn][t] = sent[i].content
    BY <1>1, <1>4 DEF Start
  <2> QED
    BY <2>1, <1>1 DEF Changed
<1> QED
  BY <1>2, <1>3, <1>4

LEMMA KeptOpen ==
  ASSUME Shape, Kept, NEW i \in Ids, OpenStaged(i)
  PROVE  Kept'
<1> DEFINE t == sent[i].file
           commit == Start(t)[t] # sent[i].content
           C == IF commit THEN {Pair(i)} ELSE {}
<1>1. /\ turn # Idle /\ step = "staged" /\ i \in batch[turn] /\ Changed(i)
      /\ OpenTopic(t, C) /\ cur' = i /\ step' = "merge"
      /\ UNCHANGED <<sent, acked, turn, processed, dropped>>
  BY DEF OpenStaged, NextStaged, Earliest, Staged, ToStage, loopVars, sqsVars
<1>2. /\ local[active[Home[t]]] # NoTree /\ ~InTopic
      /\ t \in Topics /\ t \notin Repos /\ Pair(i) \in Files \X Contents /\ turn \in Repos
  BY <1>1, Running, RepoAssumption DEF InTopic, Cloned, Pair
<1>3. C \in SUBSET (Files \X Contents) /\ (commit => Pair(i) \in C)
  BY <1>2
<1> HIDE DEF C
<1>4. /\ shown' = shown /\ C \subseteq unpushed'[t]
      /\ \A b \in Branches \ {t} : local'[b] = local[b] /\ unpushed'[b] = unpushed[b]
  BY <1>1, <1>2, <1>3, OpenTopicInv DEF Shape, TypeOK, OpenTopic, remoteVars
<1>5. DeletedIsPublished'
  BY <1>1, <1>4, DeletedStays DEF Kept
<1>6. TopicShown'
  BY <1>1, <1>2, <1>4 DEF Kept, Content, TopicShown, InTopic, Branches
<1>7. UnpushedDropped'
  BY <1>1, <1>2, <1>4 DEF Kept, Content, UnpushedDropped, Owing, Branches
<1>8. ProcessedKept'
  BY <1>1, <1>4 DEF Kept, Content, ProcessedKept, Published, Pair
<1>9. CurKept'
  <2>1. Pair(i) \in shown[t] \cup unpushed'[t]
    BY <1>1, <1>2, <1>3, <1>4, TopicKnown
  <2> QED
    BY <2>1, <1>1, <1>4 DEF CurKept, Pair
<1> QED
  BY <1>5, <1>6, <1>7, <1>8, <1>9 DEF Kept, Content

LEMMA KeptMerge == Shape /\ Kept /\ MergeStaged => Kept'
<1> SUFFICES ASSUME Shape, Kept, MergeStaged PROVE Kept'
  OBVIOUS
<1> DEFINE t == sent[cur].file
<1>1. /\ step = "merge" /\ step' = "publish" /\ shown' = shown /\ unpushed' = unpushed
      /\ UNCHANGED <<sent, acked, turn, processed, cur, indexed, dropped>>
      /\ Pull(t) \/ UNCHANGED local
  BY DEF MergeStaged, PullTopic, Pull, loopVars, sqsVars, remoteVars
<1>2. t \in Branches /\ turn # Idle
  BY <1>1, InBranch DEF OnCur
<1>3. \A b \in Branches \ {t} : local'[b] = local[b]
  BY <1>1, <1>2 DEF Pull, Shape, TypeOK, RepoTypeOK
<1>4. DeletedIsPublished'
  BY <1>1, DeletedStays DEF Kept
<1>5. TopicShown'
  BY <1>1, <1>3 DEF Kept, Content, TopicShown, InTopic, Branches
<1>6. UnpushedDropped' /\ CurKept'
  BY <1>1 DEF Kept, Content, UnpushedDropped, Owing, CurKept, OnCur, Pair
<1>7. ProcessedKept'
  BY <1>1 DEF Kept, Content, ProcessedKept, Published, Pair
<1> QED
  BY <1>4, <1>5, <1>6, <1>7 DEF Kept, Content

\* A message leaves change_branch, its metadata being on GitHub or refused.
LEMMA KeptStagedDone ==
  ASSUME Shape, Kept, OnCur, StagedDone,
         Pair(cur) \in shown'[sent[cur].file] \cup dropped',
         \A b \in Branches : shown[b] \subseteq shown'[b], dropped \subseteq dropped',
         \A r \in Repos : unpushed'[r] = unpushed[r], TopicShown'
  PROVE  Kept'
<1>1. /\ step' = "staged" /\ processed' = processed \cup {cur}
      /\ UNCHANGED <<sent, acked, turn>>
  BY ProcessType DEF StagedDone
<1>2. /\ turn # Idle /\ turn \in Games /\ sent[cur].staged /\ sent[cur].game = turn
      /\ step \notin {"primary", "push"}
  BY InBranch DEF OnCur
<1>3. DeletedIsPublished'
  BY <1>1, DeletedStays DEF Kept
<1>4. UnpushedDropped' /\ CurKept'
  BY <1>1, <1>2 DEF Kept, Content, UnpushedDropped, Owing, CurKept, OnCur
<1>5. ProcessedKept'
  <2> SUFFICES ASSUME NEW i \in processed', sent[i].success PROVE Published(i)'
    BY <1>1 DEF ProcessedKept
  <2>1. CASE i \in processed
    <3>1. i \in Ids /\ sent[i].game \in Games
      BY <2>1, <1>2 DEF Shape, Flow, OwnMessages
    <3>2. Published(i)
      BY <2>1, <1>2 DEF Kept, Content, ProcessedKept
    <3> QED
      BY <3>1, <3>2, <1>1, PublishedStays
  <2>2. CASE i = cur
    BY <2>2, <1>1, <1>2 DEF Published, Pair
  <2> QED
    BY <1>1, <2>1, <2>2
<1> QED
  BY <1>3, <1>4, <1>5 DEF Kept, Content

LEMMA KeptPublish == Shape /\ Kept /\ PublishStaged => Kept'
<1> SUFFICES ASSUME Shape, Kept, PublishStaged PROVE Kept'
  OBVIOUS
<1> DEFINE t == sent[cur].file
<1>1. step = "publish" /\ Pushed(t) /\ local' = local /\ dropped' = dropped
  BY DEF PublishStaged, CloseTopic, Pushed
<1>2. OnCur /\ InTopic
  BY <1>1 DEF OnCur, InTopic
<1>3. t \in Branches /\ t \notin Repos /\ turn # Idle
  BY <1>2, InBranch, RepoAssumption
<1>4. /\ shown'[t] = shown[t] \cup unpushed[t] \cup PairsOf(local[t])
      /\ \A b \in Branches : shown[b] \subseteq shown'[b]
      /\ \A r \in Repos : unpushed'[r] = unpushed[r]
  BY <1>1, <1>3 DEF Pushed, Shape, TypeOK, RepoTypeOK, Branches
<1>5. Pair(cur) \in shown'[t]
  BY <1>1, <1>2, <1>4 DEF Kept, Content, CurKept
<1>6. TopicShown'
  BY <1>1, <1>2, <1>4 DEF Kept, Content, TopicShown, Branches
<1>7. CASE step' = "propose" /\ UNCHANGED <<loopVars, cur, indexed>>
  <2>1. UNCHANGED <<sent, acked, turn, processed, cur>>
    BY <1>7 DEF loopVars, sqsVars
  <2>2. DeletedIsPublished'
    BY <1>1, <1>4, <2>1, DeletedStays DEF Kept
  <2>3. UnpushedDropped'
    BY <1>1, <1>4, <1>7, <2>1 DEF Kept, Content, UnpushedDropped, Owing
  <2>4. unpushed'[turn] = unpushed[turn] /\ unpushed[turn] \subseteq dropped
    BY <1>1, <1>3, <1>4, Running DEF Kept, Content, UnpushedDropped, Owing
  <2>5. ProcessedKept'
    BY <1>1, <1>4, <1>7, <2>1, <2>4, ProcessedStays DEF Kept, Content
  <2>6. CurKept'
    BY <1>5, <1>7, <2>1 DEF CurKept, Pair
  <2> QED
    BY <1>6, <2>2, <2>3, <2>5, <2>6 DEF Kept, Content
<1>8. CASE StagedDone
  BY <1>1, <1>2, <1>4, <1>5, <1>6, <1>8, KeptStagedDone
<1> QED
  BY <1>7, <1>8 DEF PublishStaged

LEMMA KeptPropose == Shape /\ Kept /\ (Propose \/ ProposeFails) => Kept'
<1> SUFFICES ASSUME Shape, Kept, Propose \/ ProposeFails PROVE Kept'
  OBVIOUS
<1>1. /\ step = "propose" /\ StagedDone /\ dropped \subseteq dropped'
      /\ UNCHANGED <<shown, unpushed, local>>
  BY DEF Propose, ProposeFails, repoVars, cloneVars, remoteVars
<1>2. OnCur /\ ~InTopic
  BY <1>1 DEF OnCur, InTopic
<1>3. Pair(cur) \in shown[sent[cur].file]
  BY <1>1, <1>2 DEF Kept, Content, CurKept
<1>4. step' = "staged"
  BY <1>1 DEF StagedDone
<1>5. TopicShown'
  BY <1>1, <1>2, <1>4 DEF Kept, Content, TopicShown, InTopic
<1> QED
  BY <1>1, <1>2, <1>3, <1>5, KeptStagedDone

\* Deleting: all that is processed is published by the time of AtEnd.
LEMMA KeptFinish == Shape /\ Kept /\ (Finish \/ FinishPartly) => Kept'
<1> SUFFICES ASSUME Shape, Kept, Finish \/ FinishPartly PROVE Kept'
  OBVIOUS
<1>1. PICK D \in SUBSET processed : QH!Leave(D)
  BY DEF Finish, QH!Finish, FinishPartly, QH!FinishPartly
<1>2. /\ AtEnd /\ turn' = Idle /\ processed' = {} /\ sent' = sent /\ acked' \subseteq acked \cup processed
      /\ UNCHANGED <<step, cur, indexed, local, shown, unpushed, dropped>>
  BY <1>1 DEF QH!Leave, QH!SqsDelete, Finish, FinishPartly, Others, repoVars, cloneVars,
              remoteVars, stepVars
<1>3. DeletedIsPublished'
  <2> SUFFICES ASSUME NEW i \in acked', sent[i].success PROVE Published(i)
    BY <1>2 DEF DeletedIsPublished, Published, Pair
  <2> QED
    BY <1>2 DEF Kept, Content, ProcessedKept, DeletedIsPublished, AtEnd
<1>4. TopicShown' /\ CurKept'
  BY <1>2 DEF Kept, Content, TopicShown, CurKept, InTopic, OnCur, AtEnd
<1>5. UnpushedDropped' /\ ProcessedKept'
  BY <1>2 DEF Kept, Content, UnpushedDropped, ProcessedKept, Owing, AtEnd
<1> QED
  BY <1>3, <1>4, <1>5 DEF Kept, Content

-----------------------------------------------------------------------------
(* The theorems.                                                           *)

LEMMA KeptNext == Shape /\ Kept /\ [Next]_vars => Kept'
<1> SUFFICES ASSUME Shape, Kept, [Next]_vars PROVE Kept'
  OBVIOUS
<1>1. ASSUME Handle PROVE Kept'
  <2>1. ASSUME NEW g \in Games, Enter(g) \/ EnterRaises(g) PROVE Kept'
    BY <2>1, KeptEnter, KeptRestart DEF EnterRaises
  <2>2. ASSUME NEW i \in Ids, ProcessPrimary(i) \/ ProcessStaged(i) \/ OpenStaged(i)
        PROVE  Kept'
    BY <2>2, KeptPrimary, KeptProcessStaged, KeptOpen
  <2>3. ASSUME SkipPush \/ PullPrimary \/ PullRaises \/ PushPrimary PROVE Kept'
    BY <2>3, KeptSkip, KeptPull, KeptRestart, KeptPush DEF PullRaises
  <2>4. ASSUME MergeStaged \/ PublishStaged \/ PublishRaises \/ Propose PROVE Kept'
    BY <2>4, KeptMerge, KeptPublish, KeptRestart, KeptPropose DEF PublishRaises
  <2> QED
    BY <1>1, <2>1, <2>2, <2>3, <2>4, KeptFinish DEF Handle
<1>2. ASSUME NEW k \in Kinds, Send(k) PROVE Kept'
  BY <1>2, KeptSend
<1>3. ASSUME NEW S \in SUBSET Stored, Poll(S) \/ PollExits(S) PROVE Kept'
  BY <1>3, KeptPoll, KeptPollExits
<1>4. ASSUME ProposeFails \/ FinishPartly \/ Reappear \/ Overrun \/ Crash PROVE Kept'
  BY <1>4, KeptPropose, KeptFinish, KeptExpire, KeptRestart
<1>5. ASSUME NEW b \in Branches, NEW f \in Files, NEW c \in Contents \cup {Absent},
             OthersEdit(b, f, c)
      PROVE  Kept'
  BY <1>5, KeptOthersEdit
<1>6. ASSUME NEW t \in Topics, OthersMerge(t) PROVE Kept'
  BY <1>6, KeptOthersMerge
<1>7. ASSUME UNCHANGED vars PROVE Kept'
  BY <1>7, KeptOutside DEF vars, loopVars, sqsVars, repoVars, cloneVars, remoteVars, stepVars
<1> QED
  BY <1>1, <1>2, <1>3, <1>4, <1>5, <1>6, <1>7 DEF Next

-----------------------------------------------------------------------------
(* What QueueHandler promises holds of the Indexer.                        *)

\* A handler that raises is at work, so the loop may stop there.
LEMMA RestartRaises ==
  ASSUME Restart, turn # Idle \/ todo # {}
  PROVE  QH!Raise
BY DEF Restart, QH!Raise, QH!Polling, QH!sqsVars, sqsVars

LEMMA ProcessStep ==
  ASSUME Shape, NEW i, QH!Process(i)
  PROVE  QH!Next
<1>1. turn \in Games /\ i \in batch[turn]
  BY ProcessType
<1> QED
  BY <1>1 DEF QH!Next

LEMMA LoopStep == Shape /\ [Next]_vars => [QH!Next]_loopVars
<1> SUFFICES ASSUME Shape, [Next]_vars PROVE QH!Next \/ UNCHANGED loopVars
  OBVIOUS
<1>1. ASSUME Handle PROVE QH!Next \/ UNCHANGED loopVars
  <2>1. ASSUME NEW g \in Games, Enter(g) PROVE QH!Next
    BY <2>1 DEF Enter, QH!Next
  <2>2. ASSUME NEW g \in Games, EnterRaises(g) PROVE QH!Next
    BY <2>2, RestartRaises DEF EnterRaises, QH!Due, QH!Next
  <2>3. ASSUME NEW i \in Ids, ProcessPrimary(i) \/ ProcessStaged(i) PROVE QH!Next
    BY <2>3, ProcessStep DEF ProcessPrimary, ProcessStaged
  <2>4. ASSUME NEW i \in Ids, OpenStaged(i) PROVE UNCHANGED loopVars
    BY <2>4 DEF OpenStaged
  <2>5. ASSUME SkipPush \/ PullPrimary \/ PushPrimary \/ MergeStaged PROVE UNCHANGED loopVars
    BY <2>5 DEF SkipPush, PullPrimary, PushPrimary, MergeStaged
  <2>6. ASSUME PullRaises PROVE QH!Next
    BY <2>6, RestartRaises DEF PullRaises, PrimaryDone, QH!Next
  <2>7. ASSUME PublishRaises PROVE QH!Next
    BY <2>7, RestartRaises, InBranch DEF PublishRaises, OnCur, QH!Next
  <2>8. ASSUME PublishStaged PROVE QH!Next \/ UNCHANGED loopVars
    BY <2>8, ProcessStep DEF PublishStaged, StagedDone
  <2>9. ASSUME Propose PROVE QH!Next
    BY <2>9, ProcessStep DEF Propose, StagedDone
  <2>10. ASSUME Finish PROVE QH!Next
    BY <2>10 DEF Finish, QH!Next
  <2> QED
    BY <1>1, <2>1, <2>2, <2>3, <2>4, <2>5, <2>6, <2>7, <2>8, <2>9, <2>10 DEF Handle
<1>2. ASSUME NEW k \in Kinds, Send(k) PROVE QH!Next
  BY <1>2 DEF Send, QH!Next
<1>3. ASSUME NEW S \in SUBSET Stored, Poll(S) \/ PollExits(S) PROVE QH!Next
  BY <1>3 DEF Poll, PollExits, QH!Next, Stored, Ids, QH!Stored, QH!Ids
<1>4. ASSUME ProposeFails PROVE QH!Next
  BY <1>4, ProcessStep DEF ProposeFails, StagedDone
<1>5. ASSUME FinishPartly \/ Reappear \/ Overrun \/ Crash PROVE QH!Next
  BY <1>5 DEF FinishPartly, Reappear, Overrun, Crash, QH!Next
<1>6. ASSUME NEW b \in Branches, NEW f \in Files, NEW c \in Contents \cup {Absent},
             OthersEdit(b, f, c)
      PROVE  UNCHANGED loopVars
  BY <1>6 DEF OthersEdit
<1>7. ASSUME NEW t \in Topics, OthersMerge(t) PROVE UNCHANGED loopVars
  BY <1>7 DEF OthersMerge
<1> QED
  BY <1>1, <1>2, <1>3, <1>4, <1>5, <1>6, <1>7 DEF Next, vars

\* The Indexer takes part in the loop only through the steps of QueueHandler,
\* wherever process_messages, change_branch or a raised exception leaves it.
THEOREM Refinement == Spec => LoopSpec
<1>1. Init => QH!Init
  BY DEF Init
<1> QED
  BY <1>1, LoopStep, ShapeHolds, PTL DEF Spec, LoopSpec

-----------------------------------------------------------------------------
(* What others have pushed.                                                *)

\* Only the push of the primary branch writes to it.
LEMMA RemoteKept ==
  ASSUME Shape, [Next]_vars, NEW r \in Repos, edits' = edits, remote'[r] # remote[r]
  PROVE  turn = r /\ step = "push" /\ Pushed(r)
<1>1. remote' # remote
  OBVIOUS
<1>2. edits \in Nat /\ remote \in [Branches -> Trees \cup {NoTree}] /\ edits' # edits + 1
  BY DEF Shape, TypeOK, RepoTypeOK
<1>3. ~(Restart \/ Crash)
  BY <1>1 DEF Restart, Crash, Lost, LoseClones, remoteVars
<1>4. ASSUME NEW i \in Ids PROVE ~ProcessPrimary(i) /\ ~ProcessStaged(i) /\ ~OpenStaged(i)
  BY <1>1 DEF ProcessPrimary, ProcessStaged, OpenStaged, CommitTo, OpenTopic, repoVars, remoteVars
<1>5. ~PublishStaged
  <2> SUFFICES ASSUME PublishStaged PROVE FALSE
    OBVIOUS
  <2>1. Pushed(sent[cur].file) /\ sent[cur].file \in Topics
    BY InBranch DEF PublishStaged, CloseTopic, OnCur
  <2>2. sent[cur].file # r /\ remote' = [remote EXCEPT ![sent[cur].file] = local[sent[cur].file]]
    BY <2>1, RepoAssumption DEF Pushed
  <2> QED
    BY <1>2, <2>2 DEF Branches
<1>6. ~(SkipPush \/ PullPrimary \/ MergeStaged \/ Propose \/ ProposeFails)
  BY <1>1, <1>2
  DEF SkipPush, PullPrimary, MergeStaged, Propose, ProposeFails, Pull, PullTopic, repoVars, remoteVars
<1>7. ~(Finish \/ FinishPartly \/ Reappear \/ Overrun)
  BY <1>1 DEF Finish, FinishPartly, Reappear, Overrun, Others, repoVars, remoteVars
<1>8. ASSUME NEW g \in Games PROVE ~Enter(g)
  BY <1>1 DEF Enter, Pull, remoteVars
<1>9. ASSUME NEW k \in Kinds PROVE ~Send(k)
  BY <1>1 DEF Send, repoVars, remoteVars
<1>10. ASSUME NEW S \in SUBSET Stored PROVE ~Poll(S) /\ ~PollExits(S)
  BY <1>1 DEF Poll, PollExits, CloneAll, Lost, LoseClones, remoteVars
<1>11. ASSUME NEW b \in Branches, NEW f \in Files, NEW c \in Contents \cup {Absent}
       PROVE  ~OthersEdit(b, f, c)
  BY <1>2 DEF OthersEdit, OutsideEdit, Outside
<1>12. ASSUME NEW t \in Topics PROVE ~OthersMerge(t)
  BY <1>2 DEF OthersMerge, OutsideMerge
<1>13. PushPrimary
  BY <1>1, <1>3, <1>4, <1>5, <1>6, <1>7, <1>8, <1>9, <1>10, <1>11, <1>12
  DEF Next, Handle, EnterRaises, PullRaises, PublishRaises, vars, repoVars, remoteVars
<1>14. Pushed(turn) /\ turn # Idle /\ step = "push"
  BY <1>1, <1>13 DEF PushPrimary, repoVars, remoteVars
<1>15. turn = r
  BY <1>2, <1>14, Running DEF Pushed, Branches
<1> QED
  BY <1>14, <1>15

\* Whatever others push and whenever they do, a push of the Indexer to a
\* primary branch changes only files it has itself committed since its last.
THEOREM OthersKept == Spec => PushKeepsOthers
<1>1. ASSUME Shape, [Next]_vars, NEW r \in Repos PROVE OwnChangesOnly(r)
  <2> SUFFICES ASSUME remote'[r] # remote[r], edits' = edits, NEW f \in Files,
                      remote'[r][f] # remote[r][f]
               PROVE  <<f, remote'[r][f]>> \in unpushed[r]
    BY DEF OwnChangesOnly
  <2>1. turn = r /\ Pushed(r) /\ turn # Idle
    BY <1>1, RemoteKept, IndexerAssumption
  <2>2. remote'[r] = local[r] /\ ~behind[r] /\ Cloned(r)
    BY <1>1, <2>1, Running DEF Pushed, Accepted, Shape, TypeOK, RepoTypeOK
  <2> QED
    BY <1>1, <2>2 DEF Shape, RepoInv, BaseIsRemote
<1>2. Shape /\ [Next]_vars => \A r \in Repos : OwnChangesOnly(r)
  BY <1>1
<1> QED
  BY <1>2, ShapeHolds, PTL DEF Spec, PushKeepsOthers

-----------------------------------------------------------------------------
(* What the branches hold.                                                 *)

\* Steps that bring no tree from elsewhere: what is pushed is in the clone.
LEMMA ApartStays ==
  ASSUME Shape, Apart, Ids \subseteq Ids', \A i \in Ids : sent'[i] = sent[i],
         \A b \in Branches : shown[b] \subseteq shown'[b], dropped \subseteq dropped',
         \A g \in Games : unpushed'[g] \subseteq unpushed[g],
         \A t \in Topics : local'[t] \in {local[t], NoTree},
         \A t \in Topics : remote'[t] \in {remote[t], local[t], NoTree}
  PROVE  Apart'
<1>1. \A t \in Topics : Home[t] \in Branches
  BY RepoAssumption DEF Branches
<1>2. PrimaryIsUnstaged'
  BY DEF Apart, PrimaryIsUnstaged, Pair
<1>3. StagedAlone'
  BY <1>1 DEF Apart, StagedAlone, CloneAlone
<1>4. CloneAlone'
  BY <1>1 DEF Apart, CloneAlone
<1> QED
  BY <1>2, <1>3, <1>4 DEF Apart

\* Steps that leave the repositories alone, or lose the clones.
LEMMA ApartSame ==
  ASSUME Shape, Apart, UNCHANGED <<sent, remote, shown>>, dropped \subseteq dropped',
         UNCHANGED <<local, unpushed>> \/ LoseClones
  PROVE  Apart'
<1>1. Ids' = Ids
  BY DEF Ids
<1>2. \A g \in Games : unpushed'[g] \subseteq unpushed[g]
  BY BranchFacts DEF LoseClones
<1>3. \A t \in Topics : local'[t] \in {local[t], NoTree}
  BY DEF LoseClones, Branches
<1> QED
  BY <1>1, <1>2, <1>3, ApartStays

LEMMA ApartInit == Init => Apart
BY BranchFacts, RepoAssumption
DEF Init, QH!Init, QH!SqsInit, RepoInit, Apart, PrimaryIsUnstaged, StagedAlone, CloneAlone, Branches

LEMMA ApartSend ==
  ASSUME Shape, Apart, NEW k \in Kinds, Send(k)
  PROVE  Apart'
<1>1. Ids \subseteq Ids' /\ \A i \in Ids : sent'[i] = sent[i]
  <2>1. sent \in Seq(Kinds) /\ sent' = Append(sent, k)
    BY DEF Shape, TypeOK, QH!TypeOK, QH!SqsTypeOK, Send, QH!Send, QH!SqsSend
  <2> QED
    BY <2>1 DEF Ids
<1>2. UNCHANGED <<remote, shown, local, unpushed, dropped>>
  BY DEF Send, repoVars, remoteVars, cloneVars
<1> QED
  BY <1>1, <1>2, ApartStays

LEMMA ApartLost ==
  ASSUME Shape, Apart, Lost, sent' = sent
  PROVE  Apart'
BY ApartSame DEF Lost, LoseClones, remoteVars

LEMMA ApartOthers ==
  ASSUME Shape, Apart, UNCHANGED Others, sent' = sent
  PROVE  Apart'
BY ApartSame DEF Others, repoVars, remoteVars, cloneVars

LEMMA ApartPoll ==
  ASSUME Shape, Apart, NEW S \in SUBSET Stored, Poll(S)
  PROVE  Apart'
<1>1. UNCHANGED <<sent, remote, shown, unpushed, dropped>>
  BY DEF Poll, QH!Poll, QH!SqsReceive, CloneAll, remoteVars
<1>2. \A t \in Topics : local'[t] = local[t]
  BY RepoAssumption, BranchFacts DEF Poll, CloneAll, Branches
<1>3. Ids' = Ids
  BY <1>1 DEF Ids
<1> QED
  BY <1>1, <1>2, <1>3, ApartStays

\* A pull of a primary branch.
LEMMA ApartPull ==
  ASSUME Shape, Apart, NEW g \in Games, Pull(g), UNCHANGED <<sent, dropped>>
  PROVE  Apart'
<1>1. UNCHANGED <<remote, shown, unpushed>> /\ Ids' = Ids
  BY DEF Pull, remoteVars, Ids
<1>2. \A t \in Topics : local'[t] = local[t]
  BY RepoAssumption, BranchFacts DEF Pull, Shape, TypeOK, RepoTypeOK, Branches
<1> QED
  BY <1>1, <1>2, ApartStays

LEMMA ApartPushed ==
  ASSUME Shape, Apart, NEW b \in Branches, local[b] # NoTree, Pushed(b), UNCHANGED <<sent, dropped>>
  PROVE  Apart'
<1>1. Ids' = Ids /\ local' = local
  BY DEF Pushed, Ids
<1>2. \A a \in Branches : /\ shown[a] \subseteq shown'[a]
                          /\ unpushed'[a] \subseteq unpushed[a]
                          /\ remote'[a] \in {remote[a], local[a]}
  BY DEF Pushed, Shape, TypeOK, RepoTypeOK
<1>3. Games \subseteq Branches /\ Topics \subseteq Branches
  BY BranchFacts
<1> QED
  BY <1>1, <1>2, <1>3, ApartStays

\* A commit to the primary branch is of a message that is not staged.
LEMMA ApartPrimary ==
  ASSUME Shape, Apart, NEW i \in Ids, ProcessPrimary(i)
  PROVE  Apart'
<1>1. /\ turn # Idle /\ step = "primary" /\ QH!Process(i) /\ ~sent[i].staged
      /\ dropped' = dropped
  BY DEF ProcessPrimary, Earliest, Primary
<1>2. /\ sent' = sent /\ Ids' = Ids /\ turn \in Games /\ turn \in Branches /\ active[turn] = turn
      /\ turn \notin Topics
  BY <1>1, ProcessType, Running, RepoAssumption DEF InTopic, Ids
<1>3. CASE UNCHANGED repoVars
  BY <1>1, <1>2, <1>3, ApartSame DEF repoVars, remoteVars, cloneVars
<1>4. CASE CommitTo(turn, sent[i].file, sent[i].content) /\ sent[i].success
  <2>1. /\ UNCHANGED <<remote, shown>>
        /\ \A b \in Branches \ {turn} : local'[b] = local[b] /\ unpushed'[b] = unpushed[b]
        /\ unpushed'[turn] = unpushed[turn] \cup {Pair(i)}
    BY <1>2, <1>4 DEF CommitTo, Shape, TypeOK, RepoTypeOK, remoteVars, Pair
  <2>2. PrimaryIsUnstaged'
    BY <1>1, <1>2, <1>4, <2>1, BranchFacts DEF Apart, PrimaryIsUnstaged, Pair
  <2>3. StagedAlone' /\ CloneAlone'
    BY <1>1, <1>2, <2>1 DEF Apart, StagedAlone, CloneAlone, Branches
  <2> QED
    BY <2>2, <2>3 DEF Apart
<1> QED
  BY <1>3, <1>4 DEF ProcessPrimary

\* The staging branch starts from itself or from the primary branch, whose
\* commits GitHub has, or has refused.
LEMMA ApartOpen ==
  ASSUME Shape, Content, Apart, NEW i \in Ids, OpenStaged(i)
  PROVE  Apart'
<1> DEFINE t == sent[i].file
           C == IF Start(t)[t] # sent[i].content THEN {Pair(i)} ELSE {}
<1>1. /\ turn # Idle /\ step = "staged" /\ i \in batch[turn] /\ OpenTopic(t, C)
      /\ UNCHANGED <<sent, dropped>> /\ Ids' = Ids
  BY DEF OpenStaged, NextStaged, Earliest, Staged, loopVars, sqsVars, Ids
<1>2. /\ turn \in Games /\ turn \in Repos /\ t \in Topics /\ t \in Files /\ t \notin Games
      /\ Home[t] = turn /\ active[turn] = turn /\ Cloned(turn)
  BY <1>1, Running, RepoAssumption, BranchFacts DEF InTopic
<1>3. \A c, f : <<f, c>> \in C => f = t
  BY DEF Pair
<1> HIDE DEF C, t
<1>4. /\ UNCHANGED <<remote, shown>>
      /\ \A b \in Branches \ {t} : local'[b] = local[b] /\ unpushed'[b] = unpushed[b]
      /\ \A f \in Files \ {t} : local'[t][f] = Start(t)[f]
  BY <1>1, <1>2, <1>3 DEF OpenTopic, remoteVars, Shape, TypeOK, RepoTypeOK, Branches
<1>5. \A f \in Files \ {t} : <<f, Start(t)[f]>> \in shown[turn] \cup dropped
  <2>1. CASE local[t] # NoTree
    BY <1>2, <2>1 DEF Start, Apart, CloneAlone
  <2>2. CASE local[t] = NoTree /\ remote[t] # NoTree
    BY <1>2, <2>2 DEF Start, Apart, StagedAlone
  <2>3. CASE local[t] = NoTree /\ remote[t] = NoTree
    <3>1. PairsOf(local[turn]) \subseteq shown[turn] \cup unpushed[turn]
      BY <1>2 DEF Shape, RepoInv, LocalShown
    <3>2. unpushed[turn] \subseteq dropped
      BY <1>1, <1>2 DEF Content, UnpushedDropped, Owing
    <3> QED
      BY <1>2, <2>3, <3>1, <3>2 DEF Start, PairsOf
  <2> QED
    BY <2>1, <2>2, <2>3
<1>6. CloneAlone'
  BY <1>1, <1>2, <1>4, <1>5 DEF Apart, CloneAlone, Branches
<1>7. StagedAlone'
  BY <1>1, <1>4 DEF Apart, StagedAlone
<1>8. PrimaryIsUnstaged'
  BY <1>1, <1>2, <1>4, BranchFacts DEF Apart, PrimaryIsUnstaged, Pair
<1> QED
  BY <1>6, <1>7, <1>8 DEF Apart

LEMMA ApartMerge == Shape /\ Apart /\ MergeStaged => Apart'
<1> SUFFICES ASSUME Shape, Apart, MergeStaged PROVE Apart'
  OBVIOUS
<1> DEFINE t == sent[cur].file
<1>1. /\ UNCHANGED <<sent, dropped, remote, shown, unpushed>> /\ Ids' = Ids /\ step = "merge"
      /\ Pull(t) \/ local' = local
  BY DEF MergeStaged, PullTopic, Pull, loopVars, sqsVars, remoteVars, Ids
<1>2. t \in Topics /\ t \in Branches /\ local[t] # NoTree
  BY <1>1, InBranch, BranchFacts DEF OnCur, InTopic
<1> HIDE DEF t
<1>3. CASE local' = local
  BY <1>1, <1>3, ApartSame
<1>4. CASE Pull(t)
  <2>1. /\ remote[t] # NoTree /\ \A b \in Branches \ {t} : local'[b] = local[b]
        /\ \A f \in Files : local'[t][f] \in {local[t][f], remote[t][f]}
    BY <1>2, <1>4 DEF Pull, Mergeable, MergeOurs, Shape, TypeOK, RepoTypeOK
  <2>2. CloneAlone'
    BY <1>1, <1>2, <2>1 DEF Apart, CloneAlone, StagedAlone, Branches
  <2>3. StagedAlone' /\ PrimaryIsUnstaged'
    BY <1>1 DEF Apart, StagedAlone, PrimaryIsUnstaged, Pair
  <2> QED
    BY <2>2, <2>3 DEF Apart
<1> QED
  BY <1>1, <1>3, <1>4

LEMMA ApartPush == Shape /\ Apart /\ PushPrimary => Apart'
<1> SUFFICES ASSUME Shape, Apart, PushPrimary PROVE Apart'
  OBVIOUS
<1>1. turn \in Branches /\ local[turn] # NoTree /\ sent' = sent
  BY Running DEF PushPrimary, Cloned, loopVars, sqsVars
<1>2. CASE Pushed(turn) /\ UNCHANGED <<active, dropped>>
  BY <1>1, <1>2, ApartPushed
<1>3. CASE dropped' = dropped \cup unpushed[turn] /\ UNCHANGED repoVars
  BY <1>1, <1>3, ApartSame DEF repoVars, remoteVars, cloneVars
<1> QED
  BY <1>2, <1>3 DEF PushPrimary

LEMMA ApartPublish == Shape /\ Apart /\ PublishStaged => Apart'
<1> SUFFICES ASSUME Shape, Apart, PublishStaged PROVE Apart'
  OBVIOUS
<1>1. step = "publish" /\ Pushed(sent[cur].file) /\ dropped' = dropped
  BY DEF PublishStaged, CloseTopic
<1>2. sent[cur].file \in Branches /\ local[sent[cur].file] # NoTree
  BY <1>1, InBranch DEF OnCur, InTopic
<1>3. sent' = sent
  BY DEF PublishStaged, StagedDone, QH!Process, QH!sqsVars, loopVars, sqsVars
<1> QED
  BY <1>1, <1>2, <1>3, ApartPushed

LEMMA ApartEdit ==
  ASSUME Shape, Apart, NEW b \in Branches, NEW f \in Files, NEW c \in Contents \cup {Absent},
         OthersEdit(b, f, c)
  PROVE  Apart'
<1>1. /\ \A a \in Branches : shown[a] \subseteq shown'[a]
      /\ UNCHANGED <<local, unpushed, sent, dropped>> /\ Ids' = Ids
  BY OutsideEditInv DEF Shape, TypeOK, OthersEdit, OutsideEdit, Outside, loopVars, sqsVars, Ids
<1>2. /\ remote[b] # NoTree /\ remote' = [remote EXCEPT ![b] = [remote[b] EXCEPT ![f] = c]]
      /\ b \in Topics => f = b
  BY RepoAssumption, BranchFacts DEF OthersEdit, OutsideEdit, Outside
<1>3. \A t \in Topics : Home[t] \in Branches /\ t \in Branches
  BY RepoAssumption DEF Branches
<1>4. StagedAlone'
  <2> SUFFICES ASSUME NEW t \in Topics, remote'[t] # NoTree, NEW g \in Files \ {t}
               PROVE  <<g, remote'[t][g]>> \in shown'[Home[t]] \cup dropped'
    BY DEF StagedAlone
  <2>1. remote[t] # NoTree /\ remote'[t][g] = remote[t][g]
    <3>1. CASE t = b
      <4>1. b \in Topics /\ f = b /\ remote[b] \in Trees
        BY <1>2, <3>1 DEF Shape, TypeOK, RepoTypeOK
      <4> QED
        BY <1>2, <3>1, <4>1 DEF Shape, TypeOK, RepoTypeOK, Trees
    <3>2. CASE t # b
      BY <1>2, <1>3, <3>2 DEF Shape, TypeOK, RepoTypeOK
    <3> QED
      BY <3>1, <3>2
  <2> QED
    BY <1>1, <1>3, <2>1 DEF Apart, StagedAlone
<1>5. CloneAlone'
  BY <1>1, <1>3 DEF Apart, CloneAlone
<1>6. PrimaryIsUnstaged'
  BY <1>1 DEF Apart, PrimaryIsUnstaged, Pair
<1> QED
  BY <1>4, <1>5, <1>6 DEF Apart

LEMMA ApartMerged ==
  ASSUME Shape, Apart, NEW t \in Topics, OthersMerge(t)
  PROVE  Apart'
<1>1. \A a \in Branches : shown[a] \subseteq shown'[a]
  BY OutsideMergeInv, BranchFacts DEF Shape, TypeOK, OthersMerge
<1>2. UNCHANGED <<local, unpushed, sent, dropped>> /\ Ids' = Ids
  BY DEF OthersMerge, OutsideMerge, loopVars, sqsVars, Ids
<1>3. \A s \in Topics : remote'[s] \in {remote[s], NoTree}
  BY RepoAssumption DEF OthersMerge, OutsideMerge, Branches, Shape, TypeOK, RepoTypeOK
<1> QED
  BY <1>1, <1>2, <1>3, ApartStays

LEMMA ApartNext == Shape /\ Content /\ Apart /\ [Next]_vars => Apart'
<1> SUFFICES ASSUME Shape, Content, Apart, [Next]_vars PROVE Apart'
  OBVIOUS
<1>1. ASSUME Restart \/ Crash PROVE Apart'
  BY <1>1, ApartLost DEF Restart, Crash, QH!Crash, QH!sqsVars, sqsVars
<1>2. ASSUME Handle PROVE Apart'
  <2>1. ASSUME NEW g \in Games, Enter(g) PROVE Apart'
    BY <2>1, ApartPull DEF Enter, QH!Enter, QH!sqsVars
  <2>2. ASSUME NEW g \in Games, EnterRaises(g) PROVE Apart'
    BY <1>1, <2>2 DEF EnterRaises
  <2>3. ASSUME NEW i \in Ids, ProcessStaged(i) PROVE Apart'
    BY <2>3, ApartSame
    DEF ProcessStaged, QH!Process, QH!sqsVars, repoVars, remoteVars, cloneVars
  <2>4. ASSUME NEW i \in Ids, ProcessPrimary(i) \/ OpenStaged(i) PROVE Apart'
    BY <2>4, ApartPrimary, ApartOpen
  <2>5. ASSUME SkipPush PROVE Apart'
    BY <2>5, ApartSame DEF SkipPush, loopVars, sqsVars, repoVars, remoteVars, cloneVars
  <2>6. ASSUME PullPrimary PROVE Apart'
    BY <2>6, ApartPull, Running DEF PullPrimary, PrimaryDone, loopVars, sqsVars
  <2>7. ASSUME PullRaises \/ PublishRaises PROVE Apart'
    BY <1>1, <2>7 DEF PullRaises, PublishRaises
  <2>8. ASSUME PushPrimary \/ MergeStaged \/ PublishStaged PROVE Apart'
    BY <2>8, ApartPush, ApartMerge, ApartPublish
  <2>9. ASSUME Propose PROVE Apart'
    BY <2>9, ApartSame
    DEF Propose, StagedDone, QH!Process, QH!sqsVars, repoVars, remoteVars, cloneVars
  <2>10. ASSUME Finish PROVE Apart'
    BY <2>10, ApartOthers DEF Finish, QH!Finish, QH!Leave, QH!SqsDelete
  <2> QED
    BY <1>2, <2>1, <2>2, <2>3, <2>4, <2>5, <2>6, <2>7, <2>8, <2>9, <2>10 DEF Handle
<1>3. ASSUME NEW k \in Kinds, Send(k) PROVE Apart'
  BY <1>3, ApartSend
<1>4. ASSUME NEW S \in SUBSET Stored, Poll(S) \/ PollExits(S) PROVE Apart'
  BY <1>4, ApartPoll, ApartLost DEF PollExits, QH!PollExits, QH!SqsReceive
<1>5. ASSUME ProposeFails PROVE Apart'
  BY <1>5, ApartSame DEF ProposeFails, StagedDone, QH!Process, QH!sqsVars, cloneVars
<1>6. ASSUME FinishPartly \/ Reappear \/ Overrun PROVE Apart'
  BY <1>6, ApartOthers
  DEF FinishPartly, QH!FinishPartly, QH!Leave, QH!SqsDelete, Reappear, QH!Reappear, Overrun,
      QH!Overrun, QH!SqsExpire
<1>7. ASSUME NEW b \in Branches, NEW f \in Files, NEW c \in Contents \cup {Absent},
             OthersEdit(b, f, c)
      PROVE  Apart'
  BY <1>7, ApartEdit
<1>8. ASSUME NEW t \in Topics, OthersMerge(t) PROVE Apart'
  BY <1>8, ApartMerged
<1>9. CASE UNCHANGED vars
  BY <1>9, ApartSame DEF vars, loopVars, sqsVars, repoVars, remoteVars, cloneVars
<1> QED
  BY <1>1, <1>2, <1>3, <1>4, <1>5, <1>6, <1>7, <1>8, <1>9 DEF Next

-----------------------------------------------------------------------------
(* What only grows.                                                        *)

\* Histories, refusals, requests and messages; and what is deleted was processed.
Grows ==
  /\ \A b \in Branches : shown[b] \subseteq shown'[b]
  /\ edited \subseteq edited' /\ dropped \subseteq dropped'
  /\ raised \subseteq raised' /\ unproposed \subseteq unproposed'
  /\ Ids \subseteq Ids' /\ \A i \in Ids : sent'[i] = sent[i]
  /\ acked' \subseteq acked \cup processed

\* What the steps of the loop change of the messages.
LEMMA SentGrows ==
  ASSUME Shape, [Next]_vars
  PROVE  /\ Ids \subseteq Ids' /\ \A i \in Ids : sent'[i] = sent[i]
         /\ acked' \subseteq acked \cup processed
<1>1. [QH!Next]_loopVars
  BY LoopStep
<1>2. ASSUME UNCHANGED <<sent, acked>>
      PROVE  /\ Ids \subseteq Ids' /\ \A i \in Ids : sent'[i] = sent[i]
             /\ acked' \subseteq acked \cup processed
  BY <1>2 DEF Ids
<1>3. ASSUME NEW k \in Kinds, QH!Send(k)
      PROVE  Ids \subseteq Ids' /\ acked' = acked /\ \A i \in Ids : sent'[i] = sent[i]
  <2>1. sent \in Seq(Kinds) /\ sent' = Append(sent, k) /\ acked' = acked
    BY <1>3 DEF Shape, TypeOK, QH!TypeOK, QH!SqsTypeOK, QH!Send, QH!SqsSend
  <2> QED
    BY <2>1 DEF Ids
<1>4. ASSUME QH!Finish \/ QH!FinishPartly
      PROVE  sent' = sent /\ acked' \subseteq acked \cup processed
  BY <1>4 DEF QH!Finish, QH!FinishPartly, QH!Leave, QH!SqsDelete
<1>5. ASSUME NEW S, QH!Poll(S) \/ QH!PollExits(S) PROVE UNCHANGED <<sent, acked>>
  BY <1>5 DEF QH!Poll, QH!PollExits, QH!SqsReceive
<1>6. ASSUME NEW g, QH!Enter(g) \/ QH!Process(g) PROVE UNCHANGED <<sent, acked>>
  BY <1>6 DEF QH!Enter, QH!Process, QH!sqsVars
<1>7. ASSUME QH!Reappear \/ QH!Overrun \/ QH!Raise \/ QH!Crash PROVE UNCHANGED <<sent, acked>>
  BY <1>7 DEF QH!Reappear, QH!Overrun, QH!Raise, QH!Crash, QH!SqsExpire, QH!sqsVars
<1> QED
  BY <1>1, <1>2, <1>3, <1>4, <1>5, <1>6, <1>7 DEF QH!Next, loopVars, sqsVars, Ids

\* A push adds to the history of its branch.
LEMMA PushGrows ==
  ASSUME Shape, NEW b \in Branches, Pushed(b)
  PROVE  (\A c \in Branches : shown[c] \subseteq shown'[c]) /\ edited' = edited
BY DEF Pushed, Shape, TypeOK, RepoTypeOK

LEMMA NextGrows == Shape /\ [Next]_vars => Grows
<1> SUFFICES ASSUME Shape, [Next]_vars PROVE Grows
  OBVIOUS
<1> DEFINE Rest == /\ \A b \in Branches : shown[b] \subseteq shown'[b]
                   /\ edited \subseteq edited' /\ dropped \subseteq dropped'
                   /\ raised \subseteq raised' /\ unproposed \subseteq unproposed'
<1> SUFFICES Rest
  BY SentGrows DEF Grows
<1>1. ASSUME UNCHANGED <<shown, edited, dropped, raised, unproposed>> PROVE Rest
  BY <1>1
<1>2. ASSUME Lost PROVE Rest
  BY <1>2 DEF Lost, LoseClones, remoteVars
<1>3. ASSUME UNCHANGED Others PROVE Rest
  BY <1>3 DEF Others, repoVars, remoteVars, hubVars
<1> HIDE DEF Rest
<1>4. ASSUME Restart \/ Crash PROVE Rest
  BY <1>2, <1>4 DEF Restart, Crash
<1>5. ASSUME Handle PROVE Rest
  <2>1. ASSUME NEW g \in Games, Enter(g) PROVE Rest
    BY <1>1, <2>1 DEF Enter, Pull, remoteVars, hubVars
  <2>2. ASSUME NEW g \in Games, EnterRaises(g) PROVE Rest
    BY <1>4, <2>2 DEF EnterRaises
  <2>3. ASSUME NEW i \in Ids, ProcessStaged(i) \/ ProcessPrimary(i) \/ OpenStaged(i) PROVE Rest
    BY <1>1, <2>3 DEF ProcessStaged, ProcessPrimary, OpenStaged, CommitTo, OpenTopic, repoVars,
                      remoteVars, hubVars
  <2>4. ASSUME SkipPush \/ PullPrimary PROVE Rest
    BY <1>1, <2>4 DEF SkipPush, PullPrimary, Pull, repoVars, remoteVars, hubVars
  <2>5. ASSUME MergeStaged PROVE Rest
    BY <1>1, <2>5 DEF MergeStaged, PullTopic, Pull, remoteVars, hubVars
  <2>6. ASSUME PullRaises \/ PublishRaises PROVE Rest
    BY <1>4, <2>6 DEF PullRaises, PublishRaises
  <2>7. ASSUME PushPrimary PROVE Rest
    <3>1. turn \in Branches
      BY <2>7, Running DEF PushPrimary
    <3>2. dropped \subseteq dropped' /\ UNCHANGED hubVars
      BY <2>7 DEF PushPrimary
    <3>3. (\A b \in Branches : shown[b] \subseteq shown'[b]) /\ edited' = edited
      BY <2>7, <3>1, PushGrows DEF PushPrimary, repoVars, remoteVars
    <3> QED
      BY <3>2, <3>3 DEF Rest, hubVars
  <2>8. ASSUME PublishStaged PROVE Rest
    <3>1. sent[cur].file \in Branches /\ Pushed(sent[cur].file)
      BY <2>8, InBranch DEF PublishStaged, OnCur, CloseTopic
    <3> QED
      BY <2>8, <3>1, PushGrows DEF Rest, PublishStaged, hubVars
  <2>9. ASSUME Propose PROVE Rest
    BY <2>9 DEF Propose, Rest, repoVars, remoteVars
  <2>10. ASSUME Finish PROVE Rest
    BY <1>3, <2>10 DEF Finish
  <2> QED
    BY <1>5, <2>1, <2>2, <2>3, <2>4, <2>5, <2>6, <2>7, <2>8, <2>9, <2>10 DEF Handle
<1>6. ASSUME NEW k \in Kinds, Send(k) PROVE Rest
  BY <1>1, <1>6 DEF Send, repoVars, remoteVars, hubVars
<1>7. ASSUME NEW S \in SUBSET Stored, Poll(S) \/ PollExits(S) PROVE Rest
  BY <1>1, <1>2, <1>7 DEF Poll, PollExits, CloneAll, remoteVars, hubVars
<1>8. ASSUME ProposeFails PROVE Rest
  BY <1>8 DEF ProposeFails, Rest, hubVars
<1>9. ASSUME FinishPartly \/ Reappear \/ Overrun PROVE Rest
  BY <1>3, <1>9 DEF FinishPartly, Reappear, Overrun
<1>10. ASSUME NEW b \in Branches, NEW f \in Files, NEW c \in Contents \cup {Absent},
              OthersEdit(b, f, c)
       PROVE  Rest
  <2>1. \A a \in Branches : shown[a] \subseteq shown'[a]
    BY <1>10, OutsideEditInv DEF Shape, TypeOK, OthersEdit
  <2> QED
    BY <1>10, <2>1 DEF Rest, OthersEdit, OutsideEdit, hubVars
<1>11. ASSUME NEW t \in Topics, OthersMerge(t) PROVE Rest
  <2>1. \A a \in Branches : shown[a] \subseteq shown'[a]
    BY <1>11, OutsideMergeInv, BranchFacts DEF Shape, TypeOK, OthersMerge
  <2> QED
    BY <1>11, <2>1 DEF Rest, OthersMerge, OutsideMerge
<1>12. CASE UNCHANGED vars
  BY <1>1, <1>12 DEF vars, repoVars, remoteVars, hubVars
<1> QED
  BY <1>4, <1>5, <1>6, <1>7, <1>8, <1>9, <1>10, <1>11, <1>12 DEF Next

-----------------------------------------------------------------------------
(* Every staging branch has had its pull request.                          *)

LEMMA RequestedStays ==
  ASSUME Grows, NEW t, Requested(t)
  PROVE  Requested(t)'
BY DEF Grows, Requested

LEMMA RequestStays ==
  ASSUME Shape, Grows, NEW i \in Ids, sent[i].game \in Games, HasRequest(i)
  PROVE  HasRequest(i)'
<1>1. sent'[i] = sent[i] /\ sent[i].game \in Branches
  BY BranchFacts DEF Grows
<1> QED
  BY <1>1, RequestedStays DEF HasRequest, Grows, Pair

\* Steps that make no staging branch; a request that was due is made, or stays due.
LEMMA TopicsStay ==
  ASSUME Shape, Grows, TopicRequested,
         \A t \in Topics : remote'[t] # NoTree => remote[t] # NoTree,
         \A t \in Topics : local'[t] # NoTree => local[t] # NoTree,
         \A t \in Topics : step = "propose" /\ sent[cur].file = t =>
           (step' = "propose" /\ cur' = cur) \/ Requested(t)',
         \A t \in Topics : OnCur /\ indexed /\ sent[cur].file = t =>
           (OnCur' /\ indexed' /\ cur' = cur) \/ Requested(t)' \/ local'[t] = NoTree
  PROVE  TopicRequested'
<1>1. OnCur => cur \in Ids /\ sent'[cur] = sent[cur]
  BY InBranch DEF Grows
<1>2. step = "propose" => OnCur
  BY DEF OnCur
<1> SUFFICES ASSUME NEW t \in Topics
             PROVE  /\ remote'[t] # NoTree =>
                         Requested(t)' \/ (step' = "propose" /\ sent'[cur'].file = t)
                    /\ local'[t] # NoTree =>
                         Requested(t)' \/ (OnCur' /\ indexed' /\ sent'[cur'].file = t)
  BY DEF TopicRequested
<1>3. Requested(t) => Requested(t)'
  BY RequestedStays
<1>4. ASSUME remote'[t] # NoTree
      PROVE  Requested(t)' \/ (step' = "propose" /\ sent'[cur'].file = t)
  <2>1. CASE step = "propose" /\ sent[cur].file = t
    BY <1>1, <1>2, <2>1
  <2> QED
    BY <1>3, <1>4, <2>1 DEF TopicRequested
<1>5. ASSUME local'[t] # NoTree
      PROVE  Requested(t)' \/ (OnCur' /\ indexed' /\ sent'[cur'].file = t)
  <2>1. CASE OnCur /\ indexed /\ sent[cur].file = t
    BY <1>1, <1>5, <2>1
  <2> QED
    BY <1>3, <1>5, <2>1 DEF TopicRequested
<1> QED
  BY <1>4, <1>5

LEMMA AskedParts ==
  ASSUME Shape, Grows, Asked, TopicRequested',
         \A i \in processed' : i \in processed \/ HasRequest(i)'
  PROVE  Asked'
<1>1. \A i \in processed : i \in Ids /\ sent[i].game \in Games
  BY Running DEF Shape, Flow, OwnMessages
<1>2. \A i \in processed : HasRequest(i)'
  BY <1>1, RequestStays DEF Asked, ProcessedRequested
<1>3. \A i \in acked : HasRequest(i)'
  <2>1. \A i \in acked : i \in Ids /\ sent[i].game \in Games /\ HasRequest(i)
    BY DEF Asked, StagedHasPullRequest, HasRequest, Requested, Shape, Flow, OwnMessages
  <2> QED
    BY <2>1, RequestStays
<1>4. \A i \in acked' : HasRequest(i)'
  BY <1>2, <1>3 DEF Grows
<1> QED
  BY <1>2, <1>4 DEF Asked, ProcessedRequested, StagedHasPullRequest, HasRequest, Requested

\* Steps that leave the handler where it is.
LEMMA AskedSame ==
  ASSUME Shape, Grows, Asked, UNCHANGED <<step, cur, indexed>>, processed' \subseteq processed,
         \A t \in Topics : remote'[t] # NoTree => remote[t] # NoTree,
         \A t \in Topics : local'[t] # NoTree => local[t] # NoTree
  PROVE  Asked'
<1>1. OnCur' = OnCur
  BY DEF OnCur
<1> QED
  BY <1>1, TopicsStay, AskedParts DEF Asked

LEMMA AskedInit == Init => Asked
BY BranchFacts, RepoAssumption
DEF Init, QH!Init, QH!SqsInit, RepoInit, Asked, TopicRequested, ProcessedRequested,
    StagedHasPullRequest, Branches

LEMMA AskedOthers ==
  ASSUME Shape, Grows, Asked, UNCHANGED Others, processed' \subseteq processed
  PROVE  Asked'
BY AskedSame DEF Others, stepVars, repoVars, remoteVars, cloneVars

LEMMA AskedPoll ==
  ASSUME Shape, Grows, Asked, NEW S \in SUBSET Stored, Poll(S)
  PROVE  Asked'
<1>1. \A t \in Topics : local'[t] = local[t]
  BY RepoAssumption, BranchFacts DEF Poll, CloneAll, Branches
<1>2. UNCHANGED <<processed, step, cur, indexed, remote>>
  BY DEF Poll, QH!Poll, CloneAll, remoteVars, stepVars
<1> QED
  BY <1>1, <1>2, AskedSame

\* The process dies: a request that was due is lost, and known to be.
LEMMA AskedLost ==
  ASSUME Shape, Grows, Asked, Lost, processed' = {}
  PROVE  Asked'
<1>1. /\ \A t \in Topics : local'[t] = NoTree
      /\ remote' = remote
      /\ step = "propose" => sent[cur].file \in unproposed'
  BY DEF Lost, LoseClones, remoteVars, Branches
<1>2. \A t \in Topics : step = "propose" /\ sent[cur].file = t => Requested(t)'
  BY <1>1 DEF Requested
<1>3. TopicRequested'
  BY <1>1, <1>2, TopicsStay DEF Asked
<1> QED
  BY <1>3, AskedParts

\* Steps outside of change_branch, on the primary branch.
LEMMA AskedPrimary ==
  ASSUME Shape, Grows, Asked, ~OnCur,
         \A t \in Topics : remote'[t] = remote[t] /\ local'[t] = local[t],
         \A i \in processed' : i \in processed \/ ~sent'[i].staged
  PROVE  Asked'
<1>1. step # "propose"
  BY DEF OnCur
<1>2. TopicRequested'
  BY <1>1, TopicsStay DEF Asked
<1> QED
  BY <1>2, AskedParts DEF HasRequest

\* Outside of change_branch what the clone has of a file is on the primary
\* branch, or its push was refused.
LEMMA AskedProcessed ==
  ASSUME Shape, Content, Grows, Asked, NEW i \in Ids, ProcessStaged(i)
  PROVE  Asked'
<1>1. /\ turn # Idle /\ step = "staged" /\ ~ToStage(i) /\ i \in batch[turn]
      /\ processed' = processed \cup {i} /\ UNCHANGED <<sent, step, cur, indexed, remote, local>>
      /\ UNCHANGED <<raised, unproposed, shown, dropped>>
  BY ProcessType DEF ProcessStaged, NextStaged, repoVars, remoteVars, cloneVars, stepVars, hubVars
<1>2. HasRequest(i)
  <2> SUFFICES ASSUME sent[i].success PROVE Pair(i) \in shown[turn] \/ Requested(sent[i].file)
    BY <1>1, Running DEF HasRequest
  <2>1. ~Changed(i) /\ ~InTopic
    BY <1>1 DEF ToStage, InTopic
  <2>2. Pair(i) \in shown[turn] \cup unpushed[turn]
    BY <1>1, <2>1, UnchangedKnown
  <2>3. unpushed[turn] \subseteq dropped
    BY <1>1, Running DEF Content, UnpushedDropped, Owing
  <2>4. Pair(i)[1] = sent[i].file
    BY DEF Pair
  <2> QED
    BY <2>2, <2>3, <2>4 DEF Requested
<1>3. HasRequest(i)'
  BY <1>1, <1>2 DEF HasRequest, Requested, Pair
<1>4. TopicRequested'
  BY <1>1, TopicsStay DEF Asked, OnCur
<1> QED
  BY <1>1, <1>3, <1>4, AskedParts

\* A branch that is new has something to be pushed, and so a request to come.
LEMMA AskedOpen ==
  ASSUME Shape, Grows, Asked, NEW i \in Ids, OpenStaged(i)
  PROVE  Asked'
<1> DEFINE t == sent[i].file
           commit == Start(t)[t] # sent[i].content
<1>1. /\ turn # Idle /\ step = "staged" /\ i \in batch[turn] /\ Changed(i)
      /\ OpenTopic(t, IF commit THEN {Pair(i)} ELSE {})
      /\ indexed' = commit /\ cur' = i /\ step' = "merge"
      /\ UNCHANGED <<sent, processed, raised, unproposed, dropped>>
  BY DEF OpenStaged, NextStaged, Earliest, Staged, ToStage, loopVars, sqsVars, hubVars
<1>2. t \in Topics /\ t \in Files /\ Home[t] = turn /\ active[turn] = turn
  BY <1>1, Running DEF InTopic
<1> HIDE DEF t
<1>3. remote' = remote /\ \A u \in Topics \ {t} : local'[u] = local[u]
  BY <1>1 DEF OpenTopic, remoteVars, Shape, TypeOK, RepoTypeOK, Branches
<1>4. commit \/ remote[t] # NoTree \/ local[t] # NoTree
  <2>1. local[turn][t] # sent[i].content
    BY <1>1, <1>2 DEF Changed, t
  <2> QED
    BY <1>2, <2>1 DEF Start
<1>5. commit \/ Requested(t)
  BY <1>1, <1>2, <1>4 DEF Asked, TopicRequested, OnCur
<1>6. TopicRequested'
  <2> HIDE DEF commit
  <2> SUFFICES ASSUME NEW u \in Topics
               PROVE  /\ remote[u] # NoTree => Requested(u)'
                      /\ local'[u] # NoTree => Requested(u)' \/ (indexed' /\ t = u)
    BY <1>1, <1>3 DEF TopicRequested, OnCur, t
  <2>1. Requested(u) => Requested(u)'
    BY RequestedStays
  <2> QED
    BY <1>1, <1>3, <1>5, <2>1 DEF Asked, TopicRequested, OnCur
<1> QED
  BY <1>1, <1>6, AskedParts

LEMMA AskedMerge == Shape /\ Grows /\ Asked /\ MergeStaged => Asked'
<1> SUFFICES ASSUME Shape, Grows, Asked, MergeStaged PROVE Asked'
  OBVIOUS
<1>1. /\ OnCur /\ InTopic /\ PullTopic(sent[cur].file) /\ step = "merge" /\ step' = "publish"
      /\ UNCHANGED <<cur, indexed, processed>>
  BY DEF MergeStaged, OnCur, InTopic, loopVars
<1>2. sent[cur].file \in Topics /\ local[sent[cur].file] # NoTree
  BY <1>1, InBranch
<1>3. remote' = remote /\ \A t \in Topics : t = sent[cur].file \/ local'[t] = local[t]
  BY <1>1 DEF PullTopic, Pull, remoteVars, Shape, TypeOK, RepoTypeOK, Branches
<1>4. TopicRequested'
  BY <1>1, <1>2, <1>3, TopicsStay DEF Asked, OnCur
<1> QED
  BY <1>1, <1>4, AskedParts

\* Nothing was committed: then the branch was there, with its request.
LEMMA AskedPublish == Shape /\ Grows /\ Asked /\ PublishStaged => Asked'
<1> SUFFICES ASSUME Shape, Grows, Asked, PublishStaged PROVE Asked'
  OBVIOUS
<1>1. PICK t : t = sent[cur].file
  OBVIOUS
<1>2. /\ OnCur /\ InTopic /\ step = "publish" /\ Pushed(t)
      /\ IF indexed THEN step' = "propose" /\ UNCHANGED <<loopVars, cur, indexed>>
                    ELSE StagedDone
  BY <1>1 DEF PublishStaged, OnCur, InTopic, CloseTopic
<1>3. t \in Topics /\ local[t] # NoTree /\ cur \in Ids /\ sent'[cur] = sent[cur]
  BY <1>1, <1>2, InBranch DEF Grows
<1>4. local' = local /\ \A u \in Topics : u = t \/ remote'[u] = remote[u]
  BY <1>2 DEF Pushed, Shape, TypeOK, RepoTypeOK, Branches
<1>5. \A u \in Topics : Requested(u) => Requested(u)'
  BY RequestedStays
<1>6. CASE indexed
  <2>1. TopicRequested'
    BY <1>1, <1>2, <1>3, <1>4, <1>5, <1>6 DEF Asked, TopicRequested, OnCur
  <2> QED
    BY <1>2, <1>6, <2>1, AskedParts DEF loopVars
<1>7. CASE ~indexed
  <2>1. Requested(t)' /\ processed' = processed \cup {cur}
    BY <1>1, <1>2, <1>3, <1>5, <1>7 DEF Asked, TopicRequested, StagedDone, QH!Process
  <2>2. TopicRequested'
    BY <1>2, <1>4, <1>5, <1>7, <2>1 DEF Asked, TopicRequested, OnCur
  <2>3. \A i \in {cur} : HasRequest(i)'
    BY <1>1, <1>3, <2>1 DEF HasRequest
  <2> QED
    BY <2>1, <2>2, <2>3, AskedParts
<1> QED
  BY <1>6, <1>7

\* The request is made, or refused.
LEMMA AskedPropose == Shape /\ Grows /\ Asked /\ (Propose \/ ProposeFails) => Asked'
<1> SUFFICES ASSUME Shape, Grows, Asked, Propose \/ ProposeFails PROVE Asked'
  OBVIOUS
<1>1. /\ OnCur /\ step = "propose" /\ StagedDone
      /\ raised' = raised \cup {sent[cur].file} \/ dropped' = dropped \cup {Pair(cur)}
      /\ remote' = remote /\ local' = local
  BY DEF Propose, ProposeFails, OnCur, repoVars, remoteVars, cloneVars
<1>2. PICK t : t = sent[cur].file
  OBVIOUS
<1>3. t \in Topics /\ cur \in Ids /\ sent'[cur] = sent[cur] /\ processed' = processed \cup {cur}
  BY <1>1, <1>2, InBranch DEF Grows, StagedDone, QH!Process
<1>4. Requested(t)'
  <2>1. Pair(cur)[1] = t
    BY <1>2 DEF Pair
  <2> QED
    BY <1>1, <1>2, <2>1 DEF Requested
<1>5. TopicRequested'
  BY <1>1, <1>2, <1>4, TopicsStay DEF Asked, OnCur
<1>6. \A i \in {cur} : HasRequest(i)'
  BY <1>2, <1>3, <1>4 DEF HasRequest
<1> QED
  BY <1>3, <1>5, <1>6, AskedParts

LEMMA AskedEdit ==
  ASSUME Shape, Grows, Asked, NEW b \in Branches, NEW f \in Files,
         NEW c \in Contents \cup {Absent}, OthersEdit(b, f, c)
  PROVE  Asked'
<1>1. /\ remote[b] # NoTree /\ local' = local /\ UNCHANGED <<step, cur, indexed, processed>>
      /\ \A t \in Branches : t = b \/ remote'[t] = remote[t]
  BY DEF OthersEdit, OutsideEdit, Outside, stepVars, loopVars, Shape, TypeOK, RepoTypeOK
<1> QED
  BY <1>1, AskedSame DEF Branches

LEMMA AskedMerged ==
  ASSUME Shape, Grows, Asked, NEW t \in Topics, OthersMerge(t)
  PROVE  Asked'
<1>1. t \in Branches /\ Home[t] \in Repos
  BY RepoAssumption DEF Branches
<1>2. /\ local' = local /\ UNCHANGED <<step, cur, indexed, processed>>
      /\ \A u \in Topics : remote'[u] \in {remote[u], NoTree}
  BY <1>1, RepoAssumption
  DEF OthersMerge, OutsideMerge, stepVars, loopVars, Shape, TypeOK, RepoTypeOK, Branches
<1> QED
  BY <1>2, AskedSame

LEMMA AskedNext == Shape /\ Content /\ Asked /\ [Next]_vars => Asked'
<1> SUFFICES ASSUME Shape, Content, Asked, [Next]_vars PROVE Asked'
  OBVIOUS
<1>0. Grows
  BY NextGrows
<1>1. ASSUME Restart \/ Crash PROVE Asked'
  BY <1>0, <1>1, AskedLost DEF Restart, Crash, QH!Crash, QH!Fresh
<1>2. ASSUME Handle PROVE Asked'
  <2>1. ASSUME NEW g \in Games, Enter(g) PROVE Asked'
    <3>1. turn = Idle /\ processed' = processed /\ remote' = remote
          /\ \A t \in Topics : local'[t] = local[t]
      BY <2>1, RepoAssumption, BranchFacts
      DEF Enter, QH!Enter, QH!Due, Pull, remoteVars, Shape, TypeOK, RepoTypeOK, Branches
    <3>2. ~OnCur
      BY <3>1, InBranch
    <3> QED
      BY <1>0, <3>1, <3>2, AskedPrimary
  <2>2. ASSUME NEW g \in Games, EnterRaises(g) PROVE Asked'
    BY <1>1, <2>2 DEF EnterRaises
  <2>3. ASSUME NEW i \in Ids, ProcessPrimary(i) PROVE Asked'
    <3>1. /\ step = "primary" /\ ~sent[i].staged /\ turn # Idle
          /\ processed' = processed \cup {i} /\ sent' = sent /\ remote' = remote
          /\ local' = local \/ local' = [local EXCEPT ![active[turn]] =
                                           [@ EXCEPT ![sent[i].file] = sent[i].content]]
      BY <2>3, ProcessType
      DEF ProcessPrimary, Earliest, Primary, CommitTo, repoVars, remoteVars, cloneVars
    <3>2. ~OnCur /\ active[turn] = turn /\ turn \notin Topics
      BY <3>1, Running, RepoAssumption DEF OnCur, InTopic
    <3>3. \A t \in Topics : local'[t] = local[t]
      BY <3>1, <3>2 DEF Shape, TypeOK, RepoTypeOK, Branches
    <3> QED
      BY <1>0, <3>1, <3>2, <3>3, AskedPrimary
  <2>4. ASSUME SkipPush \/ PullPrimary \/ PushPrimary PROVE Asked'
    <3>1. turn # Idle /\ step \in {"primary", "push"} /\ processed' = processed
      BY <2>4 DEF SkipPush, PullPrimary, PushPrimary, PrimaryDone, loopVars
    <3>2. ~OnCur /\ turn \notin Topics
      BY <3>1, Running, RepoAssumption DEF OnCur
    <3>3. \A t \in Topics : local'[t] = local[t] /\ remote'[t] = remote[t]
      BY <2>4, <3>2
      DEF SkipPush, PullPrimary, PushPrimary, Pull, Pushed, repoVars, cloneVars, remoteVars,
          Shape, TypeOK, RepoTypeOK, Branches
    <3> QED
      BY <1>0, <3>1, <3>2, <3>3, AskedPrimary
  <2>5. ASSUME NEW i \in Ids, ProcessStaged(i) \/ OpenStaged(i) PROVE Asked'
    BY <1>0, <2>5, AskedProcessed, AskedOpen
  <2>6. ASSUME PullRaises \/ PublishRaises PROVE Asked'
    BY <1>1, <2>6 DEF PullRaises, PublishRaises
  <2>7. ASSUME MergeStaged \/ PublishStaged \/ Propose PROVE Asked'
    BY <1>0, <2>7, AskedMerge, AskedPublish, AskedPropose
  <2>8. ASSUME Finish PROVE Asked'
    BY <1>0, <2>8, AskedOthers DEF Finish, QH!Finish, QH!Leave
  <2> QED
    BY <1>2, <2>1, <2>2, <2>3, <2>4, <2>5, <2>6, <2>7, <2>8 DEF Handle
<1>3. ASSUME NEW k \in Kinds, Send(k) PROVE Asked'
  BY <1>0, <1>3, AskedOthers DEF Send, QH!Send, QH!loopVars, Others
<1>4. ASSUME NEW S \in SUBSET Stored, Poll(S) \/ PollExits(S) PROVE Asked'
  BY <1>0, <1>4, AskedPoll, AskedLost DEF PollExits, QH!PollExits, QH!Fresh
<1>5. ASSUME ProposeFails PROVE Asked'
  BY <1>0, <1>5, AskedPropose
<1>6. ASSUME FinishPartly \/ Reappear \/ Overrun PROVE Asked'
  BY <1>0, <1>6, AskedOthers
  DEF FinishPartly, QH!FinishPartly, QH!Leave, Reappear, QH!Reappear, Overrun, QH!Overrun, QH!loopVars
<1>7. ASSUME NEW b \in Branches, NEW f \in Files, NEW c \in Contents \cup {Absent},
             OthersEdit(b, f, c)
      PROVE  Asked'
  BY <1>0, <1>7, AskedEdit
<1>8. ASSUME NEW t \in Topics, OthersMerge(t) PROVE Asked'
  BY <1>0, <1>8, AskedMerged
<1>9. CASE UNCHANGED vars
  BY <1>0, <1>9, AskedSame DEF vars, loopVars, stepVars, repoVars, remoteVars, cloneVars
<1> QED
  BY <1>1, <1>2, <1>3, <1>4, <1>5, <1>6, <1>7, <1>8, <1>9 DEF Next

-----------------------------------------------------------------------------
(* What a handler works on is stored, and deleted in order.                *)

\* Ordered, with the names of the queue spelled out.
LEMMA OrderedMeans ==
  Ordered <=>
    /\ \A g \in Games : batch[g] \subseteq Stored /\ batch[g] \cap processed = {}
    /\ processed \subseteq Stored
    /\ \A g \in Games : \A i \in batch[g] : sent[i].game = g
    /\ \A j \in hidden : \A i \in Stored : i < j /\ sent[i].game = sent[j].game => i \in hidden
    /\ turn # Idle \/ todo # {} => DeletesFail \/
         \A i \in hidden : sent[i].game \in Games =>
           i \in batch[sent[i].game] \/ (turn = sent[i].game /\ i \in processed)
    /\ DeletesFail \/ \A j \in acked : \A i \in Ids :
         i < j /\ sent[i].game = sent[j].game => i \in acked
BY DEF Ordered, QH!WorkIsStored, QH!FlightIsPrefix, QH!FlightIsHeld, QH!DeletedInOrder,
       QH!GameOf, QH!Good, QH!Polling, QH!Stored, QH!Ids, Stored, Ids

LEMMA OrderedInit == Init => Ordered
BY DEF Init, QH!Init, QH!SqsInit, Ordered, QH!WorkIsStored, QH!FlightIsPrefix, QH!FlightIsHeld,
       QH!DeletedInOrder, QH!Polling

\* Steps that leave the queue alone, but for what is in flight.
LEMMA OrderedFresh ==
  ASSUME Shape, Ordered, QH!Fresh, UNCHANGED <<sent, acked>>,
         hidden' = hidden \/ \E S \in SUBSET Stored : QH!SqsReceive(S)
  PROVE  Ordered'
<1>1. /\ batch' = [g \in Games |-> {}] /\ todo' = {} /\ turn' = Idle /\ processed' = {}
      /\ Stored' = Stored /\ Ids' = Ids
  BY DEF QH!Fresh, Stored, Ids
<1>2. \A i, j \in Ids : ~(i < j /\ j < i)
  BY DEF Ids
<1>3. \A j \in hidden' : \A i \in Stored :
        i < j /\ sent[i].game = sent[j].game => i \in hidden'
  <2>1. CASE hidden' = hidden
    BY <2>1, OrderedMeans
  <2>2. ASSUME NEW S \in SUBSET Stored, QH!SqsReceive(S)
        PROVE  \A j \in hidden' : \A i \in Stored : i < j => i \in hidden'
    BY <1>2, <2>2 DEF QH!SqsReceive, QH!Deliverable, QH!Stored, QH!Ids, Stored, Ids
  <2> QED
    BY <2>1, <2>2
<1> QED
  BY <1>1, <1>3, OrderedMeans DEF Ordered, QH!WorkIsStored, QH!FlightIsPrefix, QH!FlightIsHeld,
     QH!DeletedInOrder, QH!GameOf, QH!Good, QH!Polling, QH!Stored, QH!Ids, Stored, Ids

LEMMA OrderedSend ==
  ASSUME Shape, Ordered, NEW k \in Kinds, QH!Send(k)
  PROVE  Ordered'
<1>1. /\ sent \in Seq(Kinds) /\ acked \subseteq Ids /\ hidden \subseteq Stored
      /\ sent' = Append(sent, k)
      /\ UNCHANGED <<acked, hidden, batch, todo, turn, processed>>
  BY DEF Shape, TypeOK, QH!TypeOK, QH!SqsTypeOK, QH!Send, QH!SqsSend, QH!loopVars, QH!Ids,
         QH!Stored, Ids, Stored
<1>2. Ids' = Ids \cup {Len(sent) + 1} /\ \A i \in Ids : sent'[i] = sent[i] /\ i < Len(sent) + 1
  BY <1>1 DEF Ids
<1>3. Stored' = Stored \cup {Len(sent) + 1} /\ \A i, j \in Ids : ~(i < j /\ j < i)
  BY <1>1, <1>2 DEF Stored, Ids
<1>4. \A g \in Games : batch[g] \subseteq Stored
  BY OrderedMeans
<1>5. QH!WorkIsStored'
  BY <1>1, <1>2, <1>3 DEF Ordered, QH!WorkIsStored, QH!GameOf, QH!Stored, QH!Ids, Stored, Ids
<1>6. QH!FlightIsPrefix'
  <2> SUFFICES ASSUME NEW j \in hidden, NEW i \in Stored', i < j, sent'[i].game = sent'[j].game
               PROVE  i \in hidden
    BY <1>1 DEF QH!FlightIsPrefix, QH!GameOf, QH!Stored, QH!Ids, Stored, Ids
  <2>1. j \in Ids /\ j < Len(sent) + 1 /\ Len(sent) + 1 \in Nat
    BY <1>1, <1>2 DEF Stored
  <2>2. i \in Stored /\ i \in Ids
    BY <1>3, <2>1 DEF Stored, Ids
  <2> QED
    BY <1>2, <2>1, <2>2, OrderedMeans
<1>7. QH!FlightIsHeld'
  BY <1>1, <1>2 DEF Ordered, QH!FlightIsHeld, QH!GameOf, QH!Good, QH!Polling, Stored
<1>8. ~DeletesFail => QH!DeletedInOrder'
  <2> SUFFICES ASSUME ~DeletesFail, NEW j \in acked, NEW i \in Ids', i < j,
                      sent'[i].game = sent'[j].game
               PROVE  i \in acked
    BY <1>1 DEF QH!DeletedInOrder, QH!GameOf, QH!Ids, Ids
  <2>1. j \in Ids /\ j < Len(sent) + 1 /\ Len(sent) + 1 \in Nat
    BY <1>1, <1>2
  <2>2. i \in Ids
    BY <1>2, <2>1 DEF Ids
  <2> QED
    BY <1>2, <2>1, <2>2, OrderedMeans
<1> QED
  BY <1>5, <1>6, <1>7, <1>8 DEF Ordered

LEMMA OrderedPoll ==
  ASSUME Shape, Ordered, NEW S \in SUBSET Stored, QH!Poll(S)
  PROVE  Ordered'
<1>1. /\ turn = Idle /\ hidden' = S /\ UNCHANGED <<sent, acked, turn, processed>>
      /\ batch' = [g \in Games |-> {i \in S : sent[i].game = g}]
      /\ \A i \in S, j \in Stored \ S : i < j
  BY DEF QH!Poll, QH!Polling, QH!SqsReceive, QH!Deliverable, QH!GameOf, QH!Stored, QH!Ids,
         Stored, Ids
<1>2. processed = {} /\ Stored' = Stored /\ Ids' = Ids /\ \A i, j \in Ids : ~(i < j /\ j < i)
  BY <1>1 DEF Shape, Flow, OwnMessages, Stored, Ids
<1>3. QH!WorkIsStored' /\ QH!FlightIsHeld'
  BY <1>1, <1>2
  DEF QH!WorkIsStored, QH!FlightIsHeld, QH!GameOf, QH!Good, QH!Stored, QH!Ids, Stored, Ids
<1>4. QH!FlightIsPrefix'
  BY <1>1, <1>2 DEF QH!FlightIsPrefix, QH!Stored, QH!Ids, Stored, Ids
<1>5. ~DeletesFail => QH!DeletedInOrder'
  BY <1>1 DEF Ordered, QH!DeletedInOrder, QH!GameOf, QH!Ids
<1> QED
  BY <1>3, <1>4, <1>5 DEF Ordered

LEMMA OrderedEnter ==
  ASSUME Shape, Ordered, NEW g \in Games, QH!Enter(g)
  PROVE  Ordered'
<1>1. /\ turn = Idle /\ turn' = g /\ g \in todo
      /\ UNCHANGED <<sent, acked, hidden, batch, processed>>
  BY DEF QH!Enter, QH!Due, QH!sqsVars
<1>2. processed = {}
  BY <1>1 DEF Shape, Flow, OwnMessages
<1> QED
  BY <1>1, <1>2
  DEF Ordered, QH!WorkIsStored, QH!FlightIsPrefix, QH!FlightIsHeld, QH!DeletedInOrder,
      QH!GameOf, QH!Good, QH!Polling, QH!Stored, QH!Ids

LEMMA OrderedProcess ==
  ASSUME Shape, Ordered, NEW i, QH!Process(i)
  PROVE  Ordered'
<1>1. /\ turn # Idle /\ turn \in Games /\ i \in batch[turn]
      /\ processed' = processed \cup {i}
      /\ UNCHANGED <<sent, acked, hidden, turn, todo>>
      /\ i \in Ids /\ sent[i].game = turn
  BY ProcessType, Running
<1>2. batch' = [batch EXCEPT ![turn] = batch[turn] \ {i}] /\ batch \in [Games -> SUBSET Nat]
  BY DEF QH!Process, Shape, TypeOK, QH!TypeOK
<1>3. \A h \in Games : batch'[h] = batch[h] \ {i}
  <2>1. \A h \in Games \ {turn} : i \notin batch[h]
    BY <1>1, OrderedMeans
  <2> QED
    BY <1>1, <1>2, <2>1
<1>4. Stored' = Stored
  BY <1>1 DEF Stored, Ids
<1>5. QH!WorkIsStored'
  BY <1>1, <1>3, <1>4 DEF Ordered, QH!WorkIsStored, QH!GameOf, QH!Stored, QH!Ids, Stored, Ids
<1>6. QH!FlightIsPrefix' /\ (~DeletesFail => QH!DeletedInOrder')
  BY <1>1 DEF Ordered, QH!FlightIsPrefix, QH!DeletedInOrder, QH!GameOf, QH!Stored, QH!Ids
<1>7. QH!FlightIsHeld'
  BY <1>1, <1>3 DEF Ordered, QH!FlightIsHeld, QH!Polling, QH!Good, QH!GameOf
<1> QED
  BY <1>5, <1>6, <1>7 DEF Ordered

LEMMA OrderedLeave ==
  ASSUME Shape, Ordered, NEW D \in SUBSET processed, QH!Leave(D), D = processed \/ DeletesFail
  PROVE  Ordered'
<1>1. /\ turn # Idle /\ batch[turn] = {} /\ turn' = Idle /\ processed' = {}
      /\ acked' = acked \cup (D \cap hidden) /\ hidden' = hidden \ D
      /\ UNCHANGED <<sent, since, batch, todo>>
  BY DEF QH!Leave, QH!Drained, QH!SqsDelete
<1>2. turn \in Games /\ \A i \in processed : i \in Stored /\ sent[i].game = turn
  BY <1>1, OrderedMeans, Running DEF Shape, Flow, OwnMessages
<1>3. acked \subseteq Ids /\ hidden \subseteq Stored /\ Ids' = Ids
  BY <1>1 DEF Shape, TypeOK, QH!TypeOK, QH!SqsTypeOK, QH!Stored, QH!Ids, Stored, Ids
<1>4. QH!WorkIsStored'
  BY <1>1, <1>2 DEF Ordered, QH!WorkIsStored, QH!GameOf, QH!Stored, QH!Ids, Stored, Ids
<1>5. QH!FlightIsPrefix'
  BY <1>1, <1>3 DEF Ordered, QH!FlightIsPrefix, QH!GameOf, QH!Stored, QH!Ids, Stored, Ids
<1>6. QH!FlightIsHeld'
  BY <1>1, <1>2 DEF Ordered, QH!FlightIsHeld, QH!Polling, QH!Good, QH!GameOf
<1>7. ASSUME ~DeletesFail PROVE QH!DeletedInOrder'
  <2> SUFFICES ASSUME NEW j \in acked', NEW i \in Ids, i < j, sent[i].game = sent[j].game,
                      i \notin acked
               PROVE  i \in processed \cap hidden
    BY <1>1, <1>7 DEF QH!DeletedInOrder, QH!GameOf, QH!Ids, Ids
  <2>1. j \in hidden /\ sent[j].game = turn
    BY <1>1, <1>2, <1>7, OrderedMeans
  <2>2. i \in hidden
    BY <2>1, OrderedMeans DEF Stored
  <2>3. i \in processed
    BY <1>1, <1>2, <1>7, <2>1, <2>2, OrderedMeans
  <2> QED
    BY <2>2, <2>3
<1> QED
  BY <1>4, <1>5, <1>6, <1>7 DEF Ordered

LEMMA OrderedNext == Shape /\ Ordered /\ [Next]_vars => Ordered'
<1> SUFFICES ASSUME Shape, Ordered, [Next]_vars PROVE Ordered'
  OBVIOUS
<1>1. [QH!Next]_loopVars
  BY LoopStep
<1>2. ASSUME QH!Finish \/ QH!FinishPartly PROVE Ordered'
  BY <1>2, OrderedLeave DEF QH!Finish, QH!FinishPartly
<1>3. ASSUME QH!Reappear \/ QH!Overrun PROVE Ordered'
  <2>1. hidden' = {} /\ UNCHANGED <<sent, acked, batch, todo, turn, processed>>
    BY <1>3 DEF QH!Reappear, QH!Overrun, QH!SqsExpire, QH!loopVars
  <2> QED
    BY <2>1 DEF Ordered, QH!WorkIsStored, QH!FlightIsPrefix, QH!FlightIsHeld, QH!DeletedInOrder,
       QH!GameOf, QH!Good, QH!Polling, QH!Stored, QH!Ids
<1>4. ASSUME QH!Raise \/ QH!Crash PROVE Ordered'
  BY <1>4, OrderedFresh DEF QH!Raise, QH!Crash, QH!sqsVars
<1>5. ASSUME NEW S \in SUBSET Stored, QH!Poll(S) \/ QH!PollExits(S) PROVE Ordered'
  BY <1>5, OrderedPoll, OrderedFresh DEF QH!PollExits, QH!SqsReceive
<1>6. CASE UNCHANGED loopVars
  BY <1>6 DEF loopVars, sqsVars, Ordered, QH!WorkIsStored, QH!FlightIsPrefix, QH!FlightIsHeld,
     QH!DeletedInOrder, QH!GameOf, QH!Good, QH!Polling, QH!Stored, QH!Ids
<1>7. QH!Stored = Stored
  BY DEF QH!Stored, QH!Ids, Stored, Ids
<1> QED
  BY <1>1, <1>2, <1>3, <1>4, <1>5, <1>6, <1>7, OrderedSend, OrderedEnter, OrderedProcess DEF QH!Next

-----------------------------------------------------------------------------
(* What a step does to a file of a primary branch.                         *)

\* GitHub gets what the clone has, or keeps what it has; the clone keeps what it
\* has, or is made; and it knows what GitHub has.
Effect(g, f) ==
  /\ remote'[g][f] = remote[g][f] \/ (Cloned(g) /\ remote'[g][f] = local[g][f])
  /\ Cloned(g)' => /\ base'[g][f] = remote'[g][f]
                   /\ \/ Cloned(g) /\ local'[g][f] = local[g][f]
                      \/ ~Cloned(g) /\ local'[g][f] = remote[g][f]

LEMMA EffectSame ==
  ASSUME BaseKnown, edited \subseteq edited',
         \A g \in Games : remote'[g] = remote[g] /\ local'[g] = local[g] /\ base'[g] = base[g]
  PROVE  \A g \in Games, f \in Files \ edited' : Effect(g, f)
BY DEF Effect, BaseKnown, Cloned

LEMMA EffectLost ==
  ASSUME Lost
  PROVE  \A g \in Games, f \in Files \ edited' : Effect(g, f)
BY BranchFacts DEF Effect, Lost, LoseClones, remoteVars, Cloned

LEMMA EffectClone ==
  ASSUME Shape, BaseKnown, NEW R, CloneAll(R)
  PROVE  \A g \in Games, f \in Files \ edited' : Effect(g, f)
BY BranchFacts DEF Effect, BaseKnown, CloneAll, remoteVars, Cloned

\* A pull brings nothing new for a file nobody else has changed.
LEMMA EffectPull ==
  ASSUME Shape, BaseKnown, NEW r \in Games, Cloned(r), Pull(r)
  PROVE  \A g \in Games, f \in Files \ edited' : Effect(g, f)
<1> SUFFICES ASSUME NEW g \in Games, NEW f \in Files \ edited' PROVE Effect(g, f)
  OBVIOUS
<1>1. remote' = remote /\ edited' = edited /\ r \in Branches /\ g \in Branches
  BY BranchFacts DEF Pull, remoteVars
<1>2. CASE g = r
  <2>1. local'[r] = MergeOurs(base[r], local[r], remote[r]) /\ base'[r] = remote[r]
    BY <1>1 DEF Pull, Shape, TypeOK, RepoTypeOK
  <2>2. local'[r][f] = local[r][f]
    BY <1>1, <2>1 DEF MergeOurs, BaseKnown
  <2> QED
    BY <1>1, <1>2, <2>1, <2>2 DEF Effect
<1>3. CASE g # r
  <2>1. local'[g] = local[g] /\ base'[g] = base[g]
    BY <1>1, <1>3 DEF Pull, Shape, TypeOK, RepoTypeOK
  <2> QED
    BY <1>1, <2>1 DEF Effect, BaseKnown, Cloned
<1> QED
  BY <1>2, <1>3

LEMMA EffectPush ==
  ASSUME Shape, BaseKnown, NEW r \in Games, Cloned(r), Pushed(r)
  PROVE  \A g \in Games, f \in Files \ edited' : Effect(g, f)
<1> SUFFICES ASSUME NEW g \in Games, NEW f \in Files \ edited' PROVE Effect(g, f)
  OBVIOUS
<1>1. local' = local /\ edited' = edited /\ r \in Branches /\ g \in Branches
  BY BranchFacts DEF Pushed
<1>2. CASE g = r
  <2>1. remote'[r] = local[r] /\ base'[r] = local[r]
    BY <1>1 DEF Pushed, Shape, TypeOK, RepoTypeOK
  <2> QED
    BY <1>1, <1>2, <2>1 DEF Effect
<1>3. CASE g # r
  <2>1. remote'[g] = remote[g] /\ base'[g] = base[g]
    BY <1>1, <1>3 DEF Pushed, Shape, TypeOK, RepoTypeOK
  <2> QED
    BY <1>1, <2>1 DEF Effect, BaseKnown, Cloned
<1> QED
  BY <1>2, <1>3

\* What others change is among their files.
LEMMA EffectOthers ==
  ASSUME BaseKnown, edited \subseteq edited', UNCHANGED <<local, base>>,
         \A g \in Games, f \in Files \ edited' : remote'[g][f] = remote[g][f]
  PROVE  \A g \in Games, f \in Files \ edited' : Effect(g, f)
BY DEF Effect, BaseKnown, Cloned

LEMMA EffectEdit ==
  ASSUME Shape, BaseKnown, NEW b \in Branches, NEW h \in Files, NEW c \in Contents \cup {Absent},
         OthersEdit(b, h, c)
  PROVE  \A g \in Games, f \in Files \ edited' : Effect(g, f)
<1>1. /\ remote' = [remote EXCEPT ![b] = [remote[b] EXCEPT ![h] = c]] /\ remote[b] # NoTree
      /\ edited' = edited \cup {h} /\ UNCHANGED <<local, base>>
  BY DEF OthersEdit, OutsideEdit, Outside
<1>2. remote[b] \in Trees
  BY <1>1 DEF Shape, TypeOK, RepoTypeOK
<1>3. \A g \in Games, f \in Files \ edited' : remote'[g][f] = remote[g][f]
  <2> SUFFICES ASSUME NEW g \in Games, NEW f \in Files \ edited' PROVE remote'[g][f] = remote[g][f]
    OBVIOUS
  <2>1. remote'[g] = IF g = b THEN [remote[b] EXCEPT ![h] = c] ELSE remote[g]
    BY <1>1, BranchFacts DEF Shape, TypeOK, RepoTypeOK
  <2>2. [remote[b] EXCEPT ![h] = c][f] = remote[b][f]
    BY <1>1, <1>2 DEF Trees
  <2> QED
    BY <2>1, <2>2
<1> QED
  BY <1>1, <1>3, EffectOthers

LEMMA EffectMerged ==
  ASSUME Shape, BaseKnown, NEW t \in Topics, OthersMerge(t)
  PROVE  \A g \in Games, f \in Files \ edited' : Effect(g, f)
<1> DEFINE r == Home[t]
           news == {g \in Files : g = t \/ <<g, remote[t][g]>> \notin shown[r]}
           tree == [g \in Files |-> IF g \in news THEN remote[t][g] ELSE remote[r][g]]
<1>1. /\ remote' = [remote EXCEPT ![r] = tree, ![t] = NoTree]
      /\ edited' = edited \cup news /\ UNCHANGED <<local, base>>
  BY DEF OthersMerge, OutsideMerge
<1>2. \A f \in Files \ news : tree[f] = remote[r][f]
  OBVIOUS
<1> HIDE DEF news, tree
<1>3. \A g \in Games : g \in Branches /\ g # t /\ r \in Branches
  BY BranchFacts, RepoAssumption
<1>4. \A g \in Games : remote'[g] = IF g = r THEN tree ELSE remote[g]
  <2> HIDE DEF r
  <2> QED
    BY <1>1, <1>3 DEF Shape, TypeOK, RepoTypeOK
<1>5. \A g \in Games, f \in Files \ edited' : remote'[g][f] = remote[g][f]
  BY <1>1, <1>2, <1>4
<1> QED
  BY <1>1, <1>5, EffectOthers

-----------------------------------------------------------------------------
(* The last message for a file.                                            *)

LEMMA BaseKnownInit == Init => Uptodate
BY BranchFacts
DEF Init, QH!Init, QH!SqsInit, RepoInit, Uptodate, InTurn, BaseKnown, LastInClone, LastOnGitHub,
    OnCur, Cloned, Branches

\* The messages for a file: a message that comes is behind the others.
LEMMA CarriersGrow ==
  ASSUME Shape, Grows, NEW f
  PROVE  /\ Carriers(f) \subseteq Carriers(f)'
         /\ \A i \in Ids : i \in Carriers(f)' => i \in Carriers(f)
BY DEF Grows, Carriers, QH!Good, QH!GameOf

LEMMA InTurnStays ==
  ASSUME Shape, Grows, InTurn, UNCHANGED <<turn, processed, batch>>,
         OnCur' => OnCur /\ cur' = cur
  PROVE  InTurn'
<1>1. \A i \in processed : sent'[i] = sent[i]
  BY DEF Shape, Flow, OwnMessages, Grows
<1>2. turn # Idle => \A i \in batch[turn] : sent'[i] = sent[i]
  BY Running DEF Grows
<1>3. OnCur => turn # Idle
  BY InBranch
<1>4. turn # Idle => Staged' = Staged
  BY <1>2 DEF Staged
<1> QED
  BY <1>1, <1>2, <1>3, <1>4 DEF InTurn, Earliest

LEMMA CloneStays ==
  ASSUME Shape, Grows, LastInClone, turn' = turn,
         \A i \in processed' : i \in processed \/ (i \in Ids /\ sent[i].staged),
         turn # Idle => \A f \in Files \ edited' : local'[turn][f] = local[turn][f],
         processed \subseteq processed'
  PROVE  LastInClone'
<1> SUFFICES ASSUME turn # Idle, NEW f \in Files \ edited', NEW i \in Ids',
                    Newest(i, Carriers(f) \cap processed)'
             PROVE  local'[turn][f] = sent'[i].content
  BY DEF LastInClone, Newest
<1>1. processed \subseteq Ids
  BY DEF Shape, Flow, OwnMessages
<1>2. \A j \in Carriers(f)' \cap processed' : j \in Carriers(f) \cap processed
  BY <1>1, CarriersGrow DEF Carriers, Grows
<1>3. Newest(i, Carriers(f) \cap processed)
  BY <1>1, <1>2, CarriersGrow DEF Newest
<1>4. i \in Ids /\ sent'[i] = sent[i] /\ edited \subseteq edited'
  BY <1>1, <1>3 DEF Newest, Grows
<1> QED
  BY <1>3, <1>4 DEF LastInClone

LEMMA GitHubStays ==
  ASSUME Shape, Grows, LastOnGitHub, acked' \subseteq acked,
         \A g \in Games, f \in Files \ edited' : Effect(g, f)
  PROVE  LastOnGitHub'
<1> SUFFICES ASSUME ~DeletesFail, NEW f \in Files \ edited', NEW i \in acked',
                    Newest(i, Carriers(f))', Pair(i)' \notin dropped'
             PROVE  LET g == sent'[i].game
                    IN  /\ remote'[g][f] = sent'[i].content
                        /\ local'[g] # NoTree => local'[g][f] = sent'[i].content
  BY DEF LastOnGitHub, Cloned
<1>1. i \in acked /\ i \in Ids /\ sent[i].game \in Games /\ sent'[i] = sent[i]
  BY DEF Shape, Flow, OwnMessages, Grows
<1>2. Newest(i, Carriers(f)) /\ Pair(i) \notin dropped /\ f \in Files \ edited
  BY <1>1, CarriersGrow DEF Newest, Pair, Grows
<1>3. /\ remote[sent[i].game][f] = sent[i].content
      /\ Cloned(sent[i].game) => local[sent[i].game][f] = sent[i].content
  BY <1>1, <1>2 DEF LastOnGitHub
<1> QED
  BY <1>1, <1>3 DEF Effect, Cloned

\* Steps in which no message of the primary branch is processed or deleted.
LEMMA UptodateParts ==
  ASSUME Shape, Grows, Uptodate, InTurn', LastInClone', acked' = acked,
         \A g \in Games, f \in Files \ edited' : Effect(g, f)
  PROVE  Uptodate'
<1>1. BaseKnown'
  BY DEF BaseKnown, Effect
<1> QED
  BY <1>1, GitHubStays DEF Uptodate

LEMMA UptodateSame ==
  ASSUME Shape, Shape', Grows, Uptodate, UNCHANGED <<turn, processed, batch, acked>>,
         OnCur' => OnCur /\ cur' = cur,
         \A g \in Games, f \in Files \ edited' : Effect(g, f)
  PROVE  Uptodate'
<1>1. InTurn'
  BY InTurnStays DEF Uptodate
<1>2. turn # Idle => \A f \in Files \ edited' : local'[turn][f] = local[turn][f]
  BY Running DEF Shape, Flow, HandlersCloned, Effect
<1>3. LastInClone'
  BY <1>2, CloneStays DEF Uptodate
<1> QED
  BY <1>1, <1>3, UptodateParts

LEMMA UptodateIdle ==
  ASSUME Shape, Shape', Grows, Uptodate, turn' = Idle, acked' = acked,
         \A g \in Games, f \in Files \ edited' : Effect(g, f)
  PROVE  Uptodate'
<1>1. ~OnCur'
  BY DEF Shape, Flow, Position, OnCur
<1>2. InTurn' /\ LastInClone'
  BY <1>1 DEF InTurn, LastInClone
<1> QED
  BY <1>2, UptodateParts

\* The clones are made for the messages of the handlers' games.
LEMMA UptodatePoll ==
  ASSUME Shape, Shape', Grows, Uptodate, NEW S \in SUBSET Stored, Poll(S)
  PROVE  Uptodate'
<1>1. turn' = Idle /\ acked' = acked
  BY DEF Poll, QH!Poll, QH!Polling, QH!SqsReceive
<1>2. \A g \in Games, f \in Files \ edited' : Effect(g, f)
  BY EffectClone DEF Poll, Uptodate
<1> QED
  BY <1>1, <1>2, UptodateIdle

LEMMA UptodateLost ==
  ASSUME Shape, Shape', Grows, Uptodate, QH!Fresh, Lost, acked' = acked
  PROVE  Uptodate'
BY EffectLost, UptodateIdle DEF QH!Fresh

LEMMA UptodateEnter ==
  ASSUME Shape, Shape', Grows, Uptodate, NEW g \in Games, Enter(g)
  PROVE  Uptodate'
<1>1. /\ turn = Idle /\ g \in todo /\ Pull(g) /\ step' = "primary"
      /\ UNCHANGED <<acked, processed>>
  BY DEF Enter, QH!Enter, QH!Due, QH!sqsVars
<1>2. processed' = {} /\ ~OnCur' /\ Cloned(g)
  BY <1>1 DEF Shape, Flow, OwnMessages, HandlersCloned, OnCur
<1>3. InTurn' /\ LastInClone'
  BY <1>2 DEF InTurn, LastInClone, Newest
<1>4. \A h \in Games, f \in Files \ edited' : Effect(h, f)
  BY <1>1, <1>2, EffectPull DEF Uptodate
<1> QED
  BY <1>1, <1>3, <1>4, UptodateParts

\* One message of the primary branch is processed: it is behind those before it,
\* and none that was deleted is behind it.
LEMMA UptodatePrimary ==
  ASSUME Shape, Shape', Grows, Ordered, Uptodate, NEW i \in Ids, ProcessPrimary(i)
  PROVE  Uptodate'
<1> DEFINE commit == sent[i].success /\ Changed(i)
<1>1. /\ QH!Process(i) /\ step = "primary" /\ step' = "primary" /\ Earliest(i, Primary)
      /\ IF commit THEN CommitTo(turn, sent[i].file, sent[i].content) ELSE UNCHANGED repoVars
  BY DEF ProcessPrimary
<1>2. /\ turn # Idle /\ turn \in Games /\ turn \in Branches /\ i \in batch[turn]
      /\ ~sent[i].staged /\ active[turn] = turn /\ Cloned(turn)
      /\ processed' = processed \cup {i} /\ batch'[turn] = batch[turn] \ {i}
      /\ UNCHANGED <<sent, acked, turn>>
      /\ sent[i].game = turn /\ sent[i].file \in Files /\ Home[sent[i].file] = turn
      /\ ~OnCur /\ ~OnCur'
  BY <1>1, ProcessType, Running DEF Earliest, Primary, InTopic, OnCur
<1>3. /\ UNCHANGED <<remote, base, edited, dropped>>
      /\ \A b \in Branches \ {turn} : local'[b] = local[b]
      /\ ~commit => local' = local
      /\ local'[turn] # NoTree
      /\ commit => \A f \in Files :
           local'[turn][f] = IF f = sent[i].file THEN sent[i].content ELSE local[turn][f]
  <2>1. local[turn] \in Trees
    BY <1>2 DEF Cloned, Shape, TypeOK, RepoTypeOK
  <2>2. Cloned(turn)'
    BY <1>2 DEF Shape, Flow, HandlersCloned
  <2>3. UNCHANGED dropped
    BY DEF ProcessPrimary
  <2>4. commit => local' = [local EXCEPT ![turn] = [local[turn] EXCEPT ![sent[i].file] = sent[i].content]]
    BY <1>1, <1>2 DEF CommitTo
  <2>5. UNCHANGED <<remote, base, edited>> /\ (~commit => local' = local)
    BY <1>1 DEF CommitTo, repoVars, remoteVars, cloneVars
  <2> HIDE DEF commit
  <2>6. \A b \in Branches \ {turn} : local'[b] = local[b]
    BY <2>4, <2>5 DEF Shape, TypeOK, RepoTypeOK
  <2>7. commit => local'[turn] = [local[turn] EXCEPT ![sent[i].file] = sent[i].content]
    BY <1>2, <2>4 DEF Shape, TypeOK, RepoTypeOK
  <2>8. commit => \A f \in Files :
          local'[turn][f] = IF f = sent[i].file THEN sent[i].content ELSE local[turn][f]
    BY <2>1, <2>7 DEF Trees
  <2> QED
    BY <1>2, <2>2, <2>3, <2>5, <2>6, <2>8 DEF Cloned
<1>4. \A f \in Files : /\ f # sent[i].file \/ ~sent[i].success => local'[turn][f] = local[turn][f]
                       /\ f = sent[i].file /\ sent[i].success => local'[turn][f] = sent[i].content
  BY <1>2, <1>3 DEF Changed
<1> HIDE DEF commit
<1>5. \A f : Carriers(f)' = Carriers(f)
  BY <1>2 DEF Carriers, QH!Good, QH!GameOf, Ids
<1>6. InTurn'
  <2> SUFFICES ASSUME NEW j \in processed', NEW k \in batch[turn] \ {i},
                      sent[j].staged = sent[k].staged
               PROVE  j < k
    BY <1>2 DEF InTurn
  <2>1. CASE j = i
    <3>1. i <= k /\ i \in Nat /\ k \in Nat
      BY <1>1, <1>2, <2>1, Running DEF Earliest, Primary, Ids
    <3> QED
      BY <2>1, <3>1
  <2> QED
    BY <1>2, <2>1 DEF Uptodate, InTurn
<1>7. BaseKnown'
  BY <1>2, <1>3, BranchFacts DEF Uptodate, BaseKnown, Cloned
<1>8. LastInClone'
  <2> SUFFICES ASSUME NEW f \in Files \ edited, NEW j \in Ids,
                      Newest(j, Carriers(f) \cap processed')
               PROVE  local'[turn][f] = sent[j].content
    BY <1>2, <1>3, <1>5 DEF LastInClone, Newest, Ids
  <2>1. CASE i \in Carriers(f)
    <3>1. i <= j /\ i \in Nat
      BY <1>2, <2>1 DEF Newest, Ids
    <3>2. j = i
      <4>1. ASSUME j \in processed PROVE j < i
        <5>1. sent[i].staged = sent[j].staged
          BY <1>2, KindFacts DEF Shape, Newest, Carriers
        <5> QED
          BY <1>2, <4>1, <5>1 DEF Uptodate, InTurn
      <4>2. j = i \/ j \in processed
        BY <1>2 DEF Newest
      <4>3. i \in Nat /\ j \in Nat
        BY DEF Ids
      <4> QED
        BY <3>1, <4>1, <4>2, <4>3
    <3> QED
      BY <1>4, <2>1, <3>2 DEF Carriers
  <2>2. CASE i \notin Carriers(f)
    <3>1. Newest(j, Carriers(f) \cap processed)
      BY <1>2, <2>2 DEF Newest
    <3>2. local'[turn][f] = local[turn][f]
      BY <1>2, <1>4, <2>2, KindFacts DEF Carriers, QH!Good, QH!GameOf, Shape
    <3> QED
      BY <1>2, <3>1, <3>2 DEF Uptodate, LastInClone
  <2> QED
    BY <2>1, <2>2
<1>9. LastOnGitHub'
  <2> SUFFICES ASSUME ~DeletesFail, NEW f \in Files \ edited, NEW j \in acked,
                      Newest(j, Carriers(f)), Pair(j) \notin dropped
               PROVE  LET g == sent[j].game
                      IN  /\ remote[g][f] = sent[j].content
                          /\ local'[g] # NoTree => local'[g][f] = sent[j].content
    BY <1>2, <1>3, <1>5 DEF LastOnGitHub, Cloned, Newest, Pair
  <2>1. /\ remote[sent[j].game][f] = sent[j].content
        /\ Cloned(sent[j].game) => local[sent[j].game][f] = sent[j].content
    BY DEF Uptodate, LastOnGitHub
  <2>2. j \in Ids /\ sent[j].game \in Games /\ sent[j].game \in Branches /\ sent[j].game = Home[f]
    BY KindFacts, BranchFacts DEF Newest, Carriers, QH!Good, QH!GameOf, Shape
  <2>3. i \notin Carriers(f)
    <3> SUFFICES ASSUME i \in Carriers(f) PROVE FALSE
      OBVIOUS
    <3>1. i <= j /\ sent[i].game = sent[j].game
      BY <1>2, <2>2 DEF Newest, Carriers
    <3>2. i \in Stored
      BY <1>2, OrderedMeans
    <3>3. i # j /\ i < j
      BY <2>2, <3>1, <3>2 DEF Stored, Ids
    <3> QED
      BY <3>1, <3>2, <3>3, OrderedMeans DEF Stored
  <2>4. local'[turn][f] = local[turn][f]
    BY <1>2, <1>4, <2>3, KindFacts DEF Carriers, QH!Good, QH!GameOf, Shape
  <2> QED
    BY <1>2, <1>3, <2>1, <2>2, <2>4 DEF Cloned
<1> QED
  BY <1>6, <1>7, <1>8, <1>9 DEF Uptodate

\* A staged message is processed, and nothing of the primary branch changes.
LEMMA UptodateStaged ==
  ASSUME Shape, Shape', Grows, Uptodate, NEW i \in Ids, QH!Process(i), Earliest(i, Staged), ~OnCur',
         \A g \in Games, f \in Files \ edited' : Effect(g, f)
  PROVE  Uptodate'
<1>1. /\ turn # Idle /\ turn \in Games /\ i \in batch[turn] /\ sent[i].staged
      /\ processed' = processed \cup {i} /\ batch'[turn] = batch[turn] \ {i}
      /\ UNCHANGED <<sent, acked, turn>>
  BY ProcessType DEF Earliest, Staged
<1>2. InTurn'
  <2> SUFFICES ASSUME NEW j \in processed', NEW k \in batch[turn] \ {i},
                      sent[j].staged = sent[k].staged
               PROVE  j < k
    BY <1>1 DEF InTurn
  <2>1. CASE j = i
    <3>1. k \in Ids /\ sent[k].staged = TRUE
      BY <1>1, <2>1, Running, KindFacts DEF Shape
    <3>2. i <= k
      BY <3>1 DEF Earliest, Staged
    <3> QED
      BY <2>1, <3>1, <3>2 DEF Ids
  <2> QED
    BY <1>1, <2>1 DEF Uptodate, InTurn
<1>3. \A f \in Files \ edited' : local'[turn][f] = local[turn][f]
  BY <1>1, Running DEF Shape, Flow, HandlersCloned, Effect
<1>4. LastInClone'
  BY <1>1, <1>3, CloneStays DEF Uptodate
<1> QED
  BY <1>1, <1>2, <1>4, UptodateParts

LEMMA UptodateOpen ==
  ASSUME Shape, Shape', Grows, Uptodate, NEW i \in Ids, OpenStaged(i)
  PROVE  Uptodate'
<1> DEFINE t == sent[i].file
           commit == Start(t)[t] # sent[i].content
<1>1. /\ turn # Idle /\ i \in batch[turn] /\ Earliest(i, Staged) /\ cur' = i /\ step' = "merge"
      /\ OpenTopic(t, IF commit THEN {Pair(i)} ELSE {})
      /\ UNCHANGED loopVars
  BY DEF OpenStaged, NextStaged, Earliest, Staged
<1>2. t \in Topics /\ t \in Branches /\ t \notin Games
  BY <1>1, Running, RepoAssumption, BranchFacts
<1> HIDE DEF t, commit
<1>3. \A g \in Games : remote'[g] = remote[g] /\ local'[g] = local[g] /\ base'[g] = base[g]
  BY <1>1, <1>2, BranchFacts DEF OpenTopic, remoteVars, Shape, TypeOK, RepoTypeOK
<1>4. edited' = edited
  BY <1>1 DEF OpenTopic, remoteVars
<1>5. \A g \in Games, f \in Files \ edited' : Effect(g, f)
  BY <1>3, <1>4, EffectSame DEF Uptodate
<1>6. InTurn'
  BY <1>1 DEF Uptodate, InTurn, loopVars, sqsVars, Earliest, Staged
<1>7. turn # Idle => \A f \in Files \ edited' : local'[turn][f] = local[turn][f]
  BY <1>3, Running
<1>8. LastInClone'
  <2>1. turn' = turn /\ processed' = processed
    BY <1>1 DEF loopVars
  <2> QED
    BY <1>7, <2>1, CloneStays DEF Uptodate
<1> QED
  BY <1>1, <1>5, <1>6, <1>8, UptodateParts DEF loopVars, sqsVars

\* Steps on the staging branch of the message in change_branch.
LEMMA EffectTopic ==
  ASSUME Shape, Uptodate, NEW t \in Topics, PullTopic(t) \/ Pushed(t)
  PROVE  \A g \in Games, f \in Files \ edited' : Effect(g, f)
<1>1. \A g \in Games : g \in Branches /\ g # t
  BY BranchFacts, RepoAssumption
<1>2. edited' = edited /\ \A g \in Games : remote'[g] = remote[g] /\ local'[g] = local[g] /\ base'[g] = base[g]
  BY <1>1 DEF PullTopic, Pull, Pushed, remoteVars, Shape, TypeOK, RepoTypeOK
<1> QED
  BY <1>2, EffectSame DEF Uptodate

LEMMA UptodateTopic ==
  ASSUME Shape, Shape', Grows, Uptodate, MergeStaged \/ PublishStaged \/ Propose \/ ProposeFails
  PROVE  Uptodate'
<1>1. OnCur /\ sent[cur].file \in Topics /\ cur \in Ids /\ Earliest(cur, Staged)
  <2>1. OnCur
    BY DEF OnCur, MergeStaged, PublishStaged, Propose, ProposeFails
  <2> QED
    BY <2>1, InBranch DEF Uptodate, InTurn
<1>2. \A g \in Games, f \in Files \ edited' : Effect(g, f)
  <2>1. CASE MergeStaged \/ PublishStaged
    BY <1>1, <2>1, EffectTopic DEF MergeStaged, PublishStaged, CloseTopic
  <2>2. CASE Propose \/ ProposeFails
    BY <2>2, EffectSame DEF Propose, ProposeFails, repoVars, remoteVars, cloneVars, Uptodate
  <2> QED
    BY <2>1, <2>2
<1>3. \/ UNCHANGED <<turn, processed, batch, acked, cur>>
      \/ QH!Process(cur) /\ step' = "staged"
  BY DEF MergeStaged, PublishStaged, Propose, ProposeFails, StagedDone, loopVars, sqsVars
<1>4. CASE UNCHANGED <<turn, processed, batch, acked, cur>>
  BY <1>1, <1>2, <1>4, UptodateSame
<1>5. CASE QH!Process(cur) /\ step' = "staged"
  BY <1>1, <1>2, <1>5, UptodateStaged DEF OnCur
<1> QED
  BY <1>3, <1>4, <1>5

\* The steps around the push of the primary branch.
LEMMA UptodatePush ==
  ASSUME Shape, Shape', Grows, Uptodate, SkipPush \/ PullPrimary \/ PushPrimary
  PROVE  Uptodate'
<1>1. turn # Idle /\ UNCHANGED loopVars /\ step' \in {"staged", "push"}
  BY DEF SkipPush, PullPrimary, PushPrimary, PrimaryDone
<1>2. turn \in Games /\ Cloned(turn)
  BY <1>1, Running
<1>3. \A g \in Games, f \in Files \ edited' : Effect(g, f)
  <2>1. CASE UNCHANGED repoVars
    BY <2>1, EffectSame DEF repoVars, remoteVars, cloneVars, Uptodate
  <2>2. CASE Pull(turn)
    BY <1>2, <2>2, EffectPull DEF Uptodate
  <2>3. CASE Pushed(turn)
    BY <1>2, <2>3, EffectPush DEF Uptodate
  <2> QED
    BY <2>1, <2>2, <2>3 DEF SkipPush, PullPrimary, PushPrimary
<1>4. UNCHANGED <<turn, processed, batch, acked>> /\ ~OnCur'
  BY <1>1 DEF OnCur, loopVars, sqsVars
<1> QED
  BY <1>3, <1>4, UptodateSame

\* What is deleted at the end of a pass is on GitHub: nothing unpushed is left
\* but what GitHub refused.
LEMMA UptodateLeave ==
  ASSUME Shape, Shape', Content, Grows, Uptodate, Finish \/ FinishPartly
  PROVE  Uptodate'
<1>1. /\ turn # Idle /\ step = "staged" /\ turn' = Idle
      /\ UNCHANGED <<sent, remote, local, base, edited, dropped, step>>
  BY DEF Finish, FinishPartly, AtEnd, QH!Finish, QH!FinishPartly, QH!Leave, QH!Drained, QH!SqsDelete,
         Others, repoVars, remoteVars, cloneVars, stepVars
<1>2. turn \in Games /\ turn \in Repos /\ Cloned(turn) /\ ~Owing(turn)
  BY <1>1, Running DEF Owing
<1>3. ~OnCur' /\ InTurn' /\ LastInClone' /\ BaseKnown'
  BY <1>1 DEF OnCur, InTurn, LastInClone, Uptodate, BaseKnown, Cloned
<1>4. LastOnGitHub'
  <2> SUFFICES ASSUME ~DeletesFail, NEW f \in Files \ edited, NEW i \in acked',
                      Newest(i, Carriers(f)), Pair(i) \notin dropped
               PROVE  LET g == sent[i].game
                      IN  /\ remote[g][f] = sent[i].content
                          /\ Cloned(g) => local[g][f] = sent[i].content
    BY <1>1 DEF LastOnGitHub, Cloned, Newest, Pair, Carriers, Ids, QH!Good, QH!GameOf
  <2>1. CASE i \in acked
    BY <2>1 DEF Uptodate, LastOnGitHub
  <2>2. CASE i \in processed
    <3>1. i \in Ids /\ sent[i].game = turn /\ sent[i].file = f
      BY <1>1, <2>2 DEF Shape, Flow, OwnMessages, Newest, Carriers
    <3>2. Newest(i, Carriers(f) \cap processed)
      BY <2>2 DEF Newest
    <3>3. local[turn][f] = sent[i].content
      BY <1>1, <3>1, <3>2 DEF Uptodate, LastInClone
    <3>4. <<f, sent[i].content>> \notin unpushed[turn]
      BY <1>2, <3>1 DEF Content, UnpushedDropped, Pair
    <3>5. base[turn][f] = sent[i].content
      BY <1>2, <3>3, <3>4 DEF Shape, RepoInv, BaseIsRemote
    <3>6. remote[turn][f] = sent[i].content
      BY <1>2, <3>5 DEF Uptodate, BaseKnown
    <3> QED
      BY <3>1, <3>3, <3>6
  <2> QED
    BY <2>1, <2>2 DEF Grows
<1> QED
  BY <1>3, <1>4 DEF Uptodate

LEMMA UptodateNext == Shape /\ Content /\ Ordered /\ Uptodate /\ [Next]_vars => Uptodate'
<1> SUFFICES ASSUME Shape, Content, Ordered, Uptodate, [Next]_vars PROVE Uptodate'
  OBVIOUS
<1>0. Shape' /\ Grows
  BY NextGrows, ShapeNext
<1>1. ASSUME Restart \/ Crash PROVE Uptodate'
  BY <1>0, <1>1, UptodateLost DEF Restart, Crash, QH!Crash, QH!Fresh, sqsVars, QH!sqsVars, QH!SqsExpire
<1>2. ASSUME UNCHANGED <<turn, processed, batch, acked, step, cur, repoVars>> PROVE Uptodate'
  <2>1. \A g \in Games, f \in Files \ edited' : Effect(g, f)
    BY <1>2, EffectSame DEF repoVars, remoteVars, cloneVars, Uptodate
  <2> QED
    BY <1>0, <1>2, <2>1, UptodateSame DEF OnCur
<1>3. ASSUME Handle PROVE Uptodate'
  <2>1. ASSUME NEW g \in Games, Enter(g) \/ EnterRaises(g) PROVE Uptodate'
    BY <1>0, <1>1, <2>1, UptodateEnter DEF EnterRaises
  <2>2. ASSUME NEW i \in Ids, ProcessPrimary(i) PROVE Uptodate'
    BY <1>0, <2>2, UptodatePrimary
  <2>3. ASSUME NEW i \in Ids, ProcessStaged(i) PROVE Uptodate'
    <3>1. QH!Process(i) /\ Earliest(i, Staged) /\ UNCHANGED repoVars /\ ~OnCur'
      BY <2>3 DEF ProcessStaged, NextStaged, stepVars, OnCur
    <3>2. \A g \in Games, f \in Files \ edited' : Effect(g, f)
      BY <3>1, EffectSame DEF repoVars, remoteVars, cloneVars, Uptodate
    <3> QED
      BY <1>0, <3>1, <3>2, UptodateStaged
  <2>4. ASSUME NEW i \in Ids, OpenStaged(i) PROVE Uptodate'
    BY <1>0, <2>4, UptodateOpen
  <2> QED
    BY <1>0, <1>1, <1>3, <2>1, <2>2, <2>3, <2>4, UptodatePush, UptodateTopic, UptodateLeave
    DEF Handle, PullRaises, PublishRaises
<1>4. ASSUME NEW k \in Kinds, Send(k) PROVE Uptodate'
  BY <1>2, <1>4 DEF Send, QH!Send, QH!SqsSend, QH!loopVars, stepVars
<1>5. ASSUME NEW S \in SUBSET Stored, Poll(S) \/ PollExits(S) PROVE Uptodate'
  BY <1>0, <1>5, UptodatePoll, UptodateLost DEF PollExits, QH!PollExits, QH!SqsReceive
<1>6. ASSUME ProposeFails \/ FinishPartly PROVE Uptodate'
  BY <1>0, <1>6, UptodateTopic, UptodateLeave
<1>7. ASSUME Reappear \/ Overrun PROVE Uptodate'
  BY <1>2, <1>7
  DEF Reappear, QH!Reappear, Overrun, QH!Overrun, QH!SqsExpire, QH!loopVars, Others, stepVars
<1>8. ASSUME NEW b \in Branches, NEW f \in Files, NEW c \in Contents \cup {Absent}, OthersEdit(b, f, c)
      PROVE  Uptodate'
  BY <1>0, <1>8, EffectEdit, UptodateSame DEF Uptodate, OthersEdit, loopVars, sqsVars, stepVars, OnCur
<1>9. ASSUME NEW t \in Topics, OthersMerge(t) PROVE Uptodate'
  BY <1>0, <1>9, EffectMerged, UptodateSame DEF Uptodate, OthersMerge, loopVars, sqsVars, stepVars, OnCur
<1>10. CASE UNCHANGED vars
  BY <1>2, <1>10 DEF vars, loopVars, sqsVars, stepVars
<1> QED
  BY <1>1, <1>3, <1>4, <1>5, <1>6, <1>7, <1>8, <1>9, <1>10 DEF Next

-----------------------------------------------------------------------------
(* The status of the last message.                                         *)

LEMMA RecordedInit == Init => Recorded
BY DEF Init, QH!Init, QH!SqsInit, Recorded, PrimaryFirst, LastRecorded, LastStays, Handled, OnCur,
       Newest

\* A message that comes is behind all others: no row has one less about it, and a
\* row whose newest message was there before has none more.
LEMMA AboutGrows ==
  ASSUME Shape, Shape', Grows, NEW row
  PROVE  /\ About(row) \subseteq About(row)' /\ About(row) \subseteq Ids
         /\ \A i \in Ids : sent'[i] = sent[i] /\ (i \in About(row)' => i \in About(row))
         /\ \A i \in Ids : Newest(i, About(row))' => About(row)' = About(row)
<1>1. \A i \in Ids : sent'[i] = sent[i] /\ i \in Ids'
  BY DEF Grows
<1>2. /\ About(row) \subseteq About(row)' /\ About(row) \subseteq Ids
      /\ \A i \in Ids : i \in About(row)' => i \in About(row)
  BY <1>1 DEF About, Row, QH!Good, QH!GameOf
<1>3. ASSUME NEW i \in Ids, Newest(i, About(row))', NEW j \in About(row)'
      PROVE  j \in Ids
  <2>1. j <= i /\ j \in Ids'
    BY <1>3 DEF Newest, About
  <2>2. Len(sent) \in Nat /\ Len(sent') \in Nat
    BY DEF Shape, TypeOK, QH!TypeOK, QH!SqsTypeOK
  <2> QED
    BY <1>3, <2>1, <2>2 DEF Ids
<1> QED
  BY <1>1, <1>2, <1>3

\* The row of the message a handler did last stays right when the pass deletes: a
\* staged message behind it is either one the pass has done, or was deleted before
\* the messages of the pass, which are still stored.
LEMMA RecordedSame ==
  ASSUME Shape, Shape', Ordered, Ordered', Grows, Recorded, PrimaryFirst', status' = status,
         Handled' \in {Handled, {}}
  PROVE  Recorded'
<1>1. processed \subseteq Handled /\ Handled \subseteq Ids /\ Handled \subseteq Stored
  <2>1. processed \subseteq Ids /\ processed \subseteq Stored
    BY OrderedMeans DEF Shape, Flow, OwnMessages
  <2>2. OnCur => cur \in Stored /\ cur \in Ids
    BY InBranch, OrderedMeans DEF Stored
  <2> QED
    BY <2>1, <2>2 DEF Handled
<1>2. LastRecorded'
  <2> SUFFICES ASSUME NEW row \in Rows, Handled' = Handled, (About(row) \cap Handled)' # {}
               PROVE  Last(status[row].inflated, About(row) \cap Handled)'
    BY DEF LastRecorded, Rows
  <2>1. (About(row) \cap Handled)' = About(row) \cap Handled
    BY <1>1, AboutGrows
  <2>2. Last(status[row].inflated, About(row) \cap Handled)
    BY <2>1 DEF Recorded, LastRecorded
  <2>3. \A i \in About(row) \cap Handled : sent'[i] = sent[i]
    BY <1>1, AboutGrows
  <2> QED
    BY <2>1, <2>2, <2>3 DEF Last
<1>3. LastStays'
  <2> SUFFICES ASSUME ~DeletesFail, NEW row \in Rows, NEW i \in acked', Newest(i, About(row))'
               PROVE  Says(row, i)'
    BY DEF LastStays, Rows
  <2>1. i \in acked \cup processed /\ i \in Ids
    BY <1>1 DEF Grows, Shape, Flow, OwnMessages
  <2>2. About(row)' = About(row) /\ Newest(i, About(row))
    BY <2>1, AboutGrows DEF Newest
  <2>3. Says(row, i)' <=> Says(row, i)
    <3>1. \A k \in About(row) : sent'[k] = sent[k]
      BY AboutGrows
    <3> QED
      BY <2>1, <2>2, <3>1, AboutGrows DEF Says, Newest
  <2>4. CASE i \in acked
    BY <2>2, <2>3, <2>4 DEF Recorded, LastStays
  <2>5. CASE i \in processed
    <3> DEFINE k == status[row].inflated
    <3>1. Last(k, About(row) \cap Handled) /\ i \in About(row) \cap Handled
      BY <1>1, <2>2, <2>5 DEF Recorded, LastRecorded, Newest
    <3> HIDE DEF k
    <3>2. /\ k \in Nat /\ i \in Nat /\ k <= i /\ k \in Stored
          /\ sent[i].staged \in BOOLEAN /\ sent[k].staged \in BOOLEAN
      <4>1. k \in About(row) /\ k \in Stored /\ k \in Ids
        BY <1>1, <3>1 DEF Last
      <4> QED
        BY <2>1, <2>2, <4>1, KindFacts DEF Newest, Ids, Shape
    <3>3. CASE sent[i].staged = sent[k].staged
      <4>1. k = i
        BY <3>1, <3>2, <3>3 DEF Last
      <4> QED
        BY <2>3, <4>1 DEF Says, k
    <3>4. CASE sent[i].staged # sent[k].staged
      <4>1. sent[k].staged /\ ~sent[i].staged
        BY <3>1, <3>2, <3>4 DEF Last
      <4>2. ASSUME NEW s \in About(row), sent[s].staged PROVE s <= k
        <5>1. s \in Nat /\ s <= i /\ s \in Ids /\ i # s
          BY <2>2, <4>1, <4>2 DEF Newest, About, Ids
        <5>2. CASE s \in Handled
          BY <3>1, <4>1, <4>2, <5>2 DEF Last
        <5>3. CASE s \notin Handled
          <6>1. s < i /\ sent[s].game = sent[i].game
            BY <2>1, <2>2, <3>2, <4>2, <5>1 DEF About, Row, Newest
          <6>2. s \in Ids' /\ sent'[s] = sent[s] /\ sent'[i] = sent[i]
            BY <2>1, <5>1 DEF Grows
          <6>3. s \in acked'
            BY <6>1, <6>2 DEF Ordered, QH!DeletedInOrder, QH!GameOf, QH!Ids, Ids
          <6>4. s \in acked
            BY <1>1, <5>3, <6>3 DEF Grows
          <6>5. sent[k].game = sent[s].game /\ k \in Ids /\ k \notin acked
            BY <3>1, <3>2, <4>2 DEF Last, About, Row, Stored
          <6>6. ~(k < s)
            BY <6>4, <6>5, OrderedMeans
          <6> QED
            BY <3>2, <5>1, <6>6
        <5> QED
          BY <5>2, <5>3
      <4> QED
        BY <2>3, <3>1, <4>1, <4>2 DEF Says, Newest, Last, k
    <3> QED
      BY <3>3, <3>4
  <2> QED
    BY <2>1, <2>4, <2>5
<1> QED
  BY <1>2, <1>3 DEF Recorded

\* A message is taken up: the pass takes it behind what it has done of its row, and
\* none that was deleted is behind it.
LEMMA RecordedStep ==
  ASSUME Shape, Ordered, Uptodate, Recorded, turn # Idle, ~OnCur, NEW i \in batch[turn],
         step = "primary" \/ sent[i].staged,
         NEW x, RecordStatus(i, x), UNCHANGED <<sent, acked>>, Handled' = Handled \cup {i},
         PrimaryFirst'
  PROVE  Recorded'
<1>1. /\ Handled = processed /\ i \in Ids /\ i \in Nat /\ Row(i) \in Rows
      /\ sent[i].game = turn /\ turn \in Games
  BY Running DEF Handled, Ids, Row, Rows
<1>2. /\ status'[Row(i)].inflated = i
      /\ \A row \in Rows \ {Row(i)} : status'[row] = status[row]
  BY <1>1 DEF RecordStatus, Shape, TypeOK
<1>3. Ids' = Ids /\ \A row : About(row)' = About(row)
  BY DEF Ids, About, Row, QH!Good, QH!GameOf
<1>4. \A row : i \in About(row) <=> row = Row(i)
  BY <1>1 DEF About, QH!Good, QH!GameOf
<1>5. LastRecorded'
  <2> SUFFICES ASSUME NEW row \in Rows, About(row) \cap (processed \cup {i}) # {}
               PROVE  Last(status'[row].inflated, About(row) \cap (processed \cup {i}))
    BY <1>1, <1>3 DEF LastRecorded, Last, Rows
  <2>1. CASE row = Row(i)
    <3>1. ASSUME NEW j \in processed
          PROVE  IF sent[i].staged = sent[j].staged THEN j <= i ELSE sent[i].staged
      <4>1. j \in Nat /\ (sent[i].staged = sent[j].staged => j < i)
        BY <3>1 DEF Uptodate, InTurn, Shape, Flow, OwnMessages, Ids
      <4>2. sent[i].staged \/ ~sent[j].staged
        BY <3>1 DEF Recorded, PrimaryFirst
      <4>3. sent[i].staged \in BOOLEAN /\ sent[j].staged \in BOOLEAN
        BY <1>1, <3>1, KindFacts DEF Shape, Flow, OwnMessages
      <4>4. CASE sent[i].staged = sent[j].staged
        BY <1>1, <4>1, <4>4
      <4>5. CASE sent[i].staged # sent[j].staged
        BY <4>2, <4>3, <4>5
      <4> QED
        BY <4>4, <4>5
    <3>2. Last(i, About(row) \cap (processed \cup {i}))
      BY <1>1, <1>4, <2>1, <3>1 DEF Last
    <3> QED
      BY <1>2, <2>1, <3>2
  <2>2. CASE row # Row(i)
    <3>1. About(row) \cap (processed \cup {i}) = About(row) \cap Handled
      BY <1>1, <1>4, <2>2
    <3>2. Last(status[row].inflated, About(row) \cap Handled)
      BY <3>1 DEF Recorded, LastRecorded
    <3> QED
      BY <1>2, <2>2, <3>1, <3>2
  <2> QED
    BY <2>1, <2>2
<1>6. LastStays'
  <2> SUFFICES ASSUME ~DeletesFail, NEW row \in Rows, NEW j \in acked, Newest(j, About(row))
               PROVE  Says(row, j)'
    BY <1>3 DEF LastStays, Newest, Rows
  <2>1. row # Row(i)
    <3> SUFFICES ASSUME row = Row(i) PROVE FALSE
      OBVIOUS
    <3>1. i \in About(row) /\ j \in About(row) /\ i <= j /\ j \in Nat
      BY <1>4 DEF Newest, About, Ids
    <3>2. i \in Stored /\ sent[i].game = sent[j].game
      BY <1>1, <3>1, OrderedMeans DEF About, Row
    <3>3. i # j /\ i < j
      BY <1>1, <3>1, <3>2 DEF Stored
    <3> QED
      BY <3>2, <3>3, OrderedMeans DEF Stored
  <2>2. Says(row, j) /\ status'[row] = status[row]
    BY <1>2, <2>1 DEF Recorded, LastStays
  <2> QED
    BY <1>3, <2>2 DEF Says, Newest
<1> QED
  BY <1>5, <1>6 DEF Recorded

LEMMA RecordedTaken ==
  ASSUME Shape, Ordered, Uptodate, Recorded, PrimaryFirst', NEW i \in Ids,
         ProcessPrimary(i) \/ ProcessStaged(i) \/ OpenStaged(i)
  PROVE  Recorded'
<1>1. /\ turn # Idle /\ ~OnCur /\ i \in batch[turn] /\ \E x : RecordStatus(i, x)
      /\ step = "primary" \/ sent[i].staged
      /\ UNCHANGED <<sent, acked>>
  <2>1. CASE ProcessPrimary(i)
    BY <2>1, ProcessType DEF ProcessPrimary, Earliest, Primary, OnCur
  <2>2. CASE ProcessStaged(i)
    BY <2>2, ProcessType DEF ProcessStaged, NextStaged, Earliest, Staged, OnCur
  <2>3. CASE OpenStaged(i)
    BY <2>3 DEF OpenStaged, NextStaged, Earliest, Staged, OnCur, loopVars, sqsVars
  <2> QED
    BY <2>1, <2>2, <2>3
<1>2. Handled' = Handled \cup {i}
  <2>1. CASE ProcessPrimary(i) \/ ProcessStaged(i)
    <3>1. QH!Process(i) /\ step' = step
      BY <2>1 DEF ProcessPrimary, ProcessStaged, stepVars
    <3> QED
      BY <1>1, <3>1, ProcessType DEF Handled, OnCur
  <2>2. CASE OpenStaged(i)
    BY <1>1, <2>2 DEF OpenStaged, loopVars, Handled, OnCur
  <2> QED
    BY <2>1, <2>2
<1> QED
  BY <1>1, <1>2, RecordedStep

LEMMA PrimaryFirstNext == Shape /\ PrimaryFirst /\ [Next]_vars => PrimaryFirst'
<1> SUFFICES ASSUME Shape, PrimaryFirst, [Next]_vars, step' \in {"primary", "push"} PROVE PrimaryFirst'
  BY DEF PrimaryFirst
<1>0. Grows /\ Shape' /\ processed \subseteq Ids
  BY NextGrows, ShapeNext DEF Shape, Flow, OwnMessages
<1>1. ASSUME turn' = Idle PROVE PrimaryFirst'
  BY <1>0, <1>1 DEF PrimaryFirst, Shape, Flow, OwnMessages
<1>2. ASSUME processed' = processed, step' = step \/ PullPrimary PROVE PrimaryFirst'
  BY <1>0, <1>2 DEF PrimaryFirst, PullPrimary, PrimaryDone, Grows
<1>3. ASSUME Restart \/ Crash PROVE PrimaryFirst'
  BY <1>1, <1>3 DEF Restart, Crash, QH!Crash, QH!Fresh
<1>4. ASSUME Handle PROVE PrimaryFirst'
  <2>1. ASSUME NEW g \in Games, Enter(g) PROVE PrimaryFirst'
    BY <1>0, <2>1 DEF Enter, QH!Enter, QH!Due, PrimaryFirst, Shape, Flow, OwnMessages
  <2>2. ASSUME NEW i \in Ids, ProcessPrimary(i) PROVE PrimaryFirst'
    <3>1. processed' = processed \cup {i} /\ sent' = sent /\ ~sent[i].staged /\ step = "primary"
      BY <2>2, ProcessType DEF ProcessPrimary, Earliest, Primary
    <3> QED
      BY <3>1 DEF PrimaryFirst
  <2>3. ASSUME (\E g \in Games : EnterRaises(g)) \/ PullRaises \/ PublishRaises PROVE PrimaryFirst'
    BY <1>3, <2>3 DEF EnterRaises, PullRaises, PublishRaises
  <2>4. ASSUME PullPrimary PROVE PrimaryFirst'
    BY <1>2, <2>4 DEF PullPrimary, loopVars
  <2>5. ASSUME (\E i \in Ids : ProcessStaged(i) \/ OpenStaged(i)) \/ SkipPush \/ PushPrimary
               \/ MergeStaged \/ PublishStaged \/ Propose
        PROVE  FALSE
    BY <2>5 DEF ProcessStaged, NextStaged, stepVars, OpenStaged, SkipPush, PushPrimary, MergeStaged,
                PublishStaged, Propose, StagedDone
  <2>6. ASSUME Finish PROVE PrimaryFirst'
    BY <1>1, <2>6 DEF Finish, QH!Finish, QH!Leave
  <2> QED
    BY <1>4, <2>1, <2>2, <2>3, <2>4, <2>5, <2>6 DEF Handle
<1>5. ASSUME NEW k \in Kinds, Send(k) PROVE PrimaryFirst'
  BY <1>2, <1>5 DEF Send, QH!Send, QH!loopVars, stepVars
<1>6. ASSUME NEW S \in SUBSET Stored, Poll(S) \/ PollExits(S) PROVE PrimaryFirst'
  BY <1>1, <1>6 DEF Poll, QH!Poll, QH!Polling, PollExits, QH!PollExits, QH!Fresh
<1>7. ASSUME ProposeFails \/ FinishPartly PROVE PrimaryFirst'
  BY <1>1, <1>7 DEF ProposeFails, StagedDone, FinishPartly, QH!FinishPartly, QH!Leave
<1>8. ASSUME Reappear \/ Overrun PROVE PrimaryFirst'
  BY <1>2, <1>8 DEF Reappear, QH!Reappear, Overrun, QH!Overrun, QH!loopVars, Others, stepVars
<1>9. ASSUME (\E b \in Branches, f \in Files, c \in Contents \cup {Absent} : OthersEdit(b, f, c))
             \/ (\E t \in Topics : OthersMerge(t))
      PROVE  PrimaryFirst'
  BY <1>2, <1>9 DEF OthersEdit, OthersMerge, loopVars, stepVars
<1>10. CASE UNCHANGED vars
  BY <1>2, <1>10 DEF vars, loopVars, stepVars
<1> QED
  BY <1>3, <1>4, <1>5, <1>6, <1>7, <1>8, <1>9, <1>10 DEF Next

LEMMA RecordedNext ==
  Shape /\ Ordered /\ Uptodate /\ Recorded /\ [Next]_vars /\ Ordered' => Recorded'
<1> SUFFICES ASSUME Shape, Ordered, Uptodate, Recorded, [Next]_vars, Ordered' PROVE Recorded'
  OBVIOUS
<1>0. Grows /\ Shape' /\ PrimaryFirst'
  BY NextGrows, ShapeNext, PrimaryFirstNext DEF Recorded
<1>1. turn' = Idle => Handled' = {}
  BY <1>0 DEF Handled, OnCur, Shape, Flow, Position, OwnMessages
<1>2. ASSUME status' = status, turn' = Idle PROVE Recorded'
  BY <1>0, <1>1, <1>2, RecordedSame
<1>3. ASSUME Restart \/ Crash PROVE Recorded'
  BY <1>2, <1>3 DEF Restart, Crash, QH!Crash, QH!Fresh, Lost
<1>4. ASSUME UNCHANGED <<status, step, cur, processed>> PROVE Recorded'
  BY <1>0, <1>4, RecordedSame DEF Handled, OnCur
<1>5. ASSUME Handle PROVE Recorded'
  <2>1. ASSUME NEW g \in Games, Enter(g) PROVE Recorded'
    <3>1. processed' = processed /\ status' = status /\ ~OnCur' /\ turn = Idle
      BY <2>1 DEF Enter, QH!Enter, QH!Due, OnCur
    <3>2. processed = {}
      BY <3>1 DEF Shape, Flow, OwnMessages
    <3> QED
      BY <1>0, <3>1, <3>2, RecordedSame DEF Handled
  <2>2. ASSUME NEW g \in Games, EnterRaises(g) PROVE Recorded'
    BY <1>3, <2>2 DEF EnterRaises
  <2>3. ASSUME PullRaises \/ PublishRaises PROVE Recorded'
    BY <1>3, <2>3 DEF PullRaises, PublishRaises
  <2>4. ASSUME SkipPush \/ PullPrimary \/ PushPrimary PROVE Recorded'
    BY <1>0, <2>4, RecordedSame
    DEF SkipPush, PullPrimary, PushPrimary, PrimaryDone, loopVars, Handled, OnCur
  <2>5. ASSUME MergeStaged \/ PublishStaged \/ Propose PROVE Recorded'
    BY <1>0, <2>5, RecordedSame
    DEF MergeStaged, PublishStaged, Propose, StagedDone, QH!Process, loopVars, Handled, OnCur
  <2>6. ASSUME Finish PROVE Recorded'
    BY <1>2, <2>6 DEF Finish, QH!Finish, QH!Leave, Others
  <2> QED
    BY <1>0, <1>5, <2>1, <2>2, <2>3, <2>4, <2>5, <2>6, RecordedTaken DEF Handle
<1>6. ASSUME NEW k \in Kinds, Send(k) PROVE Recorded'
  BY <1>4, <1>6 DEF Send, QH!Send, QH!loopVars, stepVars
<1>7. ASSUME NEW S \in SUBSET Stored, Poll(S) \/ PollExits(S) PROVE Recorded'
  BY <1>2, <1>7 DEF Poll, QH!Poll, QH!Polling, PollExits, QH!PollExits, QH!Fresh, Lost
<1>8. ASSUME ProposeFails PROVE Recorded'
  BY <1>0, <1>8, RecordedSame DEF ProposeFails, StagedDone, QH!Process, Handled, OnCur
<1>9. ASSUME FinishPartly PROVE Recorded'
  BY <1>2, <1>9 DEF FinishPartly, QH!FinishPartly, QH!Leave, Others
<1>10. ASSUME Reappear \/ Overrun PROVE Recorded'
  BY <1>4, <1>10 DEF Reappear, QH!Reappear, Overrun, QH!Overrun, QH!loopVars, Others, stepVars
<1>11. ASSUME NEW b \in Branches, NEW f \in Files, NEW c \in Contents \cup {Absent}, OthersEdit(b, f, c)
       PROVE  Recorded'
  BY <1>4, <1>11 DEF OthersEdit, loopVars, stepVars
<1>12. ASSUME NEW t \in Topics, OthersMerge(t) PROVE Recorded'
  BY <1>4, <1>12 DEF OthersMerge, loopVars, stepVars
<1>13. CASE UNCHANGED vars
  BY <1>4, <1>13 DEF vars, loopVars, stepVars
<1> QED
  BY <1>3, <1>5, <1>6, <1>7, <1>8, <1>9, <1>10, <1>11, <1>12, <1>13 DEF Next

-----------------------------------------------------------------------------
(* The invariant.                                                          *)

LEMMA IInvInit == Init => IInv
BY ShapeInit, KeptInit, ApartInit, AskedInit, OrderedInit, BaseKnownInit, RecordedInit DEF IInv, Kept

LEMMA IInvNext == IInv /\ [Next]_vars => IInv'
<1> SUFFICES ASSUME IInv, [Next]_vars PROVE IInv'
  OBVIOUS
<1>1. Shape' /\ Content' /\ DeletedIsPublished'
  BY ShapeNext, KeptNext DEF IInv, Kept
<1>2. Apart' /\ Asked' /\ Ordered'
  BY ApartNext, AskedNext, OrderedNext DEF IInv
<1>3. Uptodate' /\ Recorded'
  BY <1>2, UptodateNext, RecordedNext DEF IInv
<1> QED
  BY <1>1, <1>2, <1>3 DEF IInv

\* The inductive invariant holds in every behaviour of the Indexer.
THEOREM Invariance == Spec => []IInv
<1>1. Init => IInv
  BY IInvInit
<1>2. IInv /\ [Next]_vars => IInv'
  BY IInvNext
<1> QED
  BY <1>1, <1>2, PTL DEF Spec

\* A message is deleted from the queue only when its metadata has been on
\* GitHub, unless GitHub refused the push that carried it: for any number of
\* games, messages, crashes, redeliveries and concurrent pushes.
THEOREM DeletedPublished == Spec => []DeletedIsPublished
<1>1. IInv => DeletedIsPublished
  BY DEF IInv
<1> QED
  BY <1>1, Invariance, PTL

\* Nothing staged is ever committed to a primary branch.
THEOREM Unstaged == Spec => []PrimaryIsUnstaged
<1>1. IInv => PrimaryIsUnstaged
  BY DEF IInv, Apart
<1> QED
  BY <1>1, Invariance, PTL

\* A pull request never carries another mod's metadata, however change_branch was
\* left before and whoever pushed in between.
THEOREM StagedApart == Spec => []StagedAlone
<1>1. IInv => StagedAlone
  BY DEF IInv, Apart
<1> QED
  BY <1>1, Invariance, PTL

\* Every staged message that was deleted has had its pull request, but for the
\* exceptions StagedHasPullRequest names.
THEOREM StagedRequested == Spec => []StagedHasPullRequest
<1>1. IInv => StagedHasPullRequest
  BY DEF IInv, Asked
<1> QED
  BY <1>1, Invariance, PTL

\* Once all is quiet every message for a configured game was deleted.
LEMMA QuietDeleted ==
  ASSUME Quiet, NEW i \in Ids, QH!Good(i)
  PROVE  i \in acked
BY DEF Quiet, Stored

\* Once all is quiet GitHub has the last message for every file, if deletes work.
THEOREM QuietNewest ==
  ASSUME DeletesFail = FALSE
  PROVE  Spec => []QuietIsNewest
<1>1. IInv => QuietIsNewest
  <2> SUFFICES ASSUME IInv, Quiet, NEW f \in Files \ edited, NEW i \in Ids,
                      Newest(i, Carriers(f)), Pair(i) \notin dropped
               PROVE  remote[sent[i].game][f] = sent[i].content
    BY DEF QuietIsNewest
  <2>1. i \in acked
    BY QuietDeleted DEF Newest, Carriers
  <2> QED
    BY <2>1 DEF IInv, Uptodate, LastOnGitHub
<1> QED
  BY <1>1, Invariance, PTL

\* Once all is quiet the row of every mod of every game has the last message about
\* it, or the last staged one if that was not staged, if deletes work.
THEOREM QuietRecorded ==
  ASSUME DeletesFail = FALSE
  PROVE  Spec => []QuietIsRecorded
<1>1. IInv => QuietIsRecorded
  <2> SUFFICES ASSUME IInv, Quiet, NEW row \in Rows, NEW i \in Ids, Newest(i, About(row))
               PROVE  Says(row, i)
    BY DEF QuietIsRecorded
  <2>1. i \in acked
    BY QuietDeleted DEF Newest, About
  <2> QED
    BY <2>1 DEF IInv, Recorded, LastStays
<1> QED
  BY <1>1, Invariance, PTL
==============================================================================
