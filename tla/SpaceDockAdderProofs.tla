------------------------ MODULE SpaceDockAdderProofs ------------------------
(***************************************************************************)
(* Proofs about the SpaceDock Adder, for every set of games, mods and      *)
(* kinds of requests and every value of the bounds.                        *)
(***************************************************************************)
EXTENDS SpaceDockAdder, XkanRepoProofs

-----------------------------------------------------------------------------
(* Requests and branches.                                                  *)

LEMMA BranchFacts ==
  /\ Games \subseteq Branches /\ Files \subseteq Branches /\ Repos = Games /\ Topics = Files
  /\ Games \cap Files = {}
BY AdderAssumption, RepoAssumption DEF Branches

\* What the attributes of a stored request are.
LEMMA KindFacts ==
  ASSUME TypeOK, NEW i \in Ids
  PROVE  /\ sent[i].file \in Files \cup {Nameless}
         /\ sent[i].game \in Games /\ sent[i].file \in Files => Home[sent[i].file] = sent[i].game
<1>1. sent[i] \in Kinds
  BY DEF TypeOK, QH!TypeOK, SqsTypeOK, QH!SqsTypeOK, Ids, QH!Ids
<1> QED
  BY <1>1, KindsAssumption

\* What make_netkan builds is a content, and no frozen one.
LEMMA BuiltFacts == \A k : Netkans(k) \subseteq Contents
BY KindsAssumption DEF Netkans

LEMMA LoopUnchanged == QH!TypeOK /\ UNCHANGED loopVars => QH!TypeOK'
BY DEF QH!TypeOK, QH!SqsTypeOK, QH!Ids, QH!Stored, loopVars, sqsVars

\* The state in which a handler runs.
LEMMA Running ==
  ASSUME Shape, turn # Idle
  PROVE  /\ turn \in Games /\ turn \in Branches /\ turn \in Repos /\ Cloned(turn)
         /\ ~InTopic => active[turn] = turn
         /\ \A i \in batch[turn] :
              /\ i \in Ids /\ sent[i].game = turn
              /\ sent[i].file # Nameless =>
                   /\ sent[i].file \in Files /\ sent[i].file \in Topics
                   /\ sent[i].file \in Branches /\ sent[i].file # turn
                   /\ Home[sent[i].file] = turn
<1>1. turn \in Games /\ turn \in Branches /\ turn \in Repos /\ Cloned(turn)
  BY BranchFacts DEF Shape, TypeOK, QH!TypeOK, HandlersCloned
<1>2. ~InTopic => active[turn] = turn
  BY DEF Shape, Position
<1>3. ASSUME NEW i \in batch[turn]
      PROVE  i \in Ids /\ sent[i].game = turn
  BY <1>1 DEF Shape, OwnRequests
<1> QED
  BY <1>1, <1>2, <1>3, KindFacts, BranchFacts DEF Shape

\* The state from the checkout of the branch to its pull request.
LEMMA InBranch ==
  ASSUME Shape, step # "next"
  PROVE  /\ turn # Idle /\ turn \in Games /\ turn \in Repos /\ turn \in Branches
         /\ cur \in batch[turn] /\ cur \in Ids /\ sent[cur].game = turn
         /\ sent[cur].file # Nameless /\ sent[cur].file \in Files /\ sent[cur].file \in Topics
         /\ sent[cur].file \in Branches /\ sent[cur].file # turn /\ Home[sent[cur].file] = turn
         /\ InTopic => /\ back = turn /\ local[sent[cur].file] # NoTree
                       /\ local[turn][sent[cur].file] = Absent
<1>1. turn # Idle /\ cur \in batch[turn] /\ sent[cur].file # Nameless
  BY DEF Shape, Position
<1> QED
  BY <1>1, Running DEF Shape, Position

-----------------------------------------------------------------------------
(* Shape: the types, the clones, and where try_add is.                     *)

LEMMA ShapeInit == Init => Shape
<1> SUFFICES ASSUME Init PROVE Shape
  OBVIOUS
<1>1. QH!TypeOK
  BY AdderAssumption DEF Init, QH!Init, QH!SqsInit, QH!TypeOK, QH!SqsTypeOK, QH!Ids, QH!Stored
<1>2. RepoTypeOK /\ RepoInv
  BY RepoInitInv DEF Init
<1>3. TypeOK
  BY <1>1, <1>2 DEF Init, TypeOK
<1>4. HandlersCloned /\ OwnRequests /\ Position
  BY DEF Init, QH!Init, QH!SqsInit, HandlersCloned, OwnRequests, Position, InTopic
<1> QED
  BY <1>2, <1>3, <1>4 DEF Shape

\* What is left to show of a step once its parts are known to be in order.
LEMMA ShapeParts ==
  ASSUME Shape, QH!TypeOK', RepoTypeOK', RepoInv', OwnRequests', Position',
         since' = since, todo' \subseteq todo, turn' \in {turn, Idle},
         step' \in {"next", "merge", "publish", "propose"},
         cur' \in Nat, back' \in Branches \cup {Idle},
         prs' \subseteq Topics, raised' \subseteq Topics, refused' \subseteq Topics,
         \A b \in Branches : local[b] # NoTree => local'[b] # NoTree
  PROVE  Shape'
<1>1. TypeOK'
  BY DEF TypeOK
<1>2. HandlersCloned'
  BY BranchFacts DEF Shape, HandlersCloned, Cloned
<1> QED
  BY <1>1, <1>2 DEF Shape

LEMMA ShapeHook ==
  ASSUME Shape, NEW k \in Kinds, AddHook(k)
  PROVE  Shape' /\ Ids \subseteq Ids' /\ \A i \in Ids : sent'[i] = sent[i]
<1>1. sent \in Seq(Kinds)
  BY DEF Shape, TypeOK, QH!TypeOK, QH!SqsTypeOK
<1>2. sent' = Append(sent, k) /\ UNCHANGED <<acked, hidden, since, batch, todo, turn, processed, faults>>
  BY DEF AddHook, QH!Send, QH!SqsSend, QH!loopVars
<1>3. sent' \in Seq(Kinds) /\ Ids \subseteq Ids' /\ \A i \in Ids : sent'[i] = sent[i]
  BY <1>1, <1>2 DEF Ids
<1>4. QH!TypeOK'
  BY <1>2, <1>3 DEF Shape, TypeOK, QH!TypeOK, QH!SqsTypeOK, QH!Ids, QH!Stored, Ids
<1>5. RepoTypeOK' /\ RepoInv'
  BY RepoUnchanged DEF Shape, TypeOK, AddHook
<1>6. UNCHANGED <<step, cur, back, local, active, prs, raised, refused>>
  BY DEF AddHook, stepVars, hubVars, repoVars, cloneVars
<1>7. OwnRequests'
  BY <1>2, <1>3 DEF Shape, OwnRequests
<1>8. Position'
  <2>1. step # "next" => cur \in Ids
    BY InBranch
  <2> QED
    BY <1>2, <1>3, <1>6, <2>1 DEF Shape, Position, InTopic
<1>9. Shape'
  BY <1>2, <1>4, <1>5, <1>6, <1>7, <1>8, ShapeParts DEF Shape, TypeOK
<1> QED
  BY <1>3, <1>9

\* The loop starts a round.
LEMMA ShapePoll ==
  ASSUME Shape, NEW S \in SUBSET Stored, Poll(S)
  PROVE  Shape'
<1> DEFINE R == {g \in Games : since'[g] # 0}
<1>1. /\ turn = Idle /\ todo = {} /\ S \subseteq Ids /\ S \subseteq Stored
      /\ hidden' = S /\ UNCHANGED <<sent, acked, turn, processed, faults>>
      /\ batch' = [g \in Games |-> {i \in S : sent[i].game = g}]
      /\ since' \in [Games -> {0} \cup Ids]
      /\ \A g \in Games : since[g] # 0 => since'[g] = since[g]
      /\ todo' = R
  BY DEF Poll, QH!Poll, QH!Polling, QH!SqsReceive, QH!Deliverable, QH!GameOf, QH!Created,
         Stored, Ids, QH!Stored, QH!Ids
<1>2. QH!TypeOK'
  <2>1. batch' \in [Games -> SUBSET Nat]
    <3> HIDE DEF R
    <3>1. S \subseteq Nat
      <4>1. S \subseteq Ids
        BY <1>1
      <4> QED
        BY <4>1 DEF Ids
    <3>2. \A g \in Games : {i \in S : sent[i].game = g} \in SUBSET Nat
      BY <3>1
    <3>3. batch' = [g \in Games |-> {i \in S : sent[i].game = g}]
      BY <1>1
    <3> QED
      BY <3>2, <3>3
  <2>2. since' \in [Games -> Nat]
    BY <1>1 DEF Ids
  <2> QED
    BY <1>1, <2>1, <2>2 DEF Shape, TypeOK, QH!TypeOK, QH!SqsTypeOK, QH!Stored, QH!Ids, Stored, Ids
<1>3. RepoTypeOK' /\ RepoInv' /\ \A r \in Repos : Cloned(r) \/ r \in R => Cloned(r)'
  <2>1. CloneAll(R) /\ R \in SUBSET Repos
    BY BranchFacts DEF Poll
  <2> QED
    BY <2>1, CloneAllInv DEF Shape, TypeOK
<1>4. UNCHANGED <<step, cur, back, active, prs, raised, refused>>
  BY DEF Poll, stepVars, hubVars, CloneAll
<1>5. TypeOK'
  BY <1>2, <1>3, <1>4 DEF Shape, TypeOK
<1>6. HandlersCloned'
  BY <1>1, <1>3, BranchFacts DEF Shape, HandlersCloned
<1>7. OwnRequests'
  BY <1>1 DEF Shape, OwnRequests, Ids
<1>8. Position'
  BY <1>1, <1>4 DEF Shape, Position, InTopic
<1> QED
  BY <1>3, <1>5, <1>6, <1>7, <1>8 DEF Shape

\* The process starts anew: after a crash, an exception or an exit.
LEMMA ShapeFresh ==
  ASSUME Shape, QH!Fresh, Lost, UNCHANGED <<sent, acked>>,
         hidden' \subseteq Stored, faults' \in Nat
  PROVE  Shape'
<1>1. QH!TypeOK'
  BY DEF Shape, TypeOK, QH!Fresh, QH!TypeOK, QH!SqsTypeOK, QH!Stored, QH!Ids, Stored, Ids
<1>2. RepoTypeOK' /\ RepoInv'
  BY LoseClonesInv DEF Shape, TypeOK, Lost
<1>3. TypeOK'
  BY <1>1, <1>2 DEF Shape, TypeOK, Lost, hubVars
<1>4. turn' = Idle /\ todo' = {} /\ processed' = {} /\ step' = "next"
  BY DEF QH!Fresh, Lost
<1>5. HandlersCloned'
  BY <1>4 DEF HandlersCloned, QH!Fresh
<1>6. OwnRequests'
  BY DEF Shape, OwnRequests, QH!Fresh, Ids
<1>7. Position'
  BY <1>4 DEF Position, InTopic
<1> QED
  BY <1>2, <1>3, <1>5, <1>6, <1>7 DEF Shape

LEMMA ShapeRestart == Shape /\ Restart => Shape'
<1> SUFFICES ASSUME Shape, Restart PROVE Shape'
  OBVIOUS
<1>1. hidden' \subseteq Stored /\ faults' \in Nat
  BY DEF Shape, TypeOK, QH!TypeOK, QH!SqsTypeOK, QH!Stored, QH!Ids, Stored, Ids, Restart, sqsVars
<1> QED
  BY <1>1, ShapeFresh DEF Restart, sqsVars

LEMMA ShapePollExits ==
  ASSUME Shape, NEW S \in SUBSET Stored, PollExits(S)
  PROVE  Shape'
BY ShapeFresh DEF PollExits, QH!PollExits, QH!SqsReceive, Shape, TypeOK, QH!TypeOK

LEMMA ShapeCrash == Shape /\ Crash => Shape'
<1> SUFFICES ASSUME Shape, Crash PROVE Shape'
  OBVIOUS
<1>1. hidden' \subseteq Stored /\ faults' \in Nat
  BY DEF Shape, TypeOK, QH!TypeOK, QH!SqsTypeOK, QH!Stored, QH!Ids, Stored, Ids, Crash,
         QH!Crash, QH!sqsVars
<1> QED
  BY <1>1, ShapeFresh DEF Crash, QH!Crash, QH!sqsVars

LEMMA ShapeEnter ==
  ASSUME Shape, NEW g \in Games, Enter(g)
  PROVE  Shape'
<1>1. /\ turn = Idle /\ g \in todo /\ turn' = g /\ todo' = todo \ {g}
      /\ UNCHANGED <<sent, acked, hidden, since, batch, processed, faults>>
      /\ UNCHANGED <<step, cur, back, prs, raised, refused>>
  BY DEF Enter, QH!Enter, QH!Due, QH!sqsVars, stepVars, hubVars
<1>2. QH!TypeOK'
  BY <1>1 DEF Shape, TypeOK, QH!TypeOK, QH!SqsTypeOK, QH!Stored, QH!Ids
<1>3. g \in Branches /\ g \in Repos /\ local[g] # NoTree
  BY <1>1, BranchFacts DEF Shape, HandlersCloned, Cloned
<1>4. active' \in [Repos -> Branches] /\ active'[g] = g
  BY <1>3 DEF Shape, TypeOK, RepoTypeOK, Enter
<1>5. /\ RepoTypeOK' /\ RepoInv'
      /\ \A b \in Branches : local[b] # NoTree => local'[b] # NoTree
  BY <1>3, <1>4, PullInv DEF Shape, TypeOK, Enter
<1>6. TypeOK'
  BY <1>1, <1>2, <1>5 DEF Shape, TypeOK
<1>7. HandlersCloned'
  BY <1>1, <1>5, BranchFacts DEF Shape, HandlersCloned, Cloned
<1>8. OwnRequests'
  <2>1. processed = {}
    BY <1>1 DEF Shape, OwnRequests
  <2> QED
    BY <1>1, <2>1 DEF Shape, OwnRequests, Ids
<1>9. Position'
  BY <1>1, <1>4 DEF Shape, Position, InTopic
<1> QED
  BY <1>5, <1>6, <1>7, <1>8, <1>9 DEF Shape

\* One request more is dealt with.
LEMMA ProcessType ==
  ASSUME Shape, NEW i, QH!Process(i)
  PROVE  /\ QH!TypeOK' /\ OwnRequests'
         /\ UNCHANGED <<sent, acked, hidden, since, todo, turn, faults>>
         /\ turn # Idle /\ turn \in Games /\ i \in batch[turn]
         /\ processed' = processed \cup {i}
<1>1. /\ UNCHANGED <<sent, acked, hidden, since, todo, turn, faults>>
      /\ turn # Idle /\ i \in batch[turn]
      /\ processed' = processed \cup {i}
      /\ batch' = [batch EXCEPT ![turn] = batch[turn] \ {i}]
  BY DEF QH!Process, QH!sqsVars
<1>2. turn \in Games /\ i \in Ids /\ sent[i].game = turn
  BY <1>1, Running
<1>3. batch \in [Games -> SUBSET Nat] /\ processed \subseteq Nat /\ i \in Nat
  BY <1>2 DEF Shape, TypeOK, QH!TypeOK, Ids
<1>4. batch' \in [Games -> SUBSET Nat] /\ processed' \subseteq Nat
  BY <1>1, <1>3
<1>5. \A g \in Games : batch'[g] \subseteq batch[g]
  BY <1>1, <1>3
<1>6. QH!TypeOK'
  BY <1>1, <1>4 DEF Shape, TypeOK, QH!TypeOK, QH!SqsTypeOK, QH!Stored, QH!Ids
<1>7. OwnRequests'
  BY <1>1, <1>2, <1>5 DEF Shape, OwnRequests, Ids
<1> QED
  BY <1>1, <1>2, <1>6, <1>7

LEMMA ShapeListed ==
  ASSUME Shape, NEW i \in Ids, AlreadyListed(i)
  PROVE  Shape'
<1>1. QH!Process(i) /\ step = "next" /\ UNCHANGED <<repoVars, step, cur, back, prs, raised, refused>>
  BY DEF AlreadyListed, NextRequest, stepVars, hubVars
<1>2. QH!TypeOK' /\ OwnRequests' /\ turn # Idle /\ UNCHANGED <<since, todo, turn>>
  BY <1>1, ProcessType
<1>3. RepoTypeOK' /\ RepoInv' /\ UNCHANGED <<active, local>>
  BY <1>1, RepoUnchanged DEF Shape, TypeOK, repoVars, cloneVars
<1>4. active[turn] = turn
  BY <1>1, <1>2, Running DEF InTopic
<1>5. Position'
  BY <1>1, <1>2, <1>3, <1>4 DEF Position, InTopic
<1> QED
  BY <1>1, <1>2, <1>3, <1>5, ShapeParts DEF Shape, TypeOK

\* The branch is opened and the file committed.
LEMMA AddFacts ==
  ASSUME Shape, NEW i \in Ids, Add(i)
  PROVE  /\ turn # Idle /\ turn \in Games /\ step = "next" /\ i \in batch[turn]
         /\ sent[i].file # Nameless /\ sent[i].file \in Topics /\ Home[sent[i].file] = turn
         /\ active[turn] = turn /\ local[turn] # NoTree
         /\ local[turn][sent[i].file] = Absent
         /\ \E c \in Contents : OpenTopic(sent[i].file, {<<sent[i].file, c>>})
         /\ back' = turn /\ cur' = i /\ step' = "merge"
         /\ UNCHANGED <<loopVars, prs, raised, refused>>
         /\ sent[i].file \in Files /\ sent[i].file # turn
<1>1. /\ turn # Idle /\ step = "next" /\ i \in batch[turn] /\ sent[i].file # Nameless
      /\ ~Listed(sent[i].file) /\ Write(i)
      /\ back' = active[turn] /\ cur' = i /\ step' = "merge"
      /\ UNCHANGED <<loopVars, prs, raised, refused>>
  BY DEF Add, Addable, NextRequest, hubVars
<1>2. active[turn] = turn /\ local[turn] # NoTree
  BY <1>1, Running DEF InTopic, Cloned
<1>3. local[turn][sent[i].file] = Absent
  BY <1>1, <1>2 DEF Listed
<1>4. \E c \in Contents : OpenTopic(sent[i].file, {<<sent[i].file, c>>})
  BY <1>1, BuiltFacts DEF Write
<1> QED
  BY <1>1, <1>2, <1>3, <1>4, Running

LEMMA ShapeAdd ==
  ASSUME Shape, NEW i \in Ids, Add(i)
  PROVE  Shape'
<1> DEFINE t == sent[i].file
<1>1. PICK c \in Contents : OpenTopic(t, {<<t, c>>})
  BY AddFacts
<1> DEFINE C == {<<t, c>>}
<1>2. /\ turn # Idle /\ turn \in Games /\ i \in batch[turn] /\ t # Nameless /\ t \in Topics /\ Home[t] = turn
      /\ active[turn] = turn /\ local[turn] # NoTree /\ local[turn][t] = Absent
      /\ back' = turn /\ cur' = i /\ step' = "merge" /\ t \in Files /\ t # turn
      /\ UNCHANGED <<loopVars, prs, raised, refused>>
  BY AddFacts
<1>3. C \in SUBSET (Files \X Contents) /\ local[active[Home[t]]] # NoTree /\ OpenTopic(t, C)
  BY <1>1, <1>2
<1> HIDE DEF C, t
<1>4. /\ RepoTypeOK' /\ RepoInv' /\ local'[t] # NoTree
      /\ \A b \in Branches : local[b] # NoTree => local'[b] # NoTree
      /\ \A b \in Branches \ {t} : local'[b] = local[b]
  BY <1>2, <1>3, OpenTopicInv DEF Shape, TypeOK
<1>5. QH!TypeOK' /\ OwnRequests' /\ UNCHANGED <<since, todo, turn, batch, sent>>
  BY <1>2, LoopUnchanged DEF Shape, TypeOK, OwnRequests, loopVars, sqsVars, Ids
<1>6. local'[turn] = local[turn]
  BY <1>2, <1>4, BranchFacts
<1>7. Position'
  BY <1>2, <1>4, <1>5, <1>6 DEF Position, InTopic, t
<1>8. i \in Nat /\ turn \in Branches
  BY <1>2, BranchFacts DEF Ids
<1> QED
  BY <1>2, <1>4, <1>5, <1>7, <1>8, ShapeParts DEF Shape, TypeOK

LEMMA MergeFacts ==
  ASSUME Shape, Merge
  PROVE  /\ step = "merge" /\ step' = "publish" /\ active' = active
         /\ UNCHANGED <<loopVars, cur, back, prs, raised, refused>>
         /\ RepoTypeOK' /\ RepoInv'
         /\ \A b \in Branches : local[b] # NoTree => local'[b] # NoTree
         /\ \A b \in Branches \ {sent[cur].file} : local'[b] = local[b]
         /\ \/ local' = local
            \/ /\ remote[sent[cur].file] # NoTree
               /\ \A f \in Files : local'[sent[cur].file][f] \in
                    {local[sent[cur].file][f], remote[sent[cur].file][f]}
         /\ UNCHANGED <<remoteVars, unpushed>>
<1> DEFINE t == sent[cur].file
<1>1. /\ step = "merge" /\ step' = "publish" /\ PullTopic(t) /\ active' = active
      /\ UNCHANGED <<loopVars, cur, back, prs, raised, refused>>
  BY DEF Merge, PullTopic, hubVars
<1>2. t \in Branches /\ local[t] # NoTree
  BY <1>1, InBranch DEF InTopic
<1> HIDE DEF t
<1>3. active' \in [Repos -> Branches]
  BY <1>1 DEF Shape, TypeOK, RepoTypeOK
<1>4. CASE Pull(t)
  <2>1. /\ RepoTypeOK' /\ RepoInv'
        /\ \A b \in Branches : local[b] # NoTree => local'[b] # NoTree
        /\ \A f \in Files : local'[t][f] \in {local[t][f], remote[t][f]}
        /\ \A b \in Branches \ {t} : local'[b] = local[b]
    BY <1>2, <1>3, <1>4, PullInv DEF Shape, TypeOK
  <2>2. remote[t] # NoTree /\ UNCHANGED <<remoteVars, unpushed>>
    BY <1>4 DEF Pull, Mergeable
  <2> QED
    BY <1>1, <2>1, <2>2 DEF t
<1>5. CASE UNCHANGED <<local, base, behind, unpushed, remoteVars>>
  <2>1. RepoTypeOK' /\ RepoInv'
    BY <1>3, <1>5, CheckoutInv DEF Shape, TypeOK
  <2> QED
    BY <1>1, <1>5, <2>1
<1> QED
  BY <1>1, <1>4, <1>5 DEF PullTopic

LEMMA ShapeMerge == Shape /\ Merge => Shape'
<1> SUFFICES ASSUME Shape, Merge PROVE Shape'
  OBVIOUS
<1> DEFINE t == sent[cur].file
<1>1. /\ step = "merge" /\ step' = "publish" /\ active' = active
      /\ UNCHANGED <<loopVars, cur, back, prs, raised, refused>>
      /\ RepoTypeOK' /\ RepoInv'
      /\ \A b \in Branches : local[b] # NoTree => local'[b] # NoTree
      /\ \A b \in Branches \ {t} : local'[b] = local[b]
  BY MergeFacts
<1>2. /\ turn # Idle /\ turn \in Branches /\ t \in Branches /\ t # turn /\ local[t] # NoTree
      /\ back = turn /\ cur \in batch[turn] /\ t # Nameless /\ local[turn][t] = Absent
  BY <1>1, InBranch DEF InTopic
<1> HIDE DEF t
<1>3. QH!TypeOK' /\ OwnRequests' /\ UNCHANGED <<since, todo, turn, batch, sent>>
  BY <1>1, LoopUnchanged DEF Shape, TypeOK, OwnRequests, loopVars, sqsVars, Ids
<1>4. local'[turn] = local[turn] /\ local'[t] # NoTree
  BY <1>1, <1>2
<1>5. Position'
  BY <1>1, <1>2, <1>3, <1>4 DEF Position, InTopic, t
<1> QED
  BY <1>1, <1>3, <1>5, ShapeParts DEF Shape, TypeOK

LEMMA PublishFacts ==
  ASSUME Shape, Publish
  PROVE  /\ step = "publish" /\ step' = "propose" /\ back' = Idle
         /\ Pushed(sent[cur].file) /\ active' = [active EXCEPT ![turn] = turn]
         /\ UNCHANGED <<loopVars, cur, local, prs, raised, refused, edits>>
         /\ RepoTypeOK' /\ RepoInv'
         /\ \A b \in Branches : shown[b] \subseteq shown'[b]
         /\ active' \in [Repos -> Branches] /\ active'[turn] = turn
<1> DEFINE t == sent[cur].file
<1>1. /\ step = "publish" /\ step' = "propose" /\ back' = Idle
      /\ Pushed(t) /\ active' = [active EXCEPT ![Home[t]] = back]
      /\ UNCHANGED <<loopVars, cur, local, prs, raised, refused, edits>>
  BY DEF Publish, CloseTopic, Pushed, hubVars
<1>2. /\ turn \in Repos /\ turn \in Branches /\ t \in Branches /\ local[t] # NoTree
      /\ back = turn /\ Home[t] = turn
  BY <1>1, InBranch DEF InTopic
<1> HIDE DEF t
<1>3. /\ active' = [active EXCEPT ![turn] = turn]
      /\ active' \in [Repos -> Branches] /\ active'[turn] = turn
  BY <1>1, <1>2 DEF Shape, TypeOK, RepoTypeOK
<1>4. RepoTypeOK' /\ RepoInv' /\ \A b \in Branches : shown[b] \subseteq shown'[b]
  BY <1>1, <1>2, <1>3, PushedInv DEF Shape, TypeOK
<1> QED
  BY <1>1, <1>3, <1>4 DEF t

LEMMA ShapePublish == Shape /\ Publish => Shape'
<1> SUFFICES ASSUME Shape, Publish PROVE Shape'
  OBVIOUS
<1>1. /\ step = "publish" /\ step' = "propose" /\ back' = Idle /\ active'[turn] = turn
      /\ UNCHANGED <<loopVars, cur, local, prs, raised, refused>>
      /\ RepoTypeOK' /\ RepoInv'
  BY PublishFacts
<1>2. turn # Idle /\ cur \in batch[turn] /\ sent[cur].file # Nameless
  BY <1>1, InBranch
<1>3. QH!TypeOK' /\ OwnRequests' /\ UNCHANGED <<since, todo, turn, batch, sent>>
  BY <1>1, LoopUnchanged DEF Shape, TypeOK, OwnRequests, loopVars, sqsVars, Ids
<1>4. Position'
  BY <1>1, <1>2, <1>3 DEF Position, InTopic
<1> QED
  BY <1>1, <1>3, <1>4, ShapeParts DEF Shape, TypeOK

LEMMA ShapeAdded ==
  ASSUME Shape, step = "propose", Added, UNCHANGED <<local, active, back>>,
         RepoTypeOK', RepoInv', prs' \subseteq Topics, raised' \subseteq Topics,
         refused' \subseteq Topics
  PROVE  Shape'
<1>1. turn # Idle /\ active[turn] = turn
  BY InBranch, Running DEF InTopic
<1>2. /\ QH!TypeOK' /\ OwnRequests' /\ UNCHANGED <<since, todo, turn>>
      /\ cur' = 0 /\ step' = "next"
  BY ProcessType DEF Added
<1>3. Position'
  BY <1>1, <1>2 DEF Position, InTopic
<1> QED
  BY <1>2, <1>3, ShapeParts DEF Shape, TypeOK

LEMMA ShapePropose == Shape /\ Propose => Shape'
<1> SUFFICES ASSUME Shape, Propose PROVE Shape'
  OBVIOUS
<1>1. step = "propose" /\ Added /\ UNCHANGED <<repoVars, back, refused>>
  BY DEF Propose
<1>2. RepoTypeOK' /\ RepoInv' /\ UNCHANGED <<local, active>>
  BY <1>1, RepoUnchanged DEF Shape, TypeOK, repoVars, cloneVars
<1>3. prs' \subseteq Topics /\ raised' \subseteq Topics
  BY <1>1, InBranch DEF Shape, TypeOK, Propose
<1> QED
  BY <1>1, <1>2, <1>3, ShapeAdded DEF Shape, TypeOK

LEMMA ShapeProposeTooLong == Shape /\ ProposeTooLong => Shape'
<1> SUFFICES ASSUME Shape, ProposeTooLong PROVE Shape'
  OBVIOUS
<1>1. step = "propose" /\ Added /\ UNCHANGED <<repoVars, back, prs, raised>>
  BY DEF ProposeTooLong, Refuse
<1>2. RepoTypeOK' /\ RepoInv' /\ UNCHANGED <<local, active>>
  BY <1>1, RepoUnchanged DEF Shape, TypeOK, repoVars, cloneVars
<1>3. refused' \subseteq Topics
  BY <1>1, InBranch DEF Shape, TypeOK, ProposeTooLong, Refuse
<1> QED
  BY <1>1, <1>2, <1>3, ShapeAdded DEF Shape, TypeOK

LEMMA ShapeProposeFails == Shape /\ ProposeFails => Shape'
<1> SUFFICES ASSUME Shape, ProposeFails PROVE Shape'
  OBVIOUS
<1>1. step = "propose" /\ Added /\ UNCHANGED <<remote, shown, edited, cloneVars, back, prs, raised>>
  BY DEF ProposeFails, Refuse
<1>2. RepoTypeOK'
  BY DEF Shape, TypeOK, RepoTypeOK, ProposeFails, cloneVars
<1>3. RepoInv'
  BY <1>1 DEF Shape, RepoInv, RemoteShown, LocalShown, BaseIsRemote, PrimaryExists, Cloned, cloneVars
<1>4. refused' \subseteq Topics
  BY <1>1, InBranch DEF Shape, TypeOK, ProposeFails, Refuse
<1> QED
  BY <1>1, <1>2, <1>3, <1>4, ShapeAdded DEF Shape, TypeOK, cloneVars

\* Steps of the loop that do not concern the handler's own state.
LEMMA ShapeOthers ==
  ASSUME Shape, QH!TypeOK', OwnRequests', Position', UNCHANGED Others,
         since' = since, todo' \subseteq todo, turn' \in {turn, Idle}
  PROVE  Shape'
<1>1. RepoTypeOK' /\ RepoInv' /\ UNCHANGED <<local, step, cur, back, prs, raised, refused>>
  BY RepoUnchanged DEF Shape, TypeOK, Others, repoVars, cloneVars, stepVars, hubVars
<1> QED
  BY <1>1, ShapeParts DEF Shape, TypeOK

LEMMA ShapeLeave ==
  ASSUME Shape, AtEnd, NEW D \in SUBSET processed, QH!Leave(D), UNCHANGED Others,
         faults' \in Nat
  PROVE  Shape'
<1>1. /\ turn' = Idle /\ processed' = {} /\ UNCHANGED <<since, batch, todo, sent>>
      /\ acked' = acked \cup (D \cap hidden) /\ hidden' = hidden \ D
  BY DEF QH!Leave, QH!SqsDelete
<1>2. QH!TypeOK'
  BY <1>1 DEF Shape, TypeOK, QH!TypeOK, QH!SqsTypeOK, QH!Stored, QH!Ids
<1>3. OwnRequests'
  BY <1>1 DEF Shape, OwnRequests, Ids
<1>4. Position'
  BY <1>1 DEF AtEnd, Position, InTopic, Others, stepVars
<1> QED
  BY <1>1, <1>2, <1>3, <1>4, ShapeOthers

LEMMA ShapeFinish == Shape /\ Finish => Shape'
BY ShapeLeave DEF Finish, QH!Finish, Shape, TypeOK, QH!TypeOK

LEMMA ShapeFinishPartly == Shape /\ FinishPartly => Shape'
<1> SUFFICES ASSUME Shape, FinishPartly PROVE Shape'
  OBVIOUS
<1>1. PICK D \in SUBSET processed : QH!Leave(D)
  BY DEF FinishPartly, QH!FinishPartly
<1>2. faults' \in Nat
  BY DEF FinishPartly, QH!FinishPartly, Shape, TypeOK, QH!TypeOK
<1> QED
  BY <1>1, <1>2, ShapeLeave DEF FinishPartly

LEMMA ShapeExpire ==
  ASSUME Shape, QH!SqsExpire, UNCHANGED <<since, batch, todo, turn, processed>>,
         UNCHANGED Others, faults' \in Nat
  PROVE  Shape'
<1>1. hidden' = {} /\ UNCHANGED <<sent, acked, step, cur, back, local, active>>
  BY DEF QH!SqsExpire, Others, stepVars, repoVars, cloneVars
<1>2. QH!TypeOK'
  BY <1>1 DEF Shape, TypeOK, QH!TypeOK, QH!SqsTypeOK, QH!Stored, QH!Ids
<1>3. OwnRequests' /\ Position'
  BY <1>1 DEF Shape, OwnRequests, Position, InTopic, Ids
<1> QED
  BY <1>2, <1>3, ShapeOthers

LEMMA ShapeReappear == Shape /\ Reappear => Shape'
BY ShapeExpire DEF Reappear, QH!Reappear, QH!loopVars, Shape, TypeOK, QH!TypeOK

LEMMA ShapeOverrun == Shape /\ Overrun => Shape'
BY ShapeExpire DEF Overrun, QH!Overrun, QH!loopVars, Shape, TypeOK, QH!TypeOK

\* What others do on GitHub.
LEMMA ShapeOutside ==
  ASSUME Shape, RepoTypeOK', RepoInv', UNCHANGED <<local, active>>,
         UNCHANGED <<loopVars, stepVars, raised, refused>>, prs' \subseteq prs
  PROVE  Shape'
<1>1. QH!TypeOK' /\ OwnRequests' /\ UNCHANGED <<since, todo, turn, batch, sent>>
  BY LoopUnchanged DEF Shape, TypeOK, OwnRequests, loopVars, sqsVars, Ids
<1>2. Position'
  BY <1>1 DEF Shape, Position, InTopic, stepVars
<1> QED
  BY <1>1, <1>2, ShapeParts DEF Shape, TypeOK, stepVars

LEMMA EditFacts ==
  ASSUME Shape, NEW b \in Branches, NEW f \in Files, NEW c \in {Absent, Frozen, Edited},
         OthersEdit(b, f, c)
  PROVE  /\ RepoTypeOK' /\ RepoInv' /\ \A a \in Branches : shown[a] \subseteq shown'[a]
         /\ UNCHANGED <<local, active, unpushed>>
         /\ UNCHANGED <<loopVars, stepVars, hubVars>>
         /\ edits' # edits
<1>1. c \in Contents \cup {Absent} /\ OutsideEdit(b, f, c) /\ edits \in Nat
  BY KindsAssumption DEF OthersEdit, Shape, TypeOK, RepoTypeOK
<1>2. RepoTypeOK' /\ RepoInv' /\ \A a \in Branches : shown[a] \subseteq shown'[a]
  BY <1>1, OutsideEditInv DEF Shape, TypeOK
<1>3. UNCHANGED <<local, active, unpushed>> /\ edits' # edits
  BY <1>1 DEF OutsideEdit, Outside
<1> QED
  BY <1>2, <1>3 DEF OthersEdit, hubVars

LEMMA MergedFacts ==
  ASSUME Shape, NEW t \in Topics, OthersMerge(t)
  PROVE  /\ RepoTypeOK' /\ RepoInv' /\ \A a \in Branches : shown[a] \subseteq shown'[a]
         /\ UNCHANGED <<local, active, unpushed>>
         /\ UNCHANGED <<loopVars, stepVars, raised, refused>> /\ prs' \subseteq prs
         /\ edits' # edits
<1>1. t \in Files /\ OutsideMerge(t, t) /\ edits \in Nat
  BY BranchFacts DEF OthersMerge, Shape, TypeOK, RepoTypeOK
<1>2. RepoTypeOK' /\ RepoInv' /\ \A a \in Branches : shown[a] \subseteq shown'[a]
  BY <1>1, OutsideMergeInv DEF Shape, TypeOK
<1>3. UNCHANGED <<local, active, unpushed>> /\ edits' # edits
  BY <1>1 DEF OutsideMerge
<1> QED
  BY <1>2, <1>3 DEF OthersMerge

LEMMA ShapeNext == Shape /\ [Next]_vars => Shape'
<1> SUFFICES ASSUME Shape, [Next]_vars PROVE Shape'
  OBVIOUS
<1>1. ASSUME Handle PROVE Shape'
  <2>1. ASSUME NEW g \in Games, Enter(g) PROVE Shape'
    BY <2>1, ShapeEnter
  <2>2. ASSUME NEW i \in Ids, AlreadyListed(i) \/ Add(i) \/ AddRaises(i) PROVE Shape'
    BY <2>2, ShapeListed, ShapeAdd, ShapeRestart DEF AddRaises
  <2>3. ASSUME Merge \/ Publish \/ Propose \/ ProposeTooLong \/ Finish PROVE Shape'
    BY <2>3, ShapeMerge, ShapePublish, ShapePropose, ShapeProposeTooLong, ShapeFinish
  <2>4. ASSUME PublishRaises \/ ProposeRaises PROVE Shape'
    BY <2>4, ShapeRestart DEF PublishRaises, ProposeRaises
  <2> QED
    BY <1>1, <2>1, <2>2, <2>3, <2>4 DEF Handle
<1>2. ASSUME NEW k \in Kinds, AddHook(k) PROVE Shape'
  BY <1>2, ShapeHook
<1>3. ASSUME NEW S \in SUBSET Stored, Poll(S) \/ PollExits(S) PROVE Shape'
  BY <1>3, ShapePoll, ShapePollExits
<1>4. ASSUME ProposeFails \/ FinishPartly \/ Reappear \/ Overrun \/ Crash PROVE Shape'
  BY <1>4, ShapeProposeFails, ShapeFinishPartly, ShapeReappear, ShapeOverrun, ShapeCrash
<1>5. ASSUME NEW b \in Branches, NEW f \in Files, NEW c \in {Absent, Frozen, Edited},
             OthersEdit(b, f, c)
      PROVE  Shape'
  BY <1>5, EditFacts, ShapeOutside DEF hubVars
<1>6. ASSUME NEW t \in Topics, OthersMerge(t) PROVE Shape'
  BY <1>6, MergedFacts, ShapeOutside
<1>7. CASE UNCHANGED vars
  BY <1>7, ShapeOutside, RepoUnchanged DEF Shape, TypeOK, vars, repoVars, cloneVars, hubVars
<1> QED
  BY <1>1, <1>2, <1>3, <1>4, <1>5, <1>6, <1>7 DEF Next

LEMMA ShapeHolds == Spec => []Shape
BY ShapeInit, ShapeNext, PTL DEF Spec

-----------------------------------------------------------------------------
(* What a step has to show.                                                *)

\* An answer stays one: nothing leaves the history of a branch, and no pull
\* request was never made.
LEMMA KeptParts ==
  ASSUME Shape, Kept, NothingOwn', CloneAlone', AddedAlone',
         \A b \in Branches : shown[b] \subseteq shown'[b],
         raised \subseteq raised', refused \subseteq refused',
         \A i \in Ids : sent'[i] = sent[i],
         \A i \in processed' : i \in processed \/ (i \in Ids /\ Answered(i)'),
         acked' \subseteq acked \cup processed
  PROVE  Kept'
<1>1. acked \subseteq Ids /\ processed \subseteq Ids
  BY DEF Shape, TypeOK, QH!TypeOK, QH!SqsTypeOK, QH!Ids, Ids, OwnRequests
<1>2. \A i \in acked \cup processed : sent[i].game \in Games
  <2>1. \A i \in acked : sent[i].game \in Games
    BY DEF Kept, QH!SkippedStays, QH!Good, QH!GameOf
  <2>2. \A i \in processed : sent[i].game \in Games
    BY Running DEF Shape, OwnRequests
  <2> QED
    BY <2>1, <2>2
<1>3. ASSUME NEW i \in acked \cup processed, Answered(i) PROVE Answered(i)'
  <2>1. sent'[i] = sent[i] /\ shown[sent[i].game] \subseteq shown'[sent[i].game]
    BY <1>1, <1>2, BranchFacts
  <2> QED
    BY <1>3, <2>1 DEF Answered
<1>4. \A i \in acked \cup processed : Answered(i)'
  BY <1>3 DEF Kept, DealtWith, DeletedIsAnswered
<1>5. DealtWith'
  BY <1>4 DEF DealtWith
<1>6. DeletedIsAnswered'
  BY <1>4 DEF DeletedIsAnswered
<1>7. QH!SkippedStays'
  BY <1>1, <1>2 DEF QH!SkippedStays, QH!Good, QH!GameOf
<1> QED
  BY <1>5, <1>6, <1>7 DEF Kept

\* A step that leaves the branches as they are.
LEMMA TreesSame ==
  ASSUME Kept, UNCHANGED <<remote, local, unpushed>>,
         \A b \in Branches : shown[b] \subseteq shown'[b]
  PROVE  NothingOwn' /\ CloneAlone' /\ AddedAlone'
<1>1. \A t \in Topics : Home[t] \in Branches
  BY RepoAssumption DEF Branches
<1>2. NothingOwn'
  BY DEF Kept, NothingOwn
<1>3. CloneAlone'
  BY <1>1 DEF Kept, CloneAlone
<1>4. AddedAlone'
  BY <1>1 DEF Kept, AddedAlone
<1> QED
  BY <1>2, <1>3, <1>4

LEMMA KeptSame ==
  ASSUME Shape, Kept, UNCHANGED <<remote, shown, local, unpushed, sent>>,
         raised \subseteq raised', refused \subseteq refused',
         \A i \in processed' : i \in processed \/ (i \in Ids /\ Answered(i)'),
         acked' \subseteq acked \cup processed
  PROVE  Kept'
BY TreesSame, KeptParts

-----------------------------------------------------------------------------
(* The steps.                                                              *)

LEMMA KeptInit == Init => Kept
<1> SUFFICES ASSUME Init PROVE Kept
  OBVIOUS
<1>1. NothingOwn
  BY BranchFacts DEF Init, RepoInit, NothingOwn
<1>2. CloneAlone /\ AddedAlone
  BY RepoAssumption DEF Init, RepoInit, CloneAlone, AddedAlone, Branches
<1>3. DealtWith /\ DeletedIsAnswered /\ QH!SkippedStays
  BY DEF Init, QH!Init, QH!SqsInit, DealtWith, DeletedIsAnswered, QH!SkippedStays
<1> QED
  BY <1>1, <1>2, <1>3 DEF Kept

LEMMA KeptLost ==
  ASSUME Shape, Kept, Lost, QH!Fresh, UNCHANGED <<sent, acked>>
  PROVE  Kept'
<1>1. UNCHANGED <<remote, shown, raised, refused>> /\ processed' = {}
  BY DEF Lost, LoseClones, QH!Fresh, remoteVars, hubVars
<1>2. NothingOwn' /\ CloneAlone'
  BY BranchFacts DEF Lost, LoseClones, NothingOwn, CloneAlone, Branches
<1>3. AddedAlone'
  BY <1>1 DEF Kept, AddedAlone
<1> QED
  BY <1>1, <1>2, <1>3, KeptParts

\* Steps of the loop without repositories.
LEMMA KeptOthers ==
  ASSUME Shape, Kept, UNCHANGED Others, sent' = sent, processed' \subseteq processed,
         acked' \subseteq acked \cup processed
  PROVE  Kept'
BY KeptSame DEF Others, repoVars, remoteVars, cloneVars, hubVars

LEMMA KeptHook ==
  ASSUME Shape, Kept, NEW k \in Kinds, AddHook(k)
  PROVE  Kept'
<1>1. UNCHANGED <<remote, shown, local, unpushed, raised, refused, acked, processed>>
  BY DEF AddHook, QH!Send, QH!SqsSend, QH!loopVars, repoVars, remoteVars, cloneVars, hubVars
<1> QED
  BY <1>1, ShapeHook, TreesSame, KeptParts

LEMMA KeptPoll ==
  ASSUME Shape, Kept, NEW S \in SUBSET Stored, Poll(S)
  PROVE  Kept'
<1> DEFINE R == {g \in Games : since'[g] # 0}
<1>1. CloneAll(R) /\ R \subseteq Repos /\ UNCHANGED <<sent, acked, processed, raised, refused>>
  BY BranchFacts DEF Poll, QH!Poll, QH!SqsReceive, hubVars
<1> HIDE DEF R
<1>2. UNCHANGED <<remote, shown, unpushed>> /\ \A t \in Topics : local'[t] = local[t]
  BY <1>1, RepoAssumption DEF CloneAll, remoteVars, Branches
<1>3. NothingOwn' /\ CloneAlone' /\ AddedAlone'
  BY <1>2 DEF Kept, NothingOwn, CloneAlone, AddedAlone
<1> QED
  BY <1>1, <1>2, <1>3, KeptParts

LEMMA KeptEnter ==
  ASSUME Shape, Kept, NEW g \in Games, Enter(g)
  PROVE  Kept'
<1>1. Pull(g) /\ UNCHANGED <<sent, acked, processed, raised, refused>>
  BY DEF Enter, QH!Enter, QH!sqsVars, hubVars
<1>2. UNCHANGED <<remote, shown, unpushed>> /\ \A t \in Topics : local'[t] = local[t]
  <2>1. \A t \in Topics : t # g /\ t \in Branches
    BY BranchFacts
  <2> QED
    BY <1>1, <2>1 DEF Pull, remoteVars, Shape, TypeOK, RepoTypeOK
<1>3. NothingOwn' /\ CloneAlone' /\ AddedAlone'
  BY <1>2 DEF Kept, NothingOwn, CloneAlone, AddedAlone
<1> QED
  BY <1>1, <1>2, <1>3, KeptParts

\* What the clone of a primary branch holds was in NetKAN.
LEMMA CloneShown ==
  ASSUME Shape, Kept, NEW g \in Games, Cloned(g), NEW f \in Files
  PROVE  <<f, local[g][f]>> \in shown[g]
BY BranchFacts DEF Shape, RepoInv, LocalShown, PairsOf, Kept, NothingOwn

LEMMA KeptListed ==
  ASSUME Shape, Kept, NEW i \in Ids, AlreadyListed(i)
  PROVE  Kept'
<1>1. /\ QH!Process(i) /\ step = "next" /\ sent[i].file # Nameless
      /\ local[active[turn]][sent[i].file] # Absent
      /\ UNCHANGED <<remote, shown, local, unpushed, raised, refused>>
  BY DEF AlreadyListed, Addable, NextRequest, Listed, repoVars, remoteVars, cloneVars, hubVars
<1>2. /\ UNCHANGED <<sent, acked>> /\ turn # Idle /\ turn \in Games /\ i \in batch[turn]
      /\ processed' = processed \cup {i}
  BY <1>1, ProcessType
<1>3. active[turn] = turn /\ Cloned(turn) /\ sent[i].game = turn /\ sent[i].file \in Files
  BY <1>1, <1>2, Running DEF InTopic
<1>4. local[turn][sent[i].file] \in Contents
  <2>1. local[turn] \in Trees
    BY <1>2, <1>3, BranchFacts DEF Shape, TypeOK, RepoTypeOK, Cloned
  <2> QED
    BY <1>1, <1>3, <2>1 DEF Trees
<1>5. <<sent[i].file, local[turn][sent[i].file]>> \in shown[sent[i].game]
  BY <1>2, <1>3, CloneShown
<1>6. Answered(i)'
  BY <1>1, <1>2, <1>4, <1>5 DEF Answered
<1> QED
  BY <1>1, <1>2, <1>6, KeptSame

LEMMA KeptAdd ==
  ASSUME Shape, Kept, NEW i \in Ids, Add(i)
  PROVE  Kept'
<1> DEFINE t == sent[i].file
<1>1. PICK c \in Contents : OpenTopic(t, {<<t, c>>})
  BY AddFacts
<1>2. /\ turn \in Games /\ t \in Topics /\ Home[t] = turn /\ active[turn] = turn
      /\ Cloned(turn) /\ UNCHANGED <<sent, acked, processed, raised, refused>>
  BY AddFacts DEF loopVars, sqsVars, Cloned
<1> HIDE DEF t
<1>3. /\ UNCHANGED <<remote, shown>>
      /\ \A b \in Branches \ {t} : local'[b] = local[b] /\ unpushed'[b] = unpushed[b]
      /\ \A f \in Files \ {t} : local'[t][f] = Start(t)[f]
  BY <1>1, <1>2, BranchFacts DEF OpenTopic, remoteVars, Shape, TypeOK, RepoTypeOK
<1>4. NothingOwn'
  BY <1>2, <1>3, BranchFacts DEF Kept, NothingOwn
<1>5. \A f \in Files \ {t} : <<f, Start(t)[f]>> \in shown[turn]
  <2>1. CASE local[t] # NoTree
    BY <1>2, <2>1 DEF Start, Kept, CloneAlone
  <2>2. CASE local[t] = NoTree /\ remote[t] # NoTree
    BY <1>2, <2>2 DEF Start, Kept, AddedAlone
  <2>3. CASE local[t] = NoTree /\ remote[t] = NoTree
    BY <1>2, <2>3, CloneShown DEF Start
  <2> QED
    BY <2>1, <2>2, <2>3
<1>6. CloneAlone'
  BY <1>2, <1>3, <1>5, BranchFacts DEF Kept, CloneAlone
<1>7. AddedAlone'
  BY <1>3 DEF Kept, AddedAlone
<1> QED
  BY <1>2, <1>3, <1>4, <1>6, <1>7, KeptParts

LEMMA KeptMerge == Shape /\ Kept /\ Merge => Kept'
<1> SUFFICES ASSUME Shape, Kept, Merge PROVE Kept'
  OBVIOUS
<1> DEFINE t == sent[cur].file
<1>1. /\ \A b \in Branches \ {t} : local'[b] = local[b]
      /\ \/ local' = local
         \/ /\ remote[t] # NoTree
            /\ \A f \in Files : local'[t][f] \in {local[t][f], remote[t][f]}
      /\ UNCHANGED <<remote, shown, unpushed>>
      /\ UNCHANGED <<sent, acked, processed, raised, refused>>
  BY MergeFacts DEF remoteVars, loopVars, sqsVars
<1>2. t \in Topics /\ local[t] # NoTree /\ step = "merge"
  BY InBranch, MergeFacts DEF InTopic
<1> HIDE DEF t
<1>3. CloneAlone'
  BY <1>1, <1>2, BranchFacts DEF Kept, CloneAlone, AddedAlone
<1>4. NothingOwn' /\ AddedAlone'
  BY <1>1 DEF Kept, NothingOwn, AddedAlone
<1> QED
  BY <1>1, <1>3, <1>4, KeptParts

LEMMA KeptPublish == Shape /\ Kept /\ Publish => Kept'
<1> SUFFICES ASSUME Shape, Kept, Publish PROVE Kept'
  OBVIOUS
<1> DEFINE t == sent[cur].file
<1>1. /\ Pushed(t) /\ UNCHANGED <<local, sent, acked, processed, raised, refused>>
      /\ \A b \in Branches : shown[b] \subseteq shown'[b]
  BY PublishFacts DEF loopVars, sqsVars
<1>2. t \in Topics /\ t \in Branches /\ local[t] # NoTree
  BY InBranch, PublishFacts DEF InTopic
<1> HIDE DEF t
<1>3. /\ remote'[t] = local[t] /\ \A b \in Branches \ {t} : remote'[b] = remote[b]
      /\ \A g \in Games : unpushed'[g] = unpushed[g]
  BY <1>1, <1>2, BranchFacts DEF Pushed, Shape, TypeOK, RepoTypeOK
<1>4. \A s \in Topics : Home[s] \in Branches /\ s \in Branches
  BY RepoAssumption DEF Branches
<1>5. NothingOwn' /\ CloneAlone'
  BY <1>1, <1>3, <1>4 DEF Kept, NothingOwn, CloneAlone
<1>6. AddedAlone'
  BY <1>1, <1>2, <1>3, <1>4 DEF Kept, AddedAlone, CloneAlone
<1> QED
  BY <1>1, <1>5, <1>6, KeptParts

\* The request has its pull request, or GitHub would have none.
LEMMA KeptAdded ==
  ASSUME Shape, Kept, step = "propose", Added, UNCHANGED <<remote, shown, local, unpushed>>,
         raised \subseteq raised', refused \subseteq refused',
         sent[cur].file \in raised' \cup refused'
  PROVE  Kept'
<1>1. cur \in Ids /\ UNCHANGED <<sent, acked>> /\ processed' = processed \cup {cur}
  BY InBranch, ProcessType DEF Added
<1>2. ASSUME NEW i, i = cur PROVE Answered(i)'
  BY <1>1, <1>2 DEF Answered
<1> QED
  BY <1>1, <1>2, KeptSame

LEMMA KeptPropose == Shape /\ Kept /\ (Propose \/ ProposeTooLong \/ ProposeFails) => Kept'
<1>1. ASSUME Shape, Kept, Propose PROVE Kept'
  BY <1>1, KeptAdded DEF Propose, repoVars, remoteVars, cloneVars
<1>2. ASSUME Shape, Kept, ProposeFails PROVE Kept'
  BY <1>2, KeptAdded DEF ProposeFails, Refuse, cloneVars
<1>3. ASSUME Shape, Kept, ProposeTooLong PROVE Kept'
  BY <1>3, KeptAdded DEF ProposeTooLong, Refuse, repoVars, remoteVars, cloneVars
<1> QED
  BY <1>1, <1>2, <1>3

LEMMA KeptLoop ==
  ASSUME Shape, Kept, Finish \/ FinishPartly \/ Reappear \/ Overrun
  PROVE  Kept'
<1>1. ASSUME NEW D \in SUBSET processed, QH!Leave(D)
      PROVE  sent' = sent /\ processed' = {} /\ acked' \subseteq acked \cup processed
  BY <1>1 DEF QH!Leave, QH!SqsDelete
<1>2. ASSUME Finish \/ FinishPartly PROVE Kept'
  BY <1>1, <1>2, KeptOthers DEF Finish, FinishPartly, QH!Finish, QH!FinishPartly
<1>3. ASSUME Reappear \/ Overrun PROVE Kept'
  BY <1>3, KeptOthers
  DEF Reappear, Overrun, QH!Reappear, QH!Overrun, QH!SqsExpire, QH!loopVars
<1> QED
  BY <1>2, <1>3

LEMMA KeptEdit ==
  ASSUME Shape, Kept, NEW b \in Branches, NEW f \in Files, NEW c \in {Absent, Frozen, Edited},
         OthersEdit(b, f, c)
  PROVE  Kept'
<1>1. /\ \A a \in Branches : shown[a] \subseteq shown'[a]
      /\ UNCHANGED <<local, unpushed, sent, acked, processed, raised, refused>>
  BY EditFacts DEF loopVars, sqsVars, hubVars
<1>2. /\ remote[b] # NoTree /\ remote' = [remote EXCEPT ![b] = [remote[b] EXCEPT ![f] = c]]
      /\ b \in Topics => f = b
  BY BranchFacts DEF OthersEdit, OutsideEdit, Outside
<1>3. \A t \in Topics : Home[t] \in Branches /\ t \in Branches
  BY RepoAssumption DEF Branches
<1>4. NothingOwn' /\ CloneAlone'
  BY <1>1, <1>3 DEF Kept, NothingOwn, CloneAlone
<1>5. AddedAlone'
  <2> SUFFICES ASSUME NEW t \in Topics, remote'[t] # NoTree, NEW g \in Files \ {t}
               PROVE  <<g, remote'[t][g]>> \in shown'[Home[t]]
    BY DEF AddedAlone
  <2>1. remote[t] # NoTree /\ remote'[t][g] = remote[t][g]
    <3>1. CASE t = b
      <4>1. b \in Topics /\ f = b /\ remote[b] \in Trees
        BY <1>2, <3>1 DEF Shape, TypeOK, RepoTypeOK
      <4> QED
        BY <1>2, <3>1, <4>1 DEF Shape, TypeOK, RepoTypeOK, Trees
    <3>2. CASE t # b
      BY <1>2, <1>3, <3>2 DEF Shape, TypeOK, RepoTypeOK
    <3> QED
      BY <3>1, <3>2
  <2> QED
    BY <1>1, <1>3, <2>1 DEF Kept, AddedAlone
<1> QED
  BY <1>1, <1>4, <1>5, KeptParts

LEMMA KeptMerged ==
  ASSUME Shape, Kept, NEW t \in Topics, OthersMerge(t)
  PROVE  Kept'
<1>1. /\ \A a \in Branches : shown[a] \subseteq shown'[a]
      /\ UNCHANGED <<local, unpushed, sent, acked, processed, raised, refused>>
  BY MergedFacts DEF loopVars, sqsVars
<1>2. remote'[t] = NoTree /\ \A s \in Topics \ {t} : remote'[s] = remote[s]
  BY RepoAssumption DEF OthersMerge, OutsideMerge, Branches, Shape, TypeOK, RepoTypeOK
<1>3. \A s \in Topics : Home[s] \in Branches
  BY RepoAssumption DEF Branches
<1>4. NothingOwn' /\ CloneAlone'
  BY <1>1, <1>3 DEF Kept, NothingOwn, CloneAlone
<1>5. AddedAlone'
  BY <1>1, <1>2, <1>3 DEF Kept, AddedAlone
<1> QED
  BY <1>1, <1>4, <1>5, KeptParts

LEMMA KeptNext == Shape /\ Kept /\ [Next]_vars => Kept'
<1> SUFFICES ASSUME Shape, Kept, [Next]_vars PROVE Kept'
  OBVIOUS
<1>1. ASSUME Restart PROVE Kept'
  BY <1>1, KeptLost DEF Restart, sqsVars
<1>2. ASSUME Handle PROVE Kept'
  <2>1. ASSUME NEW g \in Games, Enter(g) PROVE Kept'
    BY <2>1, KeptEnter
  <2>2. ASSUME NEW i \in Ids, AlreadyListed(i) \/ Add(i) \/ AddRaises(i) PROVE Kept'
    BY <1>1, <2>2, KeptListed, KeptAdd DEF AddRaises
  <2>3. ASSUME Merge \/ Publish \/ Propose \/ ProposeTooLong \/ Finish PROVE Kept'
    BY <2>3, KeptMerge, KeptPublish, KeptPropose, KeptLoop
  <2>4. ASSUME PublishRaises \/ ProposeRaises PROVE Kept'
    BY <1>1, <2>4 DEF PublishRaises, ProposeRaises
  <2> QED
    BY <1>2, <2>1, <2>2, <2>3, <2>4 DEF Handle
<1>3. ASSUME NEW k \in Kinds, AddHook(k) PROVE Kept'
  BY <1>3, KeptHook
<1>4. ASSUME NEW S \in SUBSET Stored, Poll(S) PROVE Kept'
  BY <1>4, KeptPoll
<1>5. ASSUME NEW S \in SUBSET Stored, PollExits(S) PROVE Kept'
  BY <1>5, KeptLost DEF PollExits, QH!PollExits, QH!SqsReceive
<1>6. ASSUME ProposeFails \/ FinishPartly \/ Reappear \/ Overrun PROVE Kept'
  BY <1>6, KeptPropose, KeptLoop
<1>7. ASSUME Crash PROVE Kept'
  BY <1>7, KeptLost DEF Crash, QH!Crash, QH!sqsVars
<1>8. ASSUME NEW b \in Branches, NEW f \in Files, NEW c \in {Absent, Frozen, Edited},
             OthersEdit(b, f, c)
      PROVE  Kept'
  BY <1>8, KeptEdit
<1>9. ASSUME NEW t \in Topics, OthersMerge(t) PROVE Kept'
  BY <1>9, KeptMerged
<1>10. CASE UNCHANGED vars
  BY <1>10, KeptSame DEF vars, loopVars, sqsVars, repoVars, remoteVars, cloneVars, hubVars
<1> QED
  BY <1>2, <1>3, <1>4, <1>5, <1>6, <1>7, <1>8, <1>9, <1>10 DEF Next

-----------------------------------------------------------------------------
(* The invariant.                                                          *)

\* The inductive invariant of the Adder: where try_add is, what is checked out
\* then, and what the branches hold.
THEOREM Invariance == Spec => []AdderInv
<1>1. Shape /\ Kept /\ [Next]_vars => (Shape /\ Kept)'
  BY ShapeNext, KeptNext
<1> QED
  BY ShapeInit, KeptInit, <1>1, PTL DEF Spec, AdderInv

\* No request is deleted before someone could see it as a pull request, or it
\* was found to be in NetKAN, through every crash and redelivery.
THEOREM Answers == Spec => []DeletedIsAnswered
<1>1. AdderInv => DeletedIsAnswered
  BY DEF AdderInv, Kept
<1> QED
  BY <1>1, Invariance, PTL

\* A branch never carries the mod of another request: change_branch starts from
\* the primary branch, and the clone of that holds what NetKAN held.
THEOREM Alone == Spec => []AddedAlone
<1>1. AdderInv => AddedAlone
  BY DEF AdderInv, Kept
<1> QED
  BY <1>1, Invariance, PTL

-----------------------------------------------------------------------------
(* The pushes of the Adder.                                                *)

\* Only the push of the branch of a request writes to GitHub, and the mod that
\* it is about is not in the clone of the primary branch.
LEMMA RemoteKept ==
  ASSUME Shape, [Next]_vars, NEW b \in Branches, edits' = edits, remote'[b] # remote[b]
  PROVE  b \in Topics /\ local[Home[b]][b] = Absent
<1>1. remote' # remote
  OBVIOUS
<1>2. edits \in Nat /\ remote \in [Branches -> Trees \cup {NoTree}] /\ edits' # edits + 1
  BY DEF Shape, TypeOK, RepoTypeOK
<1>3. ~(Restart \/ Crash)
  BY <1>1 DEF Restart, Crash, Lost, LoseClones, remoteVars
<1>4. ASSUME NEW i \in Ids PROVE ~AlreadyListed(i) /\ ~Add(i)
  BY <1>1 DEF AlreadyListed, Add, Write, OpenTopic, repoVars, remoteVars
<1>5. ~(Merge \/ Propose \/ ProposeTooLong \/ ProposeFails)
  BY <1>1 DEF Merge, Propose, ProposeTooLong, ProposeFails, Pull, PullTopic, repoVars, remoteVars
<1>6. ~(Finish \/ FinishPartly \/ Reappear \/ Overrun)
  BY <1>1 DEF Finish, FinishPartly, Reappear, Overrun, Others, repoVars, remoteVars
<1>7. ASSUME NEW g \in Games PROVE ~Enter(g)
  BY <1>1 DEF Enter, Pull, remoteVars
<1>8. ASSUME NEW k \in Kinds PROVE ~AddHook(k)
  BY <1>1 DEF AddHook, repoVars, remoteVars
<1>9. ASSUME NEW S \in SUBSET Stored PROVE ~Poll(S) /\ ~PollExits(S)
  BY <1>1 DEF Poll, PollExits, CloneAll, Lost, LoseClones, remoteVars
<1>10. ASSUME NEW a \in Branches, NEW f \in Files, NEW c \in {Absent, Frozen, Edited}
       PROVE  ~OthersEdit(a, f, c)
  BY <1>2 DEF OthersEdit, OutsideEdit, Outside
<1>11. ASSUME NEW t \in Topics PROVE ~OthersMerge(t)
  BY <1>2 DEF OthersMerge, OutsideMerge
<1>12. Publish
  BY <1>1, <1>3, <1>4, <1>5, <1>6, <1>7, <1>8, <1>9, <1>10, <1>11
  DEF Next, Handle, AddRaises, PublishRaises, ProposeRaises, vars, repoVars, remoteVars
<1>13. step = "publish" /\ Pushed(sent[cur].file)
  BY <1>12, PublishFacts
<1>14. b = sent[cur].file
  BY <1>2, <1>13 DEF Pushed
<1> QED
  BY <1>13, <1>14, InBranch DEF InTopic

\* Whatever the queue brings, NetKAN's primary branch changes by the hands of
\* others alone.
THEOREM OnlyProposed == Spec => OnlyProposes
<1>1. Shape /\ [Next]_vars =>
        \A r \in Repos : remote'[r] # remote[r] => edits' # edits
  BY RemoteKept, BranchFacts
<1>2. UNCHANGED vars => \A r \in Repos : remote'[r] # remote[r] => edits' # edits
  BY DEF vars, repoVars, remoteVars
<1> QED
  BY <1>1, <1>2, ShapeHolds, PTL DEF Spec, OnlyProposes

\* A mod that was frozen in the clone when the request was handled is not
\* proposed again: the check of try_add holds until the push.
THEOREM FrozenKept == Spec => FrozenStays
<1>1. Frozen # Absent
  BY RepoAssumption, KindsAssumption
<1>2. Shape /\ [Next]_vars =>
        \A t \in Topics :
          remote'[t] # remote[t] /\ edits' = edits => local[Home[t]][t] # Frozen
  BY <1>1, RemoteKept, BranchFacts
<1> QED
  BY <1>2, ShapeHolds, PTL DEF Spec, FrozenStays

-----------------------------------------------------------------------------
(* What QueueHandler promises holds of the Adder.                          *)

\* A handler that raises is at work, so the loop may stop there.
LEMMA RestartRaises ==
  ASSUME Restart, turn # Idle
  PROVE  QH!Raise
BY DEF Restart, QH!Raise, QH!Polling, QH!sqsVars, sqsVars

LEMMA ProcessStep ==
  ASSUME Shape, NEW i, QH!Process(i)
  PROVE  QH!Next
<1>1. turn \in Games /\ i \in batch[turn]
  BY ProcessType
<1> QED
  BY <1>1 DEF QH!Next

LEMMA LoopStep == Shape /\ [Next]_vars => [QH!Next]_loopVars
<1> SUFFICES ASSUME Shape, [Next]_vars PROVE QH!Next \/ UNCHANGED loopVars
  OBVIOUS
<1>1. ASSUME Handle PROVE QH!Next \/ UNCHANGED loopVars
  <2>1. ASSUME NEW g \in Games, Enter(g) PROVE QH!Next
    BY <2>1 DEF Enter, QH!Next
  <2>2. ASSUME NEW i \in Ids, AlreadyListed(i) PROVE QH!Next
    BY <2>2, ProcessStep DEF AlreadyListed
  <2>3. ASSUME NEW i \in Ids, Add(i) PROVE UNCHANGED loopVars
    BY <2>3 DEF Add
  <2>4. ASSUME NEW i \in Ids, AddRaises(i) PROVE QH!Next
    BY <2>4, RestartRaises DEF AddRaises, NextRequest, QH!Next
  <2>5. ASSUME Merge \/ Publish PROVE UNCHANGED loopVars
    BY <2>5 DEF Merge, Publish
  <2>6. ASSUME PublishRaises PROVE QH!Next
    BY <2>6, RestartRaises, InBranch DEF PublishRaises, QH!Next
  <2>7. ASSUME Propose PROVE QH!Next
    BY <2>7, ProcessStep DEF Propose, Added
  <2>8. ASSUME Finish PROVE QH!Next
    BY <2>8 DEF Finish, QH!Next
  <2>9. ASSUME ProposeTooLong PROVE QH!Next
    BY <2>9, ProcessStep DEF ProposeTooLong, Refuse, Added
  <2>10. ASSUME ProposeRaises PROVE QH!Next
    BY <2>10, RestartRaises, InBranch DEF ProposeRaises, QH!Next
  <2> QED
    BY <1>1, <2>1, <2>2, <2>3, <2>4, <2>5, <2>6, <2>7, <2>8, <2>9, <2>10 DEF Handle
<1>2. ASSUME NEW k \in Kinds, AddHook(k) PROVE QH!Next
  BY <1>2 DEF AddHook, QH!Next
<1>3. ASSUME NEW S \in SUBSET Stored, Poll(S) \/ PollExits(S) PROVE QH!Next
  BY <1>3 DEF Poll, PollExits, QH!Next, Stored, Ids, QH!Stored, QH!Ids
<1>4. ASSUME ProposeFails PROVE QH!Next
  BY <1>4, ProcessStep DEF ProposeFails, Refuse, Added
<1>5. ASSUME FinishPartly \/ Reappear \/ Overrun \/ Crash PROVE QH!Next
  BY <1>5 DEF FinishPartly, Reappear, Overrun, Crash, QH!Next
<1>6. ASSUME NEW b \in Branches, NEW f \in Files, NEW c \in {Absent, Frozen, Edited},
             OthersEdit(b, f, c)
      PROVE  UNCHANGED loopVars
  BY <1>6 DEF OthersEdit
<1>7. ASSUME NEW t \in Topics, OthersMerge(t) PROVE UNCHANGED loopVars
  BY <1>7 DEF OthersMerge
<1> QED
  BY <1>1, <1>2, <1>3, <1>4, <1>5, <1>6, <1>7 DEF Next, vars

\* The Adder takes part in the loop only through the steps of QueueHandler,
\* wherever try_add or a raised exception leaves it.
THEOREM Refinement == Spec => LoopSpec
<1>1. Init => QH!Init
  BY DEF Init
<1> QED
  BY <1>1, LoopStep, ShapeHolds, PTL DEF Spec, LoopSpec
==============================================================================
