--------------------------- MODULE XkanRepoProofs ---------------------------
(***************************************************************************)
(* What each operation of XkanRepo preserves: the types of its variables   *)
(* (RepoTypeOK) and what the clones owe to GitHub (RepoInv).               *)
(***************************************************************************)
EXTENDS XkanRepo, TLAPS

LEMMA PairsOfTyped == \A tree \in Trees : PairsOf(tree) \subseteq Pairs
BY DEF PairsOf, Trees, Pairs

LEMMA RepoInitInv == RepoInit => RepoTypeOK /\ RepoInv
<1> SUFFICES ASSUME RepoInit PROVE RepoTypeOK /\ RepoInv
  OBVIOUS
<1>1. RepoTypeOK
  BY DEF RepoInit, RepoTypeOK, Trees, Pairs, PairsOf, Empty, Branches
<1>2. RepoInv
  BY RepoAssumption
  DEF RepoInit, RepoInv, RemoteShown, LocalShown, BaseIsRemote, PrimaryExists,
      Cloned, Branches, Empty
<1> QED
  BY <1>1, <1>2

LEMMA RepoUnchanged ==
  ASSUME RepoTypeOK, RepoInv, UNCHANGED repoVars
  PROVE  RepoTypeOK' /\ RepoInv'
BY DEF RepoTypeOK, RepoInv, RemoteShown, LocalShown, BaseIsRemote, PrimaryExists,
       Cloned, repoVars, remoteVars, cloneVars

\* Checking out another branch changes nothing else.
LEMMA CheckoutInv ==
  ASSUME RepoTypeOK, RepoInv,
         UNCHANGED <<remoteVars, local, base, behind, unpushed>>,
         active' \in [Repos -> Branches]
  PROVE  RepoTypeOK' /\ RepoInv'
BY DEF RepoTypeOK, RepoInv, RemoteShown, LocalShown, BaseIsRemote, PrimaryExists,
       Cloned, remoteVars

LEMMA CloneAllInv ==
  ASSUME RepoTypeOK, RepoInv, NEW R \in SUBSET Repos, CloneAll(R)
  PROVE  /\ RepoTypeOK' /\ RepoInv'
         /\ \A r \in Repos : Cloned(r) \/ r \in R => Cloned(r)'
<1>1. RepoTypeOK'
  BY DEF RepoTypeOK, CloneAll, remoteVars
<1>2. \A r \in Repos : Cloned(r) \/ r \in R => Cloned(r)'
  BY DEF CloneAll, Cloned, RepoInv, PrimaryExists, Branches, remoteVars
<1>3. RepoInv'
  BY <1>1 DEF RepoTypeOK, RepoInv, CloneAll, RemoteShown, LocalShown, BaseIsRemote, PrimaryExists,
     Cloned, Branches, PairsOf, remoteVars
<1> QED
  BY <1>1, <1>2, <1>3

LEMMA LoseClonesInv ==
  ASSUME RepoTypeOK, RepoInv, LoseClones
  PROVE  RepoTypeOK' /\ RepoInv'
<1>1. RepoTypeOK'
  BY DEF RepoTypeOK, LoseClones, Branches, remoteVars
<1>2. RepoInv'
  BY DEF RepoInv, LoseClones, RemoteShown, LocalShown, BaseIsRemote, PrimaryExists,
         Cloned, Branches, remoteVars
<1> QED
  BY <1>1, <1>2

LEMMA PullInv ==
  ASSUME RepoTypeOK, RepoInv, NEW b \in Branches, local[b] # NoTree,
         Pull(b), active' \in [Repos -> Branches]
  PROVE  /\ RepoTypeOK' /\ RepoInv'
         /\ \A f \in Files : local'[b][f] \in {local[b][f], remote[b][f]}
         /\ \A c \in Branches : local[c] # NoTree => local'[c] # NoTree
         /\ \A c \in Branches \ {b} : local'[c] = local[c]
         /\ UNCHANGED <<shown, unpushed>>
<1>1. remote[b] # NoTree
  BY DEF Pull, Mergeable
<1>2. local[b] \in Trees /\ remote[b] \in Trees
  BY <1>1 DEF RepoTypeOK
<1>3. MergeOurs(base[b], local[b], remote[b]) \in Trees
  BY <1>2 DEF MergeOurs, Trees
<1>4. local'[b] = MergeOurs(base[b], local[b], remote[b])
  BY DEF Pull, RepoTypeOK
<1>5. RepoTypeOK'
  BY <1>2, <1>3 DEF RepoTypeOK, Pull, remoteVars
<1>6. \A f \in Files : local'[b][f] = IF local[b][f] = base[b][f] THEN remote[b][f] ELSE local[b][f]
  BY <1>4 DEF MergeOurs
<1>7. RemoteShown' /\ PrimaryExists'
  BY DEF Pull, RepoInv, RemoteShown, PrimaryExists, remoteVars
<1>8. \A c \in Branches \ {b} : /\ local'[c] = local[c] /\ base'[c] = base[c]
                                /\ behind'[c] = behind[c]
  BY DEF Pull, RepoTypeOK
<1>9. base'[b] = remote[b] /\ local'[b] # NoTree /\ unpushed' = unpushed /\ shown' = shown
  BY <1>3, <1>4, RepoAssumption DEF Pull, RepoTypeOK, Trees, remoteVars
<1>10. LocalShown'
  <2> SUFFICES ASSUME NEW r \in Repos, Cloned(r)', NEW f \in Files
               PROVE  <<f, local'[r][f]>> \in shown[r] \cup unpushed[r]
    BY <1>9 DEF LocalShown, PairsOf
  <2>1. r \in Branches
    BY DEF Branches
  <2>2. CASE r = b
    <3>1. <<f, local[b][f]>> \in PairsOf(local[b]) /\ <<f, remote[b][f]>> \in PairsOf(remote[b])
      BY DEF PairsOf
    <3> QED
      BY <2>2, <3>1, <1>1, <1>6 DEF RepoInv, LocalShown, RemoteShown, Cloned
  <2>3. CASE r # b
    BY <2>1, <2>3, <1>8 DEF RepoInv, LocalShown, Cloned, PairsOf
  <2> QED
    BY <2>2, <2>3
<1>11. BaseIsRemote'
  <2> SUFFICES ASSUME NEW r \in Repos, Cloned(r)'
               PROVE  /\ ~behind'[r] => base'[r] = remote[r]
                      /\ \A f \in Files : local'[r][f] # base'[r][f] =>
                           <<f, local'[r][f]>> \in unpushed[r]
    BY <1>9 DEF BaseIsRemote, Pull, remoteVars
  <2>1. r \in Branches
    BY DEF Branches
  <2>2. CASE r = b
    BY <2>2, <1>6, <1>9 DEF RepoInv, BaseIsRemote, Cloned
  <2>3. CASE r # b
    BY <2>1, <2>3, <1>8 DEF RepoInv, BaseIsRemote, Cloned
  <2> QED
    BY <2>2, <2>3
<1> QED
  BY <1>5, <1>6, <1>7, <1>8, <1>9, <1>10, <1>11 DEF RepoInv

LEMMA PushedInv ==
  ASSUME RepoTypeOK, RepoInv, NEW b \in Branches, local[b] # NoTree,
         Pushed(b), active' \in [Repos -> Branches]
  PROVE  /\ RepoTypeOK' /\ RepoInv'
         /\ shown'[b] = shown[b] \cup unpushed[b] \cup PairsOf(local[b])
         /\ \A c \in Branches : shown[c] \subseteq shown'[c]
         /\ \A c \in Branches \ {b} : shown'[c] = shown[c] /\ unpushed'[c] = unpushed[c]
<1>1. local[b] \in Trees /\ PairsOf(local[b]) \subseteq Pairs
  BY PairsOfTyped DEF RepoTypeOK
<1>2. RepoTypeOK'
  BY <1>1 DEF RepoTypeOK, Pushed
<1>3. /\ remote'[b] = local[b] /\ base'[b] = local[b] /\ unpushed'[b] = {}
      /\ local' = local /\ behind' = behind /\ ~behind[b]
      /\ shown'[b] = shown[b] \cup unpushed[b] \cup PairsOf(local[b])
  BY DEF RepoTypeOK, Pushed, Accepted
<1>4. \A c \in Branches \ {b} :
        /\ remote'[c] = remote[c] /\ base'[c] = base[c]
        /\ unpushed'[c] = unpushed[c] /\ shown'[c] = shown[c]
  BY DEF RepoTypeOK, Pushed
<1>5. \A c \in Branches : shown[c] \subseteq shown'[c]
  BY <1>3, <1>4
<1>6. RemoteShown'
  BY <1>3, <1>4 DEF RepoInv, RemoteShown, PairsOf
<1>7. LocalShown'
  BY <1>3, <1>4 DEF RepoInv, LocalShown, PairsOf, Cloned, Branches
<1>8. BaseIsRemote'
  <2> SUFFICES ASSUME NEW r \in Repos, Cloned(r)'
               PROVE  /\ ~behind'[r] => base'[r] = remote'[r]
                      /\ \A f \in Files : local'[r][f] # base'[r][f] =>
                           <<f, local'[r][f]>> \in unpushed'[r]
    BY DEF BaseIsRemote
  <2>1. CASE r = b
    BY <2>1, <1>3
  <2>2. CASE r # b
    BY <2>2, <1>3, <1>4 DEF RepoInv, BaseIsRemote, Cloned, Branches
  <2> QED
    BY <2>1, <2>2
<1>9. PrimaryExists'
  BY <1>3, <1>4 DEF RepoInv, PrimaryExists, Branches
<1> QED
  BY <1>2, <1>3, <1>4, <1>5, <1>6, <1>7, <1>8, <1>9 DEF RepoInv

LEMMA CommitToInv ==
  ASSUME RepoTypeOK, RepoInv, NEW r \in Repos, NEW f \in Files, NEW c \in Contents,
         local[active[r]] # NoTree, CommitTo(r, f, c)
  PROVE  /\ RepoTypeOK' /\ RepoInv'
         /\ \A b \in Branches : local[b] # NoTree => local'[b] # NoTree
         /\ \A b \in Branches \ {active[r]} : local'[b] = local[b] /\ unpushed'[b] = unpushed[b]
         /\ unpushed'[active[r]] = unpushed[active[r]] \cup {<<f, c>>}
<1> DEFINE a == active[r]
           tree == [local[a] EXCEPT ![f] = c]
<1>1. a \in Branches /\ local[a] \in Trees
  BY DEF RepoTypeOK
<1>2. tree \in Trees /\ tree # NoTree
  BY <1>1, RepoAssumption DEF Trees
<1>3. \A g \in Files : tree[g] = IF g = f THEN c ELSE local[a][g]
  BY <1>1 DEF Trees
<1>4. /\ local' = [local EXCEPT ![a] = tree]
      /\ unpushed' = [unpushed EXCEPT ![a] = unpushed[a] \cup {<<f, c>>}]
      /\ UNCHANGED <<base, behind, active, remoteVars>>
  BY DEF CommitTo
<1>5. local'[a] = tree /\ unpushed'[a] = unpushed[a] \cup {<<f, c>>}
  BY <1>1, <1>4 DEF RepoTypeOK
<1>6. \A b \in Branches \ {a} : local'[b] = local[b] /\ unpushed'[b] = unpushed[b]
  BY <1>4 DEF RepoTypeOK
<1>7. {<<f, c>>} \subseteq Pairs
  BY DEF Pairs
<1>8. local' \in [Branches -> Trees \cup {NoTree}]
  BY <1>1, <1>2, <1>4 DEF RepoTypeOK
<1>9. unpushed' \in [Branches -> SUBSET Pairs]
  BY <1>1, <1>4, <1>7 DEF RepoTypeOK
<1>10. RepoTypeOK'
  BY <1>4, <1>8, <1>9 DEF RepoTypeOK, remoteVars
<1>11. RemoteShown' /\ PrimaryExists'
  BY <1>4 DEF RepoInv, RemoteShown, PrimaryExists, remoteVars
<1>12. LocalShown'
  <2> SUFFICES ASSUME NEW q \in Repos, Cloned(q)', NEW g \in Files
               PROVE  <<g, local'[q][g]>> \in shown[q] \cup unpushed'[q]
    BY <1>4 DEF LocalShown, PairsOf, remoteVars
  <2>1. CASE q = a
    BY <2>1, <1>3, <1>5 DEF RepoInv, LocalShown, Cloned, PairsOf
  <2>2. CASE q # a
    BY <2>2, <1>6 DEF RepoInv, LocalShown, Cloned, PairsOf, Branches
  <2> QED
    BY <2>1, <2>2
<1>13. BaseIsRemote'
  <2> SUFFICES ASSUME NEW q \in Repos, Cloned(q)'
               PROVE  /\ ~behind[q] => base[q] = remote[q]
                      /\ \A g \in Files : local'[q][g] # base[q][g] =>
                           <<g, local'[q][g]>> \in unpushed'[q]
    BY <1>4 DEF BaseIsRemote, remoteVars
  <2>1. CASE q = a
    BY <2>1, <1>3, <1>5 DEF RepoInv, BaseIsRemote, Cloned
  <2>2. CASE q # a
    BY <2>2, <1>6 DEF RepoInv, BaseIsRemote, Cloned, Branches
  <2> QED
    BY <2>1, <2>2
<1> QED
  BY <1>2, <1>5, <1>6, <1>10, <1>11, <1>12, <1>13 DEF RepoInv

LEMMA OpenTopicInv ==
  ASSUME RepoTypeOK, RepoInv, NEW t \in Topics, NEW C \in SUBSET (Files \X Contents),
         local[active[Home[t]]] # NoTree, OpenTopic(t, C)
  PROVE  /\ RepoTypeOK' /\ RepoInv'
         /\ \A b \in Branches : local[b] # NoTree => local'[b] # NoTree
         /\ \A b \in Branches \ {t} : local'[b] = local[b] /\ unpushed'[b] = unpushed[b]
         /\ local'[t] # NoTree /\ C \subseteq unpushed'[t]
         /\ active' = [active EXCEPT ![Home[t]] = t]
<1> DEFINE tree == [f \in Files |-> IF \E c \in Contents : <<f, c>> \in C
                                   THEN CHOOSE c \in Contents : <<f, c>> \in C
                                   ELSE Start(t)[f]]
<1>1. t \in Branches /\ Home[t] \in Repos /\ t \notin Repos
  BY RepoAssumption DEF Branches
<1>2. Start(t) \in Trees
  BY <1>1 DEF Start, RepoTypeOK
<1>3. tree \in Trees /\ tree # NoTree
  BY <1>2, RepoAssumption DEF Trees
<1>4. StartUnpushed(t) \cup C \subseteq Pairs
  BY <1>1 DEF StartUnpushed, RepoTypeOK, Pairs
<1>5. /\ local' = [local EXCEPT ![t] = tree]
      /\ base' = [base EXCEPT ![t] = IF local[t] # NoTree THEN base[t] ELSE Start(t)]
      /\ unpushed' = [unpushed EXCEPT ![t] = StartUnpushed(t) \cup C]
      /\ active' = [active EXCEPT ![Home[t]] = t]
      /\ UNCHANGED <<behind, remoteVars>>
  BY DEF OpenTopic
<1>6. local'[t] = tree /\ C \subseteq unpushed'[t]
  BY <1>1, <1>5 DEF RepoTypeOK
<1>7. \A b \in Branches \ {t} :
        local'[b] = local[b] /\ unpushed'[b] = unpushed[b] /\ base'[b] = base[b]
  BY <1>5 DEF RepoTypeOK
<1>8. RepoTypeOK'
  <2>1. local' \in [Branches -> Trees \cup {NoTree}]
    BY <1>1, <1>3, <1>5 DEF RepoTypeOK
  <2>2. base' \in [Branches -> Trees \cup {NoTree}]
    BY <1>1, <1>2, <1>5 DEF RepoTypeOK
  <2>3. unpushed' \in [Branches -> SUBSET Pairs]
    BY <1>1, <1>4, <1>5 DEF RepoTypeOK
  <2>4. active' \in [Repos -> Branches]
    BY <1>1, <1>5 DEF RepoTypeOK
  <2> QED
    BY <1>5, <2>1, <2>2, <2>3, <2>4 DEF RepoTypeOK, remoteVars
<1>9. \A r \in Repos : r \in Branches \ {t}
  BY <1>1 DEF Branches
<1>10. RepoInv'
  BY <1>5, <1>7, <1>9
  DEF RepoInv, RemoteShown, LocalShown, BaseIsRemote, PrimaryExists, Cloned, remoteVars
<1> QED
  BY <1>3, <1>5, <1>6, <1>7, <1>8, <1>10

\* What others do on GitHub leaves the clones as they are.
LEMMA OutsideInv ==
  ASSUME RepoTypeOK, RepoInv, NEW b \in Branches, NEW tree \in Trees,
         NEW E \in SUBSET Files, Outside(b, tree), edited' = edited \cup E
  PROVE  /\ RepoTypeOK' /\ RepoInv'
         /\ \A c \in Branches : shown[c] \subseteq shown'[c]
<1>1. PairsOf(tree) \subseteq Pairs
  BY PairsOfTyped
<1>2. RepoTypeOK'
  BY <1>1 DEF RepoTypeOK, Outside
<1>3. /\ remote'[b] = tree /\ shown'[b] = shown[b] \cup PairsOf(tree)
      /\ behind'[b] = (local[b] # NoTree)
      /\ UNCHANGED <<local, base, unpushed, active>>
      /\ tree # NoTree
  BY RepoAssumption DEF RepoTypeOK, Outside, Trees
<1>4. \A c \in Branches \ {b} :
        remote'[c] = remote[c] /\ shown'[c] = shown[c] /\ behind'[c] = behind[c]
  BY DEF RepoTypeOK, Outside
<1>5. RepoInv'
  BY <1>3, <1>4
  DEF RepoInv, RemoteShown, LocalShown, BaseIsRemote, PrimaryExists, Cloned, Branches
<1> QED
  BY <1>2, <1>3, <1>4, <1>5

LEMMA OutsideEditInv ==
  ASSUME RepoTypeOK, RepoInv, NEW b \in Branches, NEW f \in Files,
         NEW c \in Contents \cup {Absent}, OutsideEdit(b, f, c)
  PROVE  /\ RepoTypeOK' /\ RepoInv'
         /\ \A a \in Branches : shown[a] \subseteq shown'[a]
<1>1. [remote[b] EXCEPT ![f] = c] \in Trees
  BY DEF OutsideEdit, RepoTypeOK, Trees
<1> QED
  BY <1>1, OutsideInv DEF OutsideEdit

LEMMA OutsideMergeInv ==
  ASSUME RepoTypeOK, RepoInv, NEW t \in Topics, NEW f \in Files, OutsideMerge(t, f)
  PROVE  /\ RepoTypeOK' /\ RepoInv'
         /\ \A a \in Branches : shown[a] \subseteq shown'[a]
<1> DEFINE r == Home[t]
           news == {g \in Files : g = f \/ <<g, remote[t][g]>> \notin shown[r]}
           tree == [g \in Files |-> IF g \in news THEN remote[t][g] ELSE remote[r][g]]
<1>1. r \in Repos /\ r \in Branches /\ t \in Branches /\ r # t /\ t \notin Repos
  BY RepoAssumption DEF Branches
<1>2. remote[t] \in Trees /\ remote[r] \in Trees
  BY <1>1 DEF OutsideMerge, RepoTypeOK, RepoInv, PrimaryExists
<1>3. tree \in Trees /\ tree # NoTree
  BY <1>2, RepoAssumption DEF Trees
<1>4. PairsOf(tree) \subseteq Pairs
  BY <1>3, PairsOfTyped
<1>5. /\ edits' = edits + 1
      /\ remote' = [remote EXCEPT ![r] = tree, ![t] = NoTree]
      /\ shown' = [shown EXCEPT ![r] = shown[r] \cup PairsOf(tree)]
      /\ behind' = [behind EXCEPT ![r] = Cloned(r), ![t] = FALSE]
      /\ edited' = edited \cup news
      /\ UNCHANGED <<local, base, unpushed, active>>
  BY DEF OutsideMerge
<1>6. RepoTypeOK'
  <2>1. news \subseteq Files
    OBVIOUS
  <2> HIDE DEF news, tree
  <2>2. remote' \in [Branches -> Trees \cup {NoTree}]
    BY <1>1, <1>3, <1>5 DEF RepoTypeOK
  <2>3. shown' \in [Branches -> SUBSET Pairs]
    BY <1>1, <1>4, <1>5 DEF RepoTypeOK
  <2>4. behind' \in [Branches -> BOOLEAN]
    BY <1>1, <1>5, Zenon DEF RepoTypeOK, Cloned
  <2> QED
    BY <1>5, <2>1, <2>2, <2>3, <2>4 DEF RepoTypeOK
<1>7. remote'[r] = tree /\ remote'[t] = NoTree /\ behind'[r] = Cloned(r)
      /\ shown'[r] = shown[r] \cup PairsOf(tree) /\ shown'[t] = shown[t]
  BY <1>1, <1>5 DEF RepoTypeOK, Cloned
<1>8. \A c \in Branches \ {r, t} :
        remote'[c] = remote[c] /\ shown'[c] = shown[c] /\ behind'[c] = behind[c]
  BY <1>5 DEF RepoTypeOK
<1> HIDE DEF news, tree
<1>9. RemoteShown'
  <2> SUFFICES ASSUME NEW b \in Branches, remote'[b] # NoTree
               PROVE  PairsOf(remote'[b]) \subseteq shown'[b]
    BY DEF RemoteShown
  <2> QED
    BY <1>1, <1>7, <1>8 DEF RepoInv, RemoteShown
<1>10. \A q \in Repos \ {r} : q \in Branches \ {r, t}
  BY <1>1 DEF Branches
<1>11. LocalShown'
  BY <1>1, <1>5, <1>7, <1>8, <1>10 DEF RepoInv, LocalShown, Cloned
<1>12. BaseIsRemote'
  BY <1>1, <1>5, <1>7, <1>8, <1>10 DEF RepoInv, BaseIsRemote, Cloned
<1>13. PrimaryExists'
  BY <1>1, <1>3, <1>7, <1>8, <1>10 DEF RepoInv, PrimaryExists
<1> QED
  BY <1>6, <1>7, <1>8, <1>9, <1>11, <1>12, <1>13 DEF RepoInv
==============================================================================
