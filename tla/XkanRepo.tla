------------------------------ MODULE XkanRepo ------------------------------
(***************************************************************************)
(* XkanRepo of netkan/repos.py: the clones one service process keeps (one  *)
(* per repository) and the repositories on GitHub they pull from and push  *)
(* to.  A branch is a tree, a function from files to contents; a merge is  *)
(* taken file by file (git does it hunk by hunk).  The primary branch of   *)
(* repository r is named r, a topic branch by what it is for.              *)
(*                                                                         *)
(* Each operation is one step of one process; others push to the same      *)
(* branches in between (Outside...), people and other services alike.      *)
(***************************************************************************)
EXTENDS Naturals, FiniteSets

CONSTANTS
  Repos,     \* the repositories, and their primary branches
  Topics,    \* the topic branches
  Home,      \* Home[t]: the repository topic branch t belongs to
  Files,     \* the files
  Contents,  \* what a file can hold
  Absent,    \* a file that is not there
  NoTree,    \* a branch that is not there
  MaxEdits   \* bound on what happens on GitHub behind the process's back

ASSUME RepoAssumption ==
  /\ Repos \cap Topics = {}
  /\ Home \in [Topics -> Repos]
  /\ Absent \notin Contents
  /\ NoTree \notin [Files -> Contents \cup {Absent}]
  /\ MaxEdits \in Nat

VARIABLES
  remote,    \* remote[b]: the tree of branch b on GitHub, or NoTree
  shown,     \* shown[b]: the <<file, content>> pairs b ever had on GitHub
  edited,    \* the files others have changed on GitHub
  edits,     \* how often they did
  local,     \* local[b]: the tree of branch b in the clone, or NoTree
  base,      \* base[b]: the merge base of local[b] and remote[b]
  behind,    \* behind[b]: b has commits on GitHub that the clone lacks
  unpushed,  \* unpushed[b]: pairs committed to b in the clone but not pushed
  active     \* active[r]: the branch checked out in the clone of r

remoteVars == <<remote, shown, edited, edits>>
cloneVars == <<local, base, behind, unpushed, active>>
repoVars == <<remoteVars, cloneVars>>

Branches == Repos \cup Topics
Trees == [Files -> Contents \cup {Absent}]
Pairs == Files \X (Contents \cup {Absent})
Empty == [f \in Files |-> Absent]

PairsOf(tree) == {<<f, tree[f]>> : f \in Files}

RepoTypeOK ==
  /\ remote \in [Branches -> Trees \cup {NoTree}]
  /\ shown \in [Branches -> SUBSET Pairs]
  /\ edited \subseteq Files
  /\ edits \in Nat
  /\ local \in [Branches -> Trees \cup {NoTree}]
  /\ base \in [Branches -> Trees \cup {NoTree}]
  /\ behind \in [Branches -> BOOLEAN]
  /\ unpushed \in [Branches -> SUBSET Pairs]
  /\ active \in [Repos -> Branches]

RepoInit ==
  /\ remote = [b \in Branches |-> IF b \in Repos THEN Empty ELSE NoTree]
  /\ shown = [b \in Branches |-> IF b \in Repos THEN PairsOf(Empty) ELSE {}]
  /\ edited = {}
  /\ edits = 0
  /\ local = [b \in Branches |-> NoTree]
  /\ base = [b \in Branches |-> NoTree]
  /\ behind = [b \in Branches |-> FALSE]
  /\ unpushed = [b \in Branches |-> {}]
  /\ active = [r \in Repos |-> r]

Cloned(r) == local[r] # NoTree

-----------------------------------------------------------------------------
(* Cloning: init_repo clones a repository that is not on the disk yet.     *)

CloneAll(R) ==
  LET new == {r \in R : ~Cloned(r)}
  IN  /\ local' = [b \in Branches |-> IF b \in new THEN remote[b] ELSE local[b]]
      /\ base' = [b \in Branches |-> IF b \in new THEN remote[b] ELSE base[b]]
      /\ UNCHANGED <<behind, unpushed, active, remoteVars>>

\* Mutant: the clones survive the container.
LoseClones_Kept == UNCHANGED repoVars

\* The container, and the clones in its /tmp with it, is gone.
LoseClones ==
  /\ local' = [b \in Branches |-> NoTree]
  /\ base' = [b \in Branches |-> NoTree]
  /\ behind' = [b \in Branches |-> FALSE]
  /\ unpushed' = [b \in Branches |-> {}]
  /\ active' = [r \in Repos |-> r]
  /\ UNCHANGED remoteVars

-----------------------------------------------------------------------------
(* Pull and push.                                                          *)

\* git pull -X ours: what only one side changed is taken from that side, what
\* both changed from ours.
MergeOurs(anc, ours, theirs) ==
  [f \in Files |-> IF ours[f] = anc[f] THEN theirs[f] ELSE ours[f]]

\* A file one side changed and the other deleted is a conflict all the same.
Conflicts(anc, ours, theirs) ==
  \E f \in Files : /\ ours[f] # anc[f] /\ theirs[f] # anc[f] /\ ours[f] # theirs[f]
                   /\ Absent \in {ours[f], theirs[f]}

Mergeable(b) == remote[b] # NoTree /\ ~Conflicts(base[b], local[b], remote[b])
PullFails(b) == ~Mergeable(b)

\* Mutant: the merge is no merge commit, the merge base stays what it was.
Pull_KeepsBase(b) ==
  /\ Mergeable(b)
  /\ local' = [local EXCEPT ![b] = MergeOurs(base[b], local[b], remote[b])]
  /\ behind' = [behind EXCEPT ![b] = FALSE]
  /\ UNCHANGED <<base, unpushed, remoteVars>>

\* The remote branch b is merged into the branch of the same name.
Pull(b) ==
  /\ Mergeable(b)
  /\ local' = [local EXCEPT ![b] = MergeOurs(base[b], local[b], remote[b])]
  /\ base' = [base EXCEPT ![b] = remote[b]]
  /\ behind' = [behind EXCEPT ![b] = FALSE]
  /\ UNCHANGED <<unpushed, remoteVars>>

\* Mutant: the push is forced.
Accepted_Forced(b) == TRUE

\* A push is accepted when it is a fast-forward of the remote branch.
Accepted(b) == ~behind[b]

Pushed(b) ==
  /\ Accepted(b)
  /\ remote' = [remote EXCEPT ![b] = local[b]]
  /\ shown' = [shown EXCEPT ![b] = @ \cup unpushed[b] \cup PairsOf(local[b])]
  /\ base' = [base EXCEPT ![b] = local[b]]
  /\ unpushed' = [unpushed EXCEPT ![b] = {}]
  /\ UNCHANGED <<edited, edits, local, behind>>

-----------------------------------------------------------------------------
(* Commits.                                                                *)

\* Write file f with content c and commit it to the branch checked out in r.
CommitTo(r, f, c) ==
  LET b == active[r]
  IN  /\ local' = [local EXCEPT ![b] = [@ EXCEPT ![f] = c]]
      /\ unpushed' = [unpushed EXCEPT ![b] = @ \cup {<<f, c>>}]
      /\ UNCHANGED <<base, behind, active, remoteVars>>

\* change_branch up to its yield: an existing local head is checked out as it
\* is; otherwise one is made from the remote branch, and when there is none
\* from what is checked out, commits that were never pushed included.
Start(t) ==
  CASE local[t] # NoTree -> local[t]
    [] local[t] = NoTree /\ remote[t] # NoTree -> remote[t]
    [] OTHER -> local[active[Home[t]]]

StartUnpushed(t) ==
  IF local[t] = NoTree /\ remote[t] = NoTree
  THEN unpushed[active[Home[t]]] ELSE unpushed[t]

\* ... and the commit of C, a set of pairs with at most one per file, in it.
OpenTopic(t, C) ==
  LET tree == [f \in Files |-> IF \E c \in Contents : <<f, c>> \in C
                               THEN CHOOSE c \in Contents : <<f, c>> \in C
                               ELSE Start(t)[f]]
  IN  /\ local' = [local EXCEPT ![t] = tree]
      /\ base' = [base EXCEPT ![t] = IF local[t] # NoTree THEN @ ELSE Start(t)]
      /\ unpushed' = [unpushed EXCEPT ![t] = StartUnpushed(t) \cup C]
      /\ active' = [active EXCEPT ![Home[t]] = t]
      /\ UNCHANGED <<behind, remoteVars>>

\* The pull on the way out of change_branch; a GitCommandError is ignored.
PullTopic(t) ==
  /\ Pull(t) \/ (PullFails(t) /\ UNCHANGED <<local, base, behind, unpushed, remoteVars>>)
  /\ UNCHANGED active

\* Mutants: the staging branch stays checked out; it is not pushed.
CloseTopic_Stays(t, back) == Pushed(t) /\ UNCHANGED active

CloseTopic_NoPush(t, back) ==
  /\ active' = [active EXCEPT ![Home[t]] = back]
  /\ UNCHANGED <<remoteVars, local, base, behind, unpushed>>

\* The push on the way out, which raises when it is rejected, and the return
\* to the branch that was checked out before.
CloseTopic(t, back) ==
  /\ Pushed(t)
  /\ active' = [active EXCEPT ![Home[t]] = back]

-----------------------------------------------------------------------------
(* What others do on GitHub.                                               *)

Outside(b, tree) ==
  /\ edits < MaxEdits
  /\ edits' = edits + 1
  /\ remote' = [remote EXCEPT ![b] = tree]
  /\ shown' = [shown EXCEPT ![b] = @ \cup PairsOf(tree)]
  /\ behind' = [behind EXCEPT ![b] = local[b] # NoTree]
  /\ UNCHANGED <<local, base, unpushed, active>>

\* Someone else pushes a change of file f (or its removal) to branch b.
OutsideEdit(b, f, c) ==
  /\ remote[b] # NoTree
  /\ remote[b][f] # c
  /\ Outside(b, [remote[b] EXCEPT ![f] = c])
  /\ edited' = edited \cup {f}

\* A pull request for t is merged and its branch deleted: the primary branch
\* gets the file the branch is about and every pair it never had before.
OutsideMerge(t, f) ==
  LET r == Home[t]
      news == {g \in Files : g = f \/ <<g, remote[t][g]>> \notin shown[r]}
      tree == [g \in Files |-> IF g \in news THEN remote[t][g] ELSE remote[r][g]]
  IN  /\ remote[t] # NoTree
      /\ edits < MaxEdits
      /\ edits' = edits + 1
      /\ remote' = [remote EXCEPT ![r] = tree, ![t] = NoTree]
      /\ shown' = [shown EXCEPT ![r] = @ \cup PairsOf(tree)]
      /\ behind' = [behind EXCEPT ![r] = Cloned(r), ![t] = FALSE]
      /\ edited' = edited \cup news
      /\ UNCHANGED <<local, base, unpushed, active>>

-----------------------------------------------------------------------------
(* What the operations preserve, whoever uses them.                        *)

\* What a branch on GitHub holds has been in its history, and what the primary
\* branch of a clone holds has been there or was committed in the clone.
RemoteShown ==
  \A b \in Branches : remote[b] # NoTree => PairsOf(remote[b]) \subseteq shown[b]

LocalShown ==
  \A r \in Repos : Cloned(r) => PairsOf(local[r]) \subseteq shown[r] \cup unpushed[r]

\* The merge base is GitHub's tree unless GitHub has moved on, and a file that
\* differs from it holds what the clone committed.
BaseIsRemote ==
  \A r \in Repos : Cloned(r) =>
    /\ ~behind[r] => base[r] = remote[r]
    /\ \A f \in Files : local[r][f] # base[r][f] => <<f, local[r][f]>> \in unpushed[r]

\* A primary branch is always there on GitHub.
PrimaryExists == \A r \in Repos : remote[r] # NoTree

RepoInv == RemoteShown /\ LocalShown /\ BaseIsRemote /\ PrimaryExists
==============================================================================
