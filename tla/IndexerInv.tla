----------------------------- MODULE IndexerInv -----------------------------
(***************************************************************************)
(* The inductive invariant behind the safety properties of the Indexer,    *)
(* in the parts the proofs of IndexerProofs take one by one.               *)
(***************************************************************************)
EXTENDS Indexer

\* Where the handler is in change_branch, if it is there at all.
InTopic == step \in {"merge", "publish"}
OnCur == step \in {"merge", "publish", "propose"}

\* A handler that exists has its clone.
HandlersCloned ==
  /\ \A g \in todo : since[g] # 0
  /\ turn # Idle => since[turn] # 0
  /\ \A g \in Games : since[g] # 0 => Cloned(g)

\* What a handler works on, or has dealt with, are messages of its game.
OwnMessages ==
  /\ \A g \in Games : \A i \in batch[g] : i \in Ids /\ sent[i].game = g
  /\ \A i \in processed : i \in Ids /\ turn # Idle /\ sent[i].game = turn
  /\ \A i \in acked : i \in Ids /\ sent[i].game \in Games

\* Outside of change_branch the primary branch is checked out, and inside it
\* is the one to come back to.
Position ==
  /\ turn = Idle => step \in {"primary", "staged"}
  /\ OnCur => cur \in batch[turn] /\ sent[cur].staged /\ sent[cur].success
  /\ InTopic => back = turn /\ local[sent[cur].file] # NoTree
  /\ turn # Idle /\ ~InTopic => active[turn] = turn

Flow == HandlersCloned /\ OwnMessages /\ Position

\* Outside of change_branch a staging branch of the clone holds nothing that
\* was not on GitHub.
TopicShown ==
  \A t \in Topics :
    local[t] # NoTree /\ ~(InTopic /\ sent[cur].file = t) =>
      PairsOf(local[t]) \subseteq shown[t]

\* Commits to a primary branch that are not on GitHub were in a refused push,
\* unless the push that will take them is still to come in this pass.
Owing(r) == turn = r /\ (step = "push" \/ (step = "primary" /\ indexed))

UnpushedDropped == \A r \in Repos : ~Owing(r) => unpushed[r] \subseteq dropped

\* A processed message has been published, or will be by that push.
ProcessedKept ==
  \A i \in processed : sent[i].success =>
    IF step \in {"primary", "push"}
    THEN Pair(i) \in shown[turn] \cup dropped \cup unpushed[turn]
    ELSE Published(i)

\* The staged message inside change_branch is in the history of its branch.
CurKept ==
  OnCur => LET t == sent[cur].file
           IN  IF step = "propose" THEN Pair(cur) \in shown[t]
               ELSE Pair(cur) \in shown[t] \cup unpushed[t]

Content ==
  /\ TopicShown
  /\ UnpushedDropped
  /\ ProcessedKept
  /\ CurKept

\* In the clone, too, a staging branch has one file of its own.
CloneAlone ==
  \A t \in Topics : local[t] # NoTree =>
    \A f \in Files \ {t} : <<f, local[t][f]>> \in shown[Home[t]] \cup dropped

Apart == PrimaryIsUnstaged /\ StagedAlone /\ CloneAlone

-----------------------------------------------------------------------------
(* Pull requests.                                                          *)

\* A staging branch is on GitHub only with its pull request, or while the handler
\* is about to ask for one; in the clone it may come before both.
Requested(t) == t \in raised \cup unproposed \/ \E p \in dropped : p[1] = t

TopicRequested ==
  \A t \in Topics :
    /\ remote[t] # NoTree => Requested(t) \/ (step = "propose" /\ sent[cur].file = t)
    /\ local[t] # NoTree => Requested(t) \/ (OnCur /\ indexed /\ sent[cur].file = t)

HasRequest(i) ==
  sent[i].staged /\ sent[i].success =>
    Pair(i) \in shown[sent[i].game] \/ Requested(sent[i].file)

ProcessedRequested == \A i \in processed : HasRequest(i)

Asked == TopicRequested /\ ProcessedRequested /\ StagedHasPullRequest

-----------------------------------------------------------------------------
(* The last message.                                                       *)

\* Work is taken from what is stored, and deleted in order.
Ordered ==
  /\ QH!WorkIsStored /\ QH!FlightIsPrefix /\ QH!FlightIsHeld
  /\ ~DeletesFail => QH!DeletedInOrder

\* A handler takes the staged messages in their order, and the others in theirs.
InTurn ==
  /\ turn # Idle => \A i \in processed, j \in batch[turn] : sent[i].staged = sent[j].staged => i < j
  /\ OnCur => Earliest(cur, Staged)

\* Of a file nobody else has changed, the clone knows what GitHub has, and has
\* itself what the message processed last says.
BaseKnown == \A g \in Games : Cloned(g) => \A f \in Files \ edited : base[g][f] = remote[g][f]

LastInClone ==
  turn # Idle => \A f \in Files \ edited : \A i \in Ids :
    Newest(i, Carriers(f) \cap processed) => local[turn][f] = sent[i].content

LastOnGitHub ==
  ~DeletesFail => \A f \in Files \ edited : \A i \in acked :
    Newest(i, Carriers(f)) /\ Pair(i) \notin dropped =>
      LET g == sent[i].game
      IN  remote[g][f] = sent[i].content /\ (Cloned(g) => local[g][f] = sent[i].content)

Uptodate == InTurn /\ BaseKnown /\ LastInClone /\ LastOnGitHub

\* The table has the message processed last, the one in change_branch included.
Handled == IF OnCur THEN processed \cup {cur} ELSE processed

\* Of the messages in S a pass handles i last: the staged ones behind the others.
Last(i, S) ==
  i \in S /\ \A j \in S : IF sent[i].staged = sent[j].staged THEN j <= i ELSE sent[i].staged

PrimaryFirst == step \in {"primary", "push"} => \A i \in processed : ~sent[i].staged

LastRecorded ==
  \A row \in Rows :
    LET S == About(row) \cap Handled
    IN  S # {} => Last(status[row].inflated, S)

LastStays ==
  ~DeletesFail => \A row \in Rows : \A i \in acked :
    Newest(i, About(row)) => Says(row, i)

Recorded == PrimaryFirst /\ LastRecorded /\ LastStays

Shape == TypeOK /\ Flow /\ RepoInv

IInv ==
  /\ Shape /\ Content /\ DeletedIsPublished
  /\ Apart /\ Asked /\ Ordered /\ Uptodate /\ Recorded
==============================================================================
