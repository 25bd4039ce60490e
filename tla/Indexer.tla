------------------------------- MODULE Indexer -------------------------------
(***************************************************************************)
(* The Indexer: netkan/indexer.py run by the loop of QueueHandler, on the  *)
(* clones of XkanRepo.  It takes inflated metadata from the Outbound       *)
(* queue, commits what changed to the metadata repository of its game (to  *)
(* the primary branch, or to a branch of its own and a pull request when   *)
(* the message is staged) and records each message in the status table.    *)
(*                                                                         *)
(* The deques primary and staged of MessageHandler are the two parts of    *)
(* batch[turn]: both are filled in FIFO order and drained before the next  *)
(* receive.  The metadata repository of game g is g, and the staging       *)
(* branch of file f (add/<stem of the file name>) is f.                    *)
(***************************************************************************)
EXTENDS SqsFifo, XkanRepo

CONSTANTS
  Games, NoGame, Idle, DeletesFail, MaxFaults,  \* as in QueueHandler
  Mods   \* the mods of the status table

ASSUME IndexerAssumption ==
  /\ Repos = Games
  /\ Topics = Files
  /\ NoGame \notin Games /\ Idle \notin Games
  /\ MaxFaults \in Nat /\ DeletesFail \in BOOLEAN

\* The attributes the Inflator gives a message that the Indexer acts on.
ASSUME KindsAssumption ==
  \A k \in Kinds :
    /\ {"game", "mod", "file", "content", "staged", "success"} \subseteq DOMAIN k
    /\ k.mod \in Mods /\ k.file \in Files /\ k.content \in Contents
    /\ k.staged \in BOOLEAN /\ k.success \in BOOLEAN
    /\ k.game \in Games => Home[k.file] = k.game

VARIABLES
  since, batch, todo, turn, processed, faults,  \* as in QueueHandler
  step,      \* where process_messages of the running handler is
  cur,       \* the staged message inside change_branch, or 0
  back,      \* the branch change_branch will return to, or Idle
  indexed,   \* has a message of this pass (or cur) been committed
  dropped,   \* pairs whose push, or pull request, GitHub refused unnoticed
  status,    \* per row, the last message recorded and the last indexed one
  prs,       \* staging branches with an open pull request
  raised,    \* staging branches that ever had one
  unproposed \* those for which the process died before it asked for one

QH == INSTANCE QueueHandler WITH MayRaise <- TRUE

loopVars == <<sqsVars, since, batch, todo, turn, processed, faults>>
stepVars == <<step, cur, back, indexed>>
hubVars == <<prs, raised, unproposed>>
vars == <<loopVars, repoVars, stepVars, hubVars, dropped, status>>

Steps == {"primary", "push", "staged", "merge", "publish", "propose"}

\* The status table has a row for a mod of a game (hash key and range key).
Rows == Mods \X Games

TypeOK ==
  /\ QH!TypeOK
  /\ RepoTypeOK
  /\ step \in Steps
  /\ cur \in Nat
  /\ back \in Branches \cup {Idle}
  /\ indexed \in BOOLEAN
  /\ dropped \subseteq Pairs
  /\ status \in [Rows -> [inflated : Nat, indexed : Nat]]
  /\ prs \subseteq Topics
  /\ raised \subseteq Topics
  /\ unproposed \subseteq Topics

\* The pair that the message at a position asks to publish, and its row.
Pair(i) == <<sent[i].file, sent[i].content>>
Row(i) == <<sent[i].mod, sent[i].game>>

Init ==
  /\ QH!Init
  /\ RepoInit
  /\ step = "primary" /\ cur = 0 /\ back = Idle /\ indexed = FALSE
  /\ dropped = {}
  /\ status = [row \in Rows |-> [inflated |-> 0, indexed |-> 0]]
  /\ prs = {} /\ raised = {} /\ unproposed = {}

\* What the process held when it dies; GitHub, the table and SQS stay.
Lost ==
  /\ LoseClones
  /\ step' = "primary" /\ cur' = 0 /\ back' = Idle /\ indexed' = FALSE
  /\ unproposed' = IF step = "propose" THEN unproposed \cup {sent[cur].file} ELSE unproposed
  /\ UNCHANGED <<prs, raised, dropped, status>>

\* Mutant: the exception is caught and the next handler run.
Restart_Swallowed ==
  /\ turn' = Idle /\ processed' = {}
  /\ step' = "primary" /\ cur' = 0 /\ back' = Idle /\ indexed' = FALSE
  /\ UNCHANGED <<sqsVars, since, batch, todo, faults, repoVars, hubVars, dropped, status>>

Restart == QH!Fresh /\ Lost /\ UNCHANGED <<sqsVars, faults>>

-----------------------------------------------------------------------------
(* CkanMessage.                                                            *)

\* metadata_changed, against the branch checked out now.
Changed(i) == local[active[turn]][sent[i].file] # sent[i].content

\* Mutant: the row is written only for what was indexed.
RecordStatus_IfIndexed(i, wasIndexed) ==
  status' = IF wasIndexed
            THEN [status EXCEPT ![Row(i)] = [inflated |-> i, indexed |-> i]]
            ELSE status

\* The row of the message's mod and game is updated, or made if there is none.
RecordStatus(i, wasIndexed) ==
  status' = [status EXCEPT ![Row(i)] =
               [inflated |-> i, indexed |-> IF wasIndexed THEN i ELSE @.indexed]]

\* Mutant: the deque is taken from the wrong end.
Earliest_Pop(i, S) == i \in S /\ \A j \in S : j <= i

Earliest(i, S) == i \in S /\ \A j \in S : i <= j

\* Mutant: the Staged attribute is not looked at.
Primary_All == batch[turn]

Primary == {i \in batch[turn] : ~sent[i].staged}
Staged == {i \in batch[turn] : sent[i].staged}

-----------------------------------------------------------------------------
(* The loop around the handlers.                                           *)

Send(k) ==
  /\ QH!Send(k)
  /\ UNCHANGED <<repoVars, stepVars, hubVars, dropped, status>>

\* append gives CkanMessage the repository, which is cloned on first use.
Poll(S) ==
  /\ QH!Poll(S)
  /\ CloneAll({g \in Games : since'[g] # 0})
  /\ UNCHANGED <<stepVars, hubVars, dropped, status>>

PollExits(S) == QH!PollExits(S) /\ Lost

\* BaseMessageHandler.__enter__: back to the primary branch, and pull it.
Enter(g) ==
  /\ QH!Enter(g)
  /\ active' = [active EXCEPT ![g] = g]
  /\ Pull(g)
  /\ step' = "primary" /\ indexed' = FALSE
  /\ UNCHANGED <<cur, back, hubVars, dropped, status>>

EnterRaises(g) == QH!Due(g) /\ PullFails(g) /\ Restart

-----------------------------------------------------------------------------
(* MessageHandler.process_messages, the primary queue.                     *)

\* process_ckan of a message that is not staged.
ProcessPrimary(i) ==
  /\ turn # Idle /\ step = "primary"
  /\ Earliest(i, Primary)
  /\ QH!Process(i)
  /\ LET commit == sent[i].success /\ Changed(i)
     IN  /\ IF commit THEN CommitTo(turn, sent[i].file, sent[i].content)
                      ELSE UNCHANGED repoVars
         /\ indexed' = (indexed \/ commit)
         /\ RecordStatus(i, commit)
  /\ UNCHANGED <<step, cur, back, hubVars, dropped>>

PrimaryDone == turn # Idle /\ step = "primary" /\ Primary = {}

\* Mutant: the push may be left out although there are commits.
SkipPush_Always ==
  /\ PrimaryDone
  /\ step' = "staged"
  /\ UNCHANGED <<loopVars, repoVars, cur, back, indexed, hubVars, dropped, status>>

\* Nothing was committed: neither pull nor push.
SkipPush ==
  /\ PrimaryDone /\ ~indexed
  /\ step' = "staged"
  /\ UNCHANGED <<loopVars, repoVars, cur, back, indexed, hubVars, dropped, status>>

PullPrimary ==
  /\ PrimaryDone /\ indexed
  /\ Pull(turn)
  /\ step' = "push"
  /\ UNCHANGED <<loopVars, active, cur, back, indexed, hubVars, dropped, status>>

PullRaises == PrimaryDone /\ indexed /\ PullFails(turn) /\ Restart

\* push_remote_primary does not look at the result of the push.
PushPrimary ==
  /\ turn # Idle /\ step = "push"
  /\ \/ Pushed(turn) /\ UNCHANGED <<active, dropped>>
     \/ /\ ~Accepted(turn)
        /\ dropped' = dropped \cup unpushed[turn]
        /\ UNCHANGED repoVars
  /\ step' = "staged" /\ indexed' = FALSE
  /\ UNCHANGED <<loopVars, cur, back, hubVars, status>>

-----------------------------------------------------------------------------
(* MessageHandler.process_messages, the staged queue.                      *)

NextStaged(i) ==
  turn # Idle /\ step = "staged" /\ cur = 0 /\ Earliest(i, Staged)

ToStage(i) == sent[i].success /\ Changed(i)

\* A staged message with nothing to commit: only its status is recorded.
ProcessStaged(i) ==
  /\ NextStaged(i) /\ ~ToStage(i)
  /\ QH!Process(i)
  /\ RecordStatus(i, FALSE)
  /\ UNCHANGED <<repoVars, stepVars, hubVars, dropped>>

\* change_branch is entered and _process_ckan runs on the staging branch,
\* where the metadata may be the same already.
OpenStaged(i) ==
  /\ NextStaged(i) /\ ToStage(i)
  /\ LET t == sent[i].file
         commit == Start(t)[sent[i].file] # sent[i].content
     IN  /\ OpenTopic(t, IF commit THEN {Pair(i)} ELSE {})
         /\ indexed' = commit
         /\ RecordStatus(i, commit)
  /\ back' = active[turn]
  /\ cur' = i
  /\ step' = "merge"
  /\ UNCHANGED <<loopVars, hubVars, dropped>>

MergeStaged ==
  /\ step = "merge"
  /\ PullTopic(sent[cur].file)
  /\ step' = "publish"
  /\ UNCHANGED <<loopVars, cur, back, indexed, hubVars, dropped, status>>

StagedDone == QH!Process(cur) /\ cur' = 0 /\ step' = "staged" /\ indexed' = FALSE

\* Mutant: no pull request is made.
PublishStaged_NoRequest ==
  /\ step = "publish"
  /\ CloseTopic(sent[cur].file, back)
  /\ StagedDone
  /\ back' = Idle
  /\ UNCHANGED <<hubVars, dropped, status>>

PublishStaged ==
  /\ step = "publish"
  /\ CloseTopic(sent[cur].file, back)
  /\ IF indexed
     THEN step' = "propose" /\ UNCHANGED <<loopVars, cur, indexed>>
     ELSE StagedDone
  /\ back' = Idle
  /\ UNCHANGED <<hubVars, dropped, status>>

PublishRaises == step = "publish" /\ ~Accepted(sent[cur].file) /\ Restart

\* create_pull_request: a second one for the branch becomes a comment.
Propose ==
  /\ step = "propose"
  /\ StagedDone
  /\ prs' = prs \cup {sent[cur].file}
  /\ raised' = raised \cup {sent[cur].file}
  /\ UNCHANGED <<repoVars, back, unproposed, dropped, status>>

\* GitHub refuses it for another reason: an error is logged and that is all.
ProposeFails ==
  /\ step = "propose" /\ sent[cur].file \notin prs
  /\ edits < MaxEdits
  /\ edits' = edits + 1
  /\ StagedDone
  /\ dropped' = dropped \cup {Pair(cur)}
  /\ UNCHANGED <<remote, shown, edited, cloneVars, back, hubVars, status>>

-----------------------------------------------------------------------------
(* The end of the round, faults, and the others.                           *)

AtEnd == step = "staged" /\ cur = 0
Others == <<repoVars, stepVars, hubVars, dropped, status>>

Finish == AtEnd /\ QH!Finish /\ UNCHANGED Others
FinishPartly == AtEnd /\ QH!FinishPartly /\ UNCHANGED Others
Reappear == QH!Reappear /\ UNCHANGED Others
Overrun == QH!Overrun /\ UNCHANGED Others
Crash == QH!Crash /\ Lost

\* People and other services push to the metadata repository.
OthersEdit(b, f, c) ==
  /\ IF b \in Games THEN Home[f] = b ELSE f = b
  /\ OutsideEdit(b, f, c)
  /\ UNCHANGED <<loopVars, stepVars, hubVars, dropped, status>>

OthersMerge(t) ==
  /\ t \in prs
  /\ OutsideMerge(t, t)
  /\ prs' = prs \ {t}
  /\ UNCHANGED <<loopVars, stepVars, raised, unproposed, dropped, status>>

Handle ==
  \/ \E g \in Games : Enter(g) \/ EnterRaises(g)
  \/ \E i \in Ids : ProcessPrimary(i)
  \/ SkipPush
  \/ PullPrimary
  \/ PullRaises
  \/ PushPrimary
  \/ \E i \in Ids : ProcessStaged(i)
  \/ \E i \in Ids : OpenStaged(i)
  \/ MergeStaged
  \/ PublishStaged
  \/ PublishRaises
  \/ Propose
  \/ Finish

Next ==
  \/ \E k \in Kinds : Send(k)
  \/ \E S \in SUBSET Stored : Poll(S)
  \/ \E S \in SUBSET Stored : PollExits(S)
  \/ Handle
  \/ ProposeFails
  \/ FinishPartly
  \/ Reappear
  \/ Overrun
  \/ Crash
  \/ \E b \in Branches, f \in Files, c \in Contents \cup {Absent} : OthersEdit(b, f, c)
  \/ \E t \in Topics : OthersMerge(t)

Spec == Init /\ [][Next]_vars

\* As for QueueHandler: the process takes its steps while it lives.
Fairness ==
  /\ SF_vars(\E S \in SUBSET Stored : FullBatch(S) /\ Poll(S))
  /\ WF_vars(Handle)
  /\ WF_vars(Reappear)

FairSpec == Spec /\ Fairness

-----------------------------------------------------------------------------
(* Properties.                                                             *)

\* The Indexer is a QueueHandler: whatever it does with the repositories, it
\* takes part in the loop only through the steps of QueueHandler.run, so that
\* WorkIsStored, SkippedStays and DeletedInOrder hold of it as well.
LoopSpec == QH!Init /\ [][QH!Next]_loopVars

\* A message is deleted only when its metadata has been on GitHub (on the
\* primary branch of its game or, staged, on its branch), unless GitHub had
\* refused the push that carried it: process_messages pulls and pushes before
\* run deletes, and change_branch pushes before it returns.
Published(i) ==
  LET g == sent[i].game
  IN  \/ Pair(i) \in shown[g] \cup dropped
      \/ sent[i].staged /\ Pair(i) \in shown[sent[i].file]

DeletedIsPublished == \A i \in acked : sent[i].success => Published(i)

\* A push of the Indexer changes nothing on a primary branch but the files it
\* has committed itself: what others pushed since it cloned or last pulled is
\* merged, or the push is refused, and never undone.
OwnChangesOnly(r) ==
  remote'[r] # remote[r] /\ edits' = edits =>
    \A f \in Files : remote'[r][f] # remote[r][f] => <<f, remote'[r][f]>> \in unpushed[r]

PushKeepsOthers == [][\A r \in Repos : OwnChangesOnly(r)]_vars

\* What the Indexer commits to a primary branch was inflated successfully and
\* not staged: change_branch commits a staged file to its own branch only, and
\* always comes back from it before the next message.
PrimaryIsUnstaged ==
  \A g \in Games : \A p \in unpushed[g] :
    \E i \in Ids : Pair(i) = p /\ sent[i].success /\ ~sent[i].staged

\* A staging branch holds one file of its own; whatever else is in it has been
\* on the primary branch, or would be had its push not been refused.
StagedAlone ==
  \A t \in Topics : remote[t] # NoTree =>
    \A f \in Files \ {t} : <<f, remote[t][f]>> \in shown[Home[t]] \cup dropped

\* No message of a configured game is waiting and no handler is at work.
Quiet == QH!Polling /\ \A i \in Stored : ~QH!Good(i)

\* The last message of those in S.
Newest(i, S) == i \in S /\ \A j \in S : j <= i

\* The messages that bring metadata of file f to the primary branch of its game.
Carriers(f) ==
  {j \in Ids : QH!Good(j) /\ sent[j].file = f /\ sent[j].success /\ ~sent[j].staged}

\* Once all is quiet GitHub has what the last message for a file says, however
\* often the messages were delivered: an older content never stays after it
\* was replaced (if no one else changed the file, no push of it was refused
\* and no entry of a delete failed).
QuietIsNewest ==
  Quiet => \A f \in Files \ edited : \A i \in Ids :
    Newest(i, Carriers(f)) /\ Pair(i) \notin dropped => remote[sent[i].game][f] = sent[i].content

\* The messages a row of the status table is about.
About(row) == {j \in Ids : QH!Good(j) /\ Row(j) = row}

\* The row was written last for message i; or, i being unstaged, for the last
\* staged message about it.
Says(row, i) ==
  LET j == status[row].inflated
  IN  \/ j = i
      \/ ~sent[i].staged /\ Newest(j, {k \in About(row) : sent[k].staged})

\* Once all is quiet the row of a mod in a game has the last message about it,
\* however often the messages were delivered, and none of another game's mod of
\* that name; or the last staged one, if the last one of all was not staged
\* (process_messages takes the staged messages of a batch after the others).
QuietIsRecorded ==
  Quiet => \A row \in Rows : \A i \in Ids : Newest(i, About(row)) => Says(row, i)

\* The branch of every staged message that was deleted has had its pull request,
\* whatever was delivered again and wherever the process died, but for a death
\* right between the push and the request (which the redelivered message, finding
\* its metadata on the branch, does not make good); unless its metadata was on the
\* primary branch already, or GitHub refused a push or a pull request for the file.
StagedHasPullRequest ==
  \A i \in acked : sent[i].staged /\ sent[i].success =>
    \/ Pair(i) \in shown[sent[i].game]
    \/ sent[i].file \in raised \cup unproposed
    \/ \E p \in dropped : p[1] = sent[i].file

\* Every message is processed and deleted in the end (where all are of configured
\* games: QueueHandler's GoodIsDeleted says what the others do).
AllIsDeleted == \A i \in 1 .. MaxSent : i \in Ids ~> i \in acked

\* Every successful message reaches GitHub in the end, or GitHub refused it.
AllIsPublished ==
  \A i \in 1 .. MaxSent : (i \in Ids /\ sent[i].success) ~> (i \in Ids /\ Published(i))

\* README.md: if the metadata is different to the existing one, or entirely
\* new, the Indexer pushes it to the metadata repository.
EveryChangeIsPushed ==
  \A i \in acked : sent[i].success /\ ~sent[i].staged => Pair(i) \in shown[sent[i].game]
==============================================================================
