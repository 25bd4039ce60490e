--------------------------- MODULE SpaceDockAdder ---------------------------
(***************************************************************************)
(* The SpaceDock Adder: netkan/spacedock_adder.py run by the loop of       *)
(* QueueHandler, on clones of NetKAN (XkanRepo).  A request to add a mod   *)
(* becomes a .netkan file on a branch of its own and a pull request.       *)
(*                                                                         *)
(* A file stands for an identifier: it is Absent, Frozen (there is only a  *)
(* .frozen file), Edited (a person's version of the .netkan file) or what  *)
(* make_netkan built.  The branch of file f (add/<identifier>) is f.       *)
(***************************************************************************)
EXTENDS SqsFifo, XkanRepo

CONSTANTS
  Games, NoGame, Idle, DeletesFail, MaxFaults,  \* as in QueueHandler
  Frozen,    \* the content of a file that is there as .frozen only
  Edited,    \* the content of a .netkan file written by a person
  Analyses,  \* the properties ModAnalyzer may find, or none when it raises
  Nameless   \* the file of a mod whose name gives no name for a file and a branch

ASSUME AdderAssumption ==
  /\ Repos = Games
  /\ Topics = Files
  /\ Nameless \notin Files
  /\ NoGame \notin Games /\ Idle \notin Games
  /\ MaxFaults \in Nat /\ DeletesFail \in BOOLEAN

\* What make_netkan can build: is there a section for GitHub, and the properties.
Built == [github : BOOLEAN, props : Analyses]

\* A request: the mod's game and identifier, where its source link leads (one that
\* is malformed cannot be taken apart), and its text for the pull request (GitHub
\* refuses one that is too long; there is none if _pr_body cannot write it).
ASSUME KindsAssumption ==
  /\ Contents = Built \cup {Frozen, Edited}
  /\ \A k \in Kinds :
       /\ {"game", "file", "link", "body"} \subseteq DOMAIN k
       /\ k.file \in Files \cup {Nameless}
       /\ k.link \in {"github", "elsewhere", "malformed"}
       /\ k.body \in {"fits", "long", "none"}
       /\ k.game \in Games /\ k.file \in Files => Home[k.file] = k.game

VARIABLES
  since, batch, todo, turn, processed, faults,  \* as in QueueHandler
  step,      \* where try_add of the running handler is
  cur,       \* the request inside try_add, or 0
  back,      \* the branch change_branch will return to, or Idle
  prs,       \* branches with an open pull request
  raised,    \* branches that ever had one
  refused    \* branches for which GitHub refused one that was not there

QH == INSTANCE QueueHandler WITH MayRaise <- TRUE

loopVars == <<sqsVars, since, batch, todo, turn, processed, faults>>
stepVars == <<step, cur, back>>
hubVars == <<prs, raised, refused>>
vars == <<loopVars, repoVars, stepVars, hubVars>>

TypeOK ==
  /\ QH!TypeOK
  /\ RepoTypeOK
  /\ step \in {"next", "merge", "publish", "propose"}
  /\ cur \in Nat
  /\ back \in Branches \cup {Idle}
  /\ prs \subseteq Topics /\ raised \subseteq Topics /\ refused \subseteq Topics

Init ==
  /\ QH!Init
  /\ RepoInit
  /\ step = "next" /\ cur = 0 /\ back = Idle
  /\ prs = {} /\ raised = {} /\ refused = {}

\* What the process held when it dies.
Lost == LoseClones /\ step' = "next" /\ cur' = 0 /\ back' = Idle /\ UNCHANGED hubVars

\* Mutant: the exception is caught, and the loop goes on.
Restart_Swallowed ==
  /\ turn' = Idle /\ processed' = {}
  /\ step' = "next" /\ cur' = 0 /\ back' = Idle
  /\ UNCHANGED <<sqsVars, since, batch, todo, faults, repoVars, hubVars>>

Restart == QH!Fresh /\ Lost /\ UNCHANGED <<sqsVars, faults>>

-----------------------------------------------------------------------------
(* The loop around the handlers.                                           *)

\* The hook of SpaceDock (add_hook).  Its deduplication id is the hash of the
\* request, so the same request comes twice only some minutes apart.
AddHook(k) == QH!Send(k) /\ UNCHANGED <<repoVars, stepVars, hubVars>>

Poll(S) ==
  /\ QH!Poll(S)
  /\ CloneAll({g \in Games : since'[g] # 0})
  /\ UNCHANGED <<stepVars, hubVars>>

PollExits(S) == QH!PollExits(S) /\ Lost

Enter(g) ==
  /\ QH!Enter(g)
  /\ active' = [active EXCEPT ![g] = g]
  /\ Pull(g)
  /\ UNCHANGED <<stepVars, hubVars>>

-----------------------------------------------------------------------------
(* try_add.                                                                *)

\* make_netkan, of a link that can be taken apart.  GitHub may not know the
\* repository or have no release of it, and ModAnalyzer may raise: both are logged
\* and their result left out.
Netkans(k) == {b \in Built : b.github => k.link = "github"}

NextRequest(i) ==
  turn # Idle /\ step = "next" /\ i \in batch[turn] /\ \A j \in batch[turn] : i <= j

\* The request does not end the process before a file is looked for or written:
\* urlparse takes the link, and a branch add/<identifier> can be.
Addable(i) == sent[i].link # "malformed" /\ sent[i].file # Nameless

\* Mutant: frozen mods are not looked for.
Listed_Unfrozen(f) == local[active[turn]][f] \notin {Absent, Frozen}

\* There is a .netkan or a .frozen file for the mod in the clone.
Listed(f) == local[active[turn]][f] # Absent

AlreadyListed(i) ==
  /\ NextRequest(i)
  /\ Addable(i) /\ Listed(sent[i].file)
  /\ QH!Process(i)
  /\ UNCHANGED <<repoVars, stepVars, hubVars>>

\* The branch is checked out, the file written and committed, the branch being
\* there from an earlier delivery or not.
Write(i) == \E b \in Netkans(sent[i]) : OpenTopic(sent[i].file, {<<sent[i].file, b>>})

\* Mutant: a branch that is on GitHub is taken for a request that was answered.
Add_IfNoBranch(i) ==
  /\ NextRequest(i)
  /\ Addable(i) /\ ~Listed(sent[i].file)
  /\ IF remote[sent[i].file] = NoTree
     THEN /\ Write(i) /\ back' = active[turn] /\ cur' = i /\ step' = "merge"
          /\ UNCHANGED loopVars
     ELSE QH!Process(i) /\ UNCHANGED <<repoVars, stepVars>>
  /\ UNCHANGED hubVars

Add(i) ==
  /\ NextRequest(i)
  /\ Addable(i) /\ ~Listed(sent[i].file)
  /\ Write(i)
  /\ back' = active[turn]
  /\ cur' = i
  /\ step' = "merge"
  /\ UNCHANGED <<loopVars, hubVars>>

AddRaises(i) == NextRequest(i) /\ ~Addable(i) /\ Restart

Merge ==
  /\ step = "merge"
  /\ PullTopic(sent[cur].file)
  /\ step' = "publish"
  /\ UNCHANGED <<loopVars, cur, back, hubVars>>

\* Mutant: the branch is pushed to the primary one as well.
Publish_ToPrimary ==
  /\ step = "publish" /\ ~behind[turn]
  /\ remote' = [remote EXCEPT ![sent[cur].file] = local[sent[cur].file],
                              ![turn] = local[sent[cur].file]]
  /\ active' = [active EXCEPT ![turn] = back]
  /\ step' = "propose" /\ back' = Idle
  /\ UNCHANGED <<loopVars, shown, edited, edits, local, base, behind, unpushed, cur, hubVars>>

Publish ==
  /\ step = "publish"
  /\ CloseTopic(sent[cur].file, back)
  /\ step' = "propose"
  /\ back' = Idle
  /\ UNCHANGED <<loopVars, cur, hubVars>>

PublishRaises == step = "publish" /\ ~Accepted(sent[cur].file) /\ Restart

\* Mutant: try_add does not return True.
Added_None ==
  /\ batch' = [batch EXCEPT ![turn] = @ \ {cur}]
  /\ UNCHANGED <<sqsVars, since, todo, turn, faults, processed>>
  /\ cur' = 0 /\ step' = "next"

Added == QH!Process(cur) /\ cur' = 0 /\ step' = "next"

\* create_pull_request: a second one for a branch becomes a comment.
Propose ==
  /\ step = "propose" /\ sent[cur].body = "fits"
  /\ Added
  /\ prs' = prs \cup {sent[cur].file}
  /\ raised' = raised \cup {sent[cur].file}
  /\ UNCHANGED <<repoVars, back, refused>>

\* GitHub refuses it: an error is logged, and there is none to comment on.
Refuse == Added /\ refused' = refused \cup {sent[cur].file}

ProposeTooLong ==
  /\ step = "propose" /\ sent[cur].body = "long" /\ sent[cur].file \notin prs
  /\ Refuse
  /\ UNCHANGED <<repoVars, back, prs, raised>>

\* _pr_body logs the request and raises, the branch being pushed; or GitHub will
\* not have the comment either, which is made where the refusal is handled.
ProposeRaises ==
  /\ step = "propose"
  /\ \/ sent[cur].body = "none"
     \/ sent[cur].body = "long" /\ sent[cur].file \in prs
  /\ Restart

\* GitHub refuses it for a reason of its own.
ProposeFails ==
  /\ step = "propose" /\ sent[cur].body # "none" /\ sent[cur].file \notin prs
  /\ edits < MaxEdits
  /\ edits' = edits + 1
  /\ Refuse
  /\ UNCHANGED <<remote, shown, edited, cloneVars, back, prs, raised>>

-----------------------------------------------------------------------------
(* The end of the round, faults, and the others.                           *)

AtEnd == step = "next" /\ cur = 0
Others == <<repoVars, stepVars, hubVars>>

Finish == AtEnd /\ QH!Finish /\ UNCHANGED Others
FinishPartly == AtEnd /\ QH!FinishPartly /\ UNCHANGED Others
Reappear == QH!Reappear /\ UNCHANGED Others
Overrun == QH!Overrun /\ UNCHANGED Others
Crash == QH!Crash /\ Lost

\* People add, freeze and remove mods, and improve the branch of a request.
OthersEdit(b, f, c) ==
  /\ IF b \in Games THEN Home[f] = b ELSE f = b /\ c = Edited
  /\ OutsideEdit(b, f, c)
  /\ UNCHANGED <<loopVars, stepVars, hubVars>>

OthersMerge(t) ==
  /\ t \in prs
  /\ OutsideMerge(t, t)
  /\ prs' = prs \ {t}
  /\ UNCHANGED <<loopVars, stepVars, raised, refused>>

Handle ==
  \/ \E g \in Games : Enter(g)
  \/ \E i \in Ids : AlreadyListed(i)
  \/ \E i \in Ids : Add(i)
  \/ \E i \in Ids : AddRaises(i)
  \/ Merge
  \/ Publish
  \/ PublishRaises
  \/ Propose
  \/ ProposeTooLong
  \/ ProposeRaises
  \/ Finish

Next ==
  \/ \E k \in Kinds : AddHook(k)
  \/ \E S \in SUBSET Stored : Poll(S)
  \/ \E S \in SUBSET Stored : PollExits(S)
  \/ Handle
  \/ ProposeFails
  \/ FinishPartly
  \/ Reappear
  \/ Overrun
  \/ Crash
  \/ \E b \in Branches, f \in Files, c \in {Absent, Frozen, Edited} : OthersEdit(b, f, c)
  \/ \E t \in Topics : OthersMerge(t)

Spec == Init /\ [][Next]_vars

\* As for the Indexer.
Fairness ==
  /\ SF_vars(\E S \in SUBSET Stored : FullBatch(S) /\ Poll(S))
  /\ WF_vars(Handle)
  /\ WF_vars(Reappear)

FairSpec == Spec /\ Fairness

-----------------------------------------------------------------------------
(* Properties.                                                             *)

\* The Adder takes part in the loop only through the steps of QueueHandler.run.
LoopSpec == QH!Init /\ [][QH!Next]_loopVars

\* Someone has decided about the mod of request i: it is, or was, in NetKAN, or
\* a pull request was made for it, or GitHub refused one.
Answered(i) ==
  LET f == sent[i].file
  IN  \/ \E c \in Contents : <<f, c>> \in shown[sent[i].game]
      \/ f \in raised \cup refused

\* A request is deleted only when it was answered, whatever died, and however
\* often it was delivered: try_add makes the pull request each time, also when
\* the branch is there from a delivery that died before it.
DeletedIsAnswered == \A i \in acked : Answered(i)

\* A branch holds the file of one mod; whatever else is in it was in NetKAN
\* (each branch starts from the primary one, which change_branch returns to).
AddedAlone ==
  \A t \in Topics : remote[t] # NoTree =>
    \A f \in Files \ {t} : <<f, remote[t][f]>> \in shown[Home[t]]

\* The Adder only proposes: the primary branch of NetKAN changes by the hands of
\* others alone.
OnlyProposes == [][\A r \in Repos : remote'[r] # remote[r] => edits' # edits]_vars

\* A branch the Adder pushes holds no mod that was frozen in its clone.
FrozenStays ==
  [][\A t \in Topics :
       remote'[t] # remote[t] /\ edits' = edits => local[Home[t]][t] # Frozen]_vars

\* A request that ends the process each time it is delivered: its link cannot be
\* taken apart, or it has no identifier; or its mod is in NetKAN neither as
\* .netkan nor as .frozen, and there is no text for its pull request, or one too
\* long for a comment on the pull request that is open.
Ends(j) ==
  LET f == sent[j].file
  IN  \/ ~Addable(j)
      \/ /\ remote[sent[j].game][f] = Absent
         /\ \/ sent[j].body = "none"
            \/ sent[j].body = "long" /\ f \in prs

\* Every request of a configured game is answered and deleted in the end, unless
\* one that ends the process each time is among those stored (the ones behind it
\* are never reached), or one of a game that is not configured.
EveryRequestAnswered ==
  \A i \in 1 .. MaxSent :
    i \in Ids /\ QH!Good(i) ~>
      \/ i \in acked /\ Answered(i)
      \/ \E j \in Stored : ~QH!Good(j) \/ Ends(j)

-----------------------------------------------------------------------------
(* The inductive invariant behind the safety properties.                   *)

InTopic == step \in {"merge", "publish"}

\* A handler that exists has its clone.
HandlersCloned ==
  /\ \A g \in todo : since[g] # 0
  /\ turn # Idle => since[turn] # 0
  /\ \A g \in Games : since[g] # 0 => Cloned(g)

\* What a handler works on, or has dealt with, are requests of its game.
OwnRequests ==
  /\ \A g \in Games : \A i \in batch[g] : i \in Ids /\ sent[i].game = g
  /\ \A i \in processed : i \in Ids /\ turn # Idle /\ sent[i].game = turn

\* Outside of change_branch the primary branch is checked out; inside it is the
\* one to come back to, and the mod that is added is not in it.
Position ==
  /\ turn = Idle => step = "next"
  /\ step # "next" => cur \in batch[turn] /\ sent[cur].file # Nameless
  /\ InTopic => /\ back = turn /\ local[sent[cur].file] # NoTree
                /\ local[turn][sent[cur].file] = Absent
  /\ turn # Idle /\ ~InTopic => active[turn] = turn

\* The clone of a primary branch has no commits of its own.
NothingOwn == \A g \in Games : unpushed[g] = {}

\* Whatever is on a branch besides its own file was in NetKAN, in the clone too.
CloneAlone ==
  \A t \in Topics : local[t] # NoTree =>
    \A f \in Files \ {t} : <<f, local[t][f]>> \in shown[Home[t]]

DealtWith == \A i \in processed : Answered(i)

Shape == TypeOK /\ RepoInv /\ HandlersCloned /\ OwnRequests /\ Position

Kept ==
  /\ NothingOwn /\ CloneAlone /\ AddedAlone
  /\ DealtWith /\ DeletedIsAnswered /\ QH!SkippedStays

AdderInv == Shape /\ Kept
==============================================================================
