------------------------------ MODULE Inflation ------------------------------
(***************************************************************************)
(* What is to be inflated: the two scheduled tasks (netkan/scheduler.py)   *)
(* and the webhooks for new releases and commits (netkan/webhooks) read    *)
(* .netkan files from their clones of NetKAN and send them in batches to   *)
(* the inflation queue of the game, which an Inflator empties.             *)
(*                                                                         *)
(* A mod has a file in the NetKAN of its game, or none (Absent).  Of its   *)
(* content the senders see whether only a hook announces its releases, and *)
(* whether it can be read at all.  The highest versions sent along, and    *)
(* the random ids of messages, are data.                                   *)
(***************************************************************************)
EXTENDS Integers, FiniteSets, Sequences, FiniteSetsExt, SequencesExt

CONSTANTS
  Games,      \* game_ids, in their order
  Listing,    \* Listing[g]: the mods of game g, in the order of all_nk_paths
  HookOnly, Polled,  \* contents by what hook_only says of them
  Odd,        \* contents with a $kref that has not the right form
  Garbled,    \* contents that are no YAML
  Absent,
  Worlds,     \* the files there may be at first
  BatchSize,  \* of sqs_batch_entries
  ReceiveSize, \* of an Inflator
  MaxQueued,  \* the option of each task
  Requests,   \* the identifiers a request to the webhooks may have
  MaxRequest, \* how many those are at most
  Edits,      \* what people may write: mods and contents
  Off,
  MaxEvents   \* bound on edits, requests and failures

Tasks == {"nonhooks", "webhooks"}
Contents == HookOnly \cup Polled \cup Odd \cup Garbled
GameIds == ToSet(Games)
Mods == UNION {ToSet(Listing[g]) : g \in GameIds}

\* A path is listed once, and a content is of one kind.
ASSUME InflationAssumption ==
  /\ Absent \notin Contents /\ Off \notin GameIds \cup {"204"}
  /\ HookOnly \cap Polled = {} /\ (HookOnly \cup Polled) \cap (Odd \cup Garbled) = {}
  /\ Games \in Seq(GameIds) \ {<<>>} /\ Listing \in [GameIds -> Seq(Mods)]
  /\ \A g \in GameIds : \A i, j \in DOMAIN Listing[g] : Listing[g][i] = Listing[g][j] => i = j
  /\ \A m \in Mods : Cardinality({g \in GameIds : m \in ToSet(Listing[g])}) = 1
  /\ Worlds \subseteq [Mods -> Contents \cup {Absent}]
  /\ BatchSize \in Nat \ {0} /\ ReceiveSize \in Nat \ {0}
  /\ MaxQueued \in [Tasks -> Nat]
  /\ Requests \subseteq Seq(Mods) /\ Edits \subseteq Mods \X (Contents \cup {Absent})
  /\ MaxRequest \in Nat \ {0} /\ \A ids \in Requests : Len(ids) <= MaxRequest
  /\ MaxEvents \in Nat

VARIABLES
  netkan,    \* the file of each mod on GitHub
  reached,   \* the mods the tasks get to (see Reached)
  queue,     \* the inflation queue of each game
  inflated,  \* what the Inflator took last for each mod
  at,        \* at[k]: the game task k takes next or is at, by its place in Games
  left,      \* left[k]: <<mod, content>> task k still has to look at, or Off
  request,   \* the game of the request the webhooks are at, or Off
  files,     \* <<mod, content>> it still has to look at
  asked,     \* the mods the last request was for
  hooked,    \* those of them that were sent to the queue
  reply,     \* the answer to the request, or Off
  events     \* edits, requests and failures so far

taskVars == <<at, left>>
hookVars == <<request, files, asked, hooked, reply>>
nk == <<netkan, reached>>
vars == <<nk, queue, inflated, taskVars, hookVars, events>>

-----------------------------------------------------------------------------
(* Reading and sending.                                                    *)

\* The n-th of some places in a list, and what is at those places, in their order.
Nth(S, n) == CHOOSE i \in S : Cardinality({j \in S : j <= i}) = n
At(seq, S) == [n \in 1 .. Cardinality(S) |-> seq[Nth(S, n)]]

\* netkans: the files of a clone, none of them read yet.
FoundIn(tree, g) ==
  LET all == [i \in DOMAIN Listing[g] |-> <<Listing[g][i], tree[Listing[g][i]]>>]
  IN At(all, {i \in DOMAIN all : all[i][2] # Absent})

\* Mutant: the file that comes last is left out.
Found_Front(g) == SubSeq(FoundIn(netkan, g), 1, Len(FoundIn(netkan, g)) - 1)

Found(g) == FoundIn(netkan, g)

\* hook_only, of a readable file.
InGroup(k, c) == IF k = "webhooks" THEN c \in HookOnly ELSE c \in Polled

Wanted(seq, W) == {i \in DOMAIN seq : seq[i][2] \in W}

\* The files read for the next batch: until BatchSize of those wanted, or all.
ReadFor(seq, W) ==
  IF Cardinality(Wanted(seq, W)) < BatchSize THEN Len(seq) ELSE Nth(Wanted(seq, W), BatchSize)

\* Mutant: a batch that is not full is not yielded.
Batch_Full(seq, W) ==
  IF Cardinality(Wanted(seq, W)) < BatchSize THEN <<>>
  ELSE At(seq, {i \in Wanted(seq, W) : i <= ReadFor(seq, W)})

Batch(seq, W) == At(seq, {i \in Wanted(seq, W) : i <= ReadFor(seq, W)})

Rest(seq, W) == SubSeq(seq, ReadFor(seq, W) + 1, Len(seq))

Unreadable(seq, bad) == \E i \in DOMAIN seq : seq[i][2] \in bad

\* Mutant: a file that is no YAML is passed on.
Breaks_Yaml(seq, W, bad) == Unreadable(SubSeq(seq, 1, ReadFor(seq, W)), bad \ Garbled)

\* One of them cannot be read.
Breaks(seq, W, bad) == Unreadable(SubSeq(seq, 1, ReadFor(seq, W)), bad)

Group(k) == {c \in Contents : InGroup(k, c)}

\* The mods the tasks get to, given the files: no file that cannot be read is in
\* an earlier game, nor in their own before their batch is full or the last file
\* is read.
Reached(tree) ==
  {m \in Mods : \E k \in Tasks, n \in DOMAIN Games :
    LET found == FoundIn(tree, Games[n])
        full == {e \in Wanted(found, Group(k)) :
                   Cardinality({j \in Wanted(found, Group(k)) : j <= e}) % BatchSize = 0}
    IN \E i \in Wanted(found, Group(k)) :
         /\ found[i][1] = m
         /\ ~Unreadable(SubSeq(found, 1, Min({e \in full : e >= i} \cup {Len(found)})),
                        Odd \cup Garbled)
         /\ \A j \in 1 .. n - 1 : ~Unreadable(FoundIn(tree, Games[j]), Odd \cup Garbled)}

-----------------------------------------------------------------------------
Pairs == Mods \X (Contents \cup {Absent})

TypeOK ==
  /\ netkan \in [Mods -> Contents \cup {Absent}]
  /\ reached \subseteq Mods
  /\ inflated \in [Mods -> Contents \cup {Absent}]
  /\ DOMAIN queue = GameIds /\ DOMAIN left = Tasks
  /\ \A g \in GameIds : queue[g] \in Seq(ToSet(Listing[g]) \X (Contents \ Garbled))
  /\ at \in [Tasks -> DOMAIN Games]
  /\ \A k \in Tasks : left[k] = Off \/ left[k] \in Seq(Pairs)
  /\ request \in GameIds \cup {Off}
  /\ files \in Seq(Pairs) /\ asked \subseteq Mods /\ hooked \subseteq Mods
  /\ reply \in {Off, "204", "400", "404", "500"}
  /\ events \in 0 .. MaxEvents

Init ==
  /\ netkan \in Worlds /\ reached = Reached(netkan)
  /\ queue = [g \in GameIds |-> <<>>]
  /\ inflated = [m \in Mods |-> Absent]
  /\ at = [k \in Tasks |-> 1] /\ left = [k \in Tasks |-> Off]
  /\ request = Off /\ files = <<>> /\ asked = {} /\ hooked = {} /\ reply = Off
  /\ events = 0

Event == events < MaxEvents /\ events' = events + 1

-----------------------------------------------------------------------------
(* The tasks of the scheduler: a process for each run, on new clones.       *)

Game(k) == Games[at[k]]
NextGame(k) == at' = [at EXCEPT ![k] = (@ % Len(Games)) + 1]

\* With nothing left to look at the next game is taken.
LookAt(k, rest) ==
  IF rest = <<>> THEN left' = [left EXCEPT ![k] = Off] /\ NextGame(k)
  ELSE left' = [left EXCEPT ![k] = rest] /\ UNCHANGED at

\* Mutant: the queue is not looked at.
Room_Always(k) == TRUE

\* message_count > max_queued refuses.
Room(k) == Len(queue[Game(k)]) <= MaxQueued[k]

\* can_schedule, and the clones of the game.
Schedule(k) ==
  /\ left[k] = Off
  /\ Room(k)
  /\ LookAt(k, Found(Game(k)))
  /\ UNCHANGED <<nk, queue, inflated, hookVars, events>>

\* Too few credits at GitHub or Amazon, or too many messages.
Refuse(k) ==
  /\ left[k] = Off
  /\ NextGame(k)
  /\ UNCHANGED <<nk, queue, inflated, left, hookVars, events>>

Send(k) ==
  /\ left[k] # Off
  /\ ~Breaks(left[k], Group(k), Odd \cup Garbled)
  /\ queue' = [queue EXCEPT ![Game(k)] = @ \o Batch(left[k], Group(k))]
  /\ LookAt(k, Rest(left[k], Group(k)))
  /\ UNCHANGED <<nk, inflated, hookVars, events>>

TaskEnds(k) ==
  /\ at' = [at EXCEPT ![k] = 1]
  /\ left' = [left EXCEPT ![k] = Off]
  /\ UNCHANGED <<nk, queue, inflated, hookVars>>

\* The exception of a file ends the process, with the batch it had begun.
SendRaises(k) ==
  /\ left[k] # Off
  /\ Breaks(left[k], Group(k), Odd \cup Garbled)
  /\ TaskEnds(k)
  /\ UNCHANGED events

\* A call of GitHub or Amazon raises, or the process is stopped.
TaskFails(k) == (at[k] # 1 \/ left[k] # Off) /\ Event /\ TaskEnds(k)

-----------------------------------------------------------------------------
(* The webhooks: one worker, one request at a time, on clones they keep.   *)

Answer(r) == reply' = r /\ request' = Off /\ files' = <<>>

\* A request for game g, whose files are found.
Begin(g, found) ==
  /\ request' = g /\ reply' = Off
  /\ files' = found
  /\ asked' = {f[1] : f \in ToSet(found)}

Call ==
  /\ request = Off
  /\ Event
  /\ hooked' = {}
  /\ UNCHANGED <<nk, queue, inflated, taskVars>>

\* /inflate, /gh/inflate and /gh/release: pull_all, then the files by name.
InflateHook(g, ids) ==
  /\ Call
  /\ IF ids = <<>> THEN Answer("400") /\ asked' = {}
     ELSE Begin(g, [i \in DOMAIN ids |-> <<ids[i], netkan[ids[i]]>>])

\* /sd/inflate: find_netkans reads all files of the game to find those of a mod
\* on SpaceDock.
SpaceDockHook(g, ids) ==
  /\ Call
  /\ LET found == At(Found(g), {i \in DOMAIN Found(g) : Found(g)[i][1] \in ToSet(ids)}) IN
       CASE Unreadable(Found(g), Odd \cup Garbled) -> Answer("500") /\ asked' = {}
         [] found = <<>> -> Answer("404") /\ asked' = {}
         [] OTHER -> Begin(g, found)

\* The mod was deleted, locked or unlocked: that is only logged.
SpaceDockTells == Call /\ Answer("204") /\ asked' = {}

HookStep == UNCHANGED <<nk, inflated, taskVars, asked>>

HookSends ==
  /\ request # Off
  /\ ~Breaks(files, Contents, {Absent} \cup Garbled)
  /\ queue' = [queue EXCEPT ![request] = @ \o Batch(files, Contents)]
  /\ hooked' = hooked \cup {f[1] : f \in ToSet(Batch(files, Contents))}
  /\ IF Rest(files, Contents) = <<>> THEN Answer("204")
     ELSE files' = Rest(files, Contents) /\ UNCHANGED <<request, reply>>
  /\ HookStep /\ UNCHANGED events

\* There is no file of that name, or it cannot be read: a batch begun is lost.
HookRaises ==
  /\ request # Off
  /\ Breaks(files, Contents, {Absent} \cup Garbled)
  /\ Answer("500")
  /\ HookStep /\ UNCHANGED <<queue, hooked, events>>

\* A pull or a call of SQS fails, or the worker is restarted.
HookFails ==
  /\ request # Off
  /\ Event
  /\ Answer("500")
  /\ HookStep /\ UNCHANGED <<queue, hooked>>

-----------------------------------------------------------------------------
(* The Inflators, and the people who write .netkan files.                  *)

\* It receives ReceiveSize messages at once, which the queue no longer counts.
Inflate(g) ==
  /\ queue[g] # <<>>
  /\ LET taken == Min({ReceiveSize, Len(queue[g])})
         last(m) == {i \in 1 .. taken : queue[g][i][1] = m /\
                       \A j \in i + 1 .. taken : queue[g][j][1] # m}
     IN /\ queue' = [queue EXCEPT ![g] = SubSeq(@, taken + 1, Len(@))]
        /\ inflated' = [m \in Mods |-> IF last(m) = {} THEN inflated[m]
                                       ELSE queue[g][CHOOSE i \in last(m) : TRUE][2]]
  /\ UNCHANGED <<nk, taskVars, hookVars, events>>

OthersEdit(m, c) ==
  /\ Event
  /\ netkan[m] # c
  /\ netkan' = [netkan EXCEPT ![m] = c]
  /\ reached' = Reached(netkan')
  /\ UNCHANGED <<queue, inflated, taskVars, hookVars>>

TaskStep(k) ==
  \/ Refuse(k)
  \/ Schedule(k)
  \/ Send(k)
  \/ SendRaises(k)

Next ==
  \/ \E k \in Tasks : TaskStep(k)
  \/ \E k \in Tasks : TaskFails(k)
  \/ \E g \in GameIds, ids \in Requests :
       ToSet(ids) \subseteq ToSet(Listing[g]) /\ InflateHook(g, ids)
  \/ \E g \in GameIds, ids \in Requests :
       ToSet(ids) \subseteq ToSet(Listing[g]) /\ SpaceDockHook(g, ids)
  \/ SpaceDockTells
  \/ HookSends
  \/ HookRaises
  \/ HookFails
  \/ \E g \in GameIds : Inflate(g)
  \/ \E e \in Edits : OthersEdit(e[1], e[2])

Spec == Init /\ [][Next]_vars

\* Task k gets past the check at its n-th game, if it comes to that game.
Admitted(k, n) ==
  \/ at[k] = n /\ (left[k] # Off \/ Found(Games[n]) = <<>>)
  \/ \E j \in 1 .. n - 1 : Unreadable(Found(Games[j]), Odd \cup Garbled)

\* The tasks run again and again, the Inflators work, and not all checks of a
\* task at a game refuse: credits come back, and an Inflator empties its queue
\* between two runs.
Fairness ==
  /\ \A k \in Tasks : WF_vars(TaskStep(k))
  /\ \A g \in GameIds : WF_vars(Inflate(g))
  /\ \A k \in Tasks, n \in DOMAIN Games : []<>Admitted(k, n)

FairSpec == Spec /\ Fairness

-----------------------------------------------------------------------------
(* Properties.                                                             *)

\* The Inflator ends with the newest content of each file the tasks reach: what
\* a task read before a change and sent after the hook of the change is older,
\* but another run comes.
NewestIsInflated ==
  \A m \in Mods : <>[](m \in reached) => <>[](inflated[m] = netkan[m])

\* A request that was answered 204 has all its mods in the queue.
AnsweredIsQueued == reply = "204" => asked \subseteq hooked

\* The queue holds at most what the task with the larger limit lets pass, the
\* mods of both tasks (one twice if its group changed in between), and what
\* requests sent: the tasks look at the queue before, not while they send.
QueueBounded ==
  \A g \in GameIds :
    Len(queue[g]) <= Max({MaxQueued[k] : k \in Tasks}) + Len(Listing[g]) + events * MaxRequest
===============================================================================
