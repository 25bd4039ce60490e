---------------------------- MODULE QueueHandler ----------------------------
(***************************************************************************)
(* The loop QueueHandler.run of netkan/queue_handler.py, which the Indexer *)
(* and the SpaceDock Adder share: receive a batch, hand each message to    *)
(* the handler of its game, run every handler known so far, and delete     *)
(* what a handler reports as processed.  What a handler does with a        *)
(* message is left open here (Process); the Indexer refines it.            *)
(*                                                                         *)
(* The process can die at any point: an exception is never caught, the     *)
(* container is replaced (DesiredCount=1), and everything it held is gone. *)
(***************************************************************************)
EXTENDS SqsFifo

CONSTANTS
  Games,      \* the games the service is configured for
  NoGame,     \* a message without the GameId attribute
  Idle,       \* no handler is running
  MayRaise,   \* may a handler raise (a detailed handler says when it does)
  DeletesFail, \* may DeleteMessageBatch fail for single entries
  MaxFaults   \* bound on crashes, late batches and failed deletes

ASSUME GamesAssumption == NoGame \notin Games /\ Idle \notin Games
ASSUME KindsHaveGame == \A k \in Kinds : "game" \in DOMAIN k
ASSUME FaultsAssumption == /\ MaxFaults \in Nat
                           /\ MayRaise \in BOOLEAN
                           /\ DeletesFail \in BOOLEAN

VARIABLES
  since,      \* since[g]: the message that created the handler of g, or 0
  batch,      \* batch[g]: appended to the handler of g, not processed yet
  todo,       \* handlers still to be run in this round
  turn,       \* the handler inside "with handler", or Idle
  processed,  \* what the running handler will ask to delete
  faults      \* how many faults have happened

loopVars == <<since, batch, todo, turn, processed>>
vars == <<sqsVars, loopVars, faults>>

GameOf(i) == sent[i].game
Unconfigured(i) == GameOf(i) \notin Games \cup {NoGame}
Good(i) == GameOf(i) \in Games

TypeOK ==
  /\ SqsTypeOK
  /\ since \in [Games -> Nat]
  /\ batch \in [Games -> SUBSET Nat]
  /\ todo \subseteq Games
  /\ turn \in Games \cup {Idle}
  /\ processed \subseteq Nat
  /\ faults \in Nat

\* A process that has just started: no handlers, no clones, nothing appended.
Fresh ==
  /\ since' = [g \in Games |-> 0]
  /\ batch' = [g \in Games |-> {}]
  /\ todo' = {}
  /\ turn' = Idle
  /\ processed' = {}

Init ==
  /\ SqsInit
  /\ since = [g \in Games |-> 0]
  /\ batch = [g \in Games |-> {}]
  /\ todo = {}
  /\ turn = Idle
  /\ processed = {}
  /\ faults = 0

Polling == turn = Idle /\ todo = {}

Send(k) == SqsSend(k) /\ UNCHANGED <<loopVars, faults>>

\* game_handler: a handler is created for the first message of its game and
\* kept for the life of the process.
Created(S, g, i) ==
  LET mine == {j \in S : GameOf(j) = g}
  IN  IF since[g] # 0 \/ mine = {} THEN i = since[g]
      ELSE i \in mine /\ \A j \in mine : i <= j

\* run, first half: the batch is split by game.  A message without GameId is
\* logged and skipped, so nothing will ever delete it.
Poll(S) ==
  /\ Polling
  /\ SqsReceive(S)
  /\ ~ \E i \in S : Unconfigured(i)
  /\ batch' = [g \in Games |-> {i \in S : GameOf(i) = g}]
  /\ since' \in [Games -> {0} \cup Ids]
  /\ \A g \in Games : Created(S, g, since'[g])
  /\ todo' = {g \in Games : since'[g] # 0}
  /\ UNCHANGED <<turn, processed, faults>>

\* A message of a game without configuration ends the process with sys.exit.
PollExits(S) ==
  /\ Polling
  /\ SqsReceive(S)
  /\ \E i \in S : Unconfigured(i)
  /\ Fresh
  /\ UNCHANGED faults

\* Mutant: a handler is run before the one before it is done.
Due_Overlapping(g) == g \in todo /\ \A h \in todo : since[g] <= since[h]

\* run, second half: the handlers run one by one, in the order they were made,
\* whether or not the batch brought them anything.
Due(g) ==
  /\ turn = Idle
  /\ g \in todo
  /\ \A h \in todo : since[g] <= since[h]

Enter(g) ==
  /\ Due(g)
  /\ turn' = g
  /\ todo' = todo \ {g}
  /\ UNCHANGED <<sqsVars, since, batch, processed, faults>>

\* One message of the running handler is dealt with.
Process(i) ==
  /\ turn # Idle
  /\ i \in batch[turn]
  /\ batch' = [batch EXCEPT ![turn] = @ \ {i}]
  /\ processed' = processed \cup {i}
  /\ UNCHANGED <<sqsVars, since, todo, turn, faults>>

\* Mutant: the handler is left with messages still in its deques.
Drained_Early == turn # Idle

\* process_messages has returned: delete what was processed, leave the handler.
Drained == turn # Idle /\ batch[turn] = {}

\* Mutants: the whole batch is deleted; the list of processed messages is kept.
Leave_WholeBatch(D) ==
  /\ Drained
  /\ SqsDelete(hidden)
  /\ processed' = {}
  /\ turn' = Idle
  /\ UNCHANGED <<since, batch, todo>>

Leave_KeepsProcessed(D) ==
  /\ Drained
  /\ SqsDelete(D)
  /\ turn' = Idle
  /\ UNCHANGED <<since, batch, todo, processed>>

Leave(D) ==
  /\ Drained
  /\ SqsDelete(D)
  /\ processed' = {}
  /\ turn' = Idle
  /\ UNCHANGED <<since, batch, todo>>

\* Mutant: nothing is deleted.
Finish_DeletesNone == Leave({}) /\ UNCHANGED faults

Finish == Leave(processed) /\ UNCHANGED faults

\* DeleteMessageBatch fails for some entries; the response is dropped.
FinishPartly ==
  /\ DeletesFail
  /\ faults < MaxFaults
  /\ \E D \in SUBSET processed : D # processed /\ Leave(D)
  /\ faults' = faults + 1

\* The batch becomes visible again: while nothing runs, or as a fault while
\* the handlers are still at work on it (processing took longer than timeout).
Reappear == Polling /\ SqsExpire /\ UNCHANGED <<loopVars, faults>>

Overrun ==
  /\ ~Polling
  /\ faults < MaxFaults
  /\ SqsExpire
  /\ faults' = faults + 1
  /\ UNCHANGED loopVars

\* A handler raises, or cannot be entered: nothing catches it.
Raise ==
  /\ MayRaise
  /\ ~Polling
  /\ Fresh
  /\ UNCHANGED <<sqsVars, faults>>

\* The process dies and is replaced.
Crash ==
  /\ \E g \in Games : since[g] # 0
  /\ faults < MaxFaults
  /\ Fresh
  /\ faults' = faults + 1
  /\ UNCHANGED sqsVars

Next ==
  \/ \E k \in Kinds : Send(k)
  \/ \E S \in SUBSET Stored : Poll(S)
  \/ \E S \in SUBSET Stored : PollExits(S)
  \/ \E g \in Games : Enter(g)
  \/ \E g \in Games : \E i \in batch[g] : Process(i)
  \/ Finish
  \/ FinishPartly
  \/ Reappear
  \/ Overrun
  \/ Raise
  \/ Crash

Spec == Init /\ [][Next]_vars

\* The process runs as long as it lives; the visibility timeout passes; and a
\* poll that is repeated for ever sometimes returns as much as it may (the
\* queues are created with ReceiveMessageWaitTimeSeconds=20).
Fairness ==
  /\ SF_vars(\E S \in SUBSET Stored : FullBatch(S) /\ Poll(S))
  /\ WF_vars(\E g \in Games : Enter(g))
  /\ WF_vars(\E g \in Games : \E i \in batch[g] : Process(i))
  /\ WF_vars(Finish)
  /\ WF_vars(Reappear)

FairSpec == Spec /\ Fairness

-----------------------------------------------------------------------------
(* Properties.                                                             *)

\* What the process is working on, or about to delete, is still stored: with
\* one consumer a deleted message is never processed again, and what one
\* handler deletes is not in the hands of another.  (QueueHandler.run deletes
\* per handler, in the middle of the loop over the handlers.)
WorkIsStored ==
  /\ \A g \in Games : batch[g] \subseteq Stored /\ batch[g] \cap processed = {}
  /\ processed \subseteq Stored
  /\ \A g \in Games : \A i \in batch[g] : GameOf(i) = g

\* A message of a game is deleted only with or after every older message of
\* that game, as long as DeleteMessageBatch does not fail for single entries:
\* redelivery after a crash or a timeout then starts with the oldest message,
\* and an old message is not processed after a newer one is gone.
DeletedInOrder ==
  \A j \in acked : \A i \in Ids : i < j /\ GameOf(i) = GameOf(j) => i \in acked

\* Only what a handler has dealt with is deleted, never the whole batch: a
\* message that was skipped for want of a GameId stays in the queue for good.
SkippedStays == \A i \in acked : Good(i)

Skipped == {i \in Stored : ~Good(i)}

\* Every message of a configured game is deleted in the end, unless as many
\* skipped messages as a batch holds are stored (they are received again and
\* again and leave no room), or one of an unconfigured game, at which the
\* process exits each time.
GoodIsDeleted ==
  \A i \in 1 .. MaxSent :
    (i \in Ids /\ Good(i)) ~>
      \/ i \in acked
      \/ Cardinality(Skipped) >= BatchSize
      \/ \E j \in Stored : Unconfigured(j)

-----------------------------------------------------------------------------
(* The inductive invariant behind the safety properties.                   *)

\* What is processed belongs to the running handler.
OwnProcessed ==
  \A i \in processed : i \in Ids /\ turn # Idle /\ GameOf(i) = turn

\* The batch in flight is a prefix, game by game, of what is stored; while a
\* round goes on a handler still has all that is in flight for its game (if no
\* entry of a delete can fail).
FlightIsPrefix ==
  \A j \in hidden : \A i \in Stored : i < j /\ GameOf(i) = GameOf(j) => i \in hidden

FlightIsHeld ==
  ~Polling /\ ~DeletesFail => \A i \in hidden : Good(i) =>
    i \in batch[GameOf(i)] \/ (turn = GameOf(i) /\ i \in processed)

LoopInv ==
  /\ TypeOK
  /\ WorkIsStored
  /\ SkippedStays
  /\ OwnProcessed
  /\ FlightIsPrefix
  /\ FlightIsHeld
==============================================================================
