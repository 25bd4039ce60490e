------------------------- MODULE QueueHandlerProofs -------------------------
(***************************************************************************)
(* Proofs about QueueHandler, for every set of games and kinds of message  *)
(* and every batch size and bound.                                         *)
(***************************************************************************)
EXTENDS QueueHandler, TLAPS

LEMMA InitInv == Init => LoopInv
BY GamesAssumption
DEF Init, SqsInit, LoopInv, TypeOK, SqsTypeOK, Ids, Stored, WorkIsStored, SkippedStays,
    OwnProcessed, FlightIsPrefix, FlightIsHeld

\* A message sent later is behind all the others.
LEMMA SendInv ==
  ASSUME LoopInv, NEW k \in Kinds, Send(k)
  PROVE  LoopInv'
<1>1. /\ sent' = Append(sent, k) /\ sent \in Seq(Kinds)
      /\ UNCHANGED <<acked, hidden, since, batch, todo, turn, processed, faults>>
  BY DEF Send, SqsSend, loopVars, LoopInv, TypeOK, SqsTypeOK
<1>2. /\ sent' \in Seq(Kinds) /\ Ids' = Ids \cup {Len(sent) + 1}
      /\ \A i \in Ids : GameOf(i)' = GameOf(i) /\ i < Len(sent) + 1
  BY <1>1 DEF Ids, GameOf
<1>3. Stored' = Stored \cup {Len(sent) + 1}
  BY <1>1, <1>2 DEF LoopInv, TypeOK, SqsTypeOK, Stored, Ids
<1>4. TypeOK'
  BY <1>1, <1>2, <1>3 DEF LoopInv, TypeOK, SqsTypeOK
<1>5. WorkIsStored'
  BY <1>1, <1>2, <1>3 DEF LoopInv, WorkIsStored, Stored
<1>6. SkippedStays' /\ OwnProcessed'
  BY <1>1, <1>2 DEF LoopInv, TypeOK, SqsTypeOK, SkippedStays, OwnProcessed, Good
<1>7. FlightIsPrefix'
  <2> SUFFICES ASSUME NEW j \in hidden, NEW i \in Stored', i < j, GameOf(i)' = GameOf(j)'
               PROVE  i \in hidden
    BY <1>1 DEF FlightIsPrefix
  <2>1. j \in Ids /\ j < Len(sent) + 1 /\ i \in Stored
    BY <1>2, <1>3 DEF LoopInv, TypeOK, SqsTypeOK, Stored, Ids
  <2> QED
    BY <1>2, <2>1 DEF LoopInv, FlightIsPrefix, Stored
<1>8. FlightIsHeld'
  BY <1>1, <1>2 DEF LoopInv, TypeOK, SqsTypeOK, Stored, FlightIsHeld, Polling, Good
<1> QED
  BY <1>4, <1>5, <1>6, <1>7, <1>8 DEF LoopInv

LEMMA PollInv ==
  ASSUME LoopInv, NEW S \in SUBSET Stored, Poll(S)
  PROVE  LoopInv'
<1>1. /\ turn = Idle /\ todo = {} /\ hidden' = S /\ UNCHANGED <<sent, acked, turn, processed, faults>>
      /\ batch' = [g \in Games |-> {i \in S : GameOf(i) = g}]
      /\ since' \in [Games -> {0} \cup Ids] /\ todo' \subseteq Games
      /\ \A i \in S, j \in Stored \ S : i < j
  BY DEF Poll, Polling, SqsReceive, Deliverable
<1>2. processed = {}
  BY <1>1 DEF LoopInv, OwnProcessed
<1>3. \A i \in Ids : i \in Nat /\ GameOf(i)' = GameOf(i)
  BY <1>1 DEF Ids, GameOf
<1>4. TypeOK'
  <2>1. since' \in [Games -> Nat] /\ batch' \in [Games -> SUBSET Nat]
    BY <1>1, <1>3 DEF Stored
  <2> QED
    BY <1>1, <2>1 DEF LoopInv, TypeOK, SqsTypeOK, Stored, Ids
<1>5. WorkIsStored'
  BY <1>1, <1>2 DEF WorkIsStored, Stored, Ids, GameOf
<1>6. SkippedStays' /\ OwnProcessed'
  BY <1>1, <1>2 DEF LoopInv, SkippedStays, OwnProcessed, Good, GameOf
<1>7. FlightIsPrefix'
  <2> SUFFICES ASSUME NEW j \in S, NEW i \in Stored, i < j PROVE i \in S
    BY <1>1 DEF FlightIsPrefix, Stored, Ids, GameOf
  <2> QED
    BY <1>1, <1>3 DEF Stored
<1>8. FlightIsHeld'
  BY <1>1 DEF FlightIsHeld, Good, GameOf
<1> QED
  BY <1>4, <1>5, <1>6, <1>7, <1>8 DEF LoopInv

\* A new process holds nothing; what is in flight stays so.
LEMMA FreshInv ==
  ASSUME LoopInv, Fresh, UNCHANGED <<sent, acked>>, faults' \in Nat,
         hidden' = hidden \/ \E S \in SUBSET Stored : SqsReceive(S)
  PROVE  LoopInv'
<1>1. /\ since' = [g \in Games |-> 0] /\ batch' = [g \in Games |-> {}]
      /\ todo' = {} /\ turn' = Idle /\ processed' = {} /\ hidden' \subseteq Stored
  BY DEF Fresh, LoopInv, TypeOK, SqsTypeOK, SqsReceive
<1>2. TypeOK'
  BY <1>1 DEF LoopInv, TypeOK, SqsTypeOK, Stored, Ids
<1>3. WorkIsStored' /\ SkippedStays' /\ OwnProcessed' /\ FlightIsHeld'
  BY <1>1 DEF LoopInv, WorkIsStored, SkippedStays, OwnProcessed, FlightIsHeld, Polling, Good, GameOf
<1>4. FlightIsPrefix'
  <2>1. CASE hidden' = hidden
    BY <2>1 DEF LoopInv, FlightIsPrefix, Stored, Ids, GameOf
  <2>2. ASSUME NEW S \in SUBSET Stored, SqsReceive(S) PROVE FlightIsPrefix'
    <3>1. hidden' = S /\ \A i \in S, j \in Stored \ S : i < j
      BY <2>2 DEF SqsReceive, Deliverable
    <3>2. \A i, j \in Ids : ~(i < j /\ j < i)
      BY DEF Ids
    <3> QED
      BY <3>1, <3>2 DEF FlightIsPrefix, Stored, Ids, GameOf
  <2> QED
    BY <2>1, <2>2
<1> QED
  BY <1>2, <1>3, <1>4 DEF LoopInv

LEMMA EnterInv ==
  ASSUME LoopInv, NEW g \in Games, Enter(g)
  PROVE  LoopInv'
<1>1. /\ turn = Idle /\ g \in todo /\ turn' = g /\ todo' = todo \ {g}
      /\ UNCHANGED <<sent, acked, hidden, since, batch, processed, faults>>
  BY DEF Enter, Due, sqsVars
<1>2. processed = {}
  BY <1>1 DEF LoopInv, OwnProcessed
<1>3. TypeOK'
  BY <1>1 DEF LoopInv, TypeOK, SqsTypeOK, Stored, Ids
<1>4. WorkIsStored' /\ SkippedStays' /\ FlightIsPrefix'
  BY <1>1 DEF LoopInv, WorkIsStored, SkippedStays, FlightIsPrefix, Stored, Ids, Good, GameOf
<1>5. OwnProcessed' /\ FlightIsHeld'
  BY <1>1, <1>2 DEF LoopInv, OwnProcessed, FlightIsHeld, Polling, Good, GameOf
<1> QED
  BY <1>3, <1>4, <1>5 DEF LoopInv

LEMMA ProcessInv ==
  ASSUME LoopInv, NEW g \in Games, NEW i \in batch[g], Process(i)
  PROVE  LoopInv'
<1>1. /\ turn # Idle /\ i \in batch[turn]
      /\ batch' = [batch EXCEPT ![turn] = batch[turn] \ {i}]
      /\ processed' = processed \cup {i}
      /\ UNCHANGED <<sent, acked, hidden, since, todo, turn, faults>>
  BY DEF Process, sqsVars
<1>2. turn \in Games /\ batch \in [Games -> SUBSET Nat] /\ processed \subseteq Nat
  BY <1>1 DEF LoopInv, TypeOK
<1>3. i \in Stored /\ i \in Ids /\ i \in Nat /\ GameOf(i) = turn
  BY <1>1, <1>2 DEF LoopInv, WorkIsStored, Stored, Ids
<1>4. batch' \in [Games -> SUBSET Nat] /\ \A h \in Games : batch'[h] = batch[h] \ {i}
  <2>1. \A h \in Games \ {turn} : i \notin batch[h]
    BY <1>3 DEF LoopInv, WorkIsStored
  <2> QED
    BY <1>1, <1>2, <2>1
<1>5. TypeOK'
  BY <1>1, <1>2, <1>3, <1>4 DEF LoopInv, TypeOK, SqsTypeOK, Stored, Ids
<1>6. WorkIsStored'
  BY <1>1, <1>3, <1>4 DEF LoopInv, WorkIsStored, Stored, Ids, GameOf
<1>7. SkippedStays' /\ FlightIsPrefix'
  BY <1>1 DEF LoopInv, SkippedStays, FlightIsPrefix, Stored, Ids, Good, GameOf
<1>8. OwnProcessed'
  BY <1>1, <1>3 DEF LoopInv, OwnProcessed, Ids, GameOf
<1>9. FlightIsHeld'
  BY <1>1, <1>3, <1>4 DEF LoopInv, FlightIsHeld, Polling, Good, GameOf
<1> QED
  BY <1>5, <1>6, <1>7, <1>8, <1>9 DEF LoopInv

\* Deleting D leaves what the other handlers hold.
LEMMA LeaveInv ==
  ASSUME LoopInv, NEW D \in SUBSET processed, Leave(D), faults' \in Nat,
         D = processed \/ DeletesFail
  PROVE  LoopInv'
<1>1. /\ turn # Idle /\ batch[turn] = {} /\ turn' = Idle /\ processed' = {}
      /\ acked' = acked \cup (D \cap hidden) /\ hidden' = hidden \ D
      /\ UNCHANGED <<sent, since, batch, todo>>
  BY DEF Leave, Drained, SqsDelete
<1>2. turn \in Games /\ \A i \in D : i \in Stored /\ GameOf(i) = turn
  BY <1>1 DEF LoopInv, TypeOK, WorkIsStored, OwnProcessed
<1>3. TypeOK'
  BY <1>1, <1>2 DEF LoopInv, TypeOK, SqsTypeOK, Stored, Ids
<1>4. WorkIsStored'
  BY <1>1, <1>2 DEF LoopInv, WorkIsStored, Stored, Ids, GameOf
<1>5. SkippedStays' /\ OwnProcessed'
  BY <1>1, <1>2 DEF LoopInv, SkippedStays, OwnProcessed, Good, GameOf
<1>6. FlightIsPrefix'
  BY <1>1 DEF LoopInv, TypeOK, SqsTypeOK, FlightIsPrefix, Stored, Ids, GameOf
<1>7. FlightIsHeld'
  BY <1>1 DEF LoopInv, FlightIsHeld, Polling, Good, GameOf
<1> QED
  BY <1>3, <1>4, <1>5, <1>6, <1>7 DEF LoopInv

LEMMA ExpireInv ==
  ASSUME LoopInv, SqsExpire, UNCHANGED loopVars, faults' \in Nat
  PROVE  LoopInv'
<1>1. hidden' = {} /\ UNCHANGED <<sent, acked, since, batch, todo, turn, processed>>
  BY DEF SqsExpire, loopVars
<1>2. TypeOK'
  BY <1>1 DEF LoopInv, TypeOK, SqsTypeOK, Stored, Ids
<1>3. WorkIsStored' /\ SkippedStays' /\ OwnProcessed'
  BY <1>1 DEF LoopInv, WorkIsStored, SkippedStays, OwnProcessed, Stored, Ids, Good, GameOf
<1>4. FlightIsPrefix' /\ FlightIsHeld'
  BY <1>1 DEF FlightIsPrefix, FlightIsHeld
<1> QED
  BY <1>2, <1>3, <1>4 DEF LoopInv

LEMMA StutterInv == LoopInv /\ UNCHANGED vars => LoopInv'
BY DEF LoopInv, TypeOK, SqsTypeOK, WorkIsStored, SkippedStays, OwnProcessed, FlightIsPrefix,
       FlightIsHeld, Polling, Stored, Ids, Good, GameOf, vars, sqsVars, loopVars

LEMMA NextInv == LoopInv /\ [Next]_vars => LoopInv'
<1> SUFFICES ASSUME LoopInv, [Next]_vars PROVE LoopInv'
  OBVIOUS
<1>1. faults \in Nat /\ faults + 1 \in Nat
  BY DEF LoopInv, TypeOK
<1>2. ASSUME NEW S \in SUBSET Stored, PollExits(S) PROVE LoopInv'
  BY <1>1, <1>2, FreshInv DEF PollExits, SqsReceive
<1>3. ASSUME Finish PROVE LoopInv'
  BY <1>1, <1>3, LeaveInv DEF Finish
<1>4. ASSUME FinishPartly PROVE LoopInv'
  BY <1>1, <1>4, LeaveInv DEF FinishPartly
<1>5. ASSUME Reappear \/ Overrun PROVE LoopInv'
  BY <1>1, <1>5, ExpireInv DEF Reappear, Overrun
<1>6. ASSUME Raise \/ Crash PROVE LoopInv'
  BY <1>1, <1>6, FreshInv DEF Raise, Crash, sqsVars
<1> QED
  BY <1>2, <1>3, <1>4, <1>5, <1>6, SendInv, PollInv, EnterInv, ProcessInv, StutterInv DEF Next

\* The inductive invariant.
THEOREM LoopInvariance == Spec => []LoopInv
BY InitInv, NextInv, PTL DEF Spec

\* A deleted message is in nobody's hands, and what one handler deletes is
\* not what another works on: for any number of handlers, deletes that fail
\* for some entries, crashes and batches that reappear too early.
THEOREM WorkStored == Spec => []WorkIsStored
<1>1. LoopInv => WorkIsStored
  BY DEF LoopInv
<1> QED
  BY <1>1, LoopInvariance, PTL

\* A message without GameId, or of a game without configuration, is never
\* deleted.
THEOREM SkippedKept == Spec => []SkippedStays
<1>1. LoopInv => SkippedStays
  BY DEF LoopInv
<1> QED
  BY <1>1, LoopInvariance, PTL

\* A delete takes all that is in flight of its game, and what is in flight is
\* a prefix of what is stored: so messages of a game are deleted in order.
LEMMA OrderNext ==
  ASSUME DeletesFail = FALSE, LoopInv, DeletedInOrder, [Next]_vars
  PROVE  DeletedInOrder'
<1>1. ASSUME acked' = acked, sent' = sent PROVE DeletedInOrder'
  BY <1>1 DEF DeletedInOrder, Ids, GameOf
<1>2. ASSUME NEW k \in Kinds, Send(k) PROVE DeletedInOrder'
  <2>1. /\ acked' = acked /\ sent' = Append(sent, k) /\ sent \in Seq(Kinds) /\ acked \subseteq Ids
    BY <1>2 DEF Send, SqsSend, LoopInv, TypeOK, SqsTypeOK
  <2>2. Ids' = Ids \cup {Len(sent) + 1} /\ \A i \in Ids : GameOf(i)' = GameOf(i) /\ i < Len(sent) + 1
    BY <2>1 DEF Ids, GameOf
  <2> SUFFICES ASSUME NEW j \in acked, NEW i \in Ids', i < j, GameOf(i)' = GameOf(j)'
               PROVE  i \in acked
    BY <2>1 DEF DeletedInOrder
  <2>3. j \in Ids /\ i \in Ids
    BY <2>1, <2>2 DEF Ids
  <2> QED
    BY <2>2, <2>3 DEF DeletedInOrder
<1>3. ASSUME Leave(processed) PROVE DeletedInOrder'
  <2>1. /\ acked' = acked \cup (processed \cap hidden) /\ sent' = sent
        /\ turn # Idle /\ batch[turn] = {}
    BY <1>3 DEF Leave, Drained, SqsDelete
  <2> SUFFICES ASSUME NEW j \in acked', NEW i \in Ids, i < j, GameOf(i) = GameOf(j), i \notin acked
               PROVE  i \in processed \cap hidden
    BY <2>1 DEF DeletedInOrder, Ids, GameOf
  <2>2. j \in hidden /\ GameOf(j) = turn /\ turn \in Games
    BY <2>1 DEF DeletedInOrder, LoopInv, OwnProcessed, TypeOK
  <2>3. i \in hidden
    BY <2>2 DEF LoopInv, FlightIsPrefix, Stored
  <2> QED
    BY <2>1, <2>2, <2>3 DEF LoopInv, FlightIsHeld, Polling, Good
<1>4. CASE UNCHANGED vars
  BY <1>1, <1>4 DEF vars, sqsVars
<1>5. CASE Finish \/ FinishPartly
  BY <1>3, <1>5 DEF Finish, FinishPartly
<1>6. CASE \E S \in SUBSET Stored : Poll(S) \/ PollExits(S)
  BY <1>1, <1>6 DEF Poll, PollExits, SqsReceive
<1>7. CASE \E g \in Games : Enter(g) \/ \E i \in batch[g] : Process(i)
  BY <1>1, <1>7 DEF Enter, Process, sqsVars
<1>8. CASE Reappear \/ Overrun \/ Raise \/ Crash
  BY <1>1, <1>8 DEF Reappear, Overrun, Raise, Crash, SqsExpire, sqsVars
<1> QED
  BY <1>2, <1>4, <1>5, <1>6, <1>7, <1>8 DEF Next

\* As long as no entry of a DeleteMessageBatch fails, a message is deleted
\* only with or after every older message of its game, whatever crashes,
\* raises or comes too late in between.
THEOREM DeletesInOrder ==
  ASSUME DeletesFail = FALSE
  PROVE  Spec => []DeletedInOrder
<1>1. Init => DeletedInOrder
  BY DEF Init, SqsInit, DeletedInOrder
<1>2. LoopInv /\ DeletedInOrder /\ [Next]_vars => DeletedInOrder'
  BY OrderNext
<1> QED
  BY <1>1, <1>2, LoopInvariance, PTL DEF Spec
==============================================================================
