------------------------------- MODULE SqsFifo -------------------------------
(***************************************************************************)
(* An Amazon SQS FIFO queue as the services of this repository use it: one *)
(* message group (every sender passes the same MessageGroupId), long       *)
(* polling, batches of BatchSize, a visibility timeout, no dead letter     *)
(* queue (prod-stack.py creates the five queues with FifoQueue=True and no *)
(* RedrivePolicy).  SQS itself is not in the repository.                   *)
(*                                                                         *)
(* A message is named by its position in the sequence of all the messages  *)
(* ever sent, so that FIFO order is the order of these numbers, and what a *)
(* consumer must still see is Stored.  While messages of the group are in  *)
(* flight (hidden) nothing else of the group is delivered; a receipt       *)
(* handle is good for a delete only while the message is hidden.           *)
(***************************************************************************)
EXTENDS Naturals, Sequences, FiniteSets

CONSTANTS
  Kinds,      \* what a message can be
  BatchSize,  \* MaxNumberOfMessages of one receive
  MaxSent     \* bound on the number of messages ever sent

ASSUME SqsAssumption == /\ BatchSize \in Nat \ {0}
                        /\ MaxSent \in Nat

VARIABLES
  sent,    \* the messages sent so far, in order
  acked,   \* those deleted by the consumer
  hidden   \* those received and not yet visible again

sqsVars == <<sent, acked, hidden>>

Ids == 1 .. Len(sent)
Stored == Ids \ acked

SqsTypeOK ==
  /\ sent \in Seq(Kinds)
  /\ acked \subseteq Ids
  /\ hidden \subseteq Stored

SqsInit ==
  /\ sent = <<>>
  /\ acked = {}
  /\ hidden = {}

\* A producer's send_message: the message is stored behind the others.
SqsSend(k) ==
  /\ Len(sent) < MaxSent
  /\ sent' = Append(sent, k)
  /\ UNCHANGED <<acked, hidden>>

\* The consumer's receive_messages returns S, the oldest messages stored: as
\* many as the batch allows or fewer, and none while the group is in flight.
Deliverable(S) ==
  /\ hidden = {}
  /\ S \in SUBSET Stored
  /\ S # {}
  /\ Cardinality(S) <= BatchSize
  /\ \A i \in S, j \in Stored \ S : i < j

SqsReceive(S) ==
  /\ Deliverable(S)
  /\ hidden' = S
  /\ UNCHANGED <<sent, acked>>

\* A receive that returns as much as it may.
FullBatch(S) == Cardinality(S) = BatchSize \/ S = Stored

\* Mutant: a receipt handle outlives its message.
SqsDelete_KeepsHandle(D) ==
  /\ acked' = acked \cup (D \cap hidden)
  /\ UNCHANGED <<sent, hidden>>

\* delete_messages for D: a handle that has expired deletes nothing, and the
\* callers never look at the entries that failed.
SqsDelete(D) ==
  /\ acked' = acked \cup (D \cap hidden)
  /\ hidden' = hidden \ D
  /\ UNCHANGED sent

\* The visibility timeout of the batch in flight passes.
SqsExpire ==
  /\ hidden # {}
  /\ hidden' = {}
  /\ UNCHANGED <<sent, acked>>
==============================================================================
