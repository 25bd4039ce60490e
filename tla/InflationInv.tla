---------------------------- MODULE InflationInv ----------------------------
(***************************************************************************)
(* The inductive invariant behind the safety properties of Inflation, in   *)
(* the parts the proofs of InflationProofs take one by one.                *)
(***************************************************************************)
EXTENDS Inflation

\* What a task has still to look at are files of its game, each once.
Looking ==
  \A k \in Tasks : left[k] # Off =>
    /\ left[k] \in Seq(ToSet(Listing[Game(k)]) \X Contents)
    /\ \A i, j \in DOMAIN left[k] : left[k][i][1] = left[k][j][1] => i = j

\* The mods a request is for were sent, or their files are still looked at.
Answering ==
  /\ AnsweredIsQueued
  /\ request # Off =>
       /\ files \in Seq(ToSet(Listing[request]) \X (Contents \cup {Absent}))
       /\ \A m \in asked : m \in hooked \/ \E i \in DOMAIN files : files[i][1] = m

\* What of the messages to come is for game g.
TaskOwes(k, g) == IF left[k] # Off /\ Game(k) = g THEN Cardinality(Wanted(left[k], Group(k))) ELSE 0
HookOwes(g) == IF request = g THEN Cardinality(Wanted(files, Contents)) ELSE 0

\* The mods a task has an older content of.
Stale == {m \in Mods : \E k \in Tasks : left[k] # Off /\
            \E i \in DOMAIN left[k] : left[k][i][1] = m /\ left[k][i][2] # netkan[m]}

\* Every one of them took an edit, and the request at work was one event more.
Counted ==
  /\ IsFiniteSet(Stale)
  /\ Cardinality(Stale) + (IF request = Off THEN 0 ELSE 1) <= events
  /\ \A g \in GameIds : HookOwes(g) <= MaxRequest

Limit == Max({MaxQueued[k] : k \in Tasks})

\* QueueBounded, with the messages to come.
Bounded ==
  \A g \in GameIds :
    Len(queue[g]) + TaskOwes("nonhooks", g) + TaskOwes("webhooks", g) + HookOwes(g)
      <= Limit + Len(Listing[g]) + events * MaxRequest

InflationInv == TypeOK /\ Looking /\ Answering /\ Counted /\ Bounded
==============================================================================
