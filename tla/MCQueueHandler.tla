--------------------------- MODULE MCQueueHandler ---------------------------
(* A small instance of QueueHandler for TLC: a message is no more than the *)
(* game it is for.                                                         *)
EXTENDS QueueHandler

CONSTANTS ksp, ksp2, ksp3

MCGames == {ksp, ksp2}

\* Messages of the two games and messages without GameId.
Tagged == {[game |-> g] : g \in MCGames \cup {NoGame}}

\* ... and messages of a game the service has no configuration for.
Strange == Tagged \cup {[game |-> ksp3]}
==============================================================================
