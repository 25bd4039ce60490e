------------------------------ MODULE MCIndexer ------------------------------
(* Small instances of the Indexer for TLC: one game with two mods, or two   *)
(* games with a mod of the same name each; one file each, two contents.     *)
EXTENDS IndexerInv

CONSTANTS ksp, ksp2, ksp3, m1, m2, f1, f2, c1, c2

OneGame == {ksp}
TwoGames == {ksp, ksp2}
TwoFiles == {f1, f2}
TwoContents == {c1, c2}
MCMods == {m1, m2}

HomeKsp == [f \in TwoFiles |-> ksp]
HomeEach == [f \in TwoFiles |-> IF f = f1 THEN ksp ELSE ksp2]

Message(g, f, c, isStaged, ok) ==
  [game |-> g, mod |-> IF f = f2 /\ g = ksp THEN m2 ELSE m1, file |-> f, content |-> c,
   staged |-> isStaged, success |-> ok]

\* Staged messages for both files, and an unstaged one for the second.
Mixed ==
  {Message(ksp, f1, c1, TRUE, TRUE), Message(ksp, f1, c2, TRUE, TRUE),
   Message(ksp, f2, c1, TRUE, TRUE), Message(ksp, f2, c1, FALSE, TRUE)}

\* One file for each of two games: two contents of the first and a failed
\* inflation, the second staged or not, and a game that is not configured.
Across ==
  {Message(ksp, f1, c1, FALSE, TRUE), Message(ksp, f1, c2, FALSE, TRUE),
   Message(ksp, f1, c1, FALSE, FALSE), Message(ksp2, f2, c1, FALSE, TRUE),
   Message(ksp2, f2, c2, TRUE, TRUE), Message(ksp3, f1, c1, FALSE, TRUE)}
==============================================================================
