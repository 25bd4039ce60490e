----------------------------- MODULE MCInflation -----------------------------
(* A small instance of Inflation for TLC: two games, three mods and one.   *)
EXTENDS InflationInv, TLC

CONSTANTS g1, g2, a, b, c, d, h1, p1, odd, garbled

TwoGames == <<g1, g2>>
Mods31 == g1 :> <<a, b, c>> @@ g2 :> <<d>>
Hook == {h1}
Poll == {p1}
OddOnes == {odd}
NoYaml == {garbled}
OneWorld == {a :> p1 @@ b :> h1 @@ c :> odd @@ d :> p1}
Limits == [nonhooks |-> 0, webhooks |-> 1]
SomeRequests == {<<>>, <<c, b, a>>}
SomeEdits == {<<a, h1>>, <<b, garbled>>, <<c, p1>>, <<c, Absent>>}
==============================================================================
