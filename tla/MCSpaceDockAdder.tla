-------------------------- MODULE MCSpaceDockAdder --------------------------
(* A small instance of SpaceDockAdder for TLC: one game, two mods.         *)
EXTENDS SpaceDockAdder

CONSTANTS ksp, ksp2, f1, f2

OneGame == {ksp}
TwoFiles == {f1, f2}
HomeKsp == [f \in TwoFiles |-> ksp]
NoProps == {{}}
MCContents == Built \cup {Frozen, Edited}

Request(g, f, link, body) == [game |-> g, file |-> f, link |-> link, body |-> body]

\* A mod on GitHub, and a request for it with another link and too long a text; a
\* second mod, without a text; requests with a malformed link and without a name;
\* and one of a game that is not configured.
Requests ==
  {Request(ksp, f1, "github", "fits"), Request(ksp, f1, "elsewhere", "long"),
   Request(ksp, f2, "github", "none"), Request(ksp, f2, "malformed", "fits"),
   Request(ksp, Nameless, "elsewhere", "fits"), Request(ksp2, f2, "elsewhere", "fits")}
==============================================================================
