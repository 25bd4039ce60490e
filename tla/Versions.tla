------------------------------- MODULE Versions -------------------------------
(***************************************************************************)
(* The order of versions (Ckan.Version in metadata.py) and the choice of   *)
(* the newest release of a mod (repos.py).                                 *)
(*                                                                         *)
(* A version is an epoch and its parts, each a string without digits and   *)
(* the number after it.  Of a string the order sees whether it begins with *)
(* a dot, and the rest: 0 when there is none, else its place among others. *)
(***************************************************************************)
EXTENDS Integers, FiniteSetsExt, SequencesExt

Strings == [dot : BOOLEAN, rest : Nat]
Empty == [dot |-> FALSE, rest |-> 0]   \* before a version's first digit
Dot == [dot |-> TRUE, rest |-> 0]

Version ==
  {v \in [epoch : Nat, parts : Seq([string : Strings, number : Nat])] :
     \A i \in DOMAIN v.parts : i > 1 => v.parts[i].string # Empty}

\* _string_compare: nothing comes first, a dot alone last; longer strings that
\* begin with a dot are equal.
StringGt(s, t) ==
  IF s = Empty \/ t = Empty THEN s # Empty
  ELSE IF s.dot # t.dot THEN s.dot
  ELSE IF s.dot THEN s.rest = 0 /\ t.rest > 0
  ELSE s.rest > t.rest

PartGt(p, q) ==
  \/ StringGt(p.string, q.string)
  \/ ~StringGt(q.string, p.string) /\ p.number > q.number   \* _number_compare

\* Mutant: whichever ends first is the higher one for whoever asks.
Gt_Ends(v, w) ==
  \/ v.epoch > w.epoch
  \/ /\ v.epoch = w.epoch
     /\ LET common == DOMAIN v.parts \cap DOMAIN w.parts
            differ == {i \in common : PartGt(v.parts[i], w.parts[i])
                                        \/ PartGt(w.parts[i], v.parts[i])}
        IN IF differ = {} THEN Len(v.parts) # Len(w.parts)
           ELSE PartGt(v.parts[Min(differ)], w.parts[Min(differ)])

\* v > w: the first part that differs decides; a version is above its prefixes.
Gt(v, w) ==
  \/ v.epoch > w.epoch
  \/ /\ v.epoch = w.epoch
     /\ LET common == DOMAIN v.parts \cap DOMAIN w.parts
            differ == {i \in common : PartGt(v.parts[i], w.parts[i])
                                        \/ PartGt(w.parts[i], v.parts[i])}
        IN IF differ = {} THEN Len(v.parts) > Len(w.parts)
           ELSE PartGt(v.parts[Min(differ)], w.parts[Min(differ)])

\* highest_version_module: max over the files in the order glob gives them,
\* which keeps the first of equals; releases are records with a version and a
\* prerelease flag.
Highest(releases, prerelease, none) ==
  FoldLeft(LAMBDA best, r :
             IF r.prerelease # prerelease THEN best
             ELSE IF best = none THEN r
             ELSE IF Gt(r.version, best.version) THEN r ELSE best,
           none, releases)
===============================================================================
