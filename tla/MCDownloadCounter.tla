-------------------------- MODULE MCDownloadCounter --------------------------
(* Small instances of DownloadCounter for TLC: four mods.                  *)
EXTENDS DownloadCounterInv, TLC

FourMods == 1 .. 4
AllHosts == {"github", "spacedock", "archive", "sourceforge", "other"}
Counts == "r1" :> 1 @@ "r2" :> 10 @@ "r3" :> 100 @@ "gone" :> 1000 @@ "lost" :> 2000 @@
          "sd" :> 10000 @@ "ia1" :> 100000 @@ "ia2" :> 200000 @@ "sf" :> 1000000
AllSourceNames == DOMAIN Counts
DeadSources == {"gone", "lost"}

P(s, n) == [string |-> s, number |-> n]
Letter(n) == [dot |-> FALSE, rest |-> n]
DotAnd(n) == [dot |-> TRUE, rest |-> n]
V(epoch, parts) == [epoch |-> epoch, parts |-> parts]
V1 == V(0, <<P(Empty, 1)>>)                       \* 1
V1d2 == V(0, <<P(Empty, 1), P(Dot, 2)>>)          \* 1.2
V1b2 == V(0, <<P(Empty, 1), P(Letter(2), 2)>>)    \* 1b2
Vv1 == V(0, <<P(Letter(3), 1)>>)                  \* v1
V1x == V(0, <<P(Empty, 1), P(DotAnd(1), 2)>>)     \* 1.x2
V1y == V(0, <<P(Empty, 1), P(DotAnd(2), 3)>>)     \* 1.y3
E1 == V(1, <<P(Empty, 0)>>)                       \* 1:0
AllVersions == {V1, V1d2, V1b2, Vv1, V1x, V1y, E1}

D(h, s) == [host |-> h, source |-> s]
R(v, ds) == [version |-> v, prerelease |-> FALSE, dlc |-> FALSE, downloads |-> ds,
             readable |-> TRUE, complete |-> TRUE]
Pre(v) == [R(v, <<D("github", "r3")>>) EXCEPT !.prerelease = TRUE]
Dlc(v) == [R(v, <<D("github", "r3")>>) EXCEPT !.dlc = TRUE, !.complete = FALSE]
Unread(v) == [R(v, <<>>) EXCEPT !.readable = FALSE]
Incomplete(v) == [R(v, <<>>) EXCEPT !.complete = FALSE]
One(ds) == <<R(V1, ds)>>
Gh(s) == D("github", s)

\* Releases in every order, the newest of three to be found; the others share
\* repositories, have several hosts, lost theirs, or break the rules.
Orders == {<<R(u, <<>>), R(v, <<Gh("r1")>>), Pre(E1), R(w, <<D("other", "r1")>>)>> :
             u, v, w \in AllVersions}
Batches ==
  {One(<<Gh("r1"), D("spacedock", "sd")>>), One(<<Gh("gone")>>), One(<<Gh("r2")>>)}
Lost == {<<One(<<Gh("gone")>>), One(<<Gh("lost")>>), a, b>> : a, b \in Batches}
Mixed ==
  {One(<<D("archive", "ia1"), Gh("r1")>>), One(<<D("archive", "ia2"), D("sourceforge", "sf")>>),
   One(<<Gh("r1"), Gh("r1")>>), One(<<Gh("r1"), Gh("r2")>>), One(<<Gh("r3")>>)}
\* One file that no run gets past, or that is harmless below a newer release.
Raising ==
  {<<a, b, One(<<Gh("r2")>>), One(<<Gh("r1")>>)>> :
     a \in Batches,
     b \in {<<Incomplete(V1)>>, <<Unread(V1), R(V1d2, <<Gh("r1")>>)>>,
            <<Incomplete(V1), R(V1d2, <<Gh("r1")>>)>>}}
SmallWorlds ==
  {<<a, One(<<>>), <<Pre(V1)>>, <<Dlc(V1)>> >> : a \in Orders}
    \cup [Mods -> Batches] \cup Lost \cup Raising
    \cup {<<a, b, c, One(<<Gh("r1")>>)>> : a, b \in Mixed, c \in Batches}
===============================================================================
