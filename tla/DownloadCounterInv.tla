-------------------------- MODULE DownloadCounterInv --------------------------
(***************************************************************************)
(* The inductive invariant of DownloadCounter: where each download of a    *)
(* mod is on its way from the walk through the queries to the sums.        *)
(***************************************************************************)
EXTENDS DownloadCounter

Of(m) == ToSet(Downloads(newest[m]))

\* The stages in which SpaceDock, GitHub and archive.org will still be asked,
\* and those with the queries of a run.
BeforeSpaceDock == stage \in {"walk", "ask", "spacedock"}
BeforeGitHub == BeforeSpaceDock \/ stage = "github"
BeforeArchive == BeforeGitHub \/ stage = "archive"
Asking == BeforeArchive \/ stage = "write"

InWork(m, h, s) == <<m, [host |-> h, source |-> s]>> \in ToSet(work)

\* The walk goes through the newest releases, and the queries of a run end with it.
Position ==
  /\ stage # "off" => newest = [m \in Mods |-> Latest(m)]
  /\ stage \notin {"walk", "ask"} => work = <<>>
  /\ \A p \in ToSet(work) : p[2] \in Of(p[1])
  /\ ~Asking => DOMAIN repos = {}
  /\ stage \in {"spacedock", "github", "archive", "write", "push"} /\ due # Off =>
       \A m \in Mods : Plain(m)

\* What the queries ask for, and what was answered, are downloads of the mods.
Origin ==
  /\ \A m \in DOMAIN repos : repos[m] \in From(m, {"github"})
  /\ \A q \in ToSet(requests) : q.source \in From(q.mod, {"github"})
  /\ \A m \in DOMAIN sdIds : sdIds[m] \in From(m, {"spacedock"})
  /\ iaIds # NoQuery =>
       /\ \A p \in iaIds : p[2] \in From(p[1], {"archive"})
       /\ \A p, q \in iaIds : p[1] = q[1] => p = q
  /\ \A p \in answered : p[2] \in From(p[1], Counted)

\* A download of a plain mod waits in one place.
WaitsOnce(m) ==
  /\ \A i, j \in DOMAIN work :
       /\ work[i] = work[j] /\ work[i][1] = m
       /\ work[i][2].host \in {"github", "archive", "sourceforge"}
       => i = j
  /\ m \in DOMAIN repos => \A s \in Sources : ~InWork(m, "github", s)
  /\ iaIds # NoQuery =>
       \A s, t \in Sources : <<m, s>> \in iaIds => ~InWork(m, "archive", t)

\* What waits has not been answered for, but for GitHub, which answers for all
\* mods at once.
Unheard(m) ==
  /\ \A h \in Counted \ {"github"}, s \in Sources : InWork(m, h, s) => <<m, s>> \notin answered
  /\ BeforeSpaceDock /\ m \in DOMAIN sdIds => <<m, sdIds[m]>> \notin answered
  /\ BeforeArchive /\ iaIds # NoQuery =>
       \A s \in Sources : <<m, s>> \in iaIds => <<m, s>> \notin answered

\* The cache has what GitHub answered for plain mods, and nothing else of theirs.
\* A mod is in the query until its count is in the cache; a request is of such a mod.
Known(m) ==
  \A s \in From(m, {"github"}) :
    /\ s \in DOMAIN cache => cache[s] = Count[s] /\ <<m, s>> \in answered
    /\ Asking /\ <<m, s>> \in answered => s \in DOMAIN cache
    /\ Asking => InWork(m, "github", s) \/ m \in DOMAIN repos \/ <<m, s>> \in answered
    /\ \A q \in ToSet(requests) : q.source = s => q.mod \in DOMAIN repos
    /\ Asking /\ ~BeforeGitHub /\ m \in DOMAIN repos => <<m, s>> \notin answered

\* Answered for by GitHub, but not counted for this mod yet.
Waits(m, s) == s \in From(m, {"github"}) /\ (InWork(m, "github", s) \/ m \in DOMAIN repos)

Got(m) == {s \in Sources : <<m, s>> \in answered /\ ~Waits(m, s)}

Summed(m) == stage # "off" => counts[m] = SumOf(Got(m))

\* While no request has failed, a download is in work, was answered for, or waits
\* in a query that will be sent.
Reached(m) ==
  \A h \in Counted : \A s \in From(m, {h}) \ Dead :
    \/ InWork(m, h, s) \/ <<m, s>> \in answered
    \/ h = "github" /\ BeforeGitHub /\ \E q \in ToSet(requests) : q.source = s
    \/ h = "spacedock" /\ BeforeSpaceDock /\ m \in DOMAIN sdIds /\ sdIds[m] = s
    \/ h = "archive" /\ BeforeArchive /\ <<m, s>> \in iaIds

AllReached ==
  stage # "off" /\ ~failed =>
    /\ iaIds # NoQuery
    /\ (\A m \in Mods : Plain(m)) => \A m \in Mods : Reached(m)

\* The inductive invariant.
CounterInv ==
  /\ TypeOK /\ Position /\ Origin
  /\ \A m \in Mods : Plain(m) => WaitsOnce(m) /\ Unheard(m) /\ Known(m) /\ Summed(m)
  /\ AllReached
===============================================================================
