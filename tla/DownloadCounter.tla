--------------------------- MODULE DownloadCounter ---------------------------
(***************************************************************************)
(* The Download Counter (netkan/download_counter.py): once a day it walks  *)
(* through the newest release of every mod, asks the hosts of its files    *)
(* for their downloads, GitHub, SpaceDock and archive.org in batches, and  *)
(* pushes the sums to CKAN-meta as one file.  The task has one run after   *)
(* the other, one for each game: here is that of the first, since a run    *)
(* that ends in an exception ends the task.                                *)
(*                                                                         *)
(* Mods are numbered in the order of the directories.  A download is a     *)
(* host and a source there (a repository, a mod's number, an item, a       *)
(* project); mods may share a source.                                      *)
(***************************************************************************)
EXTENDS Versions

CONSTANTS
  Mods,        \* 1 .. n
  Worlds,      \* what CKAN-meta may hold, a sequence of releases per mod
  Hosts,       \* the hosts asked, and others
  Sources, Count,  \* Count[s]: how often source s was downloaded
  Dead,        \* sources the host knows nothing of any more
  PerQuery, PerRequest,   \* MODULES_PER_GRAPHQL, MODULES_PER_REQUEST
  NoRelease, Off,
  MaxFaults,   \* bound on requests that fail or are answered in part
  MaxPushes    \* bound on what others push to CKAN-meta

Counted == {"github", "spacedock", "archive", "sourceforge"}   \* hosts asked
Download == [host : Hosts, source : Sources]
\* A file of CKAN-meta: readable when it is JSON with the version that max asks
\* for, complete when it has what Ckan.downloads needs: the download, licenses.
Release ==
  [version : Version, prerelease : BOOLEAN, dlc : BOOLEAN, downloads : Seq(Download),
   readable : BOOLEAN, complete : BOOLEAN]

ASSUME CounterAssumption ==
  /\ IsFiniteSet(Mods) /\ Mods = 1 .. Cardinality(Mods)
  /\ Worlds \subseteq [Mods -> Seq(Release)] /\ NoRelease \notin Release
  /\ Counted \subseteq Hosts
  /\ Count \in [Sources -> Nat] /\ Dead \subseteq Sources
  /\ PerQuery \in Nat \ {0} /\ PerRequest \in Nat \ {0}
  /\ MaxFaults \in Nat /\ MaxPushes \in Nat
  /\ Off \notin [Mods -> Nat] /\ Off \notin Mods \X Sources

VARIABLES
  releases,  \* the releases of each mod in CKAN-meta
  newest,    \* all_latest_modules: the newest of each mod walked, or NoRelease
  stage,     \* where the run is
  work,      \* <<mod, download>> still to look at
  repos, requests, cache,  \* GitHubBatchedQuery
  sdIds,     \* SpaceDockBatchedQuery: the mod's source
  iaIds,     \* InternetArchiveBatchedQuery: mods and sources, or NoQuery
  counts,    \* 0 also for a mod that has no entry
  due,       \* what all living sources of each mod have, or Off (see Plain)
  answered,  \* <<mod, source>> a host answered for in this run
  failed,    \* did a request of this run fail
  published, \* the file in the repository
  behind,    \* did others push since the pull
  faults, pushes

github == <<repos, requests, cache>>
queries == <<github, sdIds, iaIds>>
file == <<published, behind, pushes>>
meta == <<releases, newest, due>>
vars == <<meta, stage, work, queries, counts, answered, failed, file, faults>>

\* highest_version_module reads all files of the mod.
Newest(m) == Highest(releases[m], FALSE, NoRelease)

\* What the walk evaluates outside of its try: a release that cannot be read, or
\* a newest one without a download, ends the run there.
Raises(m) ==
  \E r \in ToSet(releases[m]) :
    ~r.readable \/ (~r.complete /\ ~r.dlc /\ r = Newest(m))

\* The mods a walk gets to.
Walked == {m \in Mods : \A n \in 1 .. m : ~Raises(n)}

Latest(m) == IF m \in Walked THEN Newest(m) ELSE NoRelease

Downloads(r) == IF r = NoRelease \/ r.dlc THEN <<>> ELSE r.downloads
OfHost(m, hosts) == {d \in ToSet(Downloads(newest[m])) : d.host \in hosts}
From(m, hosts) == {d.source : d \in OfHost(m, hosts)}

\* One download at each host that is asked (or the same mod of SpaceDock again),
\* and on GitHub no repository that a mod with two of them has.
Plain(m) ==
  /\ \A i, j \in DOMAIN Downloads(newest[m]) :
       LET d == Downloads(newest[m])[i]
           e == Downloads(newest[m])[j]
       IN {d.host, e.host} \subseteq Counted /\ (d.host = e.host \/ d.source = e.source) =>
            i = j \/ (d = e /\ d.host = "spacedock")
  /\ \A n \in Mods : \A s, t \in From(n, {"github"}) :
       s \in From(m, {"github"}) => s = t

AllSources(m) == From(m, Counted) \ Dead

SumOf(S) == FoldSet(LAMBDA s, n : Count[s] + n, 0, S)

None == <<>>   \* an empty dictionary
Put(dict, key, value) ==
  [k \in DOMAIN dict \cup {key} |-> IF k = key THEN value ELSE dict[k]]
NoQuery == {Off}   \* archive.org is not asked any more

TypeOK ==
  /\ releases \in [Mods -> Seq(Release)]
  /\ due = Off \/ due \in [Mods -> Nat]
  /\ DOMAIN newest = Mods
  /\ \A m \in Mods : newest[m] = NoRelease \/ newest[m] \in ToSet(releases[m])
  /\ stage \in {"off", "walk", "ask", "spacedock", "github", "archive", "write", "push"}
  /\ work \in Seq(Mods \X Download)
  /\ DOMAIN repos \subseteq Mods /\ repos \in [DOMAIN repos -> Sources]
  /\ DOMAIN cache \subseteq Sources /\ cache \in [DOMAIN cache -> Nat]
  /\ requests \in Seq([source : Sources, mod : Mods])
  /\ \A i, j \in DOMAIN requests : requests[i].source = requests[j].source => i = j
  /\ DOMAIN sdIds \subseteq Mods /\ sdIds \in [DOMAIN sdIds -> Sources]
  /\ iaIds = NoQuery \/ iaIds \subseteq Mods \X Sources
  /\ counts \in [Mods -> Nat] /\ published \in [Mods -> Nat]
  /\ answered \subseteq Mods \X Sources
  /\ failed \in BOOLEAN /\ behind \in BOOLEAN
  /\ faults \in 0 .. MaxFaults /\ pushes \in 0 .. MaxPushes

NewQueries ==
  /\ repos' = None /\ requests' = <<>> /\ cache' = None
  /\ sdIds' = None /\ iaIds' = {}

Init ==
  /\ releases \in Worlds
  /\ newest = [m \in Mods |-> NoRelease] /\ due = Off
  /\ stage = "off" /\ work = <<>>
  /\ repos = None /\ requests = <<>> /\ cache = None /\ sdIds = None /\ iaIds = {}
  /\ counts = [m \in Mods |-> 0] /\ published = [m \in Mods |-> 0]
  /\ answered = {} /\ failed = FALSE /\ behind = FALSE /\ faults = 0 /\ pushes = 0

-----------------------------------------------------------------------------
(* The batches for GitHub.                                                 *)

\* Not: nothing is left to ask; there may be cached counts to return.
GraphEmpty == DOMAIN repos = {}

\* Mutant: only the first query is sent.
Queried_First == 1 .. Min({PerQuery, Len(requests)})

Queried == DOMAIN requests

\* batched: request i is in query Query(i).
Query(i) == (i - 1) \div PerQuery

\* GitHub refuses a query with two requests of one name, and leaves out the
\* repositories it does not know.
Answerable ==
  {i \in Queried :
     /\ requests[i].source \notin Dead
     /\ \A j, k \in {n \in DOMAIN requests : Query(n) = Query(i)} :
          requests[j].mod = requests[k].mod => j = k}

\* The answers ok go to the cache under the repository of the mod.
Cached(ok) ==
  LET by(u) == {i \in ok : LET m == requests[i].mod IN m \in DOMAIN repos /\ repos[m] = u}
  IN [u \in DOMAIN cache \cup {s \in Sources : by(s) # {}} |->
        IF by(u) = {} THEN cache[u] ELSE Count[requests[Max(by(u))].source]]

Heard(ok) ==
  LET sources == {requests[i].source : i \in ok}
  IN answered \cup {p \in Mods \X sources : p[2] \in From(p[1], {"github"})}

\* Mutant: a mod that got its count stays in the query.
Remaining_All(done) == repos

Remaining(done) == Restrict(repos, DOMAIN repos \ done)

Unanswered(sources) ==
  FoldLeft(LAMBDA left, q : IF q.source \in sources THEN left ELSE Append(left, q),
           <<>>, requests)

\* get_result with the answers ok: the cache, then the counts of all mods whose
\* repository is in it, which leave the query.
GraphResult(ok) ==
  /\ cache' = Cached(ok)
  /\ \E done \in {{m \in DOMAIN repos : repos[m] \in DOMAIN cache'}} :
       /\ counts' = [m \in Mods |-> counts[m] + IF m \in done THEN cache'[repos[m]] ELSE 0]
       /\ repos' = Remaining(done)
       /\ requests' = Unanswered({repos[m] : m \in done})
  /\ answered' = Heard(ok)

Fails == faults < MaxFaults /\ faults' = faults + 1 /\ failed' = TRUE
Works == UNCHANGED <<faults, failed>>

\* Five attempts, a wait after each refusal; no answer in the end, or a part.
AskGitHub ==
  \/ \E ok \in {Answerable} : GraphResult(ok) /\ Works
  \/ \E ok \in SUBSET Answerable : GraphResult(ok) /\ Fails

-----------------------------------------------------------------------------
(* The walk through the newest releases.                                   *)

\* A task of its own, on a new clone; the counts start from nothing.
Start ==
  /\ stage = "off"
  /\ stage' = "walk"
  /\ \E latest \in {[m \in Mods |-> Latest(m)]} :
       /\ newest' = latest
       /\ \E found \in {[m \in Mods |-> [i \in DOMAIN Downloads(latest[m]) |->
                                          <<m, Downloads(latest[m])[i]>>]]} :
            work' = FoldLeft(LAMBDA all, some : all \o some, <<>>, found)
  /\ NewQueries
  /\ counts' = [m \in Mods |-> 0]
  /\ answered' = {} /\ failed' = FALSE /\ behind' = FALSE
  /\ UNCHANGED <<releases, due, published, pushes, faults>>

Look(host) ==
  /\ stage = "walk" /\ work # <<>> /\ Head(work)[2].host = host
  /\ work' = Tail(work)
  /\ UNCHANGED <<meta, file>>

CurrentMod == Head(work)[1]
Source == Head(work)[2].source

Full(asked) == Len(asked) >= PerQuery

\* Mutant: a request that waits for its answer is forgotten.
Unasked_Cache(source) == source \notin DOMAIN cache

Unasked(source) == source \notin DOMAIN cache \cup {q.source : q \in ToSet(requests)}

\* add: the mod's repository, and a request for it unless there is one or the
\* count is known.
LookGitHub ==
  /\ Look("github")
  /\ repos' = Put(repos, CurrentMod, Source)
  /\ requests' = IF Unasked(Source)
                 THEN Append(requests, [source |-> Source, mod |-> CurrentMod]) ELSE requests
  /\ stage' = IF Full(requests') THEN "ask" ELSE "walk"
  /\ UNCHANGED <<cache, sdIds, iaIds, counts, answered>> /\ Works

AskFull ==
  /\ stage = "ask" /\ stage' = "walk"
  /\ AskGitHub
  /\ UNCHANGED <<meta, work, sdIds, iaIds, file>>

\* A query raises, and its exception is logged: what the ones before it were
\* answered is in the cache.
AskRaises ==
  /\ stage = "ask" /\ stage' = "walk"
  /\ \E ok \in SUBSET Answerable :
       /\ \A i \in ok : Query(i) < Query(Len(requests))
       /\ cache' = Cached(ok)
       /\ answered' = Heard(ok)
  /\ Fails
  /\ UNCHANGED <<meta, work, repos, requests, sdIds, iaIds, counts, file>>

LookSpaceDock ==
  /\ Look("spacedock")
  /\ stage' = "walk"
  /\ sdIds' = Put(sdIds, CurrentMod, Source)
  /\ UNCHANGED <<github, iaIds, counts, answered>> /\ Works

\* The counts of the mods and sources in got.
Credit(got) ==
  /\ counts' = [m \in Mods |-> counts[m] +
                  SumOf({p[2] : p \in {q \in got : q[1] = m}})]
  /\ answered' = answered \cup got

Living(ids) == {p \in ids : p[2] \notin Dead}

\* Items without a count in the answer are logged.
AskArchive(ids) ==
  \/ Credit(Living(ids)) /\ Works
  \/ \E got \in SUBSET Living(ids) : Credit(got) /\ Fails

LookArchive ==
  /\ Look("archive") /\ iaIds # NoQuery
  /\ stage' = "walk"
  /\ LET ids == {p \in iaIds : p[1] # CurrentMod} \cup {<<CurrentMod, Source>>} IN
       IF Cardinality(ids) >= PerRequest
       THEN \/ AskArchive(ids) /\ iaIds' = {}
            \* ConnectTimeout turns counting off, another error is logged only
            \/ iaIds' \in {NoQuery, ids} /\ Fails /\ UNCHANGED <<counts, answered>>
       ELSE iaIds' = ids /\ UNCHANGED <<counts, answered>> /\ Works
  /\ UNCHANGED <<github, sdIds>>

LookSourceForge ==
  /\ Look("sourceforge")
  /\ stage' = "walk"
  /\ \/ Credit(Living({<<CurrentMod, Source>>})) /\ Works
     \/ UNCHANGED <<counts, answered>> /\ Fails
  /\ UNCHANGED queries

LookElsewhere ==
  /\ stage' = "walk"
  /\ \/ Look("archive") /\ iaIds = NoQuery
     \/ \E h \in Hosts \ Counted : Look(h)
  /\ UNCHANGED <<queries, counts, answered>> /\ Works

WalkEnds ==
  /\ stage = "walk" /\ work = <<>> /\ Walked = Mods
  /\ stage' = "spacedock"
  /\ due' = IF \A m \in Mods : Plain(m) THEN [m \in Mods |-> SumOf(AllSources(m))] ELSE Off
  /\ UNCHANGED <<releases, newest, work, queries, counts, answered, file>> /\ Works

\* On every day, until people repair the file.
WalkRaises ==
  /\ stage = "walk" /\ work = <<>> /\ Walked # Mods
  /\ stage' = "off"
  /\ NewQueries
  /\ UNCHANGED <<meta, work, counts, answered, file>> /\ Works

-----------------------------------------------------------------------------
(* The last requests, outside of the try: an exception ends the run.       *)

SpaceDockIds == {<<m, sdIds[m]>> : m \in DOMAIN sdIds}

LastSpaceDock ==
  /\ stage = "spacedock"
  /\ \/ Credit(Living(SpaceDockIds)) /\ Works
     \/ DOMAIN sdIds # {} /\ \E got \in SUBSET Living(SpaceDockIds) : Credit(got) /\ Fails
  /\ stage' = "github"
  /\ UNCHANGED <<meta, work, queries, file>>

LastGitHub ==
  /\ stage = "github"
  /\ IF GraphEmpty THEN UNCHANGED <<github, counts, answered>> /\ Works
                   ELSE AskGitHub
  /\ stage' = "archive"
  /\ UNCHANGED <<meta, work, sdIds, iaIds, file>>

LastArchive ==
  /\ stage = "archive"
  /\ IF iaIds \in {NoQuery, {}} THEN UNCHANGED <<counts, answered>> /\ Works ELSE AskArchive(iaIds)
  /\ stage' = "write"
  /\ UNCHANGED <<meta, work, queries, file>>

\* Also when the process is stopped.
RunRaises ==
  /\ stage # "off"
  /\ Fails
  /\ stage' = "off" /\ work' = <<>>
  /\ NewQueries
  /\ UNCHANGED <<meta, counts, answered, file>>

-----------------------------------------------------------------------------
(* The file.                                                               *)

\* Mutant: only a file that was not there is committed.
Changed_New == published = [m \in Mods |-> 0] /\ counts # published

Changed == counts # published

\* Pull, write the file, and commit it if it differs.
Write ==
  /\ stage = "write"
  /\ behind' = FALSE
  /\ stage' = IF Changed THEN "push" ELSE "off"
  /\ NewQueries
  /\ UNCHANGED <<meta, work, counts, answered, published, pushes>> /\ Works

\* push_remote_primary: a refusal is not looked at.
Push ==
  /\ stage = "push"
  /\ published' = IF behind THEN published ELSE counts
  /\ stage' = "off"
  /\ UNCHANGED <<meta, work, queries, counts, answered, behind, pushes>> /\ Works

OthersPush ==
  /\ pushes < MaxPushes /\ pushes' = pushes + 1
  /\ stage # "off" /\ behind' = TRUE
  /\ UNCHANGED <<meta, stage, work, queries, counts, answered, published>> /\ Works

Run ==
  \/ LookGitHub
  \/ AskFull
  \/ LookSpaceDock
  \/ LookArchive
  \/ LookSourceForge
  \/ LookElsewhere
  \/ WalkEnds
  \/ WalkRaises
  \/ LastSpaceDock
  \/ LastGitHub
  \/ LastArchive
  \/ Write
  \/ Push

Next ==
  \/ Start
  \/ Run
  \/ AskRaises
  \/ RunRaises
  \/ OthersPush

\* The task is started every day, and a run takes its steps.
FairSpec == Init /\ [][Next]_vars /\ []<>(stage # "off") /\ WF_vars(Run)

-----------------------------------------------------------------------------
(* Properties.                                                             *)

Ready == stage \in {"write", "push"}

\* The file has for each mod the sum of the sources that answered for it, each
\* once: whichever batch a request was in, whoever shares the repository,
\* however often a query was repeated.  (Not for mods with two downloads on one
\* host: add forgets the first repository, and counts the same one again when its
\* batch was sent in between.  Nor for those that share such a repository.)
CountedOnce ==
  Ready => \A m \in Mods : Plain(m) =>
             counts[m] = SumOf({s \in Sources : <<m, s>> \in answered})

\* When no request failed, no living source was left out: not for the batch it
\* was in, nor for the dead repositories that fill one.
NoneLeftOut ==
  Ready /\ ~failed /\ due # Off =>
    \A m \in Mods : \A s \in AllSources(m) : <<m, s>> \in answered

\* The release whose downloads are counted has no newer one, in whatever order
\* the files of a mod are listed; for each mod that the walk gets to.
NewestHasNoNewer ==
  \A m \in Walked :
    LET stable == {i \in DOMAIN releases[m] : ~releases[m][i].prerelease} IN
      stage # "off" =>
        IF stable = {} THEN newest[m] = NoRelease
        ELSE \A i \in stable : ~Gt(releases[m][i].version, newest[m].version)

\* In the end the file is right and stays so: a run that fails or is refused its
\* push leaves the file as it was or short, and a run of some later day makes up
\* for it.  (Not while a file of CKAN-meta raises outside of the try: then no run
\* gets through the walk, and nothing is written for this game nor for the others.)
FileIsRight ==
  Walked = Mods /\ <>[](due # Off) => <>[](published = due)
===============================================================================
