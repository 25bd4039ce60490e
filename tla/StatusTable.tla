----------------------------- MODULE StatusTable -----------------------------
(***************************************************************************)
(* The status table (netkan/status.py) and those who write its rows: the   *)
(* Indexer, attribute by attribute; the Auto-Freezer (auto_freezer.py) and *)
(* two commands, which read whole rows and put whole rows back later; and  *)
(* the hook for frozen mods (webhooks/github_inflate.py).  The Freezer     *)
(* works on a clone of NetKAN (XkanRepo) and proposes to freeze mods; it   *)
(* is NetKAN of the first game of its task, which is the one the run       *)
(* reaches whatever goes wrong at the others.                              *)
(*                                                                         *)
(* A file stands for a mod: in NetKAN it is a .netkan file, which may be   *)
(* garbled so that nobody can read it, or a .frozen one.  Of a row the     *)
(* model keeps what somebody's decision depends on: the release date,      *)
(* whether there is a last_indexed, and frozen.                            *)
(***************************************************************************)
EXTENDS Sequences, XkanRepo

CONSTANTS
  Nk, FreezeAuto,    \* the repository and the Freezer's branch
  Netkan, Frozen,    \* the two forms of a mod's file
  Garbled,           \* a .netkan file without an identifier, or no YAML in UTF-8
  Dates, IdleDates,  \* release dates, and those between the Freezer's cutoffs
  NoDate, NoRow, Off,
  Worlds,            \* the release dates the mods may have at first
  Forms,             \* Forms[m]: what people may make of the file of mod m
  MaxFaults          \* bound on crashes and commands

ASSUME StatusAssumption ==
  /\ Repos = {Nk} /\ Topics = {FreezeAuto} /\ Contents = {Netkan, Garbled, Frozen}
  /\ Netkan # Frozen /\ Garbled \notin {Netkan, Frozen}
  /\ IdleDates \subseteq Dates /\ NoDate \notin Dates
  /\ Worlds \subseteq [Files -> Dates \cup {NoDate}] /\ Forms \in [Files -> SUBSET Contents]
  /\ Off \notin Files
  /\ NoRow \notin [release : Dates \cup {NoDate}, indexed : BOOLEAN, frozen : BOOLEAN]
  /\ MaxFaults \in Nat

VARIABLES
  world,    \* world[m]: the date of the newest release of mod m
  queue,    \* inflated metadata on its way to the Indexer, one per mod
  got,      \* the row the Indexer looked up: its mod and whether it exists
  table,    \* table[m]: the row of mod m, or NoRow
  dump,     \* the rows as they were last exported
  hooked,   \* frozen mods GitHub told the webhooks about
  marking,  \* the mod the hook is about to mark, or Off
  fz,       \* where the Freezer is
  unread,   \* unread[p]: the rows writer p has still to read
  puts,     \* <<p, m, row>>: writer p will put this row of m
  prs,      \* is there a pull request for FreezeAuto
  idled,    \* the mods whose newest release was idle at first
  faults

tableVars == <<queue, got, table, dump, world>>
hookVars == <<hooked, marking>>
freezerVars == <<fz, unread, puts, prs, idled>>
vars == <<tableVars, hookVars, freezerVars, repoVars, faults>>

Rows == [release : Dates \cup {NoDate}, indexed : BOOLEAN, frozen : BOOLEAN]
Writers == {"freezer", "recover", "restore"}

TypeOK ==
  /\ RepoTypeOK
  /\ world \in [Files -> Dates \cup {NoDate}]
  /\ queue \in Seq([mod : Files, release : Dates \cup {NoDate}])
  /\ got \in [mod : Files, exists : BOOLEAN] \cup {Off}
  /\ table \in [Files -> Rows \cup {NoRow}]
  /\ dump \in [Files -> Rows \cup {NoRow}]
  /\ hooked \subseteq Files
  /\ marking \in Files \cup {Off}
  /\ fz \in {"off", "find", "merge", "publish", "propose", "mark"}
  /\ unread \in [Writers -> SUBSET Files]
  /\ puts \subseteq Writers \X Files \X Rows
  /\ prs \in BOOLEAN
  /\ idled \subseteq Files
  /\ faults \in 0 .. MaxFaults

\* NetKAN has mods already; the table has no row yet.
Init ==
  /\ \E tree \in [Files -> Contents] :
       /\ \A m \in Files : tree[m] \in Forms[m]
       /\ remote = [b \in Branches |-> IF b = Nk THEN tree ELSE NoTree]
       /\ shown = [b \in Branches |-> IF b = Nk THEN PairsOf(tree) ELSE {}]
  /\ edited = {} /\ edits = 0
  /\ local = [b \in Branches |-> NoTree]
  /\ base = [b \in Branches |-> NoTree]
  /\ behind = [b \in Branches |-> FALSE]
  /\ unpushed = [b \in Branches |-> {}]
  /\ active = [r \in Repos |-> r]
  /\ world \in Worlds
  /\ queue = <<>> /\ got = Off
  /\ table = [m \in Files |-> NoRow] /\ dump = [m \in Files |-> NoRow]
  /\ hooked = {} /\ marking = Off
  /\ fz = "off" /\ unread = [p \in Writers |-> {}] /\ puts = {}
  /\ prs = FALSE /\ idled = {m \in Files : world[m] \in IdleDates} /\ faults = 0

-----------------------------------------------------------------------------
(* The Indexer: get, then update or save.                                  *)

\* Every .netkan file of a tree can be read.
Readable(tree) == \A m \in Files : tree[m] # Garbled

\* The Scheduler takes the mods that have a .netkan file, for ever.
Inflate(m) ==
  /\ remote[Nk][m] = Netkan
  /\ \A i \in DOMAIN queue : queue[i].mod # m
  /\ queue' = Append(queue, [mod |-> m, release |-> world[m]])
  /\ UNCHANGED <<got, table, dump, world, hookVars, freezerVars, repoVars, faults>>

IndexerGets ==
  /\ queue # <<>> /\ got = Off
  /\ got' = [mod |-> Head(queue).mod, exists |-> table[Head(queue).mod] # NoRow]
  /\ UNCHANGED <<queue, table, dump, world, hookVars, freezerVars, repoVars, faults>>

\* Mutant: frozen is written only into a new row.
Updated_Frozen(row, date, commit) ==
  [row EXCEPT !.release = IF date # NoDate THEN date ELSE @, !.indexed = @ \/ commit]

\* status_attrs: the attributes of an update; the others stay.
Updated(row, date, commit) ==
  [row EXCEPT !.release = IF date # NoDate THEN date ELSE @,
              !.indexed = @ \/ commit,
              !.frozen = FALSE]

\* Mutant: a row begins with the date of no release.
NewRow_Undated == [release |-> Off, indexed |-> FALSE, frozen |-> FALSE]

NewRow == [release |-> NoDate, indexed |-> FALSE, frozen |-> FALSE]

IndexerWrites ==
  /\ got # Off
  /\ \E commit \in BOOLEAN :
       table' = [table EXCEPT ![got.mod] =
                   Updated(IF got.exists THEN @ ELSE NewRow, Head(queue).release, commit)]
  /\ queue' = Tail(queue)
  /\ got' = Off
  /\ UNCHANGED <<dump, world, hookVars, freezerVars, repoVars, faults>>

-----------------------------------------------------------------------------
(* Whole rows: read, and put later in batches.                             *)

\* The rows a scan that begins now will return.
Scan == {m \in Files : table[m] # NoRow}

\* It returns them in pages, which may have rows made since, too: those of S are
\* read, and those chosen are put back some time later, with a change.
Read(p, S, chosen, changed(_)) ==
  /\ S \cap unread[p] # {}
  /\ unread' = [unread EXCEPT ![p] = @ \ S]
  /\ puts' = puts \cup {<<p, m, changed(table[m])>> : m \in S \cap chosen}

Put(p, m, row) ==
  /\ <<p, m, row>> \in puts
  /\ puts' = puts \ {<<p, m, row>>}
  /\ table' = [table EXCEPT ![m] = row]
  /\ UNCHANGED <<queue, got, dump, world, hookVars, fz, unread, prs, idled, repoVars, faults>>

Busy(p) == unread[p] # {} \/ \E u \in puts : u[1] = p

Command ==
  /\ faults < MaxFaults /\ faults' = faults + 1
  /\ ~Busy("recover") /\ ~Busy("restore")
  /\ UNCHANGED <<queue, got, table, world, hookVars, fz, prs, idled, repoVars>>

Recover ==
  /\ Command
  /\ unread' = [unread EXCEPT !["recover"] = Scan]
  /\ UNCHANGED <<dump, puts>>

\* A row without last_indexed gets the date of a commit, if git has one.
RecoverReads(S) ==
  /\ \E known \in SUBSET S :
       Read("recover", S, {m \in known : table[m] # NoRow /\ ~table[m].indexed},
            LAMBDA row : [row EXCEPT !.indexed = TRUE])
  /\ UNCHANGED <<tableVars, hookVars, fz, prs, idled, repoVars, faults>>

\* What export_all_mods returns, restore_status takes back unchanged.
Export ==
  /\ Command
  /\ dump' = table
  /\ UNCHANGED <<unread, puts>>

Restore ==
  /\ Command
  /\ puts' = puts \cup {<<"restore", m, dump[m]>> : m \in {f \in Files : dump[f] # NoRow}}
  /\ UNCHANGED <<unread, dump>>

-----------------------------------------------------------------------------
(* The Auto-Freezer.                                                       *)

Freezer == <<tableVars, hookVars, faults>>

\* A task of its own each week: a new clone, and a pull of what it has already.
Start7Days ==
  /\ fz = "off"
  /\ CloneAll({Nk})
  /\ fz' = "find"
  /\ UNCHANGED <<Freezer, unread, puts, prs, idled>>

\* Mutant: the cutoffs are not looked at.
Idle_Any(m) == table[m] # NoRow /\ table[m].release \in Dates

\* _last_timestamp is release_date alone: for a row without one it is None.
Idle(m) == table[m] # NoRow /\ table[m].release \in IdleDates

IdleMods == {m \in Files : local[Nk][m] = Netkan /\ Idle(m)}

\* change_branch, and a commit for each mod that has a .netkan file there.
FreezeIdle ==
  /\ fz = "find" /\ Readable(local[Nk]) /\ IdleMods # {}
  /\ OpenTopic(FreezeAuto, {<<m, Frozen>> : m \in {f \in IdleMods : Start(FreezeAuto)[f] # Frozen}})
  /\ fz' = "merge"
  /\ UNCHANGED <<Freezer, unread, puts, prs, idled>>

\* Mutant: frozen mods are left to the hook.
Mark_Hook == fz' = "mark" /\ UNCHANGED unread

Mark == fz' = "mark" /\ unread' = [unread EXCEPT !["freezer"] = Scan]

NothingIdle ==
  /\ fz = "find" /\ Readable(local[Nk]) /\ IdleMods = {}
  /\ Mark
  /\ UNCHANGED <<Freezer, puts, prs, idled, repoVars>>

FreezeMerge ==
  /\ fz = "merge"
  /\ PullTopic(FreezeAuto)
  /\ fz' = "publish"
  /\ UNCHANGED <<Freezer, unread, puts, prs, idled>>

FreezePublish ==
  /\ fz = "publish"
  /\ CloseTopic(FreezeAuto, Nk)
  /\ fz' = "propose"
  /\ UNCHANGED <<Freezer, unread, puts, prs, idled>>

\* A pull request that GitHub refuses is logged: it is one that nobody ever merges.
\* When GitHub refuses the comment on the open one, the run ends (FreezerCrashes), but
\* not each week: the text has only the mods that became idle in the last three.
FreezePropose ==
  /\ fz = "propose"
  /\ prs' = TRUE
  /\ Mark
  /\ UNCHANGED <<Freezer, puts, idled, repoVars>>

\* Mutant: frozen mods are marked whether they are marked or not.
ToMark_Always == {m \in Files : table[m] # NoRow}

\* not mod.frozen and _is_frozen, on the primary branch of the clone.
ToMark == {m \in Files : table[m] # NoRow /\ ~table[m].frozen /\ local[Nk][m] = Frozen}

MarkReads(S) ==
  /\ fz = "mark"
  /\ Read("freezer", S, ToMark, LAMBDA row : [row EXCEPT !.frozen = TRUE])
  /\ UNCHANGED <<Freezer, fz, prs, idled, repoVars>>

\* The task ends, its clone is gone.
FreezerExits ==
  /\ fz' = "off"
  /\ unread' = [unread EXCEPT !["freezer"] = {}]
  /\ puts' = {u \in puts : u[1] # "freezer"}
  /\ LoseClones
  /\ UNCHANGED <<tableVars, hookVars, prs, idled>>

FreezerDone == fz = "mark" /\ ~Busy("freezer") /\ FreezerExits /\ UNCHANGED faults

\* _find_idle_mods came to a .netkan file that it cannot read, or the push of the
\* branch was rejected: nothing is marked this week.
FreezerRaises ==
  /\ \/ fz = "find" /\ ~Readable(local[Nk])
     \/ fz = "publish" /\ ~Accepted(FreezeAuto)
  /\ FreezerExits
  /\ UNCHANGED faults

FreezerCrashes ==
  fz # "off" /\ faults < MaxFaults /\ faults' = faults + 1 /\ FreezerExits

-----------------------------------------------------------------------------
(* The hook for commits to NetKAN (freeze).                                *)

\* The row is looked up; it is not there, marked already, or to be marked.
HookGets(m) ==
  /\ m \in hooked /\ marking = Off
  /\ marking' = IF table[m] = NoRow \/ table[m].frozen THEN Off ELSE m
  /\ hooked' = hooked \ {m}
  /\ UNCHANGED <<tableVars, freezerVars, repoVars, faults>>

HookMarks ==
  /\ marking # Off
  /\ table' = [table EXCEPT ![marking].frozen = TRUE]
  /\ marking' = Off
  /\ UNCHANGED <<queue, got, dump, world, hooked, freezerVars, repoVars, faults>>

\* A cached download is gone before unlink: the request fails, and GitHub does
\* not send it again.
HookRaises ==
  /\ hooked # {} /\ marking = Off
  /\ hooked' = {}
  /\ UNCHANGED <<marking, tableVars, freezerVars, repoVars, faults>>

-----------------------------------------------------------------------------
(* The others.                                                             *)

\* GitHub tells the webhooks about mods frozen by a push, or fails to.
Hooks ==
  \E told \in {{}, {m \in Files : remote'[Nk][m] = Frozen /\ remote[Nk][m] # Frozen}} :
    hooked' = hooked \cup told

OthersEdit(b, m, c) ==
  /\ c \in Forms[m]
  /\ OutsideEdit(b, m, c)
  /\ Hooks
  /\ UNCHANGED <<marking, tableVars, freezerVars, faults>>

OthersMerge(m) ==
  /\ prs /\ remote[FreezeAuto] # NoTree /\ remote[FreezeAuto][m] = Frozen
  /\ OutsideMerge(FreezeAuto, m)
  /\ Hooks
  /\ prs' = FALSE
  /\ UNCHANGED <<marking, tableVars, fz, unread, puts, idled, faults>>

\* The author releases a version that is not idle.
Release(m, d) ==
  /\ world[m] \in IdleDates /\ d \in Dates \ IdleDates
  /\ world' = [world EXCEPT ![m] = d]
  /\ UNCHANGED <<queue, got, table, dump, hookVars, freezerVars, repoVars, faults>>

Freezing ==
  \/ Start7Days
  \/ FreezeIdle
  \/ NothingIdle
  \/ FreezeMerge
  \/ FreezePublish
  \/ FreezePropose
  \/ \E S \in SUBSET Files : MarkReads(S)
  \/ FreezerDone
  \/ FreezerRaises

Next ==
  \/ \E m \in Files : Inflate(m)
  \/ IndexerGets
  \/ IndexerWrites
  \/ \E u \in puts : Put(u[1], u[2], u[3])
  \/ Recover
  \/ \E S \in SUBSET Files : RecoverReads(S)
  \/ Export
  \/ Restore
  \/ Freezing
  \/ FreezerCrashes
  \/ \E m \in Files : HookGets(m)
  \/ HookMarks
  \/ HookRaises
  \/ \E b \in Branches, m \in Files, c \in Contents : OthersEdit(b, m, c)
  \/ \E m \in Files : OthersMerge(m)
  \/ \E m \in Files, d \in Dates : Release(m, d)

Spec == Init /\ [][Next]_vars

\* Every service takes its next step some time (the Scheduler stops at a file it
\* cannot read); nothing is asked of people, of the commands' users, or of
\* GitHub's calls of the webhooks.
Fairness ==
  /\ \A m \in Files : WF_vars(Readable(remote[Nk]) /\ Inflate(m))
  /\ WF_vars(IndexerGets) /\ WF_vars(IndexerWrites)
  /\ WF_vars(\E u \in puts : Put(u[1], u[2], u[3]))
  /\ WF_vars(Freezing)

FairSpec == Spec /\ Fairness

-----------------------------------------------------------------------------
(* Properties.                                                             *)

\* A mod that stays frozen is marked so in the end, and stays marked: a result
\* on its way when it was frozen unmarks it, and so does a row put back; the
\* next weekly run of the Freezer repairs both, once every .netkan file can be
\* read (until then each run ends before it marks anything).
FrozenIsMarked ==
  \A m \in Files :
    <>[](remote[Nk][m] = Frozen /\ Readable(remote[Nk])) =>
      <>[](table[m] = NoRow \/ table[m].frozen)

\* The row of a mod that stays unfrozen shows its newest release in the end, and
\* not as frozen: a row put back loses what the Indexer wrote, but the Freezer
\* puts only rows of frozen mods, and the next inflation repairs them (all are
\* inflated once every .netkan file can be read).
RowIsCurrent ==
  \A m \in Files :
    <>[](remote[Nk][m] = Netkan /\ Readable(remote[Nk])) =>
      <>[](/\ table[m] # NoRow /\ ~table[m].frozen
           /\ table[m].release = world[m])

\* The branch freezes nothing but mods whose newest release was idle once (and
\* may be no more: the branch lives on), and what others froze.
OnlyIdleFrozen ==
  \A m \in Files :
    remote[FreezeAuto] # NoTree /\ remote[FreezeAuto][m] = Frozen =>
      m \in idled \/ <<m, Frozen>> \in shown[Nk] \/ m \in edited

\* A row loses what the Indexer wrote to it only to a put of one of the
\* commands, or of the Freezer for a mod that was frozen when it made its clone;
\* in the weeks without a command the rows of the other mods only gain.
OnlyGains(m) ==
  table[m] # NoRow /\ (table[m].indexed \/ table[m].release = world[m]) =>
    /\ table'[m] # NoRow
    /\ table[m].indexed => table'[m].indexed
    /\ table[m].release = world[m] => table'[m].release = world[m]

MayGoBack(m) ==
  \/ \E u \in puts : u[1] # "freezer" /\ u[2] = m
  \/ Cloned(Nk) /\ local[Nk][m] = Frozen

OnlyFrozenRowsGoBack == [][\A m \in Files : OnlyGains(m) \/ MayGoBack(m)]_vars
==============================================================================
