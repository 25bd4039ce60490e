--------------------------- MODULE StatusTableInv ---------------------------
(***************************************************************************)
(* The inductive invariant behind the safety properties of the status      *)
(* table, in the parts the proofs of StatusTableProofs take one by one.    *)
(***************************************************************************)
EXTENDS StatusTable

\* Where the Freezer is in its clone, while it has one.
InTopic == fz \in {"merge", "publish"}

Position ==
  /\ fz # "off" => Cloned(Nk)
  /\ InTopic => local[FreezeAuto] # NoTree
  /\ active[Nk] = IF InTopic THEN FreezeAuto ELSE Nk

\* In no branch is a mod without one of its two files, and to the primary branch
\* the Freezer commits nothing.
TwoForms ==
  /\ \A b \in Branches : remote[b] # NoTree => remote[b] \in [Files -> Contents]
  /\ \A b \in Branches : local[b] # NoTree => local[b] \in [Files -> Contents]
  /\ unpushed[Nk] = {}

Shape == TypeOK /\ RepoInv /\ Position /\ TwoForms

\* No row is ever removed: what was read or exported of a mod, or is looked at,
\* has its row.
RowStays ==
  /\ got # Off => queue # <<>> /\ got.mod = Head(queue).mod
                    /\ got.exists = (table[got.mod] # NoRow)
  /\ marking # Off => table[marking] # NoRow
  /\ \A m \in Files : dump[m] # NoRow => table[m] # NoRow
  /\ \A u \in puts : table[u[2]] # NoRow

\* The Freezer holds rows of mods that are frozen in its clone.
FrozenInClone ==
  \A u \in puts : u[1] = "freezer" => Cloned(Nk) /\ local[Nk][u[2]] = Frozen

Held == RowStays /\ FrozenInClone

\* A release date comes from the world, which moves on at most once: it is the
\* newest, or the idle one before it.
Worldly(m, date) ==
  \/ date = world[m]
  \/ m \in idled /\ date \in IdleDates /\ world[m] \notin IdleDates

\* The rows of m: in the table, in the export, or about to be put.
RowsOf(m) == ({table[m], dump[m]} \ {NoRow}) \cup {u[3] : u \in {v \in puts : v[2] = m}}

Dated ==
  /\ \A m \in Files : world[m] \in IdleDates => m \in idled
  /\ \A m \in idled : world[m] \in Dates
  /\ \A i \in DOMAIN queue : Worldly(queue[i].mod, queue[i].release)
  /\ \A m \in Files : \A row \in RowsOf(m) : row.release = NoDate \/ Worldly(m, row.release)

\* A result on its way is the only one of its mod, and never older than a row.
Fresh ==
  /\ \A i, j \in DOMAIN queue : queue[i].mod = queue[j].mod => i = j
  /\ \A i \in DOMAIN queue : queue[i].release # world[queue[i].mod] =>
       \A row \in RowsOf(queue[i].mod) : row.release # world[queue[i].mod]

Allowed(m) == m \in idled \/ <<m, Frozen>> \in shown[Nk] \/ m \in edited

\* OnlyIdleFrozen, and the same of the clone.
ClonedIdle ==
  \A m \in Files :
    local[FreezeAuto] # NoTree /\ local[FreezeAuto][m] = Frozen => Allowed(m)

TableInv == Shape /\ Held /\ Dated /\ Fresh /\ OnlyIdleFrozen /\ ClonedIdle
==============================================================================
