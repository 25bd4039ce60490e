--------------------------- MODULE InflationProofs ---------------------------
(***************************************************************************)
(* Proofs about Inflation: what a batch holds and leaves, and that the     *)
(* answers of the webhooks and the length of a queue are what              *)
(* AnsweredIsQueued and QueueBounded say.                                  *)
(***************************************************************************)
EXTENDS InflationInv, FiniteSetTheorems, TLAPS

-----------------------------------------------------------------------------
(* The places of a list.                                                   *)

\* Each of n places is the n-th for one n: how many come before it, with itself.
LEMMA Ranks ==
  ASSUME NEW S \in SUBSET Int, IsFiniteSet(S)
  PROVE  /\ Cardinality(S) \in Nat
         /\ \A n \in 1 .. Cardinality(S) :
              Nth(S, n) \in S /\ Cardinality({j \in S : j <= Nth(S, n)}) = n
         /\ \A i \in S : \E n \in 1 .. Cardinality(S) : Nth(S, n) = i
<1> DEFINE upTo(i) == {j \in S : j <= i}
           N == 1 .. Cardinality(S)
           rank == [i \in S |-> Cardinality(upTo(i))]
<1>1. Cardinality(S) \in Nat
  BY FS_CardinalityType
<1>2. ASSUME NEW i \in S
      PROVE  IsFiniteSet(upTo(i)) /\ Cardinality(upTo(i)) \in N
  <2>1. upTo(i) \subseteq S /\ i \in upTo(i)
    BY <1>2
  <2> HIDE DEF upTo
  <2>2. IsFiniteSet(upTo(i)) /\ Cardinality(upTo(i)) <= Cardinality(S)
    BY <2>1, FS_Subset
  <2>3. Cardinality(upTo(i)) \in Nat
    BY <2>2, FS_CardinalityType
  <2>4. Cardinality(upTo(i)) # 0
    BY <2>1, <2>2, FS_EmptySet
  <2>5. \A a, b \in Nat : a <= b /\ a # 0 => a \in 1 .. b
    OBVIOUS
  <2> QED
    BY <1>1, <2>2, <2>3, <2>4, <2>5
<1>3. ASSUME NEW i \in S, NEW j \in S, i < j
      PROVE  Cardinality(upTo(i)) < Cardinality(upTo(j))
  <2>0. /\ \A k \in S : k <= i => k <= j
        /\ ~(j <= i) /\ j <= j
    <3>1. \A k \in S : k \in Int
      OBVIOUS
    <3>2. i \in Int /\ j \in Int
      OBVIOUS
    <3> QED
      BY <1>3, <3>1, <3>2
  <2>1. upTo(i) \cup {j} \subseteq upTo(j) /\ j \notin upTo(i)
    BY <1>3, <2>0
  <2> HIDE DEF upTo
  <2>2. IsFiniteSet(upTo(i) \cup {j}) /\ Cardinality(upTo(i) \cup {j}) = Cardinality(upTo(i)) + 1
    BY <1>2, <2>1, FS_AddElement
  <2>3. Cardinality(upTo(i) \cup {j}) <= Cardinality(upTo(j))
    BY <1>2, <2>1, FS_Subset
  <2> QED
    BY <1>2, <2>2, <2>3
<1> HIDE DEF upTo
<1>4. rank \in Injection(S, N)
  <2>1. \A i, j \in S : rank[i] = rank[j] => ~(i < j)
    BY <1>2, <1>3
  <2>2. \A i, j \in S : rank[i] = rank[j] => i = j
    BY <2>1
  <2>3. rank \in [S -> N]
    BY <1>2
  <2> QED
    BY <2>2, <2>3 DEF Injection, IsInjective
<1>5. IsFiniteSet(N) /\ Cardinality(N) = Cardinality(S)
  BY <1>1, FS_Interval
<1>6. rank \in Surjection(S, N)
  BY <1>4, <1>5, FS_Injection
<1>7. \A n \in N : \E i \in S : Cardinality(upTo(i)) = n
  BY <1>6 DEF Surjection
<1>8. \A n \in N : Nth(S, n) \in S /\ Cardinality(upTo(Nth(S, n))) = n
  BY <1>7 DEF Nth, upTo
<1>9. ASSUME NEW i \in S PROVE \E n \in N : Nth(S, n) = i
  <2>1. Nth(S, rank[i]) \in S /\ rank[Nth(S, rank[i])] = rank[i] /\ rank[i] \in N
    BY <1>2, <1>8
  <2> QED
    BY <1>4, <2>1 DEF Injection, IsInjective
<1> QED
  BY <1>1, <1>8, <1>9 DEF upTo

LEMMA UpTo ==
  ASSUME NEW n \in Nat
  PROVE  IsFiniteSet(1 .. n) /\ Cardinality(1 .. n) = n
<1>1. IsFiniteSet(1 .. n) /\ Cardinality(1 .. n) = IF 1 > n THEN 0 ELSE n - 1 + 1
  BY FS_Interval
<1> QED
  BY <1>1

LEMMA PlacesFinite ==
  ASSUME NEW R, NEW seq \in Seq(R), NEW S \in SUBSET DOMAIN seq
  PROVE  /\ S \in SUBSET Int /\ IsFiniteSet(S) /\ Cardinality(S) \in Nat
         /\ Cardinality(S) <= Len(seq)
<1>1. Len(seq) \in Nat /\ DOMAIN seq = 1 .. Len(seq)
  OBVIOUS
<1>2. IsFiniteSet(1 .. Len(seq)) /\ Cardinality(1 .. Len(seq)) = Len(seq)
  BY <1>1, UpTo
<1>3. S \subseteq 1 .. Len(seq)
  BY <1>1
<1>4. IsFiniteSet(S) /\ Cardinality(S) <= Len(seq)
  BY <1>2, <1>3, FS_Subset
<1> QED
  BY <1>3, <1>4, FS_CardinalityType

\* What is at some places of a list, and nothing else, in a list as long.
LEMMA AtFacts ==
  ASSUME NEW R, NEW seq, NEW S \in SUBSET Int, IsFiniteSet(S), \A i \in S : seq[i] \in R
  PROVE  /\ At(seq, S) \in Seq(R) /\ Len(At(seq, S)) = Cardinality(S)
         /\ DOMAIN At(seq, S) = 1 .. Cardinality(S)
         /\ \A n \in DOMAIN At(seq, S) : Nth(S, n) \in S /\ At(seq, S)[n] = seq[Nth(S, n)]
         /\ \A n, k \in DOMAIN At(seq, S) : Nth(S, n) = Nth(S, k) => n = k
         /\ \A i \in S : \E n \in DOMAIN At(seq, S) : At(seq, S)[n] = seq[i]
<1>1. /\ Cardinality(S) \in Nat
      /\ \A n \in 1 .. Cardinality(S) :
           Nth(S, n) \in S /\ Cardinality({j \in S : j <= Nth(S, n)}) = n
      /\ \A i \in S : \E n \in 1 .. Cardinality(S) : Nth(S, n) = i
  BY Ranks
<1>2. \A n, k \in 1 .. Cardinality(S) : Nth(S, n) = Nth(S, k) => n = k
  BY <1>1
<1>3. /\ DOMAIN At(seq, S) = 1 .. Cardinality(S)
      /\ \A n \in 1 .. Cardinality(S) : At(seq, S)[n] = seq[Nth(S, n)]
  BY DEF At
<1>4. At(seq, S) \in [1 .. Cardinality(S) -> R]
  BY <1>1 DEF At
<1>5. At(seq, S) \in Seq(R) /\ Len(At(seq, S)) = Cardinality(S)
  BY <1>1, <1>3, <1>4
<1> QED
  BY <1>1, <1>2, <1>3, <1>5

\* Files that are each there once are each there once among some of them.
LEMMA AtDistinct ==
  ASSUME NEW R, NEW seq, NEW S \in SUBSET Int, IsFiniteSet(S), \A i \in S : seq[i] \in R,
         \A i, j \in S : seq[i][1] = seq[j][1] => i = j
  PROVE  \A n, k \in DOMAIN At(seq, S) : At(seq, S)[n][1] = At(seq, S)[k][1] => n = k
<1> SUFFICES ASSUME NEW n \in DOMAIN At(seq, S), NEW k \in DOMAIN At(seq, S),
                    At(seq, S)[n][1] = At(seq, S)[k][1]
             PROVE  n = k
  OBVIOUS
<1>1. \A i \in DOMAIN At(seq, S) : Nth(S, i) \in S /\ At(seq, S)[i] = seq[Nth(S, i)]
  BY AtFacts, Zenon
<1>2. \A i, j \in DOMAIN At(seq, S) : Nth(S, i) = Nth(S, j) => i = j
  BY AtFacts, Zenon
<1>3. Nth(S, n) \in S /\ Nth(S, k) \in S /\ seq[Nth(S, n)][1] = seq[Nth(S, k)][1]
  BY <1>1
<1>4. Nth(S, n) = Nth(S, k)
  BY <1>3
<1> QED
  BY <1>2, <1>4

-----------------------------------------------------------------------------
(* Batches.                                                                *)

LEMMA ReadForFacts ==
  ASSUME NEW R, NEW seq \in Seq(R), NEW W
  PROVE  /\ Wanted(seq, W) \in SUBSET DOMAIN seq
         /\ ReadFor(seq, W) \in 0 .. Len(seq)
<1>1. Wanted(seq, W) \in SUBSET DOMAIN seq
  BY DEF Wanted
<1>2. DOMAIN seq = 1 .. Len(seq) /\ Len(seq) \in Nat
  OBVIOUS
<1>3. CASE Cardinality(Wanted(seq, W)) < BatchSize
  BY <1>1, <1>2, <1>3 DEF ReadFor
<1>4. CASE ~(Cardinality(Wanted(seq, W)) < BatchSize)
  <2>1. /\ Wanted(seq, W) \in SUBSET Int /\ IsFiniteSet(Wanted(seq, W))
        /\ Cardinality(Wanted(seq, W)) \in Nat
    BY <1>1, PlacesFinite
  <2>2. BatchSize \in 1 .. Cardinality(Wanted(seq, W))
    BY <1>4, <2>1, InflationAssumption
  <2>3. Nth(Wanted(seq, W), BatchSize) \in Wanted(seq, W)
    BY <2>1, <2>2, Ranks
  <2> QED
    BY <1>1, <1>2, <1>4, <2>3 DEF ReadFor
<1> QED
  BY <1>3, <1>4

\* What a batch holds, and what is left of the files.
LEMMA BatchFacts ==
  ASSUME NEW R, NEW T, NEW seq \in Seq(R), NEW W,
         \A i \in Wanted(seq, W) : i <= ReadFor(seq, W) => seq[i] \in T
  PROVE  /\ Batch(seq, W) \in Seq(T) /\ Rest(seq, W) \in Seq(R)
         /\ \A i \in Wanted(seq, W) : i <= ReadFor(seq, W) =>
              \E n \in DOMAIN Batch(seq, W) : Batch(seq, W)[n] = seq[i]
         /\ \A i \in DOMAIN Rest(seq, W) :
              i + ReadFor(seq, W) \in DOMAIN seq /\ Rest(seq, W)[i] = seq[i + ReadFor(seq, W)]
         /\ \A i \in DOMAIN seq : i > ReadFor(seq, W) =>
              i - ReadFor(seq, W) \in DOMAIN Rest(seq, W) /\ Rest(seq, W)[i - ReadFor(seq, W)] = seq[i]
<1> DEFINE S == {i \in Wanted(seq, W) : i <= ReadFor(seq, W)}
<1>1. S \in SUBSET DOMAIN seq /\ ReadFor(seq, W) \in 0 .. Len(seq) /\ \A i \in S : seq[i] \in T
  BY ReadForFacts
<1>2. Batch(seq, W) = At(seq, S)
  BY DEF Batch
<1>3. \A i \in Wanted(seq, W) : i <= ReadFor(seq, W) => i \in S
  OBVIOUS
<1> HIDE DEF S
<1>4. S \in SUBSET Int /\ IsFiniteSet(S)
  BY <1>1, PlacesFinite
<1>5. Batch(seq, W) \in Seq(T) /\ \A i \in S : \E n \in DOMAIN Batch(seq, W) : Batch(seq, W)[n] = seq[i]
  BY <1>1, <1>2, <1>4, AtFacts
<1>6. \A r \in 0 .. Len(seq) :
        /\ SubSeq(seq, r + 1, Len(seq)) \in Seq(R)
        /\ DOMAIN SubSeq(seq, r + 1, Len(seq)) = 1 .. Len(seq) - r
        /\ \A i \in 1 .. Len(seq) - r : SubSeq(seq, r + 1, Len(seq))[i] = seq[i + r]
  <2> TAKE r \in 0 .. Len(seq)
  <2>1. SubSeq(seq, r + 1, Len(seq)) \in Seq(R)
    OBVIOUS
  <2>2. Len(SubSeq(seq, r + 1, Len(seq))) = Len(seq) - r
    OBVIOUS
  <2>3. \A i \in 1 .. Len(seq) - r : SubSeq(seq, r + 1, Len(seq))[i] = seq[i + r]
    OBVIOUS
  <2> QED
    BY <2>1, <2>2, <2>3
<1>7. /\ Rest(seq, W) \in Seq(R)
      /\ DOMAIN Rest(seq, W) = 1 .. Len(seq) - ReadFor(seq, W)
      /\ \A i \in 1 .. Len(seq) - ReadFor(seq, W) : Rest(seq, W)[i] = seq[i + ReadFor(seq, W)]
  BY <1>1, <1>6 DEF Rest
<1>8. \A i \in DOMAIN Rest(seq, W) :
        i + ReadFor(seq, W) \in DOMAIN seq /\ Rest(seq, W)[i] = seq[i + ReadFor(seq, W)]
  BY <1>1, <1>7
<1>9. \A i \in DOMAIN seq : i > ReadFor(seq, W) =>
        i - ReadFor(seq, W) \in DOMAIN Rest(seq, W) /\ Rest(seq, W)[i - ReadFor(seq, W)] = seq[i]
  <2> TAKE i \in DOMAIN seq
  <2> HAVE i > ReadFor(seq, W)
  <2>1. i - ReadFor(seq, W) \in 1 .. Len(seq) - ReadFor(seq, W) /\ (i - ReadFor(seq, W)) + ReadFor(seq, W) = i
    BY <1>1
  <2> QED
    BY <1>7, <2>1
<1> QED
  BY <1>3, <1>5, <1>7, <1>8, <1>9

\* A batch and the rest have together what was wanted.
LEMMA BatchSplits ==
  ASSUME NEW R, NEW seq \in Seq(R), NEW W
  PROVE  /\ Cardinality(Wanted(seq, W)) \in Nat
         /\ Cardinality(Wanted(Rest(seq, W), W)) \in Nat
         /\ Len(Batch(seq, W)) \in Nat
         /\ Len(Batch(seq, W)) + Cardinality(Wanted(Rest(seq, W), W)) = Cardinality(Wanted(seq, W))
<1> DEFINE r == ReadFor(seq, W)
           S == Wanted(seq, W)
           S1 == {i \in S : i <= r}
           S2 == S \ S1
           Q == Wanted(Rest(seq, W), W)
<1>1. /\ S \in SUBSET DOMAIN seq /\ r \in 0 .. Len(seq) /\ Rest(seq, W) \in Seq(R)
      /\ \A i \in DOMAIN Rest(seq, W) : i + r \in DOMAIN seq /\ Rest(seq, W)[i] = seq[i + r]
      /\ \A i \in DOMAIN seq : i > r => i - r \in DOMAIN Rest(seq, W) /\ Rest(seq, W)[i - r] = seq[i]
  <2>1. \A i \in Wanted(seq, W) : seq[i] \in R
    BY ReadForFacts
  <2> QED
    BY <2>1, ReadForFacts, BatchFacts
<1>2. S \in SUBSET Int /\ IsFiniteSet(S) /\ Cardinality(S) \in Nat
  BY <1>1, PlacesFinite
<1>3. IsFiniteSet(S1) /\ S1 \in SUBSET Int /\ \A i \in S1 : seq[i] \in R
  BY <1>1, <1>2, FS_Subset
<1>4. Len(Batch(seq, W)) = Cardinality(S1) /\ Cardinality(S1) \in Nat
  <2>1. Batch(seq, W) = At(seq, S1)
    BY DEF Batch
  <2> HIDE DEF S1
  <2> QED
    BY <1>3, <2>1, AtFacts, FS_CardinalityType
<1>5. IsFiniteSet(S2) /\ Cardinality(S2) = Cardinality(S) - Cardinality(S1)
  <2>1. S \cap S1 = S1
    OBVIOUS
  <2> QED
    BY <1>2, <2>1, FS_Difference
<1>6. \A i \in S2 : i \in DOMAIN seq /\ i > r /\ seq[i][2] \in W
  <2>1. \A i \in S2 : i \in DOMAIN seq /\ ~(i <= r) /\ seq[i][2] \in W
    BY <1>1 DEF Wanted
  <2>2. \A i \in DOMAIN seq : i \in Int
    OBVIOUS
  <2>3. r \in Int
    BY <1>1
  <2> HIDE DEF r, S2
  <2> QED
    BY <2>1, <2>2, <2>3
<1>7. \A i \in DOMAIN seq : i > r /\ seq[i][2] \in W => i \in S2
  <2>1. \A i \in DOMAIN seq : i \in Int
    OBVIOUS
  <2>2. r \in Int
    BY <1>1
  <2>3. \A i \in DOMAIN seq : i > r => ~(i <= r)
    BY <2>1, <2>2
  <2> QED
    BY <2>3 DEF Wanted
<1> DEFINE f == [i \in S2 |-> i - r]
<1>8. f \in Bijection(S2, Q)
  <2>1. \A i \in S2 : f[i] \in Q
    BY <1>1, <1>6 DEF Wanted
  <2>2. \A i, j \in S2 : f[i] = f[j] => i = j
    <3>1. \A i \in S2 : i \in Int
      BY <1>2
    <3>2. r \in Int
      BY <1>1
    <3> QED
      BY <3>1, <3>2
  <2>3. ASSUME NEW n \in Q PROVE \E i \in S2 : f[i] = n
    <3>1. n \in DOMAIN Rest(seq, W) /\ Rest(seq, W)[n][2] \in W /\ n \in Nat \ {0}
      BY <1>1 DEF Wanted
    <3>2. n + r \in DOMAIN seq /\ seq[n + r][2] \in W
      BY <1>1, <3>1
    <3>3. r \in Int /\ n + r > r /\ (n + r) - r = n
      BY <1>1, <3>1
    <3>4. n + r \in S2
      BY <1>7, <3>2, <3>3
    <3> QED
      BY <3>3, <3>4
  <2> HIDE DEF f, S2, Q
  <2>4. f \in [S2 -> Q]
    BY <2>1 DEF f
  <2> QED
    BY <2>2, <2>3, <2>4 DEF Bijection, Injection, Surjection, IsInjective
<1> HIDE DEF f, S2, S1, Q, r
<1>9. IsFiniteSet(Q) /\ Cardinality(Q) = Cardinality(S2)
  BY <1>5, <1>8, FS_Bijection DEF ExistsBijection
<1>10. Cardinality(Q) \in Nat
  BY <1>9, FS_CardinalityType
<1> QED
  BY <1>2, <1>4, <1>5, <1>9, <1>10 DEF Q

\* When no file that was read breaks, none of those before the rest is bad.
LEMMA ReadWell ==
  ASSUME NEW R, NEW seq \in Seq(R), NEW W, NEW bad, ~Breaks(seq, W, bad),
         NEW i \in DOMAIN seq, i <= ReadFor(seq, W)
  PROVE  seq[i][2] \notin bad
<1>1. ReadFor(seq, W) \in 0 .. Len(seq)
  BY ReadForFacts
<1>2. \A r \in 0 .. Len(seq) : i <= r => i \in DOMAIN SubSeq(seq, 1, r) /\ SubSeq(seq, 1, r)[i] = seq[i]
  <2> TAKE r \in 0 .. Len(seq)
  <2> HAVE i <= r
  <2>1. i \in 1 .. r
    OBVIOUS
  <2>2. Len(SubSeq(seq, 1, r)) = r /\ SubSeq(seq, 1, r) \in Seq(R)
    OBVIOUS
  <2>3. \A j \in 1 .. r : SubSeq(seq, 1, r)[j] = seq[j]
    OBVIOUS
  <2> QED
    BY <2>1, <2>2, <2>3
<1> QED
  BY <1>1, <1>2 DEF Breaks, Unreadable

\* The files of a game in a clone, each once, with what the clone has of them.
LEMMA FoundFacts ==
  ASSUME NEW tree \in [Mods -> Contents \cup {Absent}], NEW g \in GameIds
  PROVE  /\ FoundIn(tree, g) \in Seq(ToSet(Listing[g]) \X Contents)
         /\ \A i \in DOMAIN FoundIn(tree, g) : FoundIn(tree, g)[i][2] = tree[FoundIn(tree, g)[i][1]]
         /\ \A i, j \in DOMAIN FoundIn(tree, g) :
              FoundIn(tree, g)[i][1] = FoundIn(tree, g)[j][1] => i = j
<1> DEFINE L == Listing[g]
           all == [i \in DOMAIN L |-> <<L[i], tree[L[i]]>>]
           S == {i \in DOMAIN all : all[i][2] # Absent}
           R == ToSet(L) \X Contents
<1>1. L \in Seq(Mods) /\ \A i, j \in DOMAIN L : L[i] = L[j] => i = j
  BY InflationAssumption
<1>2. \A i \in DOMAIN L : L[i] \in Mods /\ L[i] \in ToSet(L)
  BY <1>1 DEF ToSet
<1>3. \A i \in DOMAIN L : all[i][1] = L[i] /\ all[i][2] = tree[L[i]]
  OBVIOUS
<1>4. S \in SUBSET DOMAIN L
  OBVIOUS
<1>5. \A i \in S : all[i] \in R
  BY <1>2
<1>6. FoundIn(tree, g) = At(all, S)
  BY DEF FoundIn
<1>7. S \in SUBSET Int /\ IsFiniteSet(S)
  <2> HIDE DEF S, all, L
  <2> QED
    BY <1>1, <1>4, PlacesFinite
<1>8. \A i, j \in S : all[i][1] = all[j][1] => i = j
  BY <1>1, <1>3, <1>4
<1> HIDE DEF S, R, all, L
<1>9. \A i, j \in DOMAIN At(all, S) : At(all, S)[i][1] = At(all, S)[j][1] => i = j
  BY <1>5, <1>7, <1>8, AtDistinct
<1>10. At(all, S) \in Seq(R) /\ \A i \in DOMAIN At(all, S) : Nth(S, i) \in S /\ At(all, S)[i] = all[Nth(S, i)]
  BY <1>5, <1>7, AtFacts
<1>11. \A i \in DOMAIN At(all, S) : At(all, S)[i][2] = tree[At(all, S)[i][1]]
  BY <1>3, <1>4, <1>10
<1> QED
  BY <1>6, <1>9, <1>10, <1>11 DEF R, L

-----------------------------------------------------------------------------
(* Games, groups and types.                                                *)

LEMMA GroupFacts ==
  /\ \A k \in Tasks : Group(k) \subseteq Contents \ Garbled
  /\ Group("nonhooks") \cap Group("webhooks") = {}
BY InflationAssumption DEF Group, InGroup, Contents, Tasks

LEMMA GameFacts ==
  ASSUME TypeOK, NEW k \in Tasks
  PROVE  /\ Game(k) \in GameIds /\ Listing[Game(k)] \in Seq(Mods)
         /\ (at[k] % Len(Games)) + 1 \in DOMAIN Games
         /\ 1 \in DOMAIN Games
<1>1. at[k] \in DOMAIN Games /\ Games \in Seq(GameIds) /\ Games # <<>>
  BY InflationAssumption DEF TypeOK
<1>2. Game(k) \in GameIds
  BY <1>1 DEF Game
<1>3. Len(Games) \in Nat \ {0} /\ at[k] \in Nat /\ DOMAIN Games = 1 .. Len(Games)
  BY <1>1
<1>4. \A n \in Nat \ {0} : \A x \in Nat : (x % n) + 1 \in 1 .. n /\ 1 \in 1 .. n
  <2> TAKE n \in Nat \ {0}, x \in Nat
  <2>1. n \in Int /\ n > 0 /\ x \in Int
    OBVIOUS
  <2>2. x % n \in 0 .. (n - 1)
    BY <2>1
  <2> QED
    BY <2>1, <2>2
<1> QED
  BY <1>2, <1>3, <1>4, InflationAssumption

\* What LookAt does to the task, and that it does nothing to the other.
LEMMA LookAtFacts ==
  ASSUME TypeOK, NEW k \in Tasks, NEW rest, LookAt(k, rest)
  PROVE  /\ DOMAIN left' = Tasks /\ at' \in [Tasks -> DOMAIN Games]
         /\ left'[k] = Off \/ (left'[k] = rest /\ at'[k] = at[k])
         /\ rest # <<>> => left'[k] = rest
         /\ \A j \in Tasks \ {k} : left'[j] = left[j] /\ at'[j] = at[j]
BY GameFacts DEF LookAt, NextGame, TypeOK

LEMMA EndsFacts ==
  ASSUME TypeOK, NEW k \in Tasks, TaskEnds(k)
  PROVE  /\ DOMAIN left' = Tasks /\ at' \in [Tasks -> DOMAIN Games]
         /\ left'[k] = Off
         /\ \A j \in Tasks \ {k} : left'[j] = left[j] /\ at'[j] = at[j]
         /\ UNCHANGED <<nk, queue, inflated, hookVars>>
BY GameFacts DEF TaskEnds, TypeOK

LEMMA EventFacts ==
  ASSUME TypeOK, Event
  PROVE  events \in Nat /\ events' = events + 1 /\ events' \in 0 .. MaxEvents
BY InflationAssumption DEF Event, TypeOK

\* What a task sends.
LEMMA TaskBatch ==
  ASSUME TypeOK, Looking, NEW k \in Tasks, left[k] # Off
  PROVE  /\ Batch(left[k], Group(k)) \in Seq(ToSet(Listing[Game(k)]) \X (Contents \ Garbled))
         /\ Rest(left[k], Group(k)) \in Seq(ToSet(Listing[Game(k)]) \X Contents)
         /\ \A i \in DOMAIN Rest(left[k], Group(k)) :
              /\ i + ReadFor(left[k], Group(k)) \in DOMAIN left[k]
              /\ Rest(left[k], Group(k))[i] = left[k][i + ReadFor(left[k], Group(k))]
<1> DEFINE R == ToSet(Listing[Game(k)]) \X Contents
           T == ToSet(Listing[Game(k)]) \X (Contents \ Garbled)
           seq == left[k]
           W == Group(k)
<1>1. seq \in Seq(R)
  BY DEF Looking
<1>2. \A i \in Wanted(seq, W) : seq[i] \in T
  <2>1. \A i \in DOMAIN seq : seq[i] \in R
    BY <1>1
  <2>2. \A i \in DOMAIN seq : seq[i][2] \in W => seq[i] \in T
    BY <2>1, GroupFacts
  <2> QED
    BY <2>2 DEF Wanted
<1> HIDE DEF R, T, seq, W
<1>3. /\ Batch(seq, W) \in Seq(T) /\ Rest(seq, W) \in Seq(R)
      /\ \A i \in DOMAIN Rest(seq, W) :
           i + ReadFor(seq, W) \in DOMAIN seq /\ Rest(seq, W)[i] = seq[i + ReadFor(seq, W)]
  BY <1>1, <1>2, BatchFacts
<1> QED
  BY <1>3 DEF R, T, seq, W

\* What a request sends, and what it keeps.
LEMMA HookBatch ==
  ASSUME TypeOK, Answering, request # Off, ~Breaks(files, Contents, {Absent} \cup Garbled)
  PROVE  /\ request \in GameIds
         /\ Batch(files, Contents) \in Seq(ToSet(Listing[request]) \X (Contents \ Garbled))
         /\ Rest(files, Contents) \in Seq(ToSet(Listing[request]) \X (Contents \cup {Absent}))
         /\ \A i \in DOMAIN files :
              \/ \E n \in DOMAIN Batch(files, Contents) : Batch(files, Contents)[n] = files[i]
              \/ \E n \in DOMAIN Rest(files, Contents) : Rest(files, Contents)[n] = files[i]
<1> DEFINE L == ToSet(Listing[request])
           R == L \X (Contents \cup {Absent})
           T == L \X (Contents \ Garbled)
           r == ReadFor(files, Contents)
<1>1. files \in Seq(R) /\ request \in GameIds
  BY DEF Answering, TypeOK
<1>2. r \in 0 .. Len(files)
  BY <1>1, ReadForFacts
<1>3. \A i \in DOMAIN files : i <= r => files[i] \in T /\ i \in Wanted(files, Contents)
  <2> TAKE i \in DOMAIN files
  <2> HAVE i <= r
  <2>1. files[i][2] \notin {Absent} \cup Garbled
    <3> HIDE DEF R
    <3> QED
      BY <1>1, ReadWell
  <2>2. files[i] \in R
    BY <1>1
  <2>3. files[i][2] \in Contents \ Garbled /\ files[i] \in T
    BY <2>1, <2>2
  <2> QED
    BY <2>3 DEF Wanted
<1> HIDE DEF R, T, L
<1>4. /\ Batch(files, Contents) \in Seq(T) /\ Rest(files, Contents) \in Seq(R)
      /\ \A i \in Wanted(files, Contents) : i <= r =>
           \E n \in DOMAIN Batch(files, Contents) : Batch(files, Contents)[n] = files[i]
      /\ \A i \in DOMAIN files : i > r =>
           i - r \in DOMAIN Rest(files, Contents) /\ Rest(files, Contents)[i - r] = files[i]
  <2>1. \A i \in Wanted(files, Contents) : i <= r => files[i] \in T
    BY <1>3 DEF Wanted
  <2> QED
    BY <1>1, <2>1, BatchFacts
<1>5. \A i \in DOMAIN files : i <= r \/ i > r
  <2>1. \A i \in DOMAIN files : i \in Int
    BY <1>1
  <2>2. r \in Int
    BY <1>2
  <2> HIDE DEF r
  <2> QED
    BY <2>1, <2>2
<1> HIDE DEF r
<1>6. \A i \in DOMAIN files :
        \/ \E n \in DOMAIN Batch(files, Contents) : Batch(files, Contents)[n] = files[i]
        \/ \E n \in DOMAIN Rest(files, Contents) : Rest(files, Contents)[n] = files[i]
  BY <1>3, <1>4, <1>5
<1> QED
  BY <1>1, <1>4, <1>6 DEF R, T, L

-----------------------------------------------------------------------------
(* TypeOK.                                                                 *)

\* The parts of TypeOK that a step of a task, or one of the webhooks, leaves.
Mail == \A g \in GameIds : queue[g] \in Seq(ToSet(Listing[g]) \X (Contents \ Garbled))

LEMMA MailSent ==
  ASSUME TypeOK, NEW g \in GameIds, NEW batch \in Seq(ToSet(Listing[g]) \X (Contents \ Garbled)),
         queue' = [queue EXCEPT ![g] = queue[g] \o batch]
  PROVE  /\ DOMAIN queue' = GameIds /\ Mail'
         /\ Len(queue'[g]) = Len(queue[g]) + Len(batch)
         /\ Len(queue[g]) \in Nat /\ Len(batch) \in Nat
         /\ \A h \in GameIds \ {g} : queue'[h] = queue[h]
<1>1. /\ DOMAIN queue = GameIds
      /\ \A h \in GameIds : queue[h] \in Seq(ToSet(Listing[h]) \X (Contents \ Garbled))
  BY DEF TypeOK
<1>2. queue'[g] = queue[g] \o batch /\ \A h \in GameIds \ {g} : queue'[h] = queue[h]
  BY <1>1
<1>3. /\ queue[g] \o batch \in Seq(ToSet(Listing[g]) \X (Contents \ Garbled))
      /\ Len(queue[g] \o batch) = Len(queue[g]) + Len(batch)
      /\ Len(queue[g]) \in Nat /\ Len(batch) \in Nat
  <2> DEFINE T == ToSet(Listing[g]) \X (Contents \ Garbled)
  <2>1. queue[g] \in Seq(T) /\ batch \in Seq(T)
    BY <1>1
  <2> HIDE DEF T
  <2>2. queue[g] \o batch \in Seq(T) /\ Len(queue[g] \o batch) = Len(queue[g]) + Len(batch)
        /\ Len(queue[g]) \in Nat /\ Len(batch) \in Nat
    BY <2>1
  <2> QED
    BY <2>2 DEF T
<1>4. \A h \in GameIds : queue'[h] \in Seq(ToSet(Listing[h]) \X (Contents \ Garbled))
  BY <1>1, <1>2, <1>3
<1> QED
  BY <1>1, <1>2, <1>3, <1>4 DEF Mail

LEMMA ListedPairs ==
  ASSUME NEW g \in GameIds, NEW s, s \in Seq(ToSet(Listing[g]) \X Contents)
                                    \/ s \in Seq(ToSet(Listing[g]) \X (Contents \cup {Absent}))
  PROVE  s \in Seq(Pairs)
<1>1. ToSet(Listing[g]) \subseteq Mods
  BY DEF Mods
<1>2. /\ ToSet(Listing[g]) \X Contents \subseteq Pairs
      /\ ToSet(Listing[g]) \X (Contents \cup {Absent}) \subseteq Pairs
  BY <1>1 DEF Pairs
<1>3. \A R : R \subseteq Pairs => Seq(R) \subseteq Seq(Pairs)
  OBVIOUS
<1> QED
  BY <1>2, <1>3

LEMMA TypeTask ==
  ASSUME TypeOK, Looking, NEW k \in Tasks, TaskStep(k) \/ TaskFails(k)
  PROVE  TypeOK'
<1> USE DEF nk, hookVars
<1>1. ASSUME UNCHANGED <<nk, inflated, hookVars>>, events' \in 0 .. MaxEvents,
             DOMAIN queue' = GameIds /\ Mail',
             DOMAIN left' = Tasks, at' \in [Tasks -> DOMAIN Games],
             \A j \in Tasks : left'[j] = Off \/ left'[j] \in Seq(Pairs)
      PROVE  TypeOK'
  BY <1>1 DEF TypeOK, Mail
<1>2. /\ DOMAIN queue = GameIds /\ Mail /\ events \in 0 .. MaxEvents
      /\ \A j \in Tasks : left[j] = Off \/ left[j] \in Seq(Pairs)
      /\ DOMAIN left = Tasks /\ at \in [Tasks -> DOMAIN Games]
      /\ netkan \in [Mods -> Contents \cup {Absent}]
  BY DEF TypeOK, Mail
<1>3. queue' = queue => DOMAIN queue' = GameIds /\ Mail'
  BY <1>2 DEF Mail
<1>4. CASE Refuse(k)
  BY <1>1, <1>2, <1>3, <1>4, GameFacts DEF Refuse, NextGame
<1>5. CASE Schedule(k)
  <2>1. Game(k) \in GameIds /\ Found(Game(k)) \in Seq(ToSet(Listing[Game(k)]) \X Contents)
    BY <1>2, GameFacts, FoundFacts DEF Found
  <2>2. Found(Game(k)) \in Seq(Pairs)
    BY <2>1, ListedPairs
  <2>3. LookAt(k, Found(Game(k))) /\ UNCHANGED <<nk, queue, inflated, hookVars, events>>
    BY <1>5 DEF Schedule
  <2>4. /\ DOMAIN left' = Tasks /\ at' \in [Tasks -> DOMAIN Games]
        /\ \A j \in Tasks : left'[j] \in {Off, left[j], Found(Game(k))}
    BY <2>3, LookAtFacts
  <2> QED
    BY <1>1, <1>2, <1>3, <2>2, <2>3, <2>4
<1>6. CASE Send(k)
  <2>1. /\ left[k] # Off /\ LookAt(k, Rest(left[k], Group(k)))
        /\ queue' = [queue EXCEPT ![Game(k)] = queue[Game(k)] \o Batch(left[k], Group(k))]
        /\ UNCHANGED <<nk, inflated, hookVars, events>>
    BY <1>6 DEF Send
  <2>2. DOMAIN queue' = GameIds /\ Mail'
    BY <2>1, GameFacts, TaskBatch, MailSent
  <2>3. Rest(left[k], Group(k)) \in Seq(Pairs)
    BY <2>1, GameFacts, TaskBatch, ListedPairs
  <2>4. /\ DOMAIN left' = Tasks /\ at' \in [Tasks -> DOMAIN Games]
        /\ \A j \in Tasks : left'[j] \in {Off, left[j], Rest(left[k], Group(k))}
    BY <2>1, LookAtFacts
  <2> QED
    BY <1>1, <1>2, <2>1, <2>2, <2>3, <2>4
<1>7. ASSUME TaskEnds(k), events' \in 0 .. MaxEvents PROVE TypeOK'
  BY <1>1, <1>2, <1>3, <1>7, EndsFacts
<1> QED
  BY <1>2, <1>4, <1>5, <1>6, <1>7, EventFacts DEF TaskStep, SendRaises, TaskFails

\* A request begins with files of its game, each as often as it was asked for.
LEMMA BeginFacts ==
  ASSUME TypeOK, NEW g \in GameIds, NEW ids \in Requests, ToSet(ids) \subseteq ToSet(Listing[g]),
         InflateHook(g, ids) \/ SpaceDockHook(g, ids)
  PROVE  /\ Call
         /\ \/ \E r \in {"400", "404", "500"} : Answer(r) /\ asked' = {}
            \/ \E found \in Seq(ToSet(Listing[g]) \X (Contents \cup {Absent})) :
                 Begin(g, found) /\ Len(found) <= MaxRequest
<1> DEFINE R == ToSet(Listing[g]) \X (Contents \cup {Absent})
<1>1. /\ netkan \in [Mods -> Contents \cup {Absent}]
      /\ ids \in Seq(Mods) /\ Len(ids) <= MaxRequest /\ MaxRequest \in Nat
  BY InflationAssumption DEF TypeOK
<1>2. CASE InflateHook(g, ids)
  <2> DEFINE found == [i \in DOMAIN ids |-> <<ids[i], netkan[ids[i]]>>]
  <2>1. \A i \in DOMAIN ids : found[i] \in R
    BY <1>1 DEF ToSet
  <2>2. DOMAIN ids = 1 .. Len(ids) /\ Len(ids) \in Nat
    BY <1>1
  <2>3. found \in [1 .. Len(ids) -> R]
    BY <2>1, <2>2
  <2>4. Call /\ ((Answer("400") /\ asked' = {}) \/ Begin(g, found))
    BY <1>2 DEF InflateHook
  <2> HIDE DEF found, R
  <2>5. found \in Seq(R) /\ Len(found) = Len(ids)
    BY <2>2, <2>3
  <2> QED
    BY <1>1, <2>4, <2>5 DEF R
<1>3. CASE SpaceDockHook(g, ids)
  <2> DEFINE all == Found(g)
             S == {i \in DOMAIN all : all[i][1] \in ToSet(ids)}
             found == At(all, S)
  <2>1. /\ all \in Seq(ToSet(Listing[g]) \X Contents)
        /\ \A i, j \in DOMAIN all : all[i][1] = all[j][1] => i = j
    BY <1>1, FoundFacts DEF Found
  <2>2. \A i \in S : all[i] \in R
    <3>1. \A i \in DOMAIN all : all[i] \in ToSet(Listing[g]) \X Contents
      BY <2>1
    <3> QED
      BY <3>1
  <2>3. /\ Call
        /\ \/ Answer("500") /\ asked' = {}
           \/ Answer("404") /\ asked' = {}
           \/ Begin(g, found)
    BY <1>3 DEF SpaceDockHook
  <2>4. S \in SUBSET DOMAIN all /\ (\A i, j \in S : all[i][1] = all[j][1] => i = j)
        /\ \A i \in S : all[i][1] \in ToSet(ids)
    BY <2>1
  <2> HIDE DEF all, S, R
  <2>5. S \in SUBSET Int /\ IsFiniteSet(S) /\ Cardinality(S) \in Nat
    BY <2>1, <2>4, PlacesFinite
  <2>6. found \in Seq(R) /\ Len(found) = Cardinality(S)
    BY <2>2, <2>5, AtFacts
  <2>7. Cardinality(S) <= Len(ids)
    <3> DEFINE f == [i \in S |-> CHOOSE n \in DOMAIN ids : ids[n] = all[i][1]]
    <3>1. \A i \in S : f[i] \in DOMAIN ids /\ ids[f[i]] = all[i][1]
      BY <2>4 DEF ToSet
    <3>2. f \in [S -> 1 .. Len(ids)]
      <4>1. DOMAIN ids = 1 .. Len(ids)
        BY <1>1
      <4>2. \A i \in S : (CHOOSE n \in DOMAIN ids : ids[n] = all[i][1]) \in 1 .. Len(ids)
        BY <3>1, <4>1
      <4> QED
        BY <4>2
    <3> HIDE DEF f
    <3>3. f \in Injection(S, 1 .. Len(ids))
      BY <2>4, <3>1, <3>2 DEF Injection, IsInjective
    <3>4. IsFiniteSet(1 .. Len(ids)) /\ Cardinality(1 .. Len(ids)) = Len(ids)
      BY <1>1, UpTo
    <3> QED
      BY <3>3, <3>4, FS_Injection
  <2>8. Len(found) <= MaxRequest
    BY <1>1, <2>5, <2>6, <2>7
  <2> HIDE DEF found
  <2> QED
    BY <2>3, <2>6, <2>8 DEF R
<1> QED
  BY <1>2, <1>3

LEMMA TypeHook ==
  ASSUME TypeOK, Answering, HookSends \/ HookRaises \/ HookFails
  PROVE  TypeOK'
<1> USE DEF nk, taskVars
<1>1. ASSUME UNCHANGED <<nk, inflated, taskVars, asked>>, events' \in 0 .. MaxEvents,
             DOMAIN queue' = GameIds /\ Mail', request' \in {request, Off}, files' \in Seq(Pairs),
             hooked' \subseteq Mods, reply' \in {reply, "204", "500"}
      PROVE  TypeOK'
  BY <1>1 DEF TypeOK, Mail
<1>2. /\ DOMAIN queue = GameIds /\ Mail /\ events \in 0 .. MaxEvents /\ hooked \subseteq Mods
      /\ files \in Seq(Pairs)
  BY DEF TypeOK, Mail
<1>3. CASE HookSends
  <2>1. /\ request # Off /\ ~Breaks(files, Contents, {Absent} \cup Garbled)
        /\ queue' = [queue EXCEPT ![request] = queue[request] \o Batch(files, Contents)]
        /\ hooked' = hooked \cup {f[1] : f \in ToSet(Batch(files, Contents))}
        /\ Answer("204") \/ (files' = Rest(files, Contents) /\ UNCHANGED <<request, reply>>)
        /\ UNCHANGED <<nk, inflated, taskVars, asked, events>>
    BY <1>3 DEF HookSends, HookStep
  <2>2. DOMAIN queue' = GameIds /\ Mail'
    BY <2>1, HookBatch, MailSent
  <2>3. files' \in Seq(Pairs) /\ request' \in {request, Off} /\ reply' \in {reply, "204"}
    <3>1. Rest(files, Contents) \in Seq(Pairs)
      BY <2>1, HookBatch, ListedPairs
    <3>0. <<>> \in Seq(Pairs)
      OBVIOUS
    <3>2. files' \in {<<>>, Rest(files, Contents)}
      BY <2>1 DEF Answer
    <3>3. request' \in {request, Off} /\ reply' \in {reply, "204"}
      BY <2>1 DEF Answer
    <3> QED
      BY <3>0, <3>1, <3>2, <3>3
  <2>4. hooked' \subseteq Mods
    <3>0. request \in GameIds /\ Batch(files, Contents) \in Seq(ToSet(Listing[request]) \X (Contents \ Garbled))
      BY <2>1, HookBatch
    <3> DEFINE T == ToSet(Listing[request]) \X (Contents \ Garbled)
    <3>1. request \in GameIds /\ Batch(files, Contents) \in Seq(T)
      BY <3>0
    <3>2. \A f \in T : f[1] \in Mods
      <4>1. \A f \in T : f[1] \in ToSet(Listing[request])
        OBVIOUS
      <4>2. ToSet(Listing[request]) \subseteq Mods
        BY <3>1 DEF Mods
      <4> HIDE DEF T
      <4> QED
        BY <4>1, <4>2
    <3> HIDE DEF T
    <3>3. ToSet(Batch(files, Contents)) \subseteq T
      BY <3>1 DEF ToSet
    <3> QED
      BY <1>2, <2>1, <3>2, <3>3
  <2> QED
    BY <1>1, <1>2, <2>1, <2>2, <2>3, <2>4
<1>4. CASE HookRaises \/ HookFails
  <2>1. /\ request' = Off /\ files' = <<>> /\ reply' = "500"
        /\ UNCHANGED <<nk, inflated, taskVars, asked, queue, hooked>>
    BY <1>4 DEF HookRaises, HookFails, HookStep, Answer
  <2>2. events' \in 0 .. MaxEvents
    BY <1>2, <1>4, EventFacts DEF HookRaises, HookFails
  <2>3. DOMAIN queue' = GameIds /\ Mail' /\ files' \in Seq(Pairs)
    BY <1>2, <2>1 DEF Mail
  <2> QED
    BY <1>1, <1>2, <2>1, <2>2, <2>3
<1> QED
  BY <1>3, <1>4

LEMMA TypeCall ==
  ASSUME TypeOK,
         \/ \E g \in GameIds, ids \in Requests :
              ToSet(ids) \subseteq ToSet(Listing[g]) /\ (InflateHook(g, ids) \/ SpaceDockHook(g, ids))
         \/ SpaceDockTells
  PROVE  TypeOK'
<1> USE DEF nk, taskVars
<1>1. ASSUME Call, request' \in GameIds \cup {Off}, files' \in Seq(Pairs), asked' \subseteq Mods,
             reply' \in {Off, "204", "400", "404", "500"}
      PROVE  TypeOK'
  <2>1. /\ UNCHANGED <<nk, inflated, taskVars, queue>> /\ events' \in 0 .. MaxEvents /\ hooked' = {}
    BY <1>1, EventFacts DEF Call
  <2> QED
    BY <1>1, <2>1 DEF TypeOK
<1>2. ASSUME NEW r \in {"204", "400", "404", "500"}, Call, Answer(r), asked' = {} PROVE TypeOK'
  <2>1. files' \in Seq(Pairs)
    BY <1>2 DEF Answer
  <2> QED
    BY <1>1, <1>2, <2>1 DEF Answer
<1>3. ASSUME NEW g \in GameIds, NEW found \in Seq(ToSet(Listing[g]) \X (Contents \cup {Absent})),
             Call, Begin(g, found)
      PROVE  TypeOK'
  <2>1. found \in Seq(Pairs)
    BY ListedPairs
  <2>2. \A f \in Pairs : f[1] \in Mods
    BY DEF Pairs
  <2>3. ToSet(found) \subseteq Pairs
    BY <2>1 DEF ToSet
  <2>4. {f[1] : f \in ToSet(found)} \subseteq Mods
    BY <2>2, <2>3
  <2> QED
    BY <1>1, <1>3, <2>1, <2>4 DEF Begin
<1>4. CASE SpaceDockTells
  BY <1>2, <1>4 DEF SpaceDockTells
<1>5. CASE \E g \in GameIds, ids \in Requests :
             ToSet(ids) \subseteq ToSet(Listing[g]) /\ (InflateHook(g, ids) \/ SpaceDockHook(g, ids))
  BY <1>2, <1>3, <1>5, BeginFacts
<1> QED
  BY <1>4, <1>5

\* What is left in the queue.
LEMMA InflateFacts ==
  ASSUME TypeOK, NEW g \in GameIds, Inflate(g)
  PROVE  /\ DOMAIN queue' = GameIds /\ Mail'
         /\ Len(queue'[g]) \in Nat /\ Len(queue[g]) \in Nat /\ Len(queue'[g]) <= Len(queue[g])
         /\ \A h \in GameIds \ {g} : queue'[h] = queue[h]
         /\ inflated' \in [Mods -> Contents \cup {Absent}]
<1> DEFINE T == ToSet(Listing[g]) \X (Contents \ Garbled)
           taken == Min({ReceiveSize, Len(queue[g])})
           last(m) == {i \in 1 .. taken : queue[g][i][1] = m /\
                         \A j \in i + 1 .. taken : queue[g][j][1] # m}
<1>1. /\ DOMAIN queue = GameIds /\ inflated \in [Mods -> Contents \cup {Absent}]
      /\ \A h \in GameIds : queue[h] \in Seq(ToSet(Listing[h]) \X (Contents \ Garbled))
      /\ queue[g] \in Seq(T) /\ ReceiveSize \in Nat
  BY InflationAssumption DEF TypeOK
<1>2. Len(queue[g]) \in Nat
  BY <1>1
<1>3. taken \in 0 .. Len(queue[g])
  <2>1. \A a, b \in Nat : Min({a, b}) \in 0 .. b
    <3> TAKE a \in Nat, b \in Nat
    <3>1. CASE a <= b
      <4>1. \A y \in {a, b} : a <= y
        BY <3>1
      <4>2. Min({a, b}) = a
        BY <4>1 DEF Min
      <4> QED
        BY <3>1, <4>2
    <3>2. CASE ~(a <= b)
      <4>1. \A y \in {a, b} : b <= y
        BY <3>2
      <4>2. Min({a, b}) = b
        BY <3>2, <4>1 DEF Min
      <4> QED
        BY <4>2
    <3> QED
      BY <3>1, <3>2
  <2> QED
    BY <1>1, <1>2, <2>1
<1>4. /\ queue' = [queue EXCEPT ![g] = SubSeq(queue[g], taken + 1, Len(queue[g]))]
      /\ inflated' = [m \in Mods |-> IF last(m) = {} THEN inflated[m]
                                     ELSE queue[g][CHOOSE i \in last(m) : TRUE][2]]
  BY DEF Inflate
<1>5. /\ SubSeq(queue[g], taken + 1, Len(queue[g])) \in Seq(T)
      /\ Len(SubSeq(queue[g], taken + 1, Len(queue[g]))) = Len(queue[g]) - taken
  <2> HIDE DEF T, taken
  <2>1. \A n \in 0 .. Len(queue[g]) :
          /\ SubSeq(queue[g], n + 1, Len(queue[g])) \in Seq(T)
          /\ Len(SubSeq(queue[g], n + 1, Len(queue[g]))) = Len(queue[g]) - n
    BY <1>1
  <2> QED
    BY <1>3, <2>1
<1>6. \A m \in Mods : last(m) # {} => queue[g][CHOOSE i \in last(m) : TRUE][2] \in Contents
  <2> TAKE m \in Mods
  <2> HAVE last(m) # {}
  <2>1. (CHOOSE i \in last(m) : TRUE) \in last(m)
    OBVIOUS
  <2>2. last(m) \subseteq DOMAIN queue[g]
    BY <1>1, <1>2, <1>3
  <2>3. \A i \in DOMAIN queue[g] : queue[g][i] \in T
    BY <1>1
  <2>4. \A t \in T : t[2] \in Contents
    OBVIOUS
  <2> HIDE DEF T, last
  <2> QED
    BY <2>1, <2>2, <2>3, <2>4
<1> HIDE DEF last, taken
<1>7. inflated' \in [Mods -> Contents \cup {Absent}]
  BY <1>1, <1>4, <1>6
<1>8. queue'[g] = SubSeq(queue[g], taken + 1, Len(queue[g])) /\ \A h \in GameIds \ {g} : queue'[h] = queue[h]
  BY <1>1, <1>4
<1>9. DOMAIN queue' = GameIds /\ Mail'
  BY <1>1, <1>4, <1>5, <1>8 DEF Mail
<1> QED
  BY <1>2, <1>3, <1>5, <1>7, <1>8, <1>9

LEMMA TypeNext == TypeOK /\ Looking /\ Answering /\ [Next]_vars => TypeOK'
<1> SUFFICES ASSUME TypeOK, Looking, Answering, [Next]_vars PROVE TypeOK'
  OBVIOUS
<1>1. ASSUME NEW g \in GameIds, Inflate(g) PROVE TypeOK'
  <2>1. UNCHANGED <<netkan, reached, taskVars, hookVars, events>>
    BY <1>1 DEF Inflate, nk
  <2> QED
    BY <1>1, <2>1, InflateFacts DEF TypeOK, Mail, taskVars, hookVars
<1>2. ASSUME NEW e \in Edits, OthersEdit(e[1], e[2]) PROVE TypeOK'
  <2>1. e[1] \in Mods /\ e[2] \in Contents \cup {Absent}
    BY InflationAssumption
  <2>2. netkan' \in [Mods -> Contents \cup {Absent}] /\ reached' \subseteq Mods
    BY <1>2, <2>1 DEF OthersEdit, Reached, TypeOK
  <2> QED
    BY <1>2, <2>2, EventFacts DEF OthersEdit, TypeOK, taskVars, hookVars
<1>3. CASE UNCHANGED vars
  BY <1>3 DEF vars, nk, taskVars, hookVars, TypeOK
<1> QED
  BY <1>1, <1>2, <1>3, TypeTask, TypeHook, TypeCall DEF Next

LEMMA TypeInit == Init => TypeOK
<1> SUFFICES ASSUME Init PROVE TypeOK
  OBVIOUS
<1>1. netkan \in [Mods -> Contents \cup {Absent}] /\ reached \subseteq Mods
  BY InflationAssumption DEF Init, Reached
<1>2. 1 \in DOMAIN Games /\ 0 \in 0 .. MaxEvents
  BY InflationAssumption
<1>3. \A g \in GameIds : queue[g] \in Seq(ToSet(Listing[g]) \X (Contents \ Garbled))
  BY DEF Init
<1>4. files \in Seq(Pairs)
  BY DEF Init
<1> QED
  BY <1>1, <1>2, <1>3, <1>4 DEF Init, TypeOK

-----------------------------------------------------------------------------
(* What is looked at, and what was answered.                               *)

LEMMA LookingNext == TypeOK /\ Looking /\ [Next]_vars => Looking'
<1> SUFFICES ASSUME TypeOK, Looking, [Next]_vars PROVE Looking'
  OBVIOUS
<1> DEFINE Fit(seq, g) ==
             /\ seq \in Seq(ToSet(Listing[g]) \X Contents)
             /\ \A i, j \in DOMAIN seq : seq[i][1] = seq[j][1] => i = j
<1>1. \A k \in Tasks : left[k] # Off => Fit(left[k], Game(k))
  BY DEF Looking
<1> HIDE DEF Fit
<1>2. ASSUME NEW k \in Tasks, left'[k] # Off => Fit(left'[k], Games[at'[k]]),
             \A j \in Tasks \ {k} : left'[j] = left[j] /\ at'[j] = at[j]
      PROVE  Looking'
  <2>1. \A j \in Tasks \ {k} : left'[j] # Off => Fit(left'[j], Games[at'[j]])
    BY <1>1, <1>2 DEF Game
  <2>2. \A j \in Tasks : left'[j] # Off => Fit(left'[j], Games[at'[j]])
    BY <1>2, <2>1
  <2> QED
    BY <2>2 DEF Looking, Game, Fit
<1>3. ASSUME UNCHANGED taskVars PROVE Looking'
  BY <1>3 DEF taskVars, Looking, Game
<1>4. ASSUME NEW k \in Tasks, Refuse(k) PROVE Looking'
  <2>1. left[k] = Off /\ left' = left /\ \A j \in Tasks \ {k} : at'[j] = at[j]
    BY <1>4, GameFacts DEF Refuse, NextGame, TypeOK
  <2> QED
    BY <1>2, <2>1
<1>5. ASSUME NEW k \in Tasks, Schedule(k) PROVE Looking'
  <2>1. LookAt(k, Found(Game(k)))
    BY <1>5 DEF Schedule
  <2>2. Fit(Found(Game(k)), Game(k))
    <3>1. Game(k) \in GameIds /\ netkan \in [Mods -> Contents \cup {Absent}]
      BY GameFacts DEF TypeOK
    <3> QED
      BY <3>1, FoundFacts DEF Found, Fit
  <2>3. left'[k] # Off => Fit(left'[k], Games[at'[k]])
    BY <2>1, <2>2, LookAtFacts DEF Game
  <2> QED
    BY <1>2, <2>1, <2>3, LookAtFacts
<1>6. ASSUME NEW k \in Tasks, Send(k) PROVE Looking'
  <2>1. LookAt(k, Rest(left[k], Group(k))) /\ left[k] # Off
    BY <1>6 DEF Send
  <2>2. Fit(Rest(left[k], Group(k)), Game(k))
    <3> DEFINE rest == Rest(left[k], Group(k))
               r == ReadFor(left[k], Group(k))
    <3>1. /\ rest \in Seq(ToSet(Listing[Game(k)]) \X Contents)
          /\ \A i \in DOMAIN rest : i + r \in DOMAIN left[k] /\ rest[i] = left[k][i + r]
      BY <2>1, TaskBatch
    <3>2. \A i, j \in DOMAIN left[k] : left[k][i][1] = left[k][j][1] => i = j
      BY <2>1 DEF Looking
    <3>3. r \in Int
      <4>1. left[k] \in Seq(ToSet(Listing[Game(k)]) \X Contents)
        BY <2>1 DEF Looking
      <4>2. r \in 0 .. Len(left[k])
        BY <4>1, ReadForFacts
      <4> QED
        BY <4>1, <4>2
    <3>4. \A i \in DOMAIN rest : i \in Int
      BY <3>1
    <3> HIDE DEF rest, r
    <3>5. \A i, j \in DOMAIN rest : rest[i][1] = rest[j][1] => i + r = j + r
      BY <3>1, <3>2
    <3>6. \A a, b, c \in Int : a + c = b + c => a = b
      OBVIOUS
    <3>7. \A i, j \in DOMAIN rest : rest[i][1] = rest[j][1] => i = j
      BY <3>3, <3>4, <3>5, <3>6
    <3> QED
      BY <3>1, <3>7 DEF Fit, rest
  <2>3. left'[k] # Off => Fit(left'[k], Games[at'[k]])
    BY <2>1, <2>2, LookAtFacts DEF Game
  <2> QED
    BY <1>2, <2>1, <2>3, LookAtFacts
<1>7. ASSUME NEW k \in Tasks, TaskEnds(k) PROVE Looking'
  BY <1>2, <1>7, EndsFacts
<1>8. ASSUME NEW k \in Tasks, TaskStep(k) \/ TaskFails(k) PROVE Looking'
  BY <1>4, <1>5, <1>6, <1>7, <1>8 DEF TaskStep, SendRaises, TaskFails
<1>9. ASSUME \/ \E g \in GameIds, ids \in Requests : InflateHook(g, ids) \/ SpaceDockHook(g, ids)
             \/ SpaceDockTells
      PROVE  UNCHANGED taskVars
  BY <1>9 DEF InflateHook, SpaceDockHook, SpaceDockTells, Call
<1>10. ASSUME \/ HookSends \/ HookRaises \/ HookFails
              \/ \E g \in GameIds : Inflate(g)
              \/ \E e \in Edits : OthersEdit(e[1], e[2])
              \/ UNCHANGED vars
       PROVE  UNCHANGED taskVars
  BY <1>10 DEF HookSends, HookRaises, HookFails, HookStep, Inflate, OthersEdit, vars
<1> QED
  BY <1>3, <1>8, <1>9, <1>10 DEF Next

\* What a call leaves to be answered.
LEMMA AnsweringBegins ==
  ASSUME TypeOK, NEW g \in GameIds,
         \/ \E r \in {"204", "400", "404", "500"} : Answer(r) /\ asked' = {}
         \/ \E found \in Seq(ToSet(Listing[g]) \X (Contents \cup {Absent})) : Begin(g, found)
  PROVE  Answering'
<1>1. ASSUME NEW r \in {"204", "400", "404", "500"}, Answer(r), asked' = {} PROVE Answering'
  BY <1>1 DEF Answer, Answering, AnsweredIsQueued
<1>2. ASSUME NEW found \in Seq(ToSet(Listing[g]) \X (Contents \cup {Absent})), Begin(g, found)
      PROVE  Answering'
  <2>1. request' = g /\ files' = found /\ asked' = {f[1] : f \in ToSet(found)} /\ reply' = Off
    BY <1>2 DEF Begin
  <2>2. Off # "204"
    BY InflationAssumption
  <2>3. \A m \in asked' : \E i \in DOMAIN files' : files'[i][1] = m
    BY <2>1 DEF ToSet
  <2> QED
    BY <2>1, <2>2, <2>3 DEF Answering, AnsweredIsQueued
<1> QED
  BY <1>1, <1>2

LEMMA AnsweringNext == TypeOK /\ Answering /\ [Next]_vars => Answering'
<1> SUFFICES ASSUME TypeOK, Answering, [Next]_vars PROVE Answering'
  OBVIOUS
<1>1. ASSUME UNCHANGED hookVars PROVE Answering'
  BY <1>1 DEF hookVars, Answering, AnsweredIsQueued
<1>2. CASE HookSends
  <2>1. /\ request # Off /\ ~Breaks(files, Contents, {Absent} \cup Garbled)
        /\ hooked' = hooked \cup {f[1] : f \in ToSet(Batch(files, Contents))} /\ asked' = asked
    BY <1>2 DEF HookSends, HookStep
  <2>2. /\ Rest(files, Contents) \in Seq(ToSet(Listing[request]) \X (Contents \cup {Absent}))
        /\ \A i \in DOMAIN files :
             \/ \E n \in DOMAIN Batch(files, Contents) : Batch(files, Contents)[n] = files[i]
             \/ \E n \in DOMAIN Rest(files, Contents) : Rest(files, Contents)[n] = files[i]
    BY <2>1, HookBatch
  <2>3. \A m \in asked' : m \in hooked' \/ \E n \in DOMAIN Rest(files, Contents) : Rest(files, Contents)[n][1] = m
    <3> TAKE m \in asked'
    <3>1. m \in hooked \/ \E i \in DOMAIN files : files[i][1] = m
      BY <2>1 DEF Answering
    <3>2. ASSUME NEW i \in DOMAIN files, files[i][1] = m,
                 NEW n \in DOMAIN Batch(files, Contents), Batch(files, Contents)[n] = files[i]
          PROVE  m \in hooked'
      <4>1. files[i] \in ToSet(Batch(files, Contents))
        BY <3>2 DEF ToSet
      <4> QED
        BY <2>1, <3>2, <4>1
    <3> QED
      BY <2>1, <2>2, <3>1, <3>2
  <2>4. CASE Rest(files, Contents) = <<>>
    <3>1. asked' \subseteq hooked' /\ request' = Off
      BY <1>2, <2>3, <2>4 DEF HookSends, Answer
    <3> QED
      BY <3>1 DEF Answering, AnsweredIsQueued
  <2>5. CASE Rest(files, Contents) # <<>>
    <3>1. files' = Rest(files, Contents) /\ UNCHANGED <<request, reply>>
      BY <1>2, <2>5 DEF HookSends
    <3>2. reply' = "204" => asked' \subseteq hooked'
      BY <2>1, <3>1 DEF Answering, AnsweredIsQueued
    <3> QED
      BY <2>2, <2>3, <3>1, <3>2 DEF Answering, AnsweredIsQueued
  <2> QED
    BY <2>4, <2>5
<1>3. CASE HookRaises \/ HookFails
  BY <1>3 DEF HookRaises, HookFails, Answer, Answering, AnsweredIsQueued
<1>4. CASE SpaceDockTells
  <2>1. Answer("204") /\ asked' = {}
    BY <1>4 DEF SpaceDockTells
  <2> QED
    BY <2>1 DEF Answer, Answering, AnsweredIsQueued
<1>5. ASSUME NEW g \in GameIds, NEW ids \in Requests, ToSet(ids) \subseteq ToSet(Listing[g]),
             InflateHook(g, ids) \/ SpaceDockHook(g, ids)
      PROVE  Answering'
  BY <1>5, BeginFacts, AnsweringBegins
<1>6. ASSUME \/ \E k \in Tasks : TaskStep(k) \/ TaskFails(k)
             \/ \E g \in GameIds : Inflate(g)
             \/ \E e \in Edits : OthersEdit(e[1], e[2])
             \/ UNCHANGED vars
      PROVE  UNCHANGED hookVars
  BY <1>6 DEF TaskStep, TaskFails, TaskEnds, Refuse, Schedule, Send, SendRaises, Inflate, OthersEdit, vars
<1> QED
  BY <1>1, <1>2, <1>3, <1>4, <1>5, <1>6 DEF Next

-----------------------------------------------------------------------------
(* What the tasks have an older content of.                                *)

\* A step of a task makes nothing stale that was not, an edit one mod.
LEMMA StaleTask ==
  ASSUME TypeOK, Looking, NEW k \in Tasks, TaskStep(k) \/ TaskFails(k)
  PROVE  Stale' \subseteq Stale
<1>1. netkan' = netkan
  BY DEF TaskStep, TaskFails, TaskEnds, Refuse, Schedule, Send, SendRaises, nk
<1>2. ASSUME \A j \in Tasks : left'[j] # Off =>
               \A i \in DOMAIN left'[j] :
                 \/ left'[j][i][2] = netkan[left'[j][i][1]]
                 \/ left[j] # Off /\ \E n \in DOMAIN left[j] : left[j][n] = left'[j][i]
      PROVE  Stale' \subseteq Stale
  <2>1. ASSUME NEW m \in Mods, NEW j \in Tasks, left'[j] # Off, NEW i \in DOMAIN left'[j],
               left'[j][i][1] = m, left'[j][i][2] # netkan[m]
        PROVE  left[j] # Off /\ \E n \in DOMAIN left[j] : left[j][n][1] = m /\ left[j][n][2] # netkan[m]
    <3>1. PICK n \in DOMAIN left[j] : left[j] # Off /\ left[j][n] = left'[j][i]
      BY <1>2, <2>1
    <3> QED
      BY <2>1, <3>1
  <2> QED
    BY <1>1, <2>1 DEF Stale
<1>3. ASSUME NEW rest, LookAt(k, rest),
             \A i \in DOMAIN rest :
               \/ rest[i][2] = netkan[rest[i][1]]
               \/ left[k] # Off /\ \E n \in DOMAIN left[k] : left[k][n] = rest[i]
      PROVE  Stale' \subseteq Stale
  <2>1. \/ left'[k] = Off \/ left'[k] = rest
    BY <1>3, LookAtFacts
  <2>2. \A j \in Tasks \ {k} : left'[j] = left[j]
    BY <1>3, LookAtFacts
  <2> QED
    BY <1>2, <1>3, <2>1, <2>2
<1>4. ASSUME Refuse(k) PROVE Stale' \subseteq Stale
  BY <1>2, <1>4 DEF Refuse
<1>5. ASSUME Schedule(k) PROVE Stale' \subseteq Stale
  <2>1. LookAt(k, Found(Game(k)))
    BY <1>5 DEF Schedule
  <2>2. \A i \in DOMAIN Found(Game(k)) : Found(Game(k))[i][2] = netkan[Found(Game(k))[i][1]]
    <3>1. Game(k) \in GameIds /\ netkan \in [Mods -> Contents \cup {Absent}]
      BY GameFacts DEF TypeOK
    <3> QED
      BY <3>1, FoundFacts DEF Found
  <2> QED
    BY <1>3, <2>1, <2>2
<1>6. ASSUME Send(k) PROVE Stale' \subseteq Stale
  <2>1. LookAt(k, Rest(left[k], Group(k))) /\ left[k] # Off
    BY <1>6 DEF Send
  <2>2. \A i \in DOMAIN Rest(left[k], Group(k)) :
          \E n \in DOMAIN left[k] : left[k][n] = Rest(left[k], Group(k))[i]
    BY <2>1, TaskBatch
  <2> QED
    BY <1>3, <2>1, <2>2
<1>7. ASSUME TaskEnds(k) PROVE Stale' \subseteq Stale
  <2>1. left'[k] = Off /\ \A j \in Tasks \ {k} : left'[j] = left[j]
    BY <1>7, EndsFacts
  <2> QED
    BY <1>2, <2>1
<1> QED
  BY <1>4, <1>5, <1>6, <1>7 DEF TaskStep, SendRaises, TaskFails

LEMMA StaleEdit ==
  ASSUME TypeOK, NEW e \in Edits, OthersEdit(e[1], e[2])
  PROVE  Stale' \subseteq Stale \cup {e[1]}
<1>1. e[1] \in Mods /\ netkan' = [netkan EXCEPT ![e[1]] = e[2]] /\ left' = left
  BY InflationAssumption DEF OthersEdit, taskVars
<1>2. \A m \in Mods \ {e[1]} : netkan'[m] = netkan[m]
  BY <1>1 DEF TypeOK
<1> QED
  BY <1>1, <1>2 DEF Stale

\* What is owed to a game is a number, of each task and of the webhooks.
LEMMA OwesNat ==
  ASSUME TypeOK, NEW g \in GameIds
  PROVE  /\ HookOwes(g) \in Nat /\ \A k \in Tasks : TaskOwes(k, g) \in Nat
         /\ Len(queue[g]) \in Nat /\ Len(Listing[g]) \in Nat
         /\ events \in Nat /\ MaxRequest \in Nat \ {0}
<1>1. Cardinality(Wanted(files, Contents)) \in Nat
  BY ReadForFacts, PlacesFinite DEF TypeOK
<1>2. ASSUME NEW k \in Tasks, left[k] # Off PROVE Cardinality(Wanted(left[k], Group(k))) \in Nat
  <2>1. left[k] \in Seq(Pairs)
    BY <1>2 DEF TypeOK
  <2> QED
    BY <2>1, ReadForFacts, PlacesFinite
<1>3. /\ queue[g] \in Seq(ToSet(Listing[g]) \X (Contents \ Garbled)) /\ Listing[g] \in Seq(Mods)
      /\ events \in Nat /\ MaxRequest \in Nat \ {0}
  BY InflationAssumption DEF TypeOK
<1>4. Len(queue[g]) \in Nat /\ Len(Listing[g]) \in Nat
  BY <1>3
<1> QED
  BY <1>1, <1>2, <1>3, <1>4 DEF HookOwes, TaskOwes

\* What the webhooks owe after a step.
LEMMA HookOwesNext ==
  ASSUME TypeOK, Answering, [Next]_vars, NEW g \in GameIds
  PROVE  \/ HookOwes(g)' <= HookOwes(g)
         \/ HookOwes(g)' <= MaxRequest /\ request = Off /\ events' = events + 1
<1>0. HookOwes(g) \in Nat /\ Off \notin GameIds /\ MaxRequest \in Nat
  BY OwesNat, InflationAssumption
<1>1. ASSUME UNCHANGED <<request, files>> PROVE HookOwes(g)' <= HookOwes(g)
  BY <1>0, <1>1 DEF HookOwes
<1>2. ASSUME request' = Off PROVE HookOwes(g)' <= HookOwes(g)
  BY <1>0, <1>2 DEF HookOwes
<1>3. CASE HookSends
  <2>1. request' = Off \/ (request' = request /\ files' = Rest(files, Contents))
    BY <1>3 DEF HookSends, Answer
  <2>2. Cardinality(Wanted(Rest(files, Contents), Contents)) <= Cardinality(Wanted(files, Contents))
    <3>1. files \in Seq(Pairs)
      BY DEF TypeOK
    <3>2. /\ Cardinality(Wanted(files, Contents)) \in Nat
          /\ Cardinality(Wanted(Rest(files, Contents), Contents)) \in Nat
          /\ Len(Batch(files, Contents)) \in Nat
          /\ Len(Batch(files, Contents)) + Cardinality(Wanted(Rest(files, Contents), Contents))
               = Cardinality(Wanted(files, Contents))
      BY <3>1, BatchSplits
    <3> QED
      BY <3>2
  <2> QED
    BY <1>0, <1>2, <2>1, <2>2 DEF HookOwes
<1>4. CASE HookRaises \/ HookFails \/ SpaceDockTells
  BY <1>2, <1>4 DEF HookRaises, HookFails, SpaceDockTells, Answer
<1>5. ASSUME NEW h \in GameIds, NEW ids \in Requests, ToSet(ids) \subseteq ToSet(Listing[h]),
             InflateHook(h, ids) \/ SpaceDockHook(h, ids)
      PROVE  \/ HookOwes(g)' <= HookOwes(g)
             \/ HookOwes(g)' <= MaxRequest /\ request = Off /\ events' = events + 1
  <2>1. request = Off /\ events' = events + 1
    BY <1>5, BeginFacts DEF Call, Event
  <2>2. ASSUME NEW found \in Seq(ToSet(Listing[h]) \X (Contents \cup {Absent})),
               Begin(h, found), Len(found) <= MaxRequest
        PROVE  HookOwes(g)' <= MaxRequest
    <3>1. Cardinality(Wanted(found, Contents)) \in Nat /\ Cardinality(Wanted(found, Contents)) <= Len(found)
          /\ Len(found) \in Nat
      BY <2>2, ReadForFacts, PlacesFinite
    <3>2. HookOwes(g)' \in {0, Cardinality(Wanted(found, Contents))}
      BY <2>2 DEF Begin, HookOwes
    <3> QED
      BY <1>0, <2>2, <3>1, <3>2
  <2>3. ASSUME NEW r \in {"400", "404", "500"}, Answer(r) PROVE HookOwes(g)' <= HookOwes(g)
    BY <1>2, <2>3 DEF Answer
  <2> QED
    BY <1>5, <2>1, <2>2, <2>3, BeginFacts
<1>6. ASSUME \/ \E k \in Tasks : TaskStep(k) \/ TaskFails(k)
             \/ \E h \in GameIds : Inflate(h)
             \/ \E e \in Edits : OthersEdit(e[1], e[2])
             \/ UNCHANGED vars
      PROVE  UNCHANGED <<request, files>>
  BY <1>6
  DEF TaskStep, TaskFails, TaskEnds, Refuse, Schedule, Send, SendRaises, Inflate, OthersEdit, vars, hookVars
<1> QED
  BY <1>1, <1>3, <1>4, <1>5, <1>6 DEF Next

Busy == IF request = Off THEN 0 ELSE 1

LEMMA CountedBy ==
  ASSUME TypeOK, Looking, Answering, Counted, [Next]_vars, events' \in Nat,
         \/ Stale' \subseteq Stale /\ Busy' + events <= Busy + events'
         \/ /\ \E m \in Mods : Stale' \subseteq Stale \cup {m}
            /\ Busy' = Busy /\ events' = events + 1
  PROVE  Counted'
<1>1. /\ IsFiniteSet(Stale) /\ Cardinality(Stale) \in Nat /\ Cardinality(Stale) + Busy <= events
      /\ events \in Nat /\ Busy \in {0, 1} /\ Busy' \in {0, 1}
  BY FS_CardinalityType DEF Counted, TypeOK, Busy
<1>2. IsFiniteSet(Stale') /\ Cardinality(Stale') + Busy' <= events'
  <2>1. CASE Stale' \subseteq Stale /\ Busy' + events <= Busy + events'
    <3>1. IsFiniteSet(Stale') /\ Cardinality(Stale') <= Cardinality(Stale)
      BY <1>1, <2>1, FS_Subset
    <3>2. Cardinality(Stale') \in Nat
      BY <3>1, FS_CardinalityType
    <3>3. \A c, d, b, x, e, f \in Nat : c + b <= e /\ d <= c /\ x + e <= b + f => d + x <= f
      OBVIOUS
    <3>4. Busy \in Nat /\ Busy' \in Nat
      BY <1>1
    <3> QED
      BY <1>1, <2>1, <3>1, <3>2, <3>3, <3>4
  <2>2. ASSUME NEW m \in Mods, Stale' \subseteq Stale \cup {m}, Busy' = Busy, events' = events + 1
        PROVE  IsFiniteSet(Stale') /\ Cardinality(Stale') + Busy' <= events'
    <3>1. /\ IsFiniteSet(Stale \cup {m}) /\ Cardinality(Stale \cup {m}) \in Nat
          /\ Cardinality(Stale \cup {m}) <= Cardinality(Stale) + 1
      <4>1. IsFiniteSet(Stale \cup {m})
            /\ Cardinality(Stale \cup {m}) = IF m \in Stale THEN Cardinality(Stale) ELSE Cardinality(Stale) + 1
        BY <1>1, FS_AddElement
      <4> QED
        BY <1>1, <4>1
    <3>2. IsFiniteSet(Stale') /\ Cardinality(Stale') <= Cardinality(Stale \cup {m})
      BY <2>2, <3>1, FS_Subset
    <3>3. Cardinality(Stale') \in Nat
      BY <3>2, FS_CardinalityType
    <3> QED
      BY <1>1, <2>2, <3>1, <3>2, <3>3
  <2> QED
    BY <2>1, <2>2
<1>3. \A g \in GameIds : HookOwes(g)' <= MaxRequest
  <2> TAKE g \in GameIds
  <2>1. HookOwes(g) <= MaxRequest /\ HookOwes(g) \in Nat /\ MaxRequest \in Nat
    BY OwesNat DEF Counted
  <2>2. HookOwes(g)' <= HookOwes(g) \/ HookOwes(g)' <= MaxRequest
    BY HookOwesNext
  <2>3. Cardinality(Wanted(files', Contents)) \in Nat
    <3>1. TypeOK'
      BY TypeNext
    <3> QED
      BY <3>1, ReadForFacts, PlacesFinite DEF TypeOK
  <2>4. HookOwes(g)' \in Nat
    BY <2>3 DEF HookOwes
  <2> QED
    BY <2>1, <2>2, <2>4
<1> QED
  BY <1>2, <1>3 DEF Counted, Busy

LEMMA CountedNext == TypeOK /\ Looking /\ Answering /\ Counted /\ [Next]_vars => Counted'
<1> SUFFICES ASSUME TypeOK, Looking, Answering, Counted, [Next]_vars PROVE Counted'
  OBVIOUS
<1>1. events \in Nat /\ Busy \in {0, 1} /\ Busy' \in {0, 1} /\ Off \notin GameIds
  BY InflationAssumption DEF TypeOK, Busy
<1>2. ASSUME UNCHANGED nk, UNCHANGED left PROVE Stale' \subseteq Stale
  BY <1>2 DEF nk, Stale
<1>3. ASSUME NEW k \in Tasks, TaskStep(k) \/ TaskFails(k) PROVE Counted'
  <2>1. request' = request /\ (events' = events \/ events' = events + 1)
    BY <1>3 DEF TaskStep, TaskFails, TaskEnds, Refuse, Schedule, Send, SendRaises, hookVars, Event
  <2> QED
    BY <1>1, <1>3, <2>1, StaleTask, CountedBy DEF Busy
<1>4. ASSUME Call PROVE Counted'
  <2>1. request = Off /\ events' = events + 1 /\ Stale' \subseteq Stale
    BY <1>2, <1>4 DEF Call, Event, taskVars
  <2> QED
    BY <1>1, <2>1, CountedBy DEF Busy
<1>5. CASE HookSends \/ HookRaises \/ HookFails
  <2>1. /\ Stale' \subseteq Stale /\ request' \in {request, Off}
        /\ events' = events \/ events' = events + 1
    BY <1>2, <1>5 DEF HookSends, HookRaises, HookFails, HookStep, Answer, Event, taskVars
  <2>2. Busy' <= Busy
    BY <1>1, <2>1 DEF Busy
  <2> QED
    BY <1>1, <2>1, <2>2, CountedBy
<1>6. ASSUME UNCHANGED <<nk, left, request, events>> PROVE Counted'
  <2>1. Stale' \subseteq Stale /\ Busy' = Busy
    BY <1>2, <1>6 DEF Busy
  <2> QED
    BY <1>1, <1>6, <2>1, CountedBy
<1>7. ASSUME NEW e \in Edits, OthersEdit(e[1], e[2]) PROVE Counted'
  <2>1. Stale' \subseteq Stale \cup {e[1]} /\ e[1] \in Mods
    BY <1>7, StaleEdit, InflationAssumption
  <2>2. request' = request /\ events' = events + 1
    BY <1>7 DEF OthersEdit, Event, hookVars
  <2> QED
    BY <1>1, <2>1, <2>2, CountedBy DEF Busy
<1>8. CASE SpaceDockTells
  BY <1>4, <1>8 DEF SpaceDockTells
<1>9. ASSUME NEW g \in GameIds, NEW ids \in Requests, InflateHook(g, ids) \/ SpaceDockHook(g, ids)
      PROVE  Counted'
  BY <1>4, <1>9 DEF InflateHook, SpaceDockHook
<1>10. ASSUME NEW g \in GameIds, Inflate(g) PROVE Counted'
  BY <1>6, <1>10 DEF Inflate, taskVars, hookVars
<1>11. CASE UNCHANGED vars
  BY <1>6, <1>11 DEF vars, taskVars, hookVars
<1> QED
  BY <1>3, <1>5, <1>7, <1>8, <1>9, <1>10, <1>11 DEF Next

-----------------------------------------------------------------------------
(* How long a queue gets.                                                  *)

LEMMA ListCard ==
  ASSUME NEW L \in Seq(Mods)
  PROVE  /\ IsFiniteSet(ToSet(L)) /\ Cardinality(ToSet(L)) \in Nat /\ Len(L) \in Nat
         /\ Cardinality(ToSet(L)) <= Len(L)
<1> DEFINE f == [i \in 1 .. Len(L) |-> L[i]]
<1>1. Len(L) \in Nat /\ DOMAIN L = 1 .. Len(L)
  OBVIOUS
<1>2. IsFiniteSet(1 .. Len(L)) /\ Cardinality(1 .. Len(L)) = Len(L)
  BY <1>1, UpTo
<1>3. f \in Surjection(1 .. Len(L), ToSet(L))
  BY <1>1 DEF Surjection, ToSet
<1>4. IsFiniteSet(ToSet(L)) /\ Cardinality(ToSet(L)) <= Len(L)
  BY <1>2, <1>3, FS_Surjection
<1> QED
  BY <1>1, <1>4, FS_CardinalityType

\* The mods of files that are each there once are as many as the files.
ModsOf(seq, W) == {seq[i][1] : i \in Wanted(seq, W)}

LEMMA WantedMods ==
  ASSUME NEW X, NEW seq \in Seq(X \X Contents), NEW W,
         \A i, j \in DOMAIN seq : seq[i][1] = seq[j][1] => i = j
  PROVE  /\ ModsOf(seq, W) \subseteq X /\ IsFiniteSet(ModsOf(seq, W))
         /\ Cardinality(ModsOf(seq, W)) = Cardinality(Wanted(seq, W))
<1> DEFINE S == Wanted(seq, W)
           T == {seq[i][1] : i \in S}
           f == [i \in S |-> seq[i][1]]
<1>1. S \in SUBSET DOMAIN seq
  BY DEF Wanted
<1>2. \A i \in DOMAIN seq : seq[i] \in X \X Contents
  OBVIOUS
<1>3. \A i \in S : seq[i][1] \in X
  BY <1>1, <1>2
<1>4. T \subseteq X
  BY <1>3
<1> HIDE DEF S
<1>5. IsFiniteSet(S)
  BY <1>1, PlacesFinite
<1>6. f \in Bijection(S, T)
  BY <1>1 DEF Bijection, Injection, Surjection, IsInjective
<1> HIDE DEF T, f
<1>7. IsFiniteSet(T) /\ Cardinality(T) = Cardinality(S)
  BY <1>5, <1>6, FS_Bijection DEF ExistsBijection
<1> QED
  BY <1>4, <1>7 DEF T, S, ModsOf

LEMMA LimitFacts == Limit \in Nat /\ \A k \in Tasks : MaxQueued[k] <= Limit
<1> DEFINE S == {MaxQueued[k] : k \in Tasks}
<1>1. PICK x \in S : \A y \in S : x >= y
  <2>1. MaxQueued["nonhooks"] \in Nat /\ MaxQueued["webhooks"] \in Nat
    BY InflationAssumption DEF Tasks
  <2>2. S = {MaxQueued["nonhooks"], MaxQueued["webhooks"]}
    BY DEF Tasks
  <2>3. \A a, b \in Nat : \E x \in {a, b} : x >= a /\ x >= b
    <3> TAKE a \in Nat, b \in Nat
    <3>1. CASE a <= b
      BY <3>1
    <3>2. CASE ~(a <= b)
      BY <3>2
    <3> QED
      BY <3>1, <3>2
  <2>4. PICK x \in S : x >= MaxQueued["nonhooks"] /\ x >= MaxQueued["webhooks"]
    BY <2>1, <2>2, <2>3
  <2> QED
    BY <2>2, <2>4
<1>2. Limit \in S /\ \A y \in S : Limit >= y
  BY <1>1 DEF Limit, Max
<1>3. S \subseteq Nat
  BY InflationAssumption
<1>4. Limit \in Nat
  BY <1>2, <1>3
<1>5. \A k \in Tasks : MaxQueued[k] \in S /\ MaxQueued[k] \in Nat
  BY <1>3
<1> HIDE DEF S
<1> QED
  BY <1>2, <1>4, <1>5

\* Of a game both tasks owe each mod once, but for what is stale.
LEMMA TwoTasks ==
  ASSUME TypeOK, Looking, Counted, NEW k \in Tasks, NEW j \in Tasks, j # k, NEW g, g = Game(k)
  PROVE  /\ Cardinality(Wanted(Found(g), Group(k))) \in Nat
         /\ Cardinality(Wanted(Found(g), Group(k))) + TaskOwes(j, g)
              <= Len(Listing[g]) + Cardinality(Stale)
<1> DEFINE A == ModsOf(Found(g), Group(k))
           B == ModsOf(left[j], Group(j))
           L == ToSet(Listing[g])
<1>1. g \in GameIds /\ Listing[g] \in Seq(Mods) /\ netkan \in [Mods -> Contents \cup {Absent}]
  BY GameFacts DEF TypeOK
<1>2. /\ Found(g) \in Seq(L \X Contents)
      /\ \A i \in DOMAIN Found(g) : Found(g)[i][2] = netkan[Found(g)[i][1]]
      /\ \A i, n \in DOMAIN Found(g) : Found(g)[i][1] = Found(g)[n][1] => i = n
  BY <1>1, FoundFacts DEF Found
<1>3. IsFiniteSet(L) /\ Cardinality(L) \in Nat /\ Len(Listing[g]) \in Nat /\ Cardinality(L) <= Len(Listing[g])
  BY <1>1, ListCard
<1>4. A \subseteq L /\ IsFiniteSet(A) /\ Cardinality(A) = Cardinality(Wanted(Found(g), Group(k)))
  <2> HIDE DEF L
  <2>1. \A i, n \in DOMAIN Found(g) : Found(g)[i][1] = Found(g)[n][1] => i = n
    BY <1>2
  <2> QED
    BY <1>2, <2>1, WantedMods
<1>5. Cardinality(A) \in Nat /\ IsFiniteSet(Stale) /\ Cardinality(Stale) \in Nat
  BY <1>4, FS_CardinalityType DEF Counted
<1>6. CASE left[j] = Off \/ Game(j) # g
  <2>1. TaskOwes(j, g) = 0
    BY <1>6 DEF TaskOwes
  <2>2. Cardinality(A) <= Cardinality(L)
    BY <1>3, <1>4, FS_Subset
  <2> QED
    BY <1>3, <1>4, <1>5, <2>1, <2>2
<1>7. CASE left[j] # Off /\ Game(j) = g
  <2>1. /\ left[j] \in Seq(L \X Contents)
        /\ \A i, n \in DOMAIN left[j] : left[j][i][1] = left[j][n][1] => i = n
    BY <1>7 DEF Looking
  <2>2. B \subseteq L /\ IsFiniteSet(B) /\ Cardinality(B) = TaskOwes(j, g)
    BY <1>7, <2>1, WantedMods DEF TaskOwes
  <2>3. A \cap B \subseteq Stale
    <3>1. ASSUME NEW i \in Wanted(Found(g), Group(k)), NEW n \in Wanted(left[j], Group(j)),
                 Found(g)[i][1] = left[j][n][1]
          PROVE  left[j][n][1] \in Stale
      <4>1. i \in DOMAIN Found(g) /\ Found(g)[i][2] \in Group(k) /\ n \in DOMAIN left[j] /\ left[j][n][2] \in Group(j)
        BY DEF Wanted
      <4>2. Group(k) \cap Group(j) = {}
        BY GroupFacts DEF Tasks
      <4>3. left[j][n][2] # netkan[left[j][n][1]]
        BY <1>2, <3>1, <4>1, <4>2
      <4>4. left[j][n][1] \in Mods
        <5>1. left[j][n][1] \in L
          BY <2>2 DEF ModsOf
        <5> QED
          BY <1>1, <5>1 DEF Mods
      <4> QED
        BY <1>7, <4>1, <4>3, <4>4 DEF Stale
    <3> QED
      BY <3>1 DEF ModsOf
  <2> HIDE DEF A, B, L
  <2>4. /\ IsFiniteSet(A \cup B)
        /\ Cardinality(A \cup B) = Cardinality(A) + Cardinality(B) - Cardinality(A \cap B)
    BY <1>4, <2>2, FS_Union
  <2>5. IsFiniteSet(A \cap B) /\ Cardinality(A \cap B) <= Cardinality(Stale)
    BY <1>5, <2>3, FS_Subset
  <2>6. Cardinality(A \cup B) <= Cardinality(L)
    BY <1>3, <1>4, <2>2, FS_Subset
  <2>7. Cardinality(A \cap B) \in Nat /\ Cardinality(B) \in Nat /\ Cardinality(A \cup B) \in Nat
    BY <2>2, <2>4, <2>5, FS_CardinalityType
  <2> QED
    BY <1>3, <1>4, <1>5, <2>2, <2>4, <2>5, <2>6, <2>7
<1> QED
  BY <1>4, <1>5, <1>6, <1>7

\* Each event made room for one mod or for the mods of a request.
LEMMA EventsPay ==
  ASSUME NEW s \in Nat, NEW b \in {0, 1}, NEW e \in Nat, NEW M \in Nat \ {0}, s + b <= e
  PROVE  s + (IF b = 0 THEN 0 ELSE M) <= e * M /\ e * M \in Nat
<1>1. PICK d \in Nat : e = s + b + d
  <2>1. e - (s + b) \in Nat /\ e = s + b + (e - (s + b))
    OBVIOUS
  <2> QED
    BY <2>1
<1>2. PICK n \in Nat : M = n + 1
  <2>1. M - 1 \in Nat /\ M = (M - 1) + 1
    OBVIOUS
  <2> QED
    BY <2>1
<1>3. s * n \in Nat /\ d * n \in Nat /\ d + d * n \in Nat
  OBVIOUS
<1>4. CASE b = 0
  <2>1. e * M = s * n + s + d * n + d
    BY <1>1, <1>2, <1>4
  <2> QED
    BY <1>3, <1>4, <2>1
<1>5. CASE b = 1
  <2>1. e * M = s * n + s + n + 1 + d * n + d
    BY <1>1, <1>2, <1>5
  <2> QED
    BY <1>2, <1>3, <1>5, <2>1
<1> QED
  BY <1>4, <1>5

\* What the other task owes stays; what a task owes is for one game.
LEMMA OwesTask ==
  ASSUME TypeOK, NEW k \in Tasks, NEW g \in GameIds,
         \A j \in Tasks \ {k} : left'[j] = left[j] /\ at'[j] = at[j]
  PROVE  /\ \A j \in Tasks \ {k} : TaskOwes(j, g)' = TaskOwes(j, g)
         /\ left'[k] = Off => TaskOwes(k, g)' = 0
         /\ at'[k] = at[k] /\ Game(k) # g => TaskOwes(k, g)' = 0
         /\ at'[k] = at[k] /\ Game(k) = g /\ left'[k] # Off =>
              TaskOwes(k, g)' = Cardinality(Wanted(left'[k], Group(k)))
BY DEF TaskOwes, Game

\* OwesNat, of the next state.
LEMMA OwesNatNext ==
  ASSUME TypeOK', NEW g \in GameIds
  PROVE  /\ HookOwes(g)' \in Nat /\ \A k \in Tasks : TaskOwes(k, g)' \in Nat
         /\ Len(queue'[g]) \in Nat /\ events' \in Nat
<1>1. Cardinality(Wanted(files', Contents)) \in Nat
  <2>1. files' \in Seq(Pairs)
    BY DEF TypeOK
  <2> QED
    BY <2>1, ReadForFacts, PlacesFinite
<1>2. ASSUME NEW k \in Tasks, left'[k] # Off PROVE Cardinality(Wanted(left'[k], Group(k))) \in Nat
  <2>1. left'[k] \in Seq(Pairs)
    BY <1>2 DEF TypeOK
  <2> QED
    BY <2>1, ReadForFacts, PlacesFinite
<1>3. queue'[g] \in Seq(ToSet(Listing[g]) \X (Contents \ Garbled)) /\ events' \in Nat
  BY InflationAssumption DEF TypeOK
<1> QED
  BY <1>1, <1>2, <1>3 DEF HookOwes, TaskOwes

\* What may be in the queue of game g, after e events.
RoomFor(g, e) == Limit + Len(Listing[g]) + e * MaxRequest

LEMMA RoomGrows ==
  ASSUME NEW g \in GameIds, NEW e \in Nat
  PROVE  /\ RoomFor(g, e) \in Nat /\ RoomFor(g, e + 1) = RoomFor(g, e) + MaxRequest
         /\ MaxRequest \in Nat \ {0}
<1>1. /\ Limit \in Nat /\ Len(Listing[g]) \in Nat /\ MaxRequest \in Nat \ {0}
  <2>1. Listing[g] \in Seq(Mods)
    BY InflationAssumption
  <2> QED
    BY <2>1, LimitFacts, InflationAssumption
<1>2. ASSUME NEW l \in Nat, NEW n \in Nat, NEW m \in Nat
      PROVE  l + n + e * m \in Nat /\ l + n + (e + 1) * m = l + n + e * m + m
  <2>1. e * m \in Nat /\ (e + 1) * m = e * m + m
    OBVIOUS
  <2> QED
    BY <2>1
<1> QED
  BY <1>1, <1>2 DEF RoomFor

\* Bounded, of a task and the other one.
LEMMA BothTasks ==
  ASSUME NEW k \in Tasks
  PROVE  \E j \in Tasks : /\ j # k /\ Tasks = {k, j}
                          /\ \/ k = "nonhooks" /\ j = "webhooks"
                             \/ k = "webhooks" /\ j = "nonhooks"
BY DEF Tasks

LEMMA BoundedSays ==
  ASSUME TypeOK, Bounded, NEW k \in Tasks, NEW j \in Tasks, j # k, NEW g \in GameIds
  PROVE  Len(queue[g]) + TaskOwes(k, g) + TaskOwes(j, g) + HookOwes(g) <= RoomFor(g, events)
<1>1. /\ TaskOwes("nonhooks", g) \in Nat /\ TaskOwes("webhooks", g) \in Nat /\ HookOwes(g) \in Nat
      /\ Len(queue[g]) \in Nat
  BY OwesNat DEF Tasks
<1>2. Len(queue[g]) + TaskOwes("nonhooks", g) + TaskOwes("webhooks", g) + HookOwes(g) <= RoomFor(g, events)
  BY DEF Bounded, RoomFor
<1>3. CASE k = "nonhooks" /\ j = "webhooks"
  BY <1>2, <1>3
<1>4. CASE k = "webhooks" /\ j = "nonhooks"
  <2>1. \A q, a, b, h \in Nat : q + a + b + h = q + b + a + h
    OBVIOUS
  <2>2. Len(queue[g]) + TaskOwes("webhooks", g) + TaskOwes("nonhooks", g) + HookOwes(g) <= RoomFor(g, events)
    BY <1>1, <1>2, <2>1
  <2> QED
    BY <1>4, <2>2
<1> QED
  BY <1>3, <1>4 DEF Tasks

LEMMA BoundedIf ==
  ASSUME TypeOK', NEW k \in Tasks, NEW j \in Tasks, j # k,
         \A g \in GameIds :
           Len(queue'[g]) + TaskOwes(k, g)' + TaskOwes(j, g)' + HookOwes(g)' <= RoomFor(g, events')
  PROVE  Bounded'
<1>1. \A g \in GameIds :
        /\ TaskOwes("nonhooks", g)' \in Nat /\ TaskOwes("webhooks", g)' \in Nat /\ HookOwes(g)' \in Nat
        /\ Len(queue'[g]) \in Nat
  BY OwesNatNext DEF Tasks
<1>2. \A g \in GameIds : Len(queue'[g]) + TaskOwes("nonhooks", g)' + TaskOwes("webhooks", g)' + HookOwes(g)'
                            <= RoomFor(g, events')
  <2>1. CASE k = "nonhooks" /\ j = "webhooks"
    BY <2>1
  <2>2. CASE k = "webhooks" /\ j = "nonhooks"
    <3>1. \A g \in GameIds : Len(queue'[g]) + TaskOwes("webhooks", g)' + TaskOwes("nonhooks", g)' + HookOwes(g)'
                               <= RoomFor(g, events')
      BY <2>2
    <3>2. \A q, a, b, h \in Nat : q + a + b + h = q + b + a + h
      OBVIOUS
    <3> QED
      BY <1>1, <3>1, <3>2
  <2> QED
    BY <2>1, <2>2 DEF Tasks
<1> QED
  BY <1>2 DEF Bounded, RoomFor, Limit

\* A task that stops owes nothing any more.
LEMMA BoundedEnds ==
  ASSUME TypeOK, Bounded, TypeOK', NEW k \in Tasks, queue' = queue, UNCHANGED <<request, files>>,
         events' = events \/ events' = events + 1, left'[k] = Off,
         \A i \in Tasks \ {k} : left'[i] = left[i] /\ at'[i] = at[i]
  PROVE  Bounded'
<1>1. PICK j \in Tasks : j # k
  BY BothTasks
<1>2. ASSUME NEW g \in GameIds
      PROVE  Len(queue'[g]) + TaskOwes(k, g)' + TaskOwes(j, g)' + HookOwes(g)' <= RoomFor(g, events')
  <2>1. TaskOwes(k, g)' = 0 /\ TaskOwes(j, g)' = TaskOwes(j, g)
    BY <1>1, OwesTask
  <2>2. HookOwes(g)' = HookOwes(g)
    BY DEF HookOwes
  <2>3. /\ TaskOwes(k, g) \in Nat /\ TaskOwes(j, g) \in Nat /\ HookOwes(g) \in Nat
        /\ Len(queue[g]) \in Nat /\ events \in Nat
    BY OwesNat
  <2>4. Len(queue[g]) + TaskOwes(k, g) + TaskOwes(j, g) + HookOwes(g) <= RoomFor(g, events)
    BY <1>1, BoundedSays
  <2>5. /\ RoomFor(g, events) \in Nat /\ RoomFor(g, events + 1) = RoomFor(g, events) + MaxRequest
        /\ MaxRequest \in Nat \ {0}
    BY <2>3, RoomGrows
  <2>6. RoomFor(g, events') \in Nat /\ RoomFor(g, events) <= RoomFor(g, events')
    BY <2>5
  <2>7. \A q, a, b, h, r, s \in Nat : q + a + b + h <= r /\ r <= s => q + 0 + b + h <= s
    OBVIOUS
  <2> QED
    BY <2>1, <2>2, <2>3, <2>4, <2>5, <2>6, <2>7
<1> QED
  BY <1>1, <1>2, BoundedIf

\* What is stale and what the webhooks owe was paid for by events.
LEMMA EventsPaid ==
  ASSUME TypeOK, Counted, NEW g \in GameIds
  PROVE  Cardinality(Stale) \in Nat /\ Cardinality(Stale) + HookOwes(g) <= events * MaxRequest
<1> DEFINE s == Cardinality(Stale)
<1>1. /\ s \in Nat /\ s + (IF request = Off THEN 0 ELSE 1) <= events /\ HookOwes(g) <= MaxRequest
      /\ HookOwes(g) \in Nat /\ events \in Nat /\ MaxRequest \in Nat \ {0}
  BY OwesNat, FS_CardinalityType DEF Counted
<1> HIDE DEF s
<1>2. CASE request = Off
  <2>1. HookOwes(g) = 0
    BY <1>2, InflationAssumption DEF HookOwes
  <2>2. s + 0 <= events
    BY <1>1, <1>2
  <2>3. s + 0 <= events * MaxRequest /\ events * MaxRequest \in Nat
    <3>1. 0 \in {0, 1} /\ (IF 0 = 0 THEN 0 ELSE MaxRequest) = 0
      OBVIOUS
    <3>2. s + (IF 0 = 0 THEN 0 ELSE MaxRequest) <= events * MaxRequest /\ events * MaxRequest \in Nat
      BY <1>1, <2>2, <3>1, EventsPay
    <3> QED
      BY <3>2
  <2>4. s + HookOwes(g) <= events * MaxRequest
    BY <2>1, <2>3
  <2> QED
    BY <1>1, <2>4 DEF s
<1>3. CASE request # Off
  <2>1. s + 1 <= events
    BY <1>1, <1>3
  <2>2. s + MaxRequest <= events * MaxRequest /\ events * MaxRequest \in Nat
    <3>1. s + (IF 1 = 0 THEN 0 ELSE MaxRequest) <= events * MaxRequest /\ events * MaxRequest \in Nat
      BY <1>1, <2>1, EventsPay
    <3> QED
      BY <3>1
  <2>3. \A h, m, p \in Nat : h <= m /\ s + m <= p => s + h <= p
    BY <1>1
  <2>4. s + HookOwes(g) <= events * MaxRequest
    BY <1>1, <2>2, <2>3
  <2> QED
    BY <1>1, <2>4 DEF s
<1> QED
  BY <1>1, <1>2, <1>3 DEF s

\* A task that was let in: the queue was short, and the other task owes of the
\* mods it will send only those that are stale.
LEMMA BoundedSchedule ==
  ASSUME TypeOK, Looking, Counted, Bounded, TypeOK', NEW k \in Tasks, Schedule(k),
         NEW G, G = Game(k)
  PROVE  Bounded'
<1>1. PICK j \in Tasks : j # k
  BY BothTasks
<1>2. /\ G \in GameIds /\ LookAt(k, Found(G)) /\ queue' = queue /\ events' = events
      /\ Len(queue[G]) <= MaxQueued[k] /\ UNCHANGED <<request, files>>
  BY GameFacts DEF Schedule, Room, hookVars
<1>3. /\ \A i \in Tasks \ {k} : left'[i] = left[i] /\ at'[i] = at[i]
      /\ left'[k] = Off \/ (left'[k] = Found(G) /\ at'[k] = at[k])
  BY <1>2, LookAtFacts
<1>4. CASE left'[k] = Off
  BY <1>2, <1>3, <1>4, BoundedEnds
<1>5. CASE left'[k] # Off
  <2>1. left'[k] = Found(G) /\ at'[k] = at[k]
    BY <1>3, <1>5
  <2>2. ASSUME NEW g \in GameIds
        PROVE  Len(queue'[g]) + TaskOwes(k, g)' + TaskOwes(j, g)' + HookOwes(g)' <= RoomFor(g, events')
    <3>1. TaskOwes(j, g)' = TaskOwes(j, g) /\ HookOwes(g)' = HookOwes(g)
      <4>1. TaskOwes(j, g)' = TaskOwes(j, g)
        BY <1>1, <1>3, OwesTask
      <4> QED
        BY <1>2, <4>1 DEF HookOwes
    <3>2. /\ TaskOwes(k, g) \in Nat /\ TaskOwes(j, g) \in Nat /\ HookOwes(g) \in Nat
          /\ Len(queue[g]) \in Nat /\ events \in Nat /\ Len(Listing[g]) \in Nat /\ MaxRequest \in Nat \ {0}
      BY OwesNat
    <3>3. CASE g # G
      <4>1. TaskOwes(k, g)' = 0
        BY <1>3, <2>1, <3>3, OwesTask
      <4>2. Len(queue[g]) + TaskOwes(k, g) + TaskOwes(j, g) + HookOwes(g) <= RoomFor(g, events)
        BY <1>1, BoundedSays
      <4>3. RoomFor(g, events) \in Nat
        BY <3>2, RoomGrows
      <4>4. \A q, a, b, h, r \in Nat : q + a + b + h <= r => q + 0 + b + h <= r
        OBVIOUS
      <4> QED
        BY <1>2, <3>1, <3>2, <4>1, <4>2, <4>3, <4>4
    <3>4. CASE g = G
      <4> DEFINE w == Cardinality(Wanted(Found(G), Group(k)))
                 s == Cardinality(Stale)
      <4>1. TaskOwes(k, g)' = w
        BY <1>3, <1>5, <2>1, <3>4, OwesTask
      <4>2. w \in Nat /\ w + TaskOwes(j, g) <= Len(Listing[g]) + s
        BY <1>1, <3>4, TwoTasks
      <4>3. s \in Nat /\ s + HookOwes(g) <= events * MaxRequest
        BY EventsPaid
      <4>4. Len(queue[g]) <= Limit /\ Limit \in Nat
        <5>1. MaxQueued[k] \in Nat /\ MaxQueued[k] <= Limit /\ Limit \in Nat
          BY LimitFacts, InflationAssumption
        <5>2. Len(queue[g]) <= MaxQueued[k]
          BY <1>2, <3>4
        <5> QED
          BY <3>2, <5>1, <5>2
      <4>5. events * MaxRequest \in Nat
        BY <3>2
      <4> HIDE DEF w, s
      <4>6. \A q, o, h, n, l, p \in Nat :
              q <= l /\ w + o <= n + s /\ s + h <= p => q + w + o + h <= l + n + p
        BY <4>2, <4>3
      <4>7. Len(queue[g]) + w + TaskOwes(j, g) + HookOwes(g) <= Limit + Len(Listing[g]) + events * MaxRequest
        BY <3>2, <4>2, <4>3, <4>4, <4>5, <4>6
      <4> QED
        BY <1>2, <3>1, <4>1, <4>7 DEF RoomFor
    <3> QED
      BY <3>3, <3>4
  <2> QED
    BY <1>1, <2>2, BoundedIf
<1> QED
  BY <1>4, <1>5

\* What a task sends it no longer owes.
LEMMA BoundedSend ==
  ASSUME TypeOK, Looking, Bounded, TypeOK', NEW k \in Tasks, Send(k), NEW G, G = Game(k)
  PROVE  Bounded'
<1>1. PICK j \in Tasks : j # k
  BY BothTasks
<1> DEFINE batch == Batch(left[k], Group(k))
           rest == Rest(left[k], Group(k))
<1>2. /\ G \in GameIds /\ LookAt(k, rest) /\ left[k] # Off /\ events' = events
      /\ queue' = [queue EXCEPT ![G] = queue[G] \o batch] /\ UNCHANGED <<request, files>>
  BY GameFacts DEF Send, hookVars
<1>3. batch \in Seq(ToSet(Listing[G]) \X (Contents \ Garbled))
  BY <1>2, TaskBatch
<1>4. /\ Cardinality(Wanted(left[k], Group(k))) \in Nat
      /\ Cardinality(Wanted(rest, Group(k))) \in Nat
      /\ Len(batch) + Cardinality(Wanted(rest, Group(k))) = Cardinality(Wanted(left[k], Group(k)))
  <2>1. left[k] \in Seq(Pairs)
    BY <1>2 DEF TypeOK
  <2> QED
    BY <2>1, BatchSplits
<1> HIDE DEF batch
<1>5. /\ Len(queue'[G]) = Len(queue[G]) + Len(batch)
      /\ Len(queue[G]) \in Nat /\ Len(batch) \in Nat
      /\ \A h \in GameIds \ {G} : queue'[h] = queue[h]
  BY <1>2, <1>3, MailSent
<1> HIDE DEF rest
<1>6. /\ \A i \in Tasks \ {k} : left'[i] = left[i] /\ at'[i] = at[i]
      /\ left'[k] = Off \/ (left'[k] = rest /\ at'[k] = at[k])
  BY <1>2, LookAtFacts
<1>7. ASSUME NEW g \in GameIds
      PROVE  Len(queue'[g]) + TaskOwes(k, g)' + TaskOwes(j, g)' + HookOwes(g)' <= RoomFor(g, events')
  <2>1. TaskOwes(j, g)' = TaskOwes(j, g) /\ HookOwes(g)' = HookOwes(g)
    <3>1. TaskOwes(j, g)' = TaskOwes(j, g)
      BY <1>1, <1>6, OwesTask
    <3> QED
      BY <1>2, <3>1 DEF HookOwes
  <2>2. /\ TaskOwes(k, g) \in Nat /\ TaskOwes(j, g) \in Nat /\ HookOwes(g) \in Nat
        /\ Len(queue[g]) \in Nat /\ events \in Nat
    BY OwesNat
  <2>3. Len(queue[g]) + TaskOwes(k, g) + TaskOwes(j, g) + HookOwes(g) <= RoomFor(g, events)
    BY <1>1, BoundedSays
  <2>4. RoomFor(g, events) \in Nat
    BY <2>2, RoomGrows
  <2>5. TaskOwes(k, g)' \in Nat
    BY OwesNatNext
  <2>6. CASE g # G
    <3>1. TaskOwes(k, g)' = 0
      BY <1>6, <2>6, OwesTask
    <3>2. \A q, a, b, h, r \in Nat : q + a + b + h <= r => q + 0 + b + h <= r
      OBVIOUS
    <3>3. queue'[g] = queue[g]
      BY <1>5, <2>6
    <3> QED
      BY <1>2, <2>1, <2>2, <2>3, <2>4, <3>1, <3>2, <3>3
  <2>7. CASE g = G
    <3>1. TaskOwes(k, g) = Cardinality(Wanted(left[k], Group(k)))
      BY <1>2, <2>7 DEF TaskOwes
    <3>2. TaskOwes(k, g)' <= Cardinality(Wanted(rest, Group(k)))
      <4>1. left'[k] = Off => TaskOwes(k, g)' = 0
        BY <1>6, OwesTask
      <4>2. left'[k] # Off => TaskOwes(k, g)' = Cardinality(Wanted(rest, Group(k)))
        BY <1>6, <2>7, OwesTask
      <4> QED
        BY <1>4, <4>1, <4>2
    <3>3. \A q, b, c, o, h, r, x \in Nat :
            q + (b + c) + o + h <= r /\ x <= c => q + b + x + o + h <= r
      OBVIOUS
    <3>4. Len(queue[g]) + Len(batch) + TaskOwes(k, g)' + TaskOwes(j, g) + HookOwes(g) <= RoomFor(g, events)
      <4> DEFINE c == Cardinality(Wanted(rest, Group(k)))
      <4>1. c \in Nat /\ TaskOwes(k, g) = Len(batch) + c /\ TaskOwes(k, g)' <= c
        BY <1>4, <3>1, <3>2
      <4> HIDE DEF c
      <4>2. Len(queue[g]) + (Len(batch) + c) + TaskOwes(j, g) + HookOwes(g) <= RoomFor(g, events)
        BY <2>3, <4>1
      <4> QED
        BY <1>5, <2>2, <2>4, <2>5, <3>3, <4>1, <4>2
    <3> QED
      BY <1>2, <1>5, <2>1, <2>7, <3>4
  <2> QED
    BY <2>6, <2>7
<1> QED
  BY <1>1, <1>7, BoundedIf

LEMMA BoundedTask ==
  ASSUME TypeOK, Looking, Counted, Bounded, TypeOK', NEW k \in Tasks, TaskStep(k) \/ TaskFails(k)
  PROVE  Bounded'
<1>1. CASE Refuse(k)
  <2>1. /\ left'[k] = Off /\ left' = left /\ queue' = queue /\ events' = events
        /\ UNCHANGED <<request, files>> /\ \A i \in Tasks \ {k} : at'[i] = at[i]
    BY <1>1, GameFacts DEF Refuse, NextGame, TypeOK, hookVars
  <2> QED
    BY <2>1, BoundedEnds
<1>2. ASSUME TaskEnds(k), events' = events \/ events' = events + 1 PROVE Bounded'
  BY <1>2, EndsFacts, BoundedEnds DEF hookVars
<1>3. CASE SendRaises(k)
  BY <1>2, <1>3 DEF SendRaises
<1>4. CASE TaskFails(k)
  BY <1>2, <1>4 DEF TaskFails, Event
<1> QED
  BY <1>1, <1>3, <1>4, BoundedSchedule, BoundedSend DEF TaskStep

\* The webhooks and the Inflators leave the tasks alone.
LEMMA BoundedOther ==
  ASSUME TypeOK, Looking, Answering, Counted, Bounded, TypeOK', [Next]_vars,
         ~ \E k \in Tasks : TaskStep(k) \/ TaskFails(k)
  PROVE  Bounded'
<1>1. UNCHANGED <<left, at>>
  BY DEF Next, InflateHook, SpaceDockHook, SpaceDockTells, Call, HookSends, HookRaises, HookFails, HookStep,
         Inflate, OthersEdit, vars, taskVars
<1>2. ASSUME \A g \in GameIds :
               /\ RoomFor(g, events) + HookOwes(g)' + Len(queue'[g])
                    <= RoomFor(g, events') + HookOwes(g) + Len(queue[g])
               /\ events' \in Nat
      PROVE  Bounded'
  <2> DEFINE k == "nonhooks"
             j == "webhooks"
  <2>1. k \in Tasks /\ j \in Tasks /\ j # k
    BY DEF Tasks
  <2> HIDE DEF k, j
  <2>2. ASSUME NEW g \in GameIds
        PROVE  Len(queue'[g]) + TaskOwes(k, g)' + TaskOwes(j, g)' + HookOwes(g)' <= RoomFor(g, events')
    <3>1. TaskOwes(k, g)' = TaskOwes(k, g) /\ TaskOwes(j, g)' = TaskOwes(j, g)
      BY <1>1 DEF TaskOwes, Game, k, j
    <3>2. /\ TaskOwes(k, g) \in Nat /\ TaskOwes(j, g) \in Nat /\ HookOwes(g) \in Nat
          /\ Len(queue[g]) \in Nat /\ events \in Nat
      BY <2>1, OwesNat
    <3>3. HookOwes(g)' \in Nat /\ Len(queue'[g]) \in Nat
      BY OwesNatNext
    <3>4. Len(queue[g]) + TaskOwes(k, g) + TaskOwes(j, g) + HookOwes(g) <= RoomFor(g, events)
      BY <2>1, BoundedSays
    <3>5. RoomFor(g, events) \in Nat /\ RoomFor(g, events') \in Nat
      BY <1>2, <3>2, RoomGrows
    <3>6. RoomFor(g, events) + HookOwes(g)' + Len(queue'[g]) <= RoomFor(g, events') + HookOwes(g) + Len(queue[g])
      BY <1>2
    <3>7. \A q, a, b, h, r, p, i, s \in Nat :
            q + a + b + h <= r /\ r + i + p <= s + h + q => p + a + b + i <= s
      OBVIOUS
    <3> QED
      BY <3>1, <3>2, <3>3, <3>4, <3>5, <3>6, <3>7
  <2> QED
    BY <2>1, <2>2, BoundedIf
<1>3. ASSUME UNCHANGED queue,
             \/ events' = events + 1
             \/ events' = events /\ (UNCHANGED <<request, files>> \/ request' = Off)
      PROVE  Bounded'
  <2>1. ASSUME NEW g \in GameIds
        PROVE  /\ RoomFor(g, events) + HookOwes(g)' + Len(queue'[g])
                    <= RoomFor(g, events') + HookOwes(g) + Len(queue[g])
               /\ events' \in Nat
    <3>1. HookOwes(g) \in Nat /\ Len(queue[g]) \in Nat /\ events \in Nat /\ HookOwes(g)' \in Nat /\ events' \in Nat
      BY OwesNat, OwesNatNext
    <3>2. /\ RoomFor(g, events) \in Nat /\ RoomFor(g, events + 1) = RoomFor(g, events) + MaxRequest
          /\ MaxRequest \in Nat \ {0}
      BY <3>1, RoomGrows
    <3>3. CASE HookOwes(g)' <= HookOwes(g)
      <4>1. RoomFor(g, events') \in Nat /\ RoomFor(g, events) <= RoomFor(g, events')
        BY <1>3, <3>2
      <4>2. \A r, s, h, i, q \in Nat : r <= s /\ i <= h => r + i + q <= s + h + q
        OBVIOUS
      <4> QED
        BY <1>3, <3>1, <3>2, <3>3, <4>1, <4>2
    <3>4. CASE HookOwes(g)' <= MaxRequest /\ events' = events + 1
      <4>1. \A r, m, h, i, q \in Nat : i <= m => r + i + q <= r + m + h + q
        OBVIOUS
      <4>2. RoomFor(g, events') = RoomFor(g, events) + MaxRequest
        BY <3>2, <3>4
      <4> QED
        BY <1>3, <3>1, <3>2, <3>4, <4>1, <4>2
    <3>5. \/ HookOwes(g)' <= HookOwes(g)
          \/ HookOwes(g)' <= MaxRequest /\ request = Off /\ events' = events + 1
      BY HookOwesNext
    <3> QED
      BY <3>3, <3>4, <3>5
  <2> QED
    BY <1>2, <2>1
<1>4. CASE HookSends
  <2> DEFINE batch == Batch(files, Contents)
             rest == Rest(files, Contents)
  <2>1. /\ request # Off /\ queue' = [queue EXCEPT ![request] = queue[request] \o batch]
        /\ ~Breaks(files, Contents, {Absent} \cup Garbled) /\ events' = events
        /\ request' = Off \/ (request' = request /\ files' = rest)
    BY <1>4 DEF HookSends, Answer
  <2>2. request \in GameIds /\ batch \in Seq(ToSet(Listing[request]) \X (Contents \ Garbled))
    BY <2>1, HookBatch
  <2>3. /\ Cardinality(Wanted(files, Contents)) \in Nat
        /\ Cardinality(Wanted(rest, Contents)) \in Nat
        /\ Len(batch) + Cardinality(Wanted(rest, Contents)) = Cardinality(Wanted(files, Contents))
    <3>1. files \in Seq(Pairs)
      BY DEF TypeOK
    <3> QED
      BY <3>1, BatchSplits
  <2> HIDE DEF batch
  <2>4. /\ Len(queue'[request]) = Len(queue[request]) + Len(batch)
        /\ Len(queue[request]) \in Nat /\ Len(batch) \in Nat
        /\ \A h \in GameIds \ {request} : queue'[h] = queue[h]
    BY <2>1, <2>2, MailSent
  <2> HIDE DEF rest
  <2>5. ASSUME NEW g \in GameIds
        PROVE  /\ RoomFor(g, events) + HookOwes(g)' + Len(queue'[g])
                    <= RoomFor(g, events') + HookOwes(g) + Len(queue[g])
               /\ events' \in Nat
    <3>1. HookOwes(g) \in Nat /\ Len(queue[g]) \in Nat /\ events \in Nat /\ HookOwes(g)' \in Nat
      BY OwesNat, OwesNatNext
    <3>2. RoomFor(g, events) \in Nat
      BY <3>1, RoomGrows
    <3>3. CASE g # request
      <4>1. HookOwes(g)' = 0 /\ queue'[g] = queue[g]
        <5>1. g # Off
          BY InflationAssumption
        <5> QED
          BY <2>1, <2>4, <3>3, <5>1 DEF HookOwes
      <4>2. \A r, h, q \in Nat : r + 0 + q <= r + h + q
        OBVIOUS
      <4> QED
        BY <2>1, <3>1, <3>2, <4>1, <4>2
    <3>4. CASE g = request
      <4>1. HookOwes(g) = Cardinality(Wanted(files, Contents))
        BY <3>4 DEF HookOwes
      <4>2. HookOwes(g)' <= Cardinality(Wanted(rest, Contents))
        <5>1. g # Off
          BY InflationAssumption
        <5>2. HookOwes(g)' \in {0, Cardinality(Wanted(rest, Contents))}
          BY <2>1, <5>1 DEF HookOwes
        <5> QED
          BY <2>3, <5>2
      <4>3. \A r, b, c, i, q \in Nat : i <= c => r + i + (q + b) <= r + (b + c) + q
        OBVIOUS
      <4>4. Len(queue'[g]) = Len(queue[g]) + Len(batch)
        BY <2>4, <3>4
      <4> QED
        BY <2>1, <2>3, <2>4, <3>1, <3>2, <4>1, <4>2, <4>3, <4>4
    <3> QED
      BY <3>3, <3>4
  <2> QED
    BY <1>2, <2>5
<1>5. CASE HookRaises \/ HookFails
  <2>1. UNCHANGED queue /\ request' = Off /\ (events' = events \/ events' = events + 1)
    BY <1>5 DEF HookRaises, HookFails, Answer, Event
  <2> QED
    BY <1>3, <2>1
<1>6. ASSUME Call PROVE Bounded'
  BY <1>3, <1>6 DEF Call, Event
<1>7. CASE SpaceDockTells \/ \E g \in GameIds, ids \in Requests : InflateHook(g, ids) \/ SpaceDockHook(g, ids)
  BY <1>6, <1>7 DEF SpaceDockTells, InflateHook, SpaceDockHook
<1>8. ASSUME NEW f \in GameIds, Inflate(f) PROVE Bounded'
  <2>1. /\ Len(queue'[f]) \in Nat /\ Len(queue[f]) \in Nat /\ Len(queue'[f]) <= Len(queue[f])
        /\ \A h \in GameIds \ {f} : queue'[h] = queue[h]
    BY <1>8, InflateFacts
  <2>2. UNCHANGED <<request, files, events>>
    BY <1>8 DEF Inflate, hookVars
  <2>3. ASSUME NEW g \in GameIds
        PROVE  /\ RoomFor(g, events) + HookOwes(g)' + Len(queue'[g])
                    <= RoomFor(g, events') + HookOwes(g) + Len(queue[g])
               /\ events' \in Nat
    <3>1. HookOwes(g) \in Nat /\ Len(queue[g]) \in Nat /\ events \in Nat /\ Len(queue'[g]) \in Nat
      BY OwesNat, OwesNatNext
    <3>2. RoomFor(g, events) \in Nat
      BY <3>1, RoomGrows
    <3>3. HookOwes(g)' = HookOwes(g)
      BY <2>2 DEF HookOwes
    <3>4. Len(queue'[g]) <= Len(queue[g])
      BY <2>1, <3>1
    <3>5. \A r, h, p, q \in Nat : p <= q => r + h + p <= r + h + q
      OBVIOUS
    <3> QED
      BY <2>2, <3>1, <3>2, <3>3, <3>4, <3>5
  <2> QED
    BY <1>2, <2>3
<1>9. CASE \E e \in Edits : OthersEdit(e[1], e[2])
  BY <1>3, <1>9 DEF OthersEdit, Event, hookVars
<1>10. CASE UNCHANGED vars
  BY <1>3, <1>10 DEF vars, hookVars
<1> QED
  BY <1>4, <1>5, <1>7, <1>8, <1>9, <1>10 DEF Next

-----------------------------------------------------------------------------
(* The theorems.                                                           *)

LEMMA InvInit == Init => InflationInv
<1> SUFFICES ASSUME Init PROVE InflationInv
  OBVIOUS
<1>1. TypeOK
  BY TypeInit
<1>2. Off \notin GameIds
  BY InflationAssumption
<1>3. Looking /\ Answering
  BY DEF Init, Looking, Answering, AnsweredIsQueued
<1>4. \A g \in GameIds : HookOwes(g) = 0 /\ TaskOwes("nonhooks", g) = 0 /\ TaskOwes("webhooks", g) = 0
  BY <1>2 DEF Init, HookOwes, TaskOwes, Tasks
<1>5. Counted
  <2>1. Stale = {}
    BY DEF Init, Stale
  <2>2. IsFiniteSet(Stale) /\ Cardinality(Stale) = 0
    BY <2>1, FS_EmptySet
  <2>3. \A g \in GameIds : HookOwes(g) <= MaxRequest
    BY <1>4, InflationAssumption
  <2> QED
    BY <2>2, <2>3 DEF Counted, Init
<1>6. Bounded
  <2>1. ASSUME NEW g \in GameIds
        PROVE  Len(queue[g]) + TaskOwes("nonhooks", g) + TaskOwes("webhooks", g) + HookOwes(g)
                 <= Limit + Len(Listing[g]) + events * MaxRequest
    <3>1. Len(queue[g]) = 0 /\ events = 0
      BY DEF Init
    <3>2. RoomFor(g, events) \in Nat
      BY <3>1, RoomGrows
    <3> QED
      BY <1>4, <3>1, <3>2 DEF RoomFor
  <2> QED
    BY <2>1 DEF Bounded
<1> QED
  BY <1>1, <1>3, <1>5, <1>6 DEF InflationInv

LEMMA InvNext == InflationInv /\ [Next]_vars => InflationInv'
<1> SUFFICES ASSUME InflationInv, [Next]_vars PROVE InflationInv'
  OBVIOUS
<1>1. TypeOK /\ Looking /\ Answering /\ Counted /\ Bounded
  BY DEF InflationInv
<1>2. TypeOK' /\ Looking' /\ Answering' /\ Counted'
  BY <1>1, TypeNext, LookingNext, AnsweringNext, CountedNext
<1>3. Bounded'
  BY <1>1, <1>2, BoundedTask, BoundedOther
<1> QED
  BY <1>2, <1>3 DEF InflationInv

\* What the tasks and the webhooks have still to send is known at every step,
\* and that it was paid for (scheduler.py, webhooks/).
THEOREM Invariance == Spec => []InflationInv
<1> QED
  BY InvInit, InvNext, PTL DEF Spec

\* The state of the tasks, the webhooks and the queues is of its type: no message
\* of a queue is of another game or of a file that is no YAML.
THEOREM TypeCorrect == Spec => []TypeOK
<1>1. InflationInv => TypeOK
  BY DEF InflationInv
<1> QED
  BY <1>1, Invariance, PTL

\* A request that was answered 204 has all its mods in the queue, for every
\* listing, batch size and request (webhooks/inflate.py).
THEOREM Answered == Spec => []AnsweredIsQueued
<1>1. InflationInv => AnsweredIsQueued
  BY DEF InflationInv, Answering
<1> QED
  BY <1>1, Invariance, PTL

\* However the two tasks and the webhooks interleave, a queue is at most the
\* larger limit, the mods of the game once and what events were paid for longer
\* than empty (can_schedule looks at it before, not while a task sends).
THEOREM ShortQueues == Spec => []QueueBounded
<1>1. InflationInv => QueueBounded
  <2> SUFFICES ASSUME InflationInv, NEW g \in GameIds
               PROVE  Len(queue[g]) <= Limit + Len(Listing[g]) + events * MaxRequest
    BY DEF QueueBounded, Limit
  <2>1. TypeOK /\ Bounded
    BY DEF InflationInv
  <2>2. /\ TaskOwes("nonhooks", g) \in Nat /\ TaskOwes("webhooks", g) \in Nat /\ HookOwes(g) \in Nat
        /\ Len(queue[g]) \in Nat /\ events \in Nat
    BY <2>1, OwesNat DEF Tasks
  <2>3. Len(queue[g]) + TaskOwes("nonhooks", g) + TaskOwes("webhooks", g) + HookOwes(g) <= RoomFor(g, events)
    BY <2>1 DEF Bounded, RoomFor
  <2>4. RoomFor(g, events) \in Nat
    BY <2>2, RoomGrows
  <2>5. \A q, a, b, h, r \in Nat : q + a + b + h <= r => q <= r
    OBVIOUS
  <2>6. Len(queue[g]) <= RoomFor(g, events)
    BY <2>2, <2>3, <2>4, <2>5
  <2> QED
    BY <2>6 DEF RoomFor
<1> QED
  BY <1>1, Invariance, PTL
==============================================================================
