------------------------ MODULE DownloadCounterProofs ------------------------
(***************************************************************************)
(* Proofs about the Download Counter, for every number of mods, all of     *)
(* their releases and every size of the batches.                           *)
(*                                                                         *)
(* Sums, the walk, the requests left and the newest release are folds.     *)
(* What a fold computes is proved without an induction over it: of the     *)
(* prefixes or subsets at which the claim fails there would be a least     *)
(* one, and the fold's recursion equation refutes it.                      *)
(***************************************************************************)
EXTENDS DownloadCounterInv, FiniteSetTheorems, SequenceTheorems, TLAPS

-----------------------------------------------------------------------------
(* Induction, as the lack of a least counterexample.                       *)

\* Where a claim about numbers fails there is a least one at which it does.
LEMMA Least ==
  ASSUME NEW T \in SUBSET Nat, T # {}
  PROVE  \E n \in T : \A m \in T : n <= m
<1>1. PICK R : /\ IsWellFoundedOn(R, Nat)
               /\ \A m, n \in Nat : n < m => <<n, m>> \in R
  <2>1. \A m, n \in Nat : n < m => <<n, m>> \in OpToRel(<, Nat)
    BY DEF OpToRel
  <2> QED
    BY <2>1, NatLessThanWellFounded
<1>2. PICK n \in T : \A m \in T : ~(<<m, n>> \in R)
  BY <1>1, WFMin
<1>3. \A m \in T : ~(m < n)
  BY <1>1, <1>2
<1> QED
  BY <1>3

LEMMA Greatest ==
  ASSUME NEW n \in Nat, NEW T \in SUBSET (1 .. n), T # {}
  PROVE  Max(T) \in T /\ \A i \in T : i <= Max(T)
<1> DEFINE D == {n - i : i \in T}
<1>1. D \in SUBSET Nat /\ D # {}
  <2>1. \A i \in T : n - i \in Nat /\ n - i \in D
    OBVIOUS
  <2> QED
    BY <2>1
<1>2. PICK d \in D : \A e \in D : d <= e
  BY <1>1, Least
<1>3. PICK k \in T : d = n - k
  OBVIOUS
<1>4. \A i \in T : n - k <= n - i
  BY <1>2, <1>3
<1>5. \A i \in T : k >= i
  BY <1>4
<1>6. Max(T) \in T /\ \A i \in T : Max(T) >= i
  BY <1>5 DEF Max
<1> QED
  BY <1>6

\* The same of the subsets of a finite set.
LEMMA LeastSet ==
  ASSUME NEW S, IsFiniteSet(S), NEW Q \in SUBSET SUBSET S, Q # {}
  PROVE  \E T \in Q : \A U \in Q : U \subseteq T => U = T
<1>1. IsWellFoundedOn(StrictSubsetOrdering(S), SUBSET S)
  BY FS_StrictSubsetOrderingWellFounded, FS_FiniteSubsetsOfFinite
<1>2. \E T \in Q : \A U \in Q : <<U, T>> \notin StrictSubsetOrdering(S)
  BY <1>1, WFMin
<1> QED
  BY <1>2 DEF StrictSubsetOrdering

\* The equation of a fold: g takes the picked element out, and the rest is
\* before it.
Recursive(g, S, B, base, pick, step) ==
  /\ g \in [SUBSET S -> B]
  /\ \A T \in SUBSET S :
       g[T] = IF T = {} THEN base ELSE step[<<pick[T], g[T \ {pick[T]}]>>]

\* pick has an element of each subset of S, and step a value for it and a value.
Picks(pick, S) == \A T \in SUBSET S : T # {} => pick[T] \in T
Steps(step, S, B) == \A x \in S, b \in B : step[<<x, b>>] \in B

\* A function on the subsets of a finite set can be defined from its values on
\* smaller subsets: by as many elements as they have.
LEMMA Recursion ==
  ASSUME NEW S, IsFiniteSet(S), NEW B, NEW base \in B,
         NEW pick, Picks(pick, S), NEW step, Steps(step, S, B)
  PROVE  \E g : Recursive(g, S, B, base, pick, step)
<1> DEFINE Small(n) == {T \in SUBSET S : Cardinality(T) <= n}
           Def(n, g) == /\ g \in [Small(n) -> B]
                        /\ \A T \in Small(n) :
                             g[T] = IF T = {} THEN base
                                    ELSE step[<<pick[T], g[T \ {pick[T]}]>>]
           Bad == {n \in Nat : ~ \E g : Def(n, g)}
<1>1. \A T \in SUBSET S : /\ IsFiniteSet(T) /\ Cardinality(T) \in Nat
                          /\ Cardinality(T) <= Cardinality(S)
                          /\ Cardinality(T) = 0 <=> T = {}
  BY FS_Subset, FS_CardinalityType, FS_EmptySet
<1>2. \A T \in SUBSET S : T # {} =>
        /\ T \ {pick[T]} \in SUBSET S
        /\ Cardinality(T \ {pick[T]}) = Cardinality(T) - 1
  BY <1>1, FS_RemoveElement DEF Picks
<1> USE DEF Picks, Steps
<1>3. \E g : Def(0, g)
  <2>1. Small(0) = {{}}
    BY <1>1
  <2>2. Def(0, [T \in {{}} |-> base])
    BY <2>1
  <2> QED
    BY <2>2
<1>4. ASSUME NEW n \in Nat, NEW g, Def(n, g) PROVE \E h : Def(n + 1, h)
  <2> DEFINE h == [T \in Small(n + 1) |->
                     IF T \in Small(n) THEN g[T] ELSE step[<<pick[T], g[T \ {pick[T]}]>>]]
  <2>1. \A T \in Small(n) : T \in Small(n + 1) /\ (T # {} => T \ {pick[T]} \in Small(n))
    BY <1>1, <1>2
  <2>2. \A T \in Small(n + 1) : T \notin Small(n) =>
          /\ T # {} /\ T \ {pick[T]} \in Small(n) /\ pick[T] \in S
    BY <1>1, <1>2
  <2>3. \A T \in Small(n) : g[T] \in B
    BY <1>4
  <2>4. h \in [Small(n + 1) -> B]
    <3>1. \A T \in Small(n + 1) : h[T] \in B
      BY <2>2, <2>3
    <3> QED
      BY <3>1
  <2>5. \A T \in Small(n) : h[T] = g[T]
    BY <2>1
  <2>6. \A T \in Small(n) :
          g[T] = IF T = {} THEN base ELSE step[<<pick[T], g[T \ {pick[T]}]>>]
    BY <1>4
  <2>7. \A T \in Small(n + 1) : T \notin Small(n) =>
          h[T] = step[<<pick[T], g[T \ {pick[T]}]>>]
    OBVIOUS
  <2> HIDE DEF h, Small
  <2>8. ASSUME NEW T \in Small(n + 1)
        PROVE  h[T] = IF T = {} THEN base ELSE step[<<pick[T], h[T \ {pick[T]}]>>]
    <3>1. CASE T \in Small(n)
      BY <2>1, <2>5, <2>6, <3>1
    <3>2. CASE T \notin Small(n)
      BY <2>2, <2>5, <2>7, <3>2
    <3> QED
      BY <3>1, <3>2
  <2> QED
    BY <2>4, <2>8
<1>5. Bad = {}
  <2>1. SUFFICES ASSUME Bad # {} PROVE FALSE
    OBVIOUS
  <2> HIDE DEF Def
  <2>2. PICK n \in Bad : \A m \in Bad : n <= m
    BY <2>1, Least
  <2>3. n # 0 /\ n \in Nat
    BY <1>3, <2>2
  <2>4. n - 1 \in Nat /\ n - 1 \notin Bad /\ (n - 1) + 1 = n
    BY <2>2, <2>3
  <2>5. \E g : Def(n - 1, g)
    BY <2>4
  <2>6. \E h : Def((n - 1) + 1, h)
    BY <1>4, <2>4, <2>5
  <2> QED
    BY <2>2, <2>4, <2>6
<1>6. \E g : Def(Cardinality(S), g)
  <2> HIDE DEF Def
  <2>1. Cardinality(S) \in Nat
    BY <1>1
  <2> QED
    BY <1>5, <2>1
<1>7. Small(Cardinality(S)) = SUBSET S
  BY <1>1
<1> QED
  BY <1>6, <1>7 DEF Recursive

-----------------------------------------------------------------------------
(* Sums.                                                                   *)

\* g has the sum of each subset of S, which is finite.
Sums(g, S) ==
  /\ g \in [SUBSET S -> Nat] /\ g[{}] = 0
  /\ \A T \in SUBSET S : T # {} => \E x \in T : g[T] = Count[x] + g[T \ {x}]

\* The sum of a set is the last value of a function on its subsets.
LEMMA SumRecursion ==
  ASSUME NEW S \in SUBSET Sources, IsFiniteSet(S)
  PROVE  \E g : Sums(g, S) /\ g[S] = SumOf(S)
<1> DEFINE pick(T) == CHOOSE x \in T : TRUE
<1>1. \A T \in SUBSET S : T # {} => pick(T) \in T
  OBVIOUS
<1>2. \A x \in S, n \in Nat : Count[x] + n \in Nat
  BY CounterAssumption
<1>3. PICK g \in [SUBSET S -> Nat] :
        \A T \in SUBSET S : g[T] = IF T = {} THEN 0 ELSE Count[pick(T)] + g[T \ {pick(T)}]
  <2> DEFINE picks == [T \in SUBSET S |-> pick(T)]
             step == [p \in S \X Nat |-> Count[p[1]] + p[2]]
  <2>1. \A T \in SUBSET S : picks[T] = pick(T)
    OBVIOUS
  <2>2. \A x \in S, n \in Nat : step[<<x, n>>] = Count[x] + n
    OBVIOUS
  <2> HIDE DEF picks, step, pick
  <2>3. PICK g : Recursive(g, S, Nat, 0, picks, step)
    <3>1. \A T \in SUBSET S : T # {} => picks[T] \in T
      BY <1>1, <2>1
    <3>2. \A x \in S, n \in Nat : step[<<x, n>>] \in Nat
      BY <1>2, <2>2
    <3> QED
      BY <3>1, <3>2, Recursion, 0 \in Nat DEF Picks, Steps
  <2>4. ASSUME NEW T \in SUBSET S, T # {}
        PROVE  g[T] = Count[pick(T)] + g[T \ {pick(T)}]
    <3>1. picks[T] = pick(T) /\ pick(T) \in S /\ T \ {pick(T)} \in SUBSET S
      BY <1>1, <2>1, <2>4
    <3>2. g[T] = step[<<pick(T), g[T \ {pick(T)}]>>]
      BY <2>3, <2>4, <3>1 DEF Recursive
    <3>3. g[T \ {pick(T)}] \in Nat
      BY <2>3, <3>1 DEF Recursive
    <3> QED
      BY <2>2, <3>1, <3>2, <3>3
  <2>5. g \in [SUBSET S -> Nat] /\ g[{}] = 0
    BY <2>3 DEF Recursive
  <2>6. \A T \in SUBSET S : g[T] = IF T = {} THEN 0 ELSE Count[pick(T)] + g[T \ {pick(T)}]
    BY <2>4, <2>5
  <2> QED
    BY <2>5, <2>6
<1> DEFINE F(h) == [T \in SUBSET S |->
                      IF T = {} THEN 0 ELSE Count[pick(T)] + h[T \ {pick(T)}]]
           iter == CHOOSE h : h = F(h)
<1>4. iter = F(iter)
  <2>1. g = F(g)
    <3> HIDE DEF pick
    <3>1. g = [T \in SUBSET S |-> g[T]]
      OBVIOUS
    <3>2. [T \in SUBSET S |-> g[T]] = F(g)
      BY <1>3
    <3> QED
      BY <3>1, <3>2
  <2> HIDE DEF F
  <2> QED
    BY <2>1
<1>5. SumOf(S) = iter[S]
  BY DEF SumOf, FoldSet, MapThenFoldSet
<1> HIDE DEF iter
<1>6. \A T \in SUBSET S :
        iter[T] = IF T = {} THEN 0 ELSE Count[pick(T)] + iter[T \ {pick(T)}]
  <2> HIDE DEF pick
  <2> QED
    BY <1>4
<1> HIDE DEF F
<1>7. \A T \in SUBSET S : iter[T] = g[T]
  <2> DEFINE Q == {T \in SUBSET S : iter[T] # g[T]}
  <2> SUFFICES ASSUME Q # {} PROVE FALSE
    OBVIOUS
  <2>1. Q \in SUBSET SUBSET S
    OBVIOUS
  <2>2. \A T \in SUBSET S : T \in Q <=> iter[T] # g[T]
    OBVIOUS
  <2> HIDE DEF Q, pick
  <2>3. PICK T \in Q : \A U \in Q : U \subseteq T => U = T
    BY <2>1, LeastSet
  <2>4. T \in SUBSET S /\ iter[T] # g[T]
    BY <2>1, <2>2, <2>3
  <2>5. T # {} /\ pick(T) \in T
    BY <1>1, <1>3, <1>6, <2>4
  <2>6. iter[T \ {pick(T)}] = g[T \ {pick(T)}]
    BY <2>2, <2>3, <2>4, <2>5
  <2> QED
    BY <1>3, <1>6, <2>4, <2>5, <2>6
<1> QED
  <2>1. SumOf(S) = g[S]
    BY <1>5, <1>7
  <2>2. g[{}] = 0
    BY <1>3
  <2>3. \A T \in SUBSET S : T # {} => \E x \in T : g[T] = Count[x] + g[T \ {x}]
    <3> HIDE DEF pick
    <3> QED
      BY <1>1, <1>3
  <2> QED
    BY <1>3, <2>1, <2>2, <2>3 DEF Sums

\* The sum of a set, whichever element is taken last.
AnyLast(g, S) ==
  \A T \in SUBSET S : \A x \in T : g[T] = Count[x] + g[T \ {x}]

\* A sum does not depend on which element is taken last.
LEMMA SumWithout ==
  ASSUME NEW S \in SUBSET Sources, IsFiniteSet(S), NEW g, Sums(g, S)
  PROVE  AnyLast(g, S)
<1> DEFINE Q == {T \in SUBSET S : \E x \in T : g[T] # Count[x] + g[T \ {x}]}
<1> SUFFICES ASSUME Q # {} PROVE FALSE
  BY DEF AnyLast
<1>1. PICK T \in Q : \A U \in Q : U \subseteq T => U = T
  <2>1. Q \in SUBSET SUBSET S
    OBVIOUS
  <2> HIDE DEF Q
  <2> QED
    BY <2>1, LeastSet
<1>2. PICK x \in T : g[T] # Count[x] + g[T \ {x}]
  BY <1>1
<1>3. PICK y \in T : g[T] = Count[y] + g[T \ {y}]
  BY <1>1 DEF Sums
<1>4. x # y /\ Count[x] \in Nat /\ Count[y] \in Nat
  BY <1>1, <1>2, <1>3, CounterAssumption
<1>5. T \ {y} \in SUBSET S /\ T \ {y} \notin Q /\ x \in T \ {y}
  BY <1>1, <1>3, <1>4
<1>6. T \ {x} \in SUBSET S /\ T \ {x} \notin Q /\ y \in T \ {x}
  BY <1>1, <1>2, <1>4
<1>7. g[T \ {y}] = Count[x] + g[(T \ {y}) \ {x}]
  BY <1>5
<1>8. g[T \ {x}] = Count[y] + g[(T \ {x}) \ {y}]
  BY <1>6
<1>9. (T \ {y}) \ {x} = (T \ {x}) \ {y} /\ (T \ {y}) \ {x} \in SUBSET S
  BY <1>1
<1> DEFINE rest == g[(T \ {y}) \ {x}]
<1>10. rest \in Nat /\ g[T \ {y}] = Count[x] + rest /\ g[T \ {x}] = Count[y] + rest
  BY <1>7, <1>8, <1>9 DEF Sums
<1> HIDE DEF rest, Q
<1> QED
  BY <1>2, <1>3, <1>4, <1>10

\* The sum of no sources, and of one more.
LEMMA SumEmpty == SumOf({}) = 0
<1>1. IsFiniteSet({}) /\ {} \in SUBSET Sources
  BY FS_EmptySet
<1>2. PICK g : Sums(g, {}) /\ g[{}] = SumOf({})
  BY <1>1, SumRecursion
<1> QED
  BY <1>2 DEF Sums

LEMMA SumAdd ==
  ASSUME NEW S \in SUBSET Sources, IsFiniteSet(S), NEW s \in Sources \ S
  PROVE  SumOf(S \cup {s}) = SumOf(S) + Count[s] /\ SumOf(S) \in Nat
<1> DEFINE R == S \cup {s}
<1>1. R \in SUBSET Sources /\ IsFiniteSet(R) /\ S \in SUBSET R /\ R \ {s} = S /\ s \in R
  BY FS_AddElement
<1> HIDE DEF R
<1>2. PICK g : Sums(g, S) /\ g[S] = SumOf(S)
  BY SumRecursion
<1>3. PICK h : Sums(h, R) /\ h[R] = SumOf(R)
  BY <1>1, SumRecursion
<1>4. AnyLast(h, R)
  BY <1>1, <1>3, SumWithout
<1>5. g[S] = h[S]
  <2> DEFINE Q == {T \in SUBSET S : g[T] # h[T]}
  <2> SUFFICES ASSUME Q # {} PROVE FALSE
    OBVIOUS
  <2>1. Q \in SUBSET SUBSET S /\ \A T \in SUBSET S : T \in Q <=> g[T] # h[T]
    OBVIOUS
  <2> HIDE DEF Q
  <2>2. PICK T \in Q : \A U \in Q : U \subseteq T => U = T
    BY <2>1, LeastSet
  <2>3. T \in SUBSET S /\ T \in SUBSET R /\ g[T] # h[T]
    BY <1>1, <2>1, <2>2
  <2>4. T # {}
    BY <1>2, <1>3, <2>3 DEF Sums
  <2>5. PICK x \in T : g[T] = Count[x] + g[T \ {x}]
    BY <1>2, <2>3, <2>4 DEF Sums
  <2>6. g[T \ {x}] = h[T \ {x}]
    BY <2>1, <2>2, <2>3, <2>5
  <2> QED
    BY <1>4, <2>3, <2>5, <2>6 DEF AnyLast
<1>6. SumOf(R) = Count[s] + SumOf(S)
  BY <1>1, <1>2, <1>3, <1>4, <1>5 DEF AnyLast
<1>7. SumOf(S) \in Nat /\ Count[s] \in Nat
  BY <1>2, CounterAssumption DEF Sums
<1> QED
  BY <1>6, <1>7 DEF R

LEMMA SumNat ==
  ASSUME NEW S \in SUBSET Sources, IsFiniteSet(S)
  PROVE  SumOf(S) \in Nat
<1>1. PICK g : Sums(g, S) /\ g[S] = SumOf(S)
  BY SumRecursion
<1> QED
  BY <1>1 DEF Sums

-----------------------------------------------------------------------------
(* Folds over sequences.                                                   *)

\* A function that follows the same equation is the same.
Follows(f, S, B, base, pick, step) ==
  /\ f[{}] = base
  /\ \A T \in SUBSET S : T # {} /\ f[T \ {pick[T]}] \in B =>
       f[T] = step[<<pick[T], f[T \ {pick[T]}]>>]

LEMMA Unique ==
  ASSUME NEW S, IsFiniteSet(S), NEW B, NEW base \in B, NEW pick, Picks(pick, S),
         NEW step, NEW g, Recursive(g, S, B, base, pick, step),
         NEW f, Follows(f, S, B, base, pick, step)
  PROVE  f[S] = g[S]
<1> USE DEF Picks, Follows
<1> DEFINE Q == {T \in SUBSET S : f[T] # g[T]}
<1> SUFFICES ASSUME Q # {} PROVE FALSE
  OBVIOUS
<1>1. Q \in SUBSET SUBSET S /\ \A T \in SUBSET S : T \in Q <=> f[T] # g[T]
  OBVIOUS
<1> HIDE DEF Q
<1>2. PICK T \in Q : \A U \in Q : U \subseteq T => U = T
  BY <1>1, LeastSet
<1>3. T \in SUBSET S /\ f[T] # g[T]
  BY <1>1, <1>2
<1>4. T # {} /\ g[T] = step[<<pick[T], g[T \ {pick[T]}]>>]
  BY <1>3 DEF Recursive
<1>5. pick[T] \in T /\ T \ {pick[T]} \in SUBSET S
  BY <1>3, <1>4
<1>6. f[T \ {pick[T]}] = g[T \ {pick[T]}] /\ g[T \ {pick[T]}] \in B
  BY <1>1, <1>2, <1>5 DEF Recursive
<1> QED
  BY <1>3, <1>4, <1>6

LEMMA UpTo ==
  ASSUME NEW n \in Nat
  PROVE  /\ IsFiniteSet(1 .. n)
         /\ \A T \in SUBSET (1 .. n) : T # {} => Max(T) \in T
         /\ \A k \in 1 .. n : Max(1 .. k) = k /\ (1 .. k) \ {k} = 1 .. (k - 1)
<1>1. IsFiniteSet(1 .. n)
  BY FS_Interval
<1>2. \A T \in SUBSET (1 .. n) : T # {} => Max(T) \in T /\ \A i \in T : i <= Max(T)
  BY Greatest
<1>3. \A k \in 1 .. n : k \in 1 .. k /\ (1 .. k) \in SUBSET (1 .. n) /\ (1 .. k) # {}
  OBVIOUS
<1>4. ASSUME NEW k \in 1 .. n PROVE Max(1 .. k) = k
  <2>1. Max(1 .. k) \in 1 .. k /\ k <= Max(1 .. k)
    BY <1>2, <1>3
  <2> QED
    BY <2>1
<1>5. \A k \in 1 .. n : (1 .. k) \ {k} = 1 .. (k - 1)
  OBVIOUS
<1> QED
  BY <1>1, <1>2, <1>4, <1>5

\* What such a function does over the first k numbers.
PicksLast(pick, n) == \A T \in SUBSET (1 .. n) : T # {} => pick[T] = Max(T)

Goes(h, n, B, base, step) ==
  /\ h \in [0 .. n -> B] /\ h[0] = base
  /\ \A k \in 1 .. n : h[k] = step[<<k, h[k - 1]>>]

LEMMA Along ==
  ASSUME NEW n \in Nat, NEW B, NEW base \in B, NEW step, Steps(step, 1 .. n, B),
         NEW pick, PicksLast(pick, n)
  PROVE  /\ Picks(pick, 1 .. n)
         /\ \E g : Recursive(g, 1 .. n, B, base, pick, step)
         /\ \A g : Recursive(g, 1 .. n, B, base, pick, step) =>
              \E h : Goes(h, n, B, base, step) /\ h[n] = g[1 .. n]
<1> USE DEF PicksLast
<1>1. Picks(pick, 1 .. n)
  BY UpTo DEF Picks
<1>2. \E g : Recursive(g, 1 .. n, B, base, pick, step)
  BY <1>1, UpTo, Recursion
<1>3. ASSUME NEW g, Recursive(g, 1 .. n, B, base, pick, step)
      PROVE  \E h : Goes(h, n, B, base, step) /\ h[n] = g[1 .. n]
  <2> DEFINE h == [k \in 0 .. n |-> g[1 .. k]]
  <2>1. \A k \in 0 .. n : (1 .. k) \in SUBSET (1 .. n)
    OBVIOUS
  <2>2. \A k \in 0 .. n : g[1 .. k] \in B
    BY <1>3, <2>1 DEF Recursive
  <2>3. 1 .. 0 = {} /\ 0 \in 0 .. n /\ n \in 0 .. n
    OBVIOUS
  <2>4. g[1 .. 0] = base
    BY <1>3, <2>1, <2>3 DEF Recursive
  <2>5. ASSUME NEW k \in 1 .. n PROVE h[k] = step[<<k, h[k - 1]>>]
    <3>1. k \in 0 .. n /\ k - 1 \in 0 .. n /\ 1 .. k # {}
      OBVIOUS
    <3>2. pick[1 .. k] = k /\ (1 .. k) \ {k} = 1 .. (k - 1)
      BY <2>1, <3>1, UpTo
    <3>3. g[1 .. k] = step[<<k, g[1 .. (k - 1)]>>]
      BY <1>3, <2>1, <3>1, <3>2 DEF Recursive
    <3> QED
      BY <3>1, <3>3
  <2>6. h \in [0 .. n -> B] /\ h[0] = base /\ h[n] = g[1 .. n]
    BY <2>2, <2>3, <2>4
  <2> QED
    BY <2>5, <2>6 DEF Goes
<1> QED
  BY <1>1, <1>2, <1>3

\* What Highest makes of one more file.
Best(best, r) ==
  IF r.prerelease # FALSE THEN best
  ELSE IF best = NoRelease THEN r
  ELSE IF Gt(r.version, best.version) THEN r ELSE best

\* The choice of the newest release, one file at a time.
LEMMA HighestAlong ==
  ASSUME NEW rs \in Seq(Release)
  PROVE  \E h \in [0 .. Len(rs) -> Release \cup {NoRelease}] :
           /\ h[0] = NoRelease /\ h[Len(rs)] = Highest(rs, FALSE, NoRelease)
           /\ \A k \in 1 .. Len(rs) : h[k] = Best(h[k - 1], rs[k])
<1> DEFINE n == Len(rs)
           S == 1 .. n
           B == Release \cup {NoRelease}
           step == [p \in S \X B |-> Best(p[2], rs[p[1]])]
           pick == [T \in SUBSET S |-> Max(T)]
<1>1. n \in Nat /\ DOMAIN rs = S /\ \A i \in S : rs[i] \in Release
  OBVIOUS
<1>2. \A i \in S, b \in B : step[<<i, b>>] = Best(b, rs[i]) /\ step[<<i, b>>] \in B
  BY <1>1 DEF Best
<1>3. \A T \in SUBSET S : pick[T] = Max(T)
  OBVIOUS
<1> DEFINE F(h) == [T \in SUBSET S |->
                      IF T = {} THEN NoRelease ELSE Best(h[T \ {Max(T)}], rs[Max(T)])]
           iter == CHOOSE h : h = F(h)
<1>4. Highest(rs, FALSE, NoRelease) = iter[S]
  BY <1>1 DEF Highest, FoldLeft, MapThenFoldSet, Best
<1> HIDE DEF n, step, pick
<1> USE <1>1
<1>5. /\ Picks(pick, S) /\ IsFiniteSet(S) /\ NoRelease \in B
      /\ PicksLast(pick, n) /\ Steps(step, S, B)
      /\ \A T \in SUBSET S : T # {} => Max(T) \in T /\ pick[T] = Max(T)
  <2>1. \A T \in SUBSET S : T # {} => Max(T) \in T
    BY UpTo
  <2>2. IsFiniteSet(S)
    BY UpTo
  <2>3. Picks(pick, S) /\ PicksLast(pick, n)
    BY <1>3, <2>1 DEF Picks, PicksLast
  <2>4. Steps(step, S, B)
    <3> HIDE DEF S, B
    <3> QED
      BY <1>2 DEF Steps
  <2> QED
    BY <1>3, <2>1, <2>2, <2>3, <2>4
<1>6. PICK g : Recursive(g, S, B, NoRelease, pick, step)
  <2> HIDE DEF B
  <2> QED
    BY <1>5, Along
<1>7. PICK h : Goes(h, n, B, NoRelease, step) /\ h[n] = g[S]
  <2> HIDE DEF B
  <2> QED
    BY <1>5, <1>6, Along
<1>8. iter = F(iter)
  <2>1. ASSUME NEW T \in SUBSET S
        PROVE  g[T] = IF T = {} THEN NoRelease ELSE Best(g[T \ {Max(T)}], rs[Max(T)])
    <3>1. g[T] = IF T = {} THEN NoRelease ELSE step[<<pick[T], g[T \ {pick[T]}]>>]
      BY <1>6 DEF Recursive
    <3>2. g[T \ {Max(T)}] \in B
      BY <1>6 DEF Recursive
    <3> HIDE DEF B, S
    <3> QED
      BY <1>2, <1>5, <3>1, <3>2
  <2>2. g = [T \in SUBSET S |-> g[T]]
    BY <1>6 DEF Recursive
  <2>3. g = F(g)
    BY <2>1, <2>2
  <2> HIDE DEF F
  <2> QED
    BY <2>3
<1> HIDE DEF iter
<1>9. Follows(iter, S, B, NoRelease, pick, step)
  <2>1. iter[{}] = NoRelease
    BY <1>8
  <2>2. ASSUME NEW T \in SUBSET S, T # {}, iter[T \ {pick[T]}] \in B
        PROVE  iter[T] = step[<<pick[T], iter[T \ {pick[T]}]>>]
    <3>1. iter[T] = Best(iter[T \ {Max(T)}], rs[Max(T)])
      BY <1>8, <2>2
    <3> HIDE DEF B, F
    <3> QED
      BY <1>2, <1>5, <2>2, <3>1
  <2> QED
    BY <2>1, <2>2 DEF Follows
<1>10. iter[S] = g[S]
  <2> HIDE DEF S, B
  <2> QED
    BY <1>5, <1>6, <1>9, Unique
<1>11. \A k \in 1 .. n : h[k] = Best(h[k - 1], rs[k])
  <2>1. ASSUME NEW k \in 1 .. n PROVE h[k] = Best(h[k - 1], rs[k])
    <3>1. h[k] = step[<<k, h[k - 1]>>] /\ h[k - 1] \in B /\ k \in S
      BY <1>7 DEF Goes
    <3> QED
      BY <1>2, <3>1
  <2> QED
    BY <2>1
<1> QED
  BY <1>4, <1>7, <1>10, <1>11 DEF n, Goes

Request == [source : Sources, mod : Mods]

Left(left, q, sources) == IF q.source \in sources THEN left ELSE Append(left, q)

\* The filter of the requests, one request at a time.
LEMMA UnansweredAlong ==
  ASSUME requests \in Seq(Request), NEW sources
  PROVE  \E h \in [0 .. Len(requests) -> Seq(Request)] :
           /\ h[0] = <<>> /\ h[Len(requests)] = Unanswered(sources)
           /\ \A k \in 1 .. Len(requests) : h[k] = Left(h[k - 1], requests[k], sources)
<1> DEFINE n == Len(requests)
           S == 1 .. n
           B == Seq(Request)
           step == [p \in S \X B |-> Left(p[2], requests[p[1]], sources)]
           pick == [T \in SUBSET S |-> Max(T)]
<1>1. n \in Nat /\ DOMAIN requests = S /\ \A i \in S : requests[i] \in Request
  OBVIOUS
<1>2. \A i \in S, b \in B : step[<<i, b>>] = Left(b, requests[i], sources) /\ step[<<i, b>>] \in B
  BY <1>1 DEF Left
<1>3. \A T \in SUBSET S : pick[T] = Max(T)
  OBVIOUS
<1> DEFINE F(h) == [T \in SUBSET S |->
                      IF T = {} THEN <<>> ELSE Left(h[T \ {Max(T)}], requests[Max(T)], sources)]
           iter == CHOOSE h : h = F(h)
<1>4. Unanswered(sources) = iter[S]
  BY <1>1 DEF Unanswered, FoldLeft, MapThenFoldSet, Left
<1> HIDE DEF n, step, pick
<1> USE <1>1
<1>5. /\ Picks(pick, S) /\ IsFiniteSet(S) /\ <<>> \in B
      /\ PicksLast(pick, n) /\ Steps(step, S, B)
      /\ \A T \in SUBSET S : T # {} => Max(T) \in T /\ pick[T] = Max(T)
  <2>1. \A T \in SUBSET S : T # {} => Max(T) \in T
    BY UpTo
  <2>2. IsFiniteSet(S)
    BY UpTo
  <2>3. Picks(pick, S) /\ PicksLast(pick, n)
    BY <1>3, <2>1 DEF Picks, PicksLast
  <2>4. Steps(step, S, B)
    <3> HIDE DEF S, B
    <3> QED
      BY <1>2 DEF Steps
  <2> QED
    BY <1>3, <2>1, <2>2, <2>3, <2>4
<1>6. PICK g : Recursive(g, S, B, <<>>, pick, step)
  <2> HIDE DEF B
  <2> QED
    BY <1>5, Along
<1>7. PICK h : Goes(h, n, B, <<>>, step) /\ h[n] = g[S]
  <2> HIDE DEF B
  <2> QED
    BY <1>5, <1>6, Along
<1>8. iter = F(iter)
  <2>1. ASSUME NEW T \in SUBSET S
        PROVE  g[T] = IF T = {} THEN <<>> ELSE Left(g[T \ {Max(T)}], requests[Max(T)], sources)
    <3>1. g[T] = IF T = {} THEN <<>> ELSE step[<<pick[T], g[T \ {pick[T]}]>>]
      BY <1>6 DEF Recursive
    <3>2. g[T \ {Max(T)}] \in B
      BY <1>6 DEF Recursive
    <3> HIDE DEF B, S
    <3> QED
      BY <1>2, <1>5, <3>1, <3>2
  <2>2. g = [T \in SUBSET S |-> g[T]]
    BY <1>6 DEF Recursive
  <2>3. g = F(g)
    BY <2>1, <2>2
  <2> HIDE DEF F
  <2> QED
    BY <2>3
<1> HIDE DEF iter
<1>9. Follows(iter, S, B, <<>>, pick, step)
  <2>1. iter[{}] = <<>>
    BY <1>8
  <2>2. ASSUME NEW T \in SUBSET S, T # {}, iter[T \ {pick[T]}] \in B
        PROVE  iter[T] = step[<<pick[T], iter[T \ {pick[T]}]>>]
    <3>1. iter[T] = Left(iter[T \ {Max(T)}], requests[Max(T)], sources)
      BY <1>8, <2>2
    <3> HIDE DEF B, F
    <3> QED
      BY <1>2, <1>5, <2>2, <3>1
  <2> QED
    BY <2>1, <2>2 DEF Follows
<1>10. iter[S] = g[S]
  <2> HIDE DEF S, B
  <2> QED
    BY <1>5, <1>6, <1>9, Unique
<1>11. \A k \in 1 .. n : h[k] = Left(h[k - 1], requests[k], sources)
  <2>1. ASSUME NEW k \in 1 .. n PROVE h[k] = Left(h[k - 1], requests[k], sources)
    <3>1. h[k] = step[<<k, h[k - 1]>>] /\ h[k - 1] \in B /\ k \in S
      BY <1>7 DEF Goes
    <3> QED
      BY <1>2, <3>1
  <2> QED
    BY <2>1
<1> QED
  BY <1>4, <1>7, <1>10, <1>11 DEF n, Goes

Flat(found) == FoldLeft(LAMBDA all, some : all \o some, <<>>, found)

\* The walk, one mod at a time.
LEMMA FlatAlong ==
  ASSUME NEW X, NEW found \in Seq(Seq(X))
  PROVE  \E h \in [0 .. Len(found) -> Seq(X)] :
           /\ h[0] = <<>> /\ h[Len(found)] = Flat(found)
           /\ \A k \in 1 .. Len(found) : h[k] = h[k - 1] \o found[k]
<1> DEFINE n == Len(found)
           S == 1 .. n
           B == Seq(X)
           step == [p \in S \X B |-> (p[2]) \o found[p[1]]]
           pick == [T \in SUBSET S |-> Max(T)]
<1>1. n \in Nat /\ DOMAIN found = S /\ \A i \in S : found[i] \in Seq(X)
  OBVIOUS
<1>2. \A i \in S, b \in B : step[<<i, b>>] = (b) \o found[i] /\ step[<<i, b>>] \in B
  <2>1. \A i \in S, b \in B : b \o found[i] \in B
    BY <1>1, ConcatProperties
  <2> QED
    BY <2>1
<1>3. \A T \in SUBSET S : pick[T] = Max(T)
  OBVIOUS
<1> DEFINE F(h) == [T \in SUBSET S |->
                      IF T = {} THEN <<>> ELSE (h[T \ {Max(T)}]) \o found[Max(T)]]
           iter == CHOOSE h : h = F(h)
<1>4. Flat(found) = iter[S]
  BY <1>1 DEF Flat, FoldLeft, MapThenFoldSet
<1> HIDE DEF n, step, pick
<1> USE <1>1
<1>5. /\ Picks(pick, S) /\ IsFiniteSet(S) /\ <<>> \in B
      /\ PicksLast(pick, n) /\ Steps(step, S, B)
      /\ \A T \in SUBSET S : T # {} => Max(T) \in T /\ pick[T] = Max(T)
  <2>1. \A T \in SUBSET S : T # {} => Max(T) \in T
    BY UpTo
  <2>2. IsFiniteSet(S)
    BY UpTo
  <2>3. Picks(pick, S) /\ PicksLast(pick, n)
    BY <1>3, <2>1 DEF Picks, PicksLast
  <2>4. Steps(step, S, B)
    <3> HIDE DEF S, B
    <3> QED
      BY <1>2 DEF Steps
  <2> QED
    BY <1>3, <2>1, <2>2, <2>3, <2>4
<1>6. PICK g : Recursive(g, S, B, <<>>, pick, step)
  <2> HIDE DEF B
  <2> QED
    BY <1>5, Along
<1>7. PICK h : Goes(h, n, B, <<>>, step) /\ h[n] = g[S]
  <2> HIDE DEF B
  <2> QED
    BY <1>5, <1>6, Along
<1>8. iter = F(iter)
  <2>1. ASSUME NEW T \in SUBSET S
        PROVE  g[T] = IF T = {} THEN <<>> ELSE (g[T \ {Max(T)}]) \o found[Max(T)]
    <3>1. g[T] = IF T = {} THEN <<>> ELSE step[<<pick[T], g[T \ {pick[T]}]>>]
      BY <1>6 DEF Recursive
    <3>2. g[T \ {Max(T)}] \in B
      BY <1>6 DEF Recursive
    <3> HIDE DEF B, S
    <3> QED
      BY <1>2, <1>5, <3>1, <3>2
  <2>2. g = [T \in SUBSET S |-> g[T]]
    BY <1>6 DEF Recursive
  <2>3. g = F(g)
    BY <2>1, <2>2
  <2> HIDE DEF F
  <2> QED
    BY <2>3
<1> HIDE DEF iter
<1>9. Follows(iter, S, B, <<>>, pick, step)
  <2>1. iter[{}] = <<>>
    BY <1>8
  <2>2. ASSUME NEW T \in SUBSET S, T # {}, iter[T \ {pick[T]}] \in B
        PROVE  iter[T] = step[<<pick[T], iter[T \ {pick[T]}]>>]
    <3>1. iter[T] = (iter[T \ {Max(T)}]) \o found[Max(T)]
      BY <1>8, <2>2
    <3> HIDE DEF B, F
    <3> QED
      BY <1>2, <1>5, <2>2, <3>1
  <2> QED
    BY <2>1, <2>2 DEF Follows
<1>10. iter[S] = g[S]
  <2> HIDE DEF S, B
  <2> QED
    BY <1>5, <1>6, <1>9, Unique
<1>11. \A k \in 1 .. n : h[k] = (h[k - 1]) \o found[k]
  <2>1. ASSUME NEW k \in 1 .. n PROVE h[k] = (h[k - 1]) \o found[k]
    <3>1. h[k] = step[<<k, h[k - 1]>>] /\ h[k - 1] \in B /\ k \in S
      BY <1>7 DEF Goes
    <3> QED
      BY <1>2, <3>1
  <2> QED
    BY <2>1
<1> QED
  BY <1>4, <1>7, <1>10, <1>11 DEF n, Goes

-----------------------------------------------------------------------------
(* The order of the versions.                                              *)

Part == [string : Strings, number : Nat]
Alike(p, q) == ~PartGt(p, q) /\ ~PartGt(q, p)

\* The orders of strings and of parts are strict weak orders.
LEMMA StringOrder ==
  ASSUME NEW s \in Strings, NEW t \in Strings, NEW u \in Strings
  PROVE  /\ ~StringGt(s, s)
         /\ StringGt(s, t) => ~StringGt(t, s)
         /\ StringGt(s, u) => StringGt(s, t) \/ StringGt(t, u)
<1>1. \A x \in Strings : x.dot \in BOOLEAN /\ x.rest \in Nat
                           /\ (x = Empty <=> ~x.dot /\ x.rest = 0)
  BY DEF Strings, Empty
<1> QED
  BY <1>1 DEF StringGt

LEMMA PartOrder ==
  ASSUME NEW p \in Part, NEW q \in Part, NEW r \in Part
  PROVE  /\ ~PartGt(p, p)
         /\ PartGt(p, q) => ~PartGt(q, p)
         /\ PartGt(p, r) => PartGt(p, q) \/ PartGt(q, r)
<1> DEFINE St == {p.string, q.string, r.string}
<1>1. p.string \in Strings /\ q.string \in Strings /\ r.string \in Strings
  BY DEF Part
<1>2. p.number \in Nat /\ q.number \in Nat /\ r.number \in Nat
  BY DEF Part
<1>3. /\ ~StringGt(p.string, p.string)
      /\ StringGt(p.string, q.string) => ~StringGt(q.string, p.string)
      /\ StringGt(p.string, r.string) => ~StringGt(r.string, p.string)
      /\ StringGt(q.string, r.string) => ~StringGt(r.string, q.string)
  BY <1>1, StringOrder
<1>4. /\ StringGt(p.string, r.string) => StringGt(p.string, q.string) \/ StringGt(q.string, r.string)
      /\ StringGt(r.string, p.string) => StringGt(r.string, q.string) \/ StringGt(q.string, p.string)
      /\ StringGt(p.string, q.string) => StringGt(p.string, r.string) \/ StringGt(r.string, q.string)
      /\ StringGt(q.string, r.string) => StringGt(q.string, p.string) \/ StringGt(p.string, r.string)
      /\ StringGt(q.string, p.string) => StringGt(q.string, r.string) \/ StringGt(r.string, p.string)
      /\ StringGt(r.string, q.string) => StringGt(r.string, p.string) \/ StringGt(p.string, q.string)
  BY <1>1, StringOrder
<1> QED
  BY <1>2, <1>3, <1>4 DEF PartGt

\* v is above w from part k on.
Above(v, w, k) ==
  /\ \A i \in 1 .. (k - 1) : i <= Len(w.parts) /\ Alike(v.parts[i], w.parts[i])
  /\ k <= Len(w.parts) => PartGt(v.parts[k], w.parts[k])

LEMMA VersionParts ==
  ASSUME NEW v \in Version
  PROVE  /\ v.epoch \in Nat /\ Len(v.parts) \in Nat
         /\ DOMAIN v.parts = 1 .. Len(v.parts)
         /\ \A i \in 1 .. Len(v.parts) : v.parts[i] \in Part
<1>1. v.epoch \in Nat /\ v.parts \in Seq(Part)
  BY DEF Version, Part
<1> QED
  BY <1>1

\* A version is above another at the first part that differs.
LEMMA FirstDifference ==
  ASSUME NEW v \in Version, NEW w \in Version
  PROVE  Gt(v, w) <=> \/ v.epoch > w.epoch
                      \/ /\ v.epoch = w.epoch
                         /\ \E k \in 1 .. Len(v.parts) : Above(v, w, k)
<1> DEFINE common == DOMAIN v.parts \cap DOMAIN w.parts
           differ == {i \in common : PartGt(v.parts[i], w.parts[i])
                                        \/ PartGt(w.parts[i], v.parts[i])}
           V == Len(v.parts)
           W == Len(w.parts)
<1>1. V \in Nat /\ W \in Nat /\ DOMAIN v.parts = 1 .. V /\ DOMAIN w.parts = 1 .. W
  BY VersionParts
<1>2. Gt(v, w) <=> \/ v.epoch > w.epoch
                   \/ /\ v.epoch = w.epoch
                      /\ IF differ = {} THEN V > W
                         ELSE PartGt(v.parts[Min(differ)], w.parts[Min(differ)])
  BY DEF Gt
<1> DEFINE more == \E k \in 1 .. V : Above(v, w, k)
<1>3. \A i \in 1 .. V : i <= W /\ i \notin differ <=> i <= W /\ Alike(v.parts[i], w.parts[i])
  BY <1>1 DEF Alike
<1>4. \A i \in 1 .. V : i <= W => \A p, q : v.parts[i] = p /\ w.parts[i] = q =>
        (PartGt(p, q) => ~PartGt(q, p))
  BY <1>1, VersionParts, PartOrder
<1>5. differ \subseteq 1 .. V /\ \A i \in differ : i <= W
  BY <1>1
<1>6. \A i \in 1 .. V : i \in differ <=> i <= W /\ (PartGt(v.parts[i], w.parts[i]) \/ PartGt(w.parts[i], v.parts[i]))
  BY <1>1
<1> HIDE DEF differ
<1>7. CASE differ = {}
  <2>1. ASSUME V > W PROVE more
    <3>1. W + 1 \in 1 .. V /\ \A i \in 1 .. ((W + 1) - 1) : i \in 1 .. V /\ i <= W
      BY <1>1, <2>1
    <3>2. Above(v, w, W + 1)
      BY <1>1, <1>3, <1>7, <3>1 DEF Above
    <3> QED
      BY <3>1, <3>2
  <2>2. ASSUME more PROVE V > W
    <3>1. PICK k \in 1 .. V : Above(v, w, k)
      BY <2>2
    <3>2. ~(k <= W)
      BY <1>1, <1>6, <1>7, <3>1 DEF Above
    <3> QED
      BY <1>1, <3>1, <3>2
  <2> QED
    BY <1>2, <1>7, <2>1, <2>2
<1>8. CASE differ # {}
  <2> DEFINE m == Min(differ)
  <2>1. m \in differ /\ \A i \in differ : m <= i
    <3>1. differ \in SUBSET Nat
      BY <1>1, <1>5
    <3>2. PICK n \in differ : \A i \in differ : n <= i
      BY <1>8, <3>1, Least
    <3> QED
      BY <3>2 DEF Min
  <2> HIDE DEF m
  <2>2. m \in 1 .. V /\ m <= W
    BY <1>1, <1>5, <2>1
  <2>3. \A i \in 1 .. (m - 1) : i \in 1 .. V /\ i <= W /\ i \notin differ
    BY <1>1, <2>1, <2>2
  <2>4. ASSUME PartGt(v.parts[m], w.parts[m]) PROVE more
    BY <1>3, <2>2, <2>3, <2>4 DEF Above
  <2>5. ASSUME more PROVE PartGt(v.parts[m], w.parts[m])
    <3>1. PICK k \in 1 .. V : Above(v, w, k)
      BY <2>5
    <3>2. k = m
      <4>1. ~(m < k)
        <5>1. m \in 1 .. (k - 1) => Alike(v.parts[m], w.parts[m])
          BY <3>1 DEF Above
        <5> QED
          BY <1>6, <2>1, <2>2, <3>1, <5>1 DEF Alike
      <4>2. k <= W /\ k \in differ
        BY <1>1, <1>6, <2>2, <3>1, <4>1 DEF Above
      <4> QED
        BY <2>1, <2>2, <4>1, <4>2
    <3> QED
      BY <2>2, <3>1, <3>2 DEF Above
  <2> QED
    BY <1>2, <1>8, <2>4, <2>5 DEF m
<1> QED
  BY <1>7, <1>8

LEMMA AboveTransitive ==
  ASSUME NEW u \in Version, NEW v \in Version, NEW w \in Version,
         NEW a \in 1 .. Len(u.parts), Above(u, v, a),
         NEW b \in 1 .. Len(v.parts), Above(v, w, b)
  PROVE  \E k \in 1 .. Len(u.parts) : Above(u, w, k)
<1> DEFINE k == IF a <= b THEN a ELSE b
<1>1. /\ Len(u.parts) \in Nat /\ Len(v.parts) \in Nat /\ Len(w.parts) \in Nat
      /\ \A i \in 1 .. Len(u.parts) : u.parts[i] \in Part
      /\ \A i \in 1 .. Len(v.parts) : v.parts[i] \in Part
      /\ \A i \in 1 .. Len(w.parts) : w.parts[i] \in Part
  BY VersionParts
<1>2. k \in Nat /\ k >= 1 /\ k <= a /\ k <= b /\ k <= Len(u.parts) /\ k <= Len(v.parts)
  BY <1>1
<1>3. k = a \/ k = b
  OBVIOUS
<1> HIDE DEF k
<1>4. ASSUME NEW i \in 1 .. (k - 1)
      PROVE  i <= Len(w.parts) /\ Alike(u.parts[i], w.parts[i])
  <2>1. i \in 1 .. (a - 1) /\ i \in 1 .. (b - 1)
    BY <1>2
  <2>2. i <= Len(v.parts) /\ i <= Len(w.parts)
    BY <2>1 DEF Above
  <2>3. u.parts[i] \in Part /\ v.parts[i] \in Part /\ w.parts[i] \in Part
    BY <1>1, <1>2, <2>1, <2>2
  <2>4. Alike(u.parts[i], v.parts[i]) /\ Alike(v.parts[i], w.parts[i])
    BY <2>1 DEF Above
  <2> QED
    BY <2>2, <2>3, <2>4, PartOrder DEF Alike
<1>5. ASSUME k <= Len(w.parts) PROVE PartGt(u.parts[k], w.parts[k])
  <2>1. u.parts[k] \in Part /\ v.parts[k] \in Part /\ w.parts[k] \in Part
    BY <1>1, <1>2, <1>5
  <2>2. PartGt(u.parts[k], v.parts[k]) \/ Alike(u.parts[k], v.parts[k])
    <3>1. k = a => PartGt(u.parts[k], v.parts[k])
      BY <1>2 DEF Above
    <3>2. k # a => k \in 1 .. (a - 1)
      BY <1>2
    <3> QED
      BY <3>1, <3>2 DEF Above
  <2>3. PartGt(v.parts[k], w.parts[k]) \/ Alike(v.parts[k], w.parts[k])
    <3>1. k = b => PartGt(v.parts[k], w.parts[k])
      BY <1>5 DEF Above
    <3>2. k # b => k \in 1 .. (b - 1)
      BY <1>2
    <3> QED
      BY <3>1, <3>2 DEF Above
  <2>4. PartGt(u.parts[k], v.parts[k]) \/ PartGt(v.parts[k], w.parts[k])
    BY <1>2, <1>3, <1>5 DEF Above
  <2> QED
    BY <2>1, <2>2, <2>3, <2>4, PartOrder DEF Alike
<1>6. Above(u, w, k)
  BY <1>4, <1>5 DEF Above
<1>7. k \in 1 .. Len(u.parts)
  BY <1>1, <1>2
<1> QED
  BY <1>6, <1>7

\* No version is above itself, and one above another is above those below it.
THEOREM VersionOrder ==
  ASSUME NEW u \in Version, NEW v \in Version, NEW w \in Version
  PROVE  ~Gt(u, u) /\ (Gt(u, v) /\ Gt(v, w) => Gt(u, w))
<1>1. u.epoch \in Nat /\ v.epoch \in Nat /\ w.epoch \in Nat
  BY VersionParts
<1>2. ~Gt(u, u)
  <2>1. \A k \in 1 .. Len(u.parts) : ~Above(u, u, k)
    BY VersionParts, PartOrder DEF Above
  <2> QED
    BY <1>1, <2>1, FirstDifference
<1>3. ASSUME Gt(u, v), Gt(v, w) PROVE Gt(u, w)
  <2>1. CASE u.epoch > v.epoch \/ v.epoch > w.epoch
    <3>1. u.epoch > w.epoch
      BY <1>1, <1>3, <2>1, FirstDifference
    <3> QED
      BY <3>1, FirstDifference
  <2>2. CASE ~(u.epoch > v.epoch \/ v.epoch > w.epoch)
    <3>1. /\ u.epoch = v.epoch /\ v.epoch = w.epoch
          /\ \E k \in 1 .. Len(u.parts) : Above(u, v, k)
          /\ \E k \in 1 .. Len(v.parts) : Above(v, w, k)
      BY <1>3, <2>2, FirstDifference
    <3>2. \E k \in 1 .. Len(u.parts) : Above(u, w, k)
      BY <3>1, AboveTransitive
    <3> QED
      BY <3>1, <3>2, FirstDifference
  <2> QED
    BY <2>1, <2>2
<1> QED
  BY <1>2, <1>3

-----------------------------------------------------------------------------
(* The newest release, the requests left, the walk.                        *)

Stable(rs) == {i \in DOMAIN rs : ~rs[i].prerelease}
ChosenOf(rs, best) ==
  IF Stable(rs) = {} THEN best = NoRelease
  ELSE /\ best \in {rs[i] : i \in Stable(rs)}
       /\ \A i \in Stable(rs) : ~Gt(rs[i].version, best.version)

\* What is chosen from the first files.
ChosenUpTo(rs, k, best) ==
  LET S == {i \in Stable(rs) : i <= k} IN
    IF S = {} THEN best = NoRelease
    ELSE /\ best \in {rs[i] : i \in S}
         /\ \A i \in S : ~Gt(rs[i].version, best.version)

LEMMA BestStep ==
  ASSUME NEW rs \in Seq(Release), NEW k \in 1 .. Len(rs), NEW best \in Release \cup {NoRelease},
         ChosenUpTo(rs, k - 1, best)
  PROVE  ChosenUpTo(rs, k, Best(best, rs[k]))
<1> DEFINE S == {i \in Stable(rs) : i <= k - 1}
           T == {i \in Stable(rs) : i <= k}
           new == Best(best, rs[k])
<1>1. /\ DOMAIN rs = 1 .. Len(rs) /\ Len(rs) \in Nat
      /\ \A i \in 1 .. Len(rs) : /\ rs[i] \in Release /\ rs[i] # NoRelease
                                 /\ rs[i].prerelease \in BOOLEAN /\ rs[i].version \in Version
  <2>1. DOMAIN rs = 1 .. Len(rs) /\ Len(rs) \in Nat /\ \A i \in 1 .. Len(rs) : rs[i] \in Release
    OBVIOUS
  <2>2. NoRelease \notin Release
    BY CounterAssumption
  <2>3. \A r \in Release : r.prerelease \in BOOLEAN /\ r.version \in Version
    BY DEF Release
  <2> QED
    BY <2>1, <2>2, <2>3
<1>2. \A i \in S : i \in 1 .. Len(rs)
  BY <1>1 DEF Stable
<1>3. IF rs[k].prerelease THEN T = S ELSE T = S \cup {k}
  BY <1>1 DEF Stable
<1>4. ChosenUpTo(rs, k - 1, best) <=>
        IF S = {} THEN best = NoRelease
        ELSE best \in {rs[i] : i \in S} /\ \A i \in S : ~Gt(rs[i].version, best.version)
  BY DEF ChosenUpTo
<1>5. ChosenUpTo(rs, k, new) <=>
        IF T = {} THEN new = NoRelease
        ELSE new \in {rs[i] : i \in T} /\ \A i \in T : ~Gt(rs[i].version, new.version)
  BY DEF ChosenUpTo
<1> HIDE DEF S, T, new
<1>6. CASE rs[k].prerelease
  <2>1. new = best
    BY <1>6, <1>1 DEF new, Best
  <2> QED
    BY <1>3, <1>4, <1>5, <1>6, <2>1 DEF new
<1>7. CASE ~rs[k].prerelease /\ S = {}
  <2>1. best = NoRelease /\ new = rs[k]
    BY <1>1, <1>4, <1>7 DEF new, Best
  <2>2. T = {k}
    BY <1>3, <1>7
  <2>3. ~Gt(rs[k].version, rs[k].version)
    BY <1>1, VersionOrder
  <2>4. new \in {rs[i] : i \in T} /\ \A i \in T : ~Gt(rs[i].version, new.version)
    BY <2>1, <2>2, <2>3
  <2> QED
    BY <1>5, <2>2, <2>4 DEF new
<1>8. CASE ~rs[k].prerelease /\ S # {}
  <2>1. PICK j \in S : best = rs[j]
    BY <1>4, <1>8
  <2>2. /\ j \in 1 .. Len(rs) /\ best # NoRelease /\ best.version \in Version
        /\ rs[k].version \in Version
    BY <1>1, <1>2, <2>1
  <2>3. T = S \cup {k} /\ j \in T /\ k \in T
    BY <1>3, <1>8, <2>1
  <2>4. \A i \in S : ~Gt(rs[i].version, best.version) /\ rs[i].version \in Version
    BY <1>1, <1>2, <1>4, <1>8
  <2>5. CASE Gt(rs[k].version, best.version)
    <3>1. new = rs[k]
      BY <1>1, <1>8, <2>2, <2>5 DEF new, Best
    <3>2. \A i \in S : ~Gt(rs[i].version, rs[k].version)
      BY <2>2, <2>4, <2>5, VersionOrder
    <3>3. ~Gt(rs[k].version, rs[k].version)
      BY <2>2, VersionOrder
    <3>4. new \in {rs[i] : i \in T} /\ \A i \in T : ~Gt(rs[i].version, new.version)
      BY <2>3, <3>1, <3>2, <3>3
    <3> QED
      BY <1>5, <2>3, <3>4 DEF new
  <2>6. CASE ~Gt(rs[k].version, best.version)
    <3>1. new = best
      BY <1>1, <1>8, <2>2, <2>6 DEF new, Best
    <3>2. new \in {rs[i] : i \in T} /\ \A i \in T : ~Gt(rs[i].version, new.version)
      BY <2>1, <2>3, <2>4, <2>6, <3>1
    <3> QED
      BY <1>5, <2>3, <3>2 DEF new
  <2> QED
    BY <2>5, <2>6
<1> QED
  BY <1>1, <1>6, <1>7, <1>8

\* No release has a newer version than the one that is chosen.
LEMMA HighestIsMaximal ==
  ASSUME NEW rs \in Seq(Release)
  PROVE  ChosenOf(rs, Highest(rs, FALSE, NoRelease))
<1> DEFINE n == Len(rs)
<1>1. n \in Nat /\ DOMAIN rs = 1 .. n
  OBVIOUS
<1>2. PICK h \in [0 .. n -> Release \cup {NoRelease}] :
        /\ h[0] = NoRelease /\ h[n] = Highest(rs, FALSE, NoRelease)
        /\ \A k \in 1 .. n : h[k] = Best(h[k - 1], rs[k])
  BY HighestAlong
<1> DEFINE Bad == {k \in 0 .. n : ~ChosenUpTo(rs, k, h[k])}
<1>3. Bad = {}
  <2> SUFFICES ASSUME Bad # {} PROVE FALSE
    OBVIOUS
  <2>1. Bad \in SUBSET Nat
    BY <1>1
  <2>2. PICK k \in Bad : \A j \in Bad : k <= j
    <3> HIDE DEF Bad
    <3> QED
      BY <2>1, Least
  <2>3. k # 0
    BY <1>1, <1>2, <2>2 DEF ChosenUpTo, Stable
  <2>4. k \in 1 .. n /\ k - 1 \in 0 .. n /\ k - 1 \notin Bad
    BY <1>1, <2>2, <2>3
  <2>5. ChosenUpTo(rs, k - 1, h[k - 1]) /\ h[k - 1] \in Release \cup {NoRelease}
    BY <1>2, <2>4
  <2>6. ChosenUpTo(rs, k, Best(h[k - 1], rs[k]))
    BY <2>4, <2>5, BestStep
  <2> QED
    BY <1>2, <2>2, <2>4, <2>6
<1>4. ChosenUpTo(rs, n, h[n])
  BY <1>1, <1>3
<1>5. {i \in Stable(rs) : i <= n} = Stable(rs)
  BY <1>1 DEF Stable
<1> QED
  BY <1>2, <1>4, <1>5 DEF ChosenUpTo, ChosenOf

\* The requests that are left are those of the other sources.
LEMMA UnansweredIs ==
  ASSUME requests \in Seq(Request), NEW sources,
         \A i, j \in DOMAIN requests : requests[i].source = requests[j].source => i = j
  PROVE  /\ Unanswered(sources) \in Seq(Request)
         /\ ToSet(Unanswered(sources)) = {q \in ToSet(requests) : q.source \notin sources}
         /\ \A i, j \in DOMAIN Unanswered(sources) :
              Unanswered(sources)[i].source = Unanswered(sources)[j].source => i = j
<1> DEFINE n == Len(requests)
           First(k) == {requests[i] : i \in 1 .. k}
           P(k, s) == /\ ToSet(s) = {q \in First(k) : q.source \notin sources}
                      /\ \A i, j \in DOMAIN s : s[i].source = s[j].source => i = j
<1>1. n \in Nat /\ DOMAIN requests = 1 .. n /\ \A i \in 1 .. n : requests[i] \in Request
  OBVIOUS
<1>2. PICK h \in [0 .. n -> Seq(Request)] :
        /\ h[0] = <<>> /\ h[n] = Unanswered(sources)
        /\ \A k \in 1 .. n : h[k] = Left(h[k - 1], requests[k], sources)
  BY UnansweredAlong
<1> DEFINE Bad == {k \in 0 .. n : ~P(k, h[k])}
<1>3. ASSUME NEW k \in 1 .. n, P(k - 1, h[k - 1]) PROVE P(k, h[k])
  <2> DEFINE s == h[k - 1]
             q == requests[k]
  <2>1. s \in Seq(Request) /\ q \in Request /\ h[k] = Left(s, q, sources)
    BY <1>1, <1>2
  <2>2. First(k) = First(k - 1) \cup {q}
    BY <1>1
  <2>3. \A i \in DOMAIN s : s[i].source # q.source
    <3>1. \A i \in DOMAIN s : s[i] \in ToSet(s)
      BY DEF ToSet
    <3>2. \A p \in First(k - 1) : p.source # q.source
      BY <1>1
    <3> QED
      BY <1>3, <3>1, <3>2
  <2>4. ToSet(s) = {p \in First(k - 1) : p.source \notin sources}
        /\ \A i, j \in DOMAIN s : s[i].source = s[j].source => i = j
    BY <1>3
  <2> HIDE DEF s, q, First
  <2>5. CASE q.source \in sources
    <3>1. h[k] = s
      BY <2>1, <2>5 DEF Left
    <3>2. {p \in First(k) : p.source \notin sources} = {p \in First(k - 1) : p.source \notin sources}
      BY <2>2, <2>5
    <3> QED
      BY <2>4, <3>1, <3>2
  <2>6. CASE q.source \notin sources
    <3>1. h[k] = Append(s, q)
      BY <2>1, <2>6 DEF Left
    <3>2. /\ DOMAIN s = 1 .. Len(s) /\ Len(s) \in Nat
          /\ DOMAIN h[k] = 1 .. (Len(s) + 1)
          /\ \A i \in 1 .. Len(s) : h[k][i] = s[i]
          /\ h[k][Len(s) + 1] = q
      BY <2>1, <3>1
    <3>3. ToSet(h[k]) = ToSet(s) \cup {q}
      BY <3>2 DEF ToSet
    <3>4. ToSet(h[k]) = {p \in First(k) : p.source \notin sources}
      BY <2>2, <2>4, <2>6, <3>3
    <3>5. \A i, j \in DOMAIN h[k] : h[k][i].source = h[k][j].source => i = j
      BY <2>3, <2>4, <3>2
    <3> QED
      BY <3>4, <3>5
  <2> QED
    BY <2>5, <2>6
<1>4. P(0, h[0])
  BY <1>2 DEF ToSet
<1> HIDE DEF P
<1>5. Bad = {}
  <2> SUFFICES ASSUME Bad # {} PROVE FALSE
    OBVIOUS
  <2>1. Bad \in SUBSET Nat
    BY <1>1
  <2>2. PICK k \in Bad : \A j \in Bad : k <= j
    <3> HIDE DEF Bad
    <3> QED
      BY <2>1, Least
  <2>3. k \in 1 .. n /\ k - 1 \in 0 .. n /\ k - 1 \notin Bad
    BY <1>1, <1>4, <2>2
  <2> QED
    BY <1>3, <2>2, <2>3
<1>6. P(n, h[n]) /\ h[n] = Unanswered(sources) /\ h[n] \in Seq(Request)
  BY <1>1, <1>2, <1>5
<1>7. First(n) = ToSet(requests)
  BY <1>1 DEF ToSet
<1> QED
  BY <1>6, <1>7 DEF P

\* Joining sequences: the elements of each, and one that only one sequence has
\* once is there once.
Twice(s, p) == \E i, j \in DOMAIN s : i # j /\ s[i] = p /\ s[j] = p

LEMMA FlatIs ==
  ASSUME NEW X, NEW found \in Seq(Seq(X)),
         \A a, b \in DOMAIN found : a # b => ToSet(found[a]) \cap ToSet(found[b]) = {}
  PROVE  /\ Flat(found) \in Seq(X)
         /\ ToSet(Flat(found)) = UNION {ToSet(found[m]) : m \in DOMAIN found}
         /\ \A p : Twice(Flat(found), p) => \E m \in DOMAIN found : Twice(found[m], p)
<1> DEFINE n == Len(found)
           First(k) == UNION {ToSet(found[m]) : m \in 1 .. k}
           P(k, s) == /\ ToSet(s) = First(k)
                      /\ \A p : Twice(s, p) => \E m \in 1 .. k : Twice(found[m], p)
<1>1. n \in Nat /\ DOMAIN found = 1 .. n /\ \A i \in 1 .. n : found[i] \in Seq(X)
  OBVIOUS
<1>2. PICK h \in [0 .. n -> Seq(X)] :
        /\ h[0] = <<>> /\ h[n] = Flat(found)
        /\ \A k \in 1 .. n : h[k] = h[k - 1] \o found[k]
  BY FlatAlong
<1> DEFINE Bad == {k \in 0 .. n : ~P(k, h[k])}
<1>3. ASSUME NEW k \in 1 .. n, P(k - 1, h[k - 1]) PROVE P(k, h[k])
  <2> DEFINE s == h[k - 1]
             t == found[k]
  <2>1. s \in Seq(X) /\ t \in Seq(X) /\ h[k] = s \o t
    <3>1. k - 1 \in 0 .. n
      BY <1>1
    <3>2. h[k - 1] \in Seq(X)
      BY <1>2, <3>1
    <3>3. found[k] \in Seq(X)
      BY <1>1
    <3>4. h[k] = h[k - 1] \o found[k]
      BY <1>2
    <3> QED
      BY <3>2, <3>3, <3>4
  <2>2. First(k) = First(k - 1) \cup ToSet(t)
    <3>1. 1 .. k = (1 .. (k - 1)) \cup {k}
      BY <1>1
    <3> QED
      BY <3>1
  <2>3. First(k - 1) \cap ToSet(t) = {}
    <3>1. \A m \in 1 .. (k - 1) : m # k /\ m \in DOMAIN found /\ k \in DOMAIN found
      BY <1>1
    <3>2. \A m \in 1 .. (k - 1) : ToSet(found[m]) \cap ToSet(t) = {}
      BY <3>1
    <3> QED
      BY <3>2
  <2>4. ToSet(s) = First(k - 1)
    BY <1>3
  <2>5. \A p : Twice(s, p) => \E m \in 1 .. (k - 1) : Twice(found[m], p)
    BY <1>3
  <2> HIDE DEF s, t, First
  <2>6. /\ DOMAIN s = 1 .. Len(s) /\ Len(s) \in Nat /\ DOMAIN t = 1 .. Len(t) /\ Len(t) \in Nat
        /\ DOMAIN h[k] = 1 .. (Len(s) + Len(t))
        /\ \A i \in 1 .. Len(s) : h[k][i] = s[i]
        /\ \A i \in 1 .. Len(t) : h[k][Len(s) + i] = t[i]
    BY <2>1, ConcatProperties
  <2>7. \A i \in DOMAIN h[k] : \/ i \in 1 .. Len(s) /\ h[k][i] = s[i]
                               \/ \E j \in 1 .. Len(t) : i = Len(s) + j /\ h[k][i] = t[j]
    <3>1. \A i \in DOMAIN h[k] : i \in 1 .. Len(s) \/ (i - Len(s) \in 1 .. Len(t) /\ i = Len(s) + (i - Len(s)))
      BY <2>6
    <3> QED
      BY <2>6, <3>1
  <2>8. ToSet(h[k]) = ToSet(s) \cup ToSet(t)
    <3>1. \A i \in 1 .. Len(s) : i \in DOMAIN h[k]
      BY <2>6
    <3>2. \A i \in 1 .. Len(t) : Len(s) + i \in DOMAIN h[k]
      BY <2>6
    <3>3. ASSUME NEW x \in ToSet(h[k]) PROVE x \in ToSet(s) \/ x \in ToSet(t)
      <4>1. PICK i \in DOMAIN h[k] : x = h[k][i]
        BY DEF ToSet
      <4>2. CASE i \in 1 .. Len(s) /\ h[k][i] = s[i]
        BY <2>6, <4>1, <4>2 DEF ToSet
      <4>3. CASE \E j \in 1 .. Len(t) : i = Len(s) + j /\ h[k][i] = t[j]
        BY <2>6, <4>1, <4>3 DEF ToSet
      <4> QED
        BY <2>7, <4>1, <4>2, <4>3
    <3>4. \A x \in ToSet(s) : x \in ToSet(h[k])
      BY <2>6, <3>1 DEF ToSet
    <3>5. \A x \in ToSet(t) : x \in ToSet(h[k])
      BY <2>6, <3>2 DEF ToSet
    <3> QED
      BY <3>3, <3>4, <3>5
  <2>9. ASSUME NEW p, Twice(h[k], p) PROVE \E m \in 1 .. k : Twice(found[m], p)
    <3>1. PICK i, j \in DOMAIN h[k] : i # j /\ h[k][i] = p /\ h[k][j] = p
      BY <2>9 DEF Twice
    <3>2. ~(p \in ToSet(s) /\ p \in ToSet(t))
      BY <2>3, <2>4
    <3>3. \A a \in 1 .. Len(s), b \in 1 .. Len(t) : ~(s[a] = p /\ t[b] = p)
      BY <2>6, <3>2 DEF ToSet
    <3>4. CASE i \in 1 .. Len(s) /\ j \in 1 .. Len(s)
      <4>1. Twice(s, p)
        BY <2>6, <3>1, <3>4 DEF Twice
      <4>2. \A m \in 1 .. (k - 1) : m \in 1 .. k
        BY <1>1
      <4> QED
        BY <2>5, <4>1, <4>2
    <3>5. CASE ~(i \in 1 .. Len(s) /\ j \in 1 .. Len(s))
      <4>1. PICK a \in 1 .. Len(t) : i = Len(s) + a /\ t[a] = p
        BY <2>7, <3>1, <3>3, <3>5
      <4>2. PICK b \in 1 .. Len(t) : j = Len(s) + b /\ t[b] = p
        BY <2>7, <3>1, <3>3, <3>5
      <4>3. a # b
        BY <3>1, <4>1, <4>2
      <4>4. Twice(t, p)
        BY <2>6, <4>1, <4>2, <4>3 DEF Twice
      <4>5. k \in 1 .. k
        BY <1>1
      <4> QED
        BY <4>4, <4>5 DEF t
    <3> QED
      BY <3>4, <3>5
  <2> QED
    BY <2>2, <2>4, <2>8, <2>9
<1>4. P(0, h[0])
  BY <1>2 DEF ToSet, Twice
<1> HIDE DEF P
<1>5. Bad = {}
  <2> SUFFICES ASSUME Bad # {} PROVE FALSE
    OBVIOUS
  <2>1. Bad \in SUBSET Nat
    BY <1>1
  <2>2. PICK k \in Bad : \A j \in Bad : k <= j
    <3> HIDE DEF Bad
    <3> QED
      BY <2>1, Least
  <2>3. k \in 1 .. n /\ k - 1 \in 0 .. n /\ k - 1 \notin Bad
    BY <1>1, <1>4, <2>2
  <2> QED
    BY <1>3, <2>2, <2>3
<1>6. P(n, h[n]) /\ h[n] = Flat(found) /\ h[n] \in Seq(X)
  BY <1>1, <1>2, <1>5
<1>7. First(n) = UNION {ToSet(found[m]) : m \in DOMAIN found}
  BY <1>1
<1> QED
  BY <1>1, <1>6, <1>7 DEF P

-----------------------------------------------------------------------------
(* The downloads of a mod.                                                 *)

LEMMA ImageFinite ==
  ASSUME NEW S, IsFiniteSet(S), NEW f
  PROVE  IsFiniteSet({f[x] : x \in S})
<1> DEFINE T == {f[x] : x \in S}
           g == [x \in S |-> f[x]]
<1>1. g \in Surjection(S, T)
  BY DEF Surjection
<1> HIDE DEF T, g
<1>2. IsFiniteSet(T)
  BY <1>1, FS_Surjection
<1> QED
  BY <1>2 DEF T

\* The part of the invariant that every action keeps on its own.
Typed == TypeOK /\ Position /\ Origin

ItemOf(h, s) == [host |-> h, source |-> s]

LEMMA CountedHosts ==
  /\ Counted \subseteq Hosts
  /\ "github" \in Counted /\ "spacedock" \in Counted /\ "archive" \in Counted
  /\ "sourceforge" \in Counted
BY CounterAssumption DEF Counted

LEMMA ModsAre ==
  /\ IsFiniteSet(Mods) /\ Cardinality(Mods) \in Nat /\ Mods = 1 .. Cardinality(Mods)
  /\ \A m \in Mods : m \in Nat
<1>1. IsFiniteSet(Mods) /\ Mods = 1 .. Cardinality(Mods)
  BY CounterAssumption
<1>2. Cardinality(Mods) \in Nat
  BY <1>1, FS_CardinalityType
<1> QED
  BY <1>1, <1>2

\* Only a release that was listed is chosen.
LEMMA NewestTyped ==
  ASSUME TypeOK, NEW m \in Mods
  PROVE  Downloads(newest[m]) \in Seq(Download)
<1>1. CASE newest[m] = NoRelease
  BY <1>1 DEF Downloads
<1>2. CASE newest[m] \in ToSet(releases[m])
  <2>1. releases[m] \in Seq(Release)
    BY DEF TypeOK
  <2>2. newest[m] \in Release
    BY <1>2, <2>1 DEF ToSet
  <2>3. newest[m].downloads \in Seq(Download)
    BY <2>2 DEF Release
  <2> QED
    BY <2>3 DEF Downloads
<1> QED
  BY <1>1, <1>2 DEF TypeOK

LEMMA OfTyped ==
  ASSUME TypeOK, NEW m \in Mods
  PROVE  Of(m) \subseteq Download /\ IsFiniteSet(Of(m))
<1>1. Downloads(newest[m]) \in Seq(Download)
  BY NewestTyped
<1> DEFINE ds == Downloads(newest[m])
           n == Len(ds)
<1>2. n \in Nat /\ DOMAIN ds = 1 .. n /\ \A i \in 1 .. n : ds[i] \in Download
  BY <1>1
<1>3. Of(m) = {ds[i] : i \in 1 .. n}
  BY <1>2 DEF Of, ToSet
<1> HIDE DEF ds, n
<1>4. IsFiniteSet(1 .. n)
  BY <1>2, FS_Interval
<1>5. IsFiniteSet({ds[i] : i \in 1 .. n})
  BY <1>4, ImageFinite
<1> QED
  BY <1>2, <1>3, <1>5

LEMMA FromIs ==
  ASSUME TypeOK, NEW m \in Mods
  PROVE  /\ \A hosts : \A s : s \in From(m, hosts) <=>
              \E h \in hosts : ItemOf(h, s) \in Of(m)
         /\ \A hosts : From(m, hosts) \subseteq Sources /\ IsFiniteSet(From(m, hosts))
         /\ \A h, s : s \in From(m, {h}) <=> ItemOf(h, s) \in Of(m)
         /\ \A h, s : h \in Counted /\ s \in From(m, {h}) => s \in From(m, Counted)
         /\ \A s \in From(m, Counted) : \E h \in Counted : s \in From(m, {h})
<1>1. \A d \in Of(m) : d.host \in Hosts /\ d.source \in Sources /\ d = ItemOf(d.host, d.source)
  BY OfTyped DEF Download, ItemOf
<1>2. \A hosts : From(m, hosts) = {d.source : d \in {e \in Of(m) : e.host \in hosts}}
  BY DEF From, OfHost, Of
<1>3. \A h, s : ItemOf(h, s).host = h /\ ItemOf(h, s).source = s
  BY DEF ItemOf
<1>4. ASSUME NEW hosts, NEW s
      PROVE  s \in From(m, hosts) <=> \E h \in hosts : ItemOf(h, s) \in Of(m)
  BY <1>1, <1>2, <1>3
<1>5. ASSUME NEW hosts PROVE From(m, hosts) \subseteq Sources /\ IsFiniteSet(From(m, hosts))
  <2>1. IsFiniteSet({e \in Of(m) : e.host \in hosts})
    BY OfTyped, FS_Subset
  <2> DEFINE D == {e \in Of(m) : e.host \in hosts}
             f == [d \in D |-> d.source]
  <2>2. IsFiniteSet({f[d] : d \in D})
    <3> HIDE DEF D, f
    <3> QED
      BY <2>1, ImageFinite DEF D
  <2>3. {f[d] : d \in D} = From(m, hosts)
    <3>1. \A d \in D : f[d] = d.source
      OBVIOUS
    <3>2. From(m, hosts) = {d.source : d \in D}
      BY <1>2
    <3> HIDE DEF D, f
    <3> QED
      BY <3>1, <3>2
  <2>4. From(m, hosts) \subseteq Sources
    BY <1>1, <1>2
  <2> QED
    BY <2>2, <2>3, <2>4
<1>6. \A h, s : s \in From(m, {h}) <=> ItemOf(h, s) \in Of(m)
  BY <1>4
<1> QED
  BY <1>4, <1>5, <1>6

\* A plain mod has one source at a host, and each at one host; the mods that have
\* its repository have no other.
LEMMA PlainIs ==
  ASSUME TypeOK, NEW m \in Mods, Plain(m)
  PROVE  /\ \A h \in Counted : \A s, t \in From(m, {h}) : s = t
         /\ \A h, g \in Counted : \A s : s \in From(m, {h}) /\ s \in From(m, {g}) => h = g
         /\ \A s \in From(m, {"github"}) : \A n \in Mods : \A t, u \in From(n, {"github"}) :
              t = s => u = s
<1>1. \A i, j \in DOMAIN Downloads(newest[m]) :
        LET d == Downloads(newest[m])[i]
            e == Downloads(newest[m])[j]
        IN d.host \in Counted /\ e.host \in Counted /\ (d.host = e.host \/ d.source = e.source) => d = e
  BY DEF Plain
<1>2. \A d, e \in Of(m) :
        d.host \in Counted /\ e.host \in Counted /\ (d.host = e.host \/ d.source = e.source) => d = e
  BY <1>1 DEF Of, ToSet
<1>3. \A h, s : ItemOf(h, s).host = h /\ ItemOf(h, s).source = s
  BY DEF ItemOf
<1>4. \A h, s : s \in From(m, {h}) <=> ItemOf(h, s) \in Of(m)
  BY FromIs
<1>5. ASSUME NEW h \in Counted, NEW s \in From(m, {h}), NEW t \in From(m, {h}) PROVE s = t
  <2>1. ItemOf(h, s) \in Of(m) /\ ItemOf(h, t) \in Of(m)
    BY <1>4
  <2>2. ItemOf(h, s) = ItemOf(h, t)
    BY <1>2, <1>3, <2>1
  <2> QED
    BY <1>3, <2>2
<1>6. ASSUME NEW h \in Counted, NEW g \in Counted, NEW s, s \in From(m, {h}), s \in From(m, {g})
      PROVE  h = g
  <2>1. ItemOf(h, s) = ItemOf(g, s)
    BY <1>2, <1>3, <1>4, <1>6
  <2> QED
    BY <1>3, <2>1
<1>7. \A s \in From(m, {"github"}) : \A n \in Mods : \A t, u \in From(n, {"github"}) :
        t = s => u = s
  BY DEF Plain
<1> QED
  BY <1>5, <1>6, <1>7

LEMMA WorkItems ==
  ASSUME TypeOK, NEW p \in ToSet(work)
  PROVE  /\ p = <<p[1], p[2]>> /\ p[1] \in Mods /\ p[2] \in Download
         /\ p[2] = ItemOf(p[2].host, p[2].source)
         /\ p[2].host \in Hosts /\ p[2].source \in Sources
<1>1. p \in Mods \X Download
  BY DEF TypeOK, ToSet
<1> QED
  BY <1>1 DEF Download, ItemOf

LEMMA InWorkIs ==
  ASSUME Typed, NEW m, NEW h, NEW s, InWork(m, h, s)
  PROVE  m \in Mods /\ h \in Hosts /\ s \in Sources /\ s \in From(m, {h})
<1> DEFINE p == <<m, ItemOf(h, s)>>
<1>1. p \in ToSet(work) /\ p[1] = m /\ p[2] = ItemOf(h, s)
  BY DEF InWork, ItemOf
<1>2. m \in Mods /\ ItemOf(h, s) \in Of(m)
  BY <1>1, WorkItems DEF Typed, Position
<1>3. ItemOf(h, s).host = h /\ ItemOf(h, s).source = s
  BY DEF ItemOf
<1> QED
  BY <1>1, <1>2, <1>3, WorkItems, FromIs DEF Typed

\* A step of the walk.
LEMMA WalkStep ==
  ASSUME TypeOK, work # <<>>, work' = Tail(work)
  PROVE  /\ Head(work) \in ToSet(work) /\ Head(work) = work[1] /\ 1 \in DOMAIN work
         /\ work' \in Seq(Mods \X Download)
         /\ ToSet(work) = {Head(work)} \cup ToSet(work)'
         /\ \A i \in DOMAIN work' : i + 1 \in DOMAIN work /\ work'[i] = work[i + 1]
<1> DEFINE X == Mods \X Download
<1>1. work \in Seq(X)
  BY DEF TypeOK
<1> HIDE DEF X
<1>2. /\ Len(work) \in Nat \ {0} /\ DOMAIN work = 1 .. Len(work)
      /\ Head(work) = work[1] /\ Tail(work) \in Seq(X)
      /\ DOMAIN Tail(work) = 1 .. (Len(work) - 1)
      /\ \A i \in 1 .. (Len(work) - 1) : Tail(work)[i] = work[i + 1]
  BY <1>1
<1>3. \A i \in DOMAIN work' : i + 1 \in DOMAIN work /\ work'[i] = work[i + 1]
  BY <1>2
<1>4. ToSet(work)' = {work'[i] : i \in DOMAIN work'} /\ ToSet(work) = {work[i] : i \in DOMAIN work}
  BY DEF ToSet
<1>5. \A x \in ToSet(work) : x = Head(work) \/ x \in ToSet(work)'
  <2>1. \A i \in DOMAIN work : i = 1 \/ (i - 1 \in DOMAIN work' /\ work[i] = work'[i - 1])
    BY <1>2
  <2> QED
    BY <1>2, <1>4, <2>1
<1>6. Head(work) \in ToSet(work) /\ \A x \in ToSet(work)' : x \in ToSet(work)
  BY <1>2, <1>3, <1>4
<1>7. ToSet(work) = {Head(work)} \cup ToSet(work)'
  BY <1>5, <1>6
<1> QED
  BY <1>2, <1>3, <1>6, <1>7 DEF X

-----------------------------------------------------------------------------
(* What the operations on the queries do.                                  *)

\* The requests of ok whose mod has the repository u.
By(ok, u) ==
  {i \in ok : requests[i].mod \in DOMAIN repos /\ repos[requests[i].mod] = u}

LEMMA RequestsAre ==
  ASSUME TypeOK
  PROVE  /\ requests \in Seq(Request) /\ Len(requests) \in Nat
         /\ DOMAIN requests = 1 .. Len(requests)
         /\ \A i \in DOMAIN requests :
              /\ requests[i] \in ToSet(requests)
              /\ requests[i].source \in Sources /\ requests[i].mod \in Mods
         /\ \A q \in ToSet(requests) :
              /\ q.source \in Sources /\ q.mod \in Mods
              /\ \E i \in DOMAIN requests : q = requests[i]
         /\ \A i, j \in DOMAIN requests : requests[i].source = requests[j].source => i = j
<1>1. requests \in Seq(Request)
  BY DEF TypeOK, Request
<1>2. Len(requests) \in Nat /\ DOMAIN requests = 1 .. Len(requests)
      /\ \A i \in DOMAIN requests : requests[i] \in Request
  BY <1>1
<1>3. \A i \in DOMAIN requests :
        /\ requests[i] \in ToSet(requests)
        /\ requests[i].source \in Sources /\ requests[i].mod \in Mods
  BY <1>2 DEF ToSet, Request
<1>4. \A q \in ToSet(requests) :
        /\ q.source \in Sources /\ q.mod \in Mods
        /\ \E i \in DOMAIN requests : q = requests[i]
  BY <1>3 DEF ToSet
<1> QED
  BY <1>1, <1>2, <1>3, <1>4 DEF TypeOK

LEMMA CachedIs ==
  ASSUME TypeOK, NEW ok \in SUBSET DOMAIN requests
  PROVE  /\ DOMAIN Cached(ok) = DOMAIN cache \cup {s \in Sources : By(ok, s) # {}}
         /\ \A u \in DOMAIN Cached(ok) : By(ok, u) = {} => u \in DOMAIN cache /\ Cached(ok)[u] = cache[u]
         /\ \A u \in DOMAIN Cached(ok) : By(ok, u) # {} =>
              \E i \in By(ok, u) : Cached(ok)[u] = Count[requests[i].source]
         /\ DOMAIN Cached(ok) \subseteq Sources
         /\ \A u \in DOMAIN Cached(ok) : Cached(ok)[u] \in Nat
<1>1. Cached(ok) = [u \in DOMAIN cache \cup {s \in Sources : By(ok, s) # {}} |->
                      IF By(ok, u) = {} THEN cache[u]
                      ELSE Count[requests[Max(By(ok, u))].source]]
  BY DEF Cached, By
<1>2. DOMAIN Cached(ok) = DOMAIN cache \cup {s \in Sources : By(ok, s) # {}}
  BY <1>1
<1>3. ASSUME NEW u \in DOMAIN Cached(ok), By(ok, u) # {}
      PROVE  \E i \in By(ok, u) : Cached(ok)[u] = Count[requests[i].source]
  <2>1. By(ok, u) \in SUBSET (1 .. Len(requests)) /\ Len(requests) \in Nat
    BY RequestsAre DEF By
  <2>2. Max(By(ok, u)) \in By(ok, u)
    BY <1>3, <2>1, Greatest
  <2>3. Cached(ok)[u] = Count[requests[Max(By(ok, u))].source]
    BY <1>1, <1>2, <1>3
  <2> QED
    BY <2>2, <2>3
<1>4. \A u \in DOMAIN Cached(ok) : By(ok, u) = {} => u \in DOMAIN cache /\ Cached(ok)[u] = cache[u]
  BY <1>1, <1>2
<1>5. DOMAIN cache \subseteq Sources /\ \A u \in DOMAIN cache : cache[u] \in Nat
  BY DEF TypeOK
<1>6. \A s \in Sources : Count[s] \in Nat
  BY CounterAssumption
<1>7. \A u \in DOMAIN Cached(ok) : Cached(ok)[u] \in Nat
  <2>1. \A i \in ok : requests[i].source \in Sources
    BY RequestsAre
  <2>2. \A u : \A i \in By(ok, u) : i \in ok
    BY DEF By
  <2> QED
    BY <1>3, <1>4, <1>5, <1>6, <2>1, <2>2
<1> QED
  BY <1>2, <1>3, <1>4, <1>5, <1>7

LEMMA HeardIs ==
  ASSUME TypeOK, NEW ok \in SUBSET DOMAIN requests
  PROVE  /\ Heard(ok) \subseteq Mods \X Sources /\ answered \subseteq Heard(ok)
         /\ \A m, s : <<m, s>> \in Heard(ok) <=>
              \/ <<m, s>> \in answered
              \/ m \in Mods /\ s \in From(m, {"github"}) /\ \E i \in ok : requests[i].source = s
<1>1. \A i \in ok : requests[i].source \in Sources
  BY RequestsAre
<1> DEFINE sources == {requests[i].source : i \in ok}
<1>2. Heard(ok) = answered \cup {p \in Mods \X sources : p[2] \in From(p[1], {"github"})}
  BY DEF Heard
<1>3. sources \subseteq Sources /\ \A s : s \in sources <=> \E i \in ok : requests[i].source = s
  BY <1>1
<1> HIDE DEF sources
<1>4. answered \subseteq Mods \X Sources
  BY DEF TypeOK
<1>5. Heard(ok) \subseteq Mods \X Sources /\ answered \subseteq Heard(ok)
  BY <1>2, <1>3, <1>4
<1>6. ASSUME NEW m, NEW s
      PROVE  <<m, s>> \in Heard(ok) <=>
              \/ <<m, s>> \in answered
              \/ m \in Mods /\ s \in From(m, {"github"}) /\ \E i \in ok : requests[i].source = s
  BY <1>2, <1>3
<1> QED
  BY <1>5, <1>6

\* The mods whose repository is in the cache.
DoneIn(cached) == {m \in DOMAIN repos : repos[m] \in DOMAIN cached}

LEMMA ResultIs ==
  ASSUME TypeOK, NEW ok \in SUBSET DOMAIN requests, GraphResult(ok)
  PROVE  /\ cache' = Cached(ok) /\ answered' = Heard(ok)
         /\ DOMAIN repos' = DOMAIN repos \ DoneIn(Cached(ok))
         /\ \A m \in DOMAIN repos' : repos'[m] = repos[m]
         /\ requests' \in Seq(Request)
         /\ \A i, j \in DOMAIN requests' : requests'[i].source = requests'[j].source => i = j
         /\ \A q : q \in ToSet(requests)' <=>
              /\ q \in ToSet(requests)
              /\ \A m \in DoneIn(Cached(ok)) : repos[m] # q.source
         /\ counts' \in [Mods -> Nat]
         /\ \A m \in Mods : counts'[m] =
              counts[m] + IF m \in DoneIn(Cached(ok)) THEN Cached(ok)[repos[m]] ELSE 0
<1> DEFINE done == DoneIn(Cached(ok))
<1>1. /\ cache' = Cached(ok) /\ answered' = Heard(ok)
      /\ counts' = [m \in Mods |-> counts[m] + IF m \in done THEN cache'[repos[m]] ELSE 0]
      /\ repos' = Remaining(done)
      /\ requests' = Unanswered({repos[m] : m \in done})
  BY DEF GraphResult, DoneIn
<1>2. \A m \in done : m \in DOMAIN repos /\ repos[m] \in DOMAIN Cached(ok)
  BY DEF DoneIn
<1> HIDE DEF done
<1>3. DOMAIN repos' = DOMAIN repos \ done /\ \A m \in DOMAIN repos' : repos'[m] = repos[m]
  <2>1. repos' = [m \in DOMAIN repos \ done |-> repos[m]]
    BY <1>1 DEF Remaining, Restrict
  <2> QED
    BY <2>1
<1>4. \A m \in done : Cached(ok)[repos[m]] \in Nat
  BY <1>2, CachedIs
<1>5. \A m \in Mods : counts[m] \in Nat
  BY DEF TypeOK
<1>6. counts' \in [Mods -> Nat]
  BY <1>1, <1>4, <1>5
<1>7. \A m \in Mods : counts'[m] = counts[m] + IF m \in done THEN Cached(ok)[repos[m]] ELSE 0
  BY <1>1
<1> DEFINE sources == {repos[m] : m \in done}
<1>8. /\ Unanswered(sources) \in Seq(Request)
      /\ ToSet(Unanswered(sources)) = {q \in ToSet(requests) : q.source \notin sources}
      /\ \A i, j \in DOMAIN Unanswered(sources) :
           Unanswered(sources)[i].source = Unanswered(sources)[j].source => i = j
  <2> HIDE DEF sources
  <2>1. /\ requests \in Seq(Request)
        /\ \A i, j \in DOMAIN requests : requests[i].source = requests[j].source => i = j
    BY RequestsAre
  <2> QED
    BY <2>1, UnansweredIs
<1>9. \A q : q \in ToSet(requests)' <=>
        q \in ToSet(requests) /\ \A m \in done : repos[m] # q.source
  <2>1. ToSet(requests)' = ToSet(Unanswered(sources))
    BY <1>1 DEF ToSet
  <2> QED
    BY <1>8, <2>1
<1> HIDE DEF sources
<1>10. /\ requests' \in Seq(Request)
       /\ \A i, j \in DOMAIN requests' : requests'[i].source = requests'[j].source => i = j
  BY <1>1, <1>8 DEF sources
<1> QED
  BY <1>1, <1>3, <1>6, <1>7, <1>9, <1>10 DEF done

GotOf(got, m) == {p[2] : p \in {q \in got : q[1] = m}}

LEMMA CreditIs ==
  ASSUME TypeOK, NEW got, got \subseteq Mods \X Sources,
         \A p \in got : p[2] \in From(p[1], Counted), Credit(got)
  PROVE  /\ counts' \in [Mods -> Nat] /\ answered' = answered \cup got
         /\ \A m \in Mods : counts'[m] = counts[m] + SumOf(GotOf(got, m))
         /\ \A m \in Mods : SumOf(GotOf(got, m)) \in Nat
<1>1. ASSUME NEW m \in Mods PROVE SumOf(GotOf(got, m)) \in Nat
  <2>1. GotOf(got, m) \subseteq From(m, Counted)
    BY DEF GotOf
  <2>2. From(m, Counted) \subseteq Sources /\ IsFiniteSet(From(m, Counted))
    BY FromIs
  <2>3. GotOf(got, m) \in SUBSET Sources /\ IsFiniteSet(GotOf(got, m))
    BY <2>1, <2>2, FS_Subset
  <2> QED
    BY <2>3, SumNat
<1>2. /\ answered' = answered \cup got
      /\ counts' = [m \in Mods |-> counts[m] + SumOf(GotOf(got, m))]
  BY DEF Credit, GotOf
<1>3. \A m \in Mods : counts[m] \in Nat
  BY DEF TypeOK
<1> QED
  BY <1>1, <1>2, <1>3

-----------------------------------------------------------------------------
(* Types, and where what the queries hold comes from.                      *)

LEMMA MetaSame ==
  ASSUME UNCHANGED newest
  PROVE  /\ \A m : Of(m)' = Of(m) /\ Plain(m)' = Plain(m) /\ AllSources(m)' = AllSources(m)
         /\ \A m, hosts : From(m, hosts)' = From(m, hosts)
BY DEF Of, Plain, AllSources, From, OfHost, Downloads

\* What the walk looks at.
LEMMA LookIs ==
  ASSUME Typed, NEW host, Look(host)
  PROVE  /\ CurrentMod \in Mods /\ Source \in Sources
         /\ Head(work) = <<CurrentMod, ItemOf(host, Source)>>
         /\ Source \in From(CurrentMod, {host})
         /\ stage = "walk" /\ InWork(CurrentMod, host, Source)
         /\ work' \in Seq(Mods \X Download)
         /\ ToSet(work) = {Head(work)} \cup ToSet(work)'
         /\ \A p \in ToSet(work)' : p \in ToSet(work)
         /\ \A i \in DOMAIN work' : i + 1 \in DOMAIN work /\ work'[i] = work[i + 1]
         /\ 1 \in DOMAIN work /\ work[1] = Head(work)
         /\ UNCHANGED <<meta, file>>
<1>1. stage = "walk" /\ work # <<>> /\ Head(work)[2].host = host /\ work' = Tail(work)
      /\ UNCHANGED <<meta, file>>
  BY DEF Look
<1>2. TypeOK
  BY DEF Typed
<1>3. /\ Head(work) \in ToSet(work) /\ Head(work) = work[1] /\ 1 \in DOMAIN work
      /\ work' \in Seq(Mods \X Download)
      /\ ToSet(work) = {Head(work)} \cup ToSet(work)'
      /\ \A i \in DOMAIN work' : i + 1 \in DOMAIN work /\ work'[i] = work[i + 1]
  BY <1>1, <1>2, WalkStep
<1>4. /\ CurrentMod \in Mods /\ Source \in Sources
      /\ Head(work) = <<CurrentMod, ItemOf(host, Source)>>
  BY <1>1, <1>2, <1>3, WorkItems DEF CurrentMod, Source
<1>5. InWork(CurrentMod, host, Source)
  BY <1>3, <1>4 DEF InWork, ItemOf
<1>6. Source \in From(CurrentMod, {host})
  BY <1>5, InWorkIs
<1> QED
  BY <1>1, <1>3, <1>4, <1>5, <1>6

\* The parts of TypeOK by what they are about.
MetaType ==
  /\ releases \in [Mods -> Seq(Release)]
  /\ due = Off \/ due \in [Mods -> Nat]
  /\ DOMAIN newest = Mods
  /\ \A m \in Mods : newest[m] = NoRelease \/ newest[m] \in ToSet(releases[m])
  /\ published \in [Mods -> Nat] /\ behind \in BOOLEAN /\ pushes \in 0 .. MaxPushes
WalkType ==
  /\ stage \in {"off", "walk", "ask", "spacedock", "github", "archive", "write", "push"}
  /\ work \in Seq(Mods \X Download)
GitHubType ==
  /\ DOMAIN repos \subseteq Mods /\ repos \in [DOMAIN repos -> Sources]
  /\ DOMAIN cache \subseteq Sources /\ cache \in [DOMAIN cache -> Nat]
  /\ requests \in Seq(Request)
  /\ \A i, j \in DOMAIN requests : requests[i].source = requests[j].source => i = j
QueriesType ==
  /\ DOMAIN sdIds \subseteq Mods /\ sdIds \in [DOMAIN sdIds -> Sources]
  /\ iaIds = NoQuery \/ iaIds \subseteq Mods \X Sources
ResultType ==
  /\ counts \in [Mods -> Nat] /\ answered \subseteq Mods \X Sources
  /\ failed \in BOOLEAN /\ faults \in 0 .. MaxFaults

LEMMA TypeParts ==
  TypeOK <=> MetaType /\ WalkType /\ GitHubType /\ QueriesType /\ ResultType
BY DEF TypeOK, MetaType, WalkType, GitHubType, QueriesType, ResultType, Request

LEMMA TypePartsNext ==
  TypeOK' <=> MetaType' /\ WalkType' /\ GitHubType' /\ QueriesType' /\ ResultType'
BY DEF TypeOK, MetaType, WalkType, GitHubType, QueriesType, ResultType, Request

LEMMA FaultsType ==
  ASSUME TypeOK, Works \/ Fails
  PROVE  failed' \in BOOLEAN /\ faults' \in 0 .. MaxFaults
<1>1. MaxFaults \in Nat
  BY CounterAssumption
<1>2. failed \in BOOLEAN /\ faults \in 0 .. MaxFaults
  BY DEF TypeOK
<1>3. failed' \in BOOLEAN
  BY <1>2 DEF Works, Fails
<1>4. faults' \in 0 .. MaxFaults
  BY <1>1, <1>2 DEF Works, Fails
<1> QED
  BY <1>3, <1>4

\* The parts of Origin.
GitHubOrigin ==
  /\ \A m \in DOMAIN repos : repos[m] \in From(m, {"github"})
  /\ \A q \in ToSet(requests) : q.source \in From(q.mod, {"github"})
QueriesOrigin ==
  /\ \A m \in DOMAIN sdIds : sdIds[m] \in From(m, {"spacedock"})
  /\ iaIds # NoQuery =>
       /\ \A p \in iaIds : p[2] \in From(p[1], {"archive"})
       /\ \A p, q \in iaIds : p[1] = q[1] => p = q
AnsweredOrigin ==
  \A p \in answered : p[2] \in From(p[1], Counted)

LEMMA OriginParts ==
  /\ Origin <=> GitHubOrigin /\ QueriesOrigin /\ AnsweredOrigin
  /\ Origin' <=> GitHubOrigin' /\ QueriesOrigin' /\ AnsweredOrigin'
BY DEF Origin, GitHubOrigin, QueriesOrigin, AnsweredOrigin

\* What a step that leaves the releases alone keeps of each part.
LEMMA KeepParts ==
  ASSUME Typed, UNCHANGED newest
  PROVE  /\ UNCHANGED <<meta, file>> => MetaType'
         /\ UNCHANGED github => GitHubType' /\ GitHubOrigin'
         /\ UNCHANGED <<sdIds, iaIds>> => QueriesType' /\ QueriesOrigin'
         /\ UNCHANGED answered => AnsweredOrigin'
         /\ UNCHANGED <<counts, answered>> /\ (Works \/ Fails) => ResultType'
<1>1. /\ MetaType /\ GitHubType /\ QueriesType /\ ResultType
      /\ GitHubOrigin /\ QueriesOrigin /\ AnsweredOrigin
  BY TypeParts, OriginParts DEF Typed
<1>2. \A m, hosts : From(m, hosts)' = From(m, hosts)
  BY MetaSame
<1>3. UNCHANGED <<meta, file>> => MetaType'
  BY <1>1 DEF MetaType, meta, file, ToSet
<1>4. UNCHANGED github => GitHubType' /\ GitHubOrigin'
  BY <1>1, <1>2 DEF GitHubType, GitHubOrigin, github, ToSet
<1>5. UNCHANGED <<sdIds, iaIds>> => QueriesType' /\ QueriesOrigin'
  BY <1>1, <1>2 DEF QueriesType, QueriesOrigin
<1>6. UNCHANGED answered => AnsweredOrigin'
  BY <1>1, <1>2 DEF AnsweredOrigin
<1>7. UNCHANGED <<counts, answered>> /\ (Works \/ Fails) => ResultType'
  BY <1>1, FaultsType DEF ResultType, Typed
<1> QED
  BY <1>3, <1>4, <1>5, <1>6, <1>7

\* What a walk finds depends on CKAN-meta alone.
LEMMA LatestSame ==
  ASSUME UNCHANGED releases
  PROVE  \A m : Latest(m)' = Latest(m)
BY DEF Latest, Walked, Raises, Newest, ToSet

LEMMA PositionWalk ==
  ASSUME Typed, UNCHANGED meta, stage = "walk", stage' \in {"walk", "ask"},
         \A p \in ToSet(work)' : p \in ToSet(work)
  PROVE  Position'
<1>1. newest = [m \in Mods |-> Latest(m)]
  BY DEF Typed, Position
<1>2. newest' = [m \in Mods |-> Latest(m)']
  BY <1>1, LatestSame DEF meta
<1>3. \A p \in ToSet(work)' : p[2] \in Of(p[1])'
  BY MetaSame DEF Typed, Position, meta
<1> QED
  BY <1>2, <1>3 DEF Position, Asking, BeforeArchive, BeforeGitHub, BeforeSpaceDock

LEMMA TypedLookGitHub ==
  ASSUME Typed, LookGitHub
  PROVE  Typed'
<1> DEFINE m == CurrentMod
           s == Source
<1>1. /\ Look("github")
      /\ repos' = Put(repos, m, s)
      /\ requests' = IF Unasked(s) THEN Append(requests, [source |-> s, mod |-> m]) ELSE requests
      /\ stage' \in {"ask", "walk"}
      /\ UNCHANGED <<cache, sdIds, iaIds, counts, answered>> /\ Works
  BY DEF LookGitHub
<1>2. /\ m \in Mods /\ s \in Sources /\ s \in From(m, {"github"})
      /\ work' \in Seq(Mods \X Download) /\ stage = "walk"
      /\ \A p \in ToSet(work)' : p \in ToSet(work)
      /\ UNCHANGED <<meta, file>>
  BY <1>1, LookIs
<1> HIDE DEF m, s
<1>3. TypeOK /\ GitHubType /\ GitHubOrigin
  BY TypeParts, OriginParts DEF Typed
<1>4. UNCHANGED newest /\ UNCHANGED meta
  BY <1>2 DEF meta
<1>5. /\ DOMAIN repos' = DOMAIN repos \cup {m} /\ repos'[m] = s
      /\ \A k \in DOMAIN repos : k # m => repos'[k] = repos[k]
  <2>1. repos' = Put(repos, m, s)
    BY <1>1
  <2> QED
    BY <2>1 DEF Put
<1>6. DOMAIN repos' \subseteq Mods /\ repos' \in [DOMAIN repos' -> Sources]
  <2>1. \A k \in DOMAIN repos' : repos'[k] \in Sources
    BY <1>2, <1>3, <1>5 DEF GitHubType
  <2>2. repos' = [k \in DOMAIN repos' |-> repos'[k]]
    BY <1>1 DEF Put
  <2> QED
    BY <1>2, <1>3, <1>5, <2>1, <2>2 DEF GitHubType
<1>7. \A k \in DOMAIN repos' : repos'[k] \in From(k, {"github"})
  BY <1>2, <1>3, <1>5 DEF GitHubOrigin
<1> DEFINE q == [source |-> s, mod |-> m]
<1>8. /\ requests' \in Seq(Request)
      /\ \A i, j \in DOMAIN requests' : requests'[i].source = requests'[j].source => i = j
      /\ \A p \in ToSet(requests)' : p \in ToSet(requests) \/ p = q
  <2>1. CASE ~Unasked(s)
    <3>1. requests' = requests /\ ToSet(requests)' = ToSet(requests)
      BY <1>1, <2>1 DEF ToSet
    <3> QED
      BY <1>3, <3>1 DEF GitHubType
  <2>2. CASE Unasked(s)
    <3>1. q \in Request /\ requests' = Append(requests, q) /\ q.source = s
      BY <1>1, <1>2, <2>2 DEF Request
    <3>2. \A p \in ToSet(requests) : p.source # s
      BY <2>2 DEF Unasked
    <3>3. requests \in Seq(Request) /\ \A i \in DOMAIN requests : requests[i] \in ToSet(requests)
      BY <1>3, RequestsAre
    <3> HIDE DEF q
    <3>4. /\ Len(requests) \in Nat /\ DOMAIN requests = 1 .. Len(requests)
          /\ requests' \in Seq(Request) /\ DOMAIN requests' = 1 .. (Len(requests) + 1)
          /\ \A i \in 1 .. Len(requests) : requests'[i] = requests[i]
          /\ requests'[Len(requests) + 1] = q
      BY <3>1, <3>3
    <3>5. \A i, j \in DOMAIN requests' : requests'[i].source = requests'[j].source => i = j
      BY <1>3, <3>1, <3>2, <3>3, <3>4 DEF GitHubType
    <3>6. \A p \in ToSet(requests)' : p \in ToSet(requests) \/ p = q
      BY <3>3, <3>4 DEF ToSet
    <3> QED
      BY <3>4, <3>5, <3>6
  <2> QED
    BY <2>1, <2>2
<1>9. GitHubType'
  BY <1>1, <1>3, <1>6, <1>8 DEF GitHubType
<1>10. GitHubOrigin'
  <2>1. \A k, hosts : From(k, hosts)' = From(k, hosts)
    BY <1>4, MetaSame
  <2>2. \A p \in ToSet(requests)' : p.source \in From(p.mod, {"github"})
    BY <1>2, <1>3, <1>8 DEF GitHubOrigin
  <2> QED
    BY <1>7, <2>1, <2>2 DEF GitHubOrigin
<1>11. WalkType'
  BY <1>1, <1>2 DEF WalkType
<1>12. MetaType' /\ QueriesType' /\ QueriesOrigin' /\ AnsweredOrigin' /\ ResultType'
  BY <1>1, <1>2, <1>4, KeepParts
<1>13. Position'
  BY <1>1, <1>2, <1>4, PositionWalk
<1> QED
  BY <1>9, <1>10, <1>11, <1>12, <1>13, TypePartsNext, OriginParts DEF Typed

LEMMA AnswerableIs ==
  Answerable \subseteq DOMAIN requests
BY DEF Answerable, Queried

LEMMA AskIs ==
  ASSUME AskGitHub
  PROVE  \E ok \in SUBSET DOMAIN requests :
           /\ GraphResult(ok) /\ ok \subseteq Answerable
           /\ (Works /\ ok = Answerable) \/ Fails
<1>1. CASE \E ok \in {Answerable} : GraphResult(ok) /\ Works
  BY <1>1, AnswerableIs
<1>2. CASE \E ok \in SUBSET Answerable : GraphResult(ok) /\ Fails
  BY <1>2, AnswerableIs
<1> QED
  BY <1>1, <1>2 DEF AskGitHub

\* GitHub's answers, whichever they are.
LEMMA TypedResult ==
  ASSUME Typed, UNCHANGED newest, NEW ok \in SUBSET DOMAIN requests, GraphResult(ok)
  PROVE  /\ GitHubType' /\ GitHubOrigin' /\ AnsweredOrigin'
         /\ counts' \in [Mods -> Nat] /\ answered' \subseteq Mods \X Sources
<1>1. TypeOK /\ GitHubType /\ GitHubOrigin /\ AnsweredOrigin
  BY TypeParts, OriginParts DEF Typed
<1>2. /\ cache' = Cached(ok) /\ answered' = Heard(ok)
      /\ DOMAIN repos' = DOMAIN repos \ DoneIn(Cached(ok))
      /\ \A m \in DOMAIN repos' : repos'[m] = repos[m]
      /\ requests' \in Seq(Request)
      /\ \A i, j \in DOMAIN requests' : requests'[i].source = requests'[j].source => i = j
      /\ \A q \in ToSet(requests)' : q \in ToSet(requests)
      /\ counts' \in [Mods -> Nat]
  BY <1>1, ResultIs
<1>3. \A m, hosts : From(m, hosts)' = From(m, hosts)
  BY MetaSame
<1>4. DOMAIN cache' \subseteq Sources /\ cache' \in [DOMAIN cache' -> Nat]
  <2>1. /\ DOMAIN Cached(ok) \subseteq Sources
        /\ \A u \in DOMAIN Cached(ok) : Cached(ok)[u] \in Nat
    BY <1>1, CachedIs
  <2>2. cache' = [u \in DOMAIN cache' |-> cache'[u]]
    BY <1>2 DEF Cached
  <2> QED
    BY <1>2, <2>1, <2>2
<1>5. DOMAIN repos' \subseteq Mods /\ repos' \in [DOMAIN repos' -> Sources]
  <2>1. repos' = [m \in DOMAIN repos' |-> repos'[m]]
    BY DEF GraphResult, Remaining, Restrict
  <2> QED
    BY <1>1, <1>2, <2>1 DEF GitHubType
<1>6. GitHubType'
  BY <1>2, <1>4, <1>5 DEF GitHubType
<1>7. GitHubOrigin'
  BY <1>1, <1>2, <1>3 DEF GitHubOrigin
<1>8. Heard(ok) \subseteq Mods \X Sources
  BY <1>1, HeardIs
<1>9. AnsweredOrigin'
  <2>1. ASSUME NEW p \in Heard(ok) PROVE p[2] \in From(p[1], Counted)
    <3>1. p = <<p[1], p[2]>> /\ p[1] \in Mods
      BY <1>8
    <3>2. p \in answered \/ p[2] \in From(p[1], {"github"})
      BY <1>1, <3>1, HeardIs
    <3>3. "github" \in Counted
      BY CountedHosts
    <3> QED
      BY <1>1, <3>1, <3>2, <3>3, FromIs DEF AnsweredOrigin
  <2> QED
    BY <1>2, <1>3, <2>1 DEF AnsweredOrigin
<1> QED
  BY <1>2, <1>6, <1>7, <1>8, <1>9

\* The counts of one host after another.
LEMMA TypedCredit ==
  ASSUME Typed, UNCHANGED newest, Works \/ Fails, NEW got, got \subseteq Mods \X Sources,
         \A p \in got : p[2] \in From(p[1], Counted), Credit(got)
  PROVE  ResultType' /\ AnsweredOrigin'
<1>1. TypeOK /\ ResultType /\ AnsweredOrigin
  BY TypeParts, OriginParts DEF Typed
<1>2. counts' \in [Mods -> Nat] /\ answered' = answered \cup got
  BY <1>1, CreditIs
<1>3. ResultType'
  BY <1>1, <1>2, FaultsType DEF ResultType
<1>4. AnsweredOrigin'
  BY <1>1, <1>2, MetaSame DEF AnsweredOrigin
<1> QED
  BY <1>3, <1>4

\* Where the run is in the steps after the walk.
LEMMA PositionOn ==
  ASSUME Typed, UNCHANGED meta, UNCHANGED work,
         stage \in {"spacedock", "github", "archive", "write", "push"},
         stage' = "off" \/ stage' \in {"github", "archive", "write", "push"},
         stage' \in {"off", "push"} => DOMAIN repos' = {}
  PROVE  Position' /\ WalkType'
<1>1. newest' = [m \in Mods |-> Latest(m)']
  BY LatestSame DEF Typed, Position, meta
<1>2. work' = <<>>
  BY DEF Typed, Position
<1>3. ToSet(work)' = {}
  BY <1>2 DEF ToSet
<1>4. WalkType'
  BY <1>2 DEF WalkType
<1>5. due' # Off => \A m \in Mods : Plain(m)'
  BY MetaSame DEF Typed, Position, meta
<1> QED
  BY <1>1, <1>2, <1>3, <1>4, <1>5
  DEF Position, Asking, BeforeArchive, BeforeGitHub, BeforeSpaceDock

LEMMA TypedAskFull ==
  ASSUME Typed, AskFull \/ AskRaises
  PROVE  Typed'
<1>1. /\ stage = "ask" /\ stage' = "walk"
      /\ UNCHANGED <<meta, work, sdIds, iaIds, file>>
  BY DEF AskFull, AskRaises
<1>2. UNCHANGED newest /\ UNCHANGED meta
  BY <1>1 DEF meta
<1>3. TypeOK /\ GitHubType /\ GitHubOrigin /\ AnsweredOrigin /\ ResultType
  BY TypeParts, OriginParts DEF Typed
<1>4. Position' /\ WalkType'
  <2>1. newest' = [m \in Mods |-> Latest(m)']
    BY <1>1, <1>2, LatestSame DEF Typed, Position, meta
  <2>2. \A p \in ToSet(work)' : p[2] \in Of(p[1])'
    BY <1>1, <1>2, MetaSame DEF Typed, Position, ToSet
  <2>3. WalkType'
    BY <1>1, TypeParts DEF WalkType, Typed
  <2> QED
    BY <1>1, <2>1, <2>2, <2>3 DEF Position, Asking, BeforeArchive, BeforeGitHub, BeforeSpaceDock
<1>5. MetaType' /\ QueriesType' /\ QueriesOrigin'
  BY <1>1, <1>2, KeepParts
<1>6. CASE AskFull
  <2>1. PICK ok \in SUBSET DOMAIN requests : GraphResult(ok) /\ (Works \/ Fails)
    BY <1>6, AskIs DEF AskFull
  <2>2. ResultType'
    BY <1>2, <1>3, <2>1, TypedResult, FaultsType DEF ResultType
  <2>3. GitHubType' /\ GitHubOrigin' /\ AnsweredOrigin'
    BY <1>2, <2>1, TypedResult
  <2> QED
    BY <1>4, <1>5, <2>2, <2>3, TypePartsNext, OriginParts DEF Typed
<1>7. CASE AskRaises
  <2>1. PICK ok \in SUBSET Answerable :
          cache' = Cached(ok) /\ answered' = Heard(ok)
    BY <1>7 DEF AskRaises
  <2>2. ok \in SUBSET DOMAIN requests
    BY <2>1, AnswerableIs
  <2>3. Fails /\ UNCHANGED <<repos, requests, counts>>
    BY <1>7 DEF AskRaises
  <2>4. DOMAIN cache' \subseteq Sources /\ cache' \in [DOMAIN cache' -> Nat]
    <3>1. /\ DOMAIN Cached(ok) \subseteq Sources
          /\ \A u \in DOMAIN Cached(ok) : Cached(ok)[u] \in Nat
      BY <1>3, <2>2, CachedIs
    <3>2. cache' = [u \in DOMAIN cache' |-> cache'[u]]
      BY <2>1 DEF Cached
    <3> QED
      BY <2>1, <3>1, <3>2
  <2>5. GitHubType'
    BY <1>3, <2>3, <2>4 DEF GitHubType
  <2>6. GitHubOrigin'
    BY <1>2, <1>3, <2>3, MetaSame DEF GitHubOrigin, ToSet
  <2>7. Heard(ok) \subseteq Mods \X Sources
    BY <1>3, <2>2, HeardIs
  <2>8. AnsweredOrigin'
    <3>1. ASSUME NEW p \in Heard(ok) PROVE p[2] \in From(p[1], Counted)
      <4>1. p = <<p[1], p[2]>> /\ p[1] \in Mods
        BY <2>7
      <4>2. p \in answered \/ p[2] \in From(p[1], {"github"})
        BY <1>3, <2>2, <4>1, HeardIs
      <4> QED
        BY <1>3, <4>1, <4>2, CountedHosts, FromIs DEF AnsweredOrigin
    <3> QED
      BY <1>2, <2>1, <3>1, MetaSame DEF AnsweredOrigin
  <2>9. ResultType'
    BY <1>3, <2>1, <2>3, <2>7, FaultsType DEF ResultType
  <2> QED
    BY <1>4, <1>5, <2>5, <2>6, <2>8, <2>9, TypePartsNext, OriginParts DEF Typed
<1> QED
  BY <1>6, <1>7

LEMMA TypedLookSpaceDock ==
  ASSUME Typed, LookSpaceDock
  PROVE  Typed'
<1> DEFINE m == CurrentMod
           s == Source
<1>1. /\ Look("spacedock") /\ stage' = "walk" /\ sdIds' = Put(sdIds, m, s)
      /\ UNCHANGED github /\ UNCHANGED <<iaIds, counts, answered>> /\ Works
  BY DEF LookSpaceDock
<1>2. /\ m \in Mods /\ s \in Sources /\ s \in From(m, {"spacedock"})
      /\ work' \in Seq(Mods \X Download) /\ stage = "walk"
      /\ \A p \in ToSet(work)' : p \in ToSet(work)
      /\ UNCHANGED <<meta, file>>
  BY <1>1, LookIs
<1> HIDE DEF m, s
<1>3. UNCHANGED newest /\ UNCHANGED meta
  BY <1>2 DEF meta
<1>4. QueriesType /\ QueriesOrigin
  BY TypeParts, OriginParts DEF Typed
<1>5. /\ DOMAIN sdIds' = DOMAIN sdIds \cup {m} /\ sdIds'[m] = s
      /\ \A k \in DOMAIN sdIds : k # m => sdIds'[k] = sdIds[k]
      /\ sdIds' = [k \in DOMAIN sdIds' |-> sdIds'[k]]
  <2>1. sdIds' = Put(sdIds, m, s)
    BY <1>1
  <2> QED
    BY <2>1 DEF Put
<1>6. QueriesType'
  <2>1. \A k \in DOMAIN sdIds' : sdIds'[k] \in Sources
    BY <1>2, <1>4, <1>5 DEF QueriesType
  <2>2. DOMAIN sdIds' \subseteq Mods /\ sdIds' \in [DOMAIN sdIds' -> Sources]
    BY <1>2, <1>4, <1>5, <2>1 DEF QueriesType
  <2> QED
    BY <1>1, <1>4, <2>2 DEF QueriesType
<1>7. QueriesOrigin'
  <2>1. \A k \in DOMAIN sdIds' : sdIds'[k] \in From(k, {"spacedock"})
    BY <1>2, <1>4, <1>5 DEF QueriesOrigin
  <2>2. \A k, hosts : From(k, hosts)' = From(k, hosts)
    BY <1>3, MetaSame
  <2> QED
    BY <1>1, <1>4, <2>1, <2>2 DEF QueriesOrigin
<1>8. WalkType'
  BY <1>1, <1>2 DEF WalkType
<1>9. MetaType' /\ GitHubType' /\ GitHubOrigin' /\ AnsweredOrigin' /\ ResultType'
  BY <1>1, <1>2, <1>3, KeepParts
<1>10. Position'
  BY <1>1, <1>2, <1>3, PositionWalk
<1> QED
  BY <1>6, <1>7, <1>8, <1>9, <1>10, TypePartsNext, OriginParts DEF Typed

LEMMA LivingIs ==
  \A ids : Living(ids) \subseteq ids
BY DEF Living

\* What archive.org is asked for, and what it answers.
LEMMA AskArchiveIs ==
  ASSUME NEW ids, AskArchive(ids)
  PROVE  \E got \in SUBSET Living(ids) :
           Credit(got) /\ ((Works /\ got = Living(ids)) \/ Fails)
BY DEF AskArchive

LEMMA IdsFrom ==
  ASSUME Typed, NEW ids, NEW host \in Counted, ids \subseteq Mods \X Sources,
         \A p \in ids : p[2] \in From(p[1], {host})
  PROVE  \A got \in SUBSET Living(ids) :
           got \subseteq Mods \X Sources /\ \A p \in got : p[2] \in From(p[1], Counted)
<1>1. \A p \in ids : p[1] \in Mods
  OBVIOUS
<1>2. \A p \in ids : p[2] \in From(p[1], Counted)
  BY <1>1, FromIs DEF Typed
<1> QED
  BY <1>2, LivingIs

NextIds == {p \in iaIds : p[1] # CurrentMod} \cup {<<CurrentMod, Source>>}

LEMMA NextIdsAre ==
  ASSUME Typed, Look("archive"), iaIds # NoQuery
  PROVE  /\ NextIds \subseteq Mods \X Sources
         /\ \A p \in NextIds : p[2] \in From(p[1], {"archive"})
         /\ \A p, q \in NextIds : p[1] = q[1] => p = q
         /\ \A m, s : <<m, s>> \in NextIds <=>
              \/ m = CurrentMod /\ s = Source
              \/ m # CurrentMod /\ <<m, s>> \in iaIds
<1>1. CurrentMod \in Mods /\ Source \in Sources /\ Source \in From(CurrentMod, {"archive"})
  BY LookIs
<1>2. QueriesType /\ QueriesOrigin
  BY TypeParts, OriginParts DEF Typed
<1>3. /\ iaIds \subseteq Mods \X Sources
      /\ \A p \in iaIds : p[2] \in From(p[1], {"archive"})
      /\ \A p, q \in iaIds : p[1] = q[1] => p = q
  BY <1>2 DEF QueriesType, QueriesOrigin
<1> QED
  BY <1>1, <1>3 DEF NextIds

LEMMA LookArchiveIs ==
  ASSUME LookArchive
  PROVE  /\ Look("archive") /\ iaIds # NoQuery /\ stage' = "walk"
         /\ UNCHANGED github /\ UNCHANGED sdIds
         /\ \/ AskArchive(NextIds) /\ iaIds' = {}
            \/ iaIds' = NoQuery /\ Fails /\ UNCHANGED <<counts, answered>>
            \/ iaIds' = NextIds /\ (Works \/ Fails) /\ UNCHANGED <<counts, answered>>
BY DEF LookArchive, NextIds

LEMMA TypedLookArchive ==
  ASSUME Typed, LookArchive
  PROVE  Typed'
<1>1. /\ Look("archive") /\ iaIds # NoQuery /\ stage' = "walk"
      /\ UNCHANGED github /\ UNCHANGED sdIds
      /\ \/ AskArchive(NextIds) /\ iaIds' = {}
         \/ iaIds' = NoQuery /\ Fails /\ UNCHANGED <<counts, answered>>
         \/ iaIds' = NextIds /\ (Works \/ Fails) /\ UNCHANGED <<counts, answered>>
  BY LookArchiveIs
<1>2. /\ work' \in Seq(Mods \X Download) /\ stage = "walk"
      /\ \A p \in ToSet(work)' : p \in ToSet(work)
      /\ UNCHANGED <<meta, file>>
  BY <1>1, LookIs
<1>3. UNCHANGED newest /\ UNCHANGED meta
  BY <1>2 DEF meta
<1>4. QueriesType /\ QueriesOrigin /\ TypeOK
  BY TypeParts, OriginParts DEF Typed
<1>5. /\ NextIds \subseteq Mods \X Sources
      /\ \A p \in NextIds : p[2] \in From(p[1], {"archive"})
      /\ \A p, q \in NextIds : p[1] = q[1] => p = q
  BY <1>1, NextIdsAre
<1>6. iaIds' \in {{}, NoQuery, NextIds}
  BY <1>1
<1>7. QueriesType'
  BY <1>1, <1>4, <1>5, <1>6 DEF QueriesType
<1>8. QueriesOrigin'
  <2>1. \A k, hosts : From(k, hosts)' = From(k, hosts)
    BY <1>3, MetaSame
  <2>2. \A m \in DOMAIN sdIds' : sdIds'[m] \in From(m, {"spacedock"})'
    BY <1>1, <1>4, <2>1 DEF QueriesOrigin
  <2>3. iaIds' # NoQuery =>
          /\ \A p \in iaIds' : p[2] \in From(p[1], {"archive"})
          /\ \A p, q \in iaIds' : p[1] = q[1] => p = q
    BY <1>5, <1>6
  <2> QED
    BY <2>1, <2>2, <2>3 DEF QueriesOrigin, NoQuery
<1>9. ResultType' /\ AnsweredOrigin'
  <2>1. CASE AskArchive(NextIds)
    <3>1. PICK got \in SUBSET Living(NextIds) : Credit(got) /\ (Works \/ Fails)
      BY <2>1, AskArchiveIs
    <3>2. got \subseteq Mods \X Sources /\ \A p \in got : p[2] \in From(p[1], Counted)
      BY <1>5, <3>1, IdsFrom, CountedHosts
    <3> QED
      BY <1>3, <3>1, <3>2, TypedCredit
  <2>2. CASE UNCHANGED <<counts, answered>> /\ (Works \/ Fails)
    BY <1>3, <2>2, KeepParts
  <2> QED
    BY <1>1, <2>1, <2>2
<1>10. WalkType'
  BY <1>1, <1>2 DEF WalkType
<1>11. MetaType' /\ GitHubType' /\ GitHubOrigin'
  BY <1>1, <1>2, <1>3, KeepParts
<1>12. Position'
  BY <1>1, <1>2, <1>3, PositionWalk
<1> QED
  BY <1>7, <1>8, <1>9, <1>10, <1>11, <1>12, TypePartsNext, OriginParts DEF Typed

LEMMA LookSourceForgeIs ==
  ASSUME Typed, LookSourceForge
  PROVE  /\ Look("sourceforge") /\ stage' = "walk" /\ UNCHANGED queries
         /\ \/ /\ Credit(Living({<<CurrentMod, Source>>})) /\ Works
            \/ UNCHANGED <<counts, answered>> /\ Fails
         /\ {<<CurrentMod, Source>>} \subseteq Mods \X Sources
         /\ \A p \in {<<CurrentMod, Source>>} : p[2] \in From(p[1], {"sourceforge"})
BY LookIs DEF LookSourceForge

LEMMA TypedLookSourceForge ==
  ASSUME Typed, LookSourceForge
  PROVE  Typed'
<1>1. /\ Look("sourceforge") /\ stage' = "walk" /\ UNCHANGED queries
      /\ \/ /\ Credit(Living({<<CurrentMod, Source>>})) /\ Works
         \/ UNCHANGED <<counts, answered>> /\ Fails
      /\ {<<CurrentMod, Source>>} \subseteq Mods \X Sources
      /\ \A p \in {<<CurrentMod, Source>>} : p[2] \in From(p[1], {"sourceforge"})
  BY LookSourceForgeIs
<1>2. /\ work' \in Seq(Mods \X Download) /\ stage = "walk"
      /\ \A p \in ToSet(work)' : p \in ToSet(work)
      /\ UNCHANGED <<meta, file>>
  BY <1>1, LookIs
<1>3. /\ UNCHANGED newest /\ UNCHANGED meta
      /\ UNCHANGED github /\ UNCHANGED <<sdIds, iaIds>>
  BY <1>1, <1>2 DEF meta, queries
<1>4. ResultType' /\ AnsweredOrigin'
  <2>1. CASE Credit(Living({<<CurrentMod, Source>>})) /\ Works
    <3> DEFINE got == Living({<<CurrentMod, Source>>})
    <3>1. got \subseteq Mods \X Sources /\ \A p \in got : p[2] \in From(p[1], Counted)
      BY <1>1, IdsFrom, CountedHosts
    <3> HIDE DEF got
    <3> QED
      BY <1>3, <2>1, <3>1, TypedCredit DEF got
  <2>2. CASE UNCHANGED <<counts, answered>> /\ Fails
    BY <1>3, <2>2, KeepParts
  <2> QED
    BY <1>1, <2>1, <2>2
<1>5. WalkType'
  BY <1>1, <1>2 DEF WalkType
<1>6. MetaType' /\ GitHubType' /\ GitHubOrigin' /\ QueriesType' /\ QueriesOrigin'
  BY <1>2, <1>3, KeepParts
<1>7. Position'
  BY <1>1, <1>2, <1>3, PositionWalk
<1> QED
  BY <1>4, <1>5, <1>6, <1>7, TypePartsNext, OriginParts DEF Typed

LEMMA LookElsewhereIs ==
  ASSUME LookElsewhere
  PROVE  /\ stage' = "walk" /\ UNCHANGED queries /\ UNCHANGED <<counts, answered>> /\ Works
         /\ \E h : Look(h) /\ ((h = "archive" /\ iaIds = NoQuery) \/ h \notin Counted)
BY DEF LookElsewhere

LEMMA TypedLookElsewhere ==
  ASSUME Typed, LookElsewhere
  PROVE  Typed'
<1>1. stage' = "walk" /\ UNCHANGED queries /\ UNCHANGED <<counts, answered>> /\ Works
  BY LookElsewhereIs
<1>2. PICK h : Look(h)
  BY LookElsewhereIs
<1>3. /\ work' \in Seq(Mods \X Download) /\ stage = "walk"
      /\ \A p \in ToSet(work)' : p \in ToSet(work)
      /\ UNCHANGED <<meta, file>>
  BY <1>2, LookIs
<1>4. /\ UNCHANGED newest /\ UNCHANGED meta
      /\ UNCHANGED github /\ UNCHANGED <<sdIds, iaIds>> /\ UNCHANGED answered
  BY <1>1, <1>3 DEF meta, queries
<1>5. WalkType'
  BY <1>1, <1>3 DEF WalkType
<1>6. /\ MetaType' /\ GitHubType' /\ GitHubOrigin' /\ QueriesType' /\ QueriesOrigin'
      /\ ResultType' /\ AnsweredOrigin'
  BY <1>1, <1>3, <1>4, KeepParts
<1>7. Position'
  BY <1>1, <1>3, <1>4, PositionWalk
<1> QED
  BY <1>5, <1>6, <1>7, TypePartsNext, OriginParts DEF Typed

LEMMA AllSourcesNat ==
  ASSUME TypeOK, NEW m \in Mods
  PROVE  AllSources(m) \in SUBSET Sources /\ IsFiniteSet(AllSources(m)) /\ SumOf(AllSources(m)) \in Nat
<1>1. From(m, Counted) \in SUBSET Sources /\ IsFiniteSet(From(m, Counted))
  BY FromIs
<1>2. AllSources(m) \in SUBSET Sources /\ IsFiniteSet(AllSources(m))
  BY <1>1, FS_Subset DEF AllSources
<1> QED
  BY <1>2, SumNat

LEMMA TypedWalkEnds ==
  ASSUME Typed, WalkEnds
  PROVE  Typed'
<1>1. /\ stage = "walk" /\ work = <<>> /\ stage' = "spacedock"
      /\ due' = IF \A m \in Mods : Plain(m) THEN [m \in Mods |-> SumOf(AllSources(m))] ELSE Off
      /\ UNCHANGED <<releases, newest, work, queries, counts, answered, file>> /\ Works
  BY DEF WalkEnds
<1>2. TypeOK /\ MetaType /\ WalkType
  BY TypeParts DEF Typed
<1>3. due' = Off \/ due' \in [Mods -> Nat]
  BY <1>1, <1>2, AllSourcesNat
<1>4. MetaType'
  BY <1>1, <1>2, <1>3 DEF MetaType, file, ToSet
<1>5. WalkType'
  BY <1>1, <1>2 DEF WalkType
<1>6. UNCHANGED newest /\ UNCHANGED github /\ UNCHANGED <<sdIds, iaIds>> /\ UNCHANGED answered
  BY <1>1 DEF queries
<1>7. /\ GitHubType' /\ GitHubOrigin' /\ QueriesType' /\ QueriesOrigin'
      /\ ResultType' /\ AnsweredOrigin'
  BY <1>1, <1>6, KeepParts
<1>8. Position'
  <2>1. newest' = [m \in Mods |-> Latest(m)']
    BY <1>1, LatestSame DEF Typed, Position
  <2>2. work' = <<>> /\ ToSet(work)' = {}
    BY <1>1 DEF ToSet
  <2>3. due' # Off => \A m \in Mods : Plain(m)'
    BY <1>1, <1>6, MetaSame
  <2> QED
    BY <1>1, <2>1, <2>2, <2>3
    DEF Position, Asking, BeforeArchive, BeforeGitHub, BeforeSpaceDock
<1> QED
  BY <1>4, <1>5, <1>7, <1>8, TypePartsNext, OriginParts DEF Typed

LEMMA SpaceDockIdsAre ==
  ASSUME Typed
  PROVE  /\ SpaceDockIds \subseteq Mods \X Sources
         /\ \A p \in SpaceDockIds : p[2] \in From(p[1], {"spacedock"})
         /\ \A m, s : <<m, s>> \in SpaceDockIds <=> m \in DOMAIN sdIds /\ sdIds[m] = s
<1>1. QueriesType /\ QueriesOrigin
  BY TypeParts, OriginParts DEF Typed
<1> QED
  BY <1>1 DEF QueriesType, QueriesOrigin, SpaceDockIds

LEMMA LastSpaceDockIs ==
  ASSUME LastSpaceDock
  PROVE  /\ stage = "spacedock" /\ stage' = "github"
         /\ UNCHANGED <<meta, work, queries, file>>
         /\ \E got \in SUBSET Living(SpaceDockIds) :
              Credit(got) /\ ((Works /\ got = Living(SpaceDockIds)) \/ Fails)
BY DEF LastSpaceDock

LEMMA TypedLastSpaceDock ==
  ASSUME Typed, LastSpaceDock
  PROVE  Typed'
<1>1. stage = "spacedock" /\ stage' = "github" /\ UNCHANGED <<meta, work, queries, file>>
  BY LastSpaceDockIs
<1>2. PICK got \in SUBSET Living(SpaceDockIds) : Credit(got) /\ (Works \/ Fails)
  BY LastSpaceDockIs
<1>3. /\ UNCHANGED newest /\ UNCHANGED meta /\ UNCHANGED <<meta, file>>
      /\ UNCHANGED github /\ UNCHANGED <<sdIds, iaIds>>
  BY <1>1 DEF meta, queries
<1>4. got \subseteq Mods \X Sources /\ \A p \in got : p[2] \in From(p[1], Counted)
  BY <1>2, SpaceDockIdsAre, IdsFrom, CountedHosts
<1>5. ResultType' /\ AnsweredOrigin'
  BY <1>2, <1>3, <1>4, TypedCredit
<1>6. MetaType' /\ GitHubType' /\ GitHubOrigin' /\ QueriesType' /\ QueriesOrigin'
  BY <1>3, KeepParts
<1>7. Position' /\ WalkType'
  BY <1>1, <1>3, PositionOn
<1> QED
  BY <1>5, <1>6, <1>7, TypePartsNext, OriginParts DEF Typed

LEMMA LastGitHubIs ==
  ASSUME LastGitHub
  PROVE  /\ stage = "github" /\ stage' = "archive"
         /\ UNCHANGED <<meta, work, sdIds, iaIds, file>>
         /\ \/ DOMAIN repos = {} /\ UNCHANGED github /\ UNCHANGED <<counts, answered>> /\ Works
            \/ AskGitHub
BY DEF LastGitHub, GraphEmpty

LEMMA TypedLastGitHub ==
  ASSUME Typed, LastGitHub
  PROVE  Typed'
<1>1. stage = "github" /\ stage' = "archive" /\ UNCHANGED <<meta, work, sdIds, iaIds, file>>
  BY LastGitHubIs
<1>2. /\ UNCHANGED newest /\ UNCHANGED meta /\ UNCHANGED <<meta, file>>
      /\ UNCHANGED <<sdIds, iaIds>>
  BY <1>1 DEF meta
<1>3. MetaType' /\ QueriesType' /\ QueriesOrigin'
  BY <1>2, KeepParts
<1>4. Position' /\ WalkType'
  BY <1>1, <1>2, PositionOn
<1>5. GitHubType' /\ GitHubOrigin' /\ ResultType' /\ AnsweredOrigin'
  <2>1. CASE UNCHANGED github /\ UNCHANGED <<counts, answered>> /\ Works
    <3>1. UNCHANGED answered
      BY <2>1
    <3> QED
      BY <1>2, <2>1, <3>1, KeepParts
  <2>2. CASE AskGitHub
    <3>1. PICK ok \in SUBSET DOMAIN requests : GraphResult(ok) /\ (Works \/ Fails)
      BY <2>2, AskIs
    <3>2. TypeOK
      BY DEF Typed
    <3>3. ResultType'
      BY <1>2, <3>1, <3>2, TypedResult, FaultsType DEF ResultType
    <3> QED
      BY <1>2, <3>1, <3>3, TypedResult
  <2> QED
    BY <2>1, <2>2, LastGitHubIs
<1> QED
  BY <1>3, <1>4, <1>5, TypePartsNext, OriginParts DEF Typed

LEMMA LastArchiveIs ==
  ASSUME LastArchive
  PROVE  /\ stage = "archive" /\ stage' = "write"
         /\ UNCHANGED <<meta, work, queries, file>>
         /\ \/ iaIds \in {NoQuery, {}} /\ UNCHANGED <<counts, answered>> /\ Works
            \/ iaIds # NoQuery /\ AskArchive(iaIds)
BY DEF LastArchive

LEMMA TypedLastArchive ==
  ASSUME Typed, LastArchive
  PROVE  Typed'
<1>1. stage = "archive" /\ stage' = "write" /\ UNCHANGED <<meta, work, queries, file>>
  BY LastArchiveIs
<1>2. /\ UNCHANGED newest /\ UNCHANGED meta /\ UNCHANGED <<meta, file>>
      /\ UNCHANGED github /\ UNCHANGED <<sdIds, iaIds>>
  BY <1>1 DEF meta, queries
<1>3. MetaType' /\ GitHubType' /\ GitHubOrigin' /\ QueriesType' /\ QueriesOrigin'
  BY <1>2, KeepParts
<1>4. Position' /\ WalkType'
  BY <1>1, <1>2, PositionOn
<1>5. ResultType' /\ AnsweredOrigin'
  <2>1. CASE UNCHANGED <<counts, answered>> /\ Works
    BY <1>2, <2>1, KeepParts
  <2>2. CASE iaIds # NoQuery /\ AskArchive(iaIds)
    <3>1. PICK got \in SUBSET Living(iaIds) : Credit(got) /\ (Works \/ Fails)
      BY <2>2, AskArchiveIs
    <3>2. QueriesType /\ QueriesOrigin
      BY TypeParts, OriginParts DEF Typed
    <3>3. iaIds \subseteq Mods \X Sources /\ \A p \in iaIds : p[2] \in From(p[1], {"archive"})
      BY <2>2, <3>2 DEF QueriesType, QueriesOrigin
    <3>4. got \subseteq Mods \X Sources /\ \A p \in got : p[2] \in From(p[1], Counted)
      BY <3>1, <3>3, IdsFrom, CountedHosts
    <3> QED
      BY <1>2, <3>1, <3>4, TypedCredit
  <2> QED
    BY <2>1, <2>2, LastArchiveIs
<1> QED
  BY <1>3, <1>4, <1>5, TypePartsNext, OriginParts DEF Typed

LEMMA NewQueriesAre ==
  ASSUME NewQueries
  PROVE  /\ GitHubType' /\ GitHubOrigin' /\ QueriesType' /\ QueriesOrigin'
         /\ DOMAIN repos' = {} /\ DOMAIN sdIds' = {} /\ DOMAIN cache' = {}
         /\ ToSet(requests)' = {} /\ iaIds' = {}
<1>1. repos' = <<>> /\ requests' = <<>> /\ cache' = <<>> /\ sdIds' = <<>> /\ iaIds' = {}
  BY DEF NewQueries, None
<1>2. \A X : <<>> \in [DOMAIN <<>> -> X] /\ DOMAIN <<>> = {}
  OBVIOUS
<1>3. GitHubType'
  BY <1>1, <1>2 DEF GitHubType
<1>4. ToSet(requests)' = {}
  BY <1>1 DEF ToSet
<1>5. GitHubOrigin'
  BY <1>1, <1>2, <1>4 DEF GitHubOrigin
<1>6. QueriesType' /\ QueriesOrigin'
  BY <1>1, <1>2 DEF QueriesType, QueriesOrigin
<1> QED
  BY <1>1, <1>2, <1>3, <1>4, <1>5, <1>6

LEMMA TypedRunRaises ==
  ASSUME Typed, RunRaises \/ WalkRaises
  PROVE  Typed'
<1>1. /\ stage # "off" /\ stage' = "off" /\ work' = <<>> /\ (Works \/ Fails) /\ NewQueries
      /\ UNCHANGED <<meta, counts, answered, file>>
  BY DEF RunRaises, WalkRaises
<1>2. /\ UNCHANGED newest /\ UNCHANGED meta /\ UNCHANGED <<meta, file>> /\ UNCHANGED answered
      /\ UNCHANGED <<counts, answered>>
  BY <1>1 DEF meta
<1>3. MetaType' /\ AnsweredOrigin' /\ ResultType'
  BY <1>1, <1>2, KeepParts
<1>4. GitHubType' /\ GitHubOrigin' /\ QueriesType' /\ QueriesOrigin' /\ DOMAIN repos' = {}
  BY <1>1, NewQueriesAre
<1>5. WalkType'
  BY <1>1 DEF WalkType
<1>6. ToSet(work)' = {}
  BY <1>1 DEF ToSet
<1>7. Position'
  BY <1>1, <1>4, <1>6 DEF Position, Asking, BeforeArchive, BeforeGitHub, BeforeSpaceDock
<1> QED
  BY <1>3, <1>4, <1>5, <1>7, TypePartsNext, OriginParts DEF Typed

LEMMA TypedWrite ==
  ASSUME Typed, Write
  PROVE  Typed'
<1>1. /\ stage = "write" /\ behind' = FALSE /\ stage' \in {"push", "off"} /\ NewQueries
      /\ UNCHANGED <<meta, work, counts, answered, published, pushes>> /\ Works
  BY DEF Write
<1>2. /\ UNCHANGED newest /\ UNCHANGED meta /\ UNCHANGED answered /\ UNCHANGED work
      /\ UNCHANGED <<counts, answered>>
  BY <1>1 DEF meta
<1>3. AnsweredOrigin' /\ ResultType'
  BY <1>1, <1>2, KeepParts
<1>4. MetaType'
  BY <1>1, TypeParts DEF MetaType, Typed, meta, ToSet
<1>5. GitHubType' /\ GitHubOrigin' /\ QueriesType' /\ QueriesOrigin' /\ DOMAIN repos' = {}
  BY <1>1, NewQueriesAre
<1>6. Position' /\ WalkType'
  BY <1>1, <1>2, <1>5, PositionOn
<1> QED
  BY <1>3, <1>4, <1>5, <1>6, TypePartsNext, OriginParts DEF Typed

LEMMA TypedPush ==
  ASSUME Typed, Push
  PROVE  Typed'
<1>1. /\ stage = "push" /\ published' = IF behind THEN published ELSE counts
      /\ stage' = "off"
      /\ UNCHANGED <<meta, work, queries, counts, answered, behind, pushes>> /\ Works
  BY DEF Push
<1>2. /\ UNCHANGED newest /\ UNCHANGED meta /\ UNCHANGED answered /\ UNCHANGED work
      /\ UNCHANGED github /\ UNCHANGED <<sdIds, iaIds>> /\ UNCHANGED <<counts, answered>>
      /\ UNCHANGED repos
  BY <1>1 DEF meta, queries, github
<1>3. /\ AnsweredOrigin' /\ ResultType'
      /\ GitHubType' /\ GitHubOrigin' /\ QueriesType' /\ QueriesOrigin'
  BY <1>1, <1>2, KeepParts
<1>4. MetaType /\ ResultType
  BY TypeParts DEF Typed
<1>5. MetaType'
  BY <1>1, <1>4 DEF MetaType, ResultType, meta, ToSet
<1>6. DOMAIN repos' = {}
  BY <1>1, <1>2 DEF Typed, Position, Asking, BeforeArchive, BeforeGitHub, BeforeSpaceDock
<1>7. Position' /\ WalkType'
  BY <1>1, <1>2, <1>6, PositionOn
<1> QED
  BY <1>3, <1>5, <1>7, TypePartsNext, OriginParts DEF Typed

LEMMA TypedOthersPush ==
  ASSUME Typed, OthersPush
  PROVE  Typed'
<1>1. /\ pushes < MaxPushes /\ pushes' = pushes + 1 /\ behind' = TRUE
      /\ UNCHANGED <<meta, stage, work, queries, counts, answered, published>> /\ Works
  BY DEF OthersPush
<1>2. /\ UNCHANGED newest /\ UNCHANGED meta /\ UNCHANGED answered /\ UNCHANGED work
      /\ UNCHANGED github /\ UNCHANGED <<sdIds, iaIds>> /\ UNCHANGED <<counts, answered>>
      /\ UNCHANGED repos /\ UNCHANGED stage
  BY <1>1 DEF meta, queries, github
<1>3. /\ AnsweredOrigin' /\ ResultType'
      /\ GitHubType' /\ GitHubOrigin' /\ QueriesType' /\ QueriesOrigin'
  BY <1>1, <1>2, KeepParts
<1>4. MetaType /\ WalkType
  BY TypeParts DEF Typed
<1>5. pushes' \in 0 .. MaxPushes
  <2>1. MaxPushes \in Nat
    BY CounterAssumption
  <2>2. pushes \in 0 .. MaxPushes
    BY <1>4 DEF MetaType
  <2> QED
    BY <1>1, <2>1, <2>2
<1>6. behind' \in BOOLEAN
  BY <1>1
<1>7. MetaType'
  BY <1>1, <1>4, <1>5, <1>6 DEF MetaType, meta, ToSet
<1>8. WalkType'
  BY <1>2, <1>4 DEF WalkType
<1>9. Position'
  <2>1. \A m : Of(m)' = Of(m) /\ Plain(m)' = Plain(m)
    BY <1>2, MetaSame
  <2>2. ToSet(work)' = ToSet(work) /\ (Asking' <=> Asking)
    BY <1>2 DEF Asking, BeforeArchive, BeforeGitHub, BeforeSpaceDock, ToSet
  <2>3. UNCHANGED <<newest, releases, due, stage, work, repos>>
    BY <1>2 DEF meta
  <2>4. Position
    BY DEF Typed
  <2> QED
    BY <2>1, <2>2, <2>3, <2>4, LatestSame DEF Position
<1> QED
  BY <1>3, <1>7, <1>8, <1>9, TypePartsNext, OriginParts DEF Typed

-----------------------------------------------------------------------------
(* The beginning of a run.                                                 *)

LEMMA StartIs ==
  ASSUME TypeOK, Start
  PROVE  /\ stage = "off" /\ stage' = "walk" /\ NewQueries
         /\ newest' = [m \in Mods |-> Latest(m)]
         /\ \A m \in Mods : newest'[m] = NoRelease \/ newest'[m] \in ToSet(releases[m])
         /\ \A m \in Mods : Downloads(newest'[m]) \in Seq(Download)
         /\ work' = Flat([m \in Mods |-> [i \in DOMAIN Downloads(newest'[m]) |->
                                            <<m, Downloads(newest'[m])[i]>>]])
         /\ counts' = [m \in Mods |-> 0] /\ answered' = {} /\ failed' = FALSE /\ behind' = FALSE
         /\ UNCHANGED <<releases, due, published, pushes, faults>>
<1>1. /\ newest' = [m \in Mods |-> Latest(m)]
      /\ work' = Flat([m \in Mods |-> [i \in DOMAIN Downloads(newest'[m]) |->
                                            <<m, Downloads(newest'[m])[i]>>]])
  BY DEF Start, Flat
<1>2. ASSUME NEW m \in Mods
      PROVE  /\ newest'[m] = NoRelease \/ newest'[m] \in ToSet(releases[m])
             /\ Downloads(newest'[m]) \in Seq(Download)
  <2>1. releases[m] \in Seq(Release)
    BY DEF TypeOK
  <2>2. ChosenOf(releases[m], Newest(m))
    BY <2>1, HighestIsMaximal DEF Newest
  <2>3. newest'[m] = NoRelease \/ newest'[m] \in ToSet(releases[m])
    BY <1>1, <2>2 DEF Latest, ChosenOf, Stable, ToSet
  <2>4. newest'[m] = NoRelease \/ newest'[m] \in Release
    BY <2>1, <2>3 DEF ToSet
  <2>5. Downloads(newest'[m]) \in Seq(Download)
    BY <2>4 DEF Downloads, Release
  <2> QED
    BY <2>3, <2>5
<1> QED
  BY <1>1, <1>2 DEF Start

LEMMA StartWork ==
  ASSUME TypeOK, Start
  PROVE  /\ work' \in Seq(Mods \X Download)
         /\ \A p : p \in ToSet(work)' <=> p[1] \in Mods /\ p[2] \in Of(p[1])' /\ p = <<p[1], p[2]>>
         /\ \A p : Twice(work', p) => p[1] \in Mods /\ Twice(Downloads(newest'[p[1]]), p[2])
<1> DEFINE ds(m) == Downloads(newest'[m])
           X == Mods \X Download
           found == [m \in Mods |-> [i \in DOMAIN ds(m) |-> <<m, ds(m)[i]>>]]
<1>1. work' = Flat(found) /\ \A m \in Mods : ds(m) \in Seq(Download)
  BY StartIs
<1>2. \A m \in Mods : Of(m)' = ToSet(ds(m))
  BY DEF Of, Downloads, ToSet
<1> HIDE DEF ds
<1>3. \A m \in Mods : /\ DOMAIN ds(m) = 1 .. Len(ds(m)) /\ Len(ds(m)) \in Nat
                      /\ \A i \in DOMAIN ds(m) : ds(m)[i] \in Download
  BY <1>1
<1>4. \A m \in Mods : /\ DOMAIN found[m] = DOMAIN ds(m)
                      /\ \A i \in DOMAIN found[m] : found[m][i] = <<m, ds(m)[i]>>
                      /\ found[m] \in Seq(X)
  <2> SUFFICES ASSUME NEW m \in Mods
               PROVE  /\ DOMAIN found[m] = DOMAIN ds(m)
                      /\ \A i \in DOMAIN found[m] : found[m][i] = <<m, ds(m)[i]>>
                      /\ found[m] \in Seq(X)
    OBVIOUS
  <2>1. found[m] = [i \in DOMAIN ds(m) |-> <<m, ds(m)[i]>>]
    OBVIOUS
  <2>2. \A i \in DOMAIN ds(m) : <<m, ds(m)[i]>> \in X
    BY <1>3
  <2> HIDE DEF found, X
  <2>3. DOMAIN ds(m) = 1 .. Len(ds(m)) /\ Len(ds(m)) \in Nat
    BY <1>3
  <2>4. [i \in 1 .. Len(ds(m)) |-> <<m, ds(m)[i]>>] \in Seq(X)
    <3> DEFINE n == Len(ds(m))
    <3>1. [i \in 1 .. n |-> <<m, ds(m)[i]>>] \in [1 .. n -> X]
      <4> HIDE DEF n
      <4>1. \A i \in 1 .. n : <<m, ds(m)[i]>> \in X
        BY <2>2, <2>3 DEF n
      <4> QED
        BY <4>1
    <3>2. n \in Nat
      BY <2>3
    <3> HIDE DEF n
    <3> QED
      BY <3>1, <3>2, SeqDef DEF n
  <2> QED
    BY <2>1, <2>3, <2>4
<1>5. DOMAIN found = Mods
  OBVIOUS
<1> HIDE DEF found
<1>6. found \in Seq(Seq(X))
  <2>1. found = [m \in 1 .. Cardinality(Mods) |-> found[m]]
    BY <1>5, ModsAre DEF found
  <2>2. \A m \in 1 .. Cardinality(Mods) : found[m] \in Seq(X)
    BY <1>4, ModsAre
  <2> HIDE DEF X
  <2>3. [m \in 1 .. Cardinality(Mods) |-> found[m]] \in Seq(Seq(X))
    BY <2>2, ModsAre
  <2> QED
    BY <2>1, <2>3
<1>7. \A m \in Mods : \A p : p \in ToSet(found[m]) <=>
        p[1] = m /\ p[2] \in Of(m)' /\ p = <<p[1], p[2]>>
  <2> SUFFICES ASSUME NEW m \in Mods, NEW p
               PROVE  p \in ToSet(found[m]) <=>
                        p[1] = m /\ p[2] \in Of(m)' /\ p = <<p[1], p[2]>>
    OBVIOUS
  <2>1. p \in ToSet(found[m]) <=> \E i \in DOMAIN ds(m) : p = <<m, ds(m)[i]>>
    BY <1>4 DEF ToSet
  <2>2. p[2] \in Of(m)' <=> \E i \in DOMAIN ds(m) : p[2] = ds(m)[i]
    BY <1>2 DEF ToSet
  <2> QED
    BY <2>1, <2>2
<1>8. \A a, b \in DOMAIN found : a # b => ToSet(found[a]) \cap ToSet(found[b]) = {}
  BY <1>5, <1>7
<1>9. /\ Flat(found) \in Seq(X)
      /\ ToSet(Flat(found)) = UNION {ToSet(found[m]) : m \in DOMAIN found}
      /\ \A p : Twice(Flat(found), p) => \E m \in DOMAIN found : Twice(found[m], p)
  <2> HIDE DEF X
  <2> QED
    BY <1>6, <1>8, FlatIs
<1>10. \A p : p \in ToSet(work)' <=> p[1] \in Mods /\ p[2] \in Of(p[1])' /\ p = <<p[1], p[2]>>
  <2>1. ToSet(work)' = UNION {ToSet(found[m]) : m \in Mods}
    BY <1>1, <1>5, <1>9 DEF ToSet
  <2> QED
    BY <1>7, <2>1
<1>11. ASSUME NEW p, Twice(work', p) PROVE p[1] \in Mods /\ Twice(ds(p[1]), p[2])
  <2>1. PICK m \in Mods : Twice(found[m], p)
    BY <1>1, <1>5, <1>9, <1>11
  <2>2. PICK i, j \in DOMAIN found[m] : i # j /\ found[m][i] = p /\ found[m][j] = p
    BY <2>1 DEF Twice
  <2>3. p = <<m, ds(m)[i]>> /\ p = <<m, ds(m)[j]>> /\ {i, j} \subseteq DOMAIN ds(m)
    BY <1>4, <2>2
  <2>4. p[1] = m /\ p[2] = ds(m)[i] /\ p[2] = ds(m)[j]
    BY <2>3
  <2> QED
    BY <2>2, <2>3, <2>4 DEF Twice
<1> QED
  BY <1>1, <1>9, <1>10, <1>11 DEF ds

LEMMA TypedStart ==
  ASSUME Typed, Start
  PROVE  Typed'
<1>1. TypeOK /\ MetaType /\ ResultType
  BY TypeParts DEF Typed
<1>2. /\ stage = "off" /\ stage' = "walk" /\ NewQueries
      /\ newest' = [m \in Mods |-> Latest(m)]
      /\ \A m \in Mods : newest'[m] = NoRelease \/ newest'[m] \in ToSet(releases[m])
      /\ counts' = [m \in Mods |-> 0] /\ answered' = {} /\ failed' = FALSE /\ behind' = FALSE
      /\ UNCHANGED <<releases, due, published, pushes, faults>>
  BY <1>1, StartIs
<1>3. MetaType'
  <2>1. DOMAIN newest' = Mods
    BY <1>2
  <2>2. behind' \in BOOLEAN
    BY <1>2
  <2>3. \A m \in Mods : newest'[m] = NoRelease \/ newest'[m] \in ToSet(releases[m])'
    BY <1>2 DEF ToSet
  <2> QED
    BY <1>1, <1>2, <2>1, <2>2, <2>3 DEF MetaType
<1>4. WalkType'
  BY <1>1, <1>2, StartWork DEF WalkType
<1>5. GitHubType' /\ GitHubOrigin' /\ QueriesType' /\ QueriesOrigin'
  BY <1>2, NewQueriesAre
<1>6. AnsweredOrigin'
  BY <1>2 DEF AnsweredOrigin
<1>7. ResultType'
  <2>1. failed' \in BOOLEAN
    BY <1>2
  <2>2. counts' \in [Mods -> Nat]
    BY <1>2
  <2> QED
    BY <1>1, <1>2, <2>1, <2>2 DEF ResultType
<1>8. Position'
  <2>1. newest' = [m \in Mods |-> Latest(m)']
    BY <1>2, LatestSame
  <2>2. \A p \in ToSet(work)' : p[2] \in Of(p[1])'
    BY <1>1, StartWork
  <2> QED
    BY <1>2, <2>1, <2>2 DEF Position, Asking, BeforeArchive, BeforeGitHub, BeforeSpaceDock
<1> QED
  BY <1>3, <1>4, <1>5, <1>6, <1>7, <1>8, TypePartsNext, OriginParts DEF Typed

LEMMA TypedInit ==
  ASSUME Init
  PROVE  Typed
<1>1. /\ releases \in Worlds /\ newest = [m \in Mods |-> NoRelease] /\ due = Off
      /\ stage = "off" /\ work = <<>>
      /\ repos = <<>> /\ requests = <<>> /\ cache = <<>> /\ sdIds = <<>> /\ iaIds = {}
      /\ counts = [m \in Mods |-> 0] /\ published = [m \in Mods |-> 0]
      /\ answered = {} /\ failed = FALSE /\ behind = FALSE /\ faults = 0 /\ pushes = 0
  BY DEF Init, None
<1>2. MetaType
  <2>1. releases \in [Mods -> Seq(Release)]
    BY <1>1, CounterAssumption
  <2>2. MaxPushes \in Nat
    BY CounterAssumption
  <2>3. behind \in BOOLEAN
    BY <1>1
  <2>4. pushes \in 0 .. MaxPushes
    BY <1>1, <2>2
  <2> QED
    BY <1>1, <2>1, <2>3, <2>4 DEF MetaType
<1>3. WalkType
  BY <1>1 DEF WalkType
<1>4. ToSet(requests) = {} /\ ToSet(work) = {}
  BY <1>1 DEF ToSet
<1>5. \A X : <<>> \in [DOMAIN <<>> -> X] /\ DOMAIN <<>> = {}
  OBVIOUS
<1>6. GitHubType
  BY <1>1, <1>5 DEF GitHubType
<1>7. QueriesType
  BY <1>1, <1>5 DEF QueriesType
<1>8. ResultType
  <2>1. MaxFaults \in Nat
    BY CounterAssumption
  <2>2. faults \in 0 .. MaxFaults
    BY <1>1, <2>1
  <2>3. failed \in BOOLEAN
    BY <1>1
  <2> QED
    BY <1>1, <2>2, <2>3 DEF ResultType
<1>9. GitHubOrigin /\ QueriesOrigin /\ AnsweredOrigin
  BY <1>1, <1>4, <1>5 DEF GitHubOrigin, QueriesOrigin, AnsweredOrigin
<1>10. Position
  BY <1>1, <1>4, <1>5 DEF Position, Asking, BeforeArchive, BeforeGitHub, BeforeSpaceDock
<1> QED
  BY <1>2, <1>3, <1>6, <1>7, <1>8, <1>9, <1>10, TypeParts, OriginParts DEF Typed

LEMMA TypedStutter ==
  ASSUME Typed, UNCHANGED vars
  PROVE  Typed'
<1>1. /\ UNCHANGED newest /\ UNCHANGED meta /\ UNCHANGED <<meta, file>>
      /\ UNCHANGED github /\ UNCHANGED <<sdIds, iaIds>> /\ UNCHANGED <<counts, answered>>
      /\ UNCHANGED answered /\ UNCHANGED stage /\ UNCHANGED work /\ UNCHANGED repos /\ Works
  BY DEF vars, meta, file, queries, github, Works
<1>2. /\ MetaType' /\ GitHubType' /\ GitHubOrigin' /\ QueriesType' /\ QueriesOrigin'
      /\ AnsweredOrigin' /\ ResultType'
  BY <1>1, KeepParts
<1>3. WalkType'
  BY <1>1, TypeParts DEF WalkType, Typed
<1>4. Position'
  <2>1. \A m : Of(m)' = Of(m) /\ Plain(m)' = Plain(m)
    BY <1>1, MetaSame
  <2>2. ToSet(work)' = ToSet(work) /\ (Asking' <=> Asking)
    BY <1>1 DEF Asking, BeforeArchive, BeforeGitHub, BeforeSpaceDock, ToSet
  <2>3. UNCHANGED <<newest, releases, due, stage, work, repos>>
    BY <1>1 DEF meta
  <2>4. Position
    BY DEF Typed
  <2> QED
    BY <2>1, <2>2, <2>3, <2>4, LatestSame DEF Position
<1> QED
  BY <1>2, <1>3, <1>4, TypePartsNext, OriginParts DEF Typed

LEMMA TypedStep ==
  ASSUME Typed, [Next]_vars
  PROVE  Typed'
<1>1. CASE Run
  BY <1>1, TypedLookGitHub, TypedAskFull, TypedLookSpaceDock, TypedLookArchive,
     TypedLookSourceForge, TypedLookElsewhere, TypedWalkEnds, TypedLastSpaceDock,
     TypedLastGitHub, TypedLastArchive, TypedRunRaises, TypedWrite, TypedPush DEF Run
<1>2. CASE Start \/ AskRaises \/ RunRaises \/ OthersPush
  BY <1>2, TypedStart, TypedAskFull, TypedRunRaises, TypedOthersPush
<1>3. CASE UNCHANGED vars
  BY <1>3, TypedStutter
<1> QED
  BY <1>1, <1>2, <1>3 DEF Next

-----------------------------------------------------------------------------
(* The way of a plain mod's downloads.                                     *)

\* What the walk still has after one step.
LEMMA LookWork ==
  ASSUME Typed, NEW host, Look(host)
  PROVE  \A m, h, s : /\ InWork(m, h, s)' => InWork(m, h, s)
                      /\ InWork(m, h, s) => \/ InWork(m, h, s)'
                                            \/ m = CurrentMod /\ h = host /\ s = Source
<1>1. /\ Head(work) = <<CurrentMod, ItemOf(host, Source)>>
      /\ ToSet(work) = {Head(work)} \cup ToSet(work)'
  BY LookIs
<1>2. \A m, h, s : InWork(m, h, s)' <=> <<m, ItemOf(h, s)>> \in ToSet(work)'
  BY DEF InWork, ItemOf
<1>3. \A m, h, s : InWork(m, h, s) <=> <<m, ItemOf(h, s)>> \in ToSet(work)
  BY DEF InWork, ItemOf
<1>4. \A m, h, s : <<m, ItemOf(h, s)>> = <<CurrentMod, ItemOf(host, Source)>> =>
        m = CurrentMod /\ h = host /\ s = Source
  BY DEF ItemOf
<1> QED
  BY <1>1, <1>2, <1>3, <1>4

LEMMA SameWork ==
  ASSUME UNCHANGED work
  PROVE  \A m, h, s : InWork(m, h, s)' <=> InWork(m, h, s)
BY DEF InWork, ToSet

LEMMA NoWork ==
  ASSUME work = <<>>
  PROVE  \A m, h, s : ~InWork(m, h, s)
BY DEF InWork, ToSet

LEMMA NoWorkNext ==
  ASSUME work' = <<>>
  PROVE  \A m, h, s : ~InWork(m, h, s)'
BY DEF InWork, ToSet

Single(m) ==
  \A i, j \in DOMAIN work :
    /\ work[i] = work[j] /\ work[i][1] = m
    /\ work[i][2].host \in {"github", "archive", "sourceforge"}
    => i = j

LEMMA SingleStep ==
  ASSUME Typed, NEW m \in Mods, Single(m),
         UNCHANGED work \/ work' = <<>> \/ \E host : Look(host)
  PROVE  Single(m)'
<1>1. CASE UNCHANGED work
  BY <1>1 DEF Single
<1>2. CASE work' = <<>>
  BY <1>2 DEF Single
<1>3. CASE \E host : Look(host)
  <2>1. PICK host : Look(host)
    BY <1>3
  <2>2. /\ \A i \in DOMAIN work' : i + 1 \in DOMAIN work /\ work'[i] = work[i + 1]
        /\ work' \in Seq(Mods \X Download)
    BY <2>1, LookIs
  <2>3. \A i \in DOMAIN work' : i \in Nat
    BY <2>2
  <2> QED
    BY <2>2, <2>3 DEF Single
<1> QED
  BY <1>1, <1>2, <1>3

\* What is looked at now does not come again.
LEMMA HeadOnce ==
  ASSUME Typed, NEW m \in Mods, m = CurrentMod, Plain(m), Single(m),
         NEW host \in {"github", "archive", "sourceforge"}, Look(host)
  PROVE  \A t : ~InWork(m, host, t)'
<1>1. /\ m \in Mods /\ Source \in From(m, {host})
      /\ Head(work) = <<m, ItemOf(host, Source)>>
      /\ \A i \in DOMAIN work' : i + 1 \in DOMAIN work /\ work'[i] = work[i + 1]
      /\ 1 \in DOMAIN work /\ work[1] = Head(work)
      /\ work' \in Seq(Mods \X Download)
  BY LookIs
<1> SUFFICES ASSUME NEW t, InWork(m, host, t)' PROVE FALSE
  OBVIOUS
<1>2. InWork(m, host, t)
  BY LookWork
<1>3. t \in From(m, {host}) /\ host \in Counted /\ TypeOK
  BY <1>2, InWorkIs DEF Counted, Typed
<1>4. t = Source
  BY <1>1, <1>3, PlainIs
<1>5. PICK i \in DOMAIN work' : work'[i] = <<m, ItemOf(host, t)>>
  BY DEF InWork, ItemOf, ToSet
<1>6. i + 1 \in DOMAIN work /\ work[i + 1] = work[1] /\ i + 1 # 1
  BY <1>1, <1>4, <1>5
<1>7. work[1][1] = m /\ work[1][2].host = host
  BY <1>1 DEF ItemOf
<1> QED
  BY <1>1, <1>6, <1>7 DEF Single

LEMMA SumOne ==
  ASSUME NEW s \in Sources
  PROVE  SumOf({s}) = Count[s]
<1>1. {} \in SUBSET Sources /\ IsFiniteSet({}) /\ s \in Sources \ {}
  BY FS_EmptySet
<1>2. SumOf({} \cup {s}) = SumOf({}) + Count[s]
  BY <1>1, SumAdd
<1>3. {} \cup {s} = {s} /\ Count[s] \in Nat
  BY CounterAssumption
<1> QED
  BY <1>2, <1>3, SumEmpty

LEMMA GotFinite ==
  ASSUME Typed, NEW m \in Mods
  PROVE  Got(m) \in SUBSET Sources /\ IsFiniteSet(Got(m))
<1>1. AnsweredOrigin /\ TypeOK
  BY OriginParts DEF Typed
<1>2. Got(m) \subseteq From(m, Counted)
  BY <1>1 DEF Got, AnsweredOrigin
<1>3. From(m, Counted) \subseteq Sources /\ IsFiniteSet(From(m, Counted))
  BY <1>1, FromIs
<1> QED
  BY <1>2, <1>3, FS_Subset

\* The sum goes on with what is got.
LEMMA GotMore ==
  ASSUME Typed, NEW m \in Mods, counts[m] = SumOf(Got(m)),
         NEW s \in Sources, s \notin Got(m), Got(m)' = Got(m) \cup {s},
         counts'[m] = counts[m] + Count[s]
  PROVE  counts'[m] = SumOf(Got(m)')
<1>1. SumOf(Got(m) \cup {s}) = SumOf(Got(m)) + Count[s]
  BY GotFinite, SumAdd
<1> QED
  BY <1>1

\* The counts of a host that is not GitHub.
LEMMA CreditPlain ==
  ASSUME Typed, UNCHANGED newest, NEW m \in Mods, Plain(m), UNCHANGED repos,
         \A s : InWork(m, "github", s)' <=> InWork(m, "github", s),
         NEW got, NEW host \in Counted \ {"github"}, got \subseteq Mods \X Sources,
         \A p \in got : p[2] \in From(p[1], {host}),
         \A s : <<m, s>> \in got => <<m, s>> \notin answered,
         Credit(got), counts[m] = SumOf(Got(m))
  PROVE  /\ counts'[m] = SumOf(Got(m)')
         /\ answered' = answered \cup got
         /\ \A h \in Counted : h # host => \A s \in From(m, {h}) : <<m, s>> \notin got
<1>1. TypeOK /\ \A h, s : From(m, {h})' = From(m, {h})
  BY MetaSame DEF Typed
<1>2. \A p \in got : p[2] \in From(p[1], Counted)
  BY <1>1, FromIs
<1>3. answered' = answered \cup got /\ counts'[m] = counts[m] + SumOf(GotOf(got, m))
  BY <1>1, <1>2, CreditIs
<1>4. \A h \in Counted : h # host => \A s \in From(m, {h}) : <<m, s>> \notin got
  <2>1. \A s : <<m, s>> \in got => s \in From(m, {host})
    OBVIOUS
  <2> QED
    BY <1>1, <2>1, PlainIs
<1>5. \A s : Waits(m, s)' <=> Waits(m, s)
  BY <1>1 DEF Waits
<1>6. \A s : <<m, s>> \in got => ~Waits(m, s) /\ s \in Sources /\ s \notin Got(m)
  BY <1>4, CountedHosts DEF Waits, Got
<1>7. counts'[m] = SumOf(Got(m)')
  <2>1. CASE \A s : <<m, s>> \notin got
    <3>1. GotOf(got, m) = {}
      BY <2>1 DEF GotOf
    <3>2. Got(m)' = Got(m)
      BY <1>3, <1>5, <2>1 DEF Got
    <3>3. SumOf(Got(m)) \in Nat
      BY GotFinite, SumNat
    <3> QED
      BY <1>3, <3>1, <3>2, <3>3, SumEmpty
  <2>2. CASE \E s : <<m, s>> \in got
    <3>1. PICK s : <<m, s>> \in got
      BY <2>2
    <3>2. \A t : <<m, t>> \in got => t = s
      <4>1. \A t : <<m, t>> \in got => t \in From(m, {host})
        OBVIOUS
      <4> QED
        BY <1>1, <3>1, <4>1, PlainIs
    <3>3. GotOf(got, m) = {s}
      <4>1. \A p \in got : p[1] = m => p = <<m, p[2]>>
        OBVIOUS
      <4>2. \A t : t \in GotOf(got, m) <=> <<m, t>> \in got
        BY <4>1 DEF GotOf
      <4> QED
        BY <3>1, <3>2, <4>2
    <3>4. Got(m)' = Got(m) \cup {s}
      BY <1>3, <1>5, <1>6, <3>1, <3>2 DEF Got
    <3>5. counts'[m] = counts[m] + Count[s]
      BY <1>3, <1>6, <3>1, <3>3, SumOne
    <3> QED
      BY <1>6, <3>1, <3>4, <3>5, GotMore
  <2> QED
    BY <2>1, <2>2
<1> QED
  BY <1>3, <1>4, <1>7

LEMMA SameGot ==
  ASSUME UNCHANGED <<newest, answered, counts>>, NEW m \in Mods,
         \A s \in From(m, {"github"}) :
           <<m, s>> \in answered => (Waits(m, s)' <=> Waits(m, s)),
         counts[m] = SumOf(Got(m))
  PROVE  counts'[m] = SumOf(Got(m)')
<1>1. \A h : From(m, {h})' = From(m, {h})
  BY MetaSame
<1>2. \A s : <<m, s>> \in answered => (Waits(m, s)' <=> Waits(m, s))
  BY <1>1 DEF Waits
<1>3. Got(m)' = Got(m)
  BY <1>2 DEF Got
<1> QED
  BY <1>3

LEMMA KnownAnswers ==
  ASSUME Typed, NEW m \in Mods, Plain(m), Known(m), Asking,
         NEW ok \in SUBSET DOMAIN requests, NEW s \in From(m, {"github"})
  PROVE  /\ s \in DOMAIN Cached(ok) <=> <<m, s>> \in Heard(ok)
         /\ s \in DOMAIN Cached(ok) => Cached(ok)[s] = Count[s]
         /\ \A q \in ToSet(requests) : q.source = s => q.mod \in DOMAIN repos /\ repos[q.mod] = s
<1>1. TypeOK /\ GitHubOrigin
  BY OriginParts DEF Typed
<1>2. \A n \in Mods : \A t, u \in From(n, {"github"}) : t = s => u = s
  BY <1>1, PlainIs
<1>3. /\ s \in DOMAIN cache => cache[s] = Count[s] /\ <<m, s>> \in answered
      /\ <<m, s>> \in answered => s \in DOMAIN cache
      /\ \A q \in ToSet(requests) : q.source = s => q.mod \in DOMAIN repos
  BY DEF Known
<1>4. \A i \in DOMAIN requests :
        /\ requests[i] \in ToSet(requests) /\ requests[i].mod \in Mods
        /\ requests[i].source \in From(requests[i].mod, {"github"})
  BY <1>1, RequestsAre DEF GitHubOrigin
<1>5. \A n \in DOMAIN repos : n \in Mods /\ repos[n] \in From(n, {"github"})
  BY <1>1 DEF GitHubOrigin, TypeOK
<1>6. \A q \in ToSet(requests) : q.source = s => q.mod \in DOMAIN repos /\ repos[q.mod] = s
  <2>1. \A q \in ToSet(requests) : q.mod \in Mods /\ q.source \in From(q.mod, {"github"})
    BY <1>1, RequestsAre DEF GitHubOrigin
  <2> QED
    BY <1>2, <1>3, <1>5, <2>1
<1>7. \A i \in ok : i \in By(ok, s) <=> requests[i].source = s
  <2>1. ASSUME NEW i \in ok, i \in By(ok, s) PROVE requests[i].source = s
    <3>1. requests[i].mod \in DOMAIN repos /\ repos[requests[i].mod] = s
      BY <2>1 DEF By
    <3> QED
      BY <1>2, <1>4, <1>5, <3>1
  <2>2. ASSUME NEW i \in ok, requests[i].source = s PROVE i \in By(ok, s)
    BY <1>4, <1>6, <2>2 DEF By
  <2> QED
    BY <2>1, <2>2
<1>8. By(ok, s) \subseteq ok
  BY DEF By
<1>9. s \in DOMAIN Cached(ok) <=> s \in DOMAIN cache \/ By(ok, s) # {}
  <2>1. s \in Sources
    BY <1>1, FromIs
  <2> QED
    BY <1>1, <2>1, CachedIs
<1>10. <<m, s>> \in Heard(ok) <=> <<m, s>> \in answered \/ \E i \in ok : requests[i].source = s
  BY <1>1, HeardIs
<1>11. s \in DOMAIN Cached(ok) <=> <<m, s>> \in Heard(ok)
  BY <1>3, <1>7, <1>8, <1>9, <1>10
<1>12. ASSUME s \in DOMAIN Cached(ok) PROVE Cached(ok)[s] = Count[s]
  <2>1. CASE By(ok, s) = {}
    BY <1>1, <1>3, <1>12, <2>1, CachedIs
  <2>2. CASE By(ok, s) # {}
    <3>1. PICK i \in By(ok, s) : Cached(ok)[s] = Count[requests[i].source]
      BY <1>1, <1>12, <2>2, CachedIs
    <3> QED
      BY <1>7, <1>8, <3>1
  <2> QED
    BY <2>1, <2>2
<1> QED
  BY <1>6, <1>11, <1>12

\* GitHub answers only for sources of its own.
LEMMA HeardOthers ==
  ASSUME Typed, NEW m \in Mods, Plain(m), NEW ok \in SUBSET DOMAIN requests
  PROVE  /\ \A s : s \notin From(m, {"github"}) => (<<m, s>> \in Heard(ok) <=> <<m, s>> \in answered)
         /\ \A h \in Counted : h # "github" => \A s \in From(m, {h}) :
              <<m, s>> \in Heard(ok) <=> <<m, s>> \in answered
<1>1. TypeOK
  BY DEF Typed
<1>2. \A s : s \notin From(m, {"github"}) => (<<m, s>> \in Heard(ok) <=> <<m, s>> \in answered)
  BY <1>1, HeardIs
<1>3. \A h \in Counted : h # "github" => \A s \in From(m, {h}) : s \notin From(m, {"github"})
  BY <1>1, PlainIs, CountedHosts
<1> QED
  BY <1>2, <1>3

KnownParts(m, s) ==
  /\ s \in DOMAIN cache => cache[s] = Count[s] /\ <<m, s>> \in answered
  /\ Asking /\ <<m, s>> \in answered => s \in DOMAIN cache
  /\ Asking => InWork(m, "github", s) \/ m \in DOMAIN repos \/ <<m, s>> \in answered
  /\ \A q \in ToSet(requests) : q.source = s => q.mod \in DOMAIN repos
  /\ Asking /\ ~BeforeGitHub /\ m \in DOMAIN repos => <<m, s>> \notin answered

LEMMA KnownIs ==
  \A m : /\ Known(m) <=> \A s \in From(m, {"github"}) : KnownParts(m, s)
         /\ Known(m)' <=> \A s \in From(m, {"github"})' : KnownParts(m, s)'
BY DEF Known, KnownParts

LEMMA ResultPlain ==
  ASSUME Typed, NEW m \in Mods, Plain(m), WaitsOnce(m), Known(m), Asking,
         UNCHANGED <<newest, work>>, NEW ok \in SUBSET DOMAIN requests, GraphResult(ok),
         counts[m] = SumOf(Got(m))
  PROVE  Known(m)' /\ counts'[m] = SumOf(Got(m)')
<1>1. TypeOK /\ GitHubOrigin
  BY OriginParts DEF Typed
<1> DEFINE done == DoneIn(Cached(ok))
<1>2. /\ cache' = Cached(ok) /\ answered' = Heard(ok)
      /\ DOMAIN repos' = DOMAIN repos \ done
      /\ \A n \in DOMAIN repos' : repos'[n] = repos[n]
      /\ \A q : q \in ToSet(requests)' <=>
              /\ q \in ToSet(requests)
              /\ \A n \in done : repos[n] # q.source
      /\ counts'[m] = counts[m] + IF m \in done THEN Cached(ok)[repos[m]] ELSE 0
  BY <1>1, ResultIs
<1>3. \A n : n \in done <=> n \in DOMAIN repos /\ repos[n] \in DOMAIN Cached(ok)
  BY DEF DoneIn
<1> HIDE DEF done
<1>4. \A s \in From(m, {"github"}) :
        /\ s \in DOMAIN Cached(ok) <=> <<m, s>> \in Heard(ok)
        /\ s \in DOMAIN Cached(ok) => Cached(ok)[s] = Count[s]
        /\ \A q \in ToSet(requests) : q.source = s => q.mod \in DOMAIN repos /\ repos[q.mod] = s
  BY KnownAnswers
<1>5. \A h : From(m, {h})' = From(m, {h})
  BY MetaSame
<1>6. m \in DOMAIN repos => repos[m] \in From(m, {"github"})
  BY <1>1 DEF GitHubOrigin
<1>7. \A s, t \in From(m, {"github"}) : s = t
  BY <1>1, PlainIs, CountedHosts
<1>8. \A s : InWork(m, "github", s)' <=> InWork(m, "github", s)
  BY SameWork
<1>9. \A s \in From(m, {"github"}) :
        Asking => InWork(m, "github", s) \/ m \in DOMAIN repos \/ <<m, s>> \in answered
  BY DEF Known
<1>10. answered \subseteq Heard(ok)
  BY <1>1, HeardIs
<1>11. ASSUME NEW s \in From(m, {"github"}) PROVE KnownParts(m, s)'
  <2>1. s \in DOMAIN cache' => cache'[s] = Count[s] /\ <<m, s>> \in answered'
    BY <1>2, <1>4
  <2>2. <<m, s>> \in answered' => s \in DOMAIN cache'
    BY <1>2, <1>4
  <2>3. m \in DOMAIN repos' => <<m, s>> \notin answered'
    BY <1>2, <1>3, <1>4, <1>6, <1>7
  <2>4. InWork(m, "github", s)' \/ m \in DOMAIN repos' \/ <<m, s>> \in answered'
    BY <1>2, <1>3, <1>4, <1>6, <1>7, <1>8, <1>9, <1>10
  <2>5. \A q \in ToSet(requests)' : q.source = s => q.mod \in DOMAIN repos'
    <3>1. ASSUME NEW q \in ToSet(requests)', q.source = s PROVE q.mod \in DOMAIN repos'
      <4>1. q \in ToSet(requests) /\ \A n \in done : repos[n] # s
        BY <1>2, <3>1
      <4>2. q.mod \in DOMAIN repos /\ repos[q.mod] = s
        BY <1>4, <3>1, <4>1
      <4> QED
        BY <1>2, <4>1, <4>2
    <3> QED
      BY <3>1
  <2> QED
    BY <2>1, <2>2, <2>3, <2>4, <2>5 DEF KnownParts
<1>12. Known(m)'
  BY <1>5, <1>11, KnownIs
<1>13. counts'[m] = SumOf(Got(m)')
  <2>1. CASE m \in done
    <3> DEFINE s == repos[m]
    <3>1. /\ s \in From(m, {"github"}) /\ m \in DOMAIN repos /\ m \notin DOMAIN repos'
          /\ s \in DOMAIN Cached(ok)
      BY <1>2, <1>3, <1>6, <2>1
    <3> HIDE DEF s
    <3>2. \A t : ~InWork(m, "github", t)'
      BY <1>8, <3>1, InWorkIs DEF WaitsOnce
    <3>3. s \in Sources /\ s \notin Got(m)
      BY <1>1, <3>1, FromIs DEF Got, Waits
    <3>4. \A t : ~Waits(m, t)'
      BY <3>1, <3>2 DEF Waits
    <3>5. \A t \in Sources : t # s => (Waits(m, t) <=> FALSE) /\ (<<m, t>> \in Heard(ok) <=> <<m, t>> \in answered)
      BY <1>7, <3>1, HeardOthers DEF Waits
    <3>6. Got(m)' = Got(m) \cup {s}
      BY <1>2, <1>4, <3>1, <3>3, <3>4, <3>5 DEF Got
    <3>7. counts'[m] = counts[m] + Count[s]
      BY <1>2, <1>4, <2>1, <3>1 DEF s
    <3> QED
      BY <3>3, <3>6, <3>7, GotMore
  <2>2. CASE m \notin done
    <3>1. m \in DOMAIN repos' <=> m \in DOMAIN repos
      BY <1>2, <2>2
    <3>2. \A t : Waits(m, t)' <=> Waits(m, t)
      BY <1>5, <1>8, <3>1 DEF Waits
    <3>3. \A t : ~Waits(m, t) => (<<m, t>> \in Heard(ok) <=> <<m, t>> \in answered)
      BY <1>9, <1>10, HeardOthers DEF Waits
    <3>4. Got(m)' = Got(m)
      BY <1>2, <3>2, <3>3 DEF Got
    <3>5. SumOf(Got(m)) \in Nat
      BY GotFinite, SumNat
    <3> QED
      BY <1>2, <2>2, <3>4, <3>5
  <2> QED
    BY <2>1, <2>2
<1> QED
  BY <1>12, <1>13

\* A query that raises leaves what the ones before it were answered in the cache.
LEMMA RaisesPlain ==
  ASSUME Typed, NEW m \in Mods, Plain(m), Known(m), Asking, BeforeGitHub',
         UNCHANGED <<newest, work, repos, requests, counts>>,
         NEW ok \in SUBSET DOMAIN requests, cache' = Cached(ok), answered' = Heard(ok),
         counts[m] = SumOf(Got(m))
  PROVE  Known(m)' /\ counts'[m] = SumOf(Got(m)')
<1>1. TypeOK
  BY DEF Typed
<1>2. \A s \in From(m, {"github"}) :
        /\ s \in DOMAIN Cached(ok) <=> <<m, s>> \in Heard(ok)
        /\ s \in DOMAIN Cached(ok) => Cached(ok)[s] = Count[s]
        /\ \A q \in ToSet(requests) : q.source = s => q.mod \in DOMAIN repos
  BY KnownAnswers
<1>3. \A h : From(m, {h})' = From(m, {h})
  BY MetaSame
<1>4. \A s : InWork(m, "github", s)' <=> InWork(m, "github", s)
  BY SameWork
<1>5. \A s \in From(m, {"github"}) :
        InWork(m, "github", s) \/ m \in DOMAIN repos \/ <<m, s>> \in answered
  BY DEF Known
<1>6. answered \subseteq Heard(ok)
  BY <1>1, HeardIs
<1>7. ToSet(requests)' = ToSet(requests)
  BY DEF ToSet
<1>8. \A s \in From(m, {"github"}) : KnownParts(m, s)'
  BY <1>2, <1>4, <1>5, <1>6, <1>7 DEF KnownParts
<1>9. \A t : Waits(m, t)' <=> Waits(m, t)
  BY <1>3, <1>4 DEF Waits
<1>10. \A t : ~Waits(m, t) => (<<m, t>> \in Heard(ok) <=> <<m, t>> \in answered)
  BY <1>5, <1>6, HeardOthers DEF Waits
<1>11. Got(m)' = Got(m)
  BY <1>9, <1>10 DEF Got
<1> QED
  BY <1>3, <1>8, <1>11, KnownIs

\* Of the hosts but g nothing new is answered for.
Quiet(m, g) ==
  \A h \in Counted \ {"github"} : h # g =>
    \A s \in From(m, {h}) : <<m, s>> \in answered' => <<m, s>> \in answered

SdWaits(m) ==
  BeforeSpaceDock' /\ m \in DOMAIN sdIds' =>
    \/ BeforeSpaceDock /\ m \in DOMAIN sdIds /\ sdIds'[m] = sdIds[m]
    \/ InWork(m, "spacedock", sdIds'[m])

IaWaits(m) ==
  BeforeArchive' /\ iaIds' # NoQuery =>
    \A s \in Sources : <<m, s>> \in iaIds' =>
      \/ BeforeArchive /\ iaIds # NoQuery /\ <<m, s>> \in iaIds
      \/ InWork(m, "archive", s)

WorkLess(m) == \A h, s : InWork(m, h, s)' => InWork(m, h, s)

LEMMA UnheardStep ==
  ASSUME Typed, Typed', UNCHANGED newest, NEW m \in Mods, Unheard(m),
         NEW g, Quiet(m, g), WorkLess(m), SdWaits(m), IaWaits(m),
         g # "github" => \A s : InWork(m, g, s)' => (<<m, s>> \in answered' => <<m, s>> \in answered),
         g = "spacedock" => ~BeforeSpaceDock',
         g = "archive" => ~BeforeArchive' \/ iaIds' = {}
  PROVE  Unheard(m)'
<1>1. \A h : From(m, {h})' = From(m, {h})
  BY MetaSame
<1>2. \A h \in Counted \ {"github"}, s \in Sources : InWork(m, h, s) => <<m, s>> \notin answered
  BY DEF Unheard
<1>3. ASSUME NEW h \in Counted \ {"github"}, NEW s \in Sources, InWork(m, h, s)'
      PROVE  <<m, s>> \notin answered'
  <2>1. InWork(m, h, s) /\ s \in From(m, {h})
    BY <1>3, InWorkIs DEF WorkLess
  <2>2. <<m, s>> \in answered' => <<m, s>> \in answered
    BY <1>3, <2>1 DEF Quiet
  <2> QED
    BY <1>2, <2>1, <2>2
<1>4. ASSUME BeforeSpaceDock', m \in DOMAIN sdIds' PROVE <<m, sdIds'[m]>> \notin answered'
  <2>1. sdIds'[m] \in From(m, {"spacedock"})
    BY <1>1, <1>4, OriginParts DEF Typed, QueriesOrigin
  <2>2. <<m, sdIds'[m]>> \in answered' => <<m, sdIds'[m]>> \in answered
    BY <1>4, <2>1, CountedHosts DEF Quiet
  <2>3. <<m, sdIds'[m]>> \notin answered
    <3>1. CASE BeforeSpaceDock /\ m \in DOMAIN sdIds /\ sdIds'[m] = sdIds[m]
      BY <3>1 DEF Unheard
    <3>2. CASE InWork(m, "spacedock", sdIds'[m])
      BY <1>2, <3>2, InWorkIs, CountedHosts
    <3> QED
      BY <1>4, <3>1, <3>2 DEF SdWaits
  <2> QED
    BY <2>2, <2>3
<1>5. ASSUME BeforeArchive', iaIds' # NoQuery, NEW s \in Sources, <<m, s>> \in iaIds'
      PROVE  <<m, s>> \notin answered'
  <2>1. s \in From(m, {"archive"})
    <3>1. \A p \in iaIds' : p[2] \in From(p[1], {"archive"})'
      BY <1>5, OriginParts DEF Typed, QueriesOrigin, NoQuery
    <3> QED
      BY <1>1, <1>5, <3>1
  <2>2. <<m, s>> \in answered' => <<m, s>> \in answered
    BY <1>5, <2>1, CountedHosts DEF Quiet
  <2>3. <<m, s>> \notin answered
    <3>1. CASE BeforeArchive /\ iaIds # NoQuery /\ <<m, s>> \in iaIds
      BY <3>1 DEF Unheard
    <3>2. CASE InWork(m, "archive", s)
      BY <1>2, <3>2, InWorkIs, CountedHosts
    <3> QED
      BY <1>5, <3>1, <3>2 DEF IaWaits
  <2> QED
    BY <2>2, <2>3
<1> QED
  BY <1>3, <1>4, <1>5 DEF Unheard, NoQuery

LEMMA WaitsOnceStep ==
  ASSUME Typed, NEW m \in Mods, WaitsOnce(m), WorkLess(m),
         UNCHANGED work \/ work' = <<>> \/ \E host : Look(host),
         m \in DOMAIN repos' => m \in DOMAIN repos \/ \A s : ~InWork(m, "github", s)',
         iaIds' # NoQuery => \A s \in Sources : <<m, s>> \in iaIds' =>
           \/ iaIds # NoQuery /\ <<m, s>> \in iaIds
           \/ \A t : ~InWork(m, "archive", t)'
  PROVE  WaitsOnce(m)'
<1>1. Single(m)
  BY DEF WaitsOnce, Single
<1>2. Single(m)'
  BY <1>1, SingleStep
<1>3. ASSUME m \in DOMAIN repos', NEW s \in Sources PROVE ~InWork(m, "github", s)'
  BY <1>3 DEF WaitsOnce, WorkLess
<1>4. ASSUME iaIds' # NoQuery, NEW s \in Sources, NEW t \in Sources, <<m, s>> \in iaIds'
      PROVE  ~InWork(m, "archive", t)'
  BY <1>4 DEF WaitsOnce, WorkLess
<1> QED
  BY <1>2, <1>3, <1>4 DEF WaitsOnce, Single, NoQuery

\* What GitHub's query knows of a mod stays while others are asked.
LEMMA KnownStep ==
  ASSUME Typed, UNCHANGED newest, NEW m \in Mods, Known(m),
         UNCHANGED <<cache, requests, repos>>,
         \A s \in From(m, {"github"}) :
           /\ <<m, s>> \in answered' <=> <<m, s>> \in answered
           /\ InWork(m, "github", s) => InWork(m, "github", s)',
         Asking' => Asking,
         Asking' /\ ~BeforeGitHub' /\ m \in DOMAIN repos => ~BeforeGitHub
  PROVE  Known(m)'
<1>1. \A h : From(m, {h})' = From(m, {h})
  BY MetaSame
<1>2. ToSet(requests)' = ToSet(requests)
  BY DEF ToSet
<1>3. ASSUME NEW s \in From(m, {"github"}) PROVE KnownParts(m, s)'
  <2>1. KnownParts(m, s)
    BY KnownIs
  <2> QED
    BY <1>2, <1>3, <2>1 DEF KnownParts
<1> QED
  BY <1>1, <1>3, KnownIs

\* A run that has dropped its queries.
LEMMA KnownNot ==
  ASSUME NEW m, ~Asking', DOMAIN cache' = {}, ToSet(requests)' = {}
  PROVE  Known(m)'
BY KnownIs DEF KnownParts

Kept(m) == WaitsOnce(m) /\ Unheard(m) /\ Known(m) /\ Summed(m)

LEMMA StageSets ==
  /\ BeforeSpaceDock <=> stage \in {"walk", "ask", "spacedock"}
  /\ BeforeGitHub <=> stage \in {"walk", "ask", "spacedock", "github"}
  /\ BeforeArchive <=> stage \in {"walk", "ask", "spacedock", "github", "archive"}
  /\ Asking <=> stage \in {"walk", "ask", "spacedock", "github", "archive", "write"}
  /\ BeforeSpaceDock' <=> stage' \in {"walk", "ask", "spacedock"}
  /\ BeforeGitHub' <=> stage' \in {"walk", "ask", "spacedock", "github"}
  /\ BeforeArchive' <=> stage' \in {"walk", "ask", "spacedock", "github", "archive"}
  /\ Asking' <=> stage' \in {"walk", "ask", "spacedock", "github", "archive", "write"}
BY DEF Asking, BeforeArchive, BeforeGitHub, BeforeSpaceDock

LEMMA KeptLookGitHub ==
  ASSUME Typed, Typed', NEW m \in Mods, Plain(m), Kept(m), LookGitHub
  PROVE  Kept(m)'
<1>1. /\ Look("github")
      /\ repos' = Put(repos, CurrentMod, Source)
      /\ requests' = IF Unasked(Source)
                     THEN Append(requests, [source |-> Source, mod |-> CurrentMod]) ELSE requests
      /\ stage' \in {"ask", "walk"}
      /\ UNCHANGED <<cache, sdIds, iaIds, counts, answered>>
  BY DEF LookGitHub
<1>2. /\ CurrentMod \in Mods /\ Source \in Sources /\ Source \in From(CurrentMod, {"github"})
      /\ stage = "walk" /\ UNCHANGED <<meta, file>>
  BY <1>1, LookIs
<1>3. UNCHANGED newest /\ TypeOK /\ \A h : From(m, {h})' = From(m, {h})
  BY <1>2, MetaSame DEF meta, Typed
<1>4. \A n, h, s : /\ InWork(n, h, s)' => InWork(n, h, s)
                   /\ InWork(n, h, s) => \/ InWork(n, h, s)'
                                         \/ n = CurrentMod /\ h = "github" /\ s = Source
  BY <1>1, LookWork
<1>5. WorkLess(m)
  BY <1>4 DEF WorkLess
<1>6. Single(m)
  BY DEF Kept, WaitsOnce, Single
<1>7. m = CurrentMod => \A t : ~InWork(m, "github", t)'
  BY <1>1, <1>6, HeadOnce
<1>8. /\ DOMAIN repos' = DOMAIN repos \cup {CurrentMod}
      /\ BeforeSpaceDock /\ BeforeSpaceDock' /\ BeforeGitHub' /\ BeforeArchive /\ Asking
  BY <1>1, <1>2, StageSets DEF Put
<1>9. WaitsOnce(m)'
  <2>1. \E host : Look(host)
    BY <1>1
  <2>2. m \in DOMAIN repos' => m \in DOMAIN repos \/ \A s : ~InWork(m, "github", s)'
    BY <1>7, <1>8
  <2> QED
    BY <1>1, <1>5, <2>1, <2>2, WaitsOnceStep DEF Kept
<1>10. Unheard(m)'
  <2>1. Quiet(m, "github") /\ SdWaits(m) /\ IaWaits(m)
    BY <1>1, <1>8 DEF Quiet, SdWaits, IaWaits
  <2> QED
    BY <1>3, <1>5, <2>1, UnheardStep DEF Kept
<1>11. Known(m)'
  <2>1. \A q \in ToSet(requests)' : q \in ToSet(requests) \/ q.mod = CurrentMod
    <3>1. CASE requests' = requests
      BY <3>1 DEF ToSet
    <3>2. CASE requests' = Append(requests, [source |-> Source, mod |-> CurrentMod])
      <4> DEFINE r == [source |-> Source, mod |-> CurrentMod]
      <4>1. r.mod = CurrentMod
        OBVIOUS
      <4>2. requests \in Seq(Request) /\ r \in Request
        BY <1>2, <1>3, RequestsAre DEF Request
      <4> HIDE DEF r
      <4>3. \A i \in DOMAIN Append(requests, r) :
              (i \in DOMAIN requests /\ Append(requests, r)[i] = requests[i]) \/ Append(requests, r)[i] = r
        BY <4>2
      <4>4. requests' = Append(requests, r)
        BY <3>2 DEF r
      <4> QED
        BY <4>1, <4>3, <4>4 DEF ToSet
    <3> QED
      BY <1>1, <3>1, <3>2
  <2>2. ASSUME NEW s \in From(m, {"github"}) PROVE KnownParts(m, s)'
    <3>1. KnownParts(m, s)
      BY KnownIs DEF Kept
    <3>2. InWork(m, "github", s)' \/ m \in DOMAIN repos' \/ <<m, s>> \in answered'
      BY <1>1, <1>4, <1>8, <3>1 DEF KnownParts
    <3>3. \A q \in ToSet(requests)' : q.source = s => q.mod \in DOMAIN repos'
      BY <1>8, <2>1, <3>1 DEF KnownParts
    <3> QED
      BY <1>1, <1>8, <3>1, <3>2, <3>3 DEF KnownParts
  <2> QED
    BY <1>3, <2>2, KnownIs
<1>12. Summed(m)'
  <2>1. counts[m] = SumOf(Got(m))
    BY <1>2 DEF Kept, Summed
  <2>2. \A s \in From(m, {"github"}) : Waits(m, s)' <=> Waits(m, s)
    <3>1. ASSUME NEW s \in From(m, {"github"}) PROVE Waits(m, s)' <=> Waits(m, s)
      <4>1. CASE m = CurrentMod
        <5>1. InWork(m, "github", Source)
          BY <1>1, <4>1, LookIs
        <5>2. s = Source
          BY <1>2, <1>3, <4>1, PlainIs, CountedHosts
        <5> QED
          BY <1>3, <1>8, <4>1, <5>1, <5>2 DEF Waits
      <4>2. CASE m # CurrentMod
        BY <1>3, <1>4, <1>8, <4>2 DEF Waits
      <4> QED
        BY <4>1, <4>2
    <3> QED
      BY <3>1
  <2>3. UNCHANGED <<newest, answered, counts>>
    BY <1>1, <1>3
  <2>4. counts'[m] = SumOf(Got(m)')
    BY <2>1, <2>2, <2>3, SameGot
  <2> QED
    BY <2>4 DEF Summed
<1> QED
  BY <1>9, <1>10, <1>11, <1>12 DEF Kept

\* GitHub's answers are no one else's.
LEMMA HeardQuiet ==
  ASSUME Typed, NEW m \in Mods, Plain(m), NEW ok \in SUBSET DOMAIN requests, answered' = Heard(ok)
  PROVE  Quiet(m, "github")
BY HeardOthers DEF Quiet

LEMMA KeptAskFull ==
  ASSUME Typed, Typed', NEW m \in Mods, Plain(m), Kept(m), AskFull \/ AskRaises
  PROVE  Kept(m)'
<1>1. stage = "ask" /\ stage' = "walk" /\ UNCHANGED <<meta, work, sdIds, iaIds, file>>
  BY DEF AskFull, AskRaises
<1>2. UNCHANGED newest /\ UNCHANGED work /\ TypeOK
  BY <1>1 DEF meta, Typed
<1>3. WorkLess(m)
  BY <1>2, SameWork DEF WorkLess
<1>4. /\ BeforeSpaceDock /\ BeforeSpaceDock' /\ BeforeGitHub' /\ BeforeArchive /\ Asking
      /\ stage # "off"
  BY <1>1, StageSets
<1>5. SdWaits(m) /\ IaWaits(m)
  BY <1>1, <1>4 DEF SdWaits, IaWaits
<1>6. counts[m] = SumOf(Got(m))
  BY <1>4 DEF Kept, Summed
<1>7. CASE AskFull
  <2>1. PICK ok \in SUBSET DOMAIN requests : GraphResult(ok)
    BY <1>7, AskIs DEF AskFull
  <2>2. /\ answered' = Heard(ok) /\ DOMAIN repos' \subseteq DOMAIN repos
    BY <1>2, <2>1, ResultIs
  <2>3. Known(m)' /\ counts'[m] = SumOf(Got(m)')
    BY <1>2, <1>4, <1>6, <2>1, ResultPlain DEF Kept
  <2>4. WaitsOnce(m)'
    BY <1>1, <1>2, <1>3, <2>2, WaitsOnceStep DEF Kept
  <2>5. Unheard(m)'
    BY <1>2, <1>3, <1>5, <2>2, HeardQuiet, UnheardStep DEF Kept
  <2> QED
    BY <2>3, <2>4, <2>5 DEF Kept, Summed
<1>8. CASE AskRaises
  <2>1. PICK ok \in SUBSET DOMAIN requests : cache' = Cached(ok) /\ answered' = Heard(ok)
    BY <1>8, AnswerableIs DEF AskRaises
  <2>2. UNCHANGED <<repos, requests, counts>>
    BY <1>8 DEF AskRaises
  <2>3. Known(m)' /\ counts'[m] = SumOf(Got(m)')
    BY <1>2, <1>4, <1>6, <2>1, <2>2, RaisesPlain DEF Kept
  <2>4. WaitsOnce(m)'
    BY <1>1, <1>2, <1>3, <2>2, WaitsOnceStep DEF Kept
  <2>5. Unheard(m)'
    BY <1>2, <1>3, <1>5, <2>1, HeardQuiet, UnheardStep DEF Kept
  <2> QED
    BY <2>3, <2>4, <2>5 DEF Kept, Summed
<1> QED
  BY <1>7, <1>8

LEMMA KeptLastGitHub ==
  ASSUME Typed, Typed', NEW m \in Mods, Plain(m), Kept(m), LastGitHub
  PROVE  Kept(m)'
<1>1. stage = "github" /\ stage' = "archive" /\ UNCHANGED <<meta, work, sdIds, iaIds, file>>
  BY LastGitHubIs
<1>2. UNCHANGED newest /\ UNCHANGED work /\ TypeOK
  BY <1>1 DEF meta, Typed
<1>3. WorkLess(m)
  BY <1>2, SameWork DEF WorkLess
<1>4. /\ ~BeforeSpaceDock' /\ ~BeforeGitHub' /\ BeforeArchive /\ Asking /\ stage # "off"
  BY <1>1, StageSets
<1>5. SdWaits(m) /\ IaWaits(m)
  BY <1>1, <1>4 DEF SdWaits, IaWaits
<1>6. counts[m] = SumOf(Got(m))
  BY <1>4 DEF Kept, Summed
<1>7. CASE AskGitHub
  <2>1. PICK ok \in SUBSET DOMAIN requests : GraphResult(ok)
    BY <1>7, AskIs
  <2>2. /\ answered' = Heard(ok) /\ DOMAIN repos' \subseteq DOMAIN repos
    BY <1>2, <2>1, ResultIs
  <2>3. Known(m)' /\ counts'[m] = SumOf(Got(m)')
    BY <1>2, <1>4, <1>6, <2>1, ResultPlain DEF Kept
  <2>4. WaitsOnce(m)'
    BY <1>1, <1>2, <1>3, <2>2, WaitsOnceStep DEF Kept
  <2>5. Unheard(m)'
    BY <1>2, <1>3, <1>5, <2>2, HeardQuiet, UnheardStep DEF Kept
  <2> QED
    BY <2>3, <2>4, <2>5 DEF Kept, Summed
<1>8. CASE DOMAIN repos = {} /\ UNCHANGED github /\ UNCHANGED <<counts, answered>>
  <2>1. UNCHANGED <<cache, requests, repos>> /\ UNCHANGED <<newest, answered, counts>>
    BY <1>2, <1>8 DEF github
  <2>2. \A s : (InWork(m, "github", s)' <=> InWork(m, "github", s)) /\ (Waits(m, s)' <=> Waits(m, s))
    BY <1>2, <2>1, SameWork, MetaSame DEF Waits
  <2>3. Known(m)'
    BY <1>2, <1>4, <1>8, <2>1, <2>2, KnownStep DEF Kept
  <2>4. counts'[m] = SumOf(Got(m)')
    BY <1>6, <2>1, <2>2, SameGot
  <2>5. WaitsOnce(m)'
    BY <1>1, <1>2, <1>3, <2>1, WaitsOnceStep DEF Kept
  <2>6. Quiet(m, "github")
    BY <2>1 DEF Quiet
  <2>7. Unheard(m)'
    BY <1>2, <1>3, <1>5, <2>6, UnheardStep DEF Kept
  <2> QED
    BY <2>3, <2>4, <2>5, <2>7 DEF Kept, Summed
<1> QED
  BY <1>7, <1>8, LastGitHubIs

\* A step that changes neither the queries nor what was answered.
LEMMA KeptQuiet ==
  ASSUME Typed, Typed', NEW m \in Mods, Plain(m), Kept(m),
         UNCHANGED <<newest, repos, requests, cache, counts, answered, iaIds>>,
         UNCHANGED work \/ \E host : Look(host), WorkLess(m), SdWaits(m),
         \A s : InWork(m, "github", s) => InWork(m, "github", s)',
         stage # "off", Asking' => Asking, BeforeArchive' => BeforeArchive,
         BeforeGitHub => BeforeGitHub'
  PROVE  Kept(m)'
<1>1. \A s : (InWork(m, "github", s)' <=> InWork(m, "github", s)) /\ (Waits(m, s)' <=> Waits(m, s))
  BY MetaSame DEF Waits, WorkLess
<1>2. counts[m] = SumOf(Got(m))
  BY DEF Kept, Summed
<1>3. Known(m)'
  BY <1>1, KnownStep DEF Kept
<1>4. counts'[m] = SumOf(Got(m)')
  BY <1>1, <1>2, SameGot
<1>5. WaitsOnce(m)'
  BY WaitsOnceStep DEF Kept
<1>6. Quiet(m, "github") /\ IaWaits(m)
  BY DEF Quiet, IaWaits
<1>7. Unheard(m)'
  BY <1>6, UnheardStep DEF Kept
<1> QED
  BY <1>3, <1>4, <1>5, <1>7 DEF Kept, Summed

LEMMA KeptLookSpaceDock ==
  ASSUME Typed, Typed', NEW m \in Mods, Plain(m), Kept(m), LookSpaceDock
  PROVE  Kept(m)'
<1>1. /\ Look("spacedock") /\ stage' = "walk" /\ sdIds' = Put(sdIds, CurrentMod, Source)
      /\ UNCHANGED github /\ UNCHANGED <<iaIds, counts, answered>>
  BY DEF LookSpaceDock
<1>2. stage = "walk" /\ UNCHANGED <<meta, file>> /\ InWork(CurrentMod, "spacedock", Source)
  BY <1>1, LookIs
<1>3. UNCHANGED <<newest, repos, requests, cache, counts, answered, iaIds>>
  BY <1>1, <1>2 DEF meta, github
<1>4. \A n, h, s : /\ InWork(n, h, s)' => InWork(n, h, s)
                   /\ InWork(n, h, s) => \/ InWork(n, h, s)'
                                         \/ n = CurrentMod /\ h = "spacedock" /\ s = Source
  BY <1>1, LookWork
<1>5. WorkLess(m) /\ \A s : InWork(m, "github", s) => InWork(m, "github", s)'
  BY <1>4 DEF WorkLess
<1>6. SdWaits(m)
  BY <1>1, <1>2, StageSets DEF SdWaits, Put
<1>7. /\ Asking' => Asking
      /\ BeforeArchive' => BeforeArchive
      /\ BeforeGitHub => BeforeGitHub'
  BY <1>1, <1>2, StageSets
<1>8. \E host : Look(host)
  BY <1>1
<1> QED
  BY <1>2, <1>3, <1>5, <1>6, <1>7, <1>8, KeptQuiet

LEMMA KeptLookElsewhere ==
  ASSUME Typed, Typed', NEW m \in Mods, Plain(m), Kept(m), LookElsewhere
  PROVE  Kept(m)'
<1>1. stage' = "walk" /\ UNCHANGED queries /\ UNCHANGED <<counts, answered>>
  BY LookElsewhereIs
<1>2. PICK h : Look(h) /\ (h = "archive" \/ h \notin Counted)
  BY LookElsewhereIs
<1>3. stage = "walk" /\ UNCHANGED <<meta, file>>
  BY <1>2, LookIs
<1>4. /\ UNCHANGED <<newest, repos, requests, cache, counts, answered, iaIds>>
      /\ UNCHANGED sdIds
  BY <1>1, <1>3 DEF meta, queries, github
<1>5. WorkLess(m) /\ \A s : InWork(m, "github", s) => InWork(m, "github", s)'
  BY <1>2, LookWork, CountedHosts DEF WorkLess
<1>6. SdWaits(m)
  BY <1>1, <1>3, <1>4, StageSets DEF SdWaits
<1>7. /\ Asking' => Asking
      /\ BeforeArchive' => BeforeArchive
      /\ BeforeGitHub => BeforeGitHub'
  BY <1>1, <1>3, StageSets
<1> QED
  BY <1>2, <1>3, <1>4, <1>5, <1>6, <1>7, KeptQuiet

\* The walk is at its end, others push, the file is pushed.
LEMMA KeptStill ==
  ASSUME Typed, Typed', NEW m \in Mods, Plain(m), Kept(m),
         UNCHANGED <<newest, repos, requests, cache, counts, answered, iaIds, sdIds, work>>,
         UNCHANGED stage \/ (stage = "walk" /\ stage' = "spacedock") \/ stage' = "off"
  PROVE  Kept(m)'
<1>1. /\ WorkLess(m)
      /\ \A s : InWork(m, "github", s) => InWork(m, "github", s)'
  BY SameWork DEF WorkLess
<1>2. /\ Asking' => Asking
      /\ BeforeArchive' => BeforeArchive
      /\ BeforeSpaceDock' => BeforeSpaceDock
      /\ Asking' /\ ~BeforeGitHub' => ~BeforeGitHub
  BY StageSets
<1>3. SdWaits(m) /\ IaWaits(m)
  BY <1>2 DEF SdWaits, IaWaits
<1>4. Known(m)'
  BY <1>1, <1>2, KnownStep DEF Kept
<1>5. WaitsOnce(m)'
  BY <1>1, WaitsOnceStep DEF Kept
<1>6. Quiet(m, "github")
  BY DEF Quiet
<1>7. Unheard(m)'
  BY <1>1, <1>3, <1>6, UnheardStep DEF Kept
<1>8. Summed(m)'
  <2>1. CASE stage' = "off"
    BY <2>1 DEF Summed
  <2>2. CASE stage' # "off"
    <3>1. stage # "off"
      BY <2>2
    <3>2. counts[m] = SumOf(Got(m))
      BY <3>1 DEF Kept, Summed
    <3>3. \A s : Waits(m, s)' <=> Waits(m, s)
      BY SameWork, MetaSame DEF Waits
    <3>4. counts'[m] = SumOf(Got(m)')
      BY <3>2, <3>3, SameGot
    <3> QED
      BY <3>4 DEF Summed
  <2> QED
    BY <2>1, <2>2
<1> QED
  BY <1>4, <1>5, <1>7, <1>8 DEF Kept

LEMMA KeptEnds ==
  ASSUME Typed, Typed', NEW m \in Mods, Plain(m), Kept(m), WalkEnds \/ Push \/ OthersPush \/ UNCHANGED vars
  PROVE  Kept(m)'
<1>1. /\ UNCHANGED <<newest, work, counts, answered>> /\ UNCHANGED queries
      /\ UNCHANGED stage \/ (stage = "walk" /\ stage' = "spacedock") \/ stage' = "off"
  BY DEF WalkEnds, Push, OthersPush, vars, meta
<1>2. UNCHANGED <<newest, repos, requests, cache, counts, answered, iaIds, sdIds, work>>
  BY <1>1 DEF queries, github
<1> QED
  BY <1>1, <1>2, KeptStill

\* The queries are dropped: with the file written, or with the run.
LEMMA KeptDrops ==
  ASSUME Typed, Typed', NEW m \in Mods, Plain(m), Kept(m), Write \/ RunRaises \/ WalkRaises
  PROVE  Kept(m)'
<1>1. /\ NewQueries /\ UNCHANGED <<newest, counts, answered>>
      /\ \/ stage = "write" /\ UNCHANGED work /\ stage' \in {"push", "off"}
         \/ work' = <<>> /\ stage' = "off"
  <2>1. CASE Write
    BY <2>1 DEF Write, meta
  <2>2. CASE RunRaises \/ WalkRaises
    BY <2>2 DEF RunRaises, WalkRaises, meta
  <2> QED
    BY <2>1, <2>2
<1>2. /\ DOMAIN repos' = {} /\ DOMAIN sdIds' = {} /\ DOMAIN cache' = {}
      /\ ToSet(requests)' = {} /\ iaIds' = {}
  BY <1>1, NewQueriesAre
<1>3. ~Asking' /\ ~BeforeArchive' /\ ~BeforeSpaceDock'
  BY <1>1, StageSets
<1>4. WorkLess(m)
  BY <1>1, SameWork, NoWorkNext DEF WorkLess
<1>5. Known(m)'
  BY <1>2, <1>3, KnownNot
<1>6. WaitsOnce(m)'
  BY <1>1, <1>2, <1>4, WaitsOnceStep DEF Kept
<1>7. Unheard(m)'
  <2>1. Quiet(m, "github") /\ SdWaits(m) /\ IaWaits(m)
    BY <1>1, <1>3 DEF Quiet, SdWaits, IaWaits
  <2> QED
    BY <1>1, <1>4, <2>1, UnheardStep DEF Kept
<1>8. Summed(m)'
  <2>1. CASE stage' = "off"
    BY <2>1 DEF Summed
  <2>2. CASE stage' # "off"
    <3>1. stage = "write" /\ UNCHANGED work /\ work = <<>>
      BY <1>1, <2>2 DEF Typed, Position
    <3>2. counts[m] = SumOf(Got(m))
      BY <3>1 DEF Kept, Summed
    <3>3. \A s : ~InWork(m, "github", s) /\ ~InWork(m, "github", s)'
      BY <3>1, NoWork, NoWorkNext
    <3>4. \A s \in From(m, {"github"}) : <<m, s>> \in answered => ~Waits(m, s)
      BY <3>1, <3>3, StageSets DEF Kept, Known, Waits
    <3>5. \A s : ~Waits(m, s)'
      BY <1>2, <3>3 DEF Waits
    <3>6. counts'[m] = SumOf(Got(m)')
      BY <1>1, <3>2, <3>4, <3>5, SameGot
    <3> QED
      BY <3>6 DEF Summed
  <2> QED
    BY <2>1, <2>2
<1> QED
  BY <1>5, <1>6, <1>7, <1>8 DEF Kept

\* The counts of SpaceDock, archive.org and SourceForge.
LEMMA KeptCredit ==
  ASSUME Typed, Typed', NEW m \in Mods, Plain(m), Kept(m),
         UNCHANGED <<newest, repos, requests, cache>>,
         UNCHANGED work \/ \E host : Look(host), WorkLess(m),
         \A s : InWork(m, "github", s) => InWork(m, "github", s)',
         stage # "off", Asking' => Asking, BeforeArchive' => BeforeArchive,
         BeforeGitHub => BeforeGitHub', SdWaits(m),
         iaIds' = {} \/ UNCHANGED iaIds,
         NEW got, NEW host \in Counted \ {"github"}, got \subseteq Mods \X Sources,
         \A p \in got : p[2] \in From(p[1], {host}),
         \A s : <<m, s>> \in got => <<m, s>> \notin answered /\ ~InWork(m, host, s)',
         host = "spacedock" => ~BeforeSpaceDock',
         host = "archive" => ~BeforeArchive' \/ iaIds' = {},
         Credit(got)
  PROVE  Kept(m)'
<1>1. \A s : InWork(m, "github", s)' <=> InWork(m, "github", s)
  BY DEF WorkLess
<1>2. counts[m] = SumOf(Got(m))
  BY DEF Kept, Summed
<1>3. /\ counts'[m] = SumOf(Got(m)')
      /\ answered' = answered \cup got
      /\ \A h \in Counted : h # host => \A s \in From(m, {h}) : <<m, s>> \notin got
  BY <1>1, <1>2, CreditPlain
<1>4. Quiet(m, host)
  BY <1>3 DEF Quiet
<1>5. IaWaits(m)
  BY DEF IaWaits
<1>6. \A s : InWork(m, host, s)' => (<<m, s>> \in answered' => <<m, s>> \in answered)
  BY <1>3
<1>7. Unheard(m)'
  BY <1>4, <1>5, <1>6, UnheardStep DEF Kept
<1>8. \A s \in From(m, {"github"}) : <<m, s>> \in answered' <=> <<m, s>> \in answered
  BY <1>3, CountedHosts
<1>9. Known(m)'
  BY <1>1, <1>8, KnownStep DEF Kept
<1>10. WaitsOnce(m)'
  <2>1. iaIds' # NoQuery => \A s \in Sources : <<m, s>> \in iaIds' => iaIds # NoQuery /\ <<m, s>> \in iaIds
    OBVIOUS
  <2> QED
    BY <2>1, WaitsOnceStep DEF Kept
<1> QED
  BY <1>3, <1>7, <1>9, <1>10 DEF Kept, Summed

LEMMA KeptLookSourceForge ==
  ASSUME Typed, Typed', NEW m \in Mods, Plain(m), Kept(m), LookSourceForge
  PROVE  Kept(m)'
<1> DEFINE ids == {<<CurrentMod, Source>>}
<1>1. /\ Look("sourceforge") /\ stage' = "walk" /\ UNCHANGED queries
      /\ \/ Credit(Living(ids))
         \/ UNCHANGED <<counts, answered>>
      /\ ids \subseteq Mods \X Sources
      /\ \A p \in ids : p[2] \in From(p[1], {"sourceforge"})
  BY LookSourceForgeIs
<1>2. stage = "walk" /\ UNCHANGED <<meta, file>> /\ InWork(CurrentMod, "sourceforge", Source)
  BY <1>1, LookIs
<1>3. UNCHANGED <<newest, repos, requests, cache, iaIds, sdIds>>
  BY <1>1, <1>2 DEF meta, queries, github
<1>4. WorkLess(m) /\ \A s : InWork(m, "github", s) => InWork(m, "github", s)'
  BY <1>1, LookWork DEF WorkLess
<1>5. /\ Asking' => Asking
      /\ BeforeArchive' => BeforeArchive
      /\ BeforeGitHub => BeforeGitHub'
  BY <1>1, <1>2, StageSets
<1>6. SdWaits(m)
  BY <1>1, <1>2, <1>3, StageSets DEF SdWaits
<1>7. CASE Credit(Living(ids))
  <2> DEFINE got == Living(ids)
  <2>1. got \subseteq ids
    BY LivingIs
  <2>2. got \subseteq Mods \X Sources /\ \A p \in got : p[2] \in From(p[1], {"sourceforge"})
    BY <1>1, <2>1
  <2>3. ASSUME NEW s, <<m, s>> \in got
        PROVE  <<m, s>> \notin answered /\ ~InWork(m, "sourceforge", s)'
    <3>1. m = CurrentMod /\ s = Source
      BY <2>1, <2>3
    <3>2. InWork(m, "sourceforge", s)
      BY <1>2, <3>1
    <3>3. <<m, s>> \notin answered
      BY <3>2, InWorkIs, CountedHosts DEF Kept, Unheard
    <3>4. Single(m)
      BY DEF Kept, WaitsOnce, Single
    <3> QED
      BY <1>1, <3>1, <3>3, <3>4, HeadOnce
  <2> HIDE DEF got, ids
  <2>4. Credit(got)
    BY <1>7 DEF got
  <2> QED
    BY <1>1, <1>2, <1>3, <1>4, <1>5, <1>6, <2>2, <2>3, <2>4, KeptCredit, CountedHosts
<1>8. CASE UNCHANGED <<counts, answered>>
  <2>1. UNCHANGED <<newest, repos, requests, cache, counts, answered, iaIds>>
    BY <1>3, <1>8
  <2> QED
    BY <1>1, <1>2, <1>4, <1>5, <1>6, <2>1, KeptQuiet
<1> QED
  BY <1>1, <1>7, <1>8

LEMMA KeptLastSpaceDock ==
  ASSUME Typed, Typed', NEW m \in Mods, Plain(m), Kept(m), LastSpaceDock
  PROVE  Kept(m)'
<1>1. stage = "spacedock" /\ stage' = "github" /\ UNCHANGED <<meta, work, queries, file>>
  BY LastSpaceDockIs
<1>2. PICK got \in SUBSET Living(SpaceDockIds) : Credit(got)
  BY LastSpaceDockIs
<1>3. /\ UNCHANGED <<newest, repos, requests, cache, iaIds, sdIds>> /\ UNCHANGED work
  BY <1>1 DEF meta, queries, github
<1>4. got \subseteq Mods \X Sources /\ \A p \in got : p[2] \in From(p[1], {"spacedock"})
  BY <1>2, SpaceDockIdsAre, LivingIs
<1>5. WorkLess(m) /\ \A s : InWork(m, "github", s) => InWork(m, "github", s)'
  BY <1>3, SameWork DEF WorkLess
<1>6. /\ Asking' => Asking
      /\ BeforeArchive' => BeforeArchive
      /\ BeforeGitHub => BeforeGitHub'
      /\ BeforeSpaceDock /\ ~BeforeSpaceDock'
  BY <1>1, StageSets
<1>7. SdWaits(m)
  BY <1>6 DEF SdWaits
<1>8. ASSUME NEW s, <<m, s>> \in got
      PROVE  <<m, s>> \notin answered /\ ~InWork(m, "spacedock", s)'
  <2>1. m \in DOMAIN sdIds /\ sdIds[m] = s
    BY <1>2, <1>8, SpaceDockIdsAre, LivingIs
  <2>2. <<m, s>> \notin answered
    BY <1>6, <2>1 DEF Kept, Unheard
  <2>3. work' = <<>>
    BY <1>1, <1>3 DEF Typed, Position
  <2> QED
    BY <2>2, <2>3, NoWorkNext
<1> QED
  BY <1>1, <1>2, <1>3, <1>4, <1>5, <1>6, <1>7, <1>8, KeptCredit, CountedHosts

LEMMA KeptLookArchive ==
  ASSUME Typed, Typed', NEW m \in Mods, Plain(m), Kept(m), LookArchive
  PROVE  Kept(m)'
<1>1. /\ Look("archive") /\ iaIds # NoQuery /\ stage' = "walk"
      /\ UNCHANGED github /\ UNCHANGED sdIds
      /\ \/ AskArchive(NextIds) /\ iaIds' = {}
         \/ iaIds' \in {NoQuery, NextIds} /\ UNCHANGED <<counts, answered>>
  BY LookArchiveIs
<1>2. stage = "walk" /\ UNCHANGED <<meta, file>> /\ InWork(CurrentMod, "archive", Source)
  BY <1>1, LookIs
<1>3. UNCHANGED <<newest, repos, requests, cache, sdIds>>
  BY <1>1, <1>2 DEF meta, github
<1>4. WorkLess(m) /\ \A s : InWork(m, "github", s) => InWork(m, "github", s)'
  BY <1>1, LookWork DEF WorkLess
<1>5. /\ Asking' => Asking
      /\ BeforeArchive' => BeforeArchive
      /\ BeforeGitHub => BeforeGitHub'
      /\ BeforeArchive
      /\ Asking' /\ ~BeforeGitHub' => ~BeforeGitHub
  BY <1>1, <1>2, StageSets
<1>6. SdWaits(m)
  BY <1>1, <1>2, <1>3, StageSets DEF SdWaits
<1>7. /\ NextIds \subseteq Mods \X Sources
      /\ \A p \in NextIds : p[2] \in From(p[1], {"archive"})
      /\ \A n, s : <<n, s>> \in NextIds <=>
           \/ n = CurrentMod /\ s = Source
           \/ n # CurrentMod /\ <<n, s>> \in iaIds
  BY <1>1, NextIdsAre
<1>8. Single(m)
  BY DEF Kept, WaitsOnce, Single
<1>9. ASSUME NEW s, <<m, s>> \in NextIds
      PROVE  /\ <<m, s>> \notin answered /\ \A t : ~InWork(m, "archive", t)'
             /\ InWork(m, "archive", s) \/ <<m, s>> \in iaIds
  <2>1. CASE m = CurrentMod /\ s = Source
    <3>1. InWork(m, "archive", s)
      BY <1>2, <2>1
    <3>2. <<m, s>> \notin answered
      BY <3>1, InWorkIs, CountedHosts DEF Kept, Unheard
    <3> QED
      BY <1>1, <1>8, <2>1, <3>1, <3>2, HeadOnce
  <2>2. CASE <<m, s>> \in iaIds
    <3>1. s \in Sources
      BY <1>7, <1>9
    <3>2. <<m, s>> \notin answered
      BY <1>1, <1>5, <2>2, <3>1 DEF Kept, Unheard
    <3>3. \A t : ~InWork(m, "archive", t)
      BY <1>1, <2>2, <3>1, InWorkIs DEF Kept, WaitsOnce
    <3> QED
      BY <1>4, <2>2, <3>2, <3>3 DEF WorkLess
  <2> QED
    BY <1>7, <1>9, <2>1, <2>2
<1>10. CASE AskArchive(NextIds) /\ iaIds' = {}
  <2>1. PICK got \in SUBSET Living(NextIds) : Credit(got)
    BY <1>10, AskArchiveIs
  <2>2. got \subseteq NextIds
    BY <2>1, LivingIs
  <2>3. got \subseteq Mods \X Sources /\ \A p \in got : p[2] \in From(p[1], {"archive"})
    BY <1>7, <2>2
  <2>4. \A s : <<m, s>> \in got => <<m, s>> \notin answered /\ ~InWork(m, "archive", s)'
    BY <1>9, <2>2
  <2> QED
    BY <1>1, <1>2, <1>3, <1>4, <1>5, <1>6, <1>10, <2>1, <2>3, <2>4, KeptCredit, CountedHosts
<1>11. CASE iaIds' \in {NoQuery, NextIds} /\ UNCHANGED <<counts, answered>>
  <2>1. \A s : (InWork(m, "github", s)' <=> InWork(m, "github", s)) /\ (Waits(m, s)' <=> Waits(m, s))
    BY <1>3, <1>4, MetaSame DEF Waits, WorkLess
  <2>2. counts[m] = SumOf(Got(m))
    BY <1>2 DEF Kept, Summed
  <2>3. UNCHANGED <<newest, answered, counts>>
    BY <1>3, <1>11
  <2>4. Known(m)'
    BY <1>3, <1>5, <1>11, <2>1, KnownStep DEF Kept
  <2>5. counts'[m] = SumOf(Got(m)')
    BY <2>1, <2>2, <2>3, SameGot
  <2>6. iaIds' # NoQuery => iaIds' = NextIds
    BY <1>11
  <2>7. IaWaits(m)
    BY <1>1, <1>5, <1>9, <2>6 DEF IaWaits
  <2>8. WaitsOnce(m)'
    <3>1. iaIds' # NoQuery => \A s \in Sources : <<m, s>> \in iaIds' => \A t : ~InWork(m, "archive", t)'
      BY <1>9, <2>6
    <3> QED
      BY <1>1, <1>3, <1>4, <3>1, WaitsOnceStep DEF Kept
  <2>9. Quiet(m, "github")
    BY <1>11 DEF Quiet
  <2>10. Unheard(m)'
    BY <1>3, <1>4, <1>6, <2>7, <2>9, UnheardStep DEF Kept
  <2> QED
    BY <2>4, <2>5, <2>8, <2>10 DEF Kept, Summed
<1> QED
  BY <1>1, <1>10, <1>11

LEMMA KeptLastArchive ==
  ASSUME Typed, Typed', NEW m \in Mods, Plain(m), Kept(m), LastArchive
  PROVE  Kept(m)'
<1>1. stage = "archive" /\ stage' = "write" /\ UNCHANGED <<meta, work, queries, file>>
  BY LastArchiveIs
<1>2. /\ UNCHANGED <<newest, repos, requests, cache, iaIds, sdIds>> /\ UNCHANGED work
  BY <1>1 DEF meta, queries, github
<1>3. WorkLess(m) /\ \A s : InWork(m, "github", s) => InWork(m, "github", s)'
  BY <1>2, SameWork DEF WorkLess
<1>4. /\ Asking' => Asking
      /\ BeforeArchive' => BeforeArchive
      /\ BeforeGitHub => BeforeGitHub'
      /\ BeforeArchive /\ ~BeforeArchive' /\ ~BeforeSpaceDock'
  BY <1>1, StageSets
<1>5. SdWaits(m)
  BY <1>4 DEF SdWaits
<1>6. CASE UNCHANGED <<counts, answered>>
  <2>1. UNCHANGED <<newest, repos, requests, cache, counts, answered, iaIds>>
    BY <1>2, <1>6
  <2> QED
    BY <1>1, <1>2, <1>3, <1>4, <1>5, <2>1, KeptQuiet
<1>7. CASE iaIds # NoQuery /\ AskArchive(iaIds)
  <2>1. PICK got \in SUBSET Living(iaIds) : Credit(got)
    BY <1>7, AskArchiveIs
  <2>2. QueriesType /\ QueriesOrigin
    BY TypeParts, OriginParts DEF Typed
  <2>3. got \subseteq iaIds /\ iaIds \subseteq Mods \X Sources
        /\ \A p \in iaIds : p[2] \in From(p[1], {"archive"})
    BY <1>7, <2>1, <2>2, LivingIs DEF QueriesType, QueriesOrigin
  <2>4. ASSUME NEW s, <<m, s>> \in got
        PROVE  <<m, s>> \notin answered /\ ~InWork(m, "archive", s)'
    <3>1. <<m, s>> \in iaIds /\ s \in Sources
      BY <2>3, <2>4
    <3>2. <<m, s>> \notin answered
      BY <1>4, <1>7, <3>1 DEF Kept, Unheard
    <3>3. work' = <<>>
      BY <1>1, <1>2 DEF Typed, Position
    <3> QED
      BY <3>2, <3>3, NoWorkNext
  <2> QED
    BY <1>1, <1>2, <1>3, <1>4, <1>5, <2>1, <2>3, <2>4, KeptCredit, CountedHosts
<1> QED
  BY <1>6, <1>7, LastArchiveIs

\* What a run begins with.
LEMMA StartFrom ==
  ASSUME Typed, Start, NEW m \in Mods, NEW h, NEW s
  PROVE  s \in From(m, {h})' => InWork(m, h, s)'
<1>1. Downloads(newest'[m]) \in Seq(Download)
  BY StartIs DEF Typed
<1>2. Of(m)' \subseteq Download
  <2>1. Of(m)' = {Downloads(newest'[m])[i] : i \in DOMAIN Downloads(newest'[m])}
    BY DEF Of, ToSet, Downloads
  <2> QED
    BY <1>1, <2>1
<1> SUFFICES ASSUME s \in From(m, {h})' PROVE InWork(m, h, s)'
  OBVIOUS
<1>3. PICK d \in Of(m)' : d.host = h /\ d.source = s
  BY DEF From, OfHost, Of
<1>4. d = ItemOf(h, s)
  BY <1>2, <1>3 DEF Download, ItemOf
<1> DEFINE p == <<m, d>>
<1>5. p[1] \in Mods /\ p[2] \in Of(p[1])' /\ p = <<p[1], p[2]>>
  BY <1>3
<1> HIDE DEF p
<1>6. p \in ToSet(work)'
  BY <1>5, StartWork DEF Typed
<1> QED
  BY <1>4, <1>6 DEF InWork, ItemOf, p

LEMMA KeptStart ==
  ASSUME Typed, Start, NEW m \in Mods, Plain(m)'
  PROVE  Kept(m)'
<1>1. /\ stage' = "walk" /\ NewQueries /\ counts' = [n \in Mods |-> 0] /\ answered' = {}
  BY StartIs DEF Typed
<1>2. /\ DOMAIN repos' = {} /\ DOMAIN sdIds' = {} /\ DOMAIN cache' = {}
      /\ ToSet(requests)' = {} /\ iaIds' = {}
  BY <1>1, NewQueriesAre
<1>3. WaitsOnce(m)'
  <2>1. ASSUME NEW i \in DOMAIN work', NEW j \in DOMAIN work',
               work'[i] = work'[j], work'[i][1] = m,
               work'[i][2].host \in {"github", "archive", "sourceforge"}, i # j
        PROVE  FALSE
    <3> DEFINE p == work'[i]
    <3>1. Twice(work', p)
      BY <2>1 DEF Twice
    <3>2. Twice(Downloads(newest'[m]), p[2])
      BY <2>1, <3>1, StartWork DEF Typed
    <3>3. PICK a, b \in DOMAIN Downloads(newest'[m]) :
            a # b /\ Downloads(newest'[m])[a] = p[2] /\ Downloads(newest'[m])[b] = p[2]
      BY <3>2 DEF Twice
    <3>4. p[2].host \in Counted /\ p[2].host # "spacedock"
      BY <2>1 DEF Counted
    <3> HIDE DEF p
    <3>5. \A k, l \in DOMAIN Downloads(newest'[m]) :
            LET d == Downloads(newest'[m])[k]
                e == Downloads(newest'[m])[l]
            IN {d.host, e.host} \subseteq Counted /\ (d.host = e.host \/ d.source = e.source) =>
                 k = l \/ (d = e /\ d.host = "spacedock")
      BY DEF Plain, Downloads
    <3> QED
      BY <3>3, <3>4, <3>5
  <2> QED
    BY <1>2, <2>1 DEF WaitsOnce
<1>4. Unheard(m)'
  BY <1>1 DEF Unheard
<1>5. Known(m)'
  <2>1. \A s \in From(m, {"github"})' : KnownParts(m, s)'
    BY <1>1, <1>2, StartFrom, StageSets DEF KnownParts
  <2> QED
    BY <2>1, KnownIs
<1>6. Summed(m)'
  <2>1. Got(m)' = {}
    BY <1>1 DEF Got
  <2> QED
    BY <1>1, <2>1, SumEmpty DEF Summed
<1> QED
  BY <1>3, <1>4, <1>5, <1>6 DEF Kept

LEMMA KeptInit ==
  ASSUME Init, NEW m \in Mods
  PROVE  Kept(m)
<1>1. /\ stage = "off" /\ work = <<>> /\ newest = [n \in Mods |-> NoRelease]
      /\ repos = <<>> /\ requests = <<>> /\ cache = <<>> /\ sdIds = <<>> /\ iaIds = {}
      /\ answered = {}
  BY DEF Init, None
<1>2. From(m, {"github"}) = {}
  BY <1>1 DEF From, OfHost, Downloads, ToSet
<1>3. DOMAIN repos = {} /\ \A h, s : ~InWork(m, h, s)
  BY <1>1, NoWork
<1> QED
  BY <1>1, <1>2, <1>3 DEF Kept, WaitsOnce, Unheard, Known, Summed

AllKept == \A m \in Mods : Plain(m) => Kept(m)

LEMMA NewestSame ==
  ASSUME [Next]_vars, ~Start
  PROVE  UNCHANGED newest
<1>1. CASE LookGitHub \/ LookSpaceDock \/ LookArchive \/ LookSourceForge \/ LookElsewhere
  <2>1. \E host : Look(host)
    BY <1>1 DEF LookGitHub, LookSpaceDock, LookArchive, LookSourceForge, LookElsewhere
  <2> QED
    BY <2>1 DEF Look, meta
<1>2. CASE AskFull \/ AskRaises \/ WalkEnds \/ LastSpaceDock \/ LastGitHub \/ LastArchive
  BY <1>2 DEF AskFull, AskRaises, WalkEnds, LastSpaceDock, LastGitHub, LastArchive, meta
<1>3. CASE Write \/ Push \/ RunRaises \/ WalkRaises \/ OthersPush \/ UNCHANGED vars
  BY <1>3 DEF Write, Push, RunRaises, WalkRaises, OthersPush, vars, meta
<1> QED
  BY <1>1, <1>2, <1>3 DEF Next, Run

LEMMA KeptStep ==
  ASSUME Typed, Typed', AllKept, [Next]_vars
  PROVE  AllKept'
<1>1. CASE Start
  BY <1>1, KeptStart DEF AllKept
<1>2. CASE ~Start
  <2>1. UNCHANGED newest
    BY <1>2, NewestSame
  <2>2. ASSUME NEW m \in Mods, Plain(m)' PROVE Kept(m)'
    <3>1. Plain(m) /\ Kept(m)
      BY <2>1, <2>2, MetaSame DEF AllKept
    <3>2. CASE Run
      BY <3>1, <3>2, KeptLookGitHub, KeptAskFull, KeptLookSpaceDock, KeptLookArchive,
         KeptLookSourceForge, KeptLookElsewhere, KeptEnds, KeptLastSpaceDock,
         KeptLastGitHub, KeptLastArchive, KeptDrops DEF Run
    <3>3. CASE AskRaises \/ RunRaises \/ OthersPush \/ UNCHANGED vars
      BY <3>1, <3>3, KeptAskFull, KeptDrops, KeptEnds
    <3> QED
      BY <1>2, <3>2, <3>3 DEF Next
  <2> QED
    BY <2>2 DEF AllKept
<1> QED
  BY <1>1, <1>2

-----------------------------------------------------------------------------
(* Nothing is left out.                                                    *)

ReachedBy(m, h, s) ==
  \/ InWork(m, h, s) \/ <<m, s>> \in answered
  \/ h = "github" /\ BeforeGitHub /\ \E q \in ToSet(requests) : q.source = s
  \/ h = "spacedock" /\ BeforeSpaceDock /\ m \in DOMAIN sdIds /\ sdIds[m] = s
  \/ h = "archive" /\ BeforeArchive /\ <<m, s>> \in iaIds

LEMMA ReachedIs ==
  \A m : /\ Reached(m) <=> \A h \in Counted : \A s \in From(m, {h}) \ Dead : ReachedBy(m, h, s)
         /\ Reached(m)' <=> \A h \in Counted : \A s \in From(m, {h})' \ Dead : ReachedBy(m, h, s)'
BY DEF Reached, ReachedBy

\* Every mod is plain, no request failed so far and none does.
Whole == Typed /\ (\A n \in Mods : Plain(n) /\ Kept(n)) /\ ~failed' /\ iaIds # NoQuery

LEMMA ReachedLookGitHub ==
  ASSUME Whole, LookGitHub, NEW m \in Mods, NEW h \in Counted, NEW s \in From(m, {h}) \ Dead,
         ReachedBy(m, h, s)
  PROVE  ReachedBy(m, h, s)'
<1>1. /\ Look("github")
      /\ requests' = IF Unasked(Source)
                     THEN Append(requests, [source |-> Source, mod |-> CurrentMod]) ELSE requests
      /\ stage' \in {"ask", "walk"}
      /\ UNCHANGED <<cache, sdIds, iaIds, counts, answered>>
  BY DEF LookGitHub
<1>2. /\ CurrentMod \in Mods /\ Source \in Sources /\ Source \in From(CurrentMod, {"github"})
      /\ stage = "walk"
  BY <1>1, LookIs DEF Whole
<1>3. BeforeSpaceDock' /\ BeforeGitHub' /\ BeforeArchive' /\ Asking
  BY <1>1, <1>2, StageSets
<1>4. /\ \A q \in ToSet(requests) : q \in ToSet(requests)'
      /\ Unasked(Source) => \E q \in ToSet(requests)' : q.source = Source
  <2>1. CASE ~Unasked(Source)
    BY <1>1, <2>1 DEF ToSet
  <2>2. CASE Unasked(Source)
    <3> DEFINE r == [source |-> Source, mod |-> CurrentMod]
    <3>1. requests \in Seq(Request) /\ r \in Request /\ r.source = Source
      BY <1>2, RequestsAre DEF Request, Whole, Typed
    <3>2. requests' = Append(requests, r)
      BY <1>1, <2>2
    <3> HIDE DEF r
    <3>3. /\ \A i \in DOMAIN requests : i \in DOMAIN requests' /\ requests'[i] = requests[i]
          /\ Len(requests) + 1 \in DOMAIN requests' /\ requests'[Len(requests) + 1] = r
      BY <3>1, <3>2
    <3> QED
      BY <3>1, <3>3 DEF ToSet
  <2> QED
    BY <2>1, <2>2
<1>5. CASE InWork(m, h, s)'
  BY <1>5 DEF ReachedBy
<1>6. CASE InWork(m, h, s) /\ m = CurrentMod /\ h = "github" /\ s = Source
  <2>1. CASE Unasked(Source)
    BY <1>3, <1>4, <1>6, <2>1 DEF ReachedBy
  <2>2. CASE ~Unasked(Source)
    <3>1. s \in DOMAIN cache \/ \E q \in ToSet(requests) : q.source = s
      BY <1>6, <2>2 DEF Unasked
    <3>2. s \in DOMAIN cache => <<m, s>> \in answered
      BY <1>6 DEF Whole, Kept, Known
    <3> QED
      BY <1>1, <1>3, <1>4, <1>6, <3>1, <3>2 DEF ReachedBy
  <2> QED
    BY <2>1, <2>2
<1>7. CASE ~InWork(m, h, s)
  BY <1>1, <1>3, <1>4, <1>7 DEF ReachedBy
<1> QED
  BY <1>1, <1>5, <1>6, <1>7, LookWork DEF Whole

LEMMA ReachedAskFull ==
  ASSUME Whole, AskFull, NEW m \in Mods, NEW h \in Counted, NEW s \in From(m, {h}) \ Dead,
         ReachedBy(m, h, s)
  PROVE  ReachedBy(m, h, s)'
<1>1. stage = "ask" /\ stage' = "walk" /\ UNCHANGED <<meta, work, sdIds, iaIds, file>> /\ AskGitHub
  BY DEF AskFull
<1>2. BeforeSpaceDock' /\ BeforeGitHub' /\ BeforeArchive' /\ Asking
  BY <1>1, StageSets
<1>3. PICK ok \in SUBSET DOMAIN requests : GraphResult(ok)
  BY <1>1, AskIs
<1>4. /\ answered' = Heard(ok) /\ answered \subseteq Heard(ok)
      /\ \A q : q \in ToSet(requests)' <=>
           q \in ToSet(requests) /\ \A n \in DoneIn(Cached(ok)) : repos[n] # q.source
  BY <1>3, ResultIs, HeardIs DEF Whole, Typed
<1>5. InWork(m, h, s) => InWork(m, h, s)'
  BY <1>1, SameWork
<1>6. CASE h = "github" /\ \E q \in ToSet(requests) : q.source = s
  <2>1. PICK q \in ToSet(requests) : q.source = s
    BY <1>6
  <2>2. CASE q \in ToSet(requests)'
    BY <1>2, <1>6, <2>1, <2>2 DEF ReachedBy
  <2>3. CASE q \notin ToSet(requests)'
    <3>1. PICK n \in DoneIn(Cached(ok)) : repos[n] = s
      BY <1>4, <2>1, <2>3
    <3>2. s \in DOMAIN Cached(ok)
      BY <3>1 DEF DoneIn
    <3>3. <<m, s>> \in Heard(ok)
      BY <1>2, <1>6, <3>2, KnownAnswers DEF Whole, Kept
    <3> QED
      BY <1>4, <3>3 DEF ReachedBy
  <2> QED
    BY <2>2, <2>3
<1> QED
  BY <1>1, <1>2, <1>4, <1>5, <1>6 DEF ReachedBy

\* A living request is answered in the end: none of a mod's two requests are in
\* one query.
LEMMA ReachedLastGitHub ==
  ASSUME Whole, LastGitHub, NEW m \in Mods, NEW h \in Counted, NEW s \in From(m, {h}) \ Dead,
         ReachedBy(m, h, s)
  PROVE  ReachedBy(m, h, s)'
<1>1. /\ stage = "github" /\ stage' = "archive"
      /\ UNCHANGED <<meta, work, sdIds, iaIds, file>>
      /\ \/ DOMAIN repos = {} /\ UNCHANGED github /\ UNCHANGED <<counts, answered>> /\ Works
         \/ AskGitHub
  BY LastGitHubIs
<1>2. ~BeforeSpaceDock /\ BeforeArchive' /\ Asking
  BY <1>1, StageSets
<1>3. InWork(m, h, s) => InWork(m, h, s)'
  BY <1>1, SameWork
<1>4. answered \subseteq answered'
  <2>1. CASE AskGitHub
    <3>1. PICK ok \in SUBSET DOMAIN requests : GraphResult(ok)
      BY <2>1, AskIs
    <3>2. answered' = Heard(ok)
      BY <3>1, ResultIs DEF Whole, Typed
    <3>3. answered \subseteq Heard(ok)
      BY HeardIs DEF Whole, Typed
    <3> QED
      BY <3>2, <3>3
  <2>2. CASE UNCHANGED <<counts, answered>>
    BY <2>2
  <2> QED
    BY <1>1, <2>1, <2>2
<1>5. CASE h = "github" /\ \E q \in ToSet(requests) : q.source = s
  <2>1. PICK q \in ToSet(requests) : q.source = s
    BY <1>5
  <2>2. q.mod \in DOMAIN repos
    BY <1>5, <2>1 DEF Whole, Kept, Known
  <2>3. AskGitHub
    BY <1>1, <2>2
  <2>4. PICK ok \in SUBSET DOMAIN requests : GraphResult(ok) /\ ok = Answerable
    BY <2>3, AskIs DEF Fails, Whole
  <2>5. PICK i \in DOMAIN requests : requests[i] = q
    BY <2>1, RequestsAre DEF Whole, Typed
  <2>6. \A j, k \in DOMAIN requests : requests[j].mod = requests[k].mod => j = k
    <3>1. ASSUME NEW j \in DOMAIN requests, NEW k \in DOMAIN requests,
                 requests[j].mod = requests[k].mod
          PROVE  j = k
      <4> DEFINE n == requests[j].mod
      <4>1. n \in Mods /\ requests[j].source \in From(n, {"github"})
            /\ requests[k].source \in From(n, {"github"})
        BY <3>1, RequestsAre, OriginParts DEF Whole, Typed, GitHubOrigin
      <4> HIDE DEF n
      <4>2. requests[j].source = requests[k].source
        BY <4>1, PlainIs, CountedHosts DEF Whole, Typed
      <4> QED
        BY <4>2, RequestsAre DEF Whole, Typed
    <3> QED
      BY <3>1
  <2>7. i \in Answerable
    BY <2>1, <2>5, <2>6 DEF Answerable, Queried
  <2>8. <<m, s>> \in Heard(ok)
    BY <1>5, <2>1, <2>4, <2>5, <2>7, HeardIs DEF Whole, Typed
  <2>9. answered' = Heard(ok)
    BY <2>4, ResultIs DEF Whole, Typed
  <2> QED
    BY <2>8, <2>9 DEF ReachedBy
<1> QED
  BY <1>1, <1>2, <1>3, <1>4, <1>5 DEF ReachedBy

LEMMA ReachedLookSpaceDock ==
  ASSUME Whole, LookSpaceDock, NEW m \in Mods, NEW h \in Counted, NEW s \in From(m, {h}) \ Dead,
         ReachedBy(m, h, s)
  PROVE  ReachedBy(m, h, s)'
<1>1. /\ Look("spacedock") /\ stage' = "walk" /\ sdIds' = Put(sdIds, CurrentMod, Source)
      /\ UNCHANGED <<github, iaIds, counts, answered>>
  BY DEF LookSpaceDock
<1>2. stage = "walk" /\ UNCHANGED requests
  BY <1>1, LookIs DEF Whole, github
<1>3. BeforeSpaceDock' /\ BeforeGitHub' /\ BeforeArchive'
  BY <1>1, StageSets
<1>4. /\ DOMAIN sdIds' = DOMAIN sdIds \cup {CurrentMod} /\ sdIds'[CurrentMod] = Source
      /\ \A k \in DOMAIN sdIds : k # CurrentMod => sdIds'[k] = sdIds[k]
  <2> DEFINE dict == Put(sdIds, CurrentMod, Source)
  <2>1. /\ DOMAIN dict = DOMAIN sdIds \cup {CurrentMod} /\ dict[CurrentMod] = Source
        /\ \A k \in DOMAIN sdIds : k # CurrentMod => dict[k] = sdIds[k]
    BY DEF Put
  <2>2. sdIds' = dict
    BY <1>1
  <2> HIDE DEF dict
  <2> QED
    BY <2>1, <2>2
<1>5. CASE h = "spacedock" /\ m = CurrentMod /\ (InWork(m, h, s) \/ m \in DOMAIN sdIds)
  <2>1. Source \in From(m, {"spacedock"})
    BY <1>1, <1>5, LookIs DEF Whole
  <2>2. Source = s
    BY <1>5, <2>1, PlainIs DEF Whole, Typed
  <2>3. m \in DOMAIN sdIds' /\ sdIds'[m] = s
    BY <1>4, <1>5, <2>2
  <2> QED
    BY <1>3, <1>5, <2>3 DEF ReachedBy
<1>6. CASE h = "spacedock" /\ m # CurrentMod /\ m \in DOMAIN sdIds /\ sdIds[m] = s
  <2>1. m \in DOMAIN sdIds' /\ sdIds'[m] = s
    BY <1>4, <1>6
  <2> QED
    BY <1>3, <1>6, <2>1 DEF ReachedBy
<1>7. CASE InWork(m, h, s)'
  BY <1>7 DEF ReachedBy
<1> QED
  BY <1>1, <1>2, <1>3, <1>5, <1>6, <1>7, LookWork DEF ReachedBy, Whole

\* The other entries stay where they are when one is credited.
LEMMA ReachedCredit ==
  ASSUME Whole, NEW got, Credit(got), UNCHANGED <<requests, sdIds>>,
         NEW m \in Mods, NEW h \in Counted, NEW s \in From(m, {h}) \ Dead,
         ReachedBy(m, h, s),
         InWork(m, h, s) => InWork(m, h, s)' \/ <<m, s>> \in got,
         h = "github" /\ BeforeGitHub => BeforeGitHub',
         h = "spacedock" /\ BeforeSpaceDock /\ m \in DOMAIN sdIds /\ sdIds[m] = s =>
           BeforeSpaceDock' \/ <<m, s>> \in got,
         h = "archive" /\ BeforeArchive /\ <<m, s>> \in iaIds =>
           (BeforeArchive' /\ <<m, s>> \in iaIds') \/ <<m, s>> \in got
  PROVE  ReachedBy(m, h, s)'
<1>1. answered' = answered \cup got
  BY DEF Credit
<1> QED
  BY <1>1 DEF ReachedBy

\* And when nothing is.
LEMMA ReachedStill ==
  ASSUME UNCHANGED <<requests, sdIds, answered>>, NEW m, NEW h, NEW s, ReachedBy(m, h, s),
         InWork(m, h, s) => InWork(m, h, s)',
         h = "github" /\ BeforeGitHub => BeforeGitHub',
         h = "spacedock" /\ BeforeSpaceDock => BeforeSpaceDock',
         h = "archive" /\ BeforeArchive /\ <<m, s>> \in iaIds => BeforeArchive' /\ <<m, s>> \in iaIds'
  PROVE  ReachedBy(m, h, s)'
BY DEF ReachedBy

LEMMA ReachedLookArchive ==
  ASSUME Whole, LookArchive, NEW m \in Mods, NEW h \in Counted, NEW s \in From(m, {h}) \ Dead,
         ReachedBy(m, h, s)
  PROVE  ReachedBy(m, h, s)'
<1>1. /\ Look("archive") /\ stage' = "walk" /\ UNCHANGED github /\ UNCHANGED sdIds
      /\ \/ AskArchive(NextIds) /\ iaIds' = {}
         \/ iaIds' = NextIds /\ UNCHANGED <<counts, answered>>
  BY LookArchiveIs DEF Whole, Fails
<1>2. stage = "walk" /\ UNCHANGED requests
  BY <1>1, LookIs DEF Whole, github
<1>3. BeforeSpaceDock' /\ BeforeGitHub' /\ BeforeArchive'
  BY <1>1, StageSets
<1>4. InWork(m, h, s) => InWork(m, h, s)' \/ (h = "archive" /\ <<m, s>> \in NextIds)
  BY <1>1, LookWork, NextIdsAre DEF Whole
<1>5. h = "archive" /\ <<m, s>> \in iaIds => <<m, s>> \in NextIds
  <2>1. CASE m # CurrentMod
    BY <1>1, <2>1, NextIdsAre DEF Whole
  <2>2. CASE m = CurrentMod /\ h = "archive"
    <3>1. Source \in From(m, {"archive"})
      BY <1>1, <2>2, LookIs DEF Whole
    <3>2. Source = s
      BY <2>2, <3>1, PlainIs DEF Whole, Typed
    <3> QED
      BY <1>1, <2>2, <3>2, NextIdsAre DEF Whole
  <2> QED
    BY <2>1, <2>2
<1>6. CASE AskArchive(NextIds) /\ iaIds' = {}
  <2>1. PICK got \in SUBSET Living(NextIds) : Credit(got) /\ got = Living(NextIds)
    BY <1>6, AskArchiveIs DEF Whole, Fails
  <2>2. <<m, s>> \in NextIds => <<m, s>> \in got
    BY <2>1 DEF Living
  <2> QED
    BY <1>1, <1>2, <1>3, <1>4, <1>5, <2>1, <2>2, ReachedCredit
<1>7. CASE iaIds' = NextIds /\ UNCHANGED answered
  <2>1. CASE InWork(m, h, s)' \/ ~InWork(m, h, s)
    BY <1>1, <1>2, <1>3, <1>5, <1>7, <2>1 DEF ReachedBy
  <2>2. CASE h = "archive" /\ <<m, s>> \in NextIds
    BY <1>3, <1>7, <2>2 DEF ReachedBy
  <2> QED
    BY <1>4, <2>1, <2>2
<1> QED
  BY <1>1, <1>6, <1>7

LEMMA ReachedLookSourceForge ==
  ASSUME Whole, LookSourceForge, NEW m \in Mods, NEW h \in Counted, NEW s \in From(m, {h}) \ Dead,
         ReachedBy(m, h, s)
  PROVE  ReachedBy(m, h, s)'
<1> DEFINE got == Living({<<CurrentMod, Source>>})
<1>1. Look("sourceforge") /\ stage' = "walk" /\ UNCHANGED queries /\ Credit(got)
  BY LookSourceForgeIs DEF Whole, Fails
<1>2. stage = "walk" /\ UNCHANGED <<requests, sdIds, iaIds>>
  BY <1>1, LookIs DEF Whole, queries, github
<1>3. BeforeSpaceDock' /\ BeforeGitHub' /\ BeforeArchive'
  BY <1>1, StageSets
<1>4. m = CurrentMod /\ s = Source => <<m, s>> \in got
  BY DEF Living
<1>5. InWork(m, h, s) => InWork(m, h, s)' \/ <<m, s>> \in got
  BY <1>1, <1>4, LookWork DEF Whole
<1> HIDE DEF got
<1> QED
  BY <1>1, <1>2, <1>3, <1>5, ReachedCredit

LEMMA ReachedLookElsewhere ==
  ASSUME Whole, LookElsewhere, NEW m \in Mods, NEW h \in Counted, NEW s \in From(m, {h}) \ Dead,
         ReachedBy(m, h, s)
  PROVE  ReachedBy(m, h, s)'
<1>1. stage' = "walk" /\ UNCHANGED queries /\ UNCHANGED <<counts, answered>>
  BY LookElsewhereIs
<1>2. PICK g : Look(g) /\ g \notin Counted
  BY LookElsewhereIs DEF Whole
<1>3. stage = "walk" /\ UNCHANGED <<requests, sdIds, iaIds>>
  BY <1>1, <1>2, LookIs DEF Whole, queries, github
<1>4. BeforeSpaceDock' /\ BeforeGitHub' /\ BeforeArchive'
  BY <1>1, StageSets
<1>5. InWork(m, h, s) => InWork(m, h, s)'
  BY <1>2, LookWork DEF Whole
<1> QED
  BY <1>1, <1>3, <1>4, <1>5, ReachedStill

LEMMA ReachedLastSpaceDock ==
  ASSUME Whole, LastSpaceDock, NEW m \in Mods, NEW h \in Counted, NEW s \in From(m, {h}) \ Dead,
         ReachedBy(m, h, s)
  PROVE  ReachedBy(m, h, s)'
<1>1. stage' = "github" /\ UNCHANGED <<meta, work, queries, file>>
  BY LastSpaceDockIs
<1>2. PICK got \in SUBSET Living(SpaceDockIds) : Credit(got) /\ got = Living(SpaceDockIds)
  BY LastSpaceDockIs DEF Whole, Fails
<1>3. UNCHANGED <<requests, sdIds, iaIds>> /\ BeforeGitHub' /\ BeforeArchive'
  BY <1>1, StageSets DEF queries, github
<1>4. InWork(m, h, s) => InWork(m, h, s)'
  BY <1>1, SameWork
<1>5. m \in DOMAIN sdIds /\ sdIds[m] = s => <<m, s>> \in got
  BY <1>2, SpaceDockIdsAre DEF Living, Whole
<1> QED
  BY <1>2, <1>3, <1>4, <1>5, ReachedCredit

LEMMA ReachedLastArchive ==
  ASSUME Whole, LastArchive, NEW m \in Mods, NEW h \in Counted, NEW s \in From(m, {h}) \ Dead,
         ReachedBy(m, h, s)
  PROVE  ReachedBy(m, h, s)'
<1>1. /\ stage = "archive" /\ UNCHANGED <<meta, work, queries, file>>
      /\ \/ iaIds \in {NoQuery, {}} /\ UNCHANGED <<counts, answered>> /\ Works
         \/ AskArchive(iaIds)
  BY LastArchiveIs
<1>2. UNCHANGED <<requests, sdIds, iaIds>> /\ ~BeforeGitHub /\ ~BeforeSpaceDock
  BY <1>1, StageSets DEF queries, github
<1>3. InWork(m, h, s) => InWork(m, h, s)'
  BY <1>1, SameWork
<1>4. CASE iaIds = {} /\ UNCHANGED answered
  BY <1>2, <1>3, <1>4, ReachedStill
<1>5. CASE AskArchive(iaIds)
  <2>1. PICK got \in SUBSET Living(iaIds) : Credit(got) /\ got = Living(iaIds)
    BY <1>5, AskArchiveIs DEF Whole, Fails
  <2>2. <<m, s>> \in iaIds => <<m, s>> \in got
    BY <2>1 DEF Living
  <2> QED
    BY <1>2, <1>3, <2>1, <2>2, ReachedCredit
<1> QED
  BY <1>1, <1>4, <1>5 DEF Whole

\* A step after which the run goes on and no request has failed.
LEMMA Unfailed ==
  ASSUME [Next]_vars, ~Start, stage' # "off", ~failed'
  PROVE  /\ ~failed /\ stage # "off" /\ ~AskRaises /\ ~RunRaises /\ ~WalkRaises
         /\ iaIds # NoQuery => LookArchive \/ iaIds' = {} \/ UNCHANGED iaIds
<1>1. CASE LookGitHub \/ LookSpaceDock \/ LookSourceForge \/ LookElsewhere \/ LookArchive
  <2>1. /\ UNCHANGED iaIds \/ LookArchive
        /\ \E host : Look(host)
    BY <1>1 DEF LookGitHub, LookSpaceDock, LookArchive, LookSourceForge, LookElsewhere, queries
  <2>2. stage = "walk"
    BY <2>1 DEF Look
  <2>3. Works \/ Fails
    BY <1>1 DEF LookGitHub, LookSpaceDock, LookArchive, LookSourceForge, LookElsewhere, AskArchive
  <2> QED
    BY <2>1, <2>2, <2>3, <1>1
    DEF Works, Fails, AskRaises, RunRaises, WalkRaises, LookGitHub, LookSpaceDock, LookArchive,
        LookSourceForge, LookElsewhere, Look
<1>2. CASE AskFull \/ AskRaises \/ WalkEnds \/ LastSpaceDock \/ LastGitHub \/ LastArchive
  <2>1. UNCHANGED iaIds
    BY <1>2 DEF AskFull, AskRaises, WalkEnds, LastSpaceDock, LastGitHub, LastArchive, queries
  <2>2. stage # "off"
    BY <1>2 DEF AskFull, AskRaises, WalkEnds, LastSpaceDock, LastGitHub, LastArchive
  <2>3. Works \/ Fails
    BY <1>2 DEF AskFull, AskRaises, WalkEnds, LastSpaceDock, LastGitHub, LastArchive,
       AskGitHub, AskArchive
  <2> QED
    BY <2>1, <2>2, <2>3 DEF Works, Fails, AskRaises, RunRaises, WalkRaises
<1>3. CASE Write \/ Push \/ RunRaises \/ WalkRaises \/ OthersPush \/ UNCHANGED vars
  BY <1>3 DEF Write, Push, RunRaises, WalkRaises, OthersPush, vars, NewQueries, Works, Fails, queries,
     AskRaises
<1> QED
  BY <1>1, <1>2, <1>3 DEF Next, Run

LEMMA ArchiveOn ==
  ASSUME Typed, LookArchive, ~failed'
  PROVE  iaIds' # NoQuery
<1>1. Look("archive") /\ iaIds # NoQuery /\ iaIds' \in {{}, NextIds}
  BY LookArchiveIs DEF Fails
<1>2. NextIds \subseteq Mods \X Sources
  BY <1>1, NextIdsAre
<1>3. Off \notin NextIds
  BY <1>2, CounterAssumption
<1> QED
  BY <1>1, <1>3 DEF NoQuery

LEMMA ReachedStep ==
  ASSUME Typed, Typed', AllKept, AllReached, [Next]_vars
  PROVE  AllReached'
<1> SUFFICES ASSUME stage' # "off", ~failed'
             PROVE  /\ iaIds' # NoQuery
                    /\ (\A m \in Mods : Plain(m)') => \A m \in Mods : Reached(m)'
  BY DEF AllReached
<1>1. CASE Start
  <2>1. iaIds' # NoQuery
    BY <1>1 DEF Start, NewQueries, NoQuery
  <2>2. \A m \in Mods : Reached(m)'
    BY <1>1, StartFrom, ReachedIs DEF ReachedBy
  <2> QED
    BY <2>1, <2>2
<1>2. CASE ~Start
  <2>1. /\ ~failed /\ stage # "off" /\ ~AskRaises /\ ~RunRaises /\ ~WalkRaises
        /\ iaIds # NoQuery => LookArchive \/ iaIds' = {} \/ UNCHANGED iaIds
    BY <1>2, Unfailed
  <2>2. iaIds # NoQuery
    BY <2>1 DEF AllReached
  <2>3. iaIds' # NoQuery
    BY <2>1, <2>2, ArchiveOn DEF NoQuery
  <2>4. UNCHANGED newest
    BY <1>2, NewestSame
  <2>5. ASSUME \A m \in Mods : Plain(m)', NEW m \in Mods PROVE Reached(m)'
    <3>1. \A n \in Mods : Plain(n) /\ Kept(n)
      BY <2>4, <2>5, MetaSame DEF AllKept
    <3>2. Whole
      BY <2>2, <3>1 DEF Whole
    <3>3. Reached(m)
      BY <2>1, <3>1 DEF AllReached
    <3>4. ASSUME NEW h \in Counted, NEW s \in From(m, {h}) \ Dead, ReachedBy(m, h, s)
          PROVE  ReachedBy(m, h, s)'
      <4>1. CASE LookGitHub \/ LookSpaceDock \/ LookArchive \/ LookSourceForge \/ LookElsewhere
        BY <3>2, <3>4, <4>1, ReachedLookGitHub, ReachedLookSpaceDock, ReachedLookArchive,
           ReachedLookSourceForge, ReachedLookElsewhere
      <4>2. CASE AskFull \/ LastSpaceDock \/ LastGitHub \/ LastArchive
        BY <3>2, <3>4, <4>2, ReachedAskFull, ReachedLastSpaceDock, ReachedLastGitHub,
           ReachedLastArchive
      <4>3. CASE WalkEnds \/ OthersPush \/ UNCHANGED vars
        <5>1. /\ UNCHANGED <<requests, sdIds, iaIds, answered, work>>
              /\ UNCHANGED stage \/ stage' = "spacedock"
          BY <4>3 DEF WalkEnds, OthersPush, vars, queries, github
        <5>2. InWork(m, h, s) => InWork(m, h, s)'
          BY <5>1, SameWork
        <5> QED
          BY <3>4, <5>1, <5>2, StageSets, ReachedStill
      <4>4. CASE Write
        <5>1. stage = "write" /\ UNCHANGED <<answered, work>>
          BY <4>4 DEF Write
        <5>2. InWork(m, h, s) => InWork(m, h, s)'
          BY <5>1, SameWork
        <5> QED
          BY <3>4, <5>1, <5>2, StageSets DEF ReachedBy
      <4>5. ~Push
        BY DEF Push
      <4> QED
        BY <1>2, <2>1, <4>1, <4>2, <4>3, <4>4, <4>5 DEF Next, Run
    <3>5. \A h : From(m, {h})' = From(m, {h})
      BY <2>4, MetaSame
    <3> QED
      BY <3>3, <3>4, <3>5, ReachedIs
  <2> QED
    BY <2>3, <2>5
<1> QED
  BY <1>1, <1>2

-----------------------------------------------------------------------------
(* The theorems.                                                           *)

LEMMA CounterIs ==
  /\ CounterInv <=> Typed /\ AllKept /\ AllReached
  /\ CounterInv' <=> Typed' /\ AllKept' /\ AllReached'
BY DEF CounterInv, Typed, AllKept, Kept

LEMMA InitInv == Init => CounterInv
<1> SUFFICES ASSUME Init PROVE CounterInv
  OBVIOUS
<1>1. AllReached
  BY DEF Init, AllReached
<1> QED
  BY <1>1, TypedInit, KeptInit, CounterIs DEF AllKept

LEMMA NextInv == CounterInv /\ [Next]_vars => CounterInv'
<1> SUFFICES ASSUME CounterInv, [Next]_vars PROVE CounterInv'
  OBVIOUS
<1>1. Typed /\ AllKept /\ AllReached
  BY CounterIs
<1>2. Typed'
  BY <1>1, TypedStep
<1> QED
  BY <1>1, <1>2, KeptStep, ReachedStep, CounterIs

\* Throughout every run, each download of a mod is in the walk, waits in one
\* query, or was answered for and is in the sum: whatever the releases, the sizes
\* of the batches, and the requests that fail.
THEOREM Invariance == FairSpec => []CounterInv
<1> QED
  BY InitInv, NextInv, PTL DEF FairSpec

\* The run's state has its types: no repository is asked for twice in a query
\* (graphql_query), and the newest release is one of the mod's.
THEOREM TypeCorrect == FairSpec => []TypeOK
<1>1. CounterInv => TypeOK
  BY DEF CounterInv
<1> QED
  BY <1>1, Invariance, PTL

LEMMA CountedOnceHolds == CounterInv => CountedOnce
<1> SUFFICES ASSUME CounterInv, Ready, NEW m \in Mods, Plain(m)
             PROVE  counts[m] = SumOf({s \in Sources : <<m, s>> \in answered})
  BY DEF CountedOnce
<1>1. Typed /\ Kept(m)
  BY CounterIs DEF AllKept
<1>2. stage \in {"write", "push"}
  BY DEF Ready
<1>3. work = <<>>
  BY <1>1, <1>2 DEF Typed, Position
<1>4. \A s : <<m, s>> \in answered => ~Waits(m, s)
  <2>1. CASE stage = "write"
    <3>1. Asking /\ ~BeforeGitHub
      BY <2>1, StageSets
    <3> QED
      BY <1>1, <1>3, <3>1, NoWork DEF Kept, Known, Waits
  <2>2. CASE stage = "push"
    <3>1. DOMAIN repos = {}
      BY <1>1, <2>2, StageSets DEF Typed, Position
    <3> QED
      BY <1>3, <3>1, NoWork DEF Waits
  <2> QED
    BY <1>2, <2>1, <2>2
<1>5. Got(m) = {s \in Sources : <<m, s>> \in answered}
  BY <1>4 DEF Got
<1> QED
  BY <1>1, <1>2, <1>5 DEF Kept, Summed

\* Whichever batch a source was asked in and whoever shares the repository, the
\* sum written for a mod has each source that answered once.
THEOREM CountedRight == FairSpec => []CountedOnce
BY CountedOnceHolds, Invariance, PTL

LEMMA NoneLeftOutHolds == CounterInv => NoneLeftOut
<1> SUFFICES ASSUME CounterInv, Ready, ~failed, due # Off, NEW m \in Mods, NEW s \in AllSources(m)
             PROVE  <<m, s>> \in answered
  BY DEF NoneLeftOut
<1>1. Typed /\ AllReached
  BY CounterIs
<1>2. stage \in {"write", "push"}
  BY DEF Ready
<1>3. work = <<>> /\ \A n \in Mods : Plain(n)
  BY <1>1, <1>2 DEF Typed, Position
<1>4. Reached(m)
  BY <1>1, <1>2, <1>3 DEF AllReached
<1>5. PICK h \in Counted : s \in From(m, {h}) \ Dead
  BY <1>1, FromIs DEF AllSources, Typed
<1>6. ReachedBy(m, h, s)
  BY <1>4, <1>5, ReachedIs
<1> QED
  BY <1>2, <1>3, <1>6, NoWork, StageSets DEF ReachedBy

\* When the file is written after a run without a failed request, every living
\* source of every mod has answered.
THEOREM NoneLeft == FairSpec => []NoneLeftOut
BY NoneLeftOutHolds, Invariance, PTL

LEMMA NewestHolds == CounterInv => NewestHasNoNewer
<1> SUFFICES ASSUME CounterInv, NEW m \in Walked, stage # "off"
             PROVE  IF Stable(releases[m]) = {} THEN newest[m] = NoRelease
                    ELSE \A i \in Stable(releases[m]) :
                           ~Gt(releases[m][i].version, newest[m].version)
  BY DEF NewestHasNoNewer, Stable
<1>1. Typed
  BY CounterIs
<1>2. m \in Mods
  BY DEF Walked
<1>3. newest[m] = Highest(releases[m], FALSE, NoRelease)
  BY <1>1, <1>2 DEF Typed, Position, Latest, Newest
<1>4. releases[m] \in Seq(Release)
  BY <1>1, <1>2 DEF Typed, TypeOK
<1> QED
  BY <1>3, <1>4, HighestIsMaximal DEF ChosenOf

\* Highest, a fold over the releases in any order, chooses one that none is
\* above, by the strict order of Gt.
THEOREM NewestChosen == FairSpec => []NewestHasNoNewer
BY NewestHolds, Invariance, PTL
=============================================================================
