---------------------------- MODULE PollSumProofs ----------------------------
(***************************************************************************)
(* Theorems about PollSum for any number of clients, values and runs and   *)
(* any size of the fifos.                                                  *)
(***************************************************************************)
EXTENDS PollSum, FiniteSetTheorems, SequenceTheorems, WellFoundedInduction, TLAPS
-----------------------------------------------------------------------------
(***************************************************************************)
(* Sums. The fold they are made with is a recursive function; what it      *)
(* computes is proved by induction in the form of the least counterexample.*)
(***************************************************************************)

\* A set of natural numbers has a least element.
LEMMA Least ==
    ASSUME NEW B \in SUBSET Nat, B # {}
    PROVE  \E n \in B : \A m \in B : n <= m
<1> DEFINE R == OpToRel(<, Nat)
<1>1. \A m, n \in Nat : <<m, n>> \in R <=> m < n
  BY DEF OpToRel
<1>2. IsWellFoundedOn(R, Nat)
  BY NatLessThanWellFounded
<1> HIDE DEF R
<1>3. PICK n \in B : \A m \in B : ~(<<m, n>> \in R)
  BY <1>2, WFMin
<1>4. ASSUME NEW m \in B PROVE n <= m
  <2>1. m \in Nat /\ n \in Nat /\ ~(m < n)
    BY <1>1, <1>3
  <2> QED BY <2>1
<1> QED BY <1>3, <1>4

\* So has a set of subsets of a finite set.
LEMMA LeastSet ==
    ASSUME NEW S, IsFiniteSet(S), NEW B \in SUBSET (SUBSET S), B # {}
    PROVE  \E T \in B : \A U \in B : U \subseteq T => U = T
<1>1. B \subseteq FiniteSubsetsOf(S)
  BY FS_Subset DEF FiniteSubsetsOf
<1>2. \E T \in B : \A U \in B : ~(<<U, T>> \in StrictSubsetOrdering(S))
  BY <1>1, FS_StrictSubsetOrderingWellFounded, WFMin
<1> QED BY <1>2 DEF StrictSubsetOrdering

Pick(T) == CHOOSE t \in T : TRUE

\* A subset without the element that was picked is a smaller one.
LEMMA Picked ==
    ASSUME NEW S, IsFiniteSet(S), NEW T \in SUBSET S, T # {}
    PROVE  /\ Pick(T) \in T /\ IsFiniteSet(T) /\ T \ {Pick(T)} \in SUBSET S /\ T \ {Pick(T)} # T
           /\ IsFiniteSet(T \ {Pick(T)}) /\ Cardinality(T) \in Nat \ {0}
           /\ Cardinality(T \ {Pick(T)}) = Cardinality(T) - 1
<1>1. Pick(T) \in T
  BY DEF Pick
<1>2. IsFiniteSet(T) /\ Cardinality(T) \in Nat /\ Cardinality(T) # 0
  BY FS_Subset, FS_CardinalityType, FS_EmptySet
<1>3. IsFiniteSet(T \ {Pick(T)}) /\ Cardinality(T \ {Pick(T)}) = Cardinality(T) - 1
  BY <1>1, <1>2, FS_RemoveElement
<1> QED BY <1>1, <1>2, <1>3

\* g is the table the fold of S is read from.
Adds(f, S, g) ==
    /\ Total(f, S) = g[S]
    /\ g[{}] = 0
    /\ \A T \in SUBSET S : T # {} => g[T] = f[Pick(T)] + g[T \ {Pick(T)}]

\* The fold of a finite set goes through it element by element.
LEMMA FoldWorks ==
    ASSUME NEW f, NEW S, IsFiniteSet(S)
    PROVE  \E g : Adds(f, S, g)
<1> DEFINE Step(g, T) == IF T = {} THEN 0 ELSE f[Pick(T)] + g[T \ {Pick(T)}]
           Fold(g) == g = [T \in SUBSET S |-> Step(g, T)]
           Good(g, n) == \A T \in SUBSET S : Cardinality(T) <= n => g[T] = Step(g, T)
           N == Cardinality(S)
           Bad == {n \in Nat : n <= N /\ ~\E g : g = [T \in SUBSET S |-> g[T]] /\ Good(g, n)}
<1>1. Total(f, S) = (CHOOSE g : Fold(g))[S]
  BY DEF Total, MapThenFoldSet, Plus, Pick
<1>2. N \in Nat /\ \A T \in SUBSET S : Cardinality(T) \in Nat /\ Cardinality(T) <= N
  BY FS_CardinalityType, FS_Subset
<1>3. Bad = {}
  <2> SUFFICES ASSUME Bad # {} PROVE FALSE
    OBVIOUS
  <2>1. Bad \in SUBSET Nat
    OBVIOUS
  <2>2. PICK n \in Bad : \A m \in Bad : n <= m
    BY <2>1, Least
  <2>3. n # 0
    <3> SUFFICES ASSUME n = 0 PROVE FALSE
      OBVIOUS
    <3> DEFINE z == [T \in SUBSET S |-> 0]
    <3>1. \A T \in SUBSET S : Cardinality(T) <= 0 => T = {}
      BY <1>2, FS_Subset, FS_EmptySet
    <3>2. z = [T \in SUBSET S |-> z[T]] /\ Good(z, 0)
      BY <3>1
    <3> HIDE DEF z
    <3> QED BY <3>2
  <2>4. n - 1 \in Nat /\ n - 1 \notin Bad /\ n - 1 <= N
    <3>1. n \in Nat /\ n <= N
      BY <2>1
    <3>2. n - 1 \in Nat /\ n - 1 <= N /\ ~(n <= n - 1)
      BY <1>2, <2>3, <3>1
    <3> HIDE DEF Bad
    <3> QED BY <2>2, <3>2
  <2>5. PICK g : g = [T \in SUBSET S |-> g[T]] /\ Good(g, n - 1)
    BY <2>4
  <2> DEFINE h == [T \in SUBSET S |-> Step(g, T)]
  <2>6. \A T \in SUBSET S : h[T] = Step(g, T)
    OBVIOUS
  <2>7. h = [T \in SUBSET S |-> h[T]]
    OBVIOUS
  <2> HIDE DEF h
  <2>8. ASSUME NEW T \in SUBSET S, Cardinality(T) <= n PROVE h[T] = Step(h, T)
    <3>1. CASE T = {}
      BY <2>6, <3>1
    <3>2. CASE T # {}
      <4>1. /\ T \ {Pick(T)} \in SUBSET S /\ Cardinality(T \ {Pick(T)}) = Cardinality(T) - 1
            /\ Cardinality(T) \in Nat
        BY <3>2, Picked
      <4>2. Cardinality(T \ {Pick(T)}) <= n - 1
        BY <2>1, <2>8, <4>1
      <4>3. g[T \ {Pick(T)}] = h[T \ {Pick(T)}]
        BY <2>5, <2>6, <4>1, <4>2
      <4> QED BY <2>6, <3>2, <4>3
    <3> QED BY <3>1, <3>2
  <2> QED BY <2>7, <2>8
<1>4. \E g : Fold(g)
  <2>1. N \notin Bad
    BY <1>3
  <2>2. PICK g : g = [T \in SUBSET S |-> g[T]] /\ Good(g, N)
    BY <1>2, <2>1
  <2>3. \A T \in SUBSET S : g[T] = Step(g, T)
    BY <1>2, <2>2
  <2>4. g = [T \in SUBSET S |-> Step(g, T)]
    BY <2>2, <2>3
  <2> QED BY <2>4
<1>5. PICK g : g = (CHOOSE h : Fold(h))
  OBVIOUS
<1>6. Total(f, S) = g[S]
  BY <1>1, <1>5
<1>7. Fold(g)
  <2> HIDE DEF Fold
  <2> QED BY <1>4, <1>5
<1>8. \A T \in SUBSET S : g[T] = Step(g, T)
  BY <1>7
<1> HIDE DEF Fold
<1>9. g[{}] = 0
  <2>1. {} \in SUBSET S
    OBVIOUS
  <2> QED BY <1>8, <2>1
<1>10. Adds(f, S, g)
  BY <1>6, <1>8, <1>9 DEF Adds
<1> QED BY <1>10

LEMMA TotalPick ==
    ASSUME NEW f, NEW S, IsFiniteSet(S)
    PROVE  /\ S = {} => Total(f, S) = 0
           /\ S # {} => Total(f, S) = f[Pick(S)] + Total(f, S \ {Pick(S)})
<1>1. PICK g : Adds(f, S, g)
  BY FoldWorks
<1>2. CASE S = {}
  BY <1>1, <1>2 DEF Adds
<1>3. CASE S # {}
  <2> DEFINE V == S \ {Pick(S)}
  <2>1. V \in SUBSET S /\ IsFiniteSet(V)
    BY <1>3, Picked
  <2>2. PICK h : Adds(f, V, h)
    BY <2>1, FoldWorks
  <2> HIDE DEF V
  <2> DEFINE Bad == {T \in SUBSET V : g[T] # h[T]}
  <2>3. Bad = {}
    <3> SUFFICES ASSUME Bad # {} PROVE FALSE
      OBVIOUS
    <3>1. Bad \in SUBSET (SUBSET V)
      OBVIOUS
    <3>2. PICK T \in Bad : \A U \in Bad : U \subseteq T => U = T
      <4> HIDE DEF Bad
      <4> QED BY <2>1, <3>1, LeastSet
    <3>3. T \in SUBSET V /\ T \in SUBSET S /\ g[T] # h[T]
      BY <2>1, <3>2
    <3>4. T # {}
      BY <1>1, <2>2, <3>3 DEF Adds
    <3>5. T \ {Pick(T)} \in SUBSET V /\ T \ {Pick(T)} # T
      BY <2>1, <3>3, <3>4, Picked
    <3>6. g[T \ {Pick(T)}] = h[T \ {Pick(T)}]
      BY <3>2, <3>5
    <3> QED BY <1>1, <2>2, <3>3, <3>4, <3>6 DEF Adds
  <2>4. g[V] = h[V]
    BY <2>3
  <2>5. g[S] = f[Pick(S)] + g[V]
    BY <1>1, <1>3 DEF V, Adds
  <2> QED BY <1>1, <1>3, <2>2, <2>4, <2>5 DEF V, Adds
<1> QED BY <1>2, <1>3

\* A sum of integers is one.
LEMMA TotalType ==
    ASSUME NEW f, NEW S, IsFiniteSet(S), \A x \in S : f[x] \in Int
    PROVE  Total(f, S) \in Int
<1> DEFINE Bad == {T \in SUBSET S : Total(f, T) \notin Int}
<1>1. Bad = {}
  <2> SUFFICES ASSUME Bad # {} PROVE FALSE
    OBVIOUS
  <2>1. PICK T \in Bad : \A U \in Bad : U \subseteq T => U = T
    <3>1. Bad \in SUBSET (SUBSET S)
      OBVIOUS
    <3> HIDE DEF Bad
    <3> QED BY <3>1, LeastSet
  <2>2. T \in SUBSET S /\ IsFiniteSet(T) /\ Total(f, T) \notin Int
    BY <2>1, FS_Subset
  <2>3. T # {}
    BY <2>2, TotalPick
  <2>4. Pick(T) \in S /\ T \ {Pick(T)} \in SUBSET S /\ T \ {Pick(T)} # T
    BY <2>2, <2>3, Picked
  <2>5. Total(f, T \ {Pick(T)}) \in Int
    BY <2>1, <2>4
  <2> QED BY <2>2, <2>3, <2>4, <2>5, TotalPick
<1> QED BY <1>1

\* The order in which the elements are added up does not matter.
LEMMA TotalRemove ==
    ASSUME NEW f, NEW S, IsFiniteSet(S), \A x \in S : f[x] \in Int, NEW e \in S
    PROVE  Total(f, S) = f[e] + Total(f, S \ {e})
<1> DEFINE Bad == {T \in SUBSET S : ~\A x \in T : Total(f, T) = f[x] + Total(f, T \ {x})}
<1>1. Bad = {}
  <2> SUFFICES ASSUME Bad # {} PROVE FALSE
    OBVIOUS
  <2>1. PICK T \in Bad : \A U \in Bad : U \subseteq T => U = T
    <3>1. Bad \in SUBSET (SUBSET S)
      OBVIOUS
    <3> HIDE DEF Bad
    <3> QED BY <3>1, LeastSet
  <2>2. PICK x \in T : Total(f, T) # f[x] + Total(f, T \ {x})
    BY <2>1
  <2>3. T \in SUBSET S /\ IsFiniteSet(T) /\ T # {}
    BY <2>1, <2>2, FS_Subset
  <2>4. PICK p : p = Pick(T)
    OBVIOUS
  <2>5. Total(f, T) = f[p] + Total(f, T \ {p}) /\ p \in T
    BY <2>3, <2>4, TotalPick, Picked
  <2>6. x # p
    BY <2>2, <2>5
  <2>7. Total(f, T \ {p}) = f[x] + Total(f, (T \ {p}) \ {x})
    <3>1. T \ {p} \notin Bad /\ T \ {p} \in SUBSET S /\ x \in T \ {p}
      BY <2>1, <2>2, <2>3, <2>5, <2>6
    <3> QED BY <3>1
  <2>8. Total(f, T \ {x}) = f[p] + Total(f, (T \ {x}) \ {p})
    <3>1. T \ {x} \notin Bad /\ T \ {x} \in SUBSET S /\ p \in T \ {x}
      BY <2>1, <2>2, <2>3, <2>5, <2>6
    <3> QED BY <3>1
  <2>9. (T \ {p}) \ {x} = (T \ {x}) \ {p}
    OBVIOUS
  <2> DEFINE R == Total(f, (T \ {x}) \ {p})
  <2>10. R \in Int /\ f[x] \in Int /\ f[p] \in Int
    <3>1. IsFiniteSet((T \ {x}) \ {p}) /\ (T \ {x}) \ {p} \in SUBSET S
      BY <2>3, FS_RemoveElement
    <3>2. Total(f, (T \ {x}) \ {p}) \in Int
      BY <3>1, TotalType
    <3> QED BY <2>2, <2>3, <2>5, <3>2
  <2>11. Total(f, T) = f[p] + (f[x] + R)
    BY <2>5, <2>7, <2>9
  <2>12. f[x] + Total(f, T \ {x}) = f[x] + (f[p] + R)
    BY <2>8
  <2> HIDE DEF R
  <2>13. f[p] + (f[x] + R) = f[x] + (f[p] + R)
    BY <2>10
  <2> QED BY <2>2, <2>11, <2>12, <2>13
<1>2. S \notin Bad
  BY <1>1
<1> QED BY <1>2

\* Only the values on the set matter.
LEMMA TotalSame ==
    ASSUME NEW f, NEW g, NEW S, IsFiniteSet(S), \A x \in S : f[x] = g[x]
    PROVE  Total(f, S) = Total(g, S)
<1> DEFINE Bad == {T \in SUBSET S : Total(f, T) # Total(g, T)}
<1>1. Bad = {}
  <2> SUFFICES ASSUME Bad # {} PROVE FALSE
    OBVIOUS
  <2>1. PICK T \in Bad : \A U \in Bad : U \subseteq T => U = T
    <3>1. Bad \in SUBSET (SUBSET S)
      OBVIOUS
    <3> HIDE DEF Bad
    <3> QED BY <3>1, LeastSet
  <2>2. T \in SUBSET S /\ IsFiniteSet(T) /\ Total(f, T) # Total(g, T)
    BY <2>1, FS_Subset
  <2>3. T # {}
    BY <2>2, TotalPick
  <2>4. Pick(T) \in S /\ T \ {Pick(T)} \in SUBSET S /\ T \ {Pick(T)} # T
    BY <2>2, <2>3, Picked
  <2>5. Total(f, T \ {Pick(T)}) = Total(g, T \ {Pick(T)})
    BY <2>1, <2>4
  <2> QED BY <2>2, <2>3, <2>4, <2>5, TotalPick
<1>2. S \notin Bad
  BY <1>1
<1> QED BY <1>2

\* A sum grows by what one of its summands grows.
LEMMA TotalGrows ==
    ASSUME NEW f, NEW g, NEW S, IsFiniteSet(S), \A x \in S : f[x] \in Int /\ g[x] \in Int,
           NEW e \in S, NEW d \in Int, g[e] = f[e] + d, \A x \in S : x # e => g[x] = f[x]
    PROVE  Total(f, S) \in Int /\ Total(g, S) = Total(f, S) + d
<1>1. Total(f, S) = f[e] + Total(f, S \ {e}) /\ Total(g, S) = g[e] + Total(g, S \ {e})
  BY TotalRemove
<1>2. IsFiniteSet(S \ {e})
  BY FS_RemoveElement
<1>3. Total(f, S \ {e}) = Total(g, S \ {e})
  BY <1>2, TotalSame
<1>4. Total(f, S \ {e}) \in Int
  BY <1>2, TotalType
<1>5. PICK x, y : x = f[e] /\ y = Total(f, S \ {e})
  OBVIOUS
<1>6. Total(f, S) = x + y /\ Total(g, S) = (x + d) + y
  BY <1>1, <1>3, <1>5
<1>7. x \in Int /\ y \in Int
  BY <1>4, <1>5
<1>8. x + y \in Int /\ (x + d) + y = (x + y) + d
  BY <1>7
<1> QED BY <1>6, <1>8

\* An empty fifo has nothing to add up.
LEMMA WordsNone == Words(<<>>) = 0
<1>1. DOMAIN (<<>>) = {} /\ IsFiniteSet({})
  BY FS_EmptySet
<1> QED BY <1>1, TotalPick DEF Words

\* The words of a fifo, when one is added at the end
LEMMA WordsAppend ==
    ASSUME NEW s \in Seq(Int), NEW w \in Int
    PROVE  Words(s) \in Int /\ Words(Append(s, w)) = Words(s) + w
<1> DEFINE t == Append(s, w)
           n == Len(s)
<1>1. /\ n \in Nat /\ DOMAIN s = 1..n /\ t \in Seq(Int) /\ DOMAIN t = 1..(n + 1) /\ t[n + 1] = w
      /\ \A k \in 1..n : t[k] = s[k] /\ s[k] \in Int
  OBVIOUS
<1> HIDE DEF t, n
<1>2. IsFiniteSet(1..n) /\ IsFiniteSet(1..(n + 1))
  BY <1>1, FS_Interval
<1>3. \A k \in 1..(n + 1) : t[k] \in Int
  BY <1>1
<1>4. Total(t, 1..(n + 1)) = w + Total(t, (1..(n + 1)) \ {n + 1})
  <2>1. n + 1 \in 1..(n + 1)
    BY <1>1
  <2> QED BY <1>1, <1>2, <1>3, <2>1, TotalRemove
<1>5. (1..(n + 1)) \ {n + 1} = 1..n
  BY <1>1
<1>6. Total(t, 1..n) = Total(s, 1..n)
  BY <1>1, <1>2, TotalSame
<1>7. Total(s, 1..n) \in Int
  BY <1>1, <1>2, TotalType
<1>8. Words(t) = Total(t, 1..(n + 1)) /\ Words(s) = Total(s, 1..n)
  BY <1>1 DEF Words
<1>9. Words(t) = w + Words(s)
  BY <1>4, <1>5, <1>6, <1>8
<1>10. Words(t) = Words(s) + w /\ Words(s) \in Int
  BY <1>7, <1>8, <1>9
<1> QED BY <1>10 DEF t

\* ... and when the first one is read
LEMMA WordsTail ==
    ASSUME NEW s \in Seq(Int), s # <<>>
    PROVE  Words(s) = Head(s) + Words(Tail(s))
<1> DEFINE t == Tail(s)
           n == Len(s)
<1>1. /\ n \in Nat \ {0} /\ DOMAIN s = 1..n /\ t \in Seq(Int) /\ DOMAIN t = 1..(n - 1) /\ s[1] = Head(s)
      /\ \A k \in 1..(n - 1) : t[k] = s[k + 1] /\ t[k] \in Int
      /\ \A k \in 1..n : s[k] \in Int
  OBVIOUS
<1> HIDE DEF t, n
<1>2. \A a, b \in Int : IsFiniteSet(a..b)
  BY FS_Interval
<1> DEFINE Bad == {k \in Nat : k < n /\ Total(s, 2..(k + 1)) # Total(t, 1..k)}
<1>3. Bad = {}
  <2> SUFFICES ASSUME Bad # {} PROVE FALSE
    OBVIOUS
  <2>1. PICK k \in Bad : \A m \in Bad : k <= m
    <3>1. Bad \in SUBSET Nat
      OBVIOUS
    <3> HIDE DEF Bad
    <3> QED BY <3>1, Least
  <2>2. k \in Nat /\ k < n /\ Total(s, 2..(k + 1)) # Total(t, 1..k)
    BY <2>1
  <2>3. k # 0
    <3>1. 2..1 = {} /\ 1..0 = {} /\ IsFiniteSet({})
      BY FS_EmptySet
    <3>2. Total(s, {}) = 0 /\ Total(t, {}) = 0
      BY <3>1, TotalPick
    <3> QED BY <2>2, <3>1, <3>2
  <2>4. Total(s, 2..k) = Total(t, 1..(k - 1))
    <3>1. k - 1 \in Nat /\ k - 1 < n /\ ~(k <= k - 1) /\ (k - 1) + 1 = k
      BY <1>1, <2>2, <2>3
    <3>2. k - 1 \notin Bad
      BY <2>1, <3>1
    <3> QED BY <3>1, <3>2
  <2>5. Total(s, 2..(k + 1)) = s[k + 1] + Total(s, 2..k)
    <3> DEFINE I == 2..(k + 1)
    <3>1. k + 1 \in I /\ I \ {k + 1} = 2..k /\ IsFiniteSet(I)
      BY <1>2, <2>2, <2>3
    <3>2. \A x \in I : s[x] \in Int
      BY <1>1, <2>2
    <3> HIDE DEF I, Bad
    <3>3. Total(s, I) = s[k + 1] + Total(s, I \ {k + 1})
      BY <3>1, <3>2, TotalRemove
    <3>4. Total(s, I) = s[k + 1] + Total(s, 2..k)
      BY <3>1, <3>3
    <3> QED BY <3>4 DEF I
  <2>6. Total(t, 1..k) = t[k] + Total(t, 1..(k - 1))
    <3> DEFINE I == 1..k
    <3>1. k \in I /\ I \ {k} = 1..(k - 1) /\ IsFiniteSet(I)
      BY <1>2, <2>2, <2>3
    <3>2. \A x \in I : t[x] \in Int
      BY <1>1, <2>2
    <3> HIDE DEF I, Bad
    <3>3. Total(t, I) = t[k] + Total(t, I \ {k})
      BY <3>1, <3>2, TotalRemove
    <3>4. Total(t, I) = t[k] + Total(t, 1..(k - 1))
      BY <3>1, <3>3
    <3> QED BY <3>4 DEF I
  <2>7. t[k] = s[k + 1]
    BY <1>1, <2>2, <2>3
  <2> QED BY <2>2, <2>4, <2>5, <2>6, <2>7
<1>4. Total(s, 2..n) = Total(t, 1..(n - 1))
  <2>1. n - 1 \in Nat /\ n - 1 < n /\ (n - 1) + 1 = n
    BY <1>1
  <2>2. n - 1 \notin Bad
    BY <1>3
  <2> QED BY <2>1, <2>2
<1>5. Total(s, 1..n) = s[1] + Total(s, 2..n)
  <2>1. 1 \in 1..n /\ (1..n) \ {1} = 2..n /\ IsFiniteSet(1..n)
    BY <1>1, <1>2
  <2> QED BY <1>1, <2>1, TotalRemove
<1> QED BY <1>1, <1>4, <1>5 DEF Words, t
-----------------------------------------------------------------------------
(***************************************************************************)
(* The initial state                                                       *)
(***************************************************************************)

USE NClientsAssumption, MaxValueAssumption, PipeCapAssumption, MaxRunsAssumption

\* The descriptors are finitely many.
LEMMA FdsFinite ==
    ASSUME TypeOK
    PROVE  IsFiniteSet(fds) /\ Cardinality(fds) \in Nat
<1>1. IsFiniteSet(Fifos)
  BY FS_Interval DEF Fifos
<1>2. fds \in SUBSET Fifos
  BY DEF TypeOK
<1> QED BY <1>1, <1>2, FS_Subset, FS_CardinalityType

\* A sequence without its head is a sequence, one shorter.
LEMMA TailType ==
    ASSUME NEW S, NEW s \in Seq(S), s # <<>>
    PROVE  Head(s) \in S /\ Tail(s) \in Seq(S) /\ Len(Tail(s)) = Len(s) - 1
BY HeadTailProperties

\* Words are read from the head of a fifo and added at its end.
LEMMA FifoType ==
    ASSUME TypeOK, NEW i \in Fifos
    PROVE  /\ fifo[i] \in Seq(1..MaxValue) /\ Len(fifo[i]) \in Nat
           /\ fifo[i] # <<>> =>
                /\ Head(fifo[i]) \in 1..MaxValue
                /\ Tail(fifo[i]) \in Seq(1..MaxValue)
                /\ Len(Tail(fifo[i])) <= Len(fifo[i])
           /\ next[i] \in 1..MaxValue /\ Len(fifo[i]) < PipeCap =>
                /\ Append(fifo[i], next[i]) \in Seq(1..MaxValue)
                /\ Len(Append(fifo[i], next[i])) <= PipeCap
<1>1. fifo[i] \in Seq(1..MaxValue)
  BY DEF TypeOK
<1>2. Len(fifo[i]) \in Nat
  BY <1>1
<1>3. fifo[i] # <<>> =>
        /\ Head(fifo[i]) \in 1..MaxValue
        /\ Tail(fifo[i]) \in Seq(1..MaxValue)
        /\ Len(Tail(fifo[i])) = Len(fifo[i]) - 1
  BY <1>1, TailType
<1>4. next[i] \in 1..MaxValue =>
        /\ Append(fifo[i], next[i]) \in Seq(1..MaxValue)
        /\ Len(Append(fifo[i], next[i])) = Len(fifo[i]) + 1
  BY <1>1
<1> QED BY <1>1, <1>2, <1>3, <1>4

\* Nothing is open and nothing has happened at the start.
LEMMA InitInv == Init => TypeOK /\ ScanInv
<1> SUFFICES ASSUME Init PROVE TypeOK /\ ScanInv
  OBVIOUS
<1>1. TypeOK
  BY DEF Init, TypeOK, Fifos, SrvEnded, CliEnded
<1>2. Accounts
  BY DEF Init, Accounts
<1>3. \A i \in Fifos : Snapshot(i) /\ FirstClient(i) /\ Quiet(i)
  BY DEF Init, Snapshot, FirstClient, CliEnded, Quiet
<1> QED BY <1>1, <1>2, <1>3 DEF ScanInv
-----------------------------------------------------------------------------
(***************************************************************************)
(* Types                                                                   *)
(***************************************************************************)

\* The end of the server keeps the types.
LEMMA LeaveType ==
    ASSUME TypeOK, NEW how \in SrvEnded, Leave(how)
    PROVE  srv' \in SrvEnded /\ fds' \subseteq Fifos /\ fifo' \in [Fifos -> Seq(1..MaxValue)]
           /\ \A i \in Fifos : Len(fifo'[i]) <= PipeCap
BY DEF Leave

\* A step of the server keeps the types: nclosed never passes NCLIENTS.
LEMMA SrvType ==
    ASSUME TypeOK, Accounts, SrvStep \/ SrvCrash
    PROVE  TypeOK'
<1> USE DEF TypeOK
<1>1. CASE SrvCreate
  <2>1. CASE Leave("failed") /\ UNCHANGED cur
    BY <1>1, <2>1, LeaveType DEF SrvCreate, SrvEnded
  <2>2. CASE /\ fds' = fds \cup {cur}
             /\ srv' = IF cur = NClients THEN "poll" ELSE "create"
             /\ cur' = IF cur = NClients THEN cur ELSE cur + 1
             /\ UNCHANGED fifo
    BY <1>1, <2>2 DEF SrvCreate, Fifos
  <2> QED BY <1>1, <2>1, <2>2 DEF SrvCreate
<1>2. CASE SrvPoll
  <2>1. revents' \in [Fifos -> SUBSET {"POLLIN", "POLLHUP"}]
    BY <1>2 DEF SrvPoll, Events
  <2>2. cur' \in Fifos
    BY <1>2 DEF SrvPoll, Fifos
  <2> QED BY <1>2, <2>1, <2>2 DEF SrvPoll
<1>3. CASE SrvRead
  <2>1. /\ accumulator' \in Nat
        /\ fifo' \in [Fifos -> Seq(1..MaxValue)]
        /\ \A i \in Fifos : Len(fifo'[i]) <= PipeCap
    BY <1>3, FifoType DEF SrvRead
  <2> QED BY <1>3, <2>1 DEF SrvRead
<1>4. CASE SrvStopReading
  BY <1>4 DEF SrvStopReading
<1>5. CASE SrvHup
  <2>1. /\ fifo' \in [Fifos -> Seq(1..MaxValue)]
        /\ \A i \in Fifos : Len(fifo'[i]) <= PipeCap
        /\ fds' \subseteq Fifos
    <3>1. CASE cur \in fds /\ Hangup(cur)
      <4>1. fifo' = [fifo EXCEPT ![cur] = <<>>] /\ fds' = fds \ {cur}
        BY <1>5, <3>1 DEF SrvHup
      <4>2. <<>> \in Seq(1..MaxValue) /\ Len(<<>>) <= PipeCap
        OBVIOUS
      <4>3. \A i \in Fifos : fifo'[i] = <<>> \/ fifo'[i] = fifo[i]
        BY <4>1
      <4>4. fifo' \in [Fifos -> Seq(1..MaxValue)]
        BY <4>1, <4>2
      <4>5. \A i \in Fifos : Len(fifo'[i]) <= PipeCap
        BY <4>2, <4>3
      <4> QED BY <4>1, <4>4, <4>5
    <3>2. CASE ~(cur \in fds /\ Hangup(cur))
      BY <1>5, <3>2 DEF SrvHup
    <3> QED BY <3>1, <3>2
  <2>2. cur \in fds => nclosed + 1 <= NClients
    <3>1. cur \in fds => Cardinality(fds) # 0
      BY FdsFinite, FS_EmptySet
    <3>2. nclosed + Cardinality(fds) = NClients
      BY <1>5 DEF SrvHup, Accounts
    <3> QED BY <3>1, <3>2, FdsFinite
  <2>3. nclosed' \in 0..NClients
    BY <1>5, <2>2 DEF SrvHup
  <2>4. cur' \in Fifos
    BY <1>5 DEF SrvHup, Fifos
  <2>5. srv' \in {"poll", "read", "unlink"}
    BY <1>5 DEF SrvHup, Fifos
  <2> QED BY <1>5, <2>1, <2>3, <2>4, <2>5 DEF SrvHup
<1>6. CASE SrvUnlink
  BY <1>6, LeaveType DEF SrvUnlink, SrvEnded
<1>7. CASE SrvCrash
  BY <1>7, LeaveType DEF SrvCrash, SrvEnded
<1> QED BY <1>1, <1>2, <1>3, <1>4, <1>5, <1>6, <1>7 DEF SrvStep

\* A step of a client, or of its user, keeps the types.
LEMMA CliType ==
    ASSUME TypeOK, NEW i \in Fifos, CliStep(i) \/ CliOpen(i) \/ CliKill(i)
    PROVE  TypeOK'
<1> USE DEF TypeOK, srvVars
<1>1. CASE CliWrite(i)
  <2>1. next[i] \in 1..MaxValue
    BY <1>1 DEF CliWrite, More
  <2>2. /\ fifo' \in [Fifos -> Seq(1..MaxValue)]
        /\ \A j \in Fifos : Len(fifo'[j]) <= PipeCap
    BY <1>1, <2>1, FifoType DEF CliWrite
  <2>3. next' \in [Fifos -> 1..(MaxValue + 1)]
    <3>1. next[i] + 1 \in 1..(MaxValue + 1)
      BY <2>1
    <3>2. next' = [next EXCEPT ![i] = next[i] + 1] \/ next' = next
      BY <1>1 DEF CliWrite
    <3> QED BY <3>1, <3>2
  <2>4. cli' \in [Fifos -> {"off", "writing"} \cup CliEnded]
    BY <1>1 DEF CliWrite, CliEnded
  <2> QED BY <1>1, <2>2, <2>3, <2>4 DEF CliWrite
<1>2. CASE CliClose(i)
  BY <1>2 DEF CliClose, CliEnded
<1>3. CASE CliOpen(i)
  BY <1>3 DEF CliOpen
<1>4. CASE CliKill(i)
  BY <1>4 DEF CliKill, CliEnded
<1> QED BY <1>1, <1>2, <1>3, <1>4 DEF CliStep
-----------------------------------------------------------------------------
(***************************************************************************)
(* The accounts                                                            *)
(***************************************************************************)

\* A descriptor that is opened is added to the open ones, one that is closed
\* is moved to nclosed.
LEMMA AccountsStep ==
    ASSUME TypeOK, Accounts, Next
    PROVE  Accounts'
<1>1. CASE SrvCreate
  <2>1. CASE srv' = "failed"
    BY <2>1 DEF Accounts
  <2>2. CASE fds' = fds \cup {cur} /\ srv' = "create" /\ cur' = cur + 1 /\ nclosed' = nclosed
    <3>1. fds' = 1..(cur' - 1)
      BY <1>1, <2>2 DEF SrvCreate, Accounts, TypeOK, Fifos
    <3> QED BY <1>1, <2>2, <3>1 DEF SrvCreate, Accounts
  <2>3. CASE fds' = fds \cup {cur} /\ srv' = "poll" /\ cur = NClients /\ nclosed' = nclosed
    <3>1. fds' = 1..NClients
      BY <1>1, <2>3 DEF SrvCreate, Accounts, TypeOK, Fifos
    <3>2. Cardinality(fds') = NClients
      BY <3>1, FS_Interval
    <3>3. nclosed' = 0
      BY <1>1, <2>3 DEF SrvCreate, Accounts
    <3> QED BY <2>3, <3>2, <3>3 DEF Accounts
  <2> QED BY <1>1, <2>1, <2>2, <2>3 DEF SrvCreate, Leave
<1>2. CASE SrvHup
  <2>1. nclosed + Cardinality(fds) = NClients
    BY <1>2 DEF SrvHup, Accounts
  <2>2. nclosed' + Cardinality(fds') = NClients
    <3>1. CASE cur \in fds /\ Hangup(cur)
      <4>1. fds' = fds \ {cur} /\ nclosed' = nclosed + 1
        BY <1>2, <3>1 DEF SrvHup
      <4>2. Cardinality(fds') = Cardinality(fds) - 1
        BY <3>1, <4>1, FdsFinite, FS_RemoveElement
      <4> QED BY <2>1, <4>1, <4>2, FdsFinite DEF TypeOK
    <3>2. CASE ~(cur \in fds /\ Hangup(cur))
      BY <1>2, <2>1, <3>2 DEF SrvHup
    <3> QED BY <3>1, <3>2
  <2>3. nclosed' \in 0..NClients
    BY <1>2, SrvType DEF SrvStep, TypeOK
  <2>4. srv' \in {"poll", "read", "unlink"} /\ (srv' = "unlink" => ~GoesOn(nclosed'))
    BY <1>2 DEF SrvHup, TypeOK, Fifos
  <2>5. srv' = "unlink" => nclosed' = NClients
    BY <2>3, <2>4 DEF GoesOn
  <2> QED BY <2>2, <2>4, <2>5 DEF Accounts
<1>3. CASE SrvPoll \/ SrvRead \/ SrvStopReading
  BY <1>3 DEF SrvPoll, SrvRead, SrvStopReading, Accounts
<1>4. CASE SrvUnlink \/ SrvCrash
  BY <1>4 DEF SrvUnlink, SrvCrash, Leave, Accounts
<1>5. CASE \E i \in Fifos : CliStep(i) \/ CliOpen(i) \/ CliKill(i)
  BY <1>5 DEF CliStep, CliWrite, CliClose, CliOpen, CliKill, srvVars, Accounts
<1> QED BY <1>1, <1>2, <1>3, <1>4, <1>5 DEF Next, SrvStep, User
-----------------------------------------------------------------------------
(***************************************************************************)
(* The snapshot                                                            *)
(***************************************************************************)

\* The fifo a server hands over to the test of POLLHUP has been read to the end
\* if its only client has ended.
LEMMA SrvSnapshot ==
    ASSUME TypeOK, ScanInv, SrvStep \/ SrvCrash, NEW i \in Fifos
    PROVE  (Snapshot(i) /\ FirstClient(i))'
<1>0. Snapshot(i) /\ FirstClient(i) /\ Accounts
  BY DEF ScanInv
<1> USE DEF Alive
<1>1. CASE SrvCreate
  <2>1. CASE Leave("failed")
    BY <1>0, <1>1, <2>1 DEF SrvCreate, Leave, Snapshot, FirstClient
  <2>2. CASE fds \subseteq fds' /\ srv' \in {"poll", "create"} /\ UNCHANGED fifo
    BY <1>0, <1>1, <2>2 DEF SrvCreate, Snapshot, FirstClient
  <2> QED BY <1>1, <2>1, <2>2 DEF SrvCreate
<1>2. CASE SrvPoll
  <2>1. revents'[i] = IF i \in fds THEN Events(i) ELSE {}
    BY <1>2 DEF SrvPoll
  <2>2. "POLLHUP" \in revents'[i] => runs[i] > 0 /\ cli[i] # "writing"
    BY <2>1 DEF Events
  <2>3. "POLLHUP" \in revents'[i] /\ "POLLIN" \notin revents'[i] => fifo[i] = <<>>
    BY <2>1 DEF Events
  <2>4. runs[i] = 1 /\ cli[i] # "writing" => cli[i] \in CliEnded
    BY <1>0 DEF FirstClient, TypeOK
  <2>5. srv' = "read" /\ UNCHANGED <<fds, fifo, cli, runs>>
    BY <1>2 DEF SrvPoll
  <2>6. Snapshot(i)'
    BY <2>2, <2>3, <2>4, <2>5 DEF Snapshot
  <2>7. FirstClient(i)'
    BY <1>0, <1>2, <2>5 DEF FirstClient, SrvPoll
  <2> QED BY <2>6, <2>7
<1>3. CASE SrvRead
  <2>1. fifo[i] = <<>> => fifo'[i] = <<>>
    BY <1>3 DEF SrvRead, TypeOK
  <2> QED BY <1>0, <1>3, <2>1 DEF SrvRead, Snapshot, FirstClient
<1>4. CASE SrvStopReading
  <2>1. i = cur /\ i \in fds /\ "POLLIN" \in revents[i] => fifo[i] = <<>>
    BY <1>4 DEF SrvStopReading, Reading, Dry
  <2> QED BY <1>0, <1>4, <2>1 DEF SrvStopReading, Snapshot, FirstClient
<1>5. CASE SrvHup
  <2>1. /\ srv' \in {"poll", "read", "unlink"} /\ UNCHANGED <<revents, cli, runs>>
        /\ fifo[i] = <<>> => fifo'[i] = <<>>
    <3>1. srv' \in {"poll", "read", "unlink"}
      BY <1>5 DEF SrvHup, TypeOK, Fifos
    <3>2. UNCHANGED <<revents, cli, runs>>
      BY <1>5 DEF SrvHup
    <3>3. fifo' = [fifo EXCEPT ![cur] = <<>>] \/ fifo' = fifo
      BY <1>5 DEF SrvHup
    <3>4. fifo'[i] = <<>> \/ fifo'[i] = fifo[i]
      BY <3>3 DEF TypeOK
    <3> QED BY <3>1, <3>2, <3>4
  <2>2. i \in fds /\ i \notin fds' => "POLLHUP" \in revents[i]
    BY <1>5 DEF SrvHup, Hangup
  <2>3. Snapshot(i)'
    BY <1>0, <2>1 DEF Snapshot
  <2>4. FirstClient(i)'
    BY <1>0, <1>5, <2>1, <2>2 DEF FirstClient, Snapshot, CliEnded, SrvHup
  <2> QED BY <2>3, <2>4
<1>6. CASE SrvUnlink
  <2>1. fds = {}
    <3>1. Cardinality(fds) = 0
      BY <1>0, <1>6, FdsFinite DEF SrvUnlink, Accounts
    <3> QED BY <3>1, FdsFinite, FS_EmptySet
  <2> QED BY <1>0, <1>6, <2>1 DEF SrvUnlink, Leave, Snapshot, FirstClient
<1>7. CASE SrvCrash
  BY <1>0, <1>7 DEF SrvCrash, Leave, Snapshot, FirstClient
<1> QED BY <1>1, <1>2, <1>3, <1>4, <1>5, <1>6, <1>7 DEF SrvStep

\* A client that has ended writes no more, and a second one is a second run.
LEMMA CliSnapshot ==
    ASSUME TypeOK, ScanInv, NEW c \in Fifos, CliStep(c) \/ CliOpen(c) \/ CliKill(c),
           NEW i \in Fifos
    PROVE  (Snapshot(i) /\ FirstClient(i))'
<1>0. Snapshot(i) /\ FirstClient(i)
  BY DEF ScanInv
<1> USE DEF Alive, srvVars
<1>1. CASE CliWrite(c)
  <2>1. cli[c] = "writing" /\ (i # c => cli'[i] = cli[i] /\ fifo'[i] = fifo[i])
    BY <1>1 DEF CliWrite, TypeOK
  <2>2. UNCHANGED <<srv, cur, revents, fds, runs>>
    BY <1>1 DEF CliWrite
  <2>3. i = c => cli'[i] \in {"writing", "sigpipe"} /\ (cli'[i] = "sigpipe" => i \notin fds)
    BY <1>1 DEF CliWrite, TypeOK
  <2>4. Snapshot(i)'
    BY <1>0, <2>1, <2>2 DEF Snapshot, CliEnded
  <2>5. FirstClient(i)'
    BY <1>0, <2>1, <2>2, <2>3 DEF FirstClient
  <2> QED BY <2>4, <2>5
<1>2. CASE CliClose(c) \/ CliKill(c)
  <2>1. /\ cli[c] = "writing" /\ cli'[c] \in {"finished", "killed"}
        /\ i # c => cli'[i] = cli[i]
        /\ UNCHANGED <<srv, cur, revents, fds, fifo, runs>>
    BY <1>2 DEF CliClose, CliKill, TypeOK
  <2> QED BY <1>0, <2>1 DEF Snapshot, FirstClient, CliEnded
<1>3. CASE CliOpen(c)
  <2>1. /\ cli'[c] = "writing" /\ c \in fds /\ runs'[c] = runs[c] + 1
        /\ i # c => cli'[i] = cli[i] /\ runs'[i] = runs[i]
        /\ UNCHANGED <<srv, cur, revents, fds, fifo>>
    BY <1>3 DEF CliOpen, TypeOK
  <2>2. runs[c] \in Nat /\ runs'[c] \in Nat
    BY <2>1 DEF TypeOK
  <2>3. Snapshot(i)'
    BY <1>0, <2>1, <2>2 DEF Snapshot
  <2>4. FirstClient(i)'
    BY <1>0, <2>1, <2>2 DEF FirstClient
  <2> QED BY <2>3, <2>4
<1> QED BY <1>1, <1>2, <1>3 DEF CliStep

\* A fifo that is not open is empty, and nobody who did not come has written.
LEMMA QuietStep ==
    ASSUME TypeOK, ScanInv, Next, NEW i \in Fifos
    PROVE  Quiet(i)'
<1>0. Quiet(i) /\ FirstClient(i)
  BY DEF ScanInv
<1>1. CASE SrvCreate \/ SrvUnlink \/ SrvCrash
  <2>1. UNCHANGED <<next, runs>> /\ ((fds \subseteq fds' /\ fifo' = fifo) \/ fifo'[i] = <<>>)
    BY <1>1 DEF SrvCreate, SrvUnlink, SrvCrash, Leave
  <2> QED BY <1>0, <2>1 DEF Quiet
<1>2. CASE SrvPoll \/ SrvStopReading
  BY <1>0, <1>2 DEF SrvPoll, SrvStopReading, Quiet
<1>3. CASE SrvRead
  <2>1. cur \in fds /\ (i # cur => fifo'[i] = fifo[i]) /\ UNCHANGED <<fds, next, runs>>
    BY <1>3 DEF SrvRead, Reading, TypeOK
  <2> QED BY <1>0, <2>1 DEF Quiet
<1>4. CASE SrvHup
  <2>1. UNCHANGED <<next, runs>>
    BY <1>4 DEF SrvHup
  <2>2. CASE cur \in fds /\ Hangup(cur)
    <3>1. fds' = fds \ {cur} /\ fifo' = [fifo EXCEPT ![cur] = <<>>]
      BY <1>4, <2>2 DEF SrvHup
    <3>2. fifo'[i] = IF i = cur THEN <<>> ELSE fifo[i]
      BY <3>1 DEF TypeOK
    <3> QED BY <1>0, <2>1, <3>1, <3>2 DEF Quiet
  <2>3. CASE ~(cur \in fds /\ Hangup(cur))
    <3>1. UNCHANGED <<fds, fifo>>
      BY <1>4, <2>3 DEF SrvHup
    <3> QED BY <1>0, <2>1, <3>1 DEF Quiet
  <2> QED BY <2>2, <2>3
<1>5. CASE \E c \in Fifos : CliWrite(c)
  <2>1. PICK c \in Fifos : CliWrite(c)
    BY <1>5
  <2>2. /\ UNCHANGED <<fds, runs>> /\ runs[c] # 0
        /\ i # c => fifo'[i] = fifo[i] /\ next'[i] = next[i]
        /\ i \notin fds => fifo'[i] = fifo[i]
    <3>1. FirstClient(c)
      BY DEF ScanInv
    <3> QED BY <2>1, <3>1 DEF CliWrite, TypeOK, FirstClient
  <2> QED BY <1>0, <2>2 DEF Quiet
<1>6. CASE \E c \in Fifos : CliClose(c) \/ CliKill(c)
  BY <1>0, <1>6 DEF CliClose, CliKill, Quiet
<1>7. CASE \E c \in Fifos : CliOpen(c)
  <2>1. PICK c \in Fifos : CliOpen(c)
    BY <1>7
  <2>2. /\ UNCHANGED <<fds, fifo>> /\ next'[c] = 1
        /\ i # c => runs'[i] = runs[i] /\ next'[i] = next[i]
    BY <2>1 DEF CliOpen, TypeOK
  <2> QED BY <1>0, <2>2 DEF Quiet
<1> QED BY <1>1, <1>2, <1>3, <1>4, <1>5, <1>6, <1>7 DEF Next, SrvStep, CliStep, User

\* The invariant is inductive.
LEMMA StepInv == TypeOK /\ ScanInv /\ [Next]_vars => (TypeOK /\ ScanInv)'
<1> SUFFICES ASSUME TypeOK, ScanInv, [Next]_vars PROVE (TypeOK /\ ScanInv)'
  OBVIOUS
<1>1. CASE Next
  <2>1. \/ SrvStep \/ SrvCrash
        \/ \E c \in Fifos : CliStep(c) \/ CliOpen(c) \/ CliKill(c)
    BY <1>1 DEF Next, User
  <2>2. TypeOK'
    BY <2>1, SrvType, CliType DEF ScanInv
  <2>3. Accounts'
    BY <1>1, AccountsStep DEF ScanInv
  <2>4. \A i \in Fifos : (Snapshot(i) /\ FirstClient(i))'
    BY <2>1, SrvSnapshot, CliSnapshot
  <2>5. \A i \in Fifos : Quiet(i)'
    BY <1>1, QuietStep
  <2> QED BY <2>2, <2>3, <2>4, <2>5 DEF ScanInv
<1>2. CASE UNCHANGED vars
  <2>1. TypeOK'
    BY <1>2 DEF vars, TypeOK
  <2>2. Accounts'
    BY <1>2 DEF vars, ScanInv, Accounts
  <2>3. \A i \in Fifos : (Snapshot(i) /\ FirstClient(i) /\ Quiet(i))'
    BY <1>2 DEF vars, ScanInv, Snapshot, FirstClient, Alive, Quiet
  <2> QED BY <2>1, <2>2, <2>3 DEF ScanInv
<1> QED BY <1>1, <1>2
-----------------------------------------------------------------------------
(***************************************************************************)
(* Nothing is lost                                                         *)
(***************************************************************************)

InFifos  == [i \in Fifos |-> Words(fifo[i])]
Written  == [i \in Fifos |-> Triangle(next[i] - 1)]

\* A client that has written n - 1 values writes n.
LEMMA TriangleStep ==
    ASSUME NEW n \in Nat \ {0}
    PROVE  Triangle(n - 1) \in Int /\ Triangle(n) = Triangle(n - 1) + n
<1> DEFINE p == (n - 1) * n
<1>1. p \in Int /\ n * (n + 1) = p + 2 * n
  OBVIOUS
<1>2. (n - 1) * ((n - 1) + 1) = p
  OBVIOUS
<1> HIDE DEF p
<1>3. (p + 2 * n) \div 2 = (p \div 2) + n /\ p \div 2 \in Int
  BY <1>1
<1> QED BY <1>1, <1>2, <1>3 DEF Triangle

\* What is summed are integers.
LEMMA SumsType ==
    ASSUME TypeOK
    PROVE  /\ IsFiniteSet(Fifos)
           /\ \A i \in Fifos : InFifos[i] \in Int /\ Written[i] \in Int
           /\ Total(InFifos, Fifos) \in Int /\ Total(Written, Fifos) \in Int
<1>1. IsFiniteSet(Fifos)
  BY FS_Interval DEF Fifos
<1>2. \A i \in Fifos : InFifos[i] \in Int
  <2> SUFFICES ASSUME NEW i \in Fifos PROVE Words(fifo[i]) \in Int
    BY DEF InFifos
  <2>1. fifo[i] \in Seq(1..MaxValue)
    BY DEF TypeOK
  <2>2. fifo[i] \in Seq(Int)
    BY <2>1
  <2> QED BY <2>2, WordsAppend
<1>3. \A i \in Fifos : Written[i] \in Int
  <2> SUFFICES ASSUME NEW i \in Fifos PROVE Triangle(next[i] - 1) \in Int
    BY DEF Written
  <2>1. next[i] \in Nat \ {0}
    BY DEF TypeOK
  <2> QED BY <2>1, TriangleStep
<1> QED BY <1>1, <1>2, <1>3, TotalType

\* ... before a step and after it.
LEMMA SumsTypeNext ==
    ASSUME TypeOK'
    PROVE  \A i \in Fifos : InFifos'[i] \in Int /\ Written'[i] \in Int
<1> SUFFICES ASSUME NEW i \in Fifos
             PROVE  Words(fifo'[i]) \in Int /\ Triangle(next'[i] - 1) \in Int
  BY DEF InFifos, Written
<1>1. PICK q, n : q = fifo'[i] /\ n = next'[i]
  OBVIOUS
<1>2. q \in Seq(1..MaxValue) /\ n \in Nat \ {0}
  BY <1>1 DEF TypeOK
<1>3. q \in Seq(Int)
  BY <1>2
<1>4. Words(q) \in Int
  BY <1>3, WordsAppend
<1>5. Triangle(n - 1) \in Int
  BY <1>2, TriangleStep
<1> QED BY <1>1, <1>4, <1>5

\* Nothing is written and nothing added up at the start.
LEMMA InitConserved == Init => Conserved
<1> SUFFICES ASSUME Init PROVE Conserved
  OBVIOUS
<1>1. TypeOK
  BY InitInv
<1>2. Triangle(0) = 0
  BY DEF Triangle
<1>3. Words(<<>>) = 0
  BY WordsNone
<1>4. \A i \in Fifos : InFifos[i] = Written[i]
  <2> SUFFICES ASSUME NEW i \in Fifos PROVE Words(fifo[i]) = Triangle(next[i] - 1)
    BY DEF InFifos, Written
  <2>1. fifo[i] = <<>> /\ next[i] - 1 = 0
    BY DEF Init
  <2> QED BY <1>2, <1>3, <2>1
<1>5. Total(InFifos, Fifos) = Total(Written, Fifos)
  BY <1>1, <1>4, SumsType, TotalSame
<1>6. accumulator = 0
  BY DEF Init
<1> QED BY <1>1, <1>5, <1>6, SumsType DEF Conserved, InFifos, Written

\* The first word of a fifo moves to the accumulator.
LEMMA ReadConserved ==
    ASSUME TypeOK, TypeOK', SrvRead
    PROVE  accumulator' + Total(InFifos', Fifos) = accumulator + Total(InFifos, Fifos)
<1> DEFINE w == Head(fifo[cur])
<1>1. /\ cur \in Fifos /\ fifo[cur] \in Seq(1..MaxValue) /\ fifo[cur] # <<>>
      /\ w \in Int /\ accumulator \in Int
  BY FifoType DEF SrvRead, TypeOK
<1>2. accumulator' = accumulator + w /\ fifo'[cur] = Tail(fifo[cur])
  BY <1>1 DEF SrvRead, TypeOK
<1>3. \A i \in Fifos : i # cur => fifo'[i] = fifo[i]
  BY DEF SrvRead, TypeOK
<1>4. Words(fifo[cur]) = w + Words(Tail(fifo[cur]))
  <2>1. fifo[cur] \in Seq(Int)
    BY <1>1
  <2> QED BY <1>1, <2>1, WordsTail
<1> HIDE DEF w
<1>5. \A i \in Fifos : InFifos[i] = Words(fifo[i]) /\ InFifos'[i] = Words(fifo'[i])
  BY DEF InFifos
<1>6. \A i \in Fifos : InFifos[i] \in Int /\ InFifos'[i] \in Int
  BY SumsType, SumsTypeNext
<1>7. InFifos[cur] = w + InFifos'[cur]
  BY <1>1, <1>2, <1>4, <1>5
<1>8. \A i \in Fifos : i # cur => InFifos[i] = InFifos'[i]
  BY <1>3, <1>5
<1>9. PICK f, g, S, e : f = InFifos' /\ g = InFifos /\ S = Fifos /\ e = cur
  OBVIOUS
<1>10. Total(f, S) \in Int /\ Total(g, S) = Total(f, S) + w
  <2>1. IsFiniteSet(S) /\ e \in S
    BY <1>1, <1>9, SumsType
  <2>2. \A x \in S : f[x] \in Int /\ g[x] \in Int
    BY <1>6, <1>9
  <2>3. \A x \in S : x # e => g[x] = f[x]
    BY <1>8, <1>9
  <2>4. g[e] = f[e] + w /\ w \in Int
    <3>1. g[e] = w + f[e] /\ f[e] \in Int /\ w \in Int
      BY <1>1, <1>6, <1>7, <1>9
    <3> QED BY <3>1
  <2>5. Total(f, S) \in Int
    BY <2>1, <2>2, TotalType
  <2>6. Total(g, S) = Total(f, S) + w
    BY <2>1, <2>2, <2>3, <2>4, TotalGrows
  <2> QED BY <2>5, <2>6
<1>11. PICK A : A = Total(f, S)
  OBVIOUS
<1>12. (accumulator + w) + A = accumulator + (A + w)
  BY <1>1, <1>10, <1>11
<1> QED BY <1>2, <1>9, <1>10, <1>11, <1>12

\* A client adds one word to its fifo, and counts it.
LEMMA WriteConserved ==
    ASSUME TypeOK, TypeOK', NEW c \in Fifos, CliWrite(c), c \in fds
    PROVE  /\ Total(InFifos', Fifos) = Total(InFifos, Fifos) + next[c]
           /\ Total(Written', Fifos) = Total(Written, Fifos) + next[c]
<1> DEFINE w == next[c]
<1>1. w \in Nat \ {0} /\ w \in Int
  <2>1. next[c] \in 1..(MaxValue + 1)
    BY DEF TypeOK
  <2> QED BY <2>1
<1>2. fifo'[c] = Append(fifo[c], w) /\ next'[c] = w + 1
  BY DEF CliWrite, TypeOK
<1>3. \A i \in Fifos : i # c => fifo'[i] = fifo[i] /\ next'[i] = next[i]
  BY DEF CliWrite, TypeOK
<1>4. Words(fifo'[c]) = Words(fifo[c]) + w
  <2>1. fifo[c] \in Seq(1..MaxValue)
    BY DEF TypeOK
  <2>2. fifo[c] \in Seq(Int)
    BY <2>1
  <2> QED BY <1>1, <1>2, <2>2, WordsAppend
<1>5. Triangle(next'[c] - 1) = Triangle(next[c] - 1) + w
  <2>1. next'[c] - 1 = w
    BY <1>1, <1>2
  <2> QED BY <1>1, <2>1, TriangleStep
<1> HIDE DEF w
<1>6. \A i \in Fifos : /\ InFifos[i] = Words(fifo[i]) /\ InFifos'[i] = Words(fifo'[i])
                       /\ Written[i] = Triangle(next[i] - 1)
                       /\ Written'[i] = Triangle(next'[i] - 1)
  BY DEF InFifos, Written
<1>7. IsFiniteSet(Fifos) /\ \A i \in Fifos : InFifos[i] \in Int /\ Written[i] \in Int
  BY SumsType
<1>8. \A i \in Fifos : InFifos'[i] \in Int /\ Written'[i] \in Int
  BY SumsTypeNext
<1>9. PICK S, e : S = Fifos /\ e = c
  OBVIOUS
<1>10. PICK f, g : f = InFifos /\ g = InFifos'
  OBVIOUS
<1>11. Total(g, S) = Total(f, S) + w
  <2>1. IsFiniteSet(S) /\ e \in S /\ \A x \in S : f[x] \in Int /\ g[x] \in Int
    BY <1>7, <1>8, <1>9, <1>10
  <2>2. \A x \in S : x # e => g[x] = f[x]
    BY <1>3, <1>6, <1>9, <1>10
  <2>3. g[e] = f[e] + w
    BY <1>4, <1>6, <1>9, <1>10
  <2> QED BY <1>1, <2>1, <2>2, <2>3, TotalGrows
<1>12. PICK p, q : p = Written /\ q = Written'
  OBVIOUS
<1>13. Total(q, S) = Total(p, S) + w
  <2>1. IsFiniteSet(S) /\ e \in S /\ \A x \in S : p[x] \in Int /\ q[x] \in Int
    BY <1>7, <1>8, <1>9, <1>12
  <2>2. \A x \in S : x # e => q[x] = p[x]
    BY <1>3, <1>6, <1>9, <1>12
  <2>3. q[e] = p[e] + w
    BY <1>5, <1>6, <1>9, <1>12
  <2> QED BY <1>1, <2>1, <2>2, <2>3, TotalGrows
<1> QED BY <1>9, <1>10, <1>11, <1>12, <1>13 DEF w

\* A fifo that is closed while the server goes on is empty, and a client that
\* comes to a fifo is the first one: words are only moved or written.
LEMMA StepConserved ==
    ASSUME TypeOK, ScanInv, Conserved, Next, TypeOK', Alive', OneRunEach'
    PROVE  accumulator' + Total(InFifos', Fifos) = Total(Written', Fifos)
<1>1. Alive /\ OneRunEach
  <2>1. srv \in {"failed", "crashed"} => srv' = srv
    BY DEF Next, SrvStep, CliStep, User, SrvCreate, SrvPoll, SrvRead, SrvStopReading, SrvHup,
           SrvUnlink, SrvCrash, SrvEnded, CliWrite, CliClose, CliOpen, CliKill, srvVars
  <2>2. \A i \in Fifos : runs[i] <= runs'[i]
    <3>1. runs' = runs \/ \E c \in Fifos : runs' = [runs EXCEPT ![c] = runs[c] + 1]
      BY DEF Next, SrvStep, CliStep, User, SrvCreate, SrvPoll, SrvRead, SrvStopReading, SrvHup,
             SrvUnlink, SrvCrash, CliWrite, CliClose, CliOpen, CliKill
    <3>2. runs \in [Fifos -> Nat]
      BY DEF TypeOK
    <3> QED BY <3>1, <3>2
  <2>3. \A i \in Fifos : runs[i] \in Nat /\ runs'[i] \in Nat /\ runs'[i] <= 1
    BY DEF TypeOK, OneRunEach
  <2>4. \A i \in Fifos : runs[i] <= 1
    BY <2>2, <2>3
  <2> QED BY <2>1, <2>4 DEF Alive, OneRunEach
<1>2. accumulator + Total(InFifos, Fifos) = Total(Written, Fifos)
  BY <1>1 DEF Conserved, Alive, InFifos, Written
<1>3. CASE UNCHANGED <<accumulator, fifo, next>>
  <2>1. InFifos' = InFifos /\ Written' = Written /\ accumulator' = accumulator
    BY <1>3 DEF InFifos, Written
  <2> QED BY <1>2, <2>1
<1>4. CASE SrvRead
  <2>1. Written' = Written
    BY <1>4 DEF SrvRead, Written
  <2>2. accumulator' + Total(InFifos', Fifos) = accumulator + Total(InFifos, Fifos)
    BY <1>4, ReadConserved
  <2> QED BY <1>2, <2>1, <2>2
<1>5. CASE \E c \in Fifos : CliWrite(c) /\ c \in fds
  <2>1. PICK c \in Fifos : CliWrite(c) /\ c \in fds
    BY <1>5
  <2>2. PICK A, B, w : A = Total(InFifos, Fifos) /\ B = Total(Written, Fifos) /\ w = next[c]
    OBVIOUS
  <2>3. Total(InFifos', Fifos) = A + w /\ Total(Written', Fifos) = B + w
    BY <2>1, <2>2, WriteConserved
  <2>4. A \in Int /\ B \in Int /\ w \in Int /\ accumulator \in Int
    <3>1. next[c] \in 1..(MaxValue + 1) /\ accumulator \in Nat
      BY DEF TypeOK
    <3> QED BY <2>2, <3>1, SumsType
  <2>5. accumulator + A = B
    BY <1>2, <2>2
  <2>6. accumulator + (A + w) = B + w
    BY <2>4, <2>5
  <2>7. accumulator' = accumulator
    BY <2>1 DEF CliWrite, srvVars
  <2> QED BY <2>3, <2>6, <2>7
<1>6. UNCHANGED <<accumulator, fifo, next>> \/ SrvRead \/ \E c \in Fifos : CliWrite(c) /\ c \in fds
  <2>1. CASE SrvCreate \/ SrvCrash
    BY <2>1 DEF SrvCreate, SrvCrash, Leave, Alive
  <2>2. CASE SrvPoll \/ SrvStopReading
    BY <2>2 DEF SrvPoll, SrvStopReading
  <2>3. CASE SrvHup
    <3>1. UNCHANGED <<accumulator, next>>
      BY <2>3 DEF SrvHup
    <3>2. CASE cur \in fds /\ Hangup(cur)
      <4>1. fifo' = [fifo EXCEPT ![cur] = <<>>] /\ srv = "hup"
        BY <2>3, <3>2 DEF SrvHup
      <4>2. runs[cur] = 1
        BY <1>1, <3>2 DEF ScanInv, Snapshot, Hangup, OneRunEach, TypeOK
      <4>3. fifo[cur] = <<>>
        BY <3>2, <4>1, <4>2 DEF ScanInv, Snapshot, Hangup, TypeOK
      <4>4. fifo' = fifo
        BY <4>1, <4>3 DEF TypeOK
      <4> QED BY <3>1, <4>4
    <3>3. CASE ~(cur \in fds /\ Hangup(cur))
      BY <2>3, <3>1, <3>3 DEF SrvHup
    <3> QED BY <3>2, <3>3
  <2>4. CASE SrvUnlink
    <3>1. fds = {}
      <4>1. Cardinality(fds) = 0
        BY <2>4, FdsFinite DEF SrvUnlink, ScanInv, Accounts
      <4> QED BY <4>1, FdsFinite, FS_EmptySet
    <3>2. \A i \in Fifos : fifo[i] = <<>>
      BY <3>1 DEF ScanInv, Quiet
    <3>3. fifo' = fifo
      BY <2>4, <3>2 DEF SrvUnlink, Leave, TypeOK
    <3> QED BY <2>4, <3>3 DEF SrvUnlink
  <2>5. CASE \E c \in Fifos : CliOpen(c)
    <3>1. PICK c \in Fifos : CliOpen(c)
      BY <2>5
    <3>2. runs'[c] = runs[c] + 1 /\ runs'[c] <= 1
      BY <3>1 DEF CliOpen, OneRunEach, TypeOK
    <3>3. runs[c] = 0
      <4>1. runs[c] \in Nat
        BY DEF TypeOK
      <4> QED BY <3>2, <4>1
    <3>4. next[c] = 1
      BY <3>3 DEF ScanInv, Quiet
    <3>5. next' = next
      BY <3>1, <3>4 DEF CliOpen, TypeOK
    <3> QED BY <3>1, <3>5 DEF CliOpen, srvVars
  <2>6. CASE \E c \in Fifos : CliWrite(c)
    BY <2>6 DEF CliWrite, srvVars
  <2>7. CASE \E c \in Fifos : CliClose(c) \/ CliKill(c)
    BY <2>7 DEF CliClose, CliKill, srvVars
  <2>8. CASE SrvRead
    BY <2>8
  <2> QED BY <2>1, <2>2, <2>3, <2>4, <2>5, <2>6, <2>7, <2>8 DEF Next, SrvStep, CliStep, User
<1> QED BY <1>3, <1>4, <1>5, <1>6

-----------------------------------------------------------------------------
(***************************************************************************)
(* The theorems                                                            *)
(***************************************************************************)

\* The variables keep their types: nclosed never passes NCLIENTS, no fifo
\* holds more than it can, no client writes a value beyond MAXVALUE.
THEOREM TypeCorrect == Spec => []TypeOK
<1>1. TypeOK /\ ScanInv => TypeOK
  OBVIOUS
<1> QED BY InitInv, StepInv, <1>1, PTL DEF Spec

\* What the server does with an old snapshot is justified in the present.
THEOREM SnapshotHolds == Spec => []ScanInv
<1>1. TypeOK /\ ScanInv => ScanInv
  OBVIOUS
<1> QED BY InitInv, StepInv, <1>1, PTL DEF Spec

\* The first client of a fifo never dies of SIGPIPE while the server lives.
THEOREM NobodyCutOffAlways == Spec => []NobodyCutOff
<1>1. TypeOK /\ ScanInv => NobodyCutOff
  <2> SUFFICES ASSUME TypeOK, ScanInv, srv \notin {"failed", "crashed"},
                      NEW i \in Fifos, cli[i] = "sigpipe"
               PROVE  runs[i] > 1
    BY DEF NobodyCutOff
  <2>1. runs[i] # 0 /\ runs[i] # 1
    BY DEF ScanInv, FirstClient, Alive
  <2> QED BY <2>1 DEF TypeOK
<1> QED BY InitInv, StepInv, <1>1, PTL DEF Spec

\* A fifo that had one client is closed by a server that goes on only when
\* that client has ended and every word of it has been read.
THEOREM HangupsAreFinal == Spec => HangupIsFinal
<1> DEFINE Final == \A i \in fds \ fds' : srv' \notin {"failed", "crashed"} /\ runs[i] <= 1 =>
                        cli[i] \in CliEnded /\ fifo[i] = <<>>
<1>1. TypeOK /\ ScanInv /\ [Next]_vars => [Final]_vars
  <2> SUFFICES ASSUME TypeOK, ScanInv, Next, NEW i \in fds \ fds',
                      srv' \notin {"failed", "crashed"}, runs[i] <= 1
               PROVE  cli[i] \in CliEnded /\ fifo[i] = <<>>
    OBVIOUS
  <2>1. i \in Fifos /\ Snapshot(i) /\ Accounts
    BY DEF TypeOK, ScanInv
  <2>2. SrvHup \/ SrvUnlink
    BY DEF Next, SrvStep, CliStep, User, SrvCreate, SrvPoll, SrvRead, SrvStopReading, SrvCrash,
           Leave, CliWrite, CliClose, CliOpen, CliKill
  <2>3. CASE SrvHup
    <3>1. srv = "hup" /\ i = cur /\ i \in fds /\ "POLLHUP" \in revents[i]
      BY <2>3 DEF SrvHup, Hangup
    <3>2. runs[i] = 1
      BY <2>1, <3>1 DEF Snapshot, TypeOK
    <3> QED BY <2>1, <3>1, <3>2 DEF Snapshot
  <2>4. CASE SrvUnlink
    <3>1. Cardinality(fds) = 0
      BY <2>1, <2>4, FdsFinite DEF SrvUnlink, Accounts
    <3> QED BY <3>1, FdsFinite, FS_EmptySet
  <2> QED BY <2>2, <2>3, <2>4
<1> QED BY InitInv, StepInv, <1>1, PTL DEF Spec, HangupIsFinal
\* While every fifo has one client at most, what has been added up and what is
\* still in the fifos is what the clients have written, whatever the order in
\* which they write, are killed and are read
\* (01-non-blocking-server-poll.c:66-87).
THEOREM NothingLost == Spec => []Conserved
<1>1. TypeOK /\ ScanInv /\ Conserved /\ [Next]_vars => Conserved'
  <2> SUFFICES ASSUME TypeOK, ScanInv, Conserved, [Next]_vars PROVE Conserved'
    OBVIOUS
  <2>1. CASE Next
    <3> SUFFICES ASSUME Alive', OneRunEach'
                 PROVE  accumulator' + Total(InFifos', Fifos) = Total(Written', Fifos)
      BY DEF Conserved, Alive, InFifos, Written
    <3>1. TypeOK'
      BY StepInv
    <3> QED BY <2>1, <3>1, StepConserved
  <2>2. CASE UNCHANGED vars
    BY <2>2 DEF vars, Conserved, OneRunEach
  <2> QED BY <2>1, <2>2
<1> QED BY InitInv, InitConserved, StepInv, <1>1, PTL DEF Spec
=============================================================================
