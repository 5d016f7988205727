------------------------------ MODULE BookOpsProofs ------------------------------
(***************************************************************************)
(* What the operations on a book preserve, for any ids, prices and         *)
(* quantities.  Both state machines that keep books, OrderBook and         *)
(* MatchingEngine, are proved about with these lemmas.                     *)
(*                                                                         *)
(* Before them comes what the proofs about several components need to know *)
(* about numbers, sequences and sums; the components that keep no book     *)
(* take it from here with an INSTANCE.  Induction is stated in a form that *)
(* needs no operator as a parameter: a property of numbers is given as the *)
(* set of the numbers that have it.  A recursive function on 0..n is shown *)
(* to exist, and to be what it should be, by such a set.                   *)
(***************************************************************************)
EXTENDS BookOps, TLAPS, SequenceTheorems, FiniteSets, FiniteSetTheorems, WellFoundedInduction

(* Induction **************************************************************)

\* A set of naturals that is not empty has a smallest element.
LEMMA SmallestElement ==
  ASSUME NEW T, T \subseteq Nat, T # {}
  PROVE  \E k \in T : \A j \in T : k <= j
<1>1. \E k \in T : \A j \in T : ~ (<<j, k>> \in OpToRel(<, Nat))
  BY WFMin, NatLessThanWellFounded
<1>2. \A j, k \in Nat : j < k => <<j, k>> \in OpToRel(<, Nat)
  BY Zenon DEF OpToRel
<1>3. PICK k \in T : \A j \in T : ~ (<<j, k>> \in OpToRel(<, Nat)) BY <1>1
<1>4. \A j \in T : ~ (j < k) BY <1>2, <1>3, Zenon
<1> QED BY <1>4

\* Induction on 0..n: a set that has 0, and with each number below n the next
\* one, has all of them.
LEMMA UpToInduction ==
  ASSUME NEW n \in Nat, NEW T, 0 \in T,
         \A i \in 0..(n - 1) : i \in T => i + 1 \in T
  PROVE  \A i \in 0..n : i \in T
<1> DEFINE Bad == {i \in 0..n : i \notin T}
<1> SUFFICES ASSUME Bad # {} PROVE FALSE OBVIOUS
<1>1. PICK k \in Bad : \A j \in Bad : k <= j
  <2>1. Bad \subseteq Nat OBVIOUS
  <2> HIDE DEF Bad
  <2> QED BY <2>1, SmallestElement
<1>2. k \in 1..n BY <1>1
<1>3. k - 1 \in 0..(n - 1) /\ k - 1 \in 0..n /\ ~ (k <= k - 1) BY <1>2
<1>4. k - 1 \in T BY <1>1, <1>3
<1>5. (k - 1) + 1 \in T BY <1>3, <1>4
<1>6. (k - 1) + 1 = k BY <1>2
<1> QED BY <1>1, <1>5, <1>6

\* Induction on the naturals.
LEMMA SetInduction ==
  ASSUME NEW T, 0 \in T, \A i \in Nat : i \in T => i + 1 \in T
  PROVE  \A i \in Nat : i \in T
<1> TAKE n \in Nat
<1>1. \A i \in 0..(n - 1) : i \in T => i + 1 \in T OBVIOUS
<1>2. \A i \in 0..n : i \in T BY <1>1, UpToInduction
<1> QED BY <1>2

(* Sequences **************************************************************)

\* What RemoveAt returns: the other elements, in their order.
LEMMA RemoveAtProperties ==
  ASSUME NEW S, NEW q \in Seq(S), NEW i \in 1..Len(q)
  PROVE  /\ RemoveAt(q, i) \in Seq(S)
         /\ Len(RemoveAt(q, i)) = Len(q) - 1
         /\ \A j \in 1..(Len(q) - 1) :
              RemoveAt(q, i)[j] = IF j < i THEN q[j] ELSE q[j + 1]
<1> DEFINE front == SubSeq(q, 1, i - 1)
           back == SubSeq(q, i + 1, Len(q))
<1>0. Len(q) \in Nat /\ i \in Nat BY LenProperties
<1>1. /\ front \in Seq(S)
      /\ Len(front) = i - 1
      /\ \A j \in 1..(i - 1) : front[j] = q[j]
  <2>1. \A j \in 1..(i - 1) : q[j] \in S BY <1>0, ElementOfSeq
  <2> QED BY <1>0, <2>1, SubSeqProperties
<1>2. /\ back \in Seq(S)
      /\ Len(back) = Len(q) - i
      /\ \A j \in 1..(Len(q) - i) : back[j] = q[i + j]
  <2>1. \A j \in (i + 1)..Len(q) : q[j] \in S BY <1>0, ElementOfSeq
  <2> QED BY <1>0, <2>1, SubSeqProperties
<1>3. RemoveAt(q, i) = front \o back BY DEF RemoveAt
<1> HIDE DEF front, back
<1>4. /\ front \o back \in Seq(S)
      /\ Len(front \o back) = Len(q) - 1
      /\ \A j \in 1..(Len(q) - 1) :
           (front \o back)[j] = IF j <= i - 1 THEN front[j] ELSE back[j - (i - 1)]
  <2>1. /\ front \o back \in Seq(S)
        /\ Len(front \o back) = Len(front) + Len(back)
        /\ \A j \in 1..(Len(front) + Len(back)) :
             (front \o back)[j] = IF j <= Len(front) THEN front[j] ELSE back[j - Len(front)]
    BY <1>1, <1>2, ConcatProperties
  <2>2. Len(front) + Len(back) = Len(q) - 1 /\ Len(front) = i - 1 BY <1>0, <1>1, <1>2
  <2> QED BY <2>1, <2>2
<1>5. ASSUME NEW j \in 1..(Len(q) - 1)
      PROVE  RemoveAt(q, i)[j] = IF j < i THEN q[j] ELSE q[j + 1]
  <2>1. CASE j < i BY <1>0, <1>1, <1>3, <1>4, <2>1
  <2>2. CASE j >= i
    <3>1. j - (i - 1) \in 1..(Len(q) - i) /\ i + (j - (i - 1)) = j + 1 BY <1>0, <2>2
    <3> QED BY <1>0, <1>2, <1>3, <1>4, <2>2, <3>1
  <2> QED BY <1>0, <2>1, <2>2
<1> QED BY <1>3, <1>4, <1>5

(* Sums *******************************************************************)

\* The sum of the values of f on T, taken out of a table of the sums on
\* smaller sets.
One(T) == CHOOSE x \in T : TRUE
SumBy(f, table, T) == IF T = {} THEN 0 ELSE f[One(T)] + table[T \ {One(T)}]

IsSumTable(f, Sets, table) ==
    table \in [Sets -> Int] /\ \A T \in Sets : table[T] = SumBy(f, table, T)

\* The subsets of S that have at most n elements.
UpToSize(S, n) == {T \in SUBSET S : Cardinality(T) <= n}

LEMMA SizeWithout ==
  ASSUME NEW S, IsFiniteSet(S), NEW T \in SUBSET S, NEW x \in T
  PROVE  /\ IsFiniteSet(T) /\ Cardinality(T) \in Nat
         /\ Cardinality(T \ {x}) = Cardinality(T) - 1
         /\ Cardinality(T) >= 1
<1>1. IsFiniteSet(T) BY FS_Subset
<1>2. Cardinality(T) \in Nat BY <1>1, FS_CardinalityType
<1>3. Cardinality(T \ {x}) = Cardinality(T) - 1 BY <1>1, FS_RemoveElement
<1>4. Cardinality(T \ {x}) \in Nat BY <1>1, FS_RemoveElement, FS_CardinalityType
<1> QED BY <1>1, <1>2, <1>3, <1>4

LEMMA OneIsIn == ASSUME NEW T, T # {} PROVE One(T) \in T
BY DEF One

\* The table exists, whatever the order in which the elements are taken.
LEMMA SumTableExists ==
  ASSUME NEW S, IsFiniteSet(S), NEW f \in [S -> Int]
  PROVE  \E table : IsSumTable(f, SUBSET S, table)
<1> DEFINE P == {n \in Nat : \E table : IsSumTable(f, UpToSize(S, n), table)}
<1>1. 0 \in P
  <2> DEFINE table == [T \in UpToSize(S, 0) |-> 0]
  <2>1. \A T \in UpToSize(S, 0) : T = {}
    <3> SUFFICES ASSUME NEW T \in UpToSize(S, 0), NEW x \in T PROVE FALSE OBVIOUS
    <3>1. T \in SUBSET S /\ Cardinality(T) <= 0 BY DEF UpToSize
    <3>2. Cardinality(T) \in Nat /\ Cardinality(T) >= 1 BY <3>1, SizeWithout
    <3> QED BY <3>1, <3>2
  <2>2. IsSumTable(f, UpToSize(S, 0), table) BY <2>1 DEF IsSumTable, SumBy
  <2> QED BY <2>2
<1>2. ASSUME NEW n \in Nat, n \in P PROVE n + 1 \in P
  <2>1. PICK table : IsSumTable(f, UpToSize(S, n), table) BY <1>2
  <2> DEFINE next == [T \in UpToSize(S, n + 1) |-> SumBy(f, table, T)]
  <2>2. ASSUME NEW T \in UpToSize(S, n + 1), T # {}
        PROVE  /\ T \ {One(T)} \in UpToSize(S, n)
               /\ T \ {One(T)} \in UpToSize(S, n + 1)
               /\ f[One(T)] \in Int
    <3>1. One(T) \in T BY <2>2, OneIsIn
    <3>2. T \in SUBSET S /\ Cardinality(T) <= n + 1 BY DEF UpToSize
    <3>3. Cardinality(T) \in Nat /\ Cardinality(T \ {One(T)}) = Cardinality(T) - 1
      BY <3>1, <3>2, SizeWithout
    <3>4. T \ {One(T)} \in SUBSET S /\ One(T) \in S BY <3>1, <3>2
    <3> QED BY <3>2, <3>3, <3>4 DEF UpToSize
  <2>3. \A T \in UpToSize(S, n) : table[T] \in Int /\ table[T] = SumBy(f, table, T)
    BY <2>1 DEF IsSumTable
  <2>4. next \in [UpToSize(S, n + 1) -> Int]
    <3> SUFFICES ASSUME NEW T \in UpToSize(S, n + 1) PROVE SumBy(f, table, T) \in Int
      OBVIOUS
    <3>1. CASE T = {} BY <3>1 DEF SumBy
    <3>2. CASE T # {}
      <4>1. f[One(T)] \in Int /\ table[T \ {One(T)}] \in Int BY <2>2, <2>3, <3>2
      <4> QED BY <3>2, <4>1 DEF SumBy
    <3> QED BY <3>1, <3>2
  <2>5. \A T \in UpToSize(S, n + 1) : next[T] = SumBy(f, next, T)
    <3> TAKE T \in UpToSize(S, n + 1)
    <3>1. CASE T = {} BY <3>1 DEF SumBy
    <3>2. CASE T # {}
      <4> DEFINE R == T \ {One(T)}
      <4>1. next[R] = SumBy(f, table, R) BY <2>2, <3>2
      <4>2. table[R] = SumBy(f, table, R) BY <2>2, <2>3, <3>2
      <4>3. next[T] = f[One(T)] + table[R] BY <3>2 DEF SumBy
      <4>4. SumBy(f, next, T) = f[One(T)] + next[R] BY <3>2 DEF SumBy
      <4> QED BY <4>1, <4>2, <4>3, <4>4
    <3> QED BY <3>1, <3>2
  <2>6. IsSumTable(f, UpToSize(S, n + 1), next) BY <2>4, <2>5 DEF IsSumTable
  <2> QED BY <2>6
<1>3. \A n \in Nat : n \in P
  <2> HIDE DEF P
  <2> QED BY <1>1, <1>2, SetInduction
<1>4. Cardinality(S) \in Nat BY FS_CardinalityType
<1>5. UpToSize(S, Cardinality(S)) = SUBSET S
  <2>1. \A T \in SUBSET S : Cardinality(T) <= Cardinality(S) BY FS_Subset
  <2> QED BY <2>1 DEF UpToSize
<1> QED BY <1>3, <1>4, <1>5

\* In a table of sums any element may be taken out first.
LEMMA TakenInAnyOrder ==
  ASSUME NEW S, IsFiniteSet(S), NEW f \in [S -> Int],
         NEW table, IsSumTable(f, SUBSET S, table),
         NEW T \in SUBSET S, NEW x \in T
  PROVE  table[T] = f[x] + table[T \ {x}]
<1> DEFINE P == {n \in Nat : \A U \in SUBSET S : Cardinality(U) = n =>
                   \A y \in U : table[U] = f[y] + table[U \ {y}]}
<1>0. \A U \in SUBSET S :
        /\ table[U] \in Int
        /\ U # {} => table[U] = f[One(U)] + table[U \ {One(U)}]
  BY DEF IsSumTable, SumBy
<1>1. 0 \in P
  <2>1. \A U \in SUBSET S : Cardinality(U) = 0 => U = {}
    <3> SUFFICES ASSUME NEW U \in SUBSET S, Cardinality(U) = 0, NEW y \in U PROVE FALSE
      OBVIOUS
    <3>1. Cardinality(U) \in Nat /\ Cardinality(U) >= 1 BY SizeWithout
    <3> QED BY <3>1
  <2> QED BY <2>1
<1>2. ASSUME NEW n \in Nat, n \in P PROVE n + 1 \in P
  <2> SUFFICES ASSUME NEW U \in SUBSET S, Cardinality(U) = n + 1, NEW y \in U
               PROVE  table[U] = f[y] + table[U \ {y}]
    OBVIOUS
  <2> DEFINE c == One(U)
  <2>0. U # {} OBVIOUS
  <2>1. c \in U BY <2>0, OneIsIn
  <2>2. table[U] = f[c] + table[U \ {c}] BY <1>0, <2>0
  <2> HIDE DEF c
  <2>3. CASE c = y BY <2>2, <2>3
  <2>4. CASE c # y
    <3>1. /\ Cardinality(U \ {c}) = n /\ Cardinality(U \ {y}) = n
          /\ U \ {c} \in SUBSET S /\ U \ {y} \in SUBSET S
      BY <2>1, SizeWithout
    <3>2. y \in U \ {c} /\ c \in U \ {y} BY <2>1, <2>4
    <3>3. table[U \ {c}] = f[y] + table[(U \ {c}) \ {y}] BY <1>2, <3>1, <3>2
    <3>4. table[U \ {y}] = f[c] + table[(U \ {y}) \ {c}] BY <1>2, <3>1, <3>2
    <3>5. (U \ {c}) \ {y} = (U \ {y}) \ {c} OBVIOUS
    <3>6. f[c] \in Int /\ f[y] \in Int
      <4>1. c \in S /\ y \in S BY <2>1
      <4> QED BY <4>1
    <3>7. table[(U \ {y}) \ {c}] \in Int
      <4>1. (U \ {y}) \ {c} \in SUBSET S OBVIOUS
      <4> QED BY <1>0, <4>1
    <3> DEFINE rest == table[(U \ {y}) \ {c}]
    <3>8. table[U \ {c}] = f[y] + rest /\ table[U \ {y}] = f[c] + rest
      BY <3>3, <3>4, <3>5
    <3>9. rest \in Int BY <3>7
    <3> HIDE DEF P, rest
    <3>10. f[c] + (f[y] + rest) = f[y] + (f[c] + rest) BY <3>6, <3>9
    <3> QED BY <2>2, <3>8, <3>10
  <2> QED BY <2>3, <2>4
<1>3. \A n \in Nat : n \in P
  <2> HIDE DEF P
  <2> QED BY <1>1, <1>2, SetInduction
<1>4. Cardinality(T) \in Nat BY SizeWithout
<1> QED BY <1>3, <1>4

\* Tables of functions that agree on R agree on the subsets of R.
LEMMA TablesAgree ==
  ASSUME NEW S, IsFiniteSet(S), NEW R \in SUBSET S,
         NEW f \in [S -> Int], NEW g \in [R -> Int], \A x \in R : f[x] = g[x],
         NEW t, \A T \in SUBSET S : t[T] = SumBy(f, t, T),
         NEW u, \A T \in SUBSET R : u[T] = SumBy(g, u, T)
  PROVE  t[R] = u[R]
<1> DEFINE P == {n \in Nat : \A T \in SUBSET R : Cardinality(T) = n => t[T] = u[T]}
<1>0. /\ IsFiniteSet(R)
      /\ \A T \in SUBSET R : t[T] = SumBy(f, t, T) /\ u[T] = SumBy(g, u, T)
  BY FS_Subset
<1>1. 0 \in P
  <2> SUFFICES ASSUME NEW T \in SUBSET R, Cardinality(T) = 0 PROVE t[T] = u[T] OBVIOUS
  <2>1. T = {}
    <3> SUFFICES ASSUME NEW x \in T PROVE FALSE OBVIOUS
    <3>1. Cardinality(T) >= 1 BY <1>0, SizeWithout
    <3> QED BY <3>1
  <2> QED BY <1>0, <2>1 DEF SumBy
<1>2. ASSUME NEW n \in Nat, n \in P PROVE n + 1 \in P
  <2> SUFFICES ASSUME NEW T \in SUBSET R, Cardinality(T) = n + 1 PROVE t[T] = u[T] OBVIOUS
  <2>1. CASE T = {} BY <1>0, <2>1 DEF SumBy
  <2>2. CASE T # {}
    <3> DEFINE c == One(T)
    <3>1. c \in T BY <2>2, OneIsIn
    <3>2. T \ {c} \in SUBSET R /\ Cardinality(T \ {c}) = n
      BY <1>0, <3>1, SizeWithout
    <3>3. t[T \ {c}] = u[T \ {c}] BY <1>2, <3>2
    <3>4. t[T] = f[c] + t[T \ {c}] /\ u[T] = g[c] + u[T \ {c}] BY <1>0, <2>2 DEF SumBy
    <3>5. f[c] = g[c] BY <3>1
    <3> QED BY <3>3, <3>4, <3>5
  <2> QED BY <2>1, <2>2
<1>3. \A n \in Nat : n \in P
  <2> HIDE DEF P
  <2> QED BY <1>1, <1>2, SetInduction
<1>4. Cardinality(R) \in Nat BY <1>0, FS_CardinalityType
<1> QED BY <1>3, <1>4

\* The sum of a function is in its table.
LEMMA SumInTable ==
  ASSUME NEW S, IsFiniteSet(S), NEW f \in [S -> Int]
  PROVE  \E table : /\ IsSumTable(f, SUBSET S, table)
                   /\ SumFunction(f) = table[S]
<1> DEFINE chosen == CHOOSE iter : iter = [T \in SUBSET S |-> SumBy(f, iter, T)]
<1>1. PICK t : IsSumTable(f, SUBSET S, t) BY SumTableExists
<1>2. t = [T \in SUBSET S |-> SumBy(f, t, T)] BY <1>1 DEF IsSumTable
<1>3. chosen = [T \in SUBSET S |-> SumBy(f, chosen, T)]
  <2> HIDE DEF chosen
  <2>1. \E iter : iter = [T \in SUBSET S |-> SumBy(f, iter, T)] BY <1>2
  <2> QED BY <2>1 DEF chosen
<1>4. SumFunction(f) = chosen[S]
  <2>1. DOMAIN f = S OBVIOUS
  <2> QED BY <2>1, Zenon
      DEF SumFunction, SumFunctionOnSet, FoldFunctionOnSet, MapThenFoldSet, SumBy, One
<1>5. chosen[S] = t[S]
  <2> HIDE DEF chosen
  <2>1. \A T \in SUBSET S : chosen[T] = SumBy(f, chosen, T) BY <1>3
  <2>2. \A T \in SUBSET S : t[T] = SumBy(f, t, T) BY <1>1 DEF IsSumTable
  <2> QED BY <2>1, <2>2, TablesAgree
<1> QED BY <1>1, <1>4, <1>5

LEMMA SumOfNothing ==
  ASSUME NEW f \in [{} -> Int]
  PROVE  SumFunction(f) = 0
<1>1. IsFiniteSet({}) BY FS_EmptySet
<1>2. PICK t : IsSumTable(f, SUBSET {}, t) /\ SumFunction(f) = t[{}] BY <1>1, SumInTable
<1>3. t[{}] = SumBy(f, t, {}) BY <1>2 DEF IsSumTable
<1> QED BY <1>2, <1>3 DEF SumBy

LEMMA SumIsInteger ==
  ASSUME NEW S, IsFiniteSet(S), NEW f \in [S -> Int]
  PROVE  SumFunction(f) \in Int
<1>1. PICK t : IsSumTable(f, SUBSET S, t) /\ SumFunction(f) = t[S] BY SumInTable
<1> QED BY <1>1 DEF IsSumTable

\* A sum of zeros is zero.
LEMMA SumOfZeros ==
  ASSUME NEW S, IsFiniteSet(S), NEW f \in [S -> Int], \A x \in S : f[x] = 0
  PROVE  SumFunction(f) = 0
<1> DEFINE zeros == [T \in SUBSET S |-> 0]
<1>1. PICK t : IsSumTable(f, SUBSET S, t) /\ SumFunction(f) = t[S] BY SumInTable
<1>2. \A T \in SUBSET S : zeros[T] = SumBy(f, zeros, T)
  <2> TAKE T \in SUBSET S
  <2>1. CASE T = {} BY <2>1 DEF SumBy
  <2>2. CASE T # {}
    <3>1. One(T) \in T BY <2>2, OneIsIn
    <3>2. f[One(T)] = 0 /\ zeros[T \ {One(T)}] = 0 BY <3>1
    <3> QED BY <2>2, <3>2 DEF SumBy
  <2> QED BY <2>1, <2>2
<1>3. \A T \in SUBSET S : t[T] = SumBy(f, t, T) BY <1>1 DEF IsSumTable
<1> HIDE DEF zeros
<1>4. t[S] = zeros[S] BY <1>2, <1>3, TablesAgree
<1> QED BY <1>1, <1>4 DEF zeros

\* f is an integer function on the finite set S, g is f without x.
OneApart(S, f, x, g) ==
    /\ IsFiniteSet(S) /\ x \in S
    /\ f \in [S -> Int] /\ g \in [S \ {x} -> Int]
    /\ \A y \in S \ {x} : g[y] = f[y]

\* The sum of the integers of a finite function, with any one of them apart.
LEMMA SumWithout ==
  ASSUME NEW S, IsFiniteSet(S), NEW f \in [S -> Int], NEW x \in S,
         NEW g \in [S \ {x} -> Int], \A y \in S \ {x} : g[y] = f[y]
  PROVE  /\ SumFunction(f) \in Int /\ SumFunction(g) \in Int
         /\ SumFunction(f) = f[x] + SumFunction(g)
<1> DEFINE R == S \ {x}
<1>1. R \in SUBSET S /\ IsFiniteSet(R) BY FS_Subset
<1>2. PICK t : IsSumTable(f, SUBSET S, t) /\ SumFunction(f) = t[S] BY SumInTable
<1>3. PICK u : IsSumTable(g, SUBSET R, u) /\ SumFunction(g) = u[R] BY <1>1, SumInTable
<1>4. t[S] = f[x] + t[R] BY <1>2, TakenInAnyOrder
<1>5. t[R] = u[R]
  <2>1. \A T \in SUBSET S : t[T] = SumBy(f, t, T) BY <1>2 DEF IsSumTable
  <2>2. \A T \in SUBSET R : u[T] = SumBy(g, u, T) BY <1>3 DEF IsSumTable
  <2> QED BY <1>1, <2>1, <2>2, TablesAgree
<1>6. t[S] \in Int /\ u[R] \in Int BY <1>2, <1>3 DEF IsSumTable
<1> QED BY <1>2, <1>3, <1>4, <1>5, <1>6

\* Another value at one place changes the sum by the difference.
LEMMA SumWithChange ==
  ASSUME NEW S, IsFiniteSet(S), NEW f \in [S -> Int], NEW g \in [S -> Int],
         NEW x \in S, \A y \in S \ {x} : g[y] = f[y]
  PROVE  /\ SumFunction(f) \in Int
         /\ SumFunction(g) = SumFunction(f) - f[x] + g[x]
<1> DEFINE h == [y \in S \ {x} |-> f[y]]
<1>1. h \in [S \ {x} -> Int] /\ \A y \in S \ {x} : h[y] = f[y] /\ h[y] = g[y] OBVIOUS
<1> HIDE DEF h
<1>2. /\ SumFunction(f) \in Int /\ SumFunction(h) \in Int
      /\ SumFunction(f) = f[x] + SumFunction(h)
  BY <1>1, SumWithout
<1>3. SumFunction(g) = g[x] + SumFunction(h) BY <1>1, SumWithout
<1>4. f[x] \in Int /\ g[x] \in Int OBVIOUS
<1> QED BY <1>2, <1>3, <1>4

LEMMA SumOneApart ==
  ASSUME NEW S, NEW f, NEW x, NEW g, OneApart(S, f, x, g)
  PROVE  SumFunction(g) \in Int /\ SumFunction(f) = f[x] + SumFunction(g)
<1>1. /\ SumFunction(f) \in Int /\ SumFunction(g) \in Int
      /\ SumFunction(f) = f[x] + SumFunction(g)
  <2>1. IsFiniteSet(S) BY DEF OneApart
  <2>2. x \in S BY DEF OneApart
  <2>3. f \in [S -> Int] BY DEF OneApart
  <2>4. g \in [S \ {x} -> Int] BY DEF OneApart
  <2>5. \A y \in S \ {x} : g[y] = f[y] BY DEF OneApart
  <2> QED BY ONLY <2>1, <2>2, <2>3, <2>4, <2>5, SumWithout
<1> QED BY <1>1

(* Prices and levels *****************************************************)

LEMMA PricesAreIntegers == Prices \subseteq Int
BY PricesAssumption

\* A set of prices that is not empty has a largest and a smallest element:
\* begin() of a side that is not empty is well defined.
LEMMA ExtremePrices ==
  ASSUME NEW P, P \subseteq Prices, P # {}
  PROVE  /\ \E p \in P : \A q \in P : p <= q
         /\ \E p \in P : \A q \in P : q <= p
<1>0. /\ PriceBound \in Nat
      /\ \A p \in P : p \in Int /\ -PriceBound <= p /\ p <= PriceBound
  BY PricesAssumption
<1>1. \A T : T \subseteq Nat /\ T # {} => \E k \in T : \A m \in T : k <= m
  BY SmallestElement
<1>2. \E p \in P : \A q \in P : p <= q
  <2> DEFINE T == {k \in Nat : k - PriceBound \in P}
  <2>1. T # {}
    <3>1. PICK p \in P : TRUE OBVIOUS
    <3>2. p + PriceBound \in T BY <1>0
    <3> QED BY <3>2
  <2>2. PICK k \in T : \A j \in T : k <= j BY <1>1, <2>1
  <2>3. \A q \in P : k - PriceBound <= q
    <3> TAKE q \in P
    <3>1. q + PriceBound \in T BY <1>0
    <3>2. k <= q + PriceBound BY <2>2, <3>1
    <3> QED BY <1>0, <3>2
  <2> QED BY <2>3
<1>3. \E p \in P : \A q \in P : q <= p
  <2> DEFINE T == {k \in Nat : PriceBound - k \in P}
  <2>1. T # {}
    <3>1. PICK p \in P : TRUE OBVIOUS
    <3>2. PriceBound - p \in T BY <1>0
    <3> QED BY <3>2
  <2>2. PICK k \in T : \A j \in T : k <= j BY <1>1, <2>1
  <2>3. \A q \in P : q <= PriceBound - k
    <3> TAKE q \in P
    <3>1. PriceBound - q \in T BY <1>0
    <3>2. k <= PriceBound - q BY <2>2, <3>1
    <3> QED BY <1>0, <3>2
  <2> QED BY <2>3
<1> QED BY <1>2, <1>3

(* What the operations on a book preserve *********************************)

BookInv(b) == BookType(b) /\ Indexed(b) /\ QueuesSound(b) /\ HeapListed(b)

LEMMA NewBookSound == BookInv(NewBook) /\ DOMAIN NewBook.heap = {}
BY DEF BookInv, NewBook, BookType, PartialFunction, Indexed, QueuesSound,
       HeapListed, Node, Side

\* The parts of the book that Added leaves.
LEMMA AddedParts ==
  ASSUME NEW b, NEW o
  PROVE  /\ DOMAIN Added(b, o) = {"levels", "orders", "heap", "fresh"}
         /\ Added(b, o).fresh = b.fresh + 1
BY DEF Added

\* The index entry that Added writes, and those it leaves.
LEMMA AddedOrders ==
  ASSUME NEW b, BookType(b), NEW o
  PROVE  /\ Added(b, o).orders \in [DOMAIN b.orders \cup {o.id} -> Node]
         /\ Added(b, o).orders[o.id] = b.fresh
         /\ \A id \in DOMAIN b.orders :
              id # o.id => Added(b, o).orders[id] = b.orders[id]
<1>1. b.fresh \in Node BY DEF BookType
<1>2. b.orders \in [DOMAIN b.orders -> Node] BY DEF BookType, PartialFunction
<1>3. Added(b, o).orders = Put(b.orders, o.id, b.fresh) BY DEF Added
<1> QED BY <1>1, <1>2, <1>3 DEF Put

\* A queue stays sound as long as the nodes on it keep their orders.
LEMMA QueueKept ==
  ASSUME NEW b, NEW c, NEW s, NEW p, NEW q, QueueSound(b, s, p, q),
         \A m \in DOMAIN b.heap : m \in DOMAIN c.heap /\ c.heap[m] = b.heap[m]
  PROVE  QueueSound(c, s, p, q)
BY DEF QueueSound

LEMMA FreshIsFree ==
  ASSUME NEW b, BookType(b)
  PROVE  b.fresh \notin DOMAIN b.heap
BY DEF BookType, Node

LEMMA AddedHeap ==
  ASSUME NEW b, NEW o
  PROVE  /\ DOMAIN Added(b, o).heap = DOMAIN b.heap \cup {b.fresh}
         /\ b.fresh \notin DOMAIN b.heap =>
              /\ Added(b, o).heap[b.fresh] = o
              /\ \A m \in DOMAIN b.heap : Added(b, o).heap[m] = b.heap[m]
BY DEF Added, Put

LEMMA AddedHeapTyped ==
  ASSUME NEW b, BookType(b), NEW o \in Order
  PROVE  Added(b, o).heap \in [DOMAIN b.heap \cup {b.fresh} -> Order]
<1>1. b.heap \in [DOMAIN b.heap -> Order] BY DEF BookType, PartialFunction
<1>2. Added(b, o).heap = Put(b.heap, b.fresh, o) BY DEF Added
<1>3. Put(b.heap, b.fresh, o) \in [DOMAIN b.heap \cup {b.fresh} -> Order]
  BY <1>1 DEF Put
<1> QED BY <1>2, <1>3

\* And its levels: only the level of the order's side and price is new.
LEMMA AddedLevels ==
  ASSUME NEW b, BookType(b), NEW o \in Order
  PROVE  LET c     == Added(b, o)
             old   == b.levels[o.side]
             level == IF o.price \in DOMAIN old THEN old[o.price] ELSE EmptyLevel
         IN
         /\ DOMAIN c.levels = Side
         /\ \A s \in Side \ {o.side} : c.levels[s] = b.levels[s]
         /\ c.levels[o.side] \in [DOMAIN old \cup {o.price} -> Level]
         /\ \A p \in DOMAIN old : p # o.price => c.levels[o.side][p] = old[p]
         /\ level.queue \in Seq(Node)
         /\ c.levels[o.side][o.price].queue = Append(level.queue, b.fresh)
<1> DEFINE c     == Added(b, o)
           old   == b.levels[o.side]
           level == IF o.price \in DOMAIN old THEN old[o.price] ELSE EmptyLevel
           new   == LevelAdd(level, b.fresh, o)
<1>1. o.side \in Side /\ Remaining(o) \in Int BY DEF Order, Remaining
<1>2. DOMAIN b.levels = Side /\ old \in [DOMAIN old -> Level] /\ b.fresh \in Node
  BY <1>1 DEF BookType, PartialFunction
<1>3. level \in Level
  <2>1. EmptyLevel \in Level BY DEF EmptyLevel, Level
  <2> QED BY <1>2, <2>1
<1>4. new \in Level /\ new.queue = Append(level.queue, b.fresh)
  <2>1. level.queue \in Seq(Node) /\ level.total_qty \in Int BY <1>3 DEF Level
  <2> HIDE DEF level
  <2>2. Append(level.queue, b.fresh) \in Seq(Node) BY <1>2, <2>1
  <2>3. level.total_qty + Remaining(o) \in Int BY <1>1, <2>1
  <2> QED BY <2>2, <2>3 DEF LevelAdd, Level
<1>5. c.levels = [b.levels EXCEPT ![o.side] = Put(old, o.price, new)]
  BY DEF Added
<1> HIDE DEF c, new, level, old
<1>6. /\ DOMAIN c.levels = Side
      /\ \A s \in Side \ {o.side} : c.levels[s] = b.levels[s]
      /\ c.levels[o.side] = Put(old, o.price, new)
  BY <1>1, <1>2, <1>5
<1>7. /\ c.levels[o.side] \in [DOMAIN old \cup {o.price} -> Level]
      /\ \A p \in DOMAIN old : p # o.price => c.levels[o.side][p] = old[p]
      /\ c.levels[o.side][o.price] = new
  BY <1>2, <1>4, <1>6 DEF Put
<1>8. level.queue \in Seq(Node) BY <1>3 DEF Level
<1> QED BY <1>4, <1>6, <1>7, <1>8 DEF c, old, level

LEMMA AppendToQueue ==
  ASSUME NEW S, NEW q \in Seq(S), NEW x \in S
  PROVE  /\ Append(q, x) \in Seq(S)
         /\ Append(q, x) # << >>
         /\ DOMAIN Append(q, x) = DOMAIN q \cup {Len(q) + 1}
         /\ \A i \in DOMAIN q : Append(q, x)[i] = q[i] /\ i < Len(q) + 1 /\ i \in Nat
         /\ Append(q, x)[Len(q) + 1] = x
OBVIOUS

\* The queue that Added appends to was sound, or is empty.
LEMMA AddedQueue ==
  ASSUME NEW b, BookInv(b), NEW o \in Order
  PROVE  LET c == Added(b, o) IN
         /\ QueueSound(c, o.side, o.price, c.levels[o.side][o.price].queue)
         /\ Listed(c, b.fresh)
<1> DEFINE c     == Added(b, o)
           old   == b.levels[o.side]
           level == IF o.price \in DOMAIN old THEN old[o.price] ELSE EmptyLevel
           q     == level.queue
           new   == c.levels[o.side][o.price].queue
<1>1. BookType(b) /\ o.side \in Side BY DEF BookInv, Order
<1>2. /\ c.heap[b.fresh] = o
      /\ DOMAIN c.heap = DOMAIN b.heap \cup {b.fresh}
      /\ \A m \in DOMAIN b.heap : c.heap[m] = b.heap[m]
  BY <1>1, AddedHeap, FreshIsFree
<1>3. /\ q \in Seq(Node)
      /\ new = Append(q, b.fresh)
      /\ c.levels[o.side] \in [DOMAIN old \cup {o.price} -> Level]
  BY <1>1, AddedLevels
<1>4. b.fresh \in Node /\ (\A m \in DOMAIN b.heap : m < b.fresh) BY <1>1 DEF BookType
<1>5. \A i \in DOMAIN q : /\ q[i] \in DOMAIN b.heap
                          /\ b.heap[q[i]].side = o.side
                          /\ b.heap[q[i]].price = o.price
  <2>1. CASE o.price \in DOMAIN old
    <3>1. QueueSound(b, o.side, o.price, q) BY <1>1, <2>1 DEF BookInv, QueuesSound
    <3> QED BY <3>1 DEF QueueSound
  <2>2. CASE o.price \notin DOMAIN old
    BY <2>2 DEF EmptyLevel
  <2> QED BY <2>1, <2>2
<1>6. \A i, j \in DOMAIN q : i < j => q[i] < q[j]
  <2>1. CASE o.price \in DOMAIN old
    <3>1. QueueSound(b, o.side, o.price, q) BY <1>1, <2>1 DEF BookInv, QueuesSound
    <3> QED BY <3>1 DEF QueueSound
  <2>2. CASE o.price \notin DOMAIN old
    BY <2>2 DEF EmptyLevel
  <2> QED BY <2>1, <2>2
<1>7. /\ new # << >>
      /\ DOMAIN new = DOMAIN q \cup {Len(q) + 1}
      /\ \A i \in DOMAIN q : new[i] = q[i] /\ i < Len(q) + 1 /\ i \in Nat
      /\ new[Len(q) + 1] = b.fresh
      /\ Len(q) \in Nat
  <2> HIDE DEF q, new
  <2> QED BY <1>3, <1>4, AppendToQueue
<1> HIDE DEF c, new, q
<1>8. \A i \in DOMAIN new : /\ new[i] \in DOMAIN c.heap
                            /\ c.heap[new[i]].side = o.side
                            /\ c.heap[new[i]].price = o.price
  BY <1>2, <1>5, <1>7
<1>9. \A i, j \in DOMAIN new : i < j => new[i] < new[j]
  <2> TAKE i, j \in DOMAIN new
  <2> HAVE i < j
  <2>1. i \in DOMAIN q BY <1>7
  <2>2. CASE j \in DOMAIN q BY <1>6, <1>7, <2>1, <2>2
  <2>3. CASE j = Len(q) + 1 BY <1>4, <1>5, <1>7, <2>1, <2>3
  <2> QED BY <1>7, <2>2, <2>3
<1>10. QueueSound(c, o.side, o.price, new) BY <1>7, <1>8, <1>9 DEF QueueSound
<1>11. Listed(c, b.fresh)
  <2>1. Len(q) + 1 \in DOMAIN new BY <1>7
  <2>2. o.price \in DOMAIN c.levels[o.side] BY <1>3
  <2> QED BY <1>2, <1>7, <2>1, <2>2 DEF Listed, new
<1> QED BY <1>10, <1>11 DEF c, new

\* add_order keeps a book sound.
LEMMA AddedSound ==
  ASSUME NEW b, BookInv(b), NEW o \in Order
  PROVE  BookInv(Added(b, o))
<1> DEFINE c   == Added(b, o)
           old == b.levels[o.side]
<1>1. /\ BookType(b) /\ Indexed(b) /\ QueuesSound(b) /\ HeapListed(b)
      /\ o.side \in Side /\ o.price \in Prices /\ o.id \in OrderIds
  BY DEF BookInv, Order
<1>2. /\ DOMAIN c = {"levels", "orders", "heap", "fresh"}
      /\ c.fresh = b.fresh + 1
      /\ b.fresh \notin DOMAIN b.heap
      /\ c.heap \in [DOMAIN b.heap \cup {b.fresh} -> Order]
      /\ c.heap[b.fresh] = o
      /\ \A m \in DOMAIN b.heap : c.heap[m] = b.heap[m]
      /\ c.orders \in [DOMAIN b.orders \cup {o.id} -> Node]
      /\ c.orders[o.id] = b.fresh
      /\ \A id \in DOMAIN b.orders : id # o.id => c.orders[id] = b.orders[id]
  <2>1. /\ DOMAIN c = {"levels", "orders", "heap", "fresh"}
        /\ c.fresh = b.fresh + 1
        /\ b.fresh \notin DOMAIN b.heap
    BY <1>1, AddedParts, FreshIsFree
  <2>2. /\ c.heap \in [DOMAIN b.heap \cup {b.fresh} -> Order]
        /\ c.heap[b.fresh] = o
        /\ \A m \in DOMAIN b.heap : c.heap[m] = b.heap[m]
    BY <1>1, AddedHeap, AddedHeapTyped, FreshIsFree
  <2>3. /\ c.orders \in [DOMAIN b.orders \cup {o.id} -> Node]
        /\ c.orders[o.id] = b.fresh
        /\ \A id \in DOMAIN b.orders : id # o.id => c.orders[id] = b.orders[id]
    BY <1>1, AddedOrders
  <2> QED BY <2>1, <2>2, <2>3
<1>3. /\ DOMAIN c.levels = Side
      /\ \A s \in Side \ {o.side} : c.levels[s] = b.levels[s]
      /\ c.levels[o.side] \in [DOMAIN old \cup {o.price} -> Level]
      /\ \A p \in DOMAIN old : p # o.price => c.levels[o.side][p] = old[p]
      /\ o.price \in DOMAIN old =>
           c.levels[o.side][o.price].queue = Append(old[o.price].queue, b.fresh)
  BY <1>1, AddedLevels
<1>4. /\ QueueSound(c, o.side, o.price, c.levels[o.side][o.price].queue)
      /\ Listed(c, b.fresh)
  BY AddedQueue
<1>5. /\ b.fresh \in Nat \ {0}
      /\ \A m \in DOMAIN b.heap : m < b.fresh /\ m \in Nat \ {0}
  BY <1>1 DEF BookType, PartialFunction, Node
<1> HIDE DEF c
<1>6. BookType(c)
  <2>1. \A s \in Side : PartialFunction(c.levels[s], Prices, Level)
    <3> TAKE s \in Side
    <3>1. PartialFunction(b.levels[s], Prices, Level) BY <1>1 DEF BookType
    <3> QED BY <1>1, <1>3, <3>1 DEF PartialFunction
  <2>2. PartialFunction(c.orders, OrderIds, Node)
    BY <1>1, <1>2 DEF BookType, PartialFunction
  <2>3. PartialFunction(c.heap, Node, Order)
    BY <1>2, <1>5 DEF PartialFunction, Node
  <2>4. c.fresh \in Node /\ \A n \in DOMAIN c.heap : n < c.fresh
    BY <1>2, <1>5 DEF Node
  <2> QED BY <1>2, <1>3, <2>1, <2>2, <2>3, <2>4 DEF BookType
<1>7. Indexed(c) BY <1>1, <1>2 DEF Indexed
<1>8. QueuesSound(c)
  <2> SUFFICES ASSUME NEW s \in Side, NEW p \in DOMAIN c.levels[s]
               PROVE  QueueSound(c, s, p, c.levels[s][p].queue)
    BY DEF QueuesSound
  <2>1. CASE s = o.side /\ p = o.price BY <1>4, <2>1
  <2>2. CASE s # o.side \/ p # o.price
    <3>1. p \in DOMAIN b.levels[s] /\ c.levels[s][p] = b.levels[s][p] BY <1>3, <2>2
    <3>2. QueueSound(b, s, p, b.levels[s][p].queue) BY <1>1, <3>1 DEF QueuesSound
    <3>3. \A m \in DOMAIN b.heap : m \in DOMAIN c.heap /\ c.heap[m] = b.heap[m]
      BY <1>2
    <3> QED BY <3>1, <3>2, <3>3, QueueKept
  <2> QED BY <2>1, <2>2
<1>9. HeapListed(c)
  <2> SUFFICES ASSUME NEW n \in DOMAIN c.heap PROVE Listed(c, n)
    BY DEF HeapListed
  <2>1. CASE n = b.fresh BY <1>4, <2>1
  <2>2. CASE n # b.fresh
    <3> DEFINE s == b.heap[n].side
               p == b.heap[n].price
               q == b.levels[s][p].queue
    <3>1. n \in DOMAIN b.heap /\ c.heap[n] = b.heap[n] BY <1>2, <2>2
    <3>2. /\ s \in Side
          /\ p \in DOMAIN b.levels[s]
          /\ \E i \in DOMAIN q : q[i] = n
      BY <1>1, <3>1 DEF HeapListed, Listed, BookType, PartialFunction, Order
    <3>3. p \in DOMAIN c.levels[s] BY <1>3, <3>2
    <3>4. \E i \in DOMAIN c.levels[s][p].queue : c.levels[s][p].queue[i] = n
      <4>1. CASE s = o.side /\ p = o.price
        <5>1. c.levels[s][p].queue = Append(q, b.fresh) BY <1>3, <3>2, <4>1
        <5>2. q \in Seq(Node)
          BY <1>1, <3>2 DEF BookType, PartialFunction, Level
        <5>3. DOMAIN q \subseteq DOMAIN Append(q, b.fresh)
              /\ \A i \in DOMAIN q : Append(q, b.fresh)[i] = q[i]
          <6> HIDE DEF q
          <6> QED BY <1>5, <5>2, AppendToQueue DEF Node
        <5> QED BY <3>2, <5>1, <5>3
      <4>2. CASE s # o.side \/ p # o.price
        <5>1. c.levels[s][p] = b.levels[s][p] BY <1>3, <3>2, <4>2
        <5> QED BY <3>2, <5>1
      <4> QED BY <4>1, <4>2
    <3> QED BY <3>1, <3>3, <3>4 DEF Listed
  <2> QED BY <2>1, <2>2
<1> QED BY <1>6, <1>7, <1>8, <1>9 DEF BookInv, c

\* What Released leaves: the other nodes and the other index entries.
LEMMA ReleasedParts ==
  ASSUME NEW b, BookInv(b), NEW n \in DOMAIN b.heap
  PROVE  LET c == Released(b, n) IN
         /\ DOMAIN c = {"levels", "orders", "heap", "fresh"}
         /\ c.fresh = b.fresh
         /\ c.heap = [m \in DOMAIN b.heap \ {n} |-> b.heap[m]]
         /\ c.orders = [id \in DOMAIN b.orders \ {b.heap[n].id} |-> b.orders[id]]
         /\ c.levels = [b.levels EXCEPT
                          ![b.heap[n].side] = Unlinked(@, n, b.heap[n])]
BY DEF Released, Restrict

\* Where a live node waits, and the queue without it.
LEMMA QueueWithout ==
  ASSUME NEW b, BookInv(b), NEW n \in DOMAIN b.heap
  PROVE  LET o    == b.heap[n]
             old  == b.levels[o.side]
             q    == old[o.price].queue
             rest == LevelRemove(old[o.price], n, o).queue
         IN
         /\ o.side \in Side
         /\ o.price \in DOMAIN old
         /\ LevelRemove(old[o.price], n, o) \in Level
         /\ Range(rest) = Range(q) \ {n}
         /\ \A j, k \in DOMAIN rest : j < k => rest[j] < rest[k]
<1> DEFINE o    == b.heap[n]
           old  == b.levels[o.side]
           q    == old[o.price].queue
           i    == CHOOSE i \in DOMAIN q : q[i] = n
           rest == LevelRemove(old[o.price], n, o).queue
<1>1. /\ o \in Order /\ o.side \in Side
      /\ Remaining(o) \in Int
      /\ o.price \in DOMAIN old
      /\ \E k \in DOMAIN q : q[k] = n
  <2>1. o \in Order BY DEF BookInv, BookType, PartialFunction
  <2>2. Listed(b, n) BY DEF BookInv, HeapListed
  <2>3. o.side \in Side /\ Remaining(o) \in Int BY <2>1 DEF Order, Remaining
  <2> QED BY <2>1, <2>2, <2>3 DEF Listed
<1>2. old[o.price] \in Level /\ q \in Seq(Node)
  BY <1>1 DEF BookInv, BookType, PartialFunction, Level
<1>3. \A j, k \in DOMAIN q : j < k => q[j] < q[k]
  <2>1. QueueSound(b, o.side, o.price, q) BY <1>1 DEF BookInv, QueuesSound
  <2> QED BY <2>1 DEF QueueSound
<1>4. i \in DOMAIN q /\ q[i] = n BY <1>1
<1>5. /\ rest = RemoveAt(q, i)
      /\ LevelRemove(old[o.price], n, o).total_qty = old[o.price].total_qty - Remaining(o)
      /\ LevelRemove(old[o.price], n, o)
           = [queue |-> RemoveAt(q, i), total_qty |-> old[o.price].total_qty - Remaining(o)]
  BY DEF LevelRemove
<1>6. old[o.price].total_qty - Remaining(o) \in Int
  <2>1. old[o.price].total_qty \in Int BY <1>2 DEF Level
  <2> QED BY <1>1, <2>1
<1> HIDE DEF o, old, q, i, rest
<1>7. DOMAIN q = 1..Len(q) /\ Len(q) \in Nat /\ i \in 1..Len(q)
  BY <1>2, <1>4, LenProperties
<1>8. /\ rest \in Seq(Node)
      /\ Len(rest) = Len(q) - 1
      /\ \A j \in 1..(Len(q) - 1) : rest[j] = IF j < i THEN q[j] ELSE q[j + 1]
  BY <1>2, <1>5, <1>7, RemoveAtProperties
<1>9. DOMAIN rest = 1..(Len(q) - 1) BY <1>8, LenProperties
<1>10. LevelRemove(old[o.price], n, o) \in Level BY <1>5, <1>6, <1>8 DEF Level
<1>11. \A k \in DOMAIN q : q[k] \in Nat BY <1>2, <1>7, ElementOfSeq DEF Node
<1>12. \A k \in DOMAIN q : k # i => q[k] # n
  <2> TAKE k \in DOMAIN q
  <2> HAVE k # i
  <2>1. k < i \/ i < k BY <1>7
  <2> QED BY <1>3, <1>4, <1>11, <2>1
<1>13. \A j \in DOMAIN rest : \E k \in DOMAIN q : rest[j] = q[k] /\ q[k] # n
  <2> TAKE j \in DOMAIN rest
  <2>1. CASE j < i BY <1>7, <1>8, <1>9, <1>12, <2>1
  <2>2. CASE ~(j < i)
    <3>1. rest[j] = q[j + 1] /\ j + 1 \in DOMAIN q /\ j + 1 # i
      BY <1>7, <1>8, <1>9, <2>2
    <3> QED BY <1>12, <3>1
  <2> QED BY <2>1, <2>2
<1>14. \A k \in DOMAIN q : q[k] # n => \E j \in DOMAIN rest : rest[j] = q[k]
  <2> TAKE k \in DOMAIN q
  <2> HAVE q[k] # n
  <2>1. CASE k < i
    <3>1. k \in DOMAIN rest /\ rest[k] = q[k] BY <1>7, <1>8, <1>9, <2>1
    <3> QED BY <3>1
  <2>2. CASE i < k
    <3>1. k - 1 \in DOMAIN rest /\ ~(k - 1 < i) /\ (k - 1) + 1 = k BY <1>7, <1>9, <2>2
    <3>2. rest[k - 1] = q[k] BY <1>8, <1>9, <3>1
    <3> QED BY <3>1, <3>2
  <2> QED BY <1>4, <1>7, <2>1, <2>2
<1>15. \A j, k \in DOMAIN rest : j < k => rest[j] < rest[k]
  <2> TAKE j, k \in DOMAIN rest
  <2> HAVE j < k
  <2>1. \A m \in DOMAIN rest : /\ m \in DOMAIN q /\ m + 1 \in DOMAIN q
                               /\ rest[m] = IF m < i THEN q[m] ELSE q[m + 1]
    BY <1>7, <1>8, <1>9
  <2>2. CASE k < i BY <1>3, <1>7, <2>1, <2>2
  <2>3. CASE j < i /\ ~(k < i)
    <3>1. j < k + 1 BY <1>7, <1>9
    <3> QED BY <1>3, <2>1, <2>3, <3>1
  <2>4. CASE ~(j < i)
    <3>1. j + 1 < k + 1 /\ ~(k < i) BY <1>7, <1>9, <2>4
    <3> QED BY <1>3, <2>1, <2>4, <3>1
  <2> QED BY <1>7, <1>9, <2>2, <2>3, <2>4
<1>16. Range(rest) = Range(q) \ {n} BY <1>13, <1>14 DEF Range
<1> QED BY <1>1, <1>10, <1>15, <1>16 DEF o, old, q, rest

\* Unlinking keeps a side's levels sound and drops an empty one.
LEMMA ReleasedLevels ==
  ASSUME NEW b, BookInv(b), NEW n \in DOMAIN b.heap
  PROVE  LET c    == Released(b, n)
             o    == b.heap[n]
             old  == b.levels[o.side]
             rest == LevelRemove(old[o.price], n, o)
         IN
         /\ DOMAIN c.levels = Side
         /\ \A s \in Side \ {o.side} : c.levels[s] = b.levels[s]
         /\ PartialFunction(c.levels[o.side], Prices, Level)
         /\ o.price \in DOMAIN c.levels[o.side] <=> rest.queue # << >>
         /\ o.price \in DOMAIN c.levels[o.side] => c.levels[o.side][o.price] = rest
         /\ \A p \in DOMAIN old : p # o.price =>
              p \in DOMAIN c.levels[o.side] /\ c.levels[o.side][p] = old[p]
         /\ DOMAIN c.levels[o.side] \subseteq DOMAIN old
<1> DEFINE c    == Released(b, n)
           o    == b.heap[n]
           old  == b.levels[o.side]
           rest == LevelRemove(old[o.price], n, o)
<1>1. o.side \in Side /\ o.price \in DOMAIN old /\ rest \in Level BY QueueWithout
<1>2. /\ DOMAIN b.levels = Side
      /\ PartialFunction(old, Prices, Level)
  BY <1>1 DEF BookInv, BookType
<1>3. c.levels = [b.levels EXCEPT ![o.side] = Unlinked(old, n, o)]
  BY <1>1, <1>2, ReleasedParts
<1>4. Unlinked(old, n, o) = IF rest.queue = << >>
                            THEN [p \in DOMAIN old \ {o.price} |-> old[p]]
                            ELSE [old EXCEPT ![o.price] = rest]
  BY <1>1 DEF Unlinked, Restrict
<1> HIDE DEF c, o, old, rest
<1>5. /\ DOMAIN c.levels = Side
      /\ \A s \in Side \ {o.side} : c.levels[s] = b.levels[s]
      /\ c.levels[o.side] = Unlinked(old, n, o)
  BY <1>1, <1>2, <1>3
<1>6. PartialFunction(c.levels[o.side], Prices, Level)
  <2>1. CASE rest.queue = << >> BY <1>2, <1>4, <1>5, <2>1 DEF PartialFunction
  <2>2. CASE rest.queue # << >> BY <1>1, <1>2, <1>4, <1>5, <2>2 DEF PartialFunction
  <2> QED BY <2>1, <2>2
<1>7. /\ o.price \in DOMAIN c.levels[o.side] <=> rest.queue # << >>
      /\ o.price \in DOMAIN c.levels[o.side] => c.levels[o.side][o.price] = rest
      /\ \A p \in DOMAIN old : p # o.price =>
           p \in DOMAIN c.levels[o.side] /\ c.levels[o.side][p] = old[p]
      /\ DOMAIN c.levels[o.side] \subseteq DOMAIN old
  <2>1. CASE rest.queue = << >> BY <1>4, <1>5, <2>1
  <2>2. CASE rest.queue # << >> BY <1>1, <1>4, <1>5, <2>2
  <2> QED BY <2>1, <2>2
<1> QED BY <1>5, <1>6, <1>7 DEF c, o, old, rest

\* The step that cancel_order, modify_order and a complete fill share keeps a
\* book sound: it forgets exactly one node, everywhere.
LEMMA ReleasedSound ==
  ASSUME NEW b, BookInv(b), NEW n \in DOMAIN b.heap
  PROVE  BookInv(Released(b, n))
<1> DEFINE c    == Released(b, n)
           o    == b.heap[n]
           old  == b.levels[o.side]
           rest == LevelRemove(old[o.price], n, o)
<1>1. /\ BookType(b) /\ Indexed(b) /\ QueuesSound(b) /\ HeapListed(b)
  BY DEF BookInv
<1>2. /\ DOMAIN c = {"levels", "orders", "heap", "fresh"}
      /\ c.fresh = b.fresh
      /\ c.heap = [m \in DOMAIN b.heap \ {n} |-> b.heap[m]]
      /\ c.orders = [id \in DOMAIN b.orders \ {o.id} |-> b.orders[id]]
  BY ReleasedParts
<1>3. /\ o.side \in Side /\ o.price \in DOMAIN old
      /\ DOMAIN c.levels = Side
      /\ \A s \in Side \ {o.side} : c.levels[s] = b.levels[s]
      /\ PartialFunction(c.levels[o.side], Prices, Level)
      /\ DOMAIN c.levels[o.side] \subseteq DOMAIN old
  BY QueueWithout, ReleasedLevels
<1>4. /\ o.price \in DOMAIN c.levels[o.side] <=> rest.queue # << >>
      /\ o.price \in DOMAIN c.levels[o.side] => c.levels[o.side][o.price] = rest
      /\ \A p \in DOMAIN old : p # o.price =>
           p \in DOMAIN c.levels[o.side] /\ c.levels[o.side][p] = old[p]
  BY ReleasedLevels
<1>5a. Range(rest.queue) = Range(old[o.price].queue) \ {n}
  BY QueueWithout
<1>5b. \A j, k \in DOMAIN rest.queue : j < k => rest.queue[j] < rest.queue[k]
  BY QueueWithout
<1> HIDE DEF c, rest
<1>6. BookType(c)
  BY <1>1, <1>2, <1>3 DEF BookType, PartialFunction
<1>7. Indexed(c) BY <1>1, <1>2 DEF Indexed
<1>8. QueuesSound(c)
  <2> SUFFICES ASSUME NEW s \in Side, NEW p \in DOMAIN c.levels[s]
               PROVE  QueueSound(c, s, p, c.levels[s][p].queue)
    BY DEF QueuesSound
  <2>1. p \in DOMAIN b.levels[s] BY <1>3
  <2>2. QueueSound(b, s, p, b.levels[s][p].queue) BY <1>1, <2>1 DEF QueuesSound
  <2>3. CASE s = o.side /\ p = o.price
    <3>1. c.levels[s][p].queue = rest.queue /\ rest.queue # << >> BY <1>4, <2>3
    <3>2. \A j \in DOMAIN rest.queue : /\ rest.queue[j] \in DOMAIN c.heap
                                       /\ c.heap[rest.queue[j]].side = s
                                       /\ c.heap[rest.queue[j]].price = p
      <4> TAKE j \in DOMAIN rest.queue
      <4>1. PICK k \in DOMAIN old[o.price].queue :
              rest.queue[j] = old[o.price].queue[k] /\ old[o.price].queue[k] # n
        BY <1>5a DEF Range
      <4>2. /\ rest.queue[j] \in DOMAIN b.heap
            /\ b.heap[rest.queue[j]].side = s
            /\ b.heap[rest.queue[j]].price = p
        BY <2>2, <2>3, <4>1 DEF QueueSound
      <4> QED BY <1>2, <4>1, <4>2
    <3> QED BY <1>5b, <3>1, <3>2 DEF QueueSound
  <2>4. CASE s # o.side \/ p # o.price
    <3>1. c.levels[s][p].queue = b.levels[s][p].queue BY <1>3, <1>4, <2>1, <2>4
    <3>2. \A i \in DOMAIN b.levels[s][p].queue : b.levels[s][p].queue[i] # n
      BY <2>2, <2>4 DEF QueueSound
    <3>3. \A m \in DOMAIN b.heap : m # n => m \in DOMAIN c.heap /\ c.heap[m] = b.heap[m]
      BY <1>2
    <3> DEFINE q == b.levels[s][p].queue
    <3>4. \A i \in DOMAIN q : /\ q[i] \in DOMAIN c.heap
                              /\ c.heap[q[i]].side = s
                              /\ c.heap[q[i]].price = p
      BY <2>2, <3>2, <3>3 DEF QueueSound
    <3>5. q # << >> /\ \A i, j \in DOMAIN q : i < j => q[i] < q[j]
      BY <2>2 DEF QueueSound
    <3> QED BY <3>1, <3>4, <3>5 DEF QueueSound
  <2> QED BY <2>3, <2>4
<1>9. HeapListed(c)
  <2> SUFFICES ASSUME NEW m \in DOMAIN c.heap PROVE Listed(c, m)
    BY DEF HeapListed
  <2> DEFINE s == b.heap[m].side
             p == b.heap[m].price
  <2>1. m \in DOMAIN b.heap /\ m # n /\ c.heap[m] = b.heap[m] BY <1>2
  <2>2. /\ s \in Side /\ p \in DOMAIN b.levels[s]
        /\ \E k \in DOMAIN b.levels[s][p].queue : b.levels[s][p].queue[k] = m
    BY <1>1, <2>1 DEF HeapListed, Listed, BookType, PartialFunction, Order
  <2>3. CASE s = o.side /\ p = o.price
    <3>1. PICK j \in DOMAIN rest.queue : rest.queue[j] = m BY <1>5a, <2>1, <2>2, <2>3 DEF Range
    <3>2. rest.queue # << >> BY <3>1
    <3> QED BY <1>4, <2>1, <2>3, <3>1, <3>2 DEF Listed
  <2>4. CASE s # o.side \/ p # o.price
    <3>1. p \in DOMAIN c.levels[s] /\ c.levels[s][p] = b.levels[s][p]
      BY <1>3, <1>4, <2>2, <2>4
    <3> QED BY <2>1, <2>2, <3>1 DEF Listed
  <2> QED BY <2>3, <2>4
<1> QED BY <1>6, <1>7, <1>8, <1>9 DEF BookInv, c

\* c holds no node that b does not, and the ones it holds kept their place.
Kept(b, c) ==
    \A m \in DOMAIN c.heap :
        /\ m \in DOMAIN b.heap
        /\ c.heap[m].id = b.heap[m].id
        /\ c.heap[m].side = b.heap[m].side
        /\ c.heap[m].price = b.heap[m].price

\* A trade changes what a node has filled and nothing else.
LEMMA TradedSound ==
  ASSUME NEW b, BookInv(b), NEW n \in DOMAIN b.heap, NEW qty \in Nat
  PROVE  LET c == [b EXCEPT !.heap[n].filled = @ + qty] IN
         /\ BookInv(c)
         /\ Kept(b, c)
         /\ DOMAIN c.heap = DOMAIN b.heap
         /\ c.orders = b.orders
         /\ \A m \in DOMAIN b.heap : m # n => c.heap[m] = b.heap[m]
         /\ c.heap[n].filled = b.heap[n].filled + qty
         /\ c.heap[n].quantity = b.heap[n].quantity
<1> DEFINE c == [b EXCEPT !.heap[n].filled = @ + qty]
           o == [b.heap[n] EXCEPT !.filled = @ + qty]
<1>1. BookType(b) /\ Indexed(b) /\ QueuesSound(b) /\ HeapListed(b) BY DEF BookInv
<1>2. /\ b.heap \in [DOMAIN b.heap -> Order]
      /\ DOMAIN b = {"levels", "orders", "heap", "fresh"}
  BY <1>1 DEF BookType, PartialFunction
<1>3. /\ o \in Order
      /\ o.id = b.heap[n].id /\ o.side = b.heap[n].side /\ o.price = b.heap[n].price
      /\ o.filled = b.heap[n].filled + qty /\ o.quantity = b.heap[n].quantity
  <2>1. b.heap[n] \in Order BY <1>2
  <2> QED BY <2>1 DEF Order
<1>4. /\ DOMAIN c = {"levels", "orders", "heap", "fresh"}
      /\ c.levels = b.levels /\ c.orders = b.orders /\ c.fresh = b.fresh
      /\ c.heap = [b.heap EXCEPT ![n] = o]
  BY <1>2
<1> HIDE DEF c, o
<1>5. /\ c.heap \in [DOMAIN b.heap -> Order]
      /\ c.heap[n] = o
      /\ \A m \in DOMAIN b.heap : m # n => c.heap[m] = b.heap[m]
  BY <1>2, <1>3, <1>4
<1>6. Kept(b, c) BY <1>3, <1>5 DEF Kept
<1>7. BookType(c) BY <1>1, <1>4, <1>5 DEF BookType, PartialFunction
<1>8. Indexed(c) BY <1>1, <1>4, <1>5, <1>6 DEF Indexed, Kept
<1>9. QueuesSound(c)
  <2> SUFFICES ASSUME NEW s \in Side, NEW p \in DOMAIN b.levels[s]
               PROVE  QueueSound(c, s, p, b.levels[s][p].queue)
    BY <1>4 DEF QueuesSound
  <2>1. QueueSound(b, s, p, b.levels[s][p].queue) BY <1>1 DEF QueuesSound
  <2> QED BY <1>5, <1>6, <2>1 DEF QueueSound, Kept
<1>10. HeapListed(c)
  <2> SUFFICES ASSUME NEW m \in DOMAIN b.heap PROVE Listed(c, m)
    BY <1>5 DEF HeapListed
  <2>1. Listed(b, m) BY <1>1 DEF HeapListed
  <2>2. c.heap[m].side = b.heap[m].side /\ c.heap[m].price = b.heap[m].price
    BY <1>5, <1>6 DEF Kept
  <2> QED BY <1>4, <2>1, <2>2 DEF Listed
<1>11. BookInv(c) BY <1>7, <1>8, <1>9, <1>10 DEF BookInv
<1> QED BY <1>3, <1>4, <1>5, <1>6, <1>11 DEF c

\* Erasing a node and the entry of its id leaves every other node its entry.
LEMMA ReleasedIndexed ==
  ASSUME NEW b, BookInv(b), NEW n \in DOMAIN b.heap
  PROVE  /\ Kept(b, Released(b, n))
         /\ DOMAIN Released(b, n).heap = DOMAIN b.heap \ {n}
         /\ \A m \in DOMAIN b.heap : m # n => Released(b, n).heap[m] = b.heap[m]
         /\ FullyIndexed(b) => FullyIndexed(Released(b, n))
<1> DEFINE c == Released(b, n)
<1>1. /\ c.heap = [m \in DOMAIN b.heap \ {n} |-> b.heap[m]]
      /\ c.orders = [id \in DOMAIN b.orders \ {b.heap[n].id} |-> b.orders[id]]
  BY ReleasedParts
<1> HIDE DEF c
<1>2. Kept(b, c) BY <1>1 DEF Kept
<1>3. FullyIndexed(b) => FullyIndexed(c) BY <1>1 DEF FullyIndexed
<1> QED BY <1>1, <1>2, <1>3 DEF c

\* One trade of the matching loop.
LEMMA FilledSound ==
  ASSUME NEW b, BookInv(b), NotOverfilled(b), NEW n \in DOMAIN b.heap,
         NEW qty \in Nat, qty <= Remaining(b.heap[n])
  PROVE  /\ BookInv(Filled(b, n, qty))
         /\ Kept(b, Filled(b, n, qty))
         /\ NotOverfilled(Filled(b, n, qty))
         /\ FullyIndexed(b) => FullyIndexed(Filled(b, n, qty))
<1> DEFINE t == [b EXCEPT !.heap[n].filled = @ + qty]
<1>1. /\ BookInv(t)
      /\ Kept(b, t)
      /\ DOMAIN t.heap = DOMAIN b.heap
      /\ t.orders = b.orders
      /\ \A m \in DOMAIN b.heap : m # n => t.heap[m] = b.heap[m]
      /\ t.heap[n].filled = b.heap[n].filled + qty
      /\ t.heap[n].quantity = b.heap[n].quantity
  BY TradedSound
<1>2. Filled(b, n, qty) = IF Remaining(t.heap[n]) = 0 THEN Released(t, n) ELSE t
  BY DEF Filled
<1> HIDE DEF t
<1>3. b.heap[n].filled \in Nat /\ b.heap[n].quantity \in Nat
  BY DEF BookInv, BookType, PartialFunction, Order
<1>4. NotOverfilled(t)
  BY <1>1, <1>3 DEF NotOverfilled, Remaining
<1>5. FullyIndexed(b) => FullyIndexed(t)
  BY <1>1 DEF FullyIndexed, Kept
<1>6. /\ BookInv(Released(t, n))
      /\ Kept(t, Released(t, n))
      /\ DOMAIN Released(t, n).heap = DOMAIN t.heap \ {n}
      /\ \A m \in DOMAIN t.heap : m # n => Released(t, n).heap[m] = t.heap[m]
      /\ FullyIndexed(t) => FullyIndexed(Released(t, n))
  BY <1>1, ReleasedSound, ReleasedIndexed
<1>7. NotOverfilled(Released(t, n)) BY <1>4, <1>6 DEF NotOverfilled
<1>8. Kept(b, Released(t, n)) BY <1>1, <1>6 DEF Kept
<1> QED BY <1>1, <1>2, <1>4, <1>5, <1>6, <1>7, <1>8

\* add_order under an id that no resting order has keeps the index complete.
LEMMA AddedIndexed ==
  ASSUME NEW b, BookInv(b), NEW o \in Order
  PROVE  /\ NotOverfilled(b) /\ o.filled <= o.quantity => NotOverfilled(Added(b, o))
         /\ FullyIndexed(b) /\ (\A n \in DOMAIN b.heap : b.heap[n].id # o.id)
              => FullyIndexed(Added(b, o))
<1> DEFINE c == Added(b, o)
<1>1. BookType(b) BY DEF BookInv
<1>2. /\ c.heap \in [DOMAIN b.heap \cup {b.fresh} -> Order]
      /\ c.heap[b.fresh] = o
      /\ \A m \in DOMAIN b.heap : c.heap[m] = b.heap[m]
  BY <1>1, AddedHeap, AddedHeapTyped, FreshIsFree
<1>3. c.orders = [id \in DOMAIN b.orders \cup {o.id} |->
                      IF id = o.id THEN b.fresh ELSE b.orders[id]]
  BY DEF Added, Put
<1> HIDE DEF c
<1>4. NotOverfilled(b) /\ o.filled <= o.quantity => NotOverfilled(c)
  BY <1>2 DEF NotOverfilled
<1>5. FullyIndexed(b) /\ (\A n \in DOMAIN b.heap : b.heap[n].id # o.id) => FullyIndexed(c)
  BY <1>2, <1>3 DEF FullyIndexed
<1> QED BY <1>4, <1>5 DEF c

\* modify_order is a cancel and an add of an order with the same id.
LEMMA ModifiedSound ==
  ASSUME NEW b, BookInv(b), NEW id \in DOMAIN b.orders, NEW p \in Prices, NEW q \in Nat
  PROVE  LET n == b.orders[id]
             o == [b.heap[n] EXCEPT !.price = p, !.quantity = q, !.filled = 0]
             c == Released(b, n)
         IN  /\ n \in DOMAIN b.heap
             /\ o \in Order /\ o.filled = 0 /\ o.quantity = q
             /\ BookInv(c)
             /\ c.fresh = b.fresh
             /\ Modified(b, id, p, q) = Added(c, o)
             /\ BookInv(Modified(b, id, p, q))
             /\ NotOverfilled(b) => NotOverfilled(Modified(b, id, p, q))
             /\ FullyIndexed(b) => FullyIndexed(Modified(b, id, p, q))
<1> DEFINE n == b.orders[id]
           o == [b.heap[n] EXCEPT !.price = p, !.quantity = q, !.filled = 0]
           c == Released(b, n)
<1>1. n \in DOMAIN b.heap BY DEF BookInv, Indexed
<1>2. b.heap[n] \in Order BY <1>1 DEF BookInv, BookType, PartialFunction
<1>3. o \in Order /\ o.filled = 0 /\ o.quantity = q /\ o.id = b.heap[n].id
  BY <1>2 DEF Order
<1>4. BookInv(c) BY <1>1, ReleasedSound
<1>5. c.fresh = b.fresh BY <1>1, ReleasedParts
<1>6. Modified(b, id, p, q) = Added(c, o) BY DEF Modified, Cancelled
<1>7. /\ DOMAIN c.heap = DOMAIN b.heap \ {n}
      /\ \A m \in DOMAIN b.heap : m # n => c.heap[m] = b.heap[m]
      /\ FullyIndexed(b) => FullyIndexed(c)
  BY <1>1, ReleasedIndexed
<1> HIDE DEF c, o
<1>8. BookInv(Added(c, o)) BY <1>3, <1>4, AddedSound
<1>9. NotOverfilled(b) => NotOverfilled(Added(c, o))
  <2>1. NotOverfilled(b) => NotOverfilled(c) BY <1>7 DEF NotOverfilled
  <2> QED BY <1>3, <1>4, <2>1, AddedIndexed
<1>10. FullyIndexed(b) => FullyIndexed(Added(c, o))
  <2>1. FullyIndexed(b) => \A m \in DOMAIN c.heap : c.heap[m].id # o.id
    BY <1>1, <1>3, <1>7 DEF FullyIndexed
  <2> QED BY <1>3, <1>4, <1>7, <2>1, AddedIndexed
<1> QED BY <1>1, <1>3, <1>4, <1>5, <1>6, <1>8, <1>9, <1>10 DEF c, o

(* The matching loop *****************************************************)

\* When the loop cannot take another iteration for an order that still wants
\* something, no resting order on the other side crosses it: the best price
\* exists, its queue is not empty, so its price is what stopped the loop.
LEMMA LoopExhausts ==
  ASSUME NEW b, BookInv(b), NEW o \in Order, Remaining(o) > 0,
         \A p \in DOMAIN b.levels[Opposite(o.side)] : ~Matches(b, o, p),
         NEW n \in DOMAIN b.heap, b.heap[n].side = Opposite(o.side)
  PROVE  ~Crosses(o, b.heap[n].price)
<1> DEFINE s == Opposite(o.side)
           P == DOMAIN b.levels[s]
           p == b.heap[n].price
<1>1. o.side \in Side /\ s \in Side /\ o.price \in Prices
  BY DEF Order, Side, Opposite
<1>2. p \in P
  BY DEF BookInv, HeapListed, Listed
<1>3. P \subseteq Prices BY <1>1 DEF BookInv, BookType, PartialFunction
<1>4. PICK best \in P : IsBest(b, s, best)
  <2>1. PICK lo \in P : \A x \in P : lo <= x BY <1>2, <1>3, ExtremePrices
  <2>2. PICK hi \in P : \A x \in P : x <= hi BY <1>2, <1>3, ExtremePrices
  <2>3. \A x \in P : x \in Int BY <1>3, PricesAreIntegers
  <2>4. CASE s = "BUY"
    <3>1. IsBest(b, s, hi) BY <2>2, <2>3, <2>4 DEF IsBest, Better
    <3> QED BY <3>1
  <2>5. CASE s # "BUY"
    <3>1. IsBest(b, s, lo) BY <2>1, <2>3, <2>5 DEF IsBest, Better
    <3> QED BY <3>1
  <2> QED BY <2>4, <2>5
<1>5. b.levels[s][best].queue # << >>
  <2>1. QueueSound(b, s, best, b.levels[s][best].queue)
    BY <1>1, <1>4 DEF BookInv, QueuesSound
  <2> QED BY <2>1 DEF QueueSound
<1>6. ~Crosses(o, best) BY <1>4, <1>5 DEF Matches
<1>7. p = best \/ Better(s, best, p) BY <1>2, <1>4 DEF IsBest
<1>8. p \in Int /\ best \in Int /\ o.price \in Int BY <1>1, <1>2, <1>3, <1>4, PricesAreIntegers
<1> HIDE DEF p
<1>9. CASE o.side = "BUY"
  <2>1. s = "SELL" BY <1>9 DEF Opposite
  <2> QED BY <1>6, <1>7, <1>8, <1>9, <2>1 DEF Crosses, Better, p
<1>10. CASE o.side = "SELL"
  <2>1. s = "BUY" BY <1>10 DEF Opposite
  <2> QED BY <1>6, <1>7, <1>8, <1>10, <2>1 DEF Crosses, Better, p
<1> QED BY <1>1, <1>9, <1>10 DEF Side

\* The head of a level's queue is the oldest of the orders that wait there.
LEMMA HeadIsOldest ==
  ASSUME NEW b, BookInv(b), NEW s \in Side, NEW p \in DOMAIN b.levels[s],
         NEW n, n = Head(b.levels[s][p].queue)
  PROVE  /\ n \in DOMAIN b.heap
         /\ b.heap[n].side = s /\ b.heap[n].price = p
         /\ \A m \in DOMAIN b.heap :
              b.heap[m].side = s /\ b.heap[m].price = p => n <= m
<1> DEFINE q == b.levels[s][p].queue
<1>1. QueueSound(b, s, p, q) BY DEF BookInv, QueuesSound
<1>2. q \in Seq(Node) BY DEF BookInv, BookType, PartialFunction, Level
<1>3. q # << >> BY <1>1 DEF QueueSound
<1>4. \A m \in DOMAIN b.heap :
        b.heap[m].side = s /\ b.heap[m].price = p => \E i \in DOMAIN q : q[i] = m
  BY DEF BookInv, HeapListed, Listed
<1>5. /\ \A i \in DOMAIN q : /\ q[i] \in DOMAIN b.heap
                             /\ b.heap[q[i]].side = s /\ b.heap[q[i]].price = p
      /\ \A i, j \in DOMAIN q : i < j => q[i] < q[j]
  BY <1>1 DEF QueueSound
<1> HIDE DEF q
<1>6. 1 \in DOMAIN q /\ Head(q) = q[1] /\ \A i \in DOMAIN q : i \in Nat /\ 1 <= i
  BY <1>2, <1>3
<1>7. \A i \in DOMAIN q : q[1] <= q[i]
  <2> TAKE i \in DOMAIN q
  <2>1. q[1] \in Nat BY <1>2, <1>6 DEF Node
  <2>2. CASE i = 1 BY <2>1, <2>2
  <2>3. CASE i # 1 BY <1>2, <1>5, <1>6, <2>3 DEF Node
  <2> QED BY <2>2, <2>3
<1>8. /\ Head(q) \in DOMAIN b.heap
      /\ b.heap[Head(q)].side = s /\ b.heap[Head(q)].price = p
  BY <1>5, <1>6
<1>9. \A m \in DOMAIN b.heap :
        b.heap[m].side = s /\ b.heap[m].price = p => Head(q) <= m
  BY <1>4, <1>6, <1>7
<1> QED BY <1>8, <1>9 DEF q

\* What one trade does to the nodes: it takes qty from n, which goes when
\* nothing is left of it, and touches no other.
LEMMA FilledHeap ==
  ASSUME NEW b, BookInv(b), NEW n \in DOMAIN b.heap, NEW qty \in Nat
  PROVE  LET c == Filled(b, n, qty) IN
         /\ c.fresh = b.fresh
         /\ DOMAIN c.heap \subseteq DOMAIN b.heap
         /\ \A m \in DOMAIN b.heap \ {n} : m \in DOMAIN c.heap /\ c.heap[m] = b.heap[m]
         /\ n \in DOMAIN c.heap => Remaining(c.heap[n]) = Remaining(b.heap[n]) - qty
         /\ n \notin DOMAIN c.heap => Remaining(b.heap[n]) - qty = 0
<1> DEFINE t == [b EXCEPT !.heap[n].filled = @ + qty]
           c == Filled(b, n, qty)
<1>1. /\ BookInv(t)
      /\ DOMAIN t.heap = DOMAIN b.heap
      /\ \A m \in DOMAIN b.heap : m # n => t.heap[m] = b.heap[m]
      /\ t.heap[n].filled = b.heap[n].filled + qty
      /\ t.heap[n].quantity = b.heap[n].quantity
  BY TradedSound
<1>2. t.fresh = b.fresh BY DEF BookInv, BookType
<1>3. c = IF Remaining(t.heap[n]) = 0 THEN Released(t, n) ELSE t BY DEF Filled
<1> HIDE DEF t, c
<1>4. b.heap[n].filled \in Nat /\ b.heap[n].quantity \in Nat
  BY DEF BookInv, BookType, PartialFunction, Order
<1>5. Remaining(t.heap[n]) = Remaining(b.heap[n]) - qty BY <1>1, <1>4 DEF Remaining
<1>6. /\ Released(t, n).fresh = t.fresh
      /\ DOMAIN Released(t, n).heap = DOMAIN t.heap \ {n}
      /\ \A m \in DOMAIN t.heap : m # n => Released(t, n).heap[m] = t.heap[m]
  <2>1. BookInv(t) /\ n \in DOMAIN t.heap BY <1>1
  <2>2. Released(t, n).fresh = t.fresh BY <2>1, ReleasedParts
  <2> QED BY <2>1, <2>2, ReleasedIndexed
<1>7. CASE Remaining(t.heap[n]) = 0 BY <1>1, <1>2, <1>3, <1>5, <1>6, <1>7 DEF c
<1>8. CASE Remaining(t.heap[n]) # 0 BY <1>1, <1>2, <1>3, <1>5, <1>8 DEF c
<1> QED BY <1>7, <1>8

\* The quantity of a sequence of trades, one trade at a time.
LEMMA NothingTraded == TradedQuantity(<< >>) = 0
<1> DEFINE f == [i \in DOMAIN << >> |-> << >>[i].quantity]
<1>1. f \in [{} -> Int] OBVIOUS
<1> HIDE DEF f
<1>2. SumFunction(f) = 0 BY <1>1, SumOfNothing
<1> QED BY <1>2 DEF TradedQuantity, f

LEMMA OneMoreTraded ==
  ASSUME NEW trades \in Seq(Trade), NEW t \in Trade
  PROVE  /\ TradedQuantity(trades) \in Int
         /\ TradedQuantity(Append(trades, t)) = TradedQuantity(trades) + t.quantity
<1> DEFINE last == Len(trades) + 1
           S == DOMAIN trades \cup {last}
           more == Append(trades, t)
           f == [i \in DOMAIN more |-> more[i].quantity]
           g == [i \in DOMAIN trades |-> trades[i].quantity]
<1>1. /\ DOMAIN more = S /\ more[last] = t
      /\ \A i \in DOMAIN trades : more[i] = trades[i] /\ trades[i] \in Trade
  BY AppendToQueue
<1>2. last \notin DOMAIN trades /\ IsFiniteSet(DOMAIN trades)
  <2>1. DOMAIN trades = 1..Len(trades) /\ Len(trades) \in Nat BY LenProperties
  <2>2. IsFiniteSet(1..Len(trades)) BY <2>1, FS_Interval
  <2> QED BY <2>1, <2>2
<1>3. IsFiniteSet(S) /\ S \ {last} = DOMAIN trades BY <1>2, FS_AddElement
<1> HIDE DEF last, S, more
<1>4. \A x \in Trade : x.quantity \in Int BY DEF Trade
<1>5. /\ f \in [S -> Int] /\ f[last] = t.quantity /\ last \in S
      /\ g \in [S \ {last} -> Int] /\ \A i \in S \ {last} : g[i] = f[i]
  <2>1. last \in S BY DEF S
  <2>2. \A i \in S : more[i] \in Trade BY <1>1 DEF S
  <2> QED BY <1>1, <1>3, <1>4, <2>1, <2>2
<1> HIDE DEF f, g
<1>6. SumFunction(g) \in Int /\ SumFunction(f) = t.quantity + SumFunction(g)
  <2>1. IsFiniteSet(S) BY <1>3
  <2>2. OneApart(S, f, last, g) BY <2>1, <1>5 DEF OneApart
  <2>3. SumFunction(g) \in Int /\ SumFunction(f) = f[last] + SumFunction(g)
    BY <2>2, SumOneApart
  <2> QED BY <1>5, <2>3
<1>7. t.quantity \in Int BY <1>4
<1> QED BY <1>6, <1>7 DEF TradedQuantity, f, g, more

(* The totals of the levels **********************************************)

LEMMA HeapIsFinite == ASSUME NEW b, BookType(b) PROVE IsFiniteSet(DOMAIN b.heap)
<1>1. DOMAIN b.heap \subseteq 1..b.fresh BY DEF BookType, PartialFunction, Node
<1>2. IsFiniteSet(1..b.fresh) BY FS_Interval DEF BookType, Node
<1> QED BY <1>1, <1>2, FS_Subset

LEMMA RemainingIsInteger ==
  ASSUME NEW b, BookType(b) PROVE \A n \in DOMAIN b.heap : Remaining(b.heap[n]) \in Int
BY DEF BookType, PartialFunction, Order, Remaining

\* The nodes of a queue, which are finitely many.
LEMMA QueueNodes ==
  ASSUME NEW b, BookInv(b), NEW s \in Side, NEW p \in DOMAIN b.levels[s]
  PROVE  LET q == b.levels[s][p].queue IN
         /\ IsFiniteSet(Range(q))
         /\ \A n \in Range(q) : /\ n \in DOMAIN b.heap
                                /\ b.heap[n].side = s /\ b.heap[n].price = p
         /\ [n \in Range(q) |-> Remaining(b.heap[n])] \in [Range(q) -> Int]
         /\ b.levels[s][p].total_qty \in Int
<1> DEFINE q == b.levels[s][p].queue
<1>1. BookType(b) /\ QueueSound(b, s, p, q) BY DEF BookInv, QueuesSound
<1>2. \A n \in Range(q) : /\ n \in DOMAIN b.heap
                         /\ b.heap[n].side = s /\ b.heap[n].price = p
  BY <1>1 DEF QueueSound, Range
<1>3. IsFiniteSet(Range(q)) BY <1>1, <1>2, HeapIsFinite, FS_Subset
<1>4. b.levels[s][p].total_qty \in Int BY <1>1 DEF BookType, PartialFunction, Level
<1> HIDE DEF q
<1>5. [n \in Range(q) |-> Remaining(b.heap[n])] \in [Range(q) -> Int]
  BY <1>1, <1>2, RemainingIsInteger
<1> QED BY <1>2, <1>3, <1>4, <1>5 DEF q

\* A level whose queue and total are kept stays covered while its nodes are.
LEMMA CoveredKept ==
  ASSUME NEW b, NEW c, NEW level, LevelCovered(b, level),
         \A n \in Range(level.queue) : c.heap[n] = b.heap[n]
  PROVE  LevelCovered(c, level)
<1>1. [n \in Range(level.queue) |-> Remaining(c.heap[n])]
        = [n \in Range(level.queue) |-> Remaining(b.heap[n])]
  OBVIOUS
<1> QED BY <1>1 DEF LevelCovered

LEMMA AppendRange ==
  ASSUME NEW S, NEW q \in Seq(S), NEW x \in S
  PROVE  Range(Append(q, x)) = Range(q) \cup {x}
<1>1. /\ DOMAIN Append(q, x) = DOMAIN q \cup {Len(q) + 1}
      /\ \A i \in DOMAIN q : Append(q, x)[i] = q[i]
      /\ Append(q, x)[Len(q) + 1] = x
  BY AppendToQueue
<1>2. DOMAIN q = 1..Len(q) /\ Len(q) + 1 \notin DOMAIN q BY LenProperties
<1> QED BY <1>1, <1>2 DEF Range

\* A node on top of a level adds what is left of its order to both sides.
LEMMA AddedCovers ==
  ASSUME NEW b, BookInv(b), TotalsCover(b), NEW o \in Order
  PROVE  TotalsCover(Added(b, o))
<1> DEFINE c     == Added(b, o)
           old   == b.levels[o.side]
           level == IF o.price \in DOMAIN old THEN old[o.price] ELSE EmptyLevel
           new   == c.levels[o.side][o.price]
<1>1. BookType(b) /\ o.side \in Side /\ Remaining(o) \in Int
  BY DEF BookInv, Order, Remaining
<1>2. /\ c.heap[b.fresh] = o
      /\ \A m \in DOMAIN b.heap : c.heap[m] = b.heap[m]
      /\ b.fresh \notin DOMAIN b.heap /\ b.fresh \in Node
  <2>1. b.fresh \in Node BY <1>1 DEF BookType
  <2> QED BY <1>1, <2>1, AddedHeap, FreshIsFree
<1>3. /\ DOMAIN c.levels = Side
      /\ \A s \in Side \ {o.side} : c.levels[s] = b.levels[s]
      /\ DOMAIN c.levels[o.side] = DOMAIN old \cup {o.price}
      /\ \A p \in DOMAIN old : p # o.price => c.levels[o.side][p] = old[p]
      /\ level.queue \in Seq(Node)
  BY <1>1, AddedLevels
<1>4. new = LevelAdd(level, b.fresh, o) BY <1>1 DEF Added, Put, BookType
<1>5. /\ IsFiniteSet(Range(level.queue))
      /\ Range(level.queue) \subseteq DOMAIN b.heap
      /\ [n \in Range(level.queue) |-> Remaining(b.heap[n])] \in [Range(level.queue) -> Int]
      /\ level.total_qty \in Int
      /\ LevelCovered(b, level)
  <2>1. CASE o.price \in DOMAIN old
    <3>1. level = old[o.price] BY <2>1
    <3>2. LevelCovered(b, old[o.price]) BY <1>1, <2>1 DEF TotalsCover
    <3> HIDE DEF level
    <3> QED BY <1>1, <2>1, <3>1, <3>2, QueueNodes
  <2>2. CASE o.price \notin DOMAIN old
    <3>1. level = EmptyLevel BY <2>2
    <3>2. Range(EmptyLevel.queue) = {} BY DEF EmptyLevel, Range
    <3> DEFINE none == [n \in Range(EmptyLevel.queue) |-> Remaining(b.heap[n])]
    <3>3. none \in [{} -> Int] BY <3>2
    <3>4. SumFunction(none) = 0 BY <3>3, SumOfNothing
    <3>5. LevelCovered(b, EmptyLevel) /\ EmptyLevel.total_qty = 0
      BY <3>4 DEF LevelCovered, EmptyLevel
    <3> HIDE DEF level, none
    <3> QED BY <3>1, <3>2, <3>3, <3>5, FS_EmptySet DEF none
  <2> QED BY <2>1, <2>2
<1> HIDE DEF c, old, level, new
<1>6. LevelCovered(c, new)
  <2> DEFINE S == Range(level.queue)
             f == [n \in S |-> Remaining(b.heap[n])]
             g == [n \in Range(new.queue) |-> Remaining(c.heap[n])]
  <2>1. /\ new.queue = Append(level.queue, b.fresh)
        /\ new.total_qty = level.total_qty + Remaining(o)
    BY <1>4 DEF LevelAdd
  <2>2. Range(new.queue) = S \cup {b.fresh} BY <1>2, <1>3, <2>1, AppendRange
  <2>3. b.fresh \notin S BY <1>2, <1>5
  <2>4. (S \cup {b.fresh}) \ {b.fresh} = S /\ IsFiniteSet(S \cup {b.fresh})
    BY <1>5, <2>3, FS_AddElement
  <2>5. /\ g \in [S \cup {b.fresh} -> Int]
        /\ g[b.fresh] = Remaining(o)
        /\ f \in [(S \cup {b.fresh}) \ {b.fresh} -> Int]
        /\ \A y \in (S \cup {b.fresh}) \ {b.fresh} : f[y] = g[y]
    <3>1. \A n \in S : c.heap[n] = b.heap[n] BY <1>2, <1>5
    <3>2. \A n \in S : Remaining(b.heap[n]) \in Int BY <1>1, <1>5, RemainingIsInteger
    <3> HIDE DEF S
    <3> QED BY <1>1, <1>2, <2>2, <2>4, <3>1, <3>2
  <2> HIDE DEF S, f, g
  <2>6. /\ SumFunction(f) \in Int
        /\ SumFunction(g) = g[b.fresh] + SumFunction(f)
    BY <2>4, <2>5, SumWithout
  <2>7. SumFunction(f) <= level.total_qty BY <1>5 DEF LevelCovered, f, S
  <2>8. SumFunction(g) <= new.total_qty BY <1>1, <1>5, <2>1, <2>5, <2>6, <2>7
  <2> QED BY <2>8 DEF LevelCovered, g
<1>7. ASSUME NEW s \in Side, NEW p \in DOMAIN b.levels[s]
      PROVE  LevelCovered(c, b.levels[s][p])
  <2>1. LevelCovered(b, b.levels[s][p]) BY DEF TotalsCover
  <2>2. \A n \in Range(b.levels[s][p].queue) : c.heap[n] = b.heap[n]
    BY <1>2, QueueNodes
  <2> QED BY <2>1, <2>2, CoveredKept
<1>8. TotalsCover(c)
  <2> SUFFICES ASSUME NEW s \in Side, NEW p \in DOMAIN c.levels[s]
               PROVE  LevelCovered(c, c.levels[s][p])
    BY DEF TotalsCover
  <2>1. CASE s # o.side BY <1>3, <1>7, <2>1
  <2>2. CASE s = o.side /\ p # o.price BY <1>3, <1>7, <2>2 DEF old
  <2>3. CASE s = o.side /\ p = o.price BY <1>6, <2>3 DEF new
  <2> QED BY <2>1, <2>2, <2>3
<1> QED BY <1>8 DEF c

\* A node that is unlinked takes the same quantity from both sides.
LEMMA ReleasedCovers ==
  ASSUME NEW b, BookInv(b), TotalsCover(b), NEW n \in DOMAIN b.heap
  PROVE  TotalsCover(Released(b, n))
<1> DEFINE c    == Released(b, n)
           o    == b.heap[n]
           old  == b.levels[o.side]
           rest == LevelRemove(old[o.price], n, o)
<1>1. /\ o.side \in Side /\ o.price \in DOMAIN old
      /\ Range(rest.queue) = Range(old[o.price].queue) \ {n}
      /\ rest.total_qty = old[o.price].total_qty - Remaining(o)
  BY QueueWithout DEF LevelRemove
<1>2. /\ DOMAIN c.levels = Side
      /\ \A s \in Side \ {o.side} : c.levels[s] = b.levels[s]
      /\ o.price \in DOMAIN c.levels[o.side] => c.levels[o.side][o.price] = rest
      /\ \A p \in DOMAIN old : p # o.price => c.levels[o.side][p] = old[p]
      /\ DOMAIN c.levels[o.side] \subseteq DOMAIN old
  BY ReleasedLevels
<1>3. c.heap = [m \in DOMAIN b.heap \ {n} |-> b.heap[m]] BY ReleasedParts
<1>4. Remaining(o) \in Int BY RemainingIsInteger DEF BookInv
<1>5. n \in Range(old[o.price].queue)
  <2>1. Listed(b, n) BY DEF BookInv, HeapListed
  <2> QED BY <2>1 DEF Listed, Range
<1>6. /\ IsFiniteSet(Range(old[o.price].queue))
      /\ \A m \in Range(old[o.price].queue) : m \in DOMAIN b.heap
      /\ [m \in Range(old[o.price].queue) |-> Remaining(b.heap[m])]
           \in [Range(old[o.price].queue) -> Int]
      /\ old[o.price].total_qty \in Int
  <2> DEFINE s == o.side
             p == o.price
  <2>1. s \in Side /\ p \in DOMAIN b.levels[s] BY <1>1
  <2> HIDE DEF s, p
  <2>2. LET q == b.levels[s][p].queue IN
        /\ IsFiniteSet(Range(q))
        /\ \A m \in Range(q) : m \in DOMAIN b.heap
        /\ [m \in Range(q) |-> Remaining(b.heap[m])] \in [Range(q) -> Int]
        /\ b.levels[s][p].total_qty \in Int
    BY <2>1, QueueNodes
  <2> QED BY <2>2 DEF s, p
<1>7. LevelCovered(c, rest)
  <2> DEFINE S == Range(old[o.price].queue)
             f == [m \in S |-> Remaining(b.heap[m])]
             g == [m \in Range(rest.queue) |-> Remaining(c.heap[m])]
  <2>1. f \in [S -> Int] /\ f[n] = Remaining(o) BY <1>5, <1>6
  <2>2. g \in [S \ {n} -> Int] /\ \A m \in S \ {n} : g[m] = f[m]
    <3>1. \A m \in S \ {n} : c.heap[m] = b.heap[m] BY <1>3, <1>6
    <3> HIDE DEF c, rest
    <3>2. g = [m \in S \ {n} |-> Remaining(c.heap[m])] BY <1>1
    <3> QED BY <1>6, <2>1, <3>1, <3>2
  <2>0. IsFiniteSet(S) /\ n \in S BY <1>5, <1>6
  <2> HIDE DEF f, g, S, o
  <2>3. /\ SumFunction(g) \in Int
        /\ SumFunction(f) = Remaining(o) + SumFunction(g)
    <3>1. SumFunction(g) \in Int /\ SumFunction(f) = f[n] + SumFunction(g)
      <4>1. f \in [S -> Int] /\ g \in [S \ {n} -> Int] BY <2>1, <2>2
      <4> QED BY ONLY <2>0, <2>2, <4>1, SumWithout
    <3> QED BY <2>1, <3>1
  <2>4. SumFunction(f) <= old[o.price].total_qty
    BY <1>1 DEF TotalsCover, LevelCovered, f, S
  <2>5. SumFunction(g) <= rest.total_qty
    <3> DEFINE total == old[o.price].total_qty
    <3>1. total \in Int /\ SumFunction(f) <= total /\ rest.total_qty = total - Remaining(o)
      BY <1>1, <1>6, <2>4
    <3> HIDE DEF total, rest, o
    <3> QED BY <1>4, <2>3, <3>1
  <2> QED BY <2>5 DEF LevelCovered, g
<1>8. ASSUME NEW s \in Side, NEW p \in DOMAIN b.levels[s], s # o.side \/ p # o.price
      PROVE  LevelCovered(c, b.levels[s][p])
  <2>1. LevelCovered(b, b.levels[s][p]) BY DEF TotalsCover
  <2>2. \A m \in Range(b.levels[s][p].queue) : m # n /\ m \in DOMAIN b.heap
    BY <1>8, QueueNodes
  <2>3. \A m \in Range(b.levels[s][p].queue) : c.heap[m] = b.heap[m] BY <1>3, <2>2
  <2> HIDE DEF c
  <2> QED BY <2>1, <2>3, CoveredKept
<1> HIDE DEF c, rest
<1>9. TotalsCover(c)
  <2> SUFFICES ASSUME NEW s \in Side, NEW p \in DOMAIN c.levels[s]
               PROVE  LevelCovered(c, c.levels[s][p])
    BY DEF TotalsCover
  <2>1. CASE s # o.side BY <1>2, <1>8, <2>1
  <2>2. CASE s = o.side /\ p # o.price BY <1>2, <1>8, <2>2
  <2>3. CASE s = o.side /\ p = o.price BY <1>2, <1>7, <2>3
  <2> QED BY <2>1, <2>2, <2>3
<1> QED BY <1>9 DEF c

\* A trade takes from what is left and not from the total.
LEMMA TradedCovers ==
  ASSUME NEW b, BookInv(b), TotalsCover(b), NEW n \in DOMAIN b.heap, NEW qty \in Nat
  PROVE  TotalsCover([b EXCEPT !.heap[n].filled = @ + qty])
<1> DEFINE c == [b EXCEPT !.heap[n].filled = @ + qty]
<1>1. /\ BookInv(c)
      /\ DOMAIN c.heap = DOMAIN b.heap
      /\ \A m \in DOMAIN b.heap : m # n => c.heap[m] = b.heap[m]
      /\ c.heap[n].filled = b.heap[n].filled + qty
      /\ c.heap[n].quantity = b.heap[n].quantity
  BY TradedSound
<1>2. c.levels = b.levels BY DEF BookInv, BookType
<1>3. b.heap[n].filled \in Nat /\ b.heap[n].quantity \in Nat
  BY DEF BookInv, BookType, PartialFunction, Order
<1> HIDE DEF c
<1>4. Remaining(c.heap[n]) = Remaining(b.heap[n]) - qty /\ Remaining(b.heap[n]) \in Int
  BY <1>1, <1>3 DEF Remaining
<1>5. ASSUME NEW s \in Side, NEW p \in DOMAIN b.levels[s]
      PROVE  LevelCovered(c, b.levels[s][p])
  <2> DEFINE S == Range(b.levels[s][p].queue)
             f == [m \in S |-> Remaining(b.heap[m])]
             g == [m \in S |-> Remaining(c.heap[m])]
  <2>1. LevelCovered(b, b.levels[s][p]) BY DEF TotalsCover
  <2>2. /\ IsFiniteSet(S) /\ f \in [S -> Int] /\ b.levels[s][p].total_qty \in Int
        /\ \A m \in S : m \in DOMAIN b.heap
    BY QueueNodes
  <2>3. \A m \in S : m # n => c.heap[m] = b.heap[m] BY <1>1, <2>2
  <2>4. CASE n \notin S BY <2>1, <2>3, <2>4, CoveredKept
  <2>5. CASE n \in S
    <3>1. g \in [S -> Int] /\ (\A m \in S \ {n} : g[m] = f[m]) /\ g[n] = f[n] - qty
          /\ f[n] \in Int
      <4> HIDE DEF S
      <4> QED BY <1>4, <2>2, <2>3, <2>5
    <3>2. SumFunction(f) <= b.levels[s][p].total_qty BY <2>1 DEF LevelCovered
    <3> HIDE DEF S, f, g
    <3>3. SumFunction(f) \in Int /\ SumFunction(g) = SumFunction(f) - f[n] + g[n]
      BY <2>2, <2>5, <3>1, SumWithChange
    <3>4. SumFunction(g) <= b.levels[s][p].total_qty
      <4> DEFINE total == b.levels[s][p].total_qty
      <4>1. total \in Int /\ SumFunction(f) <= total BY <2>2, <3>2
      <4> HIDE DEF total
      <4>2. SumFunction(g) <= total BY <3>1, <3>3, <4>1
      <4> QED BY <4>2 DEF total
    <3> QED BY <3>4 DEF LevelCovered, g, S
  <2> QED BY <2>4, <2>5
<1>6. TotalsCover(c) BY <1>2, <1>5 DEF TotalsCover
<1> QED BY <1>6 DEF c

LEMMA FilledCovers ==
  ASSUME NEW b, BookInv(b), TotalsCover(b), NEW n \in DOMAIN b.heap, NEW qty \in Nat
  PROVE  TotalsCover(Filled(b, n, qty))
<1> DEFINE t == [b EXCEPT !.heap[n].filled = @ + qty]
<1>1. BookInv(t) /\ DOMAIN t.heap = DOMAIN b.heap BY TradedSound
<1>2. TotalsCover(t) BY TradedCovers
<1>3. Filled(b, n, qty) = IF Remaining(t.heap[n]) = 0 THEN Released(t, n) ELSE t
  BY DEF Filled
<1> HIDE DEF t
<1> QED BY <1>1, <1>2, <1>3, ReleasedCovers

\* A trade takes no more than either order has left.
LEMMA MatchQtyInBounds ==
  ASSUME NEW o \in Order, o.filled <= o.quantity, Remaining(o) > 0,
         NEW passive \in Order, passive.filled <= passive.quantity
  PROVE  /\ MatchQty(o, passive) \in Nat
         /\ MatchQty(o, passive) <= Remaining(passive)
         /\ o.filled + MatchQty(o, passive) <= o.quantity
BY DEF MatchQty, Remaining, Order

LEMMA FinalStatusTyped ==
  ASSUME NEW o \in Order, o.filled <= o.quantity
  PROVE  /\ FinalStatus(o) \in OrderStatus
         /\ FinalStatus(o) \in {"ACCEPTED", "PARTIALLY_FILLED", "CANCELLED"}
              => Remaining(o) > 0
<1>1. Remaining(o) \in Nat /\ o.tif \in {"GTC", "IOC", "FOK"}
  BY DEF Remaining, Order, TimeInForce
<1>2. CASE Remaining(o) = 0 BY <1>2 DEF FinalStatus, OrderStatus
<1>3. CASE Remaining(o) # 0
  <2>1. Remaining(o) > 0 BY <1>1, <1>3
  <2>2. FinalStatus(o) \in OrderStatus BY <1>1, <1>3 DEF FinalStatus, OrderStatus
  <2> QED BY <2>1, <2>2
<1> QED BY <1>2, <1>3
==================================================================================
