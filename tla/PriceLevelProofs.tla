----------------------------- MODULE PriceLevelProofs -----------------------------
(***************************************************************************)
(* Proofs about PriceLevel, for any number of nodes and any quantities.    *)
(***************************************************************************)
EXTENDS PriceLevel, SequencesExt, SequenceTheorems, TLAPS

\* What RemoveAt returns is proved with the lemmas about the book.
Lemmas == INSTANCE BookOpsProofs WITH OrderIds <- {}, Prices <- {}, PriceBound <- 0

(* The invariant *********************************************************)

Queue == level.queue

Neighbour(i) == IF i \in DOMAIN Queue THEN Queue[i] ELSE Null

Rem(n) == orders[n].quantity - orders[n].filled

\* An order in a node is an order the book may hold.
OrdersInv ==
    /\ orders \in Seq([quantity : Quantities, filled : Nat])
    /\ \A n \in 1..Len(orders) : orders[n].filled <= orders[n].quantity

PointersInv ==
    /\ next \in Seq(Nat \cup {Null}) /\ prev \in Seq(Nat \cup {Null})
    /\ Len(next) = Len(orders) /\ Len(prev) = Len(orders)
    /\ \A n \in 1..Len(orders) : {next[n], prev[n]} \subseteq (1..Len(orders)) \cup {Null}

\* The queue has nodes that were allocated, in the order they came in.
QueueInv ==
    /\ level = [queue |-> level.queue, total_qty |-> level.total_qty]
    /\ Queue \in Seq(1..Len(orders))
    /\ \A i, j \in 1..Len(Queue) : i < j => Queue[i] < Queue[j]

\* The list is the queue, as RepresentsQueue has it.
ListInv ==
    /\ head = Neighbour(1)
    /\ tail = Neighbour(Len(Queue))
    /\ \A i \in 1..Len(Queue) : /\ next[Queue[i]] = Neighbour(i + 1)
                                /\ prev[Queue[i]] = Neighbour(i - 1)

\* The total covers what is open in the nodes: s[i] covers the first i.  It
\* need not be their sum, because what the nodes trade stays in it.
TotalsInv ==
    /\ total_qty \in Nat /\ level.total_qty = total_qty
    /\ \E s \in [0..Len(Queue) -> 0..total_qty] :
         \A i, j \in 0..Len(Queue) : i < j => s[i] + Rem(Queue[j]) <= s[j]

LInv == OrdersInv /\ PointersInv /\ QueueInv /\ ListInv /\ TotalsInv

(* What the invariant says of the queue **********************************)

LEMMA OpsRemaining ==
  ASSUME NEW o
  PROVE  Ops!Remaining(o) = o.quantity - o.filled
BY DEF Ops!Remaining

LEMMA QueueFacts ==
  ASSUME LInv
  PROVE  /\ Len(Queue) \in Nat /\ Len(orders) \in Nat
         /\ DOMAIN Queue = 1..Len(Queue) /\ DOMAIN orders = 1..Len(orders)
         /\ \A i \in 1..Len(Queue) : Queue[i] \in 1..Len(orders)
         /\ \A i \in Int : Neighbour(i) = IF i \in 1..Len(Queue) THEN Queue[i] ELSE Null
         /\ \A i \in 1..Len(Queue) : Queue[i] # Null
         /\ \A i, j \in 1..Len(Queue) : Queue[i] = Queue[j] => i = j
         /\ \A n \in 1..Len(orders) :
              orders[n].quantity \in Nat /\ orders[n].filled \in Nat /\ Rem(n) \in Nat
<1>1. /\ Queue \in Seq(1..Len(orders))
      /\ orders \in Seq([quantity : Quantities, filled : Nat])
      /\ \A i, j \in 1..Len(Queue) : i < j => Queue[i] < Queue[j]
      /\ \A n \in 1..Len(orders) : orders[n].filled <= orders[n].quantity
  BY DEF LInv, QueueInv, OrdersInv
<1>2. /\ Len(Queue) \in Nat /\ Len(orders) \in Nat
      /\ DOMAIN Queue = 1..Len(Queue) /\ DOMAIN orders = 1..Len(orders)
      /\ \A i \in 1..Len(Queue) : Queue[i] \in 1..Len(orders)
  BY <1>1, LenProperties, ElementOfSeq
<1>3. \A i \in 1..Len(Queue) : Queue[i] # Null BY <1>2, NullAssumption
<1>4. ASSUME NEW i \in 1..Len(Queue), NEW j \in 1..Len(Queue), Queue[i] = Queue[j]
      PROVE  i = j
  <2>1. ~ (i < j) /\ ~ (j < i) BY <1>1, <1>2, <1>4
  <2> QED BY <1>2, <2>1
<1>5. ASSUME NEW n \in 1..Len(orders)
      PROVE  orders[n].quantity \in Nat /\ orders[n].filled \in Nat /\ Rem(n) \in Nat
  <2>1. orders[n] \in [quantity : Quantities, filled : Nat] BY <1>1, ElementOfSeq
  <2>2. orders[n].quantity \in Nat /\ orders[n].filled \in Nat
    BY <2>1, QuantitiesAssumption
  <2>3. orders[n].filled <= orders[n].quantity BY <1>1
  <2>4. \A q, f \in Nat : f <= q => q - f \in Nat OBVIOUS
  <2> QED BY <2>2, <2>3, <2>4, Zenon DEF Rem
<1> QED BY <1>2, <1>3, <1>4, <1>5 DEF Neighbour

LEMMA InitInv == Init => LInv
<1>1. SUFFICES ASSUME Init PROVE LInv OBVIOUS
<1>2. /\ level = [queue |-> << >>, total_qty |-> 0] /\ total_qty = 0
      /\ orders = << >> /\ next = << >> /\ prev = << >> /\ head = Null /\ tail = Null
  BY <1>1 DEF Init, Ops!EmptyLevel
<1>3. /\ Queue = << >> /\ level.total_qty = 0
  BY <1>2 DEF Queue
<1>4. /\ << >> \in Seq(Nat \cup {Null}) /\ << >> \in Seq(1..0)
      /\ << >> \in Seq([quantity : Quantities, filled : Nat])
      /\ Len(<< >>) = 0 /\ DOMAIN << >> = 1..0 /\ \A i : i \notin 1..0
  OBVIOUS
<1>5. OrdersInv BY <1>2, <1>4 DEF OrdersInv
<1>6. PointersInv BY <1>2, <1>4 DEF PointersInv
<1>7. QueueInv BY <1>2, <1>3, <1>4 DEF QueueInv, Queue
<1>8. ListInv BY <1>2, <1>3, <1>4 DEF ListInv, Neighbour
<1>9. TotalsInv
  <2> DEFINE s == [i \in 0..0 |-> 0]
  <2>1. s \in [0..0 -> 0..0] OBVIOUS
  <2>2. \A i, j \in 0..0 : ~ (i < j) OBVIOUS
  <2> HIDE DEF s
  <2> QED BY <1>2, <1>3, <1>4, <2>1, <2>2 DEF TotalsInv
<1> QED BY <1>5, <1>6, <1>7, <1>8, <1>9 DEF LInv

(* add_order *************************************************************)

LEMMA AddOrderInv ==
  ASSUME LInv, NEW q \in Quantities, NEW f \in 0..q,
         AddOrder([quantity |-> q, filled |-> f])
  PROVE  LInv'
<1> DEFINE o == [quantity |-> q, filled |-> f]
           L == Len(Queue)
           N == Len(orders)
           n == N + 1
           r == q - f
<1>0. q \in Nat /\ f \in Nat /\ f <= q /\ r \in Nat BY QuantitiesAssumption
<1>1. /\ orders' = Append(orders, o)
      /\ tail' = n
      /\ total_qty' = total_qty + r
      /\ level' = [queue |-> Append(Queue, n), total_qty |-> level.total_qty + r]
  BY OpsRemaining DEF AddOrder, Ops!LevelAdd, Queue
<1>2. /\ L \in Nat /\ N \in Nat
      /\ DOMAIN Queue = 1..L /\ DOMAIN orders = 1..N
      /\ \A i \in 1..L : Queue[i] \in 1..N
      /\ \A i \in Int : Neighbour(i) = IF i \in 1..L THEN Queue[i] ELSE Null
      /\ \A i \in 1..L : Queue[i] # Null
      /\ \A i, j \in 1..L : Queue[i] = Queue[j] => i = j
      /\ \A m \in 1..N : Rem(m) \in Nat
  BY QueueFacts
<1>3. /\ orders \in Seq([quantity : Quantities, filled : Nat])
      /\ next \in Seq(Nat \cup {Null}) /\ prev \in Seq(Nat \cup {Null})
      /\ Len(next) = N /\ Len(prev) = N
      /\ Queue \in Seq(1..N)
  BY DEF LInv, OrdersInv, PointersInv, QueueInv
<1>4. /\ Queue' = Append(Queue, n) /\ Queue' \in Seq(1..n) /\ Len(Queue') = L + 1
      /\ \A i \in 1..L : Queue'[i] = Queue[i]
      /\ Queue'[L + 1] = n
  <2>1. Queue' = Append(Queue, n) BY <1>1 DEF Queue
  <2>2. 1..N \subseteq 1..n /\ n \in 1..n BY <1>2
  <2>3. Queue \in Seq(1..n) BY <1>3, <2>2, SeqMonotonic
  <2> HIDE DEF n, L
  <2> QED BY <2>1, <2>2, <2>3, AppendProperties DEF L
<1>5. /\ orders' \in Seq([quantity : Quantities, filled : Nat])
      /\ Len(orders') = n
      /\ \A m \in 1..N : orders'[m] = orders[m]
      /\ orders'[n] = o
  <2>1. o \in [quantity : Quantities, filled : Nat] BY <1>0
  <2> HIDE DEF o
  <2> QED BY <1>1, <1>3, <2>1, AppendProperties
<1> DEFINE linked == IF L = 0 THEN next ELSE [next EXCEPT ![tail] = n]
<1>6. /\ linked \in Seq(Nat \cup {Null}) /\ Len(linked) = N
      /\ next' = Append(linked, Null)
      /\ prev' = Append(prev, tail)
      /\ head' = IF L = 0 THEN n ELSE head
      /\ L # 0 => tail = Queue[L] /\ tail \in 1..N
      /\ L = 0 => tail = Null
      /\ \A m \in 1..N : linked[m] = IF L # 0 /\ m = tail THEN n ELSE next[m]
  <2>1. CASE L = 0
    <3>1. head = Null /\ tail = Null BY <1>2, <2>1 DEF LInv, ListInv
    <3> QED BY <1>1, <1>3, <2>1, <3>1 DEF AddOrder
  <2>2. CASE L # 0
    <3>1. head = Queue[1] /\ tail = Queue[L] /\ 1 \in 1..L /\ L \in 1..L
      BY <1>2, <2>2 DEF LInv, ListInv
    <3>2. head # Null /\ tail \in 1..N BY <1>2, <3>1
    <3>3. n \in Nat \cup {Null} BY <1>2
    <3>4. /\ next' = Append(linked, Null) /\ prev' = Append(prev, tail) /\ head' = head
      BY <2>2, <3>2 DEF AddOrder
    <3> HIDE DEF n, L, N
    <3>5. /\ linked \in Seq(Nat \cup {Null}) /\ Len(linked) = N
          /\ \A m \in 1..N : linked[m] = IF m = tail THEN n ELSE next[m]
      BY <1>3, <2>2, <3>2, <3>3, ExceptSeq
    <3> QED BY <2>2, <3>1, <3>2, <3>4, <3>5
  <2> QED BY <2>1, <2>2
<1>7. /\ next' \in Seq(Nat \cup {Null}) /\ Len(next') = n
      /\ \A m \in 1..N : next'[m] = IF L # 0 /\ m = tail THEN n ELSE next[m]
      /\ next'[n] = Null
      /\ prev' \in Seq(Nat \cup {Null}) /\ Len(prev') = n
      /\ \A m \in 1..N : prev'[m] = prev[m]
      /\ prev'[n] = tail
  <2>1. tail \in Nat \cup {Null} /\ Null \in Nat \cup {Null} BY <1>6
  <2> HIDE DEF linked, L
  <2>2. /\ Append(linked, Null) \in Seq(Nat \cup {Null}) /\ Len(Append(linked, Null)) = n
        /\ \A m \in 1..N : Append(linked, Null)[m] = linked[m]
        /\ Append(linked, Null)[n] = Null
    BY <1>6, <2>1, AppendProperties
  <2>3. /\ Append(prev, tail) \in Seq(Nat \cup {Null}) /\ Len(Append(prev, tail)) = n
        /\ \A m \in 1..N : Append(prev, tail)[m] = prev[m]
        /\ Append(prev, tail)[n] = tail
    BY <1>3, <2>1, AppendProperties
  <2> QED BY <1>6, <2>2, <2>3
<1>8. OrdersInv'
  <2>1. ASSUME NEW m \in 1..n PROVE orders'[m].filled <= orders'[m].quantity
    <3>1. CASE m \in 1..N BY <1>5, <3>1 DEF LInv, OrdersInv
    <3>2. CASE m = n BY <1>0, <1>5, <3>2
    <3> QED BY <1>2, <3>1, <3>2
  <2> QED BY <1>5, <2>1 DEF OrdersInv
<1>9. PointersInv'
  <2>1. ASSUME NEW m \in 1..n
        PROVE  next'[m] \in (1..n) \cup {Null} /\ prev'[m] \in (1..n) \cup {Null}
    <3>1. CASE m \in 1..N
      <4>1. {next[m], prev[m]} \subseteq (1..N) \cup {Null} BY <3>1 DEF LInv, PointersInv
      <4>2. n \in 1..n /\ 1..N \subseteq 1..n BY <1>2
      <4> HIDE DEF n, N, L
      <4> QED BY <1>7, <3>1, <4>1, <4>2
    <3>2. CASE m = n
      <4>1. 1..N \subseteq 1..n BY <1>2
      <4> HIDE DEF n, N, L
      <4> QED BY <1>6, <1>7, <3>2, <4>1
    <3> QED BY <1>2, <3>1, <3>2
  <2>2. \A m \in 1..n : {next'[m], prev'[m]} \subseteq (1..n) \cup {Null} BY <2>1
  <2> HIDE DEF n
  <2> QED BY <1>5, <1>7, <2>2 DEF PointersInv
<1>10. QueueInv'
  <2>1. ASSUME NEW i \in 1..(L + 1), NEW j \in 1..(L + 1), i < j
        PROVE  Queue'[i] < Queue'[j]
    <3>1. i \in 1..L BY <1>2, <2>1
    <3>2. CASE j \in 1..L BY <1>4, <2>1, <3>1, <3>2 DEF LInv, QueueInv
    <3>3. CASE j = L + 1
      <4>1. Queue'[i] \in 1..N BY <1>2, <1>4, <3>1
      <4> QED BY <1>2, <1>4, <3>3, <4>1
    <3> QED BY <1>2, <3>2, <3>3
  <2>2. level' = [queue |-> level'.queue, total_qty |-> level'.total_qty] BY <1>1
  <2> HIDE DEF n, L, N
  <2> QED BY <1>4, <1>5, <2>1, <2>2 DEF QueueInv
<1>11. ListInv'
  <2> DEFINE Nb(i) == IF i \in 1..(L + 1) THEN Queue'[i] ELSE Null
  <2>1. \A i \in Int : Neighbour(i)' = Nb(i)
    <3>1. DOMAIN Queue' = 1..(L + 1) BY <1>4, LenProperties
    <3> QED BY <3>1 DEF Neighbour
  <2>2. head' = Nb(1)
    <3>1. CASE L = 0 BY <1>4, <1>6, <3>1
    <3>2. CASE L # 0
      <4>1. 1 \in 1..L /\ 1 \in 1..(L + 1) BY <1>2, <3>2
      <4>2. head = Queue[1] BY <1>2, <4>1 DEF LInv, ListInv
      <4> QED BY <1>4, <1>6, <3>2, <4>1, <4>2
    <3> QED BY <3>1, <3>2
  <2>3. tail' = Nb(L + 1) BY <1>1, <1>2, <1>4
  <2>4. ASSUME NEW i \in 1..(L + 1)
        PROVE  next'[Queue'[i]] = Nb(i + 1) /\ prev'[Queue'[i]] = Nb(i - 1)
    <3>1. CASE i = L + 1
      <4>1. i + 1 \notin 1..(L + 1) /\ i - 1 = L BY <1>2, <3>1
      <4>2. next'[Queue'[i]] = Null /\ prev'[Queue'[i]] = tail BY <1>4, <1>7, <3>1
      <4>3. Nb(L) = tail
        <5>1. CASE L = 0 BY <1>6, <5>1
        <5>2. CASE L # 0
          <6>1. L \in 1..L /\ L \in 1..(L + 1) BY <1>2, <5>2
          <6> QED BY <1>4, <1>6, <5>2, <6>1
        <5> QED BY <5>1, <5>2
      <4> HIDE DEF L, n
      <4> QED BY <4>1, <4>2, <4>3
    <3>2. CASE i # L + 1
      <4>0. i \in 1..L BY <1>2, <3>2
      <4>1. Queue'[i] = Queue[i] /\ Queue[i] \in 1..N BY <1>2, <1>4, <4>0
      <4>2. /\ next[Queue[i]] = Neighbour(i + 1)
            /\ prev[Queue[i]] = Neighbour(i - 1)
        BY <4>0 DEF LInv, ListInv
      <4>3. prev'[Queue'[i]] = Nb(i - 1)
        <5>1. prev'[Queue'[i]] = Neighbour(i - 1) BY <1>7, <4>1, <4>2
        <5>2. i - 1 \in Int /\ (i - 1 \in 1..(L + 1) <=> i - 1 \in 1..L) BY <1>2, <4>0
        <5>3. Neighbour(i - 1) = IF i - 1 \in 1..L THEN Queue[i - 1] ELSE Null
          BY <1>2, <5>2
        <5> QED BY <1>4, <5>1, <5>2, <5>3
      <4>4. CASE i = L
        <5>1. tail = Queue'[i] /\ L # 0 BY <1>2, <1>6, <4>0, <4>1, <4>4
        <5>2. next'[Queue'[i]] = n BY <1>7, <4>1, <5>1
        <5>3. i + 1 \in 1..(L + 1) /\ i + 1 = L + 1 BY <1>2, <4>4
        <5> QED BY <1>4, <4>3, <5>2, <5>3
      <4>5. CASE i # L
        <5>0. L # 0 /\ L \in 1..L BY <1>2, <4>0
        <5>1. Queue[i] # tail BY <1>2, <1>6, <4>0, <4>5, <5>0
        <5>2. next'[Queue'[i]] = Neighbour(i + 1) BY <1>7, <4>1, <4>2, <5>1
        <5>3. i + 1 \in Int /\ i + 1 \in 1..L /\ i + 1 \in 1..(L + 1)
          <6>1. L \in Nat /\ i \in 1..L /\ i # L BY <1>2, <4>0, <4>5
          <6> HIDE DEF L
          <6> QED BY ONLY <6>1
        <5>4. Neighbour(i + 1) = Queue[i + 1] BY <1>2, <5>3
        <5> QED BY <1>4, <4>3, <5>2, <5>3, <5>4
      <4> QED BY <4>4, <4>5
    <3> QED BY <3>1, <3>2
  <2>5. /\ 1 \in Int /\ L + 1 \in Int
        /\ \A i \in 1..(L + 1) : i + 1 \in Int /\ i - 1 \in Int
    BY <1>2
  <2> HIDE DEF Nb, L, n
  <2> QED BY <1>4, <2>1, <2>2, <2>3, <2>4, <2>5 DEF ListInv
<1>12. TotalsInv'
  <2> DEFINE RemAfter(m) == orders'[m].quantity - orders'[m].filled
  <2>1. /\ total_qty \in Nat /\ level.total_qty = total_qty
        /\ \E s \in [0..L -> 0..total_qty] :
             \A i, j \in 0..L : i < j => s[i] + Rem(Queue[j]) <= s[j]
    BY DEF LInv, TotalsInv
  <2>2. PICK s \in [0..L -> 0..total_qty] :
          \A i, j \in 0..L : i < j => s[i] + Rem(Queue[j]) <= s[j]
    BY <2>1
  <2> DEFINE t == [i \in 0..(L + 1) |-> IF i = L + 1 THEN total_qty + r ELSE s[i]]
  <2>3. total_qty' = total_qty + r /\ total_qty' \in Nat BY <1>0, <1>1, <2>1
  <2>4. t \in [0..(L + 1) -> 0..total_qty'] BY <1>0, <1>2, <2>1, <2>3
  <2>5. /\ \A i \in 0..L : t[i] = s[i] /\ t[i] \in Nat /\ t[i] <= total_qty
        /\ t[L + 1] = total_qty + r
    BY <1>2, <2>1
  <2>6. /\ \A i \in 1..L : RemAfter(Queue'[i]) = Rem(Queue[i])
        /\ RemAfter(Queue'[L + 1]) = r
    <3>1. \A i \in 1..L : orders'[Queue'[i]] = orders[Queue[i]] BY <1>2, <1>4, <1>5
    <3>2. orders'[Queue'[L + 1]] = o BY <1>4, <1>5
    <3> QED BY <3>1, <3>2 DEF Rem
  <2> HIDE DEF t
  <2> HIDE DEF RemAfter
  <2>7. ASSUME NEW i \in 0..(L + 1), NEW j \in 0..(L + 1), i < j
        PROVE  t[i] + RemAfter(Queue'[j]) <= t[j]
    <3>1. i \in 0..L BY <1>2, <2>7
    <3>2. CASE j \in 1..L
      <4>1. s[i] + Rem(Queue[j]) <= s[j] BY <2>2, <2>7, <3>1, <3>2
      <4> QED BY <2>5, <2>6, <3>1, <3>2, <4>1
    <3>3. CASE j = L + 1
      <4>1. t[i] \in Nat /\ t[i] <= total_qty /\ t[j] = total_qty + r /\ RemAfter(Queue'[j]) = r
        BY <2>5, <2>6, <3>1, <3>3
      <4>2. r \in Nat /\ total_qty \in Nat BY <1>0, <2>1
      <4> HIDE DEF L, r
      <4> QED BY <4>1, <4>2
    <3> QED BY <1>2, <2>7, <3>2, <3>3
  <2>8. level'.total_qty = total_qty' BY <1>1, <2>1
  <2> HIDE DEF L, n, r
  <2>9. \E u \in [0..(L + 1) -> 0..total_qty'] :
          \A i, j \in 0..(L + 1) : i < j => u[i] + RemAfter(Queue'[j]) <= u[j]
    BY <2>4, <2>7
  <2>10. Len(Queue') = L + 1 BY <1>4 DEF L
  <2> QED BY <2>3, <2>8, <2>9, <2>10 DEF TotalsInv, RemAfter, Rem
<1> QED BY <1>8, <1>9, <1>10, <1>11, <1>12 DEF LInv

(* remove_order **********************************************************)

\* The running totals s cover L nodes with these quantities open, the last
\* within the total; and t covers them but for the k-th.
Covers(s, L, total, Open) ==
    /\ s \in [0..L -> 0..total]
    /\ \A i, j \in 0..L : i < j => s[i] + Open[j] <= s[j]

CoversWithout(t, L, k, total, Open) ==
    /\ t \in [0..(L - 1) -> 0..total]
    /\ \A i, j \in 0..(L - 1) :
         i < j => t[i] + Open[IF j < k THEN j ELSE j + 1] <= t[j]

\* Without the k-th node, of which at most r is open, the totals behind it
\* fall by r.
LEMMA TotalsWithout ==
  ASSUME NEW L \in Nat, NEW k \in 1..L, NEW total \in Nat, NEW Open, NEW r \in Nat,
         \A j \in 1..L : Open[j] \in Nat,
         r <= Open[k],
         NEW s, Covers(s, L, total, Open)
  PROVE  r <= total /\ \E t : CoversWithout(t, L, k, total - r, Open)
<1>0. /\ s \in [0..L -> 0..total]
      /\ \A i, j \in 0..L : i < j => s[i] + Open[j] <= s[j]
  BY DEF Covers
<1>1. \A i \in 0..L : s[i] \in Nat /\ s[i] <= total BY <1>0
<1>2. \A j \in 0..L : k <= j => r <= s[j]
  <2> TAKE j \in 0..L
  <2> HAVE k <= j
  <2>1. k \in 0..L /\ k - 1 \in 0..L /\ k - 1 < k OBVIOUS
  <2>2. s[k - 1] + Open[k] <= s[k] BY <1>0, <2>1
  <2>3. Open[k] \in Nat /\ s[k - 1] \in Nat /\ s[k] \in Nat /\ s[j] \in Nat BY <1>1, <2>1
  <2>4. r <= s[k] BY <2>2, <2>3
  <2>5. CASE j = k BY <2>4, <2>5
  <2>6. CASE j # k
    <3>1. k < j /\ j \in 1..L BY <2>6
    <3>2. s[k] + Open[j] <= s[j] /\ Open[j] \in Nat BY <1>0, <2>1, <3>1
    <3> QED BY <2>3, <2>4, <3>2
  <2> QED BY <2>5, <2>6
<1>3. r <= total BY <1>1, <1>2
<1>4. \A i \in 0..L : i < k => s[i] <= total - r
  <2> TAKE i \in 0..L
  <2> HAVE i < k
  <2>1. k \in 0..L OBVIOUS
  <2>2. s[i] + Open[k] <= s[k] BY <1>0, <2>1
  <2>3. Open[k] \in Nat /\ s[i] \in Nat /\ s[k] \in Nat /\ s[k] <= total BY <1>1, <2>1
  <2> QED BY <2>2, <2>3
<1> DEFINE t == [i \in 0..(L - 1) |-> IF i < k THEN s[i] ELSE s[i + 1] - r]
<1>5. \A i \in 0..(L - 1) : /\ i < k => t[i] = s[i]
                            /\ ~ (i < k) => t[i] = s[i + 1] - r /\ k <= i + 1
                            /\ i \in 0..L /\ i + 1 \in 0..L /\ i + 1 \in 1..L
  OBVIOUS
<1>6. t \in [0..(L - 1) -> 0..(total - r)]
  <2>1. ASSUME NEW i \in 0..(L - 1) PROVE t[i] \in 0..(total - r)
    <3>1. CASE i < k
      <4>1. t[i] = s[i] /\ s[i] \in Nat /\ s[i] <= total - r BY <1>1, <1>4, <1>5, <3>1
      <4> QED BY <1>3, <4>1
    <3>2. CASE ~ (i < k)
      <4>1. t[i] = s[i + 1] - r /\ s[i + 1] \in Nat /\ s[i + 1] <= total /\ r <= s[i + 1]
        BY <1>1, <1>2, <1>5, <3>2
      <4> QED BY <1>3, <4>1
    <3> QED BY <3>1, <3>2
  <2>2. t = [i \in 0..(L - 1) |-> t[i]] OBVIOUS
  <2> HIDE DEF t
  <2> QED BY <2>1, <2>2
<1> HIDE DEF t
<1>7. ASSUME NEW i \in 0..(L - 1), NEW j \in 0..(L - 1), i < j
      PROVE  t[i] + Open[IF j < k THEN j ELSE j + 1] <= t[j]
  <2>1. CASE j < k
    <3>1. i < k /\ i \in 0..L /\ j \in 0..L BY <1>7, <2>1
    <3>2. s[i] + Open[j] <= s[j] BY <1>0, <1>7, <3>1
    <3> QED BY <1>5, <2>1, <3>1, <3>2
  <2>2. CASE ~ (j < k)
    <3>1. t[j] = s[j + 1] - r /\ s[j + 1] \in Nat /\ j + 1 \in 1..L /\ Open[j + 1] \in Nat
      BY <1>1, <1>5, <2>2
    <3>2. CASE i < k
      <4>1. t[i] = s[i] /\ s[i] \in Nat BY <1>1, <1>5, <3>2
      <4>2. k \in 0..L /\ k < j + 1 /\ i \in 0..L /\ j + 1 \in 0..L BY <1>5, <2>2
      <4>3. s[i] + Open[k] <= s[k] /\ s[k] + Open[j + 1] <= s[j + 1] BY <1>0, <3>2, <4>2
      <4>4. Open[k] \in Nat /\ s[k] \in Nat BY <1>1, <4>2
      <4>0. \A a, b, c, d, e \in Nat : a + b <= c /\ c + d <= e /\ r <= b => a + d <= e - r
        OBVIOUS
      <4> DEFINE a == s[i]
                 b == Open[k]
                 c == s[k]
                 d == Open[j + 1]
                 e == s[j + 1]
      <4>6. /\ a \in Nat /\ b \in Nat /\ c \in Nat /\ d \in Nat /\ e \in Nat
            /\ a + b <= c /\ c + d <= e /\ r <= b /\ t[i] = a /\ t[j] = e - r
        BY <3>1, <4>1, <4>3, <4>4
      <4>7. a + d <= e - r
        <5> HIDE DEF a, b, c, d, e
        <5> QED BY <4>6, <4>0
      <4>5. t[i] + Open[j + 1] <= t[j] BY <4>6, <4>7, Zenon DEF a, d, e
      <4> QED BY <2>2, <4>5
    <3>3. CASE ~ (i < k)
      <4>1. t[i] = s[i + 1] - r /\ s[i + 1] \in Nat BY <1>1, <1>5, <3>3
      <4>2. i + 1 \in 0..L /\ j + 1 \in 0..L /\ i + 1 < j + 1 BY <1>5, <1>7
      <4>3. s[i + 1] + Open[j + 1] <= s[j + 1] BY <1>0, <4>2
      <4>0. \A a, b, c \in Nat : a + b <= c => (a - r) + b <= c - r OBVIOUS
      <4>4. t[i] + Open[j + 1] <= t[j] BY <3>1, <4>0, <4>1, <4>3, Zenon
      <4> QED BY <2>2, <4>4
    <3> QED BY <3>2, <3>3
  <2> QED BY <2>1, <2>2
<1> QED BY <1>3, <1>6, <1>7 DEF CoversWithout

\* Node n, the k-th of the queue, is unlinked; it may have traded just before,
\* so that the order o it holds has less open than the invariant knows.
LEMMA RemoveOrderInv ==
  ASSUME LInv, NEW k \in 1..Len(Queue), NEW o, RemoveOrder(Queue[k], o),
         OrdersInv', Len(orders') = Len(orders),
         \A m \in 1..Len(orders) : m # Queue[k] => orders'[m] = orders[m],
         o.quantity - o.filled \in Nat, o.quantity - o.filled <= Rem(Queue[k])
  PROVE  LInv'
<1> DEFINE L == Len(Queue)
           N == Len(orders)
           n == Queue[k]
           r == o.quantity - o.filled
           Q == Queue
<1>1. /\ L \in Nat /\ N \in Nat /\ k \in 1..L /\ DOMAIN Q = 1..L
      /\ \A i \in 1..L : Q[i] \in 1..N
      /\ \A i \in Int : Neighbour(i) = IF i \in 1..L THEN Q[i] ELSE Null
      /\ \A i \in 1..L : Q[i] # Null
      /\ \A i, j \in 1..L : Q[i] = Q[j] => i = j
      /\ \A m \in 1..N : Rem(m) \in Nat
      /\ n \in 1..N
  BY QueueFacts
<1>2. /\ next \in Seq(Nat \cup {Null}) /\ prev \in Seq(Nat \cup {Null})
      /\ Len(next) = N /\ Len(prev) = N
      /\ \A m \in 1..N : next[m] \in (1..N) \cup {Null} /\ prev[m] \in (1..N) \cup {Null}
      /\ Q \in Seq(1..N)
      /\ \A i, j \in 1..L : i < j => Q[i] < Q[j]
      /\ head = Neighbour(1) /\ tail = Neighbour(L)
      /\ \A i \in 1..L : next[Q[i]] = Neighbour(i + 1) /\ prev[Q[i]] = Neighbour(i - 1)
      /\ level = [queue |-> Q, total_qty |-> total_qty] /\ total_qty \in Nat
  BY DEF LInv, PointersInv, QueueInv, ListInv, TotalsInv, Queue
<1> DEFINE R == RemoveAt(Q, k)
<1>3. /\ R \in Seq(1..N) /\ Len(R) = L - 1
      /\ \A j \in 1..(L - 1) : R[j] = IF j < k THEN Q[j] ELSE Q[j + 1]
  <2>1. Q \in Seq(1..N) /\ k \in 1..Len(Q) BY <1>2
  <2> HIDE DEF Q, N
  <2>2. /\ R \in Seq(1..N) /\ Len(R) = Len(Q) - 1
        /\ \A j \in 1..(Len(Q) - 1) : R[j] = IF j < k THEN Q[j] ELSE Q[j + 1]
    BY <2>1, Lemmas!RemoveAtProperties DEF RemoveAt, Lemmas!RemoveAt
  <2> QED BY <2>2 DEF Q
<1>4. (CHOOSE i \in DOMAIN Q : Q[i] = n) = k
  <2>1. \A i \in 1..L : Q[i] = n => i = k BY <1>1
  <2> QED BY <1>1, <2>1
<1>5. level' = IF R = << >> THEN [queue |-> << >>, total_qty |-> 0]
               ELSE [queue |-> R, total_qty |-> total_qty - r]
  <2>1. level.queue = Q /\ level.total_qty = total_qty BY <1>2
  <2>2. Ops!LevelRemove(level, n, o) = [queue |-> R, total_qty |-> total_qty - r]
    BY <1>4, <2>1, OpsRemaining DEF Ops!LevelRemove, Ops!RemoveAt, RemoveAt
  <2> HIDE DEF n, R, r, Q
  <2>3. Ops!LevelRemove(level, n, o).queue = R BY <2>2
  <2> QED BY <2>2, <2>3 DEF RemoveOrder, Ops!EmptyLevel, n, Q
<1>6. Queue' = R
  <2>1. Queue' = level'.queue BY DEF Queue
  <2> HIDE DEF R, Q, r
  <2> QED BY <1>5, <2>1
<1> HIDE DEF R
<1>7. /\ next[n] = Neighbour(k + 1) /\ prev[n] = Neighbour(k - 1) BY <1>1, <1>2
<1>8. /\ k + 1 \in Int /\ k - 1 \in Int /\ 1 \in Int /\ L \in Int
      /\ next[n] = IF k = L THEN Null ELSE Q[k + 1]
      /\ prev[n] = IF k = 1 THEN Null ELSE Q[k - 1]
      /\ k # L => k + 1 \in 1..L
      /\ k # 1 => k - 1 \in 1..L
  BY <1>1, <1>7
<1>9. /\ next[n] = Null <=> k = L
      /\ prev[n] = Null <=> k = 1
  BY <1>1, <1>8
<1>10. /\ next' \in Seq(Nat \cup {Null}) /\ Len(next') = N
       /\ \A m \in 1..N : next'[m] = IF k # 1 /\ m = Q[k - 1] THEN next[n] ELSE next[m]
  <2>1. next' = IF k # 1 THEN [next EXCEPT ![prev[n]] = next[n]] ELSE next
    BY <1>9 DEF RemoveOrder
  <2>2. CASE k = 1 BY <1>2, <2>1, <2>2
  <2>3. CASE k # 1
    <3>1. prev[n] = Q[k - 1] /\ prev[n] \in 1..N BY <1>1, <1>8, <2>3
    <3>2. next[n] \in Nat \cup {Null} BY <1>1, <1>2
    <3> HIDE DEF n, N, L, Q
    <3>3. /\ [next EXCEPT ![prev[n]] = next[n]] \in Seq(Nat \cup {Null})
          /\ Len([next EXCEPT ![prev[n]] = next[n]]) = N
          /\ \A m \in 1..N : [next EXCEPT ![prev[n]] = next[n]][m] =
                               IF m = prev[n] THEN next[n] ELSE next[m]
      BY <1>2, <3>1, <3>2, ExceptSeq
    <3> QED BY <2>1, <2>3, <3>1, <3>3
  <2> QED BY <2>2, <2>3
<1>11. /\ prev' \in Seq(Nat \cup {Null}) /\ Len(prev') = N
       /\ \A m \in 1..N : prev'[m] = IF k # L /\ m = Q[k + 1] THEN prev[n] ELSE prev[m]
  <2>1. prev' = IF k # L THEN [prev EXCEPT ![next[n]] = prev[n]] ELSE prev
    BY <1>9 DEF RemoveOrder
  <2>2. CASE k = L BY <1>2, <2>1, <2>2
  <2>3. CASE k # L
    <3>1. next[n] = Q[k + 1] /\ next[n] \in 1..N BY <1>1, <1>8, <2>3
    <3>2. prev[n] \in Nat \cup {Null} BY <1>1, <1>2
    <3> HIDE DEF n, N, L, Q
    <3>3. /\ [prev EXCEPT ![next[n]] = prev[n]] \in Seq(Nat \cup {Null})
          /\ Len([prev EXCEPT ![next[n]] = prev[n]]) = N
          /\ \A m \in 1..N : [prev EXCEPT ![next[n]] = prev[n]][m] =
                               IF m = next[n] THEN prev[n] ELSE prev[m]
      BY <1>2, <3>1, <3>2, ExceptSeq
    <3> QED BY <2>1, <2>3, <3>1, <3>3
  <2> QED BY <2>2, <2>3
<1>12. /\ head' = IF k = 1 THEN next[n] ELSE head
       /\ tail' = IF k = L THEN prev[n] ELSE tail
  BY <1>9 DEF RemoveOrder
<1>13. PointersInv'
  <2>1. \A m \in 1..N : /\ next'[m] \in (1..N) \cup {Null}
                        /\ prev'[m] \in (1..N) \cup {Null}
    BY <1>1, <1>2, <1>10, <1>11
  <2>2. \A m \in 1..N : {next'[m], prev'[m]} \subseteq (1..N) \cup {Null} BY <2>1
  <2>3. Len(orders') = N OBVIOUS
  <2> HIDE DEF N
  <2> QED BY <1>10, <1>11, <2>2, <2>3 DEF PointersInv
<1>14. QueueInv'
  <2>1. ASSUME NEW i \in 1..(L - 1), NEW j \in 1..(L - 1), i < j PROVE R[i] < R[j]
    <3>1. i \in 1..L /\ j \in 1..L /\ i + 1 \in 1..L /\ j + 1 \in 1..L
          /\ i < j + 1 /\ i + 1 < j + 1
      <4>1. L \in Nat /\ i \in 1..(L - 1) /\ j \in 1..(L - 1) /\ i < j BY <1>1, <2>1
      <4> HIDE DEF L
      <4> QED BY ONLY <4>1
    <3>2. /\ R[i] = Q[i] \/ R[i] = Q[i + 1]
          /\ R[j] = Q[j + 1] \/ (R[i] = Q[i] /\ R[j] = Q[j])
      <4>1. j < k => i < k BY <1>1, <2>1
      <4> QED BY <1>3, <4>1
    <3> QED BY <1>2, <2>1, <3>1, <3>2
  <2>2. level' = [queue |-> level'.queue, total_qty |-> level'.total_qty]
    <3> HIDE DEF L, N, n, r, Q
    <3> QED BY <1>5
  <2>3. Len(orders') = N OBVIOUS
  <2> HIDE DEF L, N, n, r, Q
  <2> QED BY <1>3, <1>6, <2>1, <2>2, <2>3 DEF QueueInv
<1>15. Neighbour(1)' = (IF L = 1 THEN Null ELSE R[1])
       /\ Neighbour(Len(Queue))' = (IF L = 1 THEN Null ELSE R[L - 1])
       /\ \A i \in Int : Neighbour(i)' = IF i \in 1..(L - 1) THEN R[i] ELSE Null
  <2>1. \A i \in Int : Neighbour(i)' = IF i \in 1..(L - 1) THEN R[i] ELSE Null
    <3>1. DOMAIN R = 1..(L - 1) BY <1>3, LenProperties
    <3> HIDE DEF Q, L
    <3> QED BY <1>6, <3>1 DEF Neighbour
  <2>2. L - 1 \in Int /\ 1 \in Int
        /\ (1 \in 1..(L - 1) <=> L # 1) /\ (L - 1 \in 1..(L - 1) <=> L # 1)
    <3> HIDE DEF L
    <3> QED BY <1>1
  <2>3. Neighbour(Len(Queue))' = IF L - 1 \in 1..(L - 1) THEN R[L - 1] ELSE Null
    <3>1. DOMAIN R = 1..(L - 1) BY <1>3, LenProperties
    <3> HIDE DEF Q, L
    <3> QED BY <1>3, <1>6, <3>1 DEF Neighbour
  <2> QED BY <2>1, <2>2, <2>3
<1> HIDE DEF L, N, n, r, Q
<1>16. ListInv'
  <2> DEFINE Nb(i) == IF i \in 1..(L - 1) THEN R[i] ELSE Null
  <2>0. L \in Nat \ {0} BY <1>1
  <2>1. head' = Neighbour(1)'
    <3>1. CASE k = 1
      <4>1. head' = next[n] BY <1>12, <3>1
      <4>2. CASE L = 1 BY <1>8, <1>15, <3>1, <4>1, <4>2
      <4>3. CASE L # 1
        <5>1. 1 \in 1..(L - 1) BY <2>0, <4>3
        <5>2. R[1] = Q[2] BY <1>3, <3>1, <5>1
        <5> QED BY <1>8, <1>15, <3>1, <4>1, <4>3, <5>2
      <4> QED BY <4>2, <4>3
    <3>2. CASE k # 1
      <4>1. 1 \in 1..(L - 1) /\ 1 < k /\ 1 \in 1..L /\ L # 1 BY <1>1, <2>0, <3>2
      <4>2. R[1] = Q[1] BY <1>3, <4>1
      <4>3. head' = Q[1] BY <1>1, <1>2, <1>12, <3>2, <4>1
      <4> QED BY <1>15, <4>1, <4>2, <4>3
    <3> QED BY <3>1, <3>2
  <2>2. tail' = Neighbour(Len(Queue))'
    <3>1. CASE k = L
      <4>1. tail' = prev[n] BY <1>12, <3>1
      <4>2. CASE L = 1 BY <1>8, <1>15, <3>1, <4>1, <4>2
      <4>3. CASE L # 1
        <5>1. L - 1 \in 1..(L - 1) /\ L - 1 < k BY <2>0, <3>1, <4>3
        <5>2. R[L - 1] = Q[L - 1] BY <1>3, <5>1
        <5> QED BY <1>8, <1>15, <3>1, <4>1, <4>3, <5>2
      <4> QED BY <4>2, <4>3
    <3>2. CASE k # L
      <4>1. L - 1 \in 1..(L - 1) /\ ~ (L - 1 < k) /\ L \in 1..L /\ L # 1 /\ (L - 1) + 1 = L
        BY <1>1, <2>0, <3>2
      <4>2. R[L - 1] = Q[L] BY <1>3, <4>1
      <4>3. tail' = Q[L] BY <1>1, <1>2, <1>12, <3>2, <4>1
      <4> QED BY <1>15, <4>1, <4>2, <4>3
    <3> QED BY <3>1, <3>2
  <2>3. ASSUME NEW i \in 1..(L - 1)
        PROVE  next'[R[i]] = Nb(i + 1) /\ prev'[R[i]] = Nb(i - 1)
    <3>0. /\ i \in 1..L /\ i + 1 \in 1..L /\ i + 1 \in Int /\ i - 1 \in Int
          /\ (i + 1) + 1 = i + 2 /\ (i + 1) - 1 = i /\ i + 2 \in Int /\ i \in Int
      <4>1. L \in Nat /\ i \in 1..(L - 1) BY <1>1
      <4> QED BY ONLY <4>1
    <3>1. /\ R[i] = IF i < k THEN Q[i] ELSE Q[i + 1]
          /\ R[i] \in 1..N
      BY <1>1, <1>3, <3>0
    <3>2. /\ next'[R[i]] = IF k # 1 /\ R[i] = Q[k - 1] THEN next[n] ELSE next[R[i]]
          /\ prev'[R[i]] = IF k # L /\ R[i] = Q[k + 1] THEN prev[n] ELSE prev[R[i]]
      BY <1>10, <1>11, <3>1
    <3>3. next'[R[i]] = Nb(i + 1)
      <4>1. CASE i = k - 1
        <5>1. k # 1 /\ i < k /\ i + 1 = k BY <1>1, <3>0, <4>1
        <5>2. next'[R[i]] = next[n] BY <3>1, <3>2, <4>1, <5>1
        <5>3. CASE k = L
          <6>1. i + 1 \notin 1..(L - 1) BY <2>0, <5>1, <5>3
          <6> QED BY <1>8, <5>2, <5>3, <6>1
        <5>4. CASE k # L
          <6>1. i + 1 \in 1..(L - 1) /\ ~ (i + 1 < k) BY <1>1, <2>0, <5>1, <5>4
          <6>2. R[i + 1] = Q[(i + 1) + 1] BY <1>3, <6>1
          <6> QED BY <1>8, <5>1, <5>2, <5>4, <6>1, <6>2
        <5> QED BY <5>3, <5>4
      <4>2. CASE i # k - 1
        <5>1. CASE i < k
          <6>1. i + 1 < k /\ i + 1 \in 1..(L - 1)
            <7>1. k \in 1..L BY <1>1
            <7> QED BY ONLY <2>0, <3>0, <4>2, <5>1, <7>1
          <6>2. R[i] = Q[i] /\ R[i + 1] = Q[i + 1] BY <1>3, <3>1, <5>1, <6>1
          <6>3. k # 1 => Q[i] # Q[k - 1] BY <1>1, <1>8, <3>0, <4>2
          <6>4. next'[R[i]] = Neighbour(i + 1) BY <1>2, <3>0, <3>2, <6>2, <6>3
          <6> QED BY <1>1, <3>0, <6>1, <6>2, <6>4
        <5>2. CASE ~ (i < k)
          <6>1. R[i] = Q[i + 1] BY <3>1, <5>2
          <6>2. k # 1 => Q[i + 1] # Q[k - 1]
            <7>1. k \in 1..L BY <1>1
            <7>2. k # 1 => i + 1 \in 1..L /\ k - 1 \in 1..L /\ i + 1 # k - 1
              BY ONLY <2>0, <3>0, <5>2, <7>1
            <7> QED BY <1>1, <7>2
          <6>3. next'[R[i]] = Neighbour(i + 2) BY <1>2, <3>0, <3>2, <6>1, <6>2
          <6>4. i + 2 \in 1..L <=> i + 1 \in 1..(L - 1) BY ONLY <2>0, <3>0
          <6>5. i + 1 \in 1..(L - 1) => R[i + 1] = Q[i + 2]
            <7>1. k \in 1..L BY <1>1
            <7>2. ~ (i + 1 < k) /\ (i + 1) + 1 = i + 2 BY ONLY <2>0, <3>0, <5>2, <7>1
            <7>3. i + 1 \in 1..(L - 1) => R[i + 1] = Q[(i + 1) + 1] BY <1>3, <7>2
            <7> QED BY <7>2, <7>3
          <6>6. Neighbour(i + 2) = IF i + 2 \in 1..L THEN Q[i + 2] ELSE Null BY <1>1, <3>0
          <6> QED BY <6>3, <6>4, <6>5, <6>6
        <5> QED BY <5>1, <5>2
      <4> QED BY <4>1, <4>2
    <3>4. prev'[R[i]] = Nb(i - 1)
      <4>1. CASE i = k
        <5>1. k # L /\ ~ (i < k) BY <1>1, <2>0, <4>1
        <5>2. prev'[R[i]] = prev[n] BY <3>1, <3>2, <4>1, <5>1
        <5>3. CASE k = 1
          <6>1. i - 1 \notin 1..(L - 1) BY <4>1, <5>3
          <6> QED BY <1>8, <5>2, <5>3, <6>1
        <5>4. CASE k # 1
          <6>1. i - 1 \in 1..(L - 1) /\ i - 1 < k BY <1>1, <2>0, <4>1, <5>4
          <6>2. R[i - 1] = Q[i - 1] BY <1>3, <6>1
          <6> QED BY <1>8, <4>1, <5>2, <5>4, <6>1, <6>2
        <5> QED BY <5>3, <5>4
      <4>2. CASE i # k
        <5>1. CASE i < k
          <6>1. R[i] = Q[i] BY <3>1, <5>1
          <6>2. k # L => Q[i] # Q[k + 1]
            <7>1. i # k + 1 BY <1>1, <3>0, <5>1
            <7> QED BY <1>1, <1>8, <3>0, <7>1
          <6>3. prev'[R[i]] = Neighbour(i - 1) BY <1>2, <3>0, <3>2, <6>1, <6>2
          <6>4. i - 1 \in 1..L <=> i - 1 \in 1..(L - 1) BY ONLY <2>0, <3>0, i \in 1..(L - 1)
          <6>5. i - 1 \in 1..(L - 1) => R[i - 1] = Q[i - 1]
            <7>1. k \in 1..L BY <1>1
            <7>2. i - 1 < k BY ONLY <2>0, <3>0, <5>1, <7>1
            <7> QED BY <1>3, <7>2
          <6>6. Neighbour(i - 1) = IF i - 1 \in 1..L THEN Q[i - 1] ELSE Null BY <1>1, <3>0
          <6> QED BY <6>3, <6>4, <6>5, <6>6
        <5>2. CASE ~ (i < k)
          <6>1. R[i] = Q[i + 1] BY <3>1, <5>2
          <6>2. k # L => Q[i + 1] # Q[k + 1] BY <1>1, <1>8, <3>0, <4>2
          <6>3. prev'[R[i]] = Neighbour(i) BY <1>2, <3>0, <3>2, <6>1, <6>2
          <6>4. i - 1 \in 1..(L - 1) /\ ~ (i - 1 < k) /\ (i - 1) + 1 = i
            BY <1>1, <2>0, <3>0, <4>2, <5>2
          <6>5. R[i - 1] = Q[i] BY <1>3, <6>4
          <6>6. Neighbour(i) = Q[i] BY <1>1, <3>0
          <6> QED BY <6>3, <6>4, <6>5, <6>6
        <5> QED BY <5>1, <5>2
      <4> QED BY <4>1, <4>2
    <3> QED BY <3>3, <3>4
  <2>4. /\ \A i \in 1..(L - 1) : Nb(i + 1) = Neighbour(i + 1)' /\ Nb(i - 1) = Neighbour(i - 1)'
    <3>1. \A i \in 1..(L - 1) : i + 1 \in Int /\ i - 1 \in Int OBVIOUS
    <3> QED BY <1>15, <3>1
  <2>5. Len(Queue') = L - 1 /\ Queue' = R BY <1>3, <1>6
  <2> HIDE DEF Nb
  <2> QED BY <2>1, <2>2, <2>3, <2>4, <2>5 DEF ListInv
<1>17. total_qty' = IF L = 1 THEN 0 ELSE total_qty - r
  <2>1. head' = Null <=> L = 1
    <3>1. R[1] # Null \/ L = 1
      <4>1. L # 1 => 1 \in 1..(L - 1) BY <1>1
      <4>2. L # 1 => R[1] \in 1..N
        <5> QED BY <1>3, <4>1, ElementOfSeq
      <4> QED BY <4>2, <1>1, NullAssumption
    <3>2. head' = Neighbour(1)' BY <1>16 DEF ListInv
    <3> QED BY <1>15, <3>1, <3>2
  <2> QED BY <2>1, OpsRemaining DEF RemoveOrder, TotalWithout, n, r, Q
<1>18. TotalsInv'
  <2> DEFINE Open == [j \in 1..L |-> Rem(Q[j])]
             RemAfter(m) == orders'[m].quantity - orders'[m].filled
  <2>1. \A j \in 1..L : Open[j] = Rem(Q[j]) /\ Open[j] \in Nat BY <1>1
  <2>2. PICK s \in [0..L -> 0..total_qty] :
          \A i, j \in 0..L : i < j => s[i] + Rem(Q[j]) <= s[j]
    BY DEF LInv, TotalsInv, L, Q
  <2>3. \A i, j \in 0..L : i < j => s[i] + Open[j] <= s[j]
    <3>1. \A i, j \in 0..L : i < j => j \in 1..L BY <1>1
    <3> HIDE DEF Open
    <3> QED BY <2>1, <2>2, <3>1
  <2>4. r \in Nat /\ r <= Open[k] BY <1>1, <2>1 DEF r, Q
  <2> HIDE DEF Open
  <2>5. r <= total_qty /\ \E t : CoversWithout(t, L, k, total_qty - r, Open)
    <3>1. L \in Nat BY <1>1
    <3>2. k \in 1..L BY <1>1
    <3>3. total_qty \in Nat BY <1>2
    <3>4. r \in Nat BY <2>4
    <3>5. r <= Open[k] BY <2>4
    <3>6. \A j \in 1..L : Open[j] \in Nat BY <2>1
    <3>7. Covers(s, L, total_qty, Open) BY <2>3 DEF Covers
    <3> QED BY ONLY <3>1, <3>2, <3>3, <3>4, <3>5, <3>6, <3>7, TotalsWithout, Zenon
  <2>6. ASSUME NEW j \in 1..(L - 1)
        PROVE  Open[IF j < k THEN j ELSE j + 1] = RemAfter(R[j])
    <3> DEFINE m == IF j < k THEN j ELSE j + 1
    <3>1. m \in 1..L /\ m # k
      <4>1. L \in Nat /\ j \in 1..(L - 1) /\ k \in 1..L BY <1>1
      <4> QED BY ONLY <4>1
    <3>2. R[j] = Q[m] BY <1>3
    <3> HIDE DEF m
    <3>3. Q[m] # n /\ Q[m] \in 1..N BY <1>1, <3>1 DEF n, Q
    <3>4. orders'[Q[m]] = orders[Q[m]] BY <3>3 DEF N, n, Q
    <3>5. Open[m] = RemAfter(R[j]) BY <2>1, <3>1, <3>2, <3>4 DEF Rem
    <3> QED BY <3>5 DEF m
  <2>7. total_qty' \in Nat /\ level'.total_qty = total_qty'
    <3>1. R = << >> <=> L = 1
      <4>1. << >> \in Seq(1..N) /\ Len(<< >>) = 0 OBVIOUS
      <4>2. L = 1 => Len(R) = 0 BY <1>3
      <4>3. Len(R) = 0 => R = << >> BY <1>3, EmptySeq
      <4>4. R = << >> => L - 1 = 0 BY <1>3, <4>1
      <4> QED BY <1>1, <4>2, <4>3, <4>4
    <3>2. level'.total_qty = total_qty'
      <4> QED BY <1>5, <1>17, <3>1
    <3>3. total_qty' \in Nat
      <4>1. total_qty \in Nat /\ r \in Nat BY <1>2, <2>4
      <4> QED BY <1>17, <2>5, <4>1
    <3> QED BY <3>2, <3>3
  <2>8. \E t \in [0..(L - 1) -> 0..total_qty'] :
          \A i, j \in 0..(L - 1) : i < j => t[i] + RemAfter(R[j]) <= t[j]
    <3> HIDE DEF RemAfter
    <3>1. CASE L = 1
      <4> DEFINE t == [i \in 0..0 |-> 0]
      <4>1. t \in [0..0 -> 0..total_qty'] BY <2>7
      <4>2. \A i, j \in 0..0 : ~ (i < j) OBVIOUS
      <4>3. L - 1 = 0 BY <3>1
      <4> HIDE DEF t
      <4> QED BY <4>1, <4>2, <4>3
    <3>2. CASE L # 1
      <4>1. total_qty' = total_qty - r BY <1>17, <3>2
      <4>2. \A i, j \in 0..(L - 1) : i < j => j \in 1..(L - 1) BY <1>1
      <4> QED BY <2>5, <2>6, <4>1, <4>2 DEF CoversWithout
    <3> QED BY <3>1, <3>2
  <2>9. Len(Queue') = L - 1 /\ Queue' = R BY <1>3, <1>6
  <2> QED BY <2>7, <2>8, <2>9 DEF TotalsInv, Rem, RemAfter
<1> QED BY <1>13, <1>14, <1>16, <1>18 DEF LInv

LEMMA CancelOrderInv ==
  ASSUME LInv, NEW n \in Linked, CancelOrder(n)
  PROVE  LInv'
<1>1. PICK k \in 1..Len(Queue) : n = Queue[k] BY QueueFacts DEF Linked, Queue
<1>2. RemoveOrder(Queue[k], orders[n]) /\ orders' = orders BY <1>1 DEF CancelOrder
<1>3. n \in 1..Len(orders) /\ Rem(n) \in Nat BY <1>1, QueueFacts
<1>4. OrdersInv' BY <1>2 DEF LInv, OrdersInv
<1>5. /\ orders[n].quantity - orders[n].filled \in Nat
      /\ orders[n].quantity - orders[n].filled <= Rem(Queue[k])
  BY <1>1, <1>3 DEF Rem
<1> QED BY <1>2, <1>4, <1>5, RemoveOrderInv

(* A fill ****************************************************************)

LEMMA FillHeadInv ==
  ASSUME LInv, NEW qty \in Nat, FillHead(qty)
  PROVE  LInv'
<1> DEFINE L == Len(Queue)
           N == Len(orders)
           n == Queue[1]
           o == [orders[n] EXCEPT !.filled = @ + qty]
<1>1. /\ L \in Nat /\ N \in Nat
      /\ \A i \in 1..L : Queue[i] \in 1..N
      /\ \A m \in 1..N :
           orders[m].quantity \in Nat /\ orders[m].filled \in Nat /\ Rem(m) \in Nat
  BY QueueFacts
<1>2. 1 \in 1..L /\ head = n
  <2>1. head = IF 1 \in 1..L THEN Queue[1] ELSE Null
    BY QueueFacts DEF LInv, ListInv
  <2> QED BY <2>1 DEF FillHead
<1>3. n \in 1..N BY <1>1, <1>2
<1>4. /\ orders \in Seq([quantity : Quantities, filled : Nat])
      /\ \A m \in 1..N : orders[m].filled <= orders[m].quantity
      /\ orders[n] \in [quantity : Quantities, filled : Nat]
  BY <1>3, ElementOfSeq DEF LInv, OrdersInv
<1>5. orders' = [orders EXCEPT ![n] = o] BY <1>2 DEF FillHead
<1>6. /\ o \in [quantity : Quantities, filled : Nat]
      /\ o.quantity = orders[n].quantity /\ o.filled = orders[n].filled + qty
  <2>1. \A p \in [quantity : Quantities, filled : Nat] :
          LET c == [p EXCEPT !.filled = @ + qty]
          IN  /\ c \in [quantity : Quantities, filled : Nat]
              /\ c.quantity = p.quantity /\ c.filled = p.filled + qty
    OBVIOUS
  <2> HIDE DEF n
  <2> QED BY <1>4, <2>1, Zenon
<1>7. qty <= Rem(n) BY <1>2, OpsRemaining DEF FillHead, Rem
<1>8. /\ o.quantity - o.filled \in Nat /\ o.quantity - o.filled <= Rem(n)
      /\ o.filled <= o.quantity
  <2>1. Rem(n) = orders[n].quantity - orders[n].filled BY DEF Rem
  <2>2. orders[n].quantity \in Nat /\ orders[n].filled \in Nat BY <1>1, <1>3
  <2> DEFINE a == orders[n].quantity
             b == orders[n].filled
  <2>3. a \in Nat /\ b \in Nat /\ qty <= a - b /\ o.quantity = a /\ o.filled = b + qty
        /\ Rem(n) = a - b
    BY <1>6, <1>7, <2>1, <2>2
  <2> HIDE DEF a, b, o, n
  <2> QED BY <2>3
<1> HIDE DEF o
<1>9. /\ orders' \in Seq([quantity : Quantities, filled : Nat])
      /\ Len(orders') = N
      /\ \A m \in 1..N : orders'[m] = IF m = n THEN o ELSE orders[m]
  <2> HIDE DEF n, N
  <2> QED BY <1>3, <1>4, <1>5, <1>6, ExceptSeq DEF N
<1>10. OrdersInv'
  <2>1. \A m \in 1..N : orders'[m].filled <= orders'[m].quantity
    BY <1>4, <1>8, <1>9
  <2> QED BY <1>9, <2>1 DEF OrdersInv
<1>11. CASE Ops!Remaining(orders'[head]) = 0
  <2>1. RemoveOrder(n, o) BY <1>2, <1>3, <1>9, <1>11 DEF FillHead
  <2>2. \A m \in 1..N : m # n => orders'[m] = orders[m] BY <1>9
  <2>3. Len(orders') = Len(orders) BY <1>9
  <2> QED BY <1>2, <1>8, <1>10, <2>1, <2>2, <2>3, RemoveOrderInv
<1>12. CASE Ops!Remaining(orders'[head]) # 0
  <2>1. UNCHANGED <<head, tail, next, prev, total_qty, level>>
    BY <1>12 DEF FillHead, pointers
  <2>2. Queue' = Queue BY <2>1 DEF Queue
  <2>3. PointersInv' BY <1>9, <2>1 DEF LInv, PointersInv
  <2>4. QueueInv' BY <1>9, <2>1, <2>2 DEF LInv, QueueInv
  <2>5. ListInv' BY <2>1, <2>2 DEF LInv, ListInv, Neighbour
  <2>6. TotalsInv'
    <3> DEFINE RemAfter(m) == orders'[m].quantity - orders'[m].filled
    <3>1. PICK s \in [0..L -> 0..total_qty] :
            \A i, j \in 0..L : i < j => s[i] + Rem(Queue[j]) <= s[j]
      BY DEF LInv, TotalsInv
    <3>2. \A j \in 1..L : /\ RemAfter(Queue[j]) \in Int /\ Rem(Queue[j]) \in Int
                          /\ RemAfter(Queue[j]) <= Rem(Queue[j])
      <4> TAKE j \in 1..L
      <4>1. Queue[j] \in 1..N /\ Rem(Queue[j]) \in Nat BY <1>1
      <4>2. CASE Queue[j] = n BY <1>8, <1>9, <4>1, <4>2
      <4>3. CASE Queue[j] # n
        <5>1. RemAfter(Queue[j]) = Rem(Queue[j]) BY <1>9, <4>1, <4>3 DEF Rem
        <5> QED BY <4>1, <5>1
      <4> QED BY <4>2, <4>3
    <3> HIDE DEF RemAfter
    <3>3. ASSUME NEW i \in 0..L, NEW j \in 0..L, i < j
          PROVE  s[i] + RemAfter(Queue[j]) <= s[j]
      <4>1. j \in 1..L BY <1>1, <3>3
      <4>2. s[i] + Rem(Queue[j]) <= s[j] BY <3>1, <3>3
      <4>3. /\ RemAfter(Queue[j]) \in Int /\ Rem(Queue[j]) \in Int
            /\ RemAfter(Queue[j]) <= Rem(Queue[j])
        BY <3>2, <4>1
      <4>4. s[i] \in Int /\ s[j] \in Int OBVIOUS
      <4> QED BY <4>2, <4>3, <4>4
    <3>4. \E t \in [0..L -> 0..total_qty'] :
            \A i, j \in 0..L : i < j => t[i] + RemAfter(Queue'[j]) <= t[j]
      BY <2>1, <2>2, <3>3
    <3>5. total_qty' \in Nat /\ level'.total_qty = total_qty' /\ Len(Queue') = L
      BY <2>1, <2>2 DEF LInv, TotalsInv
    <3> HIDE DEF L
    <3> QED BY <3>4, <3>5 DEF TotalsInv, Rem, RemAfter
  <2> QED BY <1>10, <2>3, <2>4, <2>5, <2>6 DEF LInv
<1> QED BY <1>11, <1>12

(* The theorems **********************************************************)

LEMMA NextInv == LInv /\ [Next]_vars => LInv'
<1>1. SUFFICES ASSUME LInv, [Next]_vars PROVE LInv' OBVIOUS
<1>2. CASE \E q \in Quantities : \E f \in 0..q :
             (q = 0 \/ f < q) /\ AddOrder([quantity |-> q, filled |-> f])
  BY <1>1, <1>2, AddOrderInv
<1>3. CASE \E n \in Linked : CancelOrder(n)
  BY <1>1, <1>3, CancelOrderInv
<1>4. CASE \E q \in Quantities : \E qty \in 0..q : FillHead(qty)
  <2>1. \A q \in Quantities : \A qty \in 0..q : qty \in Nat OBVIOUS
  <2> QED BY <1>1, <1>4, <2>1, FillHeadInv
<1>5. CASE UNCHANGED vars
  <2>1. UNCHANGED <<head, tail, next, prev, total_qty, orders, level>>
    BY <1>5 DEF vars, pointers
  <2> QED BY <1>1, <2>1
          DEF LInv, OrdersInv, PointersInv, QueueInv, ListInv, TotalsInv, Neighbour, Queue, Rem
<1> QED BY <1>1, <1>2, <1>3, <1>4, <1>5 DEF Next

LEMMA SpecInv == Spec => []LInv
BY InitInv, NextInv, PTL DEF Spec

\* The pointers of a level and of its nodes lead to nodes that were allocated,
\* and total_qty_ is never taken below zero: whatever a removal subtracts was
\* added for that node, and never subtracted before.
THEOREM PointersAndTotalsAreTyped == Spec => []TypeOK
<1>1. ASSUME LInv PROVE TypeOK
  <2>1. head \in PointerType /\ tail \in PointerType
    <3>1. \A i \in 1..Len(Queue) : Queue[i] \in Nat BY QueueFacts, <1>1
    <3>2. head = Neighbour(1) /\ tail = Neighbour(Len(Queue))
      BY <1>1 DEF LInv, ListInv
    <3>3. DOMAIN Queue = 1..Len(Queue) BY QueueFacts, <1>1
    <3> QED BY <3>1, <3>2, <3>3 DEF Neighbour, PointerType
  <2>2. total_qty \in Nat BY <1>1 DEF LInv, TotalsInv
  <2>3. /\ orders \in Seq([quantity : Quantities, filled : Nat])
        /\ DOMAIN orders = 1..Len(orders)
    BY <1>1, QueueFacts DEF LInv, OrdersInv
  <2>4. /\ Len(next) = Len(orders) /\ Len(prev) = Len(orders)
        /\ \A n \in 1..Len(orders) : {next[n], prev[n]} \subseteq (1..Len(orders)) \cup {Null}
    BY <1>1 DEF LInv, PointersInv
  <2> QED BY <2>1, <2>2, <2>3, <2>4 DEF TypeOK
<1> QED BY <1>1, SpecInv, PTL

\* Whichever nodes are taken out, the linked list of a level is its queue in
\* both directions, and its total is that of the queue: what every other
\* module relies on when it takes a level for a queue.
THEOREM ListRepresentsQueue == Spec => []RepresentsQueue
<1>1. ASSUME LInv PROVE RepresentsQueue
  <2>1. DOMAIN Queue = 1..Len(Queue) BY <1>1, QueueFacts
  <2>2. /\ head = Neighbour(1) /\ tail = Neighbour(Len(Queue))
        /\ \A i \in DOMAIN Queue : /\ next[Queue[i]] = Neighbour(i + 1)
                                   /\ prev[Queue[i]] = Neighbour(i - 1)
        /\ total_qty = level.total_qty
    BY <1>1, <2>1 DEF LInv, ListInv, TotalsInv
  <2> QED BY <2>2 DEF RepresentsQueue, Neighbour, Queue
<1> QED BY <1>1, SpecInv, PTL
==================================================================================
