-------------------------- MODULE MarketDataClientProofs --------------------------
(***************************************************************************)
(* Proofs about MarketDataClient, for any changes the server may send, any *)
(* length of the tape and any number of steps of the server.               *)
(***************************************************************************)
EXTENDS MarketDataClient, SequenceTheorems, FiniteSetTheorems, TLAPS

\* What RemoveAt returns is proved with the lemmas about the book.
Lemmas == INSTANCE BookOpsProofs WITH OrderIds <- {}, Prices <- {}, PriceBound <- 0

(* The invariant *********************************************************)

Row == [price : Int, quantity : Nat]
Trades == [type : {"trade"}, number : Nat]
Message == Changes \cup Trades

StateTyped ==
    /\ strict \in BOOLEAN /\ connected \in BOOLEAN
    /\ conn \in [Client -> ConnState]
    /\ orders_shown \in 0..MaxProcessed /\ fetches \subseteq 0..MaxProcessed
    /\ {updates, traded, trade_count} \subseteq Nat /\ processed \in 0..MaxProcessed
    /\ level \in [Levels -> Nat] /\ missed \subseteq Levels

\* Messages are under way on open connections only, and a page that was
\* mounted once has one.
InboxInv ==
    /\ inbox \in [Client -> Seq(Message)]
    /\ \A c \in Client : inbox[c] # << >> => conn[c] = "open"
    /\ \A c \in Client : \A i \in DOMAIN inbox[c] :
         inbox[c][i] \in Trades => inbox[c][i].number \in 1..traded
    /\ ~strict \/ conn[1] = "none" => conn[2] = "none"

BookInv ==
    /\ bids \in Seq(Row) /\ asks \in Seq(Row)
    /\ LevelsDrawable

\* How often a sequence has a member of T.
Occurrences(s, T) == Cardinality({i \in DOMAIN s : s[i] \in T})

Pages == IF strict THEN 2 ELSE 1

\* Each trade comes once to each client, and is then under way, on the tape or
\* gone from it.
TapeInv ==
    /\ tape \in Seq(Nat) /\ Len(tape) <= TapeLength
    /\ \A i \in DOMAIN tape : tape[i] \in 1..traded
    /\ \A n \in Nat :
         Occurrences(tape, {n}) + Occurrences(inbox[1], {TradeMessage(n)})
           + Occurrences(inbox[2], {TradeMessage(n)}) <= Pages
    /\ trade_count + Occurrences(inbox[1], Trades) + Occurrences(inbox[2], Trades)
         <= Pages * traded

\* With one client the trades come in their order.
TapeOrdered ==
    ~strict =>
      /\ \A i, j \in DOMAIN tape : i < j => tape[i] > tape[j]
      /\ \A i \in DOMAIN tape, j \in DOMAIN inbox[1] :
           inbox[1][j] \in Trades => tape[i] < inbox[1][j].number
      /\ \A i, j \in DOMAIN inbox[1] :
           i < j /\ inbox[1][i] \in Trades /\ inbox[1][j] \in Trades
             => inbox[1][i].number < inbox[1][j].number

\* The last of some messages about a level gives it the quantity q.
LastSays(messages, l, q) ==
    \E i \in DOMAIN messages :
      /\ messages[i] \in Changes /\ LevelOf(messages[i]) = l /\ messages[i].quantity = q
      /\ \A j \in DOMAIN messages :
           j > i /\ messages[j] \in Changes => LevelOf(messages[j]) # l

\* What the server has at a level is under way or shown, unless it was lost.
LevelsFollow ==
    ~strict => \A l \in Levels \ missed :
      \/ LastSays(inbox[1], l, level[l])
      \/ l \notin LevelsIn(inbox[1]) /\ Shown(l) = level[l]

ClientInv ==
    StateTyped /\ InboxInv /\ BookInv /\ TapeInv /\ TapeOrdered /\ LevelsFollow

(* The levels on the page ************************************************)

\* IndexOf finds the place of a price.
LEMMA IndexOfProperties ==
  ASSUME NEW s \in Seq(Row), NEW p \in Int
  PROVE  /\ IndexOf(s, p) \in 0..Len(s)
         /\ IndexOf(s, p) # 0 => s[IndexOf(s, p)].price = p
         /\ IndexOf(s, p) = 0 => \A i \in 1..Len(s) : s[i].price # p
<1> DEFINE I == {i \in 1..Len(s) : s[i].price = p}
<1>1. IndexOf(s, p) = IF I # {} THEN CHOOSE i \in I : \A j \in I : i <= j ELSE 0
  BY DEF IndexOf, SelectInSeq, Min
<1>2. CASE I = {} BY <1>1, <1>2, LenProperties
<1>3. CASE I # {}
  <2>1. I \subseteq Nat OBVIOUS
  <2>2. \E i \in I : \A j \in I : i <= j
    <3> HIDE DEF I
    <3> QED BY <1>3, <2>1, Lemmas!SmallestElement
  <2>3. IndexOf(s, p) \in I
    <3> HIDE DEF I
    <3> QED BY <1>1, <1>3, <2>2
  <2> QED BY <2>3
<1> QED BY <1>2, <1>3

HasRow(s, p, q) == \E i \in DOMAIN s : s[i].price = p /\ s[i].quantity = q

QuantityAt(s, p) == IF IndexOf(s, p) = 0 THEN 0 ELSE s[IndexOf(s, p)].quantity

LEMMA ShownIsQuantityAt ==
  ASSUME NEW l PROVE Shown(l) = QuantityAt(IF l[1] = "buy" THEN bids ELSE asks, l[2])
BY DEF Shown, QuantityAt

\* In a list that can be drawn a price has one row.
LEMMA QuantityOfRow ==
  ASSUME NEW s \in Seq(Row), NEW side, Drawable(s, side), NEW p \in Int, NEW q \in Nat
  PROVE  /\ HasRow(s, p, q) => QuantityAt(s, p) = q /\ q > 0
         /\ QuantityAt(s, p) = q /\ q > 0 => HasRow(s, p, q)
<1>0. DOMAIN s = 1..Len(s) /\ Len(s) \in Nat BY LenProperties
<1>1. \A i \in 1..Len(s) : s[i].price \in Int /\ s[i].quantity \in Nat
  <2> TAKE i \in 1..Len(s)
  <2>1. s[i] \in Row BY <1>0, ElementOfSeq
  <2> QED BY <2>1 DEF Row
<1>2. \A i, j \in 1..Len(s) : s[i].price = s[j].price => i = j
  <2> SUFFICES ASSUME NEW i \in 1..Len(s), NEW j \in 1..Len(s), s[i].price = s[j].price,
                      i < j
               PROVE  FALSE
    BY <1>0
  <2>1. Above(side, s[i].price, s[j].price) BY <1>0 DEF Drawable
  <2> QED BY <1>1, <2>1 DEF Above
<1>3. \A i \in 1..Len(s) : s[i].quantity > 0 BY <1>0 DEF Drawable
<1> DEFINE k == IndexOf(s, p)
<1>4. /\ k \in 0..Len(s)
      /\ k # 0 => s[k].price = p
      /\ k = 0 => \A i \in 1..Len(s) : s[i].price # p
  BY IndexOfProperties
<1>5. QuantityAt(s, p) = IF k = 0 THEN 0 ELSE s[k].quantity BY DEF QuantityAt
<1> HIDE DEF k
<1>6. ASSUME HasRow(s, p, q) PROVE QuantityAt(s, p) = q /\ q > 0
  <2>1. PICK i \in 1..Len(s) : s[i].price = p /\ s[i].quantity = q BY <1>0, <1>6 DEF HasRow
  <2>2. k # 0 /\ k \in 1..Len(s) BY <1>0, <1>4, <2>1
  <2>3. k = i BY <1>2, <1>4, <2>1, <2>2
  <2> QED BY <1>3, <1>5, <2>1, <2>2, <2>3
<1>7. ASSUME QuantityAt(s, p) = q, q > 0 PROVE HasRow(s, p, q)
  <2>1. k # 0 /\ s[k].quantity = q BY <1>5, <1>7
  <2>2. k \in DOMAIN s BY <1>0, <1>4, <2>1
  <2> QED BY <1>4, <2>1, <2>2 DEF HasRow
<1> QED BY <1>6, <1>7

\* Above orders the prices of a side.
LEMMA AboveIsStrictOrder ==
  ASSUME NEW side
  PROVE  /\ \A p \in Int : ~ Above(side, p, p)
         /\ \A p, q, r \in Int : Above(side, p, q) /\ Above(side, q, r) => Above(side, p, r)
         /\ \A p, q \in Int : p # q => Above(side, p, q) \/ Above(side, q, p)
         /\ \A p, q \in Int : Above(side, p, q) => ~ Above(side, q, p)
BY DEF Above

\* order brings s into the order of its side.
Orders(order, s, side) ==
    \A i, j \in DOMAIN s : i < j =>
       \/ Above(side, s[order[i]].price, s[order[j]].price)
       \/ s[order[i]].price = s[order[j]].price /\ order[i] < order[j]

\* What sort() does to rows whose prices differ, if their order exists.
LEMMA SortedProperties ==
  ASSUME NEW s \in Seq(Row), NEW side,
         \A i, j \in 1..Len(s) : s[i].price = s[j].price => i = j,
         \A i \in 1..Len(s) : s[i].quantity > 0,
         \E order \in [1..Len(s) -> 1..Len(s)] : Orders(order, s, side)
  PROVE  /\ Sorted(s, side) \in Seq(Row)
         /\ Drawable(Sorted(s, side), side)
         /\ \A p, q : HasRow(Sorted(s, side), p, q) <=> HasRow(s, p, q)
<1> DEFINE n == Len(s)
           O == CHOOSE order \in [DOMAIN s -> DOMAIN s] : Orders(order, s, side)
           t == [i \in DOMAIN s |-> s[O[i]]]
<1>0. DOMAIN s = 1..n /\ n \in Nat BY LenProperties
<1>1. Sorted(s, side) = t BY DEF Sorted, Orders
<1>2. O \in [1..n -> 1..n] /\ Orders(O, s, side)
  <2>1. \E order \in [DOMAIN s -> DOMAIN s] : Orders(order, s, side) BY <1>0
  <2>2. O \in [DOMAIN s -> DOMAIN s] /\ Orders(O, s, side) BY <2>1
  <2> HIDE DEF O, n
  <2> QED BY <1>0, <2>2
<1> HIDE DEF O
<1>3. \A i \in 1..n : s[i].price \in Int /\ s[i].quantity \in Nat /\ s[i] \in Row
  <2> TAKE i \in 1..n
  <2>1. s[i] \in Row BY <1>0, ElementOfSeq
  <2> QED BY <2>1 DEF Row
<1>4. DOMAIN t = 1..n /\ \A i \in 1..n : t[i] = s[O[i]] /\ O[i] \in 1..n
  BY <1>0, <1>2
<1>5. \A i, j \in 1..n : i < j => Above(side, s[O[i]].price, s[O[j]].price)
  <2> SUFFICES ASSUME NEW i \in 1..n, NEW j \in 1..n, i < j
               PROVE  Above(side, s[O[i]].price, s[O[j]].price)
    OBVIOUS
  <2>1. \/ Above(side, s[O[i]].price, s[O[j]].price)
        \/ s[O[i]].price = s[O[j]].price /\ O[i] < O[j]
    BY <1>0, <1>2 DEF Orders
  <2>2. O[i] \in 1..n /\ O[j] \in 1..n BY <1>4
  <2>3. s[O[i]].price = s[O[j]].price => O[i] = O[j] BY <2>2
  <2> QED BY <2>1, <2>2, <2>3
<1>6. \A k \in 1..n : \E i \in 1..n : O[i] = k
  <2>1. \A i, j \in 1..n : O[i] = O[j] => i = j
    <3> SUFFICES ASSUME NEW i \in 1..n, NEW j \in 1..n, O[i] = O[j], i < j PROVE FALSE
      BY <1>0
    <3>1. Above(side, s[O[i]].price, s[O[i]].price) BY <1>5
    <3>2. s[O[i]].price \in Int BY <1>3, <1>4
    <3> QED BY <3>1, <3>2, AboveIsStrictOrder
  <2>2. O \in Injection(1..n, 1..n) BY <1>2, <2>1 DEF Injection, IsInjective
  <2>3. IsFiniteSet(1..n) BY <1>0, FS_Interval
  <2>4. O \in Surjection(1..n, 1..n) BY <2>2, <2>3, FS_Injection
  <2> QED BY <2>4 DEF Surjection
<1> HIDE DEF t
<1>7. t \in Seq(Row) /\ Len(t) = n
  <2>1. t \in [1..n -> Row] BY <1>3, <1>4 DEF t, n
  <2> QED BY <1>0, <2>1, SeqDef, LenProperties
<1>8. Drawable(t, side)
  <2>1. \A i \in 1..n : t[i].quantity > 0 BY <1>4
  <2>2. \A i, j \in 1..n : i < j => Above(side, t[i].price, t[j].price) BY <1>4, <1>5
  <2> QED BY <1>4, <2>1, <2>2 DEF Drawable
<1>9. ASSUME NEW p, NEW q PROVE HasRow(t, p, q) <=> HasRow(s, p, q)
  <2>1. ASSUME HasRow(t, p, q) PROVE HasRow(s, p, q)
    <3>1. PICK i \in 1..n : t[i].price = p /\ t[i].quantity = q BY <1>4, <2>1 DEF HasRow
    <3> QED BY <1>0, <1>4, <3>1 DEF HasRow
  <2>2. ASSUME HasRow(s, p, q) PROVE HasRow(t, p, q)
    <3>1. PICK k \in 1..n : s[k].price = p /\ s[k].quantity = q BY <1>0, <2>2 DEF HasRow
    <3>2. PICK i \in 1..n : O[i] = k BY <1>6
    <3> QED BY <1>4, <3>1, <3>2 DEF HasRow
  <2> QED BY <2>1, <2>2
<1> QED BY <1>1, <1>7, <1>8, <1>9

\* Behind a list that is in order, a row at a new price has its place.
LEMMA NewRowHasItsPlace ==
  ASSUME NEW s \in Seq(Row), NEW side, Drawable(s, side), NEW r \in Row,
         \A i \in 1..Len(s) : s[i].price # r.price
  PROVE  \E order \in [1..Len(Append(s, r)) -> 1..Len(Append(s, r))] :
            Orders(order, Append(s, r), side)
<1> DEFINE n == Len(s) + 1
           a == Append(s, r)
           Behind == {i \in 1..n : i = n \/ Above(side, r.price, s[i].price)}
<1>0. DOMAIN s = 1..Len(s) /\ Len(s) \in Nat /\ n \in Nat /\ n >= 1 BY LenProperties
<1>1. DOMAIN a = 1..n /\ Len(a) = n /\ a[n] = r /\ \A i \in 1..Len(s) : a[i] = s[i]
  BY AppendProperties
<1>2. r.price \in Int /\ \A i \in 1..Len(s) : s[i].price \in Int
  <2>1. \A i \in 1..Len(s) : s[i] \in Row BY <1>0, ElementOfSeq
  <2> QED BY <2>1 DEF Row
<1>3. \A i, j \in 1..Len(s) : i < j => Above(side, s[i].price, s[j].price)
  BY <1>0 DEF Drawable
<1>4. PICK k \in Behind : \A j \in Behind : k <= j
  <2>1. Behind \subseteq Nat /\ Behind # {} BY <1>0
  <2> HIDE DEF Behind
  <2> QED BY <2>1, Lemmas!SmallestElement
<1> DEFINE order == [i \in 1..n |-> IF i < k THEN i ELSE IF i = k THEN n ELSE i - 1]
<1>5. k \in 1..n BY <1>4
<1>6. order \in [1..n -> 1..n]
  <2>1. \A i \in 1..n : (IF i < k THEN i ELSE IF i = k THEN n ELSE i - 1) \in 1..n
    BY <1>0, <1>5
  <2> QED BY <2>1
<1>7. \A i \in 1..n : /\ i < k => i \in 1..Len(s) /\ order[i] = i /\ a[order[i]] = s[i]
                      /\ i = k => order[i] = n /\ a[order[i]] = r
                      /\ i > k => /\ i - 1 \in 1..Len(s) /\ order[i] = i - 1
                                  /\ a[order[i]] = s[i - 1]
  BY <1>0, <1>1, <1>5
<1>8. \A i \in 1..Len(s) : /\ i < k => Above(side, s[i].price, r.price)
                           /\ i >= k => Above(side, r.price, s[i].price)
  <2> TAKE i \in 1..Len(s)
  <2>1. CASE i < k
    <3>1. i \notin Behind /\ i \in 1..n BY <1>0, <1>4, <2>1
    <3>2. ~ Above(side, r.price, s[i].price) BY <3>1
    <3>3. s[i].price \in Int /\ r.price \in Int /\ s[i].price # r.price BY <1>2
    <3>4. Above(side, s[i].price, r.price) BY <3>2, <3>3, AboveIsStrictOrder
    <3> QED BY <1>0, <1>5, <2>1, <3>4
  <2>2. CASE i >= k
    <3>1. k \in 1..Len(s) /\ Above(side, r.price, s[k].price) BY <1>0, <1>4, <2>2
    <3>2. i = k \/ Above(side, s[k].price, s[i].price) BY <1>3, <1>5, <2>2, <3>1
    <3>3. s[i].price \in Int /\ s[k].price \in Int /\ r.price \in Int BY <1>2, <3>1
    <3>4. Above(side, r.price, s[i].price) BY <3>1, <3>2, <3>3, AboveIsStrictOrder
    <3> QED BY <2>2, <3>4
  <2> QED BY <1>0, <1>5, <2>1, <2>2
<1> HIDE DEF order, a
<1>9. \A i, j \in 1..n : i < j => Above(side, a[order[i]].price, a[order[j]].price)
  <2> SUFFICES ASSUME NEW i \in 1..n, NEW j \in 1..n, i < j
               PROVE  Above(side, a[order[i]].price, a[order[j]].price)
    OBVIOUS
  <2>1. CASE j < k BY <1>3, <1>5, <1>7, <2>1
  <2>2. CASE j = k BY <1>5, <1>7, <1>8, <2>2
  <2>3. CASE j > k /\ i < k BY <1>3, <1>5, <1>7, <2>3
  <2>4. CASE j > k /\ i = k BY <1>5, <1>7, <1>8, <2>4
  <2>5. CASE j > k /\ i > k BY <1>3, <1>5, <1>7, <2>5
  <2> QED BY <1>5, <2>1, <2>2, <2>3, <2>4, <2>5
<1>10. Orders(order, a, side) BY <1>1, <1>9 DEF Orders
<1> QED BY <1>1, <1>6, <1>10 DEF a

LEMMA RowsAreTyped ==
  ASSUME NEW s \in Seq(Row)
  PROVE  /\ DOMAIN s = 1..Len(s) /\ Len(s) \in Nat
         /\ \A i \in 1..Len(s) : s[i] \in Row /\ s[i].price \in Int /\ s[i].quantity \in Nat
<1>1. DOMAIN s = 1..Len(s) /\ Len(s) \in Nat BY LenProperties
<1>2. \A i \in 1..Len(s) : s[i] \in Row BY <1>1, ElementOfSeq
<1> QED BY <1>1, <1>2 DEF Row

LEMMA DrawablePricesDiffer ==
  ASSUME NEW s \in Seq(Row), NEW side, Drawable(s, side)
  PROVE  \A i, j \in 1..Len(s) : s[i].price = s[j].price => i = j
<1> SUFFICES ASSUME NEW i \in 1..Len(s), NEW j \in 1..Len(s), s[i].price = s[j].price, i < j
             PROVE  FALSE
  BY RowsAreTyped
<1>1. Above(side, s[i].price, s[j].price) BY RowsAreTyped DEF Drawable
<1> QED BY <1>1, RowsAreTyped, AboveIsStrictOrder

\* The rows of t are those of s, but for the one that the change m is about.
Changed(s, t, m) ==
    \A p \in Int, q \in Nat :
      HasRow(t, p, q) <=> IF p = m.price THEN q = m.quantity /\ q > 0 ELSE HasRow(s, p, q)

ChangeType ==
    [type : {"book_update"}, side : {"buy", "sell"}, price : Int, quantity : Nat]

\* splice: the row is taken out.
LEMMA RowRemoved ==
  ASSUME NEW s \in Seq(Row), NEW m \in ChangeType, Drawable(s, m.side),
         NEW k \in 1..Len(s), s[k].price = m.price, m.quantity = 0
  PROVE  /\ RemoveAt(s, k) \in Seq(Row) /\ Drawable(RemoveAt(s, k), m.side)
         /\ Changed(s, RemoveAt(s, k), m)
<1> DEFINE t == RemoveAt(s, k)
<1>1. /\ t \in Seq(Row) /\ Len(t) = Len(s) - 1
      /\ \A j \in 1..(Len(s) - 1) : t[j] = IF j < k THEN s[j] ELSE s[j + 1]
  BY Lemmas!RemoveAtProperties DEF RemoveAt, Lemmas!RemoveAt
<1> HIDE DEF t
<1>2. /\ DOMAIN s = 1..Len(s) /\ Len(s) \in Nat /\ DOMAIN t = 1..(Len(s) - 1)
      /\ \A i \in 1..Len(s) : s[i].price \in Int /\ s[i].quantity \in Nat
  BY <1>1, RowsAreTyped
<1>3. /\ \A i \in 1..Len(s) : s[i].quantity > 0
      /\ \A i, j \in 1..Len(s) : i < j => Above(m.side, s[i].price, s[j].price)
  BY <1>2 DEF Drawable
<1>4. Drawable(t, m.side)
  <2>1. \A i \in 1..(Len(s) - 1) : t[i].quantity > 0
    <3> TAKE i \in 1..(Len(s) - 1)
    <3>1. i \in 1..Len(s) /\ i + 1 \in 1..Len(s) BY <1>2
    <3>2. t[i] = s[i] \/ t[i] = s[i + 1] BY <1>1
    <3> QED BY <1>3, <3>1, <3>2
  <2>2. \A i, j \in 1..(Len(s) - 1) : i < j => Above(m.side, t[i].price, t[j].price)
    <3> SUFFICES ASSUME NEW i \in 1..(Len(s) - 1), NEW j \in 1..(Len(s) - 1), i < j
                 PROVE  Above(m.side, t[i].price, t[j].price)
      OBVIOUS
    <3>1. CASE j < k
      <4>1. i < k /\ i \in 1..Len(s) /\ j \in 1..Len(s) BY <1>2, <3>1
      <4>2. t[i] = s[i] /\ t[j] = s[j] BY <1>1, <3>1, <4>1
      <4> QED BY <1>3, <4>1, <4>2
    <3>2. CASE i < k /\ j >= k
      <4>1. j + 1 \in 1..Len(s) /\ i \in 1..Len(s) /\ i < j + 1 BY <1>2
      <4>2. t[i] = s[i] /\ t[j] = s[j + 1] BY <1>1, <1>2, <3>2
      <4> QED BY <1>3, <4>1, <4>2
    <3>3. CASE i >= k
      <4>1. j + 1 \in 1..Len(s) /\ i + 1 \in 1..Len(s) /\ i + 1 < j + 1 /\ ~ (j < k)
        BY <1>2, <3>3
      <4>2. t[i] = s[i + 1] /\ t[j] = s[j + 1] BY <1>1, <1>2, <3>3, <4>1
      <4> QED BY <1>3, <4>1, <4>2
    <3> QED BY <1>2, <3>1, <3>2, <3>3
  <2> QED BY <1>2, <2>1, <2>2 DEF Drawable
<1>5. \A i, j \in 1..Len(s) : s[i].price = s[j].price => i = j BY DrawablePricesDiffer
<1>6. ASSUME NEW p \in Int, NEW q \in Nat
      PROVE  HasRow(t, p, q) <=> IF p = m.price THEN q = m.quantity /\ q > 0 ELSE HasRow(s, p, q)
  <2>1. ASSUME HasRow(t, p, q) PROVE p # m.price /\ HasRow(s, p, q)
    <3>1. PICK j \in 1..(Len(s) - 1) : t[j].price = p /\ t[j].quantity = q
      BY <1>2, <2>1 DEF HasRow
    <3>2. PICK i \in 1..Len(s) : i # k /\ s[i] = t[j]
      <4>1. CASE j < k BY <1>1, <1>2, <4>1
      <4>2. CASE j >= k
        <5>1. j + 1 \in 1..Len(s) /\ j + 1 # k BY <1>2, <4>2
        <5> QED BY <1>1, <1>2, <4>2, <5>1
      <4> QED BY <1>2, <4>1, <4>2
    <3> QED BY <1>2, <1>5, <3>1, <3>2 DEF HasRow
  <2>2. ASSUME p # m.price, HasRow(s, p, q) PROVE HasRow(t, p, q)
    <3>1. PICK i \in 1..Len(s) : s[i].price = p /\ s[i].quantity = q
      BY <1>2, <2>2 DEF HasRow
    <3>2. i # k BY <2>2, <3>1
    <3>3. CASE i < k
      <4>1. i \in 1..(Len(s) - 1) BY <1>2, <3>3
      <4>2. t[i] = s[i] BY <1>1, <3>3, <4>1
      <4> QED BY <1>2, <3>1, <4>1, <4>2 DEF HasRow
    <3>4. CASE i > k
      <4>1. i - 1 \in 1..(Len(s) - 1) /\ ~ (i - 1 < k) /\ (i - 1) + 1 = i BY <1>2, <3>4
      <4>2. t[i - 1] = s[i] BY <1>1, <4>1
      <4> QED BY <1>2, <3>1, <4>1, <4>2 DEF HasRow
    <3> QED BY <1>2, <3>2, <3>3, <3>4
  <2> QED BY <2>1, <2>2
<1> QED BY <1>1, <1>4, <1>6 DEF t, Changed

\* The row gets another quantity.
LEMMA RowChanged ==
  ASSUME NEW s \in Seq(Row), NEW m \in ChangeType, Drawable(s, m.side),
         NEW k \in 1..Len(s), s[k].price = m.price, m.quantity > 0
  PROVE  LET t == [s EXCEPT ![k].quantity = m.quantity]
         IN  t \in Seq(Row) /\ Drawable(t, m.side) /\ Changed(s, t, m)
<1> DEFINE t == [s EXCEPT ![k].quantity = m.quantity]
<1>1. /\ DOMAIN s = 1..Len(s) /\ Len(s) \in Nat
      /\ \A i \in 1..Len(s) : s[i] \in Row /\ s[i].price \in Int /\ s[i].quantity \in Nat
  BY RowsAreTyped
<1>2. m.quantity \in Nat /\ m.price \in Int BY DEF ChangeType
<1>3. DOMAIN t = 1..Len(s) BY <1>1
<1>4. ASSUME NEW i \in 1..Len(s)
      PROVE  /\ t[i] \in Row /\ t[i].price = s[i].price
             /\ t[i].quantity = IF i = k THEN m.quantity ELSE s[i].quantity
  BY <1>1, <1>2 DEF Row
<1> HIDE DEF t
<1>5. t \in Seq(Row) /\ Len(t) = Len(s)
  <2>1. \A i \in 1..Len(s) : t[i] \in Row BY <1>4
  <2>2. t = [i \in 1..Len(s) |-> t[i]] BY <1>1, <1>3 DEF t
  <2>3. t \in [1..Len(s) -> Row] BY <2>1, <2>2
  <2> QED BY <1>1, <2>3, SeqDef, LenProperties
<1>6. Drawable(t, m.side)
  <2>1. \A i \in 1..Len(s) : t[i].quantity > 0 BY <1>1, <1>4 DEF Drawable
  <2>2. \A i, j \in 1..Len(s) : i < j => Above(m.side, t[i].price, t[j].price)
    BY <1>1, <1>4 DEF Drawable
  <2> QED BY <1>3, <2>1, <2>2 DEF Drawable
<1>7. \A i, j \in 1..Len(s) : s[i].price = s[j].price => i = j BY DrawablePricesDiffer
<1>8. ASSUME NEW p \in Int, NEW q \in Nat
      PROVE  HasRow(t, p, q) <=> IF p = m.price THEN q = m.quantity /\ q > 0 ELSE HasRow(s, p, q)
  <2>1. CASE p = m.price
    <3>1. \A i \in 1..Len(s) : t[i].price = p => i = k BY <1>4, <1>7, <2>1
    <3>2. t[k].price = p /\ t[k].quantity = m.quantity BY <1>4, <2>1
    <3> QED BY <1>3, <2>1, <3>1, <3>2 DEF HasRow
  <2>2. CASE p # m.price
    <3>1. \A i \in 1..Len(s) : s[i].price = p => t[i].quantity = s[i].quantity
      BY <1>4, <2>2
    <3> QED BY <1>1, <1>3, <1>4, <2>2, <3>1 DEF HasRow
  <2> QED BY <2>1, <2>2
<1> QED BY <1>5, <1>6, <1>8 DEF t, Changed

\* push() and sort(): a new row comes to its place.
LEMMA RowAdded ==
  ASSUME NEW s \in Seq(Row), NEW m \in ChangeType, Drawable(s, m.side),
         \A i \in 1..Len(s) : s[i].price # m.price, m.quantity > 0
  PROVE  LET t == Sorted(Added(s, m), m.side)
         IN  t \in Seq(Row) /\ Drawable(t, m.side) /\ Changed(s, t, m)
<1> DEFINE r == [price |-> m.price, quantity |-> m.quantity]
           a == Append(s, r)
<1>1. Added(s, m) = a BY DEF Added
<1>2. r \in Row /\ m.quantity \in Nat /\ m.price \in Int BY DEF Row, ChangeType
<1>3. /\ DOMAIN s = 1..Len(s) /\ Len(s) \in Nat
      /\ \A i \in 1..Len(s) : s[i] \in Row /\ s[i].price \in Int /\ s[i].quantity \in Nat
  BY RowsAreTyped
<1>4. /\ a \in Seq(Row) /\ Len(a) = Len(s) + 1 /\ a[Len(s) + 1] = r
      /\ \A i \in 1..Len(s) : a[i] = s[i]
  BY <1>2, AppendProperties
<1>5. \A i, j \in 1..Len(a) : a[i].price = a[j].price => i = j
  <2>1. \A i, j \in 1..Len(s) : s[i].price = s[j].price => i = j BY DrawablePricesDiffer
  <2>2. \A i \in 1..Len(a) : i \in 1..Len(s) \/ i = Len(s) + 1 BY <1>3, <1>4
  <2>3. r.price = m.price OBVIOUS
  <2> HIDE DEF a, r
  <2> QED BY <1>4, <2>1, <2>2, <2>3
<1>6. \A i \in 1..Len(a) : a[i].quantity > 0
  <2>1. \A i \in 1..Len(s) : s[i].quantity > 0 BY <1>3 DEF Drawable
  <2>2. \A i \in 1..Len(a) : i \in 1..Len(s) \/ i = Len(s) + 1 BY <1>3, <1>4
  <2>3. r.quantity > 0 OBVIOUS
  <2> HIDE DEF a, r
  <2> QED BY <1>4, <2>1, <2>2, <2>3
<1>7. \E order \in [1..Len(a) -> 1..Len(a)] : Orders(order, a, m.side)
  BY <1>2, NewRowHasItsPlace
<1> DEFINE t == Sorted(a, m.side)
<1>8. /\ t \in Seq(Row) /\ Drawable(t, m.side)
      /\ \A p, q : HasRow(t, p, q) <=> HasRow(a, p, q)
  <2> HIDE DEF a
  <2> QED BY <1>4, <1>5, <1>6, <1>7, SortedProperties
<1> HIDE DEF t
<1>9. ASSUME NEW p \in Int, NEW q \in Nat
      PROVE  HasRow(a, p, q) <=> IF p = m.price THEN q = m.quantity /\ q > 0 ELSE HasRow(s, p, q)
  <2>1. DOMAIN a = 1..(Len(s) + 1) BY <1>4, LenProperties
  <2>2. r.price = m.price /\ r.quantity = m.quantity OBVIOUS
  <2> HIDE DEF a, r
  <2>3. HasRow(a, p, q) <=> HasRow(s, p, q) \/ (r.price = p /\ r.quantity = q)
    <3>1. \A i : i \in 1..(Len(s) + 1) <=> i \in 1..Len(s) \/ i = Len(s) + 1 BY <1>3
    <3> QED BY <1>3, <1>4, <2>1, <3>1, Zenon DEF HasRow
  <2>4. p = m.price => ~ HasRow(s, p, q) BY <1>3 DEF HasRow
  <2> QED BY <2>2, <2>3, <2>4
<1>10. Changed(s, t, m) BY <1>8, <1>9 DEF Changed
<1> QED BY <1>1, <1>8, <1>10 DEF t

\* What a change does to the side it is about, whatever is shown there.
LEMMA AppliedProperties ==
  ASSUME NEW s \in Seq(Row), NEW m \in ChangeType, Drawable(s, m.side)
  PROVE  /\ Applied(s, m) \in Seq(Row)
         /\ Drawable(Applied(s, m), m.side)
         /\ \A p \in Int : QuantityAt(Applied(s, m), p)
                             = IF p = m.price THEN m.quantity ELSE QuantityAt(s, p)
<1> DEFINE k == IndexOf(s, m.price)
           t == Applied(s, m)
<1>1. m.price \in Int /\ m.quantity \in Nat BY DEF ChangeType
<1>2. /\ k \in 0..Len(s) /\ Len(s) \in Nat
      /\ k # 0 => s[k].price = m.price
      /\ k = 0 => \A i \in 1..Len(s) : s[i].price # m.price
  BY <1>1, IndexOfProperties, LenProperties
<1>3. t \in Seq(Row) /\ Drawable(t, m.side) /\ Changed(s, t, m)
  <2>1. CASE k # 0 /\ m.quantity = 0
    <3>1. t = RemoveAt(s, k) BY <2>1 DEF Applied
    <3> HIDE DEF t, k
    <3>2. k \in 1..Len(s) BY <1>2, <2>1
    <3> QED BY <1>2, <2>1, <3>1, <3>2, RowRemoved
  <2>2. CASE k # 0 /\ m.quantity > 0
    <3>1. t = [s EXCEPT ![k].quantity = m.quantity] BY <1>1, <2>2 DEF Applied
    <3> HIDE DEF t, k
    <3>2. k \in 1..Len(s) BY <1>2, <2>2
    <3> QED BY <1>2, <2>2, <3>1, <3>2, RowChanged
  <2>3. CASE k = 0 /\ m.quantity = 0
    <3>1. t = s BY <2>3 DEF Applied
    <3>2. \A q : ~ HasRow(s, m.price, q) BY <1>2, <2>3, RowsAreTyped DEF HasRow
    <3> HIDE DEF t, k
    <3>3. Changed(s, s, m) BY <2>3, <3>2 DEF Changed
    <3> QED BY <3>1, <3>3
  <2>4. CASE k = 0 /\ m.quantity > 0
    <3>1. t = Sorted(Added(s, m), m.side) BY <1>1, <2>4 DEF Applied
    <3> HIDE DEF t, k
    <3> QED BY <1>2, <2>4, <3>1, RowAdded
  <2> QED BY <1>1, <2>1, <2>2, <2>3, <2>4
<1> HIDE DEF t, k
<1>4. ASSUME NEW p \in Int
      PROVE  QuantityAt(t, p) = IF p = m.price THEN m.quantity ELSE QuantityAt(s, p)
  <2> DEFINE x == QuantityAt(t, p)
             y == QuantityAt(s, p)
  <2>1. x \in Nat /\ y \in Nat
    <3>1. IndexOf(t, p) \in 0..Len(t) /\ IndexOf(s, p) \in 0..Len(s)
      BY <1>3, IndexOfProperties
    <3> QED BY <1>3, <3>1, RowsAreTyped DEF QuantityAt
  <2>2. \A q \in Nat : /\ HasRow(t, p, q) <=> x = q /\ q > 0
                       /\ HasRow(s, p, q) <=> y = q /\ q > 0
    BY <1>3, QuantityOfRow
  <2>3. \A q \in Nat : HasRow(t, p, q) <=> IF p = m.price THEN q = m.quantity /\ q > 0
                                                          ELSE HasRow(s, p, q)
    BY <1>3 DEF Changed
  <2> HIDE DEF x, y
  <2>4. CASE p = m.price
    <3>1. \A q \in Nat : x = q /\ q > 0 <=> q = m.quantity /\ q > 0 BY <2>2, <2>3, <2>4
    <3>2. x = m.quantity BY <1>1, <2>1, <3>1
    <3> QED BY <2>4, <3>2 DEF x
  <2>5. CASE p # m.price
    <3>1. \A q \in Nat : x = q /\ q > 0 <=> y = q /\ q > 0 BY <2>2, <2>3, <2>5
    <3>2. x = y BY <2>1, <3>1
    <3> QED BY <2>5, <3>2 DEF x, y
  <2> QED BY <2>4, <2>5
<1> QED BY <1>3, <1>4 DEF t

(* Occurrences in a sequence *********************************************)

LEMMA OccurrencesType ==
  ASSUME NEW S, NEW s \in Seq(S), NEW T
  PROVE  /\ IsFiniteSet({i \in DOMAIN s : s[i] \in T})
         /\ Occurrences(s, T) \in Nat
<1>1. DOMAIN s = 1..Len(s) /\ Len(s) \in Nat BY LenProperties
<1>2. IsFiniteSet(1..Len(s)) BY <1>1, FS_Interval
<1>3. {i \in DOMAIN s : s[i] \in T} \subseteq 1..Len(s) BY <1>1
<1>4. IsFiniteSet({i \in DOMAIN s : s[i] \in T}) BY <1>2, <1>3, FS_Subset
<1> QED BY <1>4, FS_CardinalityType DEF Occurrences

LEMMA NoOccurrence ==
  ASSUME NEW s, NEW T, \A i \in DOMAIN s : s[i] \notin T
  PROVE  Occurrences(s, T) = 0
<1>1. {i \in DOMAIN s : s[i] \in T} = {} OBVIOUS
<1> QED BY <1>1, FS_EmptySet DEF Occurrences

\* As many numbers are in a finite set as in the set of their successors.
LEMMA ShiftedCardinality ==
  ASSUME NEW A, A \subseteq Nat, IsFiniteSet(A)
  PROVE  IsFiniteSet({i + 1 : i \in A}) /\ Cardinality({i + 1 : i \in A}) = Cardinality(A)
<1> DEFINE B == {i + 1 : i \in A}
           f == [i \in A |-> i + 1]
<1>1. f \in [A -> B] OBVIOUS
<1>2. \A i, j \in A : f[i] = f[j] => i = j OBVIOUS
<1>3. \A k \in B : \E i \in A : f[i] = k OBVIOUS
<1> HIDE DEF f, B
<1>4. f \in Bijection(A, B)
  BY <1>1, <1>2, <1>3 DEF Bijection, Injection, IsInjective, Surjection
<1>5. ExistsBijection(A, B) BY <1>4 DEF ExistsBijection
<1> QED BY <1>5, FS_Bijection DEF B

\* Another element at the end.
LEMMA OccurrencesAppend ==
  ASSUME NEW S, NEW s \in Seq(S), NEW x \in S, NEW T
  PROVE  Occurrences(Append(s, x), T) = Occurrences(s, T) + (IF x \in T THEN 1 ELSE 0)
<1> DEFINE n == Len(s)
           a == Append(s, x)
           A == {i \in DOMAIN s : s[i] \in T}
           B == {i \in DOMAIN a : a[i] \in T}
<1>1. /\ DOMAIN s = 1..n /\ n \in Nat /\ DOMAIN a = 1..(n + 1)
      /\ a[n + 1] = x /\ \A i \in 1..n : a[i] = s[i]
  BY AppendProperties, LenProperties
<1>2. IsFiniteSet(A) /\ Cardinality(A) \in Nat BY OccurrencesType, FS_CardinalityType
<1> HIDE DEF a
<1>3. B = IF x \in T THEN A \cup {n + 1} ELSE A
  <2>1. \A i : i \in 1..(n + 1) <=> i \in 1..n \/ i = n + 1 BY <1>1
  <2>2. \A i : i \in B <=> (i \in 1..n /\ s[i] \in T) \/ (i = n + 1 /\ x \in T)
    <3> HIDE DEF n
    <3> QED BY <1>1, <2>1, Zenon
  <2>3. \A i : i \in A <=> i \in 1..n /\ s[i] \in T BY <1>1
  <2> HIDE DEF A, B
  <2> QED BY <2>2, <2>3
<1>4. n + 1 \notin A BY <1>1
<1> HIDE DEF A, B, n
<1>5. Cardinality(B) = Cardinality(A) + (IF x \in T THEN 1 ELSE 0)
  <2>1. CASE x \in T BY <1>2, <1>3, <1>4, <2>1, FS_AddElement
  <2>2. CASE x \notin T BY <1>2, <1>3, <2>2
  <2> QED BY <2>1, <2>2
<1> QED BY <1>5 DEF Occurrences, a, A, B

\* The places of T in t are 1, if x is in T, and those in s, one further.
LEMMA OccurrencesShifted ==
  ASSUME NEW S, NEW s \in Seq(S), NEW x, NEW T
  PROVE  LET B == {i + 1 : i \in {j \in DOMAIN s : s[j] \in T}} \cup (IF x \in T THEN {1} ELSE {})
         IN  /\ IsFiniteSet(B)
             /\ Cardinality(B) = Occurrences(s, T) + (IF x \in T THEN 1 ELSE 0)
<1> DEFINE A == {j \in DOMAIN s : s[j] \in T}
           C == {i + 1 : i \in A}
<1>1. IsFiniteSet(A) /\ A \subseteq Nat /\ 0 \notin A
  <2>1. IsFiniteSet(A) BY OccurrencesType
  <2>2. DOMAIN s = 1..Len(s) /\ Len(s) \in Nat BY LenProperties
  <2>3. \A i \in DOMAIN s : i \in Nat /\ i # 0 BY <2>2
  <2> QED BY <2>1, <2>3
<1>2. 1 \notin C BY <1>1
<1>3. Cardinality(A) = Occurrences(s, T) BY DEF Occurrences
<1> HIDE DEF A
<1>4. IsFiniteSet(C) /\ Cardinality(C) = Cardinality(A) BY <1>1, ShiftedCardinality
<1> HIDE DEF C
<1>5. IsFiniteSet(C \cup {1}) /\ Cardinality(C \cup {1}) = Cardinality(C) + 1
  BY <1>2, <1>4, FS_AddElement
<1>6. CASE x \in T BY <1>3, <1>4, <1>5, <1>6 DEF C, A
<1>7. CASE x \notin T
  <2>1. Cardinality(C) \in Nat BY <1>4, FS_CardinalityType
  <2>2. C \cup (IF x \in T THEN {1} ELSE {}) = C BY <1>7
  <2> QED BY <1>3, <1>4, <1>7, <2>1, <2>2 DEF C, A
<1> QED BY <1>6, <1>7

\* Without its head.
LEMMA OccurrencesTail ==
  ASSUME NEW S, NEW s \in Seq(S), s # << >>, NEW T
  PROVE  Occurrences(s, T) = Occurrences(Tail(s), T) + (IF Head(s) \in T THEN 1 ELSE 0)
<1> DEFINE t == Tail(s)
           B == {i + 1 : i \in {j \in DOMAIN t : t[j] \in T}}
                  \cup (IF Head(s) \in T THEN {1} ELSE {})
<1>1. /\ t \in Seq(S) /\ Len(t) = Len(s) - 1 /\ Len(s) \in Nat \ {0} /\ Head(s) = s[1]
      /\ \A i \in 1..Len(t) : t[i] = s[i + 1]
      /\ DOMAIN s = 1..Len(s) /\ DOMAIN t = 1..(Len(s) - 1)
  BY HeadTailProperties, EmptySeq, LenProperties
<1> HIDE DEF t
<1>2. {i \in DOMAIN s : s[i] \in T} = B
  <2>1. ASSUME NEW i \in DOMAIN s, s[i] \in T PROVE i \in B
    <3>1. CASE i = 1 BY <1>1, <2>1, <3>1
    <3>2. CASE i # 1
      <4>1. i - 1 \in 1..Len(t) /\ (i - 1) + 1 = i BY <1>1, <3>2
      <4>2. t[i - 1] = s[i] BY <1>1, <4>1
      <4> QED BY <1>1, <2>1, <4>1, <4>2
    <3> QED BY <3>1, <3>2
  <2>2. ASSUME NEW i \in B PROVE i \in DOMAIN s /\ s[i] \in T
    <3>1. CASE i = 1 /\ Head(s) \in T BY <1>1, <3>1
    <3>2. CASE \E j \in DOMAIN t : t[j] \in T /\ i = j + 1
      <4>1. PICK j \in 1..(Len(s) - 1) : t[j] \in T /\ i = j + 1 BY <1>1, <3>2
      <4>2. j + 1 \in 1..Len(s) BY <1>1
      <4> QED BY <1>1, <4>1, <4>2
    <3> QED BY <2>2, <3>1, <3>2
  <2> QED BY <2>1, <2>2
<1>3. Cardinality(B) = Occurrences(t, T) + (IF Head(s) \in T THEN 1 ELSE 0)
  BY <1>1, OccurrencesShifted
<1> QED BY <1>2, <1>3 DEF Occurrences, t

\* Another element at the head, and a cut at the end.
LEMMA OccurrencesCut ==
  ASSUME NEW S, NEW s \in Seq(S), NEW x \in S, NEW T, NEW k \in 0..(Len(s) + 1)
  PROVE  LET t == SubSeq(<<x>> \o s, 1, k)
         IN  /\ t \in Seq(S) /\ Len(t) = k
             /\ \A i \in 1..k : t[i] = IF i = 1 THEN x ELSE s[i - 1]
             /\ Occurrences(t, T) <= Occurrences(s, T) + (IF x \in T THEN 1 ELSE 0)
<1> DEFINE u == <<x>> \o s
           t == SubSeq(u, 1, k)
           B == {i + 1 : i \in {j \in DOMAIN s : s[j] \in T}} \cup (IF x \in T THEN {1} ELSE {})
<1>0. DOMAIN s = 1..Len(s) /\ Len(s) \in Nat BY LenProperties
<1>1. /\ u \in Seq(S) /\ Len(u) = Len(s) + 1
      /\ \A i \in 1..(Len(s) + 1) : u[i] = IF i = 1 THEN x ELSE s[i - 1]
  <2>1. <<x>> \in Seq(S) /\ Len(<<x>>) = 1 /\ <<x>>[1] = x OBVIOUS
  <2> DEFINE y == <<x>>
  <2> HIDE DEF y
  <2>2. y \in Seq(S) /\ Len(y) = 1 /\ y[1] = x BY <2>1 DEF y
  <2>3. /\ y \o s \in Seq(S) /\ Len(y \o s) = Len(y) + Len(s)
        /\ \A i \in 1..(Len(y) + Len(s)) :
             (y \o s)[i] = IF i <= Len(y) THEN y[i] ELSE s[i - Len(y)]
    BY <2>2, ConcatProperties
  <2>4. y \o s \in Seq(S) /\ Len(y \o s) = Len(s) + 1 BY <1>0, <2>2, <2>3
  <2>5. \A i \in 1..(Len(s) + 1) : (y \o s)[i] = IF i = 1 THEN x ELSE s[i - 1]
    <3> TAKE i \in 1..(Len(s) + 1)
    <3>1. i \in 1..(Len(y) + Len(s)) /\ (i <= Len(y) <=> i = 1) BY <1>0, <2>2
    <3> QED BY <2>2, <2>3, <3>1
  <2> QED BY <2>4, <2>5 DEF y
<1> HIDE DEF u
<1>2. /\ t \in Seq(S) /\ Len(t) = k
      /\ \A i \in 1..k : t[i] = u[i]
  <2>1. \A i \in 1..k : u[i] \in S
    <3>1. \A i \in 1..k : i \in 1..Len(u) BY <1>0, <1>1
    <3> QED BY <1>1, <3>1, ElementOfSeq
  <2> QED BY <1>0, <2>1, SubSeqProperties
<1> HIDE DEF t
<1>3. \A i \in 1..k : t[i] = IF i = 1 THEN x ELSE s[i - 1] BY <1>0, <1>1, <1>2
<1>4. IsFiniteSet(B) /\ Cardinality(B) = Occurrences(s, T) + (IF x \in T THEN 1 ELSE 0)
  BY OccurrencesShifted
<1>5. {i \in DOMAIN t : t[i] \in T} \subseteq B
  <2> SUFFICES ASSUME NEW i \in DOMAIN t, t[i] \in T PROVE i \in B OBVIOUS
  <2>1. i \in 1..k BY <1>2, LenProperties
  <2>2. CASE i = 1 BY <1>3, <2>1, <2>2
  <2>3. CASE i # 1
    <3>1. i - 1 \in 1..Len(s) /\ (i - 1) + 1 = i BY <1>0, <2>1, <2>3
    <3>2. s[i - 1] \in T BY <1>3, <2>1, <2>3
    <3> QED BY <1>0, <3>1, <3>2
  <2> QED BY <2>2, <2>3
<1> HIDE DEF B
<1>6. Occurrences(t, T) <= Cardinality(B) BY <1>4, <1>5, FS_Subset DEF Occurrences
<1> QED BY <1>2, <1>3, <1>4, <1>6 DEF t, u

(* Messages **************************************************************)

LEMMA MessageKinds ==
  /\ \A m \in Changes : /\ m \in ChangeType /\ m \notin Trades /\ m.type = "book_update"
                        /\ LevelOf(m) \in Levels
  /\ \A m \in Trades : /\ m \notin Changes /\ m.type = "trade"
                       /\ m.number \in Nat /\ m = TradeMessage(m.number)
  /\ \A n \in Nat : TradeMessage(n) \in Trades /\ TradeMessage(n).number = n
<1>1. ASSUME NEW m \in Changes
      PROVE  /\ m \in ChangeType /\ m \notin Trades /\ m.type = "book_update"
             /\ LevelOf(m) \in Levels
  <2>1. m \in ChangeType BY ClientAssumption DEF ChangeType
  <2>2. m.type = "book_update" BY <2>1 DEF ChangeType
  <2>3. m \notin Trades BY <2>2 DEF Trades
  <2> QED BY <2>1, <2>2, <2>3 DEF Levels
<1>2. ASSUME NEW m \in Trades
      PROVE  m \notin Changes /\ m.type = "trade" /\ m.number \in Nat /\ m = TradeMessage(m.number)
  <2>1. m.type = "trade" /\ m.number \in Nat BY DEF Trades
  <2>2. m = [type |-> "trade", number |-> m.number] BY DEF Trades
  <2>3. m \notin Changes BY <1>1, <2>1
  <2> QED BY <2>1, <2>2, <2>3 DEF TradeMessage
<1>3. \A n \in Nat : TradeMessage(n) \in Trades /\ TradeMessage(n).number = n
  BY DEF TradeMessage, Trades
<1> QED BY <1>1, <1>2, <1>3

LEMMA LevelsInMessages ==
  ASSUME NEW s \in Seq(Message), NEW l
  PROVE  l \in LevelsIn(s) <=> \E i \in 1..Len(s) : s[i] \in Changes /\ LevelOf(s[i]) = l
<1>1. DOMAIN s = 1..Len(s) /\ Len(s) \in Nat BY LenProperties
<1>2. \A i \in 1..Len(s) : s[i] \in Message BY <1>1, ElementOfSeq
<1>3. \A i \in 1..Len(s) : s[i].type = "book_update" <=> s[i] \in Changes
  BY <1>2, MessageKinds DEF Message
<1>4. l \in LevelsIn(s) <=> \E i \in 1..Len(s) : s[i].type = "book_update" /\ LevelOf(s[i]) = l
  BY <1>1, Zenon DEF LevelsIn, ToSet
<1> QED BY <1>3, <1>4

LEMMA LastSaysUnfold ==
  ASSUME NEW s \in Seq(Message), NEW l, NEW q
  PROVE  LastSays(s, l, q) <=>
           \E i \in 1..Len(s) :
             /\ s[i] \in Changes /\ LevelOf(s[i]) = l /\ s[i].quantity = q
             /\ \A j \in 1..Len(s) : j > i /\ s[j] \in Changes => LevelOf(s[j]) # l
BY LenProperties DEF LastSays

TailFacts(s) ==
    /\ Tail(s) \in Seq(Message) /\ Len(Tail(s)) = Len(s) - 1 /\ Len(s) \in Nat \ {0}
    /\ \A i \in 1..(Len(s) - 1) : Tail(s)[i] = s[i + 1]
    /\ Head(s) = s[1] /\ Head(s) \in Message
    /\ DOMAIN s = 1..Len(s) /\ DOMAIN Tail(s) = 1..(Len(s) - 1)

LEMMA TailOfMessages ==
  ASSUME NEW s \in Seq(Message), s # << >> PROVE TailFacts(s)
BY HeadTailProperties, EmptySeq, LenProperties DEF TailFacts

LEMMA TailIndices ==
  ASSUME NEW s, TailFacts(s)
  PROVE  /\ 1 \in DOMAIN s
         /\ \A i \in DOMAIN Tail(s) : i \in Nat \ {0} /\ i + 1 \in DOMAIN s /\ Tail(s)[i] = s[i + 1]
<1> DEFINE n == Len(s)
           t == Tail(s)
<1>1. /\ n \in Nat \ {0} /\ DOMAIN s = 1..n /\ DOMAIN t = 1..(n - 1)
      /\ \A i \in 1..(n - 1) : t[i] = s[i + 1]
  BY DEF TailFacts
<1> HIDE DEF n, t
<1>2. \A i \in 1..(n - 1) : i \in Nat \ {0} /\ i + 1 \in 1..n BY <1>1
<1> QED BY <1>1, <1>2 DEF t

\* When the head is taken, the last message about a level stays, or was it.
LEMMA LastSaysTail ==
  ASSUME NEW s \in Seq(Message), s # << >>, NEW l, NEW q, LastSays(s, l, q)
  PROVE  \/ LastSays(Tail(s), l, q)
         \/ /\ l \notin LevelsIn(Tail(s))
            /\ Head(s) \in Changes /\ LevelOf(Head(s)) = l /\ Head(s).quantity = q
<1> DEFINE t == Tail(s)
<1>1. /\ t \in Seq(Message) /\ Len(t) = Len(s) - 1 /\ Len(s) \in Nat \ {0}
      /\ \A i \in 1..(Len(s) - 1) : t[i] = s[i + 1]
      /\ Head(s) = s[1]
  BY TailOfMessages DEF TailFacts
<1> HIDE DEF t
<1>2. PICK i \in 1..Len(s) :
        /\ s[i] \in Changes /\ LevelOf(s[i]) = l /\ s[i].quantity = q
        /\ \A j \in 1..Len(s) : j > i /\ s[j] \in Changes => LevelOf(s[j]) # l
  BY LastSaysUnfold
<1>3. CASE i = 1
  <2>1. \A j \in 1..Len(t) : ~ (t[j] \in Changes /\ LevelOf(t[j]) = l)
    <3> TAKE j \in 1..Len(t)
    <3>1. j + 1 \in 1..Len(s) /\ j + 1 > i BY <1>1, <1>3
    <3> QED BY <1>1, <1>2, <3>1
  <2>2. l \notin LevelsIn(t) BY <1>1, <2>1, LevelsInMessages
  <2> QED BY <1>1, <1>2, <1>3, <2>2 DEF t
<1>4. CASE i # 1
  <2>1. i - 1 \in 1..Len(t) /\ (i - 1) + 1 = i BY <1>1, <1>4
  <2>2. t[i - 1] = s[i] BY <1>1, <2>1
  <2>3. \A j \in 1..Len(t) : j > i - 1 /\ t[j] \in Changes => LevelOf(t[j]) # l
    <3> SUFFICES ASSUME NEW j \in 1..Len(t), j > i - 1, t[j] \in Changes
                 PROVE  LevelOf(t[j]) # l
      OBVIOUS
    <3>1. j + 1 \in 1..Len(s) /\ j + 1 > i BY <1>1
    <3> QED BY <1>1, <1>2, <3>1
  <2>4. LastSays(t, l, q) BY <1>1, <1>2, <2>1, <2>2, <2>3, LastSaysUnfold
  <2> QED BY <2>4 DEF t
<1> QED BY <1>3, <1>4

LEMMA LevelsInTail ==
  ASSUME NEW s \in Seq(Message), s # << >>, NEW l, l \notin LevelsIn(s)
  PROVE  l \notin LevelsIn(Tail(s)) /\ (Head(s) \in Changes => LevelOf(Head(s)) # l)
<1>1. TailFacts(s) BY TailOfMessages
<1>2. \A i \in 1..Len(s) : ~ (s[i] \in Changes /\ LevelOf(s[i]) = l) BY LevelsInMessages
<1>3. \A i \in 1..Len(Tail(s)) : ~ (Tail(s)[i] \in Changes /\ LevelOf(Tail(s)[i]) = l)
  <2> TAKE i \in 1..Len(Tail(s))
  <2>1. i + 1 \in 1..Len(s) /\ Tail(s)[i] = s[i + 1] BY <1>1 DEF TailFacts
  <2> QED BY <1>2, <2>1
<1>4. l \notin LevelsIn(Tail(s)) BY <1>1, <1>3, LevelsInMessages DEF TailFacts
<1>5. 1 \in 1..Len(s) BY <1>1 DEF TailFacts
<1> QED BY <1>1, <1>2, <1>4, <1>5 DEF TailFacts

\* A message about another level, or a trade, behind them changes nothing; one
\* about the level is the last.
LEMMA LastSaysAppend ==
  ASSUME NEW s \in Seq(Message), NEW m \in Message, NEW l, NEW q
  PROVE  /\ m \in Changes /\ LevelOf(m) = l => LastSays(Append(s, m), l, m.quantity)
         /\ ~ (m \in Changes /\ LevelOf(m) = l) =>
              /\ LastSays(s, l, q) => LastSays(Append(s, m), l, q)
              /\ l \notin LevelsIn(s) => l \notin LevelsIn(Append(s, m))
<1> DEFINE n == Len(s)
           a == Append(s, m)
<1>1. /\ a \in Seq(Message) /\ Len(a) = n + 1 /\ n \in Nat
      /\ a[n + 1] = m /\ \A i \in 1..n : a[i] = s[i]
  BY AppendProperties, LenProperties
<1>2. \A i : i \in 1..(n + 1) <=> i \in 1..n \/ i = n + 1 BY <1>1
<1> HIDE DEF a, n
<1>3. ASSUME m \in Changes, LevelOf(m) = l PROVE LastSays(a, l, m.quantity)
  <2>1. n + 1 \in 1..Len(a) /\ \A j \in 1..Len(a) : ~ (j > n + 1) BY <1>1
  <2> QED BY <1>1, <1>3, <2>1, LastSaysUnfold
<1>4. ASSUME ~ (m \in Changes /\ LevelOf(m) = l), LastSays(s, l, q) PROVE LastSays(a, l, q)
  <2>1. PICK i \in 1..n :
          /\ s[i] \in Changes /\ LevelOf(s[i]) = l /\ s[i].quantity = q
          /\ \A j \in 1..n : j > i /\ s[j] \in Changes => LevelOf(s[j]) # l
    BY <1>4, LastSaysUnfold DEF n
  <2>2. i \in 1..Len(a) /\ a[i] = s[i] BY <1>1
  <2>3. \A j \in 1..Len(a) : j > i /\ a[j] \in Changes => LevelOf(a[j]) # l
    BY <1>1, <1>2, <1>4, <2>1
  <2> QED BY <1>1, <2>1, <2>2, <2>3, LastSaysUnfold
<1>5. ASSUME ~ (m \in Changes /\ LevelOf(m) = l), l \notin LevelsIn(s)
      PROVE  l \notin LevelsIn(a)
  <2>1. \A i \in 1..n : ~ (s[i] \in Changes /\ LevelOf(s[i]) = l)
    BY <1>5, LevelsInMessages DEF n
  <2>2. \A i \in 1..Len(a) : ~ (a[i] \in Changes /\ LevelOf(a[i]) = l)
    BY <1>1, <1>2, <1>5, <2>1
  <2> QED BY <1>1, <2>2, LevelsInMessages
<1> QED BY <1>3, <1>4, <1>5 DEF a

(* Steps *****************************************************************)

LEMMA ClientInit == Init => ClientInv
<1> SUFFICES ASSUME Init PROVE ClientInv OBVIOUS
<1> DEFINE empty == << >>
<1>0. /\ empty \in Seq(Row) /\ empty \in Seq(Nat) /\ empty \in Seq(Message)
      /\ DOMAIN empty = {} /\ Len(empty) = 0
  OBVIOUS
<1> HIDE DEF empty
<1>1. /\ strict \in BOOLEAN /\ conn = [c \in Client |-> "none"]
      /\ inbox = [c \in Client |-> empty]
      /\ connected = FALSE /\ bids = empty /\ asks = empty /\ tape = empty /\ trade_count = 0
      /\ orders_shown = 0 /\ fetches = {} /\ processed = 0
      /\ level = [l \in Levels |-> 0] /\ updates = 0 /\ traded = 0 /\ missed = {}
  BY DEF Init, empty
<1>2. StateTyped
  <2>1. MaxProcessed \in Nat BY ClientAssumption
  <2>2. conn \in [Client -> ConnState] /\ level \in [Levels -> Nat] BY <1>1 DEF ConnState
  <2>3. orders_shown \in 0..MaxProcessed /\ processed \in 0..MaxProcessed BY <1>1, <2>1
  <2>4. fetches \subseteq 0..MaxProcessed /\ missed \subseteq Levels BY <1>1
  <2>5. {updates, traded, trade_count} \subseteq Nat BY <1>1
  <2>6. strict \in BOOLEAN /\ connected \in BOOLEAN BY <1>1, Zenon
  <2> QED BY <2>2, <2>3, <2>4, <2>5, <2>6 DEF StateTyped
<1>3. InboxInv BY <1>0, <1>1 DEF InboxInv, Client, empty
<1>4. BookInv BY <1>0, <1>1 DEF BookInv, LevelsDrawable, Drawable
<1>5. TapeInv
  <2>1. \A T : Occurrences(empty, T) = 0 BY <1>0, NoOccurrence
  <2>2. inbox[1] = empty /\ inbox[2] = empty BY <1>1 DEF Client
  <2>3. Pages \in {1, 2} BY DEF Pages
  <2>4. Len(tape) <= TapeLength BY <1>0, <1>1, ClientAssumption
  <2> QED BY <1>0, <1>1, <2>1, <2>2, <2>3, <2>4 DEF TapeInv
<1>6. TapeOrdered BY <1>0, <1>1 DEF TapeOrdered, Client
<1>7. LevelsFollow
  <2> SUFFICES ASSUME NEW l \in Levels PROVE l \notin LevelsIn(inbox[1]) /\ Shown(l) = level[l]
    BY DEF LevelsFollow
  <2>1. inbox[1] = empty BY <1>1 DEF Client
  <2>2. l \notin LevelsIn(empty)
    <3>1. 1..Len(empty) = {} BY <1>0
    <3> QED BY <1>0, <3>1, LevelsInMessages
  <2>3. QuantityAt(empty, l[2]) = 0
    <3>1. IndexOf(empty, l[2]) = 0 BY <1>0 DEF IndexOf, SelectInSeq
    <3> QED BY <3>1 DEF QuantityAt
  <2> QED BY <1>1, <2>1, <2>2, <2>3, ShownIsQuantityAt
<1> QED BY <1>2, <1>3, <1>4, <1>5, <1>6, <1>7 DEF ClientInv

\* What the rest of the invariant depends on.
pageVars == <<strict, inbox, bids, asks, tape, trade_count, serverVars, missed>>

LEMMA PageKept ==
  ASSUME ClientInv, UNCHANGED pageVars
  PROVE  BookInv' /\ TapeInv' /\ TapeOrdered' /\ LevelsFollow'
<1>1. /\ strict' = strict /\ inbox' = inbox /\ bids' = bids /\ asks' = asks /\ tape' = tape
      /\ trade_count' = trade_count /\ level' = level /\ traded' = traded /\ missed' = missed
  BY DEF pageVars, serverVars
<1>2. BookInv' BY <1>1 DEF ClientInv, BookInv, LevelsDrawable
<1>3. TapeInv' BY <1>1 DEF ClientInv, TapeInv, Pages
<1>4. TapeOrdered' BY <1>1 DEF ClientInv, TapeOrdered
<1>5. LevelsFollow' BY <1>1 DEF ClientInv, LevelsFollow, Shown
<1> QED BY <1>2, <1>3, <1>4, <1>5

LEMMA MountInv == ASSUME ClientInv, Mount PROVE ClientInv'
<1>1. BookInv' /\ TapeInv' /\ TapeOrdered' /\ LevelsFollow'
  BY PageKept DEF Mount, appVars, pageVars
<1>2. /\ strict' = strict /\ inbox' = inbox /\ connected' = connected
      /\ UNCHANGED <<pollVars, serverVars, missed, trade_count>>
  BY DEF Mount, appVars
<1>3. conn[1] = "none" /\ conn[2] = "none" /\ conn \in [Client -> ConnState]
  BY DEF Mount, ClientInv, InboxInv, StateTyped
<1>4. /\ conn' \in [Client -> ConnState]
      /\ ~strict => conn'[2] = "none"
      /\ conn'[1] # "none"
  <2>1. CASE strict
    <3>1. conn' = <<"closing", "connecting">> BY <2>1 DEF Mount
    <3>2. conn'[1] = "closing" /\ conn'[2] = "connecting" BY <3>1
    <3>3. conn' = [c \in 1..2 |-> IF c = 1 THEN "closing" ELSE "connecting"] BY <3>1
    <3> QED BY <2>1, <3>2, <3>3 DEF Client, ConnState
  <2>2. CASE ~strict BY <1>3, <2>2 DEF Mount, Client, ConnState
  <2> QED BY <2>1, <2>2
<1>5. inbox[1] = << >> /\ inbox[2] = << >> BY <1>3 DEF ClientInv, InboxInv, Client
<1>6. InboxInv'
  BY <1>2, <1>4, <1>5 DEF ClientInv, InboxInv, Client, serverVars
<1>7. StateTyped'
  BY <1>2, <1>4 DEF ClientInv, StateTyped, pollVars, serverVars
<1> QED BY <1>1, <1>6, <1>7 DEF ClientInv

LEMMA OpenedInv == ASSUME ClientInv, NEW c \in Client, Opened(c) \/ Reconnect(c) PROVE ClientInv'
<1>1. BookInv' /\ TapeInv' /\ TapeOrdered' /\ LevelsFollow'
  BY PageKept DEF Opened, Reconnect, appVars, pageVars
<1>2. /\ strict' = strict /\ inbox' = inbox /\ connected' \in BOOLEAN
      /\ UNCHANGED <<pollVars, serverVars, missed, trade_count>>
  BY DEF Opened, Reconnect, appVars, ClientInv, StateTyped
<1>3. PICK x \in {"open", "connecting"} :
        conn[c] \in {"connecting", "waiting"} /\ conn' = [conn EXCEPT ![c] = x]
  BY DEF Opened, Reconnect
<1>4. /\ conn' \in [Client -> ConnState] /\ conn'[c] = x
      /\ \A d \in Client : d # c => conn'[d] = conn[d]
      /\ c \in {1, 2}
  BY <1>3 DEF ClientInv, StateTyped, ConnState, Client
<1>5. inbox[c] = << >> BY <1>3 DEF ClientInv, InboxInv
<1>6. InboxInv'
  <2>1. \A d \in Client : inbox'[d] # << >> => conn'[d] = "open"
    BY <1>2, <1>4, <1>5 DEF ClientInv, InboxInv
  <2>2. ~strict' \/ conn'[1] = "none" => conn'[2] = "none"
    BY <1>2, <1>3, <1>4 DEF ClientInv, InboxInv, Client
  <2> QED BY <1>2, <2>1, <2>2 DEF ClientInv, InboxInv, serverVars
<1>7. StateTyped'
  BY <1>2, <1>4 DEF ClientInv, StateTyped, pollVars, serverVars
<1> QED BY <1>1, <1>6, <1>7 DEF ClientInv

LEMMA PollInv ==
  ASSUME ClientInv, Fetch \/ ProcessOrder \/ \E n \in fetches : FetchDone(n) \/ FetchFails(n)
  PROVE  ClientInv'
<1>1. UNCHANGED <<strict, conn, inbox, appVars, serverVars, missed>>
  BY DEF Fetch, ProcessOrder, FetchDone, FetchFails
<1>2. BookInv' /\ TapeInv' /\ TapeOrdered' /\ LevelsFollow'
  BY <1>1, PageKept DEF appVars, pageVars
<1>3. InboxInv' BY <1>1 DEF ClientInv, InboxInv, serverVars
<1>4. /\ orders_shown' \in 0..MaxProcessed /\ fetches' \subseteq 0..MaxProcessed
      /\ processed' \in 0..MaxProcessed
  <2>1. /\ orders_shown \in 0..MaxProcessed /\ fetches \subseteq 0..MaxProcessed
        /\ processed \in 0..MaxProcessed /\ MaxProcessed \in Nat
    BY ClientAssumption DEF ClientInv, StateTyped
  <2>2. CASE Fetch BY <2>1, <2>2 DEF Fetch
  <2>3. CASE ProcessOrder BY <2>1, <2>3 DEF ProcessOrder
  <2>4. CASE \E n \in fetches : FetchDone(n) \/ FetchFails(n)
    BY <2>1, <2>4 DEF FetchDone, FetchFails
  <2> QED BY <2>2, <2>3, <2>4
<1>5. StateTyped'
  BY <1>1, <1>4 DEF ClientInv, StateTyped, serverVars, appVars
<1> QED BY <1>2, <1>3, <1>5 DEF ClientInv

LEMMA ClosedInv == ASSUME ClientInv, NEW c \in Client, Closed(c) PROVE ClientInv'
<1> DEFINE empty == << >>
<1>0. DOMAIN empty = {} /\ empty \in Seq(Message) OBVIOUS
<1> HIDE DEF empty
<1>1. /\ strict' = strict /\ connected' = FALSE
      /\ UNCHANGED <<bids, asks, tape, trade_count, pollVars, serverVars>>
      /\ conn[c] \in {"connecting", "open", "closing"}
      /\ conn' = [conn EXCEPT ![c] = "waiting"]
      /\ missed' = missed \cup LevelsIn(inbox[c])
      /\ inbox' = [inbox EXCEPT ![c] = empty]
  BY DEF Closed, empty
<1>2. /\ inbox \in [Client -> Seq(Message)] /\ conn \in [Client -> ConnState]
      /\ c \in {1, 2} /\ Client = {1, 2}
  BY DEF ClientInv, InboxInv, StateTyped, Client
<1>3. /\ inbox' \in [Client -> Seq(Message)] /\ inbox'[c] = empty
      /\ \A d \in Client : d # c => inbox'[d] = inbox[d]
      /\ conn' \in [Client -> ConnState] /\ conn'[c] = "waiting"
      /\ \A d \in Client : d # c => conn'[d] = conn[d]
  BY <1>0, <1>1, <1>2 DEF ConnState
<1>4. \A l \in LevelsIn(inbox[c]) : l \in Levels
  <2> TAKE l \in LevelsIn(inbox[c])
  <2>1. inbox[c] \in Seq(Message) BY <1>2
  <2> HIDE DEF empty
  <2>2. \E i \in 1..Len(inbox[c]) : inbox[c][i] \in Changes /\ LevelOf(inbox[c][i]) = l
    BY <2>1, LevelsInMessages
  <2> QED BY <2>2, MessageKinds
<1>5. StateTyped'
  <2>1. /\ strict \in BOOLEAN /\ orders_shown \in 0..MaxProcessed /\ fetches \subseteq 0..MaxProcessed
        /\ updates \in Nat /\ traded \in Nat /\ trade_count \in Nat
        /\ processed \in 0..MaxProcessed /\ level \in [Levels -> Nat] /\ missed \subseteq Levels
    BY DEF ClientInv, StateTyped
  <2>2. connected' \in BOOLEAN BY <1>1, Zenon
  <2>3. missed' \subseteq Levels BY <1>1, <1>4, <2>1
  <2> QED BY <1>1, <1>3, <2>1, <2>2, <2>3 DEF StateTyped, pollVars, serverVars
<1>6. InboxInv'
  <2>1. \A d \in Client : inbox'[d] # << >> => conn'[d] = "open"
    BY <1>3 DEF ClientInv, InboxInv, empty
  <2>2. \A d \in Client : \A i \in DOMAIN inbox'[d] :
          inbox'[d][i] \in Trades => inbox'[d][i].number \in 1..traded
    BY <1>0, <1>3 DEF ClientInv, InboxInv
  <2>3. ~strict' \/ conn'[1] = "none" => conn'[2] = "none"
    BY <1>1, <1>2, <1>3 DEF ClientInv, InboxInv
  <2> QED BY <1>1, <1>3, <2>1, <2>2, <2>3 DEF InboxInv, serverVars
<1>7. BookInv' BY <1>1 DEF ClientInv, BookInv, LevelsDrawable
<1>8. TapeInv'
  <2>0. ASSUME NEW d \in Client, NEW T
        PROVE  Occurrences(inbox'[d], T) \in Nat /\ Occurrences(inbox'[d], T) <= Occurrences(inbox[d], T)
    <3>1. Occurrences(inbox[d], T) \in Nat BY <1>2, OccurrencesType
    <3>2. Occurrences(empty, T) = 0 BY <1>0, NoOccurrence
    <3>3. inbox'[d] = empty \/ inbox'[d] = inbox[d] BY <1>3
    <3> QED BY <3>1, <3>2, <3>3
  <2>1. \A T : Occurrences(inbox'[1], T) \in Nat /\ Occurrences(inbox'[1], T) <= Occurrences(inbox[1], T)
    BY <1>2, <2>0
  <2>2. \A T : Occurrences(inbox'[2], T) \in Nat /\ Occurrences(inbox'[2], T) <= Occurrences(inbox[2], T)
    BY <1>2, <2>0
  <2>3. \A T : Occurrences(inbox[1], T) \in Nat /\ Occurrences(inbox[2], T) \in Nat
    BY <1>2, OccurrencesType
  <2>4. /\ tape \in Seq(Nat) /\ \A T : Occurrences(tape, T) \in Nat
        /\ trade_count \in Nat /\ traded \in Nat /\ Pages \in {1, 2}
    BY OccurrencesType DEF ClientInv, TapeInv, StateTyped, Pages
  <2>5. ASSUME NEW n \in Nat
        PROVE  Occurrences(tape, {n}) + Occurrences(inbox'[1], {TradeMessage(n)})
                 + Occurrences(inbox'[2], {TradeMessage(n)}) <= Pages
    <3>1. Occurrences(tape, {n}) + Occurrences(inbox[1], {TradeMessage(n)})
            + Occurrences(inbox[2], {TradeMessage(n)}) <= Pages
      BY DEF ClientInv, TapeInv
    <3> QED BY <2>1, <2>2, <2>3, <2>4, <3>1
  <2>6. trade_count + Occurrences(inbox'[1], Trades) + Occurrences(inbox'[2], Trades)
          <= Pages * traded
    <3>1. trade_count + Occurrences(inbox[1], Trades) + Occurrences(inbox[2], Trades)
            <= Pages * traded
      BY DEF ClientInv, TapeInv
    <3>2. Pages * traded \in Nat BY <2>4
    <3> QED BY <2>1, <2>2, <2>3, <2>4, <3>1, <3>2
  <2>7. Pages' = Pages BY <1>1 DEF Pages
  <2> QED BY <1>1, <2>5, <2>6, <2>7 DEF ClientInv, TapeInv, serverVars
<1>9. TapeOrdered' BY <1>0, <1>1, <1>2, <1>3 DEF ClientInv, TapeOrdered
<1>10. LevelsFollow'
  <2> SUFFICES ASSUME ~strict, NEW l \in Levels, l \notin missed'
               PROVE  l \notin LevelsIn(inbox'[1]) /\ Shown(l)' = level[l]
    BY <1>1 DEF LevelsFollow, serverVars
  <2>1. c = 1
    <3>1. conn[2] = "none" BY DEF ClientInv, InboxInv
    <3> QED BY <1>1, <1>2, <3>1
  <2>2. l \notin missed /\ l \notin LevelsIn(inbox[1]) BY <1>1, <2>1
  <2>3. ~ LastSays(inbox[1], l, level[l])
    BY <1>2, <2>2, LastSaysUnfold, LevelsInMessages
  <2>4. Shown(l) = level[l] BY <2>2, <2>3 DEF ClientInv, LevelsFollow
  <2>5. l \notin LevelsIn(empty)
    <3>1. 1..Len(empty) = {} BY <1>0, LenProperties
    <3> QED BY <1>0, <3>1, LevelsInMessages
  <2>6. Shown(l)' = Shown(l) BY <1>1 DEF Shown
  <2> QED BY <1>3, <2>1, <2>4, <2>5, <2>6
<1> QED BY <1>5, <1>6, <1>7, <1>8, <1>9, <1>10 DEF ClientInv

(* Receive ***************************************************************)

\* The message is taken from the inbox of its client.
Taken(c) ==
    /\ strict' = strict /\ conn' = conn /\ connected' = connected /\ missed' = missed
    /\ UNCHANGED <<pollVars, serverVars>>
    /\ inbox \in [Client -> Seq(Message)] /\ inbox' \in [Client -> Seq(Message)]
    /\ inbox[c] # << >> /\ inbox'[c] = Tail(inbox[c]) /\ TailFacts(inbox[c])
    /\ \A d \in Client : d # c => inbox'[d] = inbox[d]
    /\ c \in {1, 2} /\ Client = {1, 2}
    /\ ~strict => c = 1

LEMMA ReceiveTakes == ASSUME ClientInv, NEW c \in Client, Receive(c) PROVE Taken(c)
<1>1. /\ inbox \in [Client -> Seq(Message)] /\ inbox[c] # << >> /\ conn[c] = "open"
      /\ inbox' = [inbox EXCEPT ![c] = Tail(inbox[c])]
  BY DEF Receive, ClientInv, InboxInv
<1>2. TailFacts(inbox[c]) BY <1>1, TailOfMessages
<1>3. inbox'[c] = Tail(inbox[c]) /\ \A d \in Client : d # c => inbox'[d] = inbox[d]
  BY <1>1
<1>4. inbox' \in [Client -> Seq(Message)] BY <1>1, <1>2 DEF TailFacts
<1>5. c \in {1, 2} /\ Client = {1, 2} BY DEF Client
<1>6. ~strict => c = 1 BY <1>1, <1>5 DEF ClientInv, InboxInv
<1> QED BY <1>1, <1>2, <1>3, <1>4, <1>5, <1>6 DEF Taken, Receive

LEMMA ReceiveInbox == ASSUME ClientInv, NEW c \in Client, Receive(c) PROVE InboxInv'
<1>1. Taken(c) BY ReceiveTakes
<1>2. \A d \in Client : inbox'[d] # << >> => conn'[d] = "open"
  BY <1>1 DEF Taken, Receive, ClientInv, InboxInv
<1>3. \A d \in Client : \A i \in DOMAIN inbox'[d] :
        inbox'[d][i] \in Trades => inbox'[d][i].number \in 1..traded
  <2> SUFFICES ASSUME NEW d \in Client, NEW i \in DOMAIN inbox'[d], inbox'[d][i] \in Trades
               PROVE  inbox'[d][i].number \in 1..traded
    OBVIOUS
  <2>1. \A j \in DOMAIN inbox[d] : inbox[d][j] \in Trades => inbox[d][j].number \in 1..traded
    BY DEF ClientInv, InboxInv
  <2>2. CASE d # c BY <1>1, <2>1, <2>2 DEF Taken
  <2>3. CASE d = c
    <3>1. i + 1 \in DOMAIN inbox[d] /\ inbox'[d][i] = inbox[d][i + 1]
      <4>1. inbox'[d] = Tail(inbox[d]) /\ TailFacts(inbox[d]) BY <1>1, <2>3 DEF Taken
      <4>2. i \in DOMAIN Tail(inbox[d]) BY <4>1
      <4> QED BY <4>1, <4>2, TailIndices
    <3> QED BY <2>1, <3>1
  <2> QED BY <2>2, <2>3
<1> QED BY <1>1, <1>2, <1>3 DEF Taken, ClientInv, InboxInv, serverVars

\* Counting goes on with the rest of the inbox.
LEMMA ReceiveOccurrences ==
  ASSUME ClientInv, NEW c \in Client, Receive(c), NEW T
  PROVE  /\ Occurrences(inbox[1], T) \in Nat /\ Occurrences(inbox[2], T) \in Nat
         /\ Occurrences(inbox'[1], T) \in Nat /\ Occurrences(inbox'[2], T) \in Nat
         /\ Occurrences(inbox'[1], T) + Occurrences(inbox'[2], T)
              = Occurrences(inbox[1], T) + Occurrences(inbox[2], T)
                - (IF Head(inbox[c]) \in T THEN 1 ELSE 0)
<1>1. Taken(c) BY ReceiveTakes
<1>2. \A d \in {1, 2} : Occurrences(inbox[d], T) \in Nat /\ Occurrences(inbox'[d], T) \in Nat
  BY <1>1, OccurrencesType DEF Taken
<1>3. Occurrences(inbox[c], T)
        = Occurrences(inbox'[c], T) + (IF Head(inbox[c]) \in T THEN 1 ELSE 0)
  <2>1. inbox[c] \in Seq(Message) /\ inbox[c] # << >> BY <1>1 DEF Taken
  <2>2. Occurrences(inbox[c], T)
          = Occurrences(Tail(inbox[c]), T) + (IF Head(inbox[c]) \in T THEN 1 ELSE 0)
    BY <2>1, OccurrencesTail
  <2> QED BY <1>1, <2>2 DEF Taken
<1>4. \A d \in {1, 2} : d # c => Occurrences(inbox'[d], T) = Occurrences(inbox[d], T)
  BY <1>1 DEF Taken
<1>5. c = 1 \/ c = 2 BY <1>1 DEF Taken
<1> QED BY <1>2, <1>3, <1>4, <1>5

LEMMA TwoMin ==
  ASSUME NEW a \in Int, NEW b \in Int
  PROVE  Min({a, b}) = IF a <= b THEN a ELSE b
<1>1. Min({a, b}) = CHOOSE x \in {a, b} : \A y \in {a, b} : x <= y BY DEF Min
<1>2. \A x \in {a, b} : (\A y \in {a, b} : x <= y) <=> x = IF a <= b THEN a ELSE b OBVIOUS
<1> DEFINE m == IF a <= b THEN a ELSE b
<1>3. m \in {a, b} OBVIOUS
<1> HIDE DEF m
<1>4. (CHOOSE x \in {a, b} : \A y \in {a, b} : x <= y) = m BY <1>2, <1>3 DEF m
<1> QED BY <1>1, <1>4 DEF m

\* What is behind a trade in the inbox is newer than the trade, and both are
\* newer than the tape.
LEMMA TradeReceived ==
  ASSUME ClientInv, NEW c \in Client, Receive(c), Head(inbox[c]) \in Trades
  PROVE  ClientInv'
<1> DEFINE m == Head(inbox[c])
           k == Min({Len(tape) + 1, TapeLength})
<1>1. Taken(c) BY ReceiveTakes
<1>2. /\ m \in Trades /\ m.type = "trade" /\ m.number \in Nat /\ m = TradeMessage(m.number)
      /\ m.number \in 1..traded
  <2>1. m = inbox[c][1] /\ 1 \in DOMAIN inbox[c] BY <1>1 DEF Taken, TailFacts
  <2>2. m.number \in 1..traded BY <2>1 DEF ClientInv, InboxInv
  <2> QED BY <2>2, MessageKinds
<1>3. /\ tape' = SubSeq(<<m.number>> \o tape, 1, k) /\ trade_count' = trade_count + 1
      /\ UNCHANGED <<bids, asks>>
  BY <1>2 DEF Receive, OnTrade
<1> HIDE DEF m
<1>4. /\ tape \in Seq(Nat) /\ Len(tape) \in Nat /\ Len(tape) <= TapeLength
      /\ \A i \in 1..Len(tape) : tape[i] \in 1..traded
      /\ DOMAIN tape = 1..Len(tape) /\ TapeLength \in Nat /\ traded \in Nat
      /\ trade_count \in Nat /\ Pages \in {1, 2}
  BY LenProperties, ClientAssumption DEF ClientInv, TapeInv, StateTyped, Pages
<1>5. k \in 0..(Len(tape) + 1) /\ k <= TapeLength BY <1>4, TwoMin
<1> HIDE DEF k
<1>6. /\ tape' \in Seq(Nat) /\ Len(tape') = k
      /\ \A i \in 1..k : tape'[i] = IF i = 1 THEN m.number ELSE tape[i - 1]
      /\ \A T : Occurrences(tape', T) <= Occurrences(tape, T) + (IF m.number \in T THEN 1 ELSE 0)
  BY <1>2, <1>3, <1>4, <1>5, OccurrencesCut
<1>7. DOMAIN tape' = 1..k BY <1>6, LenProperties
<1>8. \A T : Occurrences(tape, T) \in Nat /\ Occurrences(tape', T) \in Nat
  BY <1>4, <1>6, OccurrencesType
<1>9. TapeInv'
  <2>1. \A i \in 1..k : tape'[i] \in 1..traded
    <3> TAKE i \in 1..k
    <3>1. CASE i = 1 BY <1>2, <1>6, <3>1
    <3>2. CASE i # 1
      <4>1. i - 1 \in 1..Len(tape) BY <1>4, <1>5, <3>2
      <4> QED BY <1>4, <1>6, <3>2, <4>1
    <3> QED BY <3>1, <3>2
  <2>2. ASSUME NEW n \in Nat
        PROVE  Occurrences(tape', {n}) + Occurrences(inbox'[1], {TradeMessage(n)})
                 + Occurrences(inbox'[2], {TradeMessage(n)}) <= Pages
    <3> DEFINE a == Occurrences(tape, {n})
               b == Occurrences(inbox[1], {TradeMessage(n)})
               d == Occurrences(inbox[2], {TradeMessage(n)})
               aa == Occurrences(tape', {n})
               bb == Occurrences(inbox'[1], {TradeMessage(n)})
               dd == Occurrences(inbox'[2], {TradeMessage(n)})
               x == IF m.number = n THEN 1 ELSE 0
    <3>1. m \in {TradeMessage(n)} <=> m.number = n BY <1>2, MessageKinds
    <3>2. /\ b \in Nat /\ d \in Nat /\ bb \in Nat /\ dd \in Nat
          /\ bb + dd = b + d - x
      BY <3>1, ReceiveOccurrences DEF m
    <3>3. a \in Nat /\ aa \in Nat /\ aa <= a + x BY <1>6, <1>8
    <3>4. a + b + d <= Pages BY DEF ClientInv, TapeInv
    <3>5. x \in {0, 1} OBVIOUS
    <3> HIDE DEF a, b, d, aa, bb, dd, x
    <3>6. aa + bb + dd <= Pages BY <1>4, <3>2, <3>3, <3>4, <3>5
    <3> QED BY <3>6 DEF aa, bb, dd
  <2>3. trade_count' + Occurrences(inbox'[1], Trades) + Occurrences(inbox'[2], Trades)
          <= Pages * traded
    <3> DEFINE b == Occurrences(inbox[1], Trades)
               d == Occurrences(inbox[2], Trades)
               bb == Occurrences(inbox'[1], Trades)
               dd == Occurrences(inbox'[2], Trades)
               p == Pages * traded
    <3>1. /\ b \in Nat /\ d \in Nat /\ bb \in Nat /\ dd \in Nat /\ bb + dd = b + d - 1
      BY <1>2, ReceiveOccurrences DEF m
    <3>2. trade_count + b + d <= p BY DEF ClientInv, TapeInv
    <3>3. p \in Nat BY <1>4
    <3> HIDE DEF b, d, bb, dd, p
    <3>4. trade_count' + bb + dd <= p BY <1>3, <1>4, <3>1, <3>2, <3>3
    <3> QED BY <3>4 DEF bb, dd, p
  <2>4. Pages' = Pages /\ traded' = traded BY <1>1 DEF Taken, Pages, serverVars
  <2> QED BY <1>5, <1>6, <1>7, <2>1, <2>2, <2>3, <2>4 DEF TapeInv
<1>10. TapeOrdered'
  <2> SUFFICES ASSUME ~strict
               PROVE  /\ \A i, j \in 1..k : i < j => tape'[i] > tape'[j]
                      /\ \A i \in 1..k, j \in DOMAIN inbox'[1] :
                           inbox'[1][j] \in Trades => tape'[i] < inbox'[1][j].number
                      /\ \A i, j \in DOMAIN inbox'[1] :
                           i < j /\ inbox'[1][i] \in Trades /\ inbox'[1][j] \in Trades
                             => inbox'[1][i].number < inbox'[1][j].number
    BY <1>1, <1>7 DEF TapeOrdered, Taken
  <2> DEFINE s == inbox[1]
             t == inbox'[1]
  <2>1. /\ m = s[1] /\ 1 \in DOMAIN s
        /\ \A i \in DOMAIN t : i + 1 \in DOMAIN s /\ t[i] = s[i + 1] /\ i \in Nat \ {0}
    <3>1. c = 1 /\ TailFacts(inbox[1]) /\ inbox'[1] = Tail(inbox[1]) BY <1>1 DEF Taken
    <3>2. Head(inbox[1]) = inbox[1][1] BY <3>1 DEF TailFacts
    <3> QED BY <3>1, <3>2, TailIndices DEF m
  <2>2. /\ \A i, j \in 1..Len(tape) : i < j => tape[i] > tape[j]
        /\ \A i \in 1..Len(tape), j \in DOMAIN s : s[j] \in Trades => tape[i] < s[j].number
        /\ \A i, j \in DOMAIN s :
             i < j /\ s[i] \in Trades /\ s[j] \in Trades => s[i].number < s[j].number
    BY <1>4 DEF ClientInv, TapeOrdered
  <2> HIDE DEF s, t
  <2>3. \A i \in 1..k : \/ i = 1 /\ tape'[i] = m.number
                        \/ i > 1 /\ i - 1 \in 1..Len(tape) /\ tape'[i] = tape[i - 1]
    BY <1>4, <1>5, <1>6
  <2>4. \A i \in 1..Len(tape) : tape[i] < m.number BY <1>2, <2>1, <2>2
  <2>5. \A i, j \in 1..k : i < j => tape'[i] > tape'[j]
    <3> SUFFICES ASSUME NEW i \in 1..k, NEW j \in 1..k, i < j PROVE tape'[i] > tape'[j]
      OBVIOUS
    <3>1. j > 1 /\ j - 1 \in 1..Len(tape) /\ tape'[j] = tape[j - 1] BY <2>3
    <3>2. CASE i = 1
      <4>1. tape'[i] = m.number BY <2>3, <3>2
      <4> QED BY <1>2, <1>4, <2>4, <3>1, <4>1
    <3>3. CASE i # 1
      <4>1. i - 1 \in 1..Len(tape) /\ tape'[i] = tape[i - 1] /\ i - 1 < j - 1 BY <2>3, <3>3
      <4> QED BY <2>2, <3>1, <4>1
    <3> QED BY <3>2, <3>3
  <2>6. ASSUME NEW i \in 1..k, NEW j \in DOMAIN t, t[j] \in Trades
        PROVE  tape'[i] < t[j].number
    <3>1. j + 1 \in DOMAIN s /\ t[j] = s[j + 1] /\ 1 < j + 1 BY <2>1
    <3>2. CASE tape'[i] = m.number BY <1>2, <2>1, <2>2, <2>6, <3>1, <3>2
    <3>3. CASE i - 1 \in 1..Len(tape) /\ tape'[i] = tape[i - 1] BY <2>2, <2>6, <3>1, <3>3
    <3> QED BY <2>3, <3>2, <3>3
  <2>7. ASSUME NEW i \in DOMAIN t, NEW j \in DOMAIN t, i < j, t[i] \in Trades, t[j] \in Trades
        PROVE  t[i].number < t[j].number
    <3>1. i + 1 \in DOMAIN s /\ j + 1 \in DOMAIN s /\ t[i] = s[i + 1] /\ t[j] = s[j + 1]
          /\ i + 1 < j + 1
      BY <2>1, <2>7
    <3> QED BY <2>2, <2>7, <3>1
  <2> QED BY <2>5, <2>6, <2>7 DEF t
<1>11. LevelsFollow'
  <2> SUFFICES ASSUME ~strict, NEW l \in Levels, l \notin missed
               PROVE  \/ LastSays(inbox'[1], l, level[l])
                      \/ l \notin LevelsIn(inbox'[1]) /\ Shown(l)' = level[l]
    BY <1>1 DEF LevelsFollow, Taken, serverVars
  <2>1. inbox[1] \in Seq(Message) /\ inbox[1] # << >> /\ inbox'[1] = Tail(inbox[1])
        /\ Head(inbox[1]) \notin Changes
    BY <1>1, <1>2, MessageKinds DEF Taken, m
  <2>2. Shown(l)' = Shown(l) BY <1>3 DEF Shown
  <2>3. \/ LastSays(inbox[1], l, level[l])
        \/ l \notin LevelsIn(inbox[1]) /\ Shown(l) = level[l]
    BY DEF ClientInv, LevelsFollow
  <2> QED BY <2>1, <2>2, <2>3, LastSaysTail, LevelsInTail
<1>12. BookInv' BY <1>3 DEF ClientInv, BookInv, LevelsDrawable
<1>13. StateTyped'
  BY <1>1, <1>3 DEF ClientInv, StateTyped, Taken, pollVars, serverVars
<1> QED BY <1>9, <1>10, <1>11, <1>12, <1>13, ReceiveInbox DEF ClientInv

\* What a level shows when a change of it, or of another one, was received.
LEMMA ShownAfterUpdate ==
  ASSUME BookInv, NEW m \in Changes, OnBookUpdate(m)
  PROVE  /\ BookInv'
         /\ \A l \in Levels : Shown(l)' = IF l = LevelOf(m) THEN m.quantity ELSE Shown(l)
<1>1. m \in ChangeType /\ m.side \in {"buy", "sell"} BY MessageKinds DEF ChangeType
<1>2. /\ bids \in Seq(Row) /\ asks \in Seq(Row)
      /\ Drawable(bids, "buy") /\ Drawable(asks, "sell")
  BY DEF BookInv, LevelsDrawable
<1>3. \A l \in Levels : /\ l = <<l[1], l[2]>> /\ l[1] \in {"buy", "sell"} /\ l[2] \in Int
                        /\ l = LevelOf(m) <=> l[1] = m.side /\ l[2] = m.price
  <2> TAKE l \in Levels
  <2>1. PICK x \in Changes : l = <<x.side, x.price>> BY DEF Levels, LevelOf
  <2>2. x.side \in {"buy", "sell"} /\ x.price \in Int BY MessageKinds DEF ChangeType
  <2> QED BY <2>1, <2>2 DEF LevelOf
<1>4. CASE m.side = "buy"
  <2>1. bids' = Applied(bids, m) /\ asks' = asks BY <1>4 DEF OnBookUpdate
  <2>2. /\ bids' \in Seq(Row) /\ Drawable(bids', "buy")
        /\ \A p \in Int : QuantityAt(bids', p)
                            = IF p = m.price THEN m.quantity ELSE QuantityAt(bids, p)
    BY <1>1, <1>2, <1>4, <2>1, AppliedProperties
  <2>3. BookInv' BY <1>2, <2>1, <2>2 DEF BookInv, LevelsDrawable
  <2>4. ASSUME NEW l \in Levels
        PROVE  Shown(l)' = IF l = LevelOf(m) THEN m.quantity ELSE Shown(l)
    <3>1. Shown(l)' = QuantityAt(IF l[1] = "buy" THEN bids' ELSE asks', l[2])
      BY DEF Shown, QuantityAt
    <3>2. Shown(l) = QuantityAt(IF l[1] = "buy" THEN bids ELSE asks, l[2])
      BY ShownIsQuantityAt
    <3>3. CASE l[1] = "buy" BY <1>3, <1>4, <2>2, <3>1, <3>2, <3>3
    <3>4. CASE l[1] = "sell" BY <1>3, <1>4, <2>1, <3>1, <3>2, <3>4
    <3> QED BY <1>3, <3>3, <3>4
  <2> QED BY <2>3, <2>4
<1>5. CASE m.side = "sell"
  <2>1. asks' = Applied(asks, m) /\ bids' = bids BY <1>5 DEF OnBookUpdate
  <2>2. /\ asks' \in Seq(Row) /\ Drawable(asks', "sell")
        /\ \A p \in Int : QuantityAt(asks', p)
                            = IF p = m.price THEN m.quantity ELSE QuantityAt(asks, p)
    BY <1>1, <1>2, <1>5, <2>1, AppliedProperties
  <2>3. BookInv' BY <1>2, <2>1, <2>2 DEF BookInv, LevelsDrawable
  <2>4. ASSUME NEW l \in Levels
        PROVE  Shown(l)' = IF l = LevelOf(m) THEN m.quantity ELSE Shown(l)
    <3>1. Shown(l)' = QuantityAt(IF l[1] = "buy" THEN bids' ELSE asks', l[2])
      BY DEF Shown, QuantityAt
    <3>2. Shown(l) = QuantityAt(IF l[1] = "buy" THEN bids ELSE asks, l[2])
      BY ShownIsQuantityAt
    <3>3. CASE l[1] = "buy" BY <1>3, <1>5, <2>1, <3>1, <3>2, <3>3
    <3>4. CASE l[1] = "sell" BY <1>3, <1>5, <2>2, <3>1, <3>2, <3>4
    <3> QED BY <1>3, <3>3, <3>4
  <2> QED BY <2>3, <2>4
<1> QED BY <1>1, <1>4, <1>5

LEMMA UpdateReceived ==
  ASSUME ClientInv, NEW c \in Client, Receive(c), Head(inbox[c]) \in Changes
  PROVE  ClientInv'
<1> DEFINE m == Head(inbox[c])
<1>1. Taken(c) BY ReceiveTakes
<1>2. m \in Changes /\ m \notin Trades /\ m.type = "book_update" BY MessageKinds
<1>3. OnBookUpdate(m) BY <1>2 DEF Receive
<1>4. tape' = tape /\ trade_count' = trade_count BY <1>3 DEF OnBookUpdate
<1>5. /\ BookInv'
      /\ \A l \in Levels : Shown(l)' = IF l = LevelOf(m) THEN m.quantity ELSE Shown(l)
  <2> HIDE DEF m
  <2> QED BY <1>2, <1>3, ShownAfterUpdate DEF ClientInv
<1>6. TapeInv'
  <2>1. ASSUME NEW T, m \notin T, NEW x \in Nat, NEW p \in Nat,
               x + Occurrences(inbox[1], T) + Occurrences(inbox[2], T) <= p
        PROVE  x + Occurrences(inbox'[1], T) + Occurrences(inbox'[2], T) <= p
    <3> DEFINE b == Occurrences(inbox[1], T)
               d == Occurrences(inbox[2], T)
               bb == Occurrences(inbox'[1], T)
               dd == Occurrences(inbox'[2], T)
    <3>1. b \in Nat /\ d \in Nat /\ bb \in Nat /\ dd \in Nat /\ bb + dd = b + d - 0
      BY <2>1, ReceiveOccurrences
    <3>2. x + b + d <= p BY <2>1
    <3> HIDE DEF b, d, bb, dd
    <3>3. x + bb + dd <= p BY <3>1, <3>2
    <3> QED BY <3>3 DEF bb, dd
  <2>2. /\ tape \in Seq(Nat) /\ trade_count \in Nat /\ Pages \in Nat /\ Pages * traded \in Nat
    BY DEF ClientInv, TapeInv, StateTyped, Pages
  <2>3. \A n \in Nat : m \notin {TradeMessage(n)} BY <1>2, MessageKinds
  <2>4. ASSUME NEW n \in Nat
        PROVE  Occurrences(tape, {n}) + Occurrences(inbox'[1], {TradeMessage(n)})
                 + Occurrences(inbox'[2], {TradeMessage(n)}) <= Pages
    <3>1. Occurrences(tape, {n}) + Occurrences(inbox[1], {TradeMessage(n)})
            + Occurrences(inbox[2], {TradeMessage(n)}) <= Pages
      BY DEF ClientInv, TapeInv
    <3>2. Occurrences(tape, {n}) \in Nat BY <2>2, OccurrencesType
    <3> QED BY <2>1, <2>2, <2>3, <3>1, <3>2
  <2>5. trade_count + Occurrences(inbox'[1], Trades) + Occurrences(inbox'[2], Trades)
          <= Pages * traded
    <3>1. trade_count + Occurrences(inbox[1], Trades) + Occurrences(inbox[2], Trades)
            <= Pages * traded
      BY DEF ClientInv, TapeInv
    <3> QED BY <1>2, <2>1, <2>2, <3>1
  <2>6. Pages' = Pages /\ traded' = traded BY <1>1 DEF Taken, Pages, serverVars
  <2> QED BY <1>4, <2>4, <2>5, <2>6 DEF ClientInv, TapeInv
<1>7. TapeOrdered'
  <2> SUFFICES ASSUME ~strict
               PROVE  /\ \A i, j \in DOMAIN tape : i < j => tape[i] > tape[j]
                      /\ \A i \in DOMAIN tape, j \in DOMAIN inbox'[1] :
                           inbox'[1][j] \in Trades => tape[i] < inbox'[1][j].number
                      /\ \A i, j \in DOMAIN inbox'[1] :
                           i < j /\ inbox'[1][i] \in Trades /\ inbox'[1][j] \in Trades
                             => inbox'[1][i].number < inbox'[1][j].number
    BY <1>1, <1>4 DEF TapeOrdered, Taken
  <2> DEFINE s == inbox[1]
             t == inbox'[1]
  <2>1. \A i \in DOMAIN t : i + 1 \in DOMAIN s /\ t[i] = s[i + 1] /\ i \in Nat \ {0}
    <3>1. TailFacts(inbox[1]) /\ inbox'[1] = Tail(inbox[1]) BY <1>1 DEF Taken
    <3> QED BY <3>1, TailIndices
  <2>2. /\ \A i, j \in DOMAIN tape : i < j => tape[i] > tape[j]
        /\ \A i \in DOMAIN tape, j \in DOMAIN s : s[j] \in Trades => tape[i] < s[j].number
        /\ \A i, j \in DOMAIN s :
             i < j /\ s[i] \in Trades /\ s[j] \in Trades => s[i].number < s[j].number
    BY DEF ClientInv, TapeOrdered
  <2> HIDE DEF s, t
  <2>3. \A i \in DOMAIN tape, j \in DOMAIN t : t[j] \in Trades => tape[i] < t[j].number
    BY <2>1, <2>2
  <2>4. ASSUME NEW i \in DOMAIN t, NEW j \in DOMAIN t, i < j, t[i] \in Trades, t[j] \in Trades
        PROVE  t[i].number < t[j].number
    <3>1. i + 1 \in DOMAIN s /\ j + 1 \in DOMAIN s /\ t[i] = s[i + 1] /\ t[j] = s[j + 1]
          /\ i + 1 < j + 1
      BY <2>1, <2>4
    <3> QED BY <2>2, <2>4, <3>1
  <2> QED BY <2>2, <2>3, <2>4 DEF t
<1>8. LevelsFollow'
  <2> SUFFICES ASSUME ~strict, NEW l \in Levels, l \notin missed
               PROVE  \/ LastSays(inbox'[1], l, level[l])
                      \/ l \notin LevelsIn(inbox'[1]) /\ Shown(l)' = level[l]
    BY <1>1 DEF LevelsFollow, Taken, serverVars
  <2>1. inbox[1] \in Seq(Message) /\ inbox[1] # << >> /\ inbox'[1] = Tail(inbox[1])
        /\ Head(inbox[1]) = m
    BY <1>1 DEF Taken
  <2>2. \/ LastSays(inbox[1], l, level[l])
        \/ l \notin LevelsIn(inbox[1]) /\ Shown(l) = level[l]
    BY DEF ClientInv, LevelsFollow
  <2> HIDE DEF m
  <2>3. CASE LastSays(inbox[1], l, level[l])
    <3>1. \/ LastSays(Tail(inbox[1]), l, level[l])
          \/ /\ l \notin LevelsIn(Tail(inbox[1]))
             /\ m \in Changes /\ LevelOf(m) = l /\ m.quantity = level[l]
      BY <2>1, <2>3, LastSaysTail
    <3> QED BY <1>5, <2>1, <3>1
  <2>4. CASE l \notin LevelsIn(inbox[1]) /\ Shown(l) = level[l]
    <3>1. l \notin LevelsIn(Tail(inbox[1])) /\ LevelOf(m) # l
      BY <1>2, <2>1, <2>4, LevelsInTail
    <3> QED BY <1>5, <2>1, <2>4, <3>1
  <2> QED BY <2>2, <2>3, <2>4
<1>9. StateTyped'
  BY <1>1, <1>4 DEF ClientInv, StateTyped, Taken, pollVars, serverVars
<1> QED BY <1>5, <1>6, <1>7, <1>8, <1>9, ReceiveInbox DEF ClientInv

LEMMA ReceiveInv == ASSUME ClientInv, NEW c \in Client, Receive(c) PROVE ClientInv'
<1>1. Head(inbox[c]) \in Message BY ReceiveTakes DEF Taken, TailFacts
<1> QED BY <1>1, TradeReceived, UpdateReceived DEF Message

(* Send ******************************************************************)

\* The message goes to the end of the inbox of each open connection.
SentTo(m, c) ==
    /\ inbox[c] \in Seq(Message) /\ inbox'[c] \in Seq(Message)
    /\ IF conn[c] = "open" THEN inbox'[c] = Append(inbox[c], m) ELSE inbox'[c] = inbox[c]

LEMMA SendReaches ==
  ASSUME ClientInv, NEW m \in Message, Send(m)
  PROVE  /\ inbox' \in [Client -> Seq(Message)]
         /\ \A c \in Client : SentTo(m, c)
         /\ Client = {1, 2}
<1>1. inbox \in [Client -> Seq(Message)] BY DEF ClientInv, InboxInv
<1>2. \A c \in Client : Append(inbox[c], m) \in Seq(Message) BY <1>1, AppendProperties
<1>3. inbox' = [c \in Client |-> IF conn[c] = "open" THEN Append(inbox[c], m) ELSE inbox[c]]
  BY DEF Send
<1>4. inbox' \in [Client -> Seq(Message)] BY <1>1, <1>2, <1>3
<1>5. \A c \in Client : SentTo(m, c) BY <1>1, <1>3, <1>4 DEF SentTo
<1> QED BY <1>4, <1>5 DEF Client

LEMMA SendAppends ==
  ASSUME ClientInv, NEW m \in Message, Send(m), NEW c \in Client, conn[c] = "open"
  PROVE  /\ Len(inbox[c]) \in Nat
         /\ DOMAIN inbox[c] = 1..Len(inbox[c]) /\ DOMAIN inbox'[c] = 1..(Len(inbox[c]) + 1)
         /\ inbox'[c][Len(inbox[c]) + 1] = m
         /\ \A i \in 1..Len(inbox[c]) : inbox'[c][i] = inbox[c][i]
         /\ \A i \in DOMAIN inbox'[c] : i \in DOMAIN inbox[c] \/ i = Len(inbox[c]) + 1
<1> DEFINE s == inbox[c]
           t == inbox'[c]
<1>1. s \in Seq(Message) /\ t = Append(s, m) BY SendReaches DEF SentTo
<1> HIDE DEF s, t
<1>2. Len(s) \in Nat /\ DOMAIN s = 1..Len(s) BY <1>1, LenProperties
<1>3. /\ t \in Seq(Message) /\ Len(t) = Len(s) + 1 /\ t[Len(s) + 1] = m
      /\ \A i \in 1..Len(s) : t[i] = s[i]
  BY <1>1, AppendProperties
<1>4. DOMAIN t = 1..(Len(s) + 1) BY <1>3, LenProperties
<1>5. \A i \in 1..(Len(s) + 1) : i \in 1..Len(s) \/ i = Len(s) + 1 BY <1>2
<1> QED BY <1>2, <1>3, <1>4, <1>5 DEF s, t

LEMMA SendInbox ==
  ASSUME ClientInv, NEW m \in Message, Send(m), strict' = strict, conn' = conn,
         traded' \in Nat, traded <= traded', m \in Trades => m.number \in 1..traded'
  PROVE  InboxInv'
<1>1. /\ inbox' \in [Client -> Seq(Message)] /\ \A c \in Client : SentTo(m, c)
  BY SendReaches
<1>2. \A c \in Client : inbox'[c] # << >> => conn'[c] = "open"
  BY <1>1 DEF SentTo, ClientInv, InboxInv
<1>3. \A c \in Client : \A i \in DOMAIN inbox'[c] :
        inbox'[c][i] \in Trades => inbox'[c][i].number \in 1..traded'
  <2> SUFFICES ASSUME NEW c \in Client, NEW i \in DOMAIN inbox'[c], inbox'[c][i] \in Trades
               PROVE  inbox'[c][i].number \in 1..traded'
    OBVIOUS
  <2>1. /\ \A j \in DOMAIN inbox[c] : inbox[c][j] \in Trades => inbox[c][j].number \in 1..traded
        /\ traded \in Nat
    BY DEF ClientInv, InboxInv, StateTyped
  <2>2. CASE conn[c] # "open" BY <1>1, <2>1, <2>2 DEF SentTo
  <2>3. CASE conn[c] = "open"
    <3>1. \/ i \in DOMAIN inbox[c] /\ inbox'[c][i] = inbox[c][i]
          \/ inbox'[c][i] = m
      BY <2>3, SendAppends
    <3> QED BY <2>1, <3>1
  <2> QED BY <2>2, <2>3
<1> QED BY <1>1, <1>2, <1>3 DEF ClientInv, InboxInv

LEMMA SendOccurrences ==
  ASSUME ClientInv, NEW m \in Message, Send(m), NEW c \in Client, NEW T
  PROVE  /\ Occurrences(inbox[c], T) \in Nat /\ Occurrences(inbox'[c], T) \in Nat
         /\ Occurrences(inbox'[c], T)
              = Occurrences(inbox[c], T) + (IF conn[c] = "open" /\ m \in T THEN 1 ELSE 0)
<1>1. SentTo(m, c) BY SendReaches
<1>2. Occurrences(inbox[c], T) \in Nat /\ Occurrences(inbox'[c], T) \in Nat
  BY <1>1, OccurrencesType DEF SentTo
<1>3. CASE conn[c] = "open"
  <2>1. inbox[c] \in Seq(Message) /\ inbox'[c] = Append(inbox[c], m) BY <1>1, <1>3 DEF SentTo
  <2>2. Occurrences(Append(inbox[c], m), T)
          = Occurrences(inbox[c], T) + (IF m \in T THEN 1 ELSE 0)
    BY <2>1, OccurrencesAppend
  <2> QED BY <1>2, <1>3, <2>1, <2>2
<1>4. CASE conn[c] # "open" BY <1>1, <1>2, <1>4 DEF SentTo
<1> QED BY <1>3, <1>4

LEMMA ChangeLevelInv == ASSUME ClientInv, NEW m \in Changes, ChangeLevel(m) PROVE ClientInv'
<1>1. /\ level' = [level EXCEPT ![LevelOf(m)] = m.quantity]
      /\ Send(m)
      /\ missed' = IF \E c \in Client : conn[c] = "open" THEN missed \ {LevelOf(m)}
                   ELSE missed \cup {LevelOf(m)}
      /\ strict' = strict /\ conn' = conn /\ traded' = traded /\ connected' = connected
      /\ bids' = bids /\ asks' = asks /\ tape' = tape /\ trade_count' = trade_count
      /\ UNCHANGED pollVars /\ updates' = updates + 1
  BY DEF ChangeLevel, appVars
<1>2. /\ m \in Message /\ m \notin Trades /\ LevelOf(m) \in Levels
      /\ m.quantity \in Nat
  BY MessageKinds DEF Message, ChangeType
<1>3. \A c \in {1, 2} : SentTo(m, c) BY <1>1, <1>2, SendReaches
<1>4. StateTyped'
  <2>1. /\ level \in [Levels -> Nat] /\ missed \subseteq Levels /\ updates \in Nat
        /\ traded \in Nat /\ trade_count \in Nat
    BY DEF ClientInv, StateTyped
  <2>2. level' \in [Levels -> Nat] BY <1>1, <1>2, <2>1
  <2>3. missed' \subseteq Levels BY <1>1, <1>2, <2>1
  <2>4. {updates', traded', trade_count'} \subseteq Nat BY <1>1, <2>1
  <2> QED BY <1>1, <2>2, <2>3, <2>4 DEF ClientInv, StateTyped, pollVars
<1>5. InboxInv'
  <2>1. traded \in Nat BY DEF ClientInv, StateTyped
  <2> QED BY <1>1, <1>2, <2>1, SendInbox
<1>6. BookInv' BY <1>1 DEF ClientInv, BookInv, LevelsDrawable
<1>7. TapeInv'
  <2>1. \A c \in {1, 2} : \A T :
          m \notin T => Occurrences(inbox'[c], T) = Occurrences(inbox[c], T)
    <3> SUFFICES ASSUME NEW c \in Client, NEW T, m \notin T
                 PROVE  Occurrences(inbox'[c], T) = Occurrences(inbox[c], T)
      BY DEF Client
    <3> QED BY <1>1, <1>2, SendOccurrences
  <2>2. \A n \in Nat : m \notin {TradeMessage(n)} BY <1>2, MessageKinds
  <2>3. Pages' = Pages BY <1>1 DEF Pages
  <2>4. /\ Occurrences(inbox'[1], Trades) = Occurrences(inbox[1], Trades)
        /\ Occurrences(inbox'[2], Trades) = Occurrences(inbox[2], Trades)
    BY <1>2, <2>1
  <2>5. \A n \in Nat :
          /\ Occurrences(inbox'[1], {TradeMessage(n)}) = Occurrences(inbox[1], {TradeMessage(n)})
          /\ Occurrences(inbox'[2], {TradeMessage(n)}) = Occurrences(inbox[2], {TradeMessage(n)})
    BY <2>1, <2>2
  <2> QED BY <1>1, <2>3, <2>4, <2>5 DEF ClientInv, TapeInv
<1>8. TapeOrdered'
  <2> SUFFICES ASSUME ~strict
               PROVE  /\ \A i \in DOMAIN tape, j \in DOMAIN inbox'[1] :
                           inbox'[1][j] \in Trades => tape[i] < inbox'[1][j].number
                      /\ \A i, j \in DOMAIN inbox'[1] :
                           i < j /\ inbox'[1][i] \in Trades /\ inbox'[1][j] \in Trades
                             => inbox'[1][i].number < inbox'[1][j].number
    BY <1>1 DEF TapeOrdered, ClientInv
  <2>1. \A j \in DOMAIN inbox'[1] : inbox'[1][j] \in Trades =>
          j \in DOMAIN inbox[1] /\ inbox'[1][j] = inbox[1][j]
    <3>1. CASE conn[1] = "open"
      <4>1. \A j \in DOMAIN inbox'[1] :
              \/ j \in DOMAIN inbox[1] /\ inbox'[1][j] = inbox[1][j]
              \/ inbox'[1][j] = m
        BY <1>1, <1>2, <3>1, SendAppends DEF Client
      <4> QED BY <1>2, <4>1
    <3>2. CASE conn[1] # "open" BY <1>3, <3>2 DEF SentTo
    <3> QED BY <3>1, <3>2
  <2>2. /\ \A i \in DOMAIN tape, j \in DOMAIN inbox[1] :
             inbox[1][j] \in Trades => tape[i] < inbox[1][j].number
        /\ \A i, j \in DOMAIN inbox[1] :
             i < j /\ inbox[1][i] \in Trades /\ inbox[1][j] \in Trades
               => inbox[1][i].number < inbox[1][j].number
    BY DEF ClientInv, TapeOrdered
  <2> QED BY <2>1, <2>2
<1>9. LevelsFollow'
  <2> SUFFICES ASSUME ~strict, NEW l \in Levels, l \notin missed'
               PROVE  \/ LastSays(inbox'[1], l, level'[l])
                      \/ l \notin LevelsIn(inbox'[1]) /\ Shown(l)' = level'[l]
    BY <1>1 DEF LevelsFollow
  <2>1. (\E c \in Client : conn[c] = "open") <=> conn[1] = "open"
    BY DEF ClientInv, InboxInv, Client
  <2>2. /\ l = LevelOf(m) => level'[l] = m.quantity
        /\ l # LevelOf(m) => level'[l] = level[l]
    BY <1>1, <1>2 DEF ClientInv, StateTyped
  <2>3. Shown(l)' = Shown(l) BY <1>1 DEF Shown
  <2>4. l # LevelOf(m) => \/ LastSays(inbox[1], l, level[l])
                          \/ l \notin LevelsIn(inbox[1]) /\ Shown(l) = level[l]
    BY <1>1 DEF ClientInv, LevelsFollow
  <2>5. CASE conn[1] = "open"
    <3>1. inbox[1] \in Seq(Message) /\ inbox'[1] = Append(inbox[1], m) BY <1>3, <2>5 DEF SentTo
    <3>2. /\ l = LevelOf(m) => LastSays(Append(inbox[1], m), l, m.quantity)
          /\ l # LevelOf(m) =>
               /\ LastSays(inbox[1], l, level[l]) => LastSays(Append(inbox[1], m), l, level[l])
               /\ l \notin LevelsIn(inbox[1]) => l \notin LevelsIn(Append(inbox[1], m))
      BY <1>2, <3>1, LastSaysAppend
    <3> QED BY <2>2, <2>3, <2>4, <3>1, <3>2
  <2>6. CASE conn[1] # "open"
    <3>1. inbox'[1] = inbox[1] BY <1>3, <2>6 DEF SentTo
    <3>2. l # LevelOf(m) BY <1>1, <2>1, <2>6
    <3> QED BY <2>2, <2>3, <2>4, <3>1, <3>2
  <2> QED BY <2>5, <2>6
<1> QED BY <1>4, <1>5, <1>6, <1>7, <1>8, <1>9 DEF ClientInv

\* A new trade is newer than all that are under way or on the tape.
LEMMA TradeInv == ASSUME ClientInv, Trade PROVE ClientInv'
<1> DEFINE m == TradeMessage(traded + 1)
<1>1. /\ traded' = traded + 1 /\ Send(m) /\ updates' = updates /\ level' = level
      /\ strict' = strict /\ conn' = conn /\ missed' = missed /\ connected' = connected
      /\ bids' = bids /\ asks' = asks /\ tape' = tape /\ trade_count' = trade_count
      /\ UNCHANGED pollVars
  BY DEF Trade, appVars
<1>2. traded \in Nat /\ trade_count \in Nat /\ Pages \in {1, 2}
  BY DEF ClientInv, StateTyped, Pages
<1>3. m \in Message /\ m \in Trades /\ m \notin Changes /\ m.number = traded + 1
  BY <1>2, MessageKinds DEF Message
<1> HIDE DEF m
<1>4. \A c \in {1, 2} : SentTo(m, c) BY <1>1, <1>3, SendReaches
<1>5. StateTyped' BY <1>1, <1>2 DEF ClientInv, StateTyped, pollVars
<1>6. InboxInv' BY <1>1, <1>2, <1>3, SendInbox
<1>7. BookInv' BY <1>1 DEF ClientInv, BookInv, LevelsDrawable
<1> DEFINE x == IF conn[1] = "open" THEN 1 ELSE 0
           y == IF conn[2] = "open" THEN 1 ELSE 0
<1>8. x \in {0, 1} /\ y \in {0, 1} /\ x + y <= Pages
  BY DEF ClientInv, InboxInv, Pages
<1>9. \A T : /\ Occurrences(inbox[1], T) \in Nat /\ Occurrences(inbox[2], T) \in Nat
             /\ Occurrences(inbox'[1], T) = Occurrences(inbox[1], T) + (IF m \in T THEN x ELSE 0)
             /\ Occurrences(inbox'[2], T) = Occurrences(inbox[2], T) + (IF m \in T THEN y ELSE 0)
  <2> TAKE T
  <2>1. 1 \in Client /\ 2 \in Client BY DEF Client
  <2>2. /\ Occurrences(inbox[1], T) \in Nat
        /\ Occurrences(inbox'[1], T)
             = Occurrences(inbox[1], T) + (IF conn[1] = "open" /\ m \in T THEN 1 ELSE 0)
    BY <1>1, <1>3, <2>1, SendOccurrences
  <2>3. /\ Occurrences(inbox[2], T) \in Nat
        /\ Occurrences(inbox'[2], T)
             = Occurrences(inbox[2], T) + (IF conn[2] = "open" /\ m \in T THEN 1 ELSE 0)
    BY <1>1, <1>3, <2>1, SendOccurrences
  <2> QED BY <2>2, <2>3
<1> HIDE DEF x, y
<1>10. \A c \in {1, 2} : \A i \in DOMAIN inbox[c] :
         inbox[c][i] \in Trades => inbox[c][i].number \in 1..traded
  BY DEF ClientInv, InboxInv, Client
<1>11. /\ tape \in Seq(Nat) /\ Len(tape) <= TapeLength
       /\ \A i \in DOMAIN tape : tape[i] \in 1..traded
  BY DEF ClientInv, TapeInv
<1>12. TapeInv'
  <2>1. Pages' = Pages BY <1>1 DEF Pages
  <2>2. ASSUME NEW n \in Nat
        PROVE  Occurrences(tape, {n}) + Occurrences(inbox'[1], {TradeMessage(n)})
                 + Occurrences(inbox'[2], {TradeMessage(n)}) <= Pages
    <3>1. CASE n = traded + 1
      <4>1. Occurrences(tape, {n}) = 0
        <5>1. \A i \in DOMAIN tape : tape[i] \notin {n} BY <1>2, <1>11, <3>1
        <5> QED BY <5>1, NoOccurrence
      <4>2. \A c \in {1, 2} : Occurrences(inbox[c], {TradeMessage(n)}) = 0
        <5> TAKE c \in {1, 2}
        <5>1. TradeMessage(n) \in Trades /\ TradeMessage(n).number = n BY MessageKinds
        <5>2. \A i \in DOMAIN inbox[c] : inbox[c][i] \notin {TradeMessage(n)}
          BY <1>2, <1>10, <3>1, <5>1
        <5> QED BY <5>2, NoOccurrence
      <4>3. m \in {TradeMessage(n)} BY <3>1 DEF m
      <4>4. /\ Occurrences(inbox'[1], {TradeMessage(n)}) = x
            /\ Occurrences(inbox'[2], {TradeMessage(n)}) = y
        BY <1>8, <1>9, <4>2, <4>3
      <4> QED BY <1>2, <1>8, <4>1, <4>4
    <3>2. CASE n # traded + 1
      <4>1. m \notin {TradeMessage(n)} BY <1>3, <3>2, MessageKinds
      <4>2. /\ Occurrences(inbox'[1], {TradeMessage(n)}) = Occurrences(inbox[1], {TradeMessage(n)})
            /\ Occurrences(inbox'[2], {TradeMessage(n)}) = Occurrences(inbox[2], {TradeMessage(n)})
        BY <1>9, <4>1
      <4> QED BY <4>2 DEF ClientInv, TapeInv
    <3> QED BY <3>1, <3>2
  <2>3. trade_count + Occurrences(inbox'[1], Trades) + Occurrences(inbox'[2], Trades)
          <= Pages * (traded + 1)
    <3> DEFINE b == Occurrences(inbox[1], Trades)
               d == Occurrences(inbox[2], Trades)
    <3>1. /\ b \in Nat /\ d \in Nat
          /\ Occurrences(inbox'[1], Trades) = b + x /\ Occurrences(inbox'[2], Trades) = d + y
      BY <1>3, <1>9
    <3>2. trade_count + b + d <= Pages * traded BY DEF ClientInv, TapeInv
    <3>3. Pages * (traded + 1) = Pages * traded + Pages /\ Pages * traded \in Nat BY <1>2
    <3> DEFINE p == Pages * traded
    <3> HIDE DEF b, d, p
    <3>4. trade_count + (b + x) + (d + y) <= p + Pages
      <4>1. trade_count + b + d <= p /\ p \in Nat BY <3>2, <3>3 DEF p
      <4> QED BY <1>2, <1>8, <3>1, <4>1
    <3> QED BY <3>1, <3>3, <3>4 DEF p
  <2>4. \A i \in DOMAIN tape : tape[i] \in 1..(traded + 1) BY <1>2, <1>11
  <2> QED BY <1>1, <1>11, <2>1, <2>2, <2>3, <2>4 DEF TapeInv
<1>13. TapeOrdered'
  <2> SUFFICES ASSUME ~strict
               PROVE  /\ \A i \in DOMAIN tape, j \in DOMAIN inbox'[1] :
                           inbox'[1][j] \in Trades => tape[i] < inbox'[1][j].number
                      /\ \A i, j \in DOMAIN inbox'[1] :
                           i < j /\ inbox'[1][i] \in Trades /\ inbox'[1][j] \in Trades
                             => inbox'[1][i].number < inbox'[1][j].number
    BY <1>1 DEF TapeOrdered, ClientInv
  <2>1. /\ \A i \in DOMAIN tape, j \in DOMAIN inbox[1] :
             inbox[1][j] \in Trades => tape[i] < inbox[1][j].number
        /\ \A i, j \in DOMAIN inbox[1] :
             i < j /\ inbox[1][i] \in Trades /\ inbox[1][j] \in Trades
               => inbox[1][i].number < inbox[1][j].number
    BY DEF ClientInv, TapeOrdered
  <2>2. CASE conn[1] # "open" BY <1>4, <2>1, <2>2 DEF SentTo
  <2>3. CASE conn[1] = "open"
    <3> DEFINE s == inbox[1]
               t == inbox'[1]
               n == Len(s) + 1
    <3>1. /\ Len(s) \in Nat /\ DOMAIN s = 1..Len(s) /\ DOMAIN t = 1..n /\ t[n] = m
          /\ \A i \in 1..Len(s) : t[i] = s[i]
          /\ \A i \in DOMAIN t : i \in DOMAIN s \/ i = n
      BY <1>1, <1>3, <2>3, SendAppends DEF Client
    <3>2. \A j \in DOMAIN s : s[j] \in Trades => s[j].number \in 1..traded BY <1>10
    <3>3. /\ \A i \in DOMAIN tape, j \in DOMAIN s : s[j] \in Trades => tape[i] < s[j].number
          /\ \A i, j \in DOMAIN s :
               i < j /\ s[i] \in Trades /\ s[j] \in Trades => s[i].number < s[j].number
      BY <2>1
    <3> HIDE DEF s, t
    <3>4. ASSUME NEW i \in DOMAIN tape, NEW j \in DOMAIN t, t[j] \in Trades
          PROVE  tape[i] < t[j].number
      <4>1. CASE j \in DOMAIN s BY <3>1, <3>3, <3>4, <4>1
      <4>2. CASE j = n BY <1>2, <1>3, <1>11, <3>1, <4>2
      <4> QED BY <3>1, <4>1, <4>2
    <3>5. ASSUME NEW i \in DOMAIN t, NEW j \in DOMAIN t, i < j, t[i] \in Trades, t[j] \in Trades
          PROVE  t[i].number < t[j].number
      <4>1. i \in DOMAIN s BY <3>1, <3>5
      <4>2. CASE j \in DOMAIN s BY <3>1, <3>3, <3>5, <4>1, <4>2
      <4>3. CASE j = n
        <5>1. t[i].number \in 1..traded BY <3>1, <3>2, <3>5, <4>1
        <5> QED BY <1>2, <1>3, <3>1, <4>3, <5>1
      <4> QED BY <3>1, <4>2, <4>3
    <3> QED BY <3>4, <3>5 DEF t
  <2> QED BY <2>2, <2>3
<1>14. LevelsFollow'
  <2> SUFFICES ASSUME ~strict, NEW l \in Levels, l \notin missed
               PROVE  \/ LastSays(inbox'[1], l, level[l])
                      \/ l \notin LevelsIn(inbox'[1]) /\ Shown(l)' = level[l]
    BY <1>1 DEF LevelsFollow
  <2>1. Shown(l)' = Shown(l) BY <1>1 DEF Shown
  <2>2. \/ LastSays(inbox[1], l, level[l])
        \/ l \notin LevelsIn(inbox[1]) /\ Shown(l) = level[l]
    BY DEF ClientInv, LevelsFollow
  <2>3. inbox[1] \in Seq(Message) /\ (inbox'[1] = Append(inbox[1], m) \/ inbox'[1] = inbox[1])
    BY <1>4 DEF SentTo
  <2>4. /\ LastSays(inbox[1], l, level[l]) => LastSays(Append(inbox[1], m), l, level[l])
        /\ l \notin LevelsIn(inbox[1]) => l \notin LevelsIn(Append(inbox[1], m))
    BY <1>3, <2>3, LastSaysAppend
  <2> QED BY <2>1, <2>2, <2>3, <2>4
<1> QED BY <1>5, <1>6, <1>7, <1>12, <1>13, <1>14 DEF ClientInv

LEMMA ClientStep == ClientInv /\ [Next]_vars => ClientInv'
<1> SUFFICES ASSUME ClientInv, [Next]_vars PROVE ClientInv' OBVIOUS
<1>1. CASE Mount BY <1>1, MountInv
<1>2. CASE \E c \in Client : Opened(c) \/ Closed(c) \/ Reconnect(c) \/ Receive(c)
  BY <1>2, OpenedInv, ClosedInv, ReceiveInv
<1>3. CASE Fetch \/ ProcessOrder \/ \E n \in fetches : FetchDone(n) \/ FetchFails(n)
  BY <1>3, PollInv
<1>4. CASE \E m \in Changes : ChangeLevel(m) BY <1>4, ChangeLevelInv
<1>5. CASE Trade BY <1>5, TradeInv
<1>6. CASE UNCHANGED vars
  <2>1. BookInv' /\ TapeInv' /\ TapeOrdered' /\ LevelsFollow'
    BY <1>6, PageKept DEF vars, appVars, pageVars
  <2>2. InboxInv' BY <1>6 DEF ClientInv, InboxInv, vars, serverVars
  <2>3. StateTyped' BY <1>6 DEF ClientInv, StateTyped, vars, serverVars, appVars, pollVars
  <2> QED BY <2>1, <2>2, <2>3 DEF ClientInv
<1> QED BY <1>1, <1>2, <1>3, <1>4, <1>5, <1>6 DEF Next

LEMMA ClientInvariance == Spec => []ClientInv
BY ClientInit, ClientStep, PTL DEF Spec

(* The theorems **********************************************************)

\* Every variable of the page and the server has its type; messages are under
\* way on open connections only, and no trade that the server did not make.
THEOREM PageTypes == Spec => []TypeOK
<1>1. ASSUME ClientInv PROVE TypeOK
  <2>1. StateTyped /\ InboxInv /\ TapeInv BY <1>1 DEF ClientInv
  <2>2. \A c \in Client : \A i \in DOMAIN inbox[c] :
          inbox[c][i] \in Changes \cup [type : {"trade"}, number : 1..traded]
    <3> SUFFICES ASSUME NEW c \in Client, NEW i \in DOMAIN inbox[c], inbox[c][i] \notin Changes
                 PROVE  inbox[c][i] \in [type : {"trade"}, number : 1..traded]
      OBVIOUS
    <3>1. inbox[c] \in Seq(Message) BY <2>1 DEF InboxInv
    <3>2. inbox[c][i] \in Trades BY <3>1, LenProperties, ElementOfSeq DEF Message
    <3>3. inbox[c][i].number \in 1..traded BY <2>1, <3>2 DEF InboxInv
    <3>4. inbox[c][i] = TradeMessage(inbox[c][i].number) BY <3>2, MessageKinds
    <3> QED BY <3>3, <3>4 DEF TradeMessage
  <2> QED BY <2>1, <2>2 DEF TypeOK, StateTyped, InboxInv, TapeInv
<1> QED BY <1>1, ClientInvariance, PTL

\* The copy of the book on the page can be drawn in every state, whatever the
\* server sends, however often the connection is lost and in both builds.
THEOREM BookCanBeDrawn == Spec => []LevelsDrawable
<1>1. ClientInv => LevelsDrawable BY DEF ClientInv, BookInv
<1> QED BY <1>1, ClientInvariance, PTL

\* A level that a page with one client shows wrongly is one whose newest change
\* was lost with a connection or is still under way.
THEOREM StaleLevelsWereMissed == Spec => []StaleOnlyIfMissed
<1>1. ASSUME ClientInv PROVE StaleOnlyIfMissed
  <2> SUFFICES ASSUME ~strict, NEW l \in Levels, l \notin missed, l \notin LevelsIn(inbox[1])
               PROVE  Shown(l) = level[l]
    BY DEF StaleOnlyIfMissed
  <2>1. \/ LastSays(inbox[1], l, level[l])
        \/ Shown(l) = level[l]
    BY <1>1 DEF ClientInv, LevelsFollow
  <2>2. inbox[1] \in Seq(Message) BY <1>1 DEF ClientInv, InboxInv, Client
  <2>3. ~ LastSays(inbox[1], l, level[l]) BY <2>2, LastSaysUnfold, LevelsInMessages
  <2> QED BY <2>1, <2>3
<1> QED BY <1>1, ClientInvariance, PTL

\* No trade is on the tape more often than the page has clients, and with one
\* the tape is newest first and the count never ahead of the server's.
THEOREM TapeShowsEachTradeOnce == Spec => []TradesTapeSound
<1>1. ASSUME ClientInv PROVE TradesTapeSound
  <2>1. /\ traded \in Nat /\ trade_count \in Nat
        /\ inbox[1] \in Seq(Message) /\ inbox[2] \in Seq(Message)
    BY <1>1 DEF ClientInv, StateTyped, InboxInv, Client
  <2>2. \A T : Occurrences(inbox[1], T) \in Nat /\ Occurrences(inbox[2], T) \in Nat
    BY <2>1, OccurrencesType
  <2>3. ASSUME NEW n \in 1..traded PROVE Copies(n) <= IF strict THEN 2 ELSE 1
    <3>1. Occurrences(tape, {n}) + Occurrences(inbox[1], {TradeMessage(n)})
            + Occurrences(inbox[2], {TradeMessage(n)}) <= Pages
      BY <1>1, <2>1 DEF ClientInv, TapeInv
    <3>2. Occurrences(tape, {n}) \in Nat BY <1>1, OccurrencesType DEF ClientInv, TapeInv
    <3>3. Occurrences(tape, {n}) <= Pages BY <2>2, <3>1, <3>2 DEF Pages
    <3>4. {i \in DOMAIN tape : tape[i] \in {n}} = {i \in DOMAIN tape : tape[i] = n} OBVIOUS
    <3> QED BY <3>3, <3>4 DEF Copies, Occurrences, Pages
  <2>4. trade_count <= IF strict THEN 2 * traded ELSE traded
    <3>1. trade_count + Occurrences(inbox[1], Trades) + Occurrences(inbox[2], Trades)
            <= Pages * traded
      BY <1>1 DEF ClientInv, TapeInv
    <3>2. Pages * traded = IF strict THEN 2 * traded ELSE traded BY <2>1 DEF Pages
    <3> QED BY <2>1, <2>2, <3>1, <3>2
  <2>5. ~strict => \A i, j \in DOMAIN tape : i < j => tape[i] > tape[j]
    BY <1>1 DEF ClientInv, TapeOrdered
  <2> QED BY <2>3, <2>4, <2>5 DEF TradesTapeSound
<1> QED BY <1>1, ClientInvariance, PTL
==================================================================================
