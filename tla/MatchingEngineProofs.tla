---------------------------- MODULE MatchingEngineProofs ----------------------------
(***************************************************************************)
(* Proofs about MatchingEngine and Feed.  The books stay sound, and a      *)
(* client that hears the callbacks knows them, whatever is submitted, as   *)
(* long as the engine assigns no id that a client has chosen; events are   *)
(* answered in order, and the feed counts as FeedCounts says, always.      *)
(*                                                                         *)
(* The match of an order is a recursive function of the number of its      *)
(* iterations, and so is what a client hears of its trades: both are shown *)
(* to exist, and an invariant of the iterations is proved by induction.    *)
(***************************************************************************)
EXTENDS Feed, BookOpsProofs

(* Matched and HearTrades unfolded ****************************************)

\* The iterations of Matched(b, o): what `run' is at i, when it is g below i.
Steps(b) == Cardinality(DOMAIN b.heap) + 1
RunStep(b, o, g, i) ==
    IF i = 0 THEN [book |-> b, order |-> o, trades |-> << >>] ELSE Iterate(g[i - 1])

\* `run' in Matched(b, o).
Run(b, o) == CHOOSE g : g = [i \in 0..Steps(b) |-> RunStep(b, o, g, i)]

LEMMA MatchedIsRun ==
  ASSUME NEW b, NEW o
  PROVE  LET m == Run(b, o)[Steps(b)] IN
         Matched(b, o) =
           [book   |-> IF Rests(m.order) THEN Added(m.book, m.order) ELSE m.book,
            status |-> FinalStatus(m.order),
            trades |-> IF Killed(m.order) THEN << >> ELSE m.trades]
BY DEF Matched, Run, RunStep, Steps

\* By induction on n, on the set of the numbers up to which there is a run.
LEMMA RunExists ==
  ASSUME NEW b, NEW o, NEW n \in Nat
  PROVE  \E g : g = [i \in 0..n |-> RunStep(b, o, g, i)]
<1> DEFINE T == {k \in Nat : \E g : g = [i \in 0..k |-> RunStep(b, o, g, i)]}
<1>1. 0 \in T
  <2> DEFINE g == [i \in 0..0 |-> RunStep(b, o, << >>, 0)]
  <2>1. g = [i \in 0..0 |-> RunStep(b, o, g, i)]
    <3>1. \A i \in 0..0 : RunStep(b, o, g, i) = RunStep(b, o, << >>, 0) BY DEF RunStep
    <3> QED BY <3>1
  <2> HIDE DEF g
  <2> QED BY <2>1
<1>2. ASSUME NEW k \in Nat, k \in T PROVE k + 1 \in T
  <2>1. PICK g : g = [i \in 0..k |-> RunStep(b, o, g, i)] BY <1>2
  <2> DEFINE h == [i \in 0..(k + 1) |->
                     IF i <= k THEN g[i] ELSE RunStep(b, o, g, k + 1)]
  <2>2. ASSUME NEW i \in 0..(k + 1) PROVE h[i] = RunStep(b, o, h, i)
    <3>1. i = 0 \/ h[i - 1] = g[i - 1] OBVIOUS
    <3>2. RunStep(b, o, h, i) = RunStep(b, o, g, i) BY <3>1 DEF RunStep
    <3>3. i <= k => g[i] = RunStep(b, o, g, i) BY <2>1
    <3>4. i <= k \/ i = k + 1 OBVIOUS
    <3> QED BY <3>2, <3>3, <3>4
  <2>3. h = [i \in 0..(k + 1) |-> RunStep(b, o, h, i)]
    <3>1. h = [i \in 0..(k + 1) |-> h[i]] OBVIOUS
    <3> HIDE DEF h
    <3> QED BY <2>2, <3>1
  <2> HIDE DEF h
  <2> QED BY <2>3
<1> HIDE DEF T
<1>3. \A i \in Nat : i \in T BY <1>1, <1>2, SetInduction
<1> QED BY <1>3 DEF T

LEMMA StepsAreFinite ==
  ASSUME NEW b, BookType(b)
  PROVE  Steps(b) \in Nat \ {0}
<1>1. Cardinality(DOMAIN b.heap) \in Nat BY HeapIsFinite, FS_CardinalityType
<1> QED BY <1>1 DEF Steps

LEMMA RunUnfold ==
  ASSUME NEW b, BookType(b), NEW o, NEW i \in 0..Steps(b)
  PROVE  Run(b, o)[i] = RunStep(b, o, Run(b, o), i)
<1>1. Steps(b) \in Nat BY StepsAreFinite
<1>2. \E g : g = [j \in 0..Steps(b) |-> RunStep(b, o, g, j)] BY <1>1, RunExists
<1>3. Run(b, o) = [j \in 0..Steps(b) |-> RunStep(b, o, Run(b, o), j)]
  BY <1>2, Zenon DEF Run
<1> QED BY <1>3

\* `heard' in HearTrades(orders, trades).
HeardStep(orders, trades, g, i) ==
    IF i = 0 THEN orders ELSE HearTrade(g[i - 1], trades[i])
HeardTable(orders, trades) ==
    CHOOSE g : g = [i \in 0..Len(trades) |-> HeardStep(orders, trades, g, i)]

LEMMA HearTradesIsTable ==
  ASSUME NEW orders, NEW trades
  PROVE  HearTrades(orders, trades) = HeardTable(orders, trades)[Len(trades)]
BY DEF HearTrades, HeardTable, HeardStep

LEMMA HeardExists ==
  ASSUME NEW orders, NEW trades, NEW n \in Nat
  PROVE  \E g : g = [i \in 0..n |-> HeardStep(orders, trades, g, i)]
<1> DEFINE T == {k \in Nat : \E g : g = [i \in 0..k |-> HeardStep(orders, trades, g, i)]}
<1>1. 0 \in T
  <2> DEFINE g == [i \in 0..0 |-> orders]
  <2>1. g = [i \in 0..0 |-> HeardStep(orders, trades, g, i)]
    <3>1. \A i \in 0..0 : HeardStep(orders, trades, g, i) = orders BY DEF HeardStep
    <3> QED BY <3>1
  <2> HIDE DEF g
  <2> QED BY <2>1
<1>2. ASSUME NEW k \in Nat, k \in T PROVE k + 1 \in T
  <2>1. PICK g : g = [i \in 0..k |-> HeardStep(orders, trades, g, i)] BY <1>2
  <2> DEFINE h == [i \in 0..(k + 1) |->
                     IF i <= k THEN g[i] ELSE HeardStep(orders, trades, g, k + 1)]
  <2>2. ASSUME NEW i \in 0..(k + 1) PROVE h[i] = HeardStep(orders, trades, h, i)
    <3>1. i = 0 \/ h[i - 1] = g[i - 1] OBVIOUS
    <3>2. HeardStep(orders, trades, h, i) = HeardStep(orders, trades, g, i)
      BY <3>1 DEF HeardStep
    <3>3. i <= k => g[i] = HeardStep(orders, trades, g, i) BY <2>1
    <3>4. i <= k \/ i = k + 1 OBVIOUS
    <3> QED BY <3>2, <3>3, <3>4
  <2>3. h = [i \in 0..(k + 1) |-> HeardStep(orders, trades, h, i)]
    <3>1. h = [i \in 0..(k + 1) |-> h[i]] OBVIOUS
    <3> HIDE DEF h
    <3> QED BY <2>2, <3>1
  <2> HIDE DEF h
  <2> QED BY <2>3
<1> HIDE DEF T
<1>3. \A i \in Nat : i \in T BY <1>1, <1>2, SetInduction
<1> QED BY <1>3 DEF T

LEMMA HeardUnfold ==
  ASSUME NEW orders, NEW S, NEW trades \in Seq(S), NEW i \in 0..Len(trades)
  PROVE  HeardTable(orders, trades)[i] =
           HeardStep(orders, trades, HeardTable(orders, trades), i)
<1>1. Len(trades) \in Nat BY LenProperties
<1>2. \E g : g = [j \in 0..Len(trades) |-> HeardStep(orders, trades, g, j)]
  BY <1>1, HeardExists
<1>3. HeardTable(orders, trades) =
        [j \in 0..Len(trades) |-> HeardStep(orders, trades, HeardTable(orders, trades), j)]
  BY <1>2, Zenon DEF HeardTable
<1> QED BY <1>3

LEMMA NothingHeard == ASSUME NEW orders PROVE HearTrades(orders, << >>) = orders
<1>1. << >> \in Seq({}) /\ Len(<< >>) = 0 /\ 0 \in 0..0 OBVIOUS
<1>2. HeardTable(orders, << >>)[0] = HeardStep(orders, << >>, HeardTable(orders, << >>), 0)
  BY <1>1, HeardUnfold
<1> QED BY <1>1, <1>2, HearTradesIsTable DEF HeardStep

\* One trade more is heard after the others.
LEMMA OneMoreHeard ==
  ASSUME NEW orders, NEW S, NEW trades \in Seq(S), NEW t \in S
  PROVE  HearTrades(orders, Append(trades, t)) = HearTrade(HearTrades(orders, trades), t)
<1> DEFINE u == HeardTable(orders, trades)
           more == Append(trades, t)
           v == HeardTable(orders, more)
           T == {i \in 0..Len(trades) : u[i] = v[i]}
<1>0. /\ Len(trades) \in Nat /\ more \in Seq(S) /\ Len(more) = Len(trades) + 1
      /\ \A i \in 1..Len(trades) : more[i] = trades[i]
      /\ more[Len(trades) + 1] = t
  BY LenProperties, AppendProperties
<1> HIDE DEF more
<1>1. \A i \in 0..Len(trades) : u[i] = HeardStep(orders, trades, u, i) BY HeardUnfold
<1>2. \A i \in 0..Len(more) : v[i] = HeardStep(orders, more, v, i) BY <1>0, HeardUnfold
<1> HIDE DEF u, v
<1>3. 0 \in T
  <2>1. 0 \in 0..Len(trades) /\ 0 \in 0..Len(more) BY <1>0
  <2>2. u[0] = orders /\ v[0] = orders BY <1>1, <1>2, <2>1 DEF HeardStep
  <2> QED BY <2>1, <2>2
<1>4. ASSUME NEW i \in 0..(Len(trades) - 1), i \in T PROVE i + 1 \in T
  <2>1. /\ i + 1 \in 1..Len(trades) /\ (i + 1) - 1 = i /\ i + 1 # 0
        /\ i + 1 \in 0..Len(trades) /\ i + 1 \in 0..Len(more)
    BY <1>0
  <2>2. more[i + 1] = trades[i + 1] BY <1>0, <2>1
  <2>3. HeardStep(orders, more, v, i + 1) = HeardStep(orders, trades, u, i + 1)
    BY <1>4, <2>1, <2>2 DEF HeardStep
  <2> QED BY <1>1, <1>2, <2>1, <2>3
<1> HIDE DEF T
<1>5. \A i \in 0..Len(trades) : i \in T BY <1>0, <1>3, <1>4, UpToInduction
<1>6. u[Len(trades)] = v[Len(trades)]
  <2>1. Len(trades) \in 0..Len(trades) BY <1>0
  <2> QED BY <1>5, <2>1 DEF T
<1>7. v[Len(trades) + 1] = HearTrade(v[Len(trades)], t)
  <2>1. Len(trades) + 1 \in 0..Len(more) /\ Len(trades) + 1 # 0
        /\ (Len(trades) + 1) - 1 = Len(trades)
    BY <1>0
  <2>2. v[Len(trades) + 1] = HeardStep(orders, more, v, Len(trades) + 1) BY <1>2, <2>1, Zenon
  <2> QED BY <1>0, <2>1, <2>2 DEF HeardStep
<1>8. HearTrades(orders, trades) = u[Len(trades)] BY HearTradesIsTable DEF u
<1>9. HearTrades(orders, more) = v[Len(more)] BY HearTradesIsTable DEF v
<1> QED BY <1>0, <1>6, <1>7, <1>8, <1>9 DEF more

(* What rests after an operation ******************************************)

SoundBook(b) == BookInv(b) /\ FullyIndexed(b) /\ NotOverfilled(b)

LEMMA NodeOf ==
  ASSUME NEW b, BookInv(b), NEW id \in DOMAIN b.orders
  PROVE  /\ b.orders[id] \in DOMAIN b.heap
         /\ b.heap[b.orders[id]].id = id
         /\ b.heap[b.orders[id]] \in Order
         /\ id \in OrderIds
BY DEF BookInv, Indexed, BookType, PartialFunction

\* Every id that rests has one quantity left, a natural number.
LEMMA RestingTyped ==
  ASSUME NEW b, SoundBook(b)
  PROVE  PartialFunction(RestingIn(b), OrderIds, Nat)
<1>1. BookInv(b) /\ NotOverfilled(b) BY DEF SoundBook
<1>2. ASSUME NEW id \in DOMAIN b.orders
      PROVE  Remaining(b.heap[b.orders[id]]) \in Nat /\ id \in OrderIds
  <2>1. /\ b.orders[id] \in DOMAIN b.heap
        /\ b.heap[b.orders[id]] \in Order
        /\ id \in OrderIds
    BY <1>1, NodeOf
  <2>2. b.heap[b.orders[id]].filled <= b.heap[b.orders[id]].quantity
    BY <1>1, <2>1 DEF NotOverfilled
  <2> QED BY <2>1, <2>2 DEF Remaining, Order
<1> QED BY <1>2 DEF RestingIn, PartialFunction

LEMMA NewBookResting == SoundBook(NewBook) /\ RestingIn(NewBook) = [id \in {} |-> 0]
<1>1. BookInv(NewBook) /\ DOMAIN NewBook.heap = {} BY NewBookSound
<1>2. DOMAIN NewBook.orders = {} BY DEF NewBook
<1>3. RestingIn(NewBook) = [id \in {} |-> 0] BY <1>2 DEF RestingIn
<1> QED BY <1>1, <1>3 DEF SoundBook, FullyIndexed, NotOverfilled

LEMMA AddedResting ==
  ASSUME NEW b, BookInv(b), NEW o \in Order
  PROVE  RestingIn(Added(b, o)) = Put(RestingIn(b), o.id, Remaining(o))
<1> DEFINE c == Added(b, o)
<1>1. /\ DOMAIN c.orders = DOMAIN b.orders \cup {o.id}
      /\ c.orders[o.id] = b.fresh
      /\ \A id \in DOMAIN b.orders : id # o.id => c.orders[id] = b.orders[id]
      /\ c.heap[b.fresh] = o
      /\ \A m \in DOMAIN b.heap : c.heap[m] = b.heap[m]
  <2>1. BookType(b) BY DEF BookInv
  <2> HIDE DEF c
  <2>2. /\ c.orders \in [DOMAIN b.orders \cup {o.id} -> Node]
        /\ c.orders[o.id] = b.fresh
        /\ \A id \in DOMAIN b.orders : id # o.id => c.orders[id] = b.orders[id]
    BY <2>1, AddedOrders DEF c
  <2>3. c.heap[b.fresh] = o /\ \A m \in DOMAIN b.heap : c.heap[m] = b.heap[m]
    BY <2>1, FreshIsFree, AddedHeap DEF c
  <2> QED BY <2>2, <2>3
<1> HIDE DEF c
<1>2. ASSUME NEW id \in DOMAIN b.orders, id # o.id
      PROVE  c.heap[c.orders[id]] = b.heap[b.orders[id]]
  BY <1>1, <1>2, NodeOf
<1>3. DOMAIN RestingIn(b) = DOMAIN b.orders BY DEF RestingIn
<1>4. ASSUME NEW id \in DOMAIN c.orders
      PROVE  Remaining(c.heap[c.orders[id]]) =
               IF id = o.id THEN Remaining(o) ELSE RestingIn(b)[id]
  BY <1>1, <1>2 DEF RestingIn
<1>5. RestingIn(c) = Put(RestingIn(b), o.id, Remaining(o))
  BY <1>1, <1>3, <1>4 DEF RestingIn, Put
<1> QED BY <1>5 DEF c

LEMMA ReleasedResting ==
  ASSUME NEW b, BookInv(b), FullyIndexed(b), NEW n \in DOMAIN b.heap
  PROVE  RestingIn(Released(b, n)) = Without(RestingIn(b), b.heap[n].id)
<1> DEFINE c == Released(b, n)
           x == b.heap[n].id
<1>1. /\ DOMAIN c.orders = DOMAIN b.orders \ {x}
      /\ \A id \in DOMAIN c.orders : c.orders[id] = b.orders[id]
      /\ \A m \in DOMAIN b.heap \ {n} : c.heap[m] = b.heap[m]
  BY DEF Released, Restrict
<1> HIDE DEF c
<1>2. ASSUME NEW id \in DOMAIN c.orders
      PROVE  Remaining(c.heap[c.orders[id]]) = RestingIn(b)[id]
  <2>1. id \in DOMAIN b.orders /\ id # x BY <1>1
  <2>2. b.orders[id] \in DOMAIN b.heap \ {n} BY <2>1, NodeOf
  <2> QED BY <1>1, <2>1, <2>2 DEF RestingIn
<1>3. DOMAIN RestingIn(b) = DOMAIN b.orders BY DEF RestingIn
<1>4. RestingIn(c) = [id \in DOMAIN b.orders \ {x} |-> RestingIn(b)[id]]
  BY <1>1, <1>2 DEF RestingIn
<1> QED BY <1>3, <1>4 DEF c, Without, Restrict

\* A client that hears of a trade knows what it leaves of the resting order.
LEMMA FilledHeard ==
  ASSUME NEW b, SoundBook(b), NEW n \in DOMAIN b.heap, NEW qty \in Nat,
         NEW o, o.side \in Side, b.heap[n].side = Opposite(o.side)
  PROVE  HearTrade(RestingIn(b), TradeOf(o, b.heap[n], qty)) = RestingIn(Filled(b, n, qty))
<1> DEFINE x == b.heap[n].id
           t == TradeOf(o, b.heap[n], qty)
           c == [b EXCEPT !.heap[n].filled = @ + qty]
<1>0. BookInv(b) /\ FullyIndexed(b) BY DEF SoundBook
<1>1. x \in DOMAIN b.orders /\ b.orders[x] = n BY <1>0 DEF FullyIndexed
<1>2. /\ (IF t.buyer_is_aggressor THEN t.seller_id ELSE t.buyer_id) = x
      /\ t.quantity = qty
  BY DEF TradeOf, Side, Opposite
<1>3. /\ BookInv(c)
      /\ DOMAIN c.heap = DOMAIN b.heap
      /\ c.orders = b.orders
      /\ \A m \in DOMAIN b.heap : m # n => c.heap[m] = b.heap[m]
      /\ c.heap[n].filled = b.heap[n].filled + qty
      /\ c.heap[n].quantity = b.heap[n].quantity
      /\ \A m \in DOMAIN c.heap : c.heap[m].id = b.heap[m].id
  BY <1>0, TradedSound DEF Kept
<1>4. FullyIndexed(c) BY <1>0, <1>3 DEF FullyIndexed
<1>5. b.heap[n].quantity \in Nat /\ b.heap[n].filled \in Nat
  BY <1>0, <1>1, NodeOf DEF Order
<1>6. Filled(b, n, qty) = IF Remaining(c.heap[n]) = 0 THEN Released(c, n) ELSE c
  BY DEF Filled
<1>7. Remaining(c.heap[n]) = RestingIn(b)[x] - qty /\ RestingIn(b)[x] \in Int
  BY <1>1, <1>3, <1>5 DEF Remaining, RestingIn
<1>8. DOMAIN RestingIn(b) = DOMAIN b.orders BY DEF RestingIn
<1> HIDE DEF c, t
<1>9. ASSUME NEW id \in DOMAIN b.orders, id # x
      PROVE  c.heap[b.orders[id]] = b.heap[b.orders[id]]
  <2>1. b.orders[id] \in DOMAIN b.heap /\ b.orders[id] # n BY <1>0, <1>9, NodeOf
  <2> QED BY <1>3, <2>1
<1>10. RestingIn(c) = [RestingIn(b) EXCEPT ![x] = @ - qty]
  BY <1>1, <1>3, <1>7, <1>8, <1>9 DEF RestingIn
<1>11. CASE Remaining(c.heap[n]) = 0
  <2>1. RestingIn(b)[x] = qty BY <1>7, <1>11
  <2>2. HearTrade(RestingIn(b), t) = Without(RestingIn(b), x)
    BY <1>1, <1>2, <1>8, <2>1 DEF HearTrade
  <2>3. RestingIn(Released(c, n)) = Without(RestingIn(c), x)
    BY <1>3, <1>4, ReleasedResting
  <2>4. Without(RestingIn(c), x) = Without(RestingIn(b), x)
    BY <1>1, <1>8, <1>10 DEF Without, Restrict
  <2> QED BY <1>6, <1>11, <2>2, <2>3, <2>4 DEF t
<1>12. CASE Remaining(c.heap[n]) # 0
  <2>1. RestingIn(b)[x] # qty BY <1>7, <1>12
  <2>2. HearTrade(RestingIn(b), t) = [RestingIn(b) EXCEPT ![x] = @ - qty]
    BY <1>1, <1>2, <1>8, <2>1 DEF HearTrade
  <2> QED BY <1>6, <1>10, <1>12, <2>2 DEF t
<1> QED BY <1>11, <1>12

(* A match ****************************************************************)

\* t is a trade of the aggressor o, at a price that the limit of o admits.
WithinLimit(o, t) == Crosses(o, t.price) /\ t.buyer_is_aggressor = (o.side = "BUY")

\* What every iteration leaves: a sound book of resting orders it found, an
\* aggressor that differs from o in what is filled of it, and trades within its
\* limit that add up to that and tell a client what they leave of the resting
\* orders.
MatchSound(b, o, m) ==
    /\ SoundBook(m.book)
    /\ Kept(b, m.book)
    /\ m.order \in Order
    /\ m.order.filled <= m.order.quantity
    /\ m.order = [o EXCEPT !.filled = m.order.filled]
    /\ m.trades \in Seq(Trade)
    /\ TradedQuantity(m.trades) = m.order.filled
    /\ HearTrades(RestingIn(b), m.trades) = RestingIn(m.book)
    /\ \A i \in DOMAIN m.trades : WithinLimit(o, m.trades[i])

\* The condition of the loop is false.
LoopOver(m) ==
    \A p \in DOMAIN m.book.levels[Opposite(m.order.side)] : ~Matches(m.book, m.order, p)

LEMMA MatchBegins ==
  ASSUME NEW b, SoundBook(b), NEW o \in Order, o.filled = 0
  PROVE  MatchSound(b, o, [book |-> b, order |-> o, trades |-> << >>])
<1>1. o = [o EXCEPT !.filled = o.filled] BY DEF Order
<1>2. o.filled <= o.quantity BY DEF Order
<1>3. Kept(b, b) BY DEF Kept
<1> QED BY <1>1, <1>2, <1>3, NothingTraded, NothingHeard DEF MatchSound

\* One iteration: the loop is over, or the head of a level trades.
LEMMA IterateParts ==
  ASSUME NEW m, SoundBook(m.book), m.order \in Order, m.order.filled <= m.order.quantity,
         ~LoopOver(m)
  PROVE  \E n \in DOMAIN m.book.heap : \E qty \in Nat :
           /\ Iterate(m) = [book   |-> Filled(m.book, n, qty),
                            order  |-> [m.order EXCEPT !.filled = @ + qty],
                            trades |-> Append(m.trades, TradeOf(m.order, m.book.heap[n], qty))]
           /\ m.book.heap[n].side = Opposite(m.order.side)
           /\ Crosses(m.order, m.book.heap[n].price)
           /\ qty <= Remaining(m.book.heap[n])
           /\ m.order.filled + qty <= m.order.quantity
           /\ qty = MatchQty(m.order, m.book.heap[n])
<1> DEFINE s    == Opposite(m.order.side)
           far  == m.book.levels[s]
           best == {p \in DOMAIN far : Matches(m.book, m.order, p)}
           price == CHOOSE p \in best : TRUE
           n    == Head(far[price].queue)
           qty  == MatchQty(m.order, m.book.heap[n])
<1>1. best # {} BY DEF LoopOver
<1>2. price \in best BY <1>1
<1>3. price \in DOMAIN far /\ Remaining(m.order) > 0 /\ Crosses(m.order, price)
  BY <1>2 DEF Matches
<1>4. s \in Side BY DEF Opposite, Side, Order
<1>5. Iterate(m) = [book   |-> Filled(m.book, n, qty),
                    order  |-> [m.order EXCEPT !.filled = @ + qty],
                    trades |-> Append(m.trades, TradeOf(m.order, m.book.heap[n], qty))]
  BY <1>1 DEF Iterate
<1> HIDE DEF s, price
<1>6. n \in DOMAIN m.book.heap /\ m.book.heap[n].side = s /\ m.book.heap[n].price = price
  <2> DEFINE b == m.book
  <2>1. BookInv(b) BY DEF SoundBook
  <2>2. price \in DOMAIN b.levels[s] BY <1>3
  <2>3. n = Head(b.levels[s][price].queue) OBVIOUS
  <2> HIDE DEF n, b
  <2>4. /\ n \in DOMAIN b.heap
        /\ b.heap[n].side = s /\ b.heap[n].price = price
        /\ \A k \in DOMAIN b.heap :
             b.heap[k].side = s /\ b.heap[k].price = price => n <= k
    BY ONLY <1>4, <2>1, <2>2, <2>3, HeadIsOldest
  <2> QED BY <2>4 DEF b
<1> HIDE DEF n
<1>7. m.book.heap[n] \in Order /\ m.book.heap[n].filled <= m.book.heap[n].quantity
  BY <1>6 DEF SoundBook, BookInv, BookType, PartialFunction, NotOverfilled
<1>8. /\ qty \in Nat
      /\ qty <= Remaining(m.book.heap[n])
      /\ m.order.filled + qty <= m.order.quantity
  BY <1>3, <1>7, MatchQtyInBounds
<1> QED
  <2> USE <1>6, <1>8
  <2> WITNESS n \in DOMAIN m.book.heap
  <2> WITNESS qty \in Nat
  <2> QED BY <1>3, <1>5, <1>6, <1>8 DEF s

LEMMA IterateOver == ASSUME NEW m, LoopOver(m) PROVE Iterate(m) = m
BY DEF LoopOver, Iterate

LEMMA OrderFilled ==
  ASSUME NEW o \in Order, NEW qty \in Nat
  PROVE  LET r == [o EXCEPT !.filled = @ + qty] IN
         r \in Order /\ r.filled = o.filled + qty /\ r.quantity = o.quantity
BY DEF Order

LEMMA IterateSound ==
  ASSUME NEW b, NEW o, NEW m, MatchSound(b, o, m)
  PROVE  MatchSound(b, o, Iterate(m))
<1>1. CASE LoopOver(m) BY <1>1, IterateOver
<1>2. CASE ~LoopOver(m)
  <2>1. /\ SoundBook(m.book) /\ m.order \in Order /\ m.order.filled <= m.order.quantity
        /\ BookInv(m.book) /\ NotOverfilled(m.book) /\ FullyIndexed(m.book)
        /\ m.trades \in Seq(Trade)
    BY DEF MatchSound, SoundBook
  <2>2. PICK n \in DOMAIN m.book.heap : \E qty \in Nat :
          /\ Iterate(m) = [book   |-> Filled(m.book, n, qty),
                           order  |-> [m.order EXCEPT !.filled = @ + qty],
                           trades |-> Append(m.trades, TradeOf(m.order, m.book.heap[n], qty))]
          /\ m.book.heap[n].side = Opposite(m.order.side)
          /\ Crosses(m.order, m.book.heap[n].price)
          /\ qty <= Remaining(m.book.heap[n])
          /\ m.order.filled + qty <= m.order.quantity
    BY <1>2, <2>1, IterateParts
  <2>3. PICK qty \in Nat :
          /\ Iterate(m) = [book   |-> Filled(m.book, n, qty),
                           order  |-> [m.order EXCEPT !.filled = @ + qty],
                           trades |-> Append(m.trades, TradeOf(m.order, m.book.heap[n], qty))]
          /\ m.book.heap[n].side = Opposite(m.order.side)
          /\ Crosses(m.order, m.book.heap[n].price)
          /\ qty <= Remaining(m.book.heap[n])
          /\ m.order.filled + qty <= m.order.quantity
    BY <2>2
  <2> DEFINE c == Filled(m.book, n, qty)
             t == TradeOf(m.order, m.book.heap[n], qty)
             r == [m.order EXCEPT !.filled = @ + qty]
  <2>4. SoundBook(c) /\ Kept(m.book, c)
    BY <2>1, <2>3, FilledSound DEF SoundBook
  <2>5. Kept(b, c) BY <2>4 DEF MatchSound, Kept
  <2>6. m.book.heap[n] \in Order BY <2>1 DEF BookInv, BookType, PartialFunction
  <2>7. t \in Trade /\ t.quantity = qty
    BY <2>1, <2>6 DEF TradeOf, Trade, Order
  <2>8. r \in Order /\ r.filled = m.order.filled + qty /\ r.filled <= r.quantity
    BY <2>1, <2>3, OrderFilled
  <2>9. r = [o EXCEPT !.filled = r.filled]
    <3>1. m.order = [o EXCEPT !.filled = m.order.filled] BY DEF MatchSound
    <3>2. "filled" \in DOMAIN m.order BY <2>1 DEF Order
    <3>3. DOMAIN m.order = DOMAIN o BY <3>1
    <3> QED BY <2>8, <3>1, <3>2, <3>3
  <2>10. /\ Append(m.trades, t) \in Seq(Trade)
         /\ TradedQuantity(Append(m.trades, t)) = r.filled
    BY <2>1, <2>7, <2>8, OneMoreTraded, AppendProperties DEF MatchSound
  <2>11. HearTrades(RestingIn(b), Append(m.trades, t)) = RestingIn(c)
    <3>1. HearTrades(RestingIn(b), m.trades) = RestingIn(m.book) BY DEF MatchSound
    <3>2. HearTrades(RestingIn(b), Append(m.trades, t)) = HearTrade(RestingIn(m.book), t)
      <4> HIDE DEF t
      <4> QED BY <2>1, <2>7, <3>1, OneMoreHeard
    <3>3. m.order.side \in Side BY <2>1 DEF Order
    <3>4. HearTrade(RestingIn(m.book), t) = RestingIn(c)
      BY <2>1, <2>3, <3>3, FilledHeard
    <3> QED BY <3>2, <3>4
  <2>12. Iterate(m) = [book |-> c, order |-> r, trades |-> Append(m.trades, t)] BY <2>3
  <2>13. WithinLimit(o, t)
    <3>1. m.order.side = o.side /\ m.order.type = o.type /\ m.order.price = o.price
      <4>1. m.order = [o EXCEPT !.filled = m.order.filled] BY DEF MatchSound
      <4>2. {"side", "type", "price"} \subseteq DOMAIN m.order BY <2>1 DEF Order
      <4> QED BY <4>1, <4>2
    <3>2. Crosses(o, t.price) BY <2>3, <3>1 DEF Crosses, TradeOf
    <3> QED BY <3>1, <3>2 DEF TradeOf, WithinLimit
  <2> HIDE DEF c, t, r
  <2>14. \A i \in DOMAIN Append(m.trades, t) : WithinLimit(o, Append(m.trades, t)[i])
    <3>1. \A i \in DOMAIN m.trades : WithinLimit(o, m.trades[i]) BY DEF MatchSound
    <3> QED BY <2>1, <2>7, <2>13, <3>1, AppendToQueue
  <2> QED BY <2>4, <2>5, <2>8, <2>9, <2>10, <2>11, <2>12, <2>14 DEF MatchSound
<1> QED BY <1>1, <1>2

\* By induction on the iterations.
LEMMA RunSound ==
  ASSUME NEW b, SoundBook(b), NEW o \in Order, o.filled = 0
  PROVE  \A i \in 0..Steps(b) : MatchSound(b, o, Run(b, o)[i])
<1> DEFINE run == Run(b, o)
           T == {i \in 0..Steps(b) : MatchSound(b, o, run[i])}
<1>1. BookType(b) /\ Steps(b) \in Nat BY StepsAreFinite DEF SoundBook, BookInv
<1>2. \A i \in 0..Steps(b) : run[i] = RunStep(b, o, run, i) BY <1>1, RunUnfold
<1> HIDE DEF run
<1>3. 0 \in T
  <2>1. 0 \in 0..Steps(b) BY <1>1
  <2>2. run[0] = [book |-> b, order |-> o, trades |-> << >>] BY <1>2, <2>1 DEF RunStep
  <2> QED BY <2>1, <2>2, MatchBegins
<1>4. ASSUME NEW i \in 0..(Steps(b) - 1), i \in T PROVE i + 1 \in T
  <2>1. i + 1 \in 0..Steps(b) /\ (i + 1) - 1 = i /\ i + 1 # 0 BY <1>1
  <2>2. run[i + 1] = Iterate(run[i]) BY <1>2, <2>1 DEF RunStep
  <2>3. MatchSound(b, o, run[i]) BY <1>4
  <2>4. MatchSound(b, o, run[i + 1]) BY <2>2, <2>3, IterateSound
  <2> QED BY <2>1, <2>4
<1> HIDE DEF T
<1>5. \A i \in 0..Steps(b) : i \in T BY <1>1, <1>3, <1>4, UpToInduction
<1> QED BY <1>5 DEF T, run

\* An iteration that is not the last one uses up a resting order.
LEMMA IterateProgress ==
  ASSUME NEW b, NEW o, NEW m, MatchSound(b, o, m), ~LoopOver(m)
  PROVE  \/ LoopOver(Iterate(m))
         \/ Cardinality(DOMAIN Iterate(m).book.heap) + 1 = Cardinality(DOMAIN m.book.heap)
<1>1. /\ SoundBook(m.book) /\ m.order \in Order /\ m.order.filled <= m.order.quantity
      /\ BookInv(m.book) /\ BookType(m.book)
  BY DEF MatchSound, SoundBook, BookInv
<1>2. PICK n \in DOMAIN m.book.heap : \E qty \in Nat :
        /\ Iterate(m) = [book   |-> Filled(m.book, n, qty),
                         order  |-> [m.order EXCEPT !.filled = @ + qty],
                         trades |-> Append(m.trades, TradeOf(m.order, m.book.heap[n], qty))]
        /\ qty = MatchQty(m.order, m.book.heap[n])
  BY <1>1, IterateParts
<1>3. PICK qty \in Nat :
        /\ Iterate(m) = [book   |-> Filled(m.book, n, qty),
                         order  |-> [m.order EXCEPT !.filled = @ + qty],
                         trades |-> Append(m.trades, TradeOf(m.order, m.book.heap[n], qty))]
        /\ qty = MatchQty(m.order, m.book.heap[n])
  BY <1>2
<1> DEFINE c == Filled(m.book, n, qty)
           r == [m.order EXCEPT !.filled = @ + qty]
           passive == m.book.heap[n]
           traded == [m.book EXCEPT !.heap[n].filled = @ + qty]
<1>4. /\ DOMAIN c.heap \subseteq DOMAIN m.book.heap
      /\ \A k \in DOMAIN m.book.heap \ {n} : k \in DOMAIN c.heap
  BY <1>1, FilledHeap
<1>5. Iterate(m).book = c /\ Iterate(m).order = r BY <1>3
<1>6. CASE n \notin DOMAIN c.heap
  <2>1. DOMAIN c.heap = DOMAIN m.book.heap \ {n} BY <1>4, <1>6
  <2>2. IsFiniteSet(DOMAIN m.book.heap) BY <1>1, HeapIsFinite
  <2>3. /\ Cardinality(DOMAIN m.book.heap \ {n}) = Cardinality(DOMAIN m.book.heap) - 1
        /\ Cardinality(DOMAIN m.book.heap) \in Nat
    BY <2>2, FS_RemoveElement, FS_CardinalityType
  <2> HIDE DEF c, r
  <2> QED BY <1>5, <2>1, <2>3
<1>7. CASE n \in DOMAIN c.heap
  <2>1. passive \in Order BY <1>1 DEF BookType, PartialFunction
  <2>2. /\ DOMAIN traded.heap = DOMAIN m.book.heap
        /\ traded.heap[n].filled = passive.filled + qty
        /\ traded.heap[n].quantity = passive.quantity
    BY <1>1, TradedSound
  <2>3. DOMAIN Released(traded, n).heap = DOMAIN traded.heap \ {n}
    BY DEF Released, Restrict
  <2>4. c = IF Remaining(traded.heap[n]) = 0 THEN Released(traded, n) ELSE traded
    BY DEF Filled
  <2> HIDE DEF c, traded
  <2>5. Remaining(traded.heap[n]) # 0 BY <1>7, <2>3, <2>4
  <2>6. qty # Remaining(passive) BY <2>1, <2>2, <2>5 DEF Remaining, Order
  <2>7. qty = Remaining(m.order) BY <1>3, <2>6 DEF MatchQty
  <2>8. Remaining(r) = 0
    <3>1. r.filled = m.order.filled + qty /\ r.quantity = m.order.quantity
      BY <1>1, OrderFilled
    <3> HIDE DEF r
    <3> QED BY <1>1, <2>7, <3>1 DEF Remaining, Order
  <2>9. ~ (Remaining(r) > 0) BY <2>8
  <2> HIDE DEF r
  <2> QED BY <1>5, <2>9 DEF LoopOver, Matches
<1> QED BY <1>6, <1>7

\* The iterations that Matched makes are enough: they end with the loop's
\* condition false.
THEOREM RunEnds ==
  ASSUME NEW b, SoundBook(b), NEW o \in Order, o.filled = 0
  PROVE  LoopOver(Run(b, o)[Steps(b)])
<1> DEFINE run == Run(b, o)
           size(i) == Cardinality(DOMAIN run[i].book.heap)
           T == {i \in 0..Steps(b) : LoopOver(run[i]) \/ size(i) + i + 1 <= Steps(b)}
<1>1. BookType(b) /\ Steps(b) \in Nat BY StepsAreFinite DEF SoundBook, BookInv
<1>2. \A i \in 0..Steps(b) : run[i] = RunStep(b, o, run, i) BY <1>1, RunUnfold
<1>3. \A i \in 0..Steps(b) : MatchSound(b, o, run[i]) BY RunSound
<1> HIDE DEF run
<1>4. ASSUME NEW i \in 0..Steps(b) PROVE size(i) \in Nat
  <2>1. BookType(run[i].book) BY <1>3 DEF MatchSound, SoundBook, BookInv
  <2> QED BY <2>1, HeapIsFinite, FS_CardinalityType
<1>5. 0 \in T
  <2>1. 0 \in 0..Steps(b) BY <1>1
  <2>2. run[0] = [book |-> b, order |-> o, trades |-> << >>] BY <1>2, <2>1 DEF RunStep
  <2>3. size(0) + 1 = Steps(b) BY <2>2 DEF Steps
  <2>4. size(0) \in Nat BY <1>4, <2>1
  <2> HIDE DEF size
  <2>5. size(0) + 0 + 1 <= Steps(b) BY <1>1, <2>3, <2>4
  <2> QED BY <2>1, <2>5
<1>6. ASSUME NEW i \in 0..(Steps(b) - 1), i \in T PROVE i + 1 \in T
  <2>1. i + 1 \in 0..Steps(b) /\ (i + 1) - 1 = i /\ i + 1 # 0 /\ i \in 0..Steps(b)
    BY <1>1
  <2>2. run[i + 1] = Iterate(run[i]) BY <1>2, <2>1 DEF RunStep
  <2>3. MatchSound(b, o, run[i]) BY <1>3, <2>1
  <2>4. CASE LoopOver(run[i])
    <3>1. LoopOver(run[i + 1]) BY <2>2, <2>4, IterateOver
    <3> QED BY <2>1, <3>1
  <2>5. CASE ~LoopOver(run[i])
    <3>1. LoopOver(run[i + 1]) \/ size(i + 1) + 1 = size(i)
      BY <2>2, <2>3, <2>5, IterateProgress
    <3>2. size(i) + i + 1 <= Steps(b) BY <1>6, <2>5
    <3>3. size(i) \in Nat /\ size(i + 1) \in Nat BY <1>4, <2>1
    <3> HIDE DEF size
    <3>4. LoopOver(run[i + 1]) \/ size(i + 1) + (i + 1) + 1 <= Steps(b)
      BY <1>1, <3>1, <3>2, <3>3
    <3> QED BY <2>1, <3>4
  <2> QED BY <2>4, <2>5
<1> HIDE DEF T
<1>7. \A i \in 0..Steps(b) : i \in T BY <1>1, <1>5, <1>6, UpToInduction
<1>8. Steps(b) \in T BY <1>1, <1>7
<1>9. size(Steps(b)) \in Nat BY <1>1, <1>4
<1>10. LoopOver(run[Steps(b)]) \/ size(Steps(b)) + Steps(b) + 1 <= Steps(b)
  BY <1>8 DEF T
<1> HIDE DEF size
<1> QED BY <1>1, <1>9, <1>10 DEF run

\* What a match leaves when it is over, of the aggressor and of the book.
LEMMA MatchedEnds ==
  ASSUME NEW b, SoundBook(b), NEW o \in Order, o.filled = 0
  PROVE  \E m : /\ MatchSound(b, o, m)
                /\ LoopOver(m)
                /\ Matched(b, o) =
                     [book   |-> IF Rests(m.order) THEN Added(m.book, m.order) ELSE m.book,
                      status |-> FinalStatus(m.order),
                      trades |-> IF Killed(m.order) THEN << >> ELSE m.trades]
<1> DEFINE m == Run(b, o)[Steps(b)]
<1>1. Steps(b) \in 0..Steps(b) BY StepsAreFinite DEF SoundBook, BookInv
<1>2. MatchSound(b, o, m) BY <1>1, RunSound
<1>3. LoopOver(m) BY RunEnds
<1>4. Matched(b, o) =
        [book   |-> IF Rests(m.order) THEN Added(m.book, m.order) ELSE m.book,
         status |-> FinalStatus(m.order),
         trades |-> IF Killed(m.order) THEN << >> ELSE m.trades]
  BY MatchedIsRun
<1> HIDE DEF m
<1> QED BY <1>2, <1>3, <1>4

\* A match of an order whose id is free leaves a sound book, with no id in it
\* but those that were there and that of the order, and what it emits tells a
\* client what rests now, unless it kills the order.
LEMMA MatchedSound ==
  ASSUME NEW b, SoundBook(b), NEW o \in Order, o.filled = 0,
         \A n \in DOMAIN b.heap : b.heap[n].id # o.id
  PROVE  LET m      == Matched(b, o)
             heard  == HearTrades(RestingIn(b), m.trades)
             rests  == o.type = "LIMIT" /\ m.status \in {"ACCEPTED", "PARTIALLY_FILLED"}
         IN  /\ SoundBook(m.book)
             /\ \A n \in DOMAIN m.book.heap :
                  \/ m.book.heap[n].id = o.id
                  \/ \E k \in DOMAIN b.heap : b.heap[k].id = m.book.heap[n].id
             /\ m.status \in OrderStatus
             /\ m.trades \in Seq(Trade)
             /\ o.tif # "FOK" =>
                  RestingIn(m.book) =
                    IF rests THEN Put(heard, o.id, o.quantity - TradedQuantity(m.trades))
                    ELSE heard
<1>1. PICK m : /\ MatchSound(b, o, m)
               /\ Matched(b, o) =
                    [book   |-> IF Rests(m.order) THEN Added(m.book, m.order) ELSE m.book,
                     status |-> FinalStatus(m.order),
                     trades |-> IF Killed(m.order) THEN << >> ELSE m.trades]
  BY MatchedEnds
<1> DEFINE r == m.order
           c == m.book
           d == Matched(b, o)
<1>2. /\ SoundBook(c) /\ BookInv(c) /\ FullyIndexed(c) /\ NotOverfilled(c)
      /\ r \in Order /\ r.filled <= r.quantity
      /\ m.trades \in Seq(Trade) /\ TradedQuantity(m.trades) = r.filled
      /\ HearTrades(RestingIn(b), m.trades) = RestingIn(c)
  BY <1>1 DEF MatchSound, SoundBook
<1>3. r.id = o.id /\ r.type = o.type /\ r.tif = o.tif /\ r.quantity = o.quantity
  <2>1. r = [o EXCEPT !.filled = r.filled] BY <1>1 DEF MatchSound
  <2> HIDE DEF r
  <2> QED BY <2>1 DEF Order
<1>4. \A n \in DOMAIN c.heap : \E k \in DOMAIN b.heap : b.heap[k].id = c.heap[n].id
  BY <1>1 DEF MatchSound, Kept
<1>5. d.book = (IF Rests(r) THEN Added(c, r) ELSE c) /\ d.status = FinalStatus(r)
      /\ d.trades = (IF Killed(r) THEN << >> ELSE m.trades)
  BY <1>1
<1> HIDE DEF r, c, d
<1>6. /\ BookInv(Added(c, r))
      /\ FullyIndexed(Added(c, r)) /\ NotOverfilled(Added(c, r))
  <2>1. \A n \in DOMAIN c.heap : c.heap[n].id # r.id BY <1>3, <1>4
  <2> QED BY <1>2, <2>1, AddedSound, AddedIndexed
<1>7. SoundBook(d.book) BY <1>2, <1>5, <1>6 DEF SoundBook
<1>8. ASSUME NEW n \in DOMAIN d.book.heap
      PROVE  \/ d.book.heap[n].id = o.id
             \/ \E k \in DOMAIN b.heap : b.heap[k].id = d.book.heap[n].id
  <2>1. CASE Rests(r)
    <3>1. /\ DOMAIN Added(c, r).heap = DOMAIN c.heap \cup {c.fresh}
          /\ Added(c, r).heap[c.fresh] = r
          /\ \A k \in DOMAIN c.heap : Added(c, r).heap[k] = c.heap[k]
      BY <1>2, FreshIsFree, AddedHeap DEF BookInv
    <3> QED BY <1>3, <1>4, <1>5, <1>8, <2>1, <3>1
  <2>2. CASE ~Rests(r) BY <1>4, <1>5, <1>8, <2>2
  <2> QED BY <2>1, <2>2
<1>9. d.status \in OrderStatus BY <1>2, <1>5, FinalStatusTyped
<1>10. d.trades \in Seq(Trade)
  <2>1. << >> \in Seq(Trade) OBVIOUS
  <2> QED BY <1>2, <1>5, <2>1, Zenon
<1>11. ASSUME o.tif # "FOK"
       PROVE  RestingIn(d.book) =
                IF o.type = "LIMIT" /\ d.status \in {"ACCEPTED", "PARTIALLY_FILLED"}
                THEN Put(HearTrades(RestingIn(b), d.trades), o.id,
                         o.quantity - TradedQuantity(d.trades))
                ELSE HearTrades(RestingIn(b), d.trades)
  <2>1. d.trades = m.trades BY <1>3, <1>5, <1>11 DEF Killed
  <2>2. r.tif \in {"GTC", "IOC"} /\ r.type \in {"LIMIT", "MARKET"}
    BY <1>2, <1>3, <1>11 DEF Order, TimeInForce, OrderType
  <2>3. Remaining(r) \in Nat /\ Remaining(r) = o.quantity - r.filled
    BY <1>2, <1>3 DEF Order, Remaining
  <2>4. Rests(r) <=> r.type = "LIMIT" /\ d.status \in {"ACCEPTED", "PARTIALLY_FILLED"}
    BY <1>5, <2>2, <2>3 DEF Rests, FinalStatus
  <2>5. RestingIn(Added(c, r)) = Put(RestingIn(c), r.id, Remaining(r))
    BY <1>2, AddedResting
  <2>6. CASE Rests(r)
    <3>1. RestingIn(d.book) = Put(RestingIn(c), r.id, Remaining(r)) BY <1>5, <2>5, <2>6
    <3> QED BY <1>2, <1>3, <2>1, <2>3, <2>4, <2>6, <3>1
  <2>7. CASE ~Rests(r) BY <1>2, <1>3, <1>5, <2>1, <2>4, <2>7
  <2> QED BY <2>6, <2>7
<1> QED BY <1>7, <1>8, <1>9, <1>10, <1>11 DEF d

(* The handlers ***********************************************************)

\* The engine assigns no id that a client has chosen.
UniqueIds == ClientIds \cap 1..AutoIds = {}

BookIn(bs, s) == IF s \in DOMAIN bs THEN bs[s] ELSE NewBook

RestsIn(bs, id) ==
    \E s \in DOMAIN bs : \E n \in DOMAIN bs[s].heap : bs[s].heap[n].id = id

\* Sound books, in which rest ids that clients chose and ids below next.
BooksInv(bs, next) ==
    /\ DOMAIN bs \subseteq Symbols
    /\ \A s \in DOMAIN bs :
         /\ SoundBook(bs[s])
         /\ \A n \in DOMAIN bs[s].heap : bs[s].heap[n].id \in ClientIds \cup 1..(next - 1)

\* e is a new order under an id of the client's own.
Chosen(e) == e.kind = "new" /\ e.order.id \in ClientIds

\* What the handler of e leaves, h, tells what rests in every book.
Tells(e, h) ==
    \A s \in Symbols :
        RestingIn(BookIn(h.books, s)) =
          IF s = e.symbol
          THEN HearAnswer(HearTrades(RestingIn(Book(s)), h.trades), e, h.trades, h.answer)
          ELSE RestingIn(Book(s))

HandledWell(e, h) ==
    /\ BooksInv(h.books, h.next_order_id)
    /\ h.next_order_id \in {next_order_id, next_order_id + 1}
    /\ h.trades \in Seq(Trade)
    /\ h.answer \in Messages
    /\ \A id \in ClientIds :
         RestsIn(h.books, id) => RestsIn(books, id) \/ (Chosen(e) /\ e.order.id = id)
    /\ "FOK" \notin TIFs => Tells(e, h)

LEMMA EventParts ==
  ASSUME NEW e \in Events
  PROVE  /\ e.symbol \in Symbols
         /\ e.kind \in {"new", "cancel", "modify"}
         /\ e.kind = "new" => e.order \in Orders
         /\ e.kind \in {"cancel", "modify"} => e.id \in AnyId
         /\ e.kind = "modify" => e.price \in Prices /\ e.quantity \in Nat
BY QuantitiesAssumption DEF Events

LEMMA AnswersTyped ==
  ASSUME NEW id \in AnyId, NEW status \in OrderStatus
  PROVE  /\ Reject(id) \in Messages /\ Reject(id).kind # "ack"
         /\ Ack(id, status) \in Messages
         /\ Ack(id, status).kind = "ack" /\ Ack(id, status).id = id
         /\ Ack(id, status).status = status
BY DEF Reject, Ack, NoMessage, Messages

LEMMA BookInIsSound ==
  ASSUME NEW bs, NEW next, BooksInv(bs, next), NEW s
  PROVE  /\ SoundBook(BookIn(bs, s))
         /\ \A n \in DOMAIN BookIn(bs, s).heap :
              /\ BookIn(bs, s).heap[n].id \in ClientIds \cup 1..(next - 1)
              /\ RestsIn(bs, BookIn(bs, s).heap[n].id)
<1>1. CASE s \in DOMAIN bs BY <1>1 DEF BookIn, BooksInv, RestsIn
<1>2. CASE s \notin DOMAIN bs BY <1>2, NewBookResting, NewBookSound DEF BookIn
<1> QED BY <1>1, <1>2

\* Only the book of s changes, to a sound one; of the ids in it only those of X
\* may be new.
OneBookChanges(bs, cs, s, X) ==
    /\ DOMAIN cs = DOMAIN bs \cup {s}
    /\ \A r \in DOMAIN bs : r # s => cs[r] = bs[r]
    /\ SoundBook(cs[s])
    /\ \A n \in DOMAIN cs[s].heap :
         \/ cs[s].heap[n].id \in X
         \/ \E k \in DOMAIN BookIn(bs, s).heap :
              BookIn(bs, s).heap[k].id = cs[s].heap[n].id

LEMMA BookReplaced ==
  ASSUME NEW bs, NEW cs, NEW s, NEW X, OneBookChanges(bs, cs, s, X), s \in Symbols,
         NEW next, NEW more, next \in Nat \ {0}, more \in {next, next + 1},
         BooksInv(bs, next), X \subseteq ClientIds \cup 1..(more - 1)
  PROVE  /\ BooksInv(cs, more)
         /\ \A id : RestsIn(cs, id) => RestsIn(bs, id) \/ id \in X
         /\ BookIn(cs, s) = cs[s]
         /\ \A r : r # s => BookIn(cs, r) = BookIn(bs, r)
<1> USE DEF OneBookChanges
<1>1. \A x \in ClientIds \cup 1..(next - 1) : x \in ClientIds \cup 1..(more - 1) OBVIOUS
<1>2. \A r : r # s => BookIn(cs, r) = BookIn(bs, r) BY DEF BookIn
<1>3. ASSUME NEW n \in DOMAIN cs[s].heap
      PROVE  /\ cs[s].heap[n].id \in ClientIds \cup 1..(more - 1)
             /\ cs[s].heap[n].id \in X \/ RestsIn(bs, cs[s].heap[n].id)
  BY <1>1, BookInIsSound
<1>4. BooksInv(cs, more)
  <2>1. DOMAIN cs \subseteq Symbols BY DEF BooksInv
  <2>2. ASSUME NEW r \in DOMAIN cs
        PROVE  /\ SoundBook(cs[r])
               /\ \A n \in DOMAIN cs[r].heap : cs[r].heap[n].id \in ClientIds \cup 1..(more - 1)
    <3>1. CASE r = s BY <1>3, <3>1
    <3>2. CASE r # s
      <4>1. r \in DOMAIN bs /\ cs[r] = bs[r] BY <3>2
      <4> QED BY <1>1, <4>1, Zenon DEF BooksInv
    <3> QED BY <3>1, <3>2
  <2> QED BY <2>1, <2>2, Zenon DEF BooksInv
<1>5. ASSUME NEW id, RestsIn(cs, id) PROVE RestsIn(bs, id) \/ id \in X
  <2>1. PICK r \in DOMAIN cs : \E n \in DOMAIN cs[r].heap : cs[r].heap[n].id = id
    BY <1>5 DEF RestsIn
  <2>2. CASE r = s BY <1>3, <2>1, <2>2
  <2>3. CASE r # s BY <2>1, <2>3, Zenon DEF RestsIn
  <2> QED BY <2>2, <2>3
<1>6. BookIn(cs, s) = cs[s] BY DEF BookIn
<1> QED BY <1>2, <1>4, <1>5, <1>6

\* A handler that leaves the books alone.
LEMMA NothingDone ==
  ASSUME NEW e, NEW h, BooksInv(books, next_order_id), next_order_id \in Nat \ {0},
         h.books = books, h.next_order_id \in {next_order_id, next_order_id + 1},
         h.trades = << >>, h.answer \in Messages,
         \A orders : HearAnswer(orders, e, << >>, h.answer) = orders
  PROVE  HandledWell(e, h)
<1>1. \A x \in 1..(next_order_id - 1) : x \in 1..(h.next_order_id - 1) OBVIOUS
<1>2. BooksInv(books, h.next_order_id) BY <1>1, Zenon DEF BooksInv
<1>3. h.trades \in Seq(Trade) OBVIOUS
<1>4. Tells(e, h) BY NothingHeard DEF Tells, BookIn, Book
<1> QED BY <1>2, <1>3, <1>4, Zenon DEF HandledWell

LEMMA CancelledSound ==
  ASSUME NEW b, SoundBook(b), NEW id \in DOMAIN b.orders
  PROVE  /\ SoundBook(Cancelled(b, id))
         /\ Kept(b, Cancelled(b, id))
         /\ RestingIn(Cancelled(b, id)) = Without(RestingIn(b), id)
<1> DEFINE n == b.orders[id]
           c == Released(b, n)
<1>1. BookInv(b) /\ FullyIndexed(b) /\ NotOverfilled(b) BY DEF SoundBook
<1>2. n \in DOMAIN b.heap /\ b.heap[n].id = id BY <1>1, NodeOf
<1>3. Cancelled(b, id) = c BY DEF Cancelled
<1>4. /\ BookInv(c) /\ Kept(b, c) /\ FullyIndexed(c)
      /\ DOMAIN c.heap = DOMAIN b.heap \ {n}
      /\ \A m \in DOMAIN b.heap : m # n => c.heap[m] = b.heap[m]
  BY <1>1, <1>2, ReleasedSound, ReleasedIndexed
<1>5. RestingIn(c) = Without(RestingIn(b), b.heap[n].id) BY <1>1, <1>2, ReleasedResting
<1> HIDE DEF n, c
<1>6. NotOverfilled(c) BY <1>1, <1>4 DEF NotOverfilled
<1> QED BY <1>2, <1>3, <1>4, <1>5, <1>6 DEF SoundBook

LEMMA ModifiedTold ==
  ASSUME NEW b, SoundBook(b), NEW id \in DOMAIN b.orders, NEW p \in Prices, NEW q \in Nat
  PROVE  LET c == Modified(b, id, p, q) IN
         /\ SoundBook(c)
         /\ \A n \in DOMAIN c.heap : \E k \in DOMAIN b.heap : b.heap[k].id = c.heap[n].id
         /\ RestingIn(c) = Put(RestingIn(b), id, q)
<1> DEFINE n == b.orders[id]
           o == [b.heap[n] EXCEPT !.price = p, !.quantity = q, !.filled = 0]
           d == Released(b, n)
           c == Modified(b, id, p, q)
<1>1. BookInv(b) /\ FullyIndexed(b) /\ NotOverfilled(b) BY DEF SoundBook
<1>2. /\ n \in DOMAIN b.heap
      /\ o \in Order /\ o.filled = 0 /\ o.quantity = q
      /\ BookInv(d)
      /\ c = Added(d, o)
      /\ BookInv(c) /\ NotOverfilled(c) /\ FullyIndexed(c)
  <2>1. n \in DOMAIN b.heap BY <1>1, NodeOf
  <2>2. o \in Order /\ o.filled = 0 /\ o.quantity = q
    <3>1. b.heap[n] \in Order BY <1>1, NodeOf
    <3> HIDE DEF n
    <3> QED BY <3>1 DEF Order
  <2>3. BookInv(d) BY <1>1, <2>1, ReleasedSound
  <2>4. c = Added(d, o) BY DEF Modified, Cancelled
  <2>5. BookInv(c) /\ NotOverfilled(c) /\ FullyIndexed(c) BY <1>1, ModifiedSound
  <2> HIDE DEF n, o, d, c
  <2> QED BY <2>1, <2>2, <2>3, <2>4, <2>5
<1>3. b.heap[n].id = id /\ b.heap[n] \in Order BY <1>1, NodeOf
<1>4. o.id = id BY <1>3 DEF Order
<1>5. Kept(b, d) BY <1>1, <1>2, ReleasedIndexed
<1>6. RestingIn(d) = Without(RestingIn(b), id) BY <1>1, <1>2, <1>3, ReleasedResting
<1>7. RestingIn(Added(d, o)) = Put(RestingIn(d), o.id, Remaining(o))
  BY <1>2, AddedResting
<1>8. /\ DOMAIN Added(d, o).heap = DOMAIN d.heap \cup {d.fresh}
      /\ Added(d, o).heap[d.fresh] = o
      /\ \A m \in DOMAIN d.heap : Added(d, o).heap[m] = d.heap[m]
  <2> HIDE DEF d, o
  <2> QED BY <1>2, FreshIsFree, AddedHeap DEF BookInv
<1> HIDE DEF n, o, d, c
<1>9. Remaining(o) = q BY <1>2 DEF Remaining
<1>10. Put(Without(RestingIn(b), id), id, q) = Put(RestingIn(b), id, q)
  BY DEF Put, Without, Restrict
<1>11. RestingIn(c) = Put(RestingIn(b), id, q) BY <1>2, <1>4, <1>6, <1>7, <1>9, <1>10
<1>12. ASSUME NEW m \in DOMAIN c.heap
       PROVE  \E k \in DOMAIN b.heap : b.heap[k].id = c.heap[m].id
  <2>1. CASE m = d.fresh BY <1>2, <1>3, <1>4, <1>8, <2>1
  <2>2. CASE m # d.fresh BY <1>2, <1>5, <1>8, <1>12, <2>2 DEF Kept
  <2> QED BY <2>1, <2>2
<1> QED BY <1>2, <1>11, <1>12 DEF SoundBook, c

\* The order that is matched has an id of its own, that is free.
LEMMA AssignedOrder ==
  ASSUME UniqueIds, next_order_id \in 1..AutoIds, BooksInv(books, next_order_id),
         NEW r \in Orders, r.id \in ClientIds => ~RestsIn(books, r.id)
  PROVE  LET o == [r EXCEPT !.id = AssignedId(r)] IN
         /\ o \in Order /\ o.filled = 0 /\ o.id = AssignedId(r)
         /\ o.type = r.type /\ o.quantity = r.quantity /\ o.tif \in TIFs
         /\ NextId(r) \in {next_order_id, next_order_id + 1}
         /\ o.id \in ClientIds \cup 1..(NextId(r) - 1)
         /\ o.id \in AnyId
         /\ o.id \in ClientIds => o.id = r.id
         /\ ~RestsIn(books, o.id)
<1> DEFINE o == [r EXCEPT !.id = AssignedId(r)]
<1>1. /\ r.id \in ClientIds \/ r.id = INVALID_ORDER_ID
      /\ INVALID_ORDER_ID \notin ClientIds
      /\ AutoIds \in Nat
      /\ OrderIds = ClientIds \cup 1..AutoIds
  BY IdsAssumption DEF Orders
<1>2. o.id = AssignedId(r) /\ o.type = r.type /\ o.quantity = r.quantity /\ o.tif = r.tif
  BY DEF Orders
<1>3. r.tif \in TIFs /\ r.tif \in TimeInForce /\ r.quantity \in Nat
  BY QuantitiesAssumption, TIFsAssumption DEF Orders
<1>4. /\ AssignedId(r) \in OrderIds
      /\ AssignedId(r) \in ClientIds \cup 1..(NextId(r) - 1)
      /\ NextId(r) \in {next_order_id, next_order_id + 1}
  BY <1>1 DEF AssignedId, NextId
<1>5. o \in Order /\ o.filled = 0
  BY <1>3, <1>4 DEF Orders, Order, OrderStatus
<1>6. AssignedId(r) \in AnyId BY <1>4 DEF AnyId
<1>7. AssignedId(r) \in ClientIds => AssignedId(r) = r.id
  BY <1>1 DEF AssignedId, UniqueIds
<1>8. ~RestsIn(books, AssignedId(r))
  <2>1. CASE r.id \in ClientIds BY <1>1, <2>1 DEF AssignedId
  <2>2. CASE r.id = INVALID_ORDER_ID
    <3>1. AssignedId(r) = next_order_id BY <2>2 DEF AssignedId
    <3>2. next_order_id \notin ClientIds \cup 1..(next_order_id - 1) BY DEF UniqueIds
    <3> QED BY <3>1, <3>2, Zenon DEF RestsIn, BooksInv
  <2> QED BY <1>1, <2>1, <2>2
<1> HIDE DEF o
<1> QED BY <1>2, <1>3, <1>4, <1>5, <1>6, <1>7, <1>8 DEF o

LEMMA NewOrderSound ==
  ASSUME UniqueIds, next_order_id \in 1..AutoIds, BooksInv(books, next_order_id),
         NEW e \in Events, e.kind = "new", Chosen(e) => ~RestsIn(books, e.order.id)
  PROVE  HandledWell(e, NewOrderHandled(e))
<1> DEFINE r == e.order
           s == e.symbol
           o == [r EXCEPT !.id = AssignedId(r)]
           m == Matched(Book(s), o)
           h == NewOrderHandled(e)
<1>1. r \in Orders /\ s \in Symbols /\ next_order_id \in Nat \ {0}
  BY EventParts, IdsAssumption
<1>2. r.id \in ClientIds => ~RestsIn(books, r.id) BY DEF Chosen
<1>3. /\ o \in Order /\ o.filled = 0 /\ o.id = AssignedId(r)
      /\ o.type = r.type /\ o.quantity = r.quantity /\ o.tif \in TIFs
      /\ NextId(r) \in {next_order_id, next_order_id + 1}
      /\ o.id \in ClientIds \cup 1..(NextId(r) - 1)
      /\ o.id \in AnyId
      /\ o.id \in ClientIds => o.id = r.id
      /\ ~RestsIn(books, o.id)
  <2> HIDE DEF r
  <2> QED BY <1>1, <1>2, AssignedOrder
<1>4. CASE ~Valid(o)
  <2>1. h = [Only(Reject(o.id)) EXCEPT !.next_order_id = NextId(r)]
    BY <1>4 DEF NewOrderHandled
  <2> HIDE DEF o, r, h
  <2>2. /\ h.books = books /\ h.next_order_id = NextId(r)
        /\ h.trades = << >> /\ h.answer = Reject(o.id)
    BY <2>1 DEF Only
  <2>3. Reject(o.id) \in Messages /\ Reject(o.id).kind # "ack"
    BY <1>3, AnswersTyped DEF OrderStatus
  <2>4. \A orders : HearAnswer(orders, e, << >>, h.answer) = orders
    BY <2>2, <2>3 DEF HearAnswer
  <2>5. HandledWell(e, h) BY <1>1, <1>3, <2>2, <2>3, <2>4, NothingDone
  <2> QED BY <2>5 DEF h
<1>5. CASE Valid(o)
  <2>1. h = [books |-> Put(books, s, m.book), next_order_id |-> NextId(r),
             trades |-> m.trades, answer |-> Ack(o.id, m.status)]
    BY <1>5 DEF NewOrderHandled
  <2>2. Book(s) = BookIn(books, s) BY DEF Book, BookIn
  <2>3. SoundBook(Book(s)) /\ \A n \in DOMAIN Book(s).heap : Book(s).heap[n].id # o.id
    BY <1>3, <2>2, BookInIsSound
  <2> DEFINE heard == HearTrades(RestingIn(Book(s)), m.trades)
             rests == o.type = "LIMIT" /\ m.status \in {"ACCEPTED", "PARTIALLY_FILLED"}
             cs == Put(books, s, m.book)
  <2> HIDE DEF o, r, s, h
  <2>4. /\ SoundBook(m.book)
        /\ \A n \in DOMAIN m.book.heap :
             \/ m.book.heap[n].id = o.id
             \/ \E k \in DOMAIN Book(s).heap : Book(s).heap[k].id = m.book.heap[n].id
        /\ m.status \in OrderStatus
        /\ m.trades \in Seq(Trade)
        /\ o.tif # "FOK" =>
             RestingIn(m.book) =
               IF rests THEN Put(heard, o.id, o.quantity - TradedQuantity(m.trades))
               ELSE heard
    BY <1>3, <2>3, MatchedSound
  <2> HIDE DEF m
  <2>5. /\ DOMAIN cs = DOMAIN books \cup {s} /\ cs[s] = m.book
        /\ \A q \in DOMAIN books : q # s => cs[q] = books[q]
    BY DEF Put
  <2> HIDE DEF cs
  <2>6. {o.id} \subseteq ClientIds \cup 1..(NextId(r) - 1) BY <1>3
  <2>7. \A n \in DOMAIN cs[s].heap :
          \/ cs[s].heap[n].id \in {o.id}
          \/ \E k \in DOMAIN BookIn(books, s).heap :
               BookIn(books, s).heap[k].id = cs[s].heap[n].id
    BY <2>2, <2>4, <2>5
  <2>8. SoundBook(cs[s]) BY <2>4, <2>5
  <2>9. /\ BooksInv(cs, NextId(r))
        /\ \A id : RestsIn(cs, id) => RestsIn(books, id) \/ id \in {o.id}
        /\ BookIn(cs, s) = cs[s]
        /\ \A q : q # s => BookIn(cs, q) = BookIn(books, q)
    <3>1. OneBookChanges(books, cs, s, {o.id}) BY <2>5, <2>7, <2>8 DEF OneBookChanges
    <3>2. /\ s \in Symbols /\ next_order_id \in Nat \ {0}
          /\ NextId(r) \in {next_order_id, next_order_id + 1}
          /\ BooksInv(books, next_order_id)
      BY <1>1, <1>3
    <3> QED BY ONLY <2>6, <3>1, <3>2, BookReplaced
  <2>10. /\ h.books = cs /\ h.next_order_id = NextId(r) /\ h.trades = m.trades
         /\ h.answer = Ack(o.id, m.status)
    BY <2>1 DEF cs
  <2>11. /\ Ack(o.id, m.status) \in Messages
         /\ h.answer.kind = "ack" /\ h.answer.id = o.id /\ h.answer.status = m.status
    BY <1>3, <2>4, <2>10, AnswersTyped
  <2>12. \A id \in ClientIds :
           RestsIn(h.books, id) => RestsIn(books, id) \/ (Chosen(e) /\ e.order.id = id)
    BY <1>3, <2>9, <2>10 DEF Chosen, r
  <2>13. ASSUME "FOK" \notin TIFs PROVE Tells(e, h)
    <3>1. o.tif # "FOK" BY <1>3, <2>13
    <3>2. HearAnswer(heard, e, h.trades, h.answer) =
            IF rests THEN Put(heard, o.id, o.quantity - TradedQuantity(m.trades)) ELSE heard
      <4> HIDE DEF heard
      <4> QED BY <1>3, <2>10, <2>11 DEF HearAnswer, r
    <3>3. RestingIn(BookIn(h.books, s)) = HearAnswer(heard, e, h.trades, h.answer)
      BY <2>4, <2>5, <2>9, <2>10, <3>1, <3>2
    <3>4. \A q : q # s => BookIn(h.books, q) = Book(q)
      BY <2>9, <2>10 DEF Book, BookIn
    <3> QED BY <2>10, <3>3, <3>4 DEF Tells, s
  <2> QED BY <1>3, <2>4, <2>9, <2>10, <2>11, <2>12, <2>13 DEF HandledWell, h
<1> QED BY <1>4, <1>5

\* A cancel or a modify of an order that rests in one of the books.
LEMMA BookChanged ==
  ASSUME next_order_id \in Nat \ {0}, BooksInv(books, next_order_id),
         NEW e, e.symbol \in DOMAIN books, NEW h, NEW c, SoundBook(c),
         \A n \in DOMAIN c.heap :
            \E k \in DOMAIN books[e.symbol].heap : books[e.symbol].heap[k].id = c.heap[n].id,
         h.books = [books EXCEPT ![e.symbol] = c],
         h.next_order_id = next_order_id, h.trades = << >>, h.answer \in Messages,
         RestingIn(c) = HearAnswer(RestingIn(books[e.symbol]), e, << >>, h.answer)
  PROVE  HandledWell(e, h)
<1> DEFINE s == e.symbol
           cs == [books EXCEPT ![e.symbol] = c]
<1>1. s \in Symbols BY DEF BooksInv
<1>2. BookIn(books, s) = books[s] /\ Book(s) = books[s] BY DEF BookIn, Book
<1>3. /\ DOMAIN cs = DOMAIN books \cup {s} /\ cs[s] = c
      /\ \A q \in DOMAIN books : q # s => cs[q] = books[q]
  OBVIOUS
<1> HIDE DEF cs, s
<1>4. SoundBook(cs[s]) /\ next_order_id \in {next_order_id, next_order_id + 1}
      /\ {} \subseteq ClientIds \cup 1..(next_order_id - 1)
  BY <1>3
<1>5. \A n \in DOMAIN cs[s].heap :
        \/ cs[s].heap[n].id \in {}
        \/ \E k \in DOMAIN BookIn(books, s).heap :
             BookIn(books, s).heap[k].id = cs[s].heap[n].id
  BY <1>2, <1>3 DEF s
<1>6. /\ BooksInv(cs, next_order_id)
      /\ \A id : RestsIn(cs, id) => RestsIn(books, id) \/ id \in {}
      /\ BookIn(cs, s) = cs[s]
      /\ \A q : q # s => BookIn(cs, q) = BookIn(books, q)
  <2> DEFINE none == {}
             next == next_order_id
  <2>1. OneBookChanges(books, cs, s, none) BY <1>3, <1>4, <1>5 DEF OneBookChanges
  <2>2. /\ BooksInv(books, next) /\ s \in Symbols
        /\ next \in Nat \ {0}
        /\ none \subseteq ClientIds \cup 1..(next - 1)
    BY <1>1, <1>4
  <2> HIDE DEF none, next
  <2>3. /\ BooksInv(cs, next)
        /\ \A id : RestsIn(cs, id) => RestsIn(books, id) \/ id \in none
        /\ BookIn(cs, s) = cs[s]
        /\ \A q : q # s => BookIn(cs, q) = BookIn(books, q)
    <3>1. next \in {next, next + 1} OBVIOUS
    <3> QED BY ONLY <2>1, <2>2, <3>1, BookReplaced
  <2> QED BY <2>3 DEF none, next
<1>7. h.books = cs BY DEF cs
<1>8. Tells(e, h)
  <2>1. RestingIn(BookIn(h.books, s)) =
          HearAnswer(HearTrades(RestingIn(Book(s)), h.trades), e, h.trades, h.answer)
    BY <1>2, <1>3, <1>6, <1>7, NothingHeard DEF s
  <2>2. \A q : q # s => BookIn(h.books, q) = Book(q) BY <1>6, <1>7 DEF Book, BookIn
  <2> QED BY <2>1, <2>2 DEF Tells, s
<1>9. h.trades \in Seq(Trade) OBVIOUS
<1> QED BY <1>4, <1>6, <1>7, <1>8, <1>9 DEF HandledWell

LEMMA CancelSound ==
  ASSUME next_order_id \in Nat \ {0}, BooksInv(books, next_order_id),
         NEW e \in Events, e.kind = "cancel"
  PROVE  HandledWell(e, CancelHandled(e))
<1> DEFINE h == CancelHandled(e)
           b == books[e.symbol]
<1>1. e.id \in AnyId BY EventParts
<1>2. /\ Reject(e.id) \in Messages /\ Reject(e.id).kind # "ack"
      /\ \A status \in {"REJECTED", "CANCELLED"} :
           /\ Ack(e.id, status) \in Messages
           /\ Ack(e.id, status).kind = "ack" /\ Ack(e.id, status).status = status
  BY <1>1, AnswersTyped DEF OrderStatus
<1>3. CASE e.symbol \notin DOMAIN books
  <2>1. h = Only(Reject(e.id)) BY <1>3 DEF CancelHandled
  <2> HIDE DEF h
  <2>2. /\ h.books = books /\ h.next_order_id = next_order_id
        /\ h.trades = << >> /\ h.answer = Reject(e.id)
    BY <2>1 DEF Only
  <2>3. \A orders : HearAnswer(orders, e, << >>, h.answer) = orders
    BY <1>2, <2>2 DEF HearAnswer
  <2>4. HandledWell(e, h) BY <1>2, <2>2, <2>3, NothingDone
  <2> QED BY <2>4 DEF h
<1>4. CASE e.symbol \in DOMAIN books /\ e.id \notin DOMAIN b.orders
  <2>1. h = Only(Ack(e.id, "REJECTED")) BY <1>4 DEF CancelHandled
  <2> HIDE DEF h
  <2>2. /\ h.books = books /\ h.next_order_id = next_order_id
        /\ h.trades = << >> /\ h.answer = Ack(e.id, "REJECTED")
    BY <2>1 DEF Only
  <2>3. \A orders : HearAnswer(orders, e, << >>, h.answer) = orders
    BY <1>2, <2>2 DEF HearAnswer
  <2>4. HandledWell(e, h) BY <1>2, <2>2, <2>3, NothingDone
  <2> QED BY <2>4 DEF h
<1>5. CASE e.symbol \in DOMAIN books /\ e.id \in DOMAIN b.orders
  <2> DEFINE c == Cancelled(b, e.id)
  <2>1. h = [Only(Ack(e.id, "CANCELLED")) EXCEPT !.books[e.symbol] = Cancelled(@, e.id)]
    BY <1>5 DEF CancelHandled
  <2>2. SoundBook(b) BY <1>5 DEF BooksInv
  <2> HIDE DEF b
  <2>3. SoundBook(c) /\ Kept(b, c) /\ RestingIn(c) = Without(RestingIn(b), e.id)
    BY <1>5, <2>2, CancelledSound
  <2>4. /\ h.books = [books EXCEPT ![e.symbol] = c] /\ h.next_order_id = next_order_id
        /\ h.trades = << >> /\ h.answer = Ack(e.id, "CANCELLED")
    BY <2>1 DEF Only, b
  <2> HIDE DEF c, h
  <2>5. HearAnswer(RestingIn(b), e, << >>, h.answer) = Without(RestingIn(b), e.id)
    BY <1>2, <2>4 DEF HearAnswer
  <2>6. \A n \in DOMAIN c.heap : \E k \in DOMAIN b.heap : b.heap[k].id = c.heap[n].id
    BY <2>3 DEF Kept
  <2>7. HandledWell(e, h)
    BY <1>2, <1>5, <2>3, <2>4, <2>5, <2>6, BookChanged DEF b
  <2> QED BY <2>7 DEF h
<1> QED BY <1>3, <1>4, <1>5

LEMMA ModifySound ==
  ASSUME next_order_id \in Nat \ {0}, BooksInv(books, next_order_id),
         NEW e \in Events, e.kind = "modify"
  PROVE  HandledWell(e, ModifyHandled(e))
<1> DEFINE h == ModifyHandled(e)
           b == books[e.symbol]
<1>1. e.id \in AnyId /\ e.price \in Prices /\ e.quantity \in Nat BY EventParts
<1>2. /\ Reject(e.id) \in Messages /\ Reject(e.id).kind # "ack"
      /\ \A status \in {"REJECTED", "ACCEPTED"} :
           /\ Ack(e.id, status) \in Messages
           /\ Ack(e.id, status).kind = "ack" /\ Ack(e.id, status).status = status
  BY <1>1, AnswersTyped DEF OrderStatus
<1>3. CASE e.symbol \notin DOMAIN books
  <2>1. h = Only(Reject(e.id)) BY <1>3 DEF ModifyHandled
  <2> HIDE DEF h
  <2>2. /\ h.books = books /\ h.next_order_id = next_order_id
        /\ h.trades = << >> /\ h.answer = Reject(e.id)
    BY <2>1 DEF Only
  <2>3. \A orders : HearAnswer(orders, e, << >>, h.answer) = orders
    BY <1>2, <2>2 DEF HearAnswer
  <2>4. HandledWell(e, h) BY <1>2, <2>2, <2>3, NothingDone
  <2> QED BY <2>4 DEF h
<1>4. CASE e.symbol \in DOMAIN books /\ e.id \notin DOMAIN b.orders
  <2>1. h = Only(Ack(e.id, "REJECTED")) BY <1>4 DEF ModifyHandled
  <2> HIDE DEF h
  <2>2. /\ h.books = books /\ h.next_order_id = next_order_id
        /\ h.trades = << >> /\ h.answer = Ack(e.id, "REJECTED")
    BY <2>1 DEF Only
  <2>3. \A orders : HearAnswer(orders, e, << >>, h.answer) = orders
    BY <1>2, <2>2 DEF HearAnswer
  <2>4. HandledWell(e, h) BY <1>2, <2>2, <2>3, NothingDone
  <2> QED BY <2>4 DEF h
<1>5. CASE e.symbol \in DOMAIN books /\ e.id \in DOMAIN b.orders
  <2> DEFINE c == Modified(b, e.id, e.price, e.quantity)
  <2>1. h = [Only(Ack(e.id, "ACCEPTED")) EXCEPT
               !.books[e.symbol] = Modified(@, e.id, e.price, e.quantity)]
    BY <1>5 DEF ModifyHandled
  <2>2. SoundBook(b) BY <1>5 DEF BooksInv
  <2> HIDE DEF b
  <2>3. /\ SoundBook(c)
        /\ \A n \in DOMAIN c.heap : \E k \in DOMAIN b.heap : b.heap[k].id = c.heap[n].id
        /\ RestingIn(c) = Put(RestingIn(b), e.id, e.quantity)
    BY <1>1, <1>5, <2>2, ModifiedTold
  <2>4. /\ h.books = [books EXCEPT ![e.symbol] = c] /\ h.next_order_id = next_order_id
        /\ h.trades = << >> /\ h.answer = Ack(e.id, "ACCEPTED")
    BY <2>1 DEF Only, b
  <2> HIDE DEF c, h
  <2>5. HearAnswer(RestingIn(b), e, << >>, h.answer) = Put(RestingIn(b), e.id, e.quantity)
    BY <1>2, <2>4 DEF HearAnswer
  <2>6. HandledWell(e, h)
    BY <1>2, <1>5, <2>3, <2>4, <2>5, BookChanged DEF b
  <2> QED BY <2>6 DEF h
<1> QED BY <1>3, <1>4, <1>5

LEMMA HandlersSound ==
  ASSUME UniqueIds, next_order_id \in 1..AutoIds, BooksInv(books, next_order_id),
         NEW e \in Events, Chosen(e) => ~RestsIn(books, e.order.id)
  PROVE  HandledWell(e, Handled(e))
<1>1. e.kind \in {"new", "cancel", "modify"} BY EventParts
<1>2. next_order_id \in Nat \ {0} OBVIOUS
<1>3. CASE e.kind = "new" BY <1>3, NewOrderSound DEF Handled
<1>4. CASE e.kind = "cancel" BY <1>2, <1>4, CancelSound DEF Handled
<1>5. CASE e.kind = "modify" BY <1>2, <1>5, ModifySound DEF Handled
<1> QED BY <1>1, <1>3, <1>4, <1>5

(* The invariant of the engine ********************************************)

\* The ids that clients have chosen for the orders that wait are free, and
\* there is an id for every order that may still take one.
WaitInv(queue, bs, next) ==
    /\ next \in 1..(AutoIds + 1)
    /\ next + Len(queue) <= AutoIds + 1
    /\ \A i \in DOMAIN queue : Chosen(queue[i].event) =>
         /\ ~RestsIn(bs, queue[i].event.order.id)
         /\ \A j \in DOMAIN queue :
              Chosen(queue[j].event) /\ queue[j].event.order.id = queue[i].event.order.id
              => j = i

Queued == [number : Int, event : Events]

\* What the client knows is what rests, unless an order is killed.
KnownInv ==
    "FOK" \notin TIFs =>
        DOMAIN known = Symbols /\ \A s \in Symbols : known[s] = RestingIn(BookIn(books, s))

EngineInv ==
    /\ event_queue \in Seq(Queued) /\ Len(event_queue) < Capacity
    /\ running \in BOOLEAN
    /\ processed \in Nat
    /\ last.trades \in Seq(Trade) /\ last.answer \in Messages
    /\ BooksInv(books, next_order_id)
    /\ WaitInv(event_queue, books, next_order_id)
    /\ KnownInv

LEMMA EngineInit == Init => EngineInv
<1> SUFFICES ASSUME Init PROVE EngineInv OBVIOUS
<1>1. /\ event_queue = << >> /\ running = FALSE /\ next_order_id = 1
      /\ last.trades = << >> /\ last.answer = NoMessage
      /\ DOMAIN books = {}
      /\ known = [s \in Symbols |-> [id \in {} |-> 0]]
  BY DEF Init
<1>2. event_queue \in Seq(Queued) /\ last.trades \in Seq(Trade)
      /\ Len(event_queue) = 0 /\ DOMAIN event_queue = {}
  BY <1>1
<1>3. last.answer \in Messages BY <1>1 DEF Messages
<1>4. BooksInv(books, next_order_id) BY <1>1 DEF BooksInv
<1>5. WaitInv(event_queue, books, next_order_id)
  BY <1>1, <1>2, IdsAssumption DEF WaitInv
<1>6. KnownInv BY <1>1, NewBookResting DEF KnownInv, BookIn
<1>7. Len(event_queue) < Capacity BY <1>2, BoundsAssumption
<1>8. running \in BOOLEAN /\ processed \in Nat BY <1>1 DEF Init
<1> QED BY <1>2, <1>3, <1>4, <1>5, <1>6, <1>7, <1>8 DEF EngineInv

\* The ids stay free in the queue to which an event has been pushed.
LEMMA PushedWaits ==
  ASSUME event_queue \in Seq(Queued), WaitInv(event_queue, books, next_order_id),
         NEW e \in Events, MaySubmit(e), WithinBounds, NEW number \in Int
  PROVE  LET queue == Append(event_queue, [number |-> number, event |-> e]) IN
         /\ queue \in Seq(Queued)
         /\ Len(queue) = Len(event_queue) + 1
         /\ WaitInv(queue, books, next_order_id)
<1> DEFINE item  == [number |-> number, event |-> e]
           queue == Append(event_queue, item)
           n     == Len(event_queue)
<1>1. item \in Queued /\ item.event = e BY DEF Queued
<1> HIDE DEF item
<1>2. /\ n \in Nat /\ queue \in Seq(Queued) /\ Len(queue) = n + 1
      /\ DOMAIN queue = DOMAIN event_queue \cup {n + 1}
      /\ \A i \in DOMAIN event_queue : queue[i] = event_queue[i] /\ i # n + 1
      /\ queue[n + 1].event = e
  BY <1>1, AppendToQueue, LenProperties
<1>3. Chosen(e) => /\ ~RestsIn(books, e.order.id)
                   /\ \A i \in DOMAIN event_queue :
                        Chosen(event_queue[i].event) => event_queue[i].event.order.id # e.order.id
  BY DEF MaySubmit, Chosen, RestsIn
<1> HIDE DEF queue
<1>4. next_order_id + Len(queue) <= AutoIds + 1
  BY <1>2, IdsAssumption DEF WithinBounds, WaitInv
<1>5. \A i \in DOMAIN queue : Chosen(queue[i].event) =>
        /\ ~RestsIn(books, queue[i].event.order.id)
        /\ \A j \in DOMAIN queue :
             Chosen(queue[j].event) /\ queue[j].event.order.id = queue[i].event.order.id
             => j = i
  BY <1>2, <1>3 DEF WaitInv
<1> QED BY <1>2, <1>4, <1>5 DEF WaitInv, queue, item

\* Processing the event at the head of a queue whose ids are free.
LEMMA ProcessStep ==
  ASSUME UniqueIds, NEW queue \in Seq(Queued), queue # << >>,
         BooksInv(books, next_order_id), WaitInv(queue, books, next_order_id), KnownInv,
         Process(Head(queue)), event_queue' = Tail(queue)
  PROVE  /\ BooksInv(books, next_order_id)'
         /\ WaitInv(event_queue, books, next_order_id)'
         /\ KnownInv'
         /\ last'.trades \in Seq(Trade) /\ last'.answer \in Messages
<1> DEFINE e == Head(queue).event
           h == Handled(e)
           rest == Tail(queue)
<1>1. /\ books' = h.books /\ next_order_id' = h.next_order_id
      /\ last'.trades = h.trades /\ last'.answer = h.answer
      /\ known' = Heard(e, h)
  BY DEF Process
<1>2. /\ Len(queue) \in Nat \ {0} /\ DOMAIN queue = 1..Len(queue)
      /\ Head(queue) = queue[1] /\ Head(queue) \in Queued
      /\ rest \in Seq(Queued) /\ Len(rest) = Len(queue) - 1
      /\ \A i \in DOMAIN rest : rest[i] = queue[i + 1] /\ i \in Nat /\ i # 0 /\ i + 1 \in DOMAIN queue
  <2>1. Len(queue) \in Nat /\ Len(queue) # 0 /\ DOMAIN queue = 1..Len(queue)
    BY LenProperties, EmptySeq
  <2>2. rest \in Seq(Queued) /\ Len(rest) = Len(queue) - 1
        /\ \A i \in 1..Len(rest) : rest[i] = queue[i + 1]
        /\ Head(queue) = queue[1] /\ Head(queue) \in Queued
    BY HeadTailProperties
  <2>3. DOMAIN rest = 1..Len(rest) BY <2>2, LenProperties
  <2> HIDE DEF rest
  <2> QED BY <2>1, <2>2, <2>3
<1>3. e \in Events BY <1>2 DEF Queued
<1>4. next_order_id \in 1..AutoIds BY <1>2, IdsAssumption DEF WaitInv
<1>5. /\ Chosen(e) => ~RestsIn(books, e.order.id)
      /\ \A i \in DOMAIN rest : Chosen(rest[i].event) =>
           /\ ~RestsIn(books, rest[i].event.order.id)
           /\ Chosen(e) => rest[i].event.order.id # e.order.id
           /\ \A j \in DOMAIN rest :
                Chosen(rest[j].event) /\ rest[j].event.order.id = rest[i].event.order.id
                => j = i
  <2>1. 1 \in DOMAIN queue /\ e = queue[1].event BY <1>2
  <2> HIDE DEF e, rest
  <2>2. Chosen(e) => ~RestsIn(books, e.order.id) BY <2>1 DEF WaitInv
  <2>3. ASSUME NEW i \in DOMAIN rest, Chosen(rest[i].event)
        PROVE  /\ ~RestsIn(books, rest[i].event.order.id)
               /\ Chosen(e) => rest[i].event.order.id # e.order.id
               /\ \A j \in DOMAIN rest :
                    Chosen(rest[j].event) /\ rest[j].event.order.id = rest[i].event.order.id
                    => j = i
    <3>1. /\ rest[i] = queue[i + 1] /\ i + 1 \in DOMAIN queue /\ i \in Nat
          /\ i + 1 # 1 BY <1>2
    <3>2. \A j \in DOMAIN rest : /\ rest[j] = queue[j + 1] /\ j + 1 \in DOMAIN queue
                                 /\ j + 1 = i + 1 => j = i
      BY <1>2, <3>1
    <3>3. /\ ~RestsIn(books, queue[i + 1].event.order.id)
          /\ \A j \in DOMAIN queue :
               Chosen(queue[j].event) /\ queue[j].event.order.id = queue[i + 1].event.order.id
               => j = i + 1
      BY <2>3, <3>1 DEF WaitInv
    <3> QED BY <2>1, <3>1, <3>2, <3>3
  <2> QED BY <2>2, <2>3
<1> HIDE DEF e, rest
<1>6. HandledWell(e, h) BY <1>3, <1>4, <1>5, HandlersSound
<1> HIDE DEF h
<1>7. BooksInv(books', next_order_id') BY <1>1, <1>6 DEF HandledWell
<1>8. WaitInv(rest, books', next_order_id')
  <2>1. next_order_id' \in 1..(AutoIds + 1) /\ next_order_id' + Len(rest) <= AutoIds + 1
    BY <1>1, <1>2, <1>4, <1>6, IdsAssumption DEF HandledWell, WaitInv
  <2>2. ASSUME NEW i \in DOMAIN rest, Chosen(rest[i].event)
        PROVE  ~RestsIn(books', rest[i].event.order.id)
    <3>1. rest[i].event.order.id \in ClientIds BY <2>2 DEF Chosen
    <3> QED BY <1>1, <1>5, <1>6, <2>2, <3>1 DEF HandledWell
  <2> QED BY <1>5, <2>1, <2>2 DEF WaitInv
<1>9. KnownInv'
  <2> SUFFICES ASSUME "FOK" \notin TIFs
               PROVE  /\ DOMAIN known' = Symbols
                      /\ \A s \in Symbols : known'[s] = RestingIn(BookIn(books', s))
    BY DEF KnownInv, BookIn
  <2>1. DOMAIN known = Symbols /\ \A s \in Symbols : known[s] = RestingIn(Book(s))
    BY DEF KnownInv, BookIn, Book
  <2>2. known' = [known EXCEPT ![e.symbol] =
                    HearAnswer(HearTrades(known[e.symbol], h.trades), e, h.trades, h.answer)]
    BY <1>1 DEF Heard
  <2>3. e.symbol \in Symbols BY <1>3, EventParts
  <2>4. Tells(e, h) BY <1>6 DEF HandledWell
  <2> QED BY <1>1, <2>1, <2>2, <2>3, <2>4 DEF Tells
<1> QED BY <1>1, <1>6, <1>7, <1>8, <1>9 DEF HandledWell, rest

LEMMA SubmitStep ==
  ASSUME UniqueIds, EngineInv, NEW e \in Events, SubmitEvent(e)
  PROVE  EngineInv'
<1> DEFINE item == [number |-> Accepted + 1, event |-> e]
           queue == Append(event_queue, item)
<1>1. /\ WithinBounds /\ MaySubmit(e) /\ HasSlot
      /\ IF running
         THEN Process(Head(queue)) /\ event_queue' = Tail(queue)
         ELSE /\ event_queue' = queue
              /\ UNCHANGED <<books, next_order_id, processed, last, known>>
      /\ UNCHANGED running
  BY DEF SubmitEvent
<1>2. /\ event_queue \in Seq(Queued) /\ Len(event_queue) \in Nat
      /\ BooksInv(books, next_order_id) /\ KnownInv
      /\ WaitInv(event_queue, books, next_order_id)
      /\ running \in BOOLEAN /\ processed \in Nat
      /\ last.trades \in Seq(Trade) /\ last.answer \in Messages
  BY LenProperties DEF EngineInv
<1>3. Accepted + 1 \in Int BY <1>2 DEF Accepted
<1>4. /\ queue \in Seq(Queued) /\ Len(queue) = Len(event_queue) + 1
      /\ WaitInv(queue, books, next_order_id)
  BY <1>1, <1>2, <1>3, PushedWaits
<1> HIDE DEF queue
<1>5. Len(event_queue) + 1 < Capacity BY <1>1, <1>2, BoundsAssumption DEF HasSlot
<1>6. CASE running
  <2>1. /\ Process(Head(queue)) /\ event_queue' = Tail(queue)
        /\ processed' = processed + 1
    BY <1>1, <1>6 DEF Process
  <2>2. queue # << >> BY <1>2, <1>4
  <2>3. /\ BooksInv(books, next_order_id)'
        /\ WaitInv(event_queue, books, next_order_id)'
        /\ KnownInv'
        /\ last'.trades \in Seq(Trade) /\ last'.answer \in Messages
    BY <1>2, <1>4, <2>1, <2>2, ProcessStep
  <2>4. Tail(queue) \in Seq(Queued) /\ Len(Tail(queue)) = Len(event_queue)
    BY <1>2, <1>4, <2>2, HeadTailProperties
  <2>5. event_queue' \in Seq(Queued) /\ Len(event_queue') < Capacity
    BY <1>2, <1>5, <2>1, <2>4, BoundsAssumption
  <2>6. processed' \in Nat BY <1>2, <2>1
  <2> QED BY <1>1, <1>2, <2>3, <2>5, <2>6 DEF EngineInv
<1>7. CASE ~running
  <2>1. /\ event_queue' = queue /\ books' = books /\ next_order_id' = next_order_id
        /\ last' = last /\ known' = known /\ processed' = processed
    BY <1>1, <1>7
  <2>2. KnownInv' BY <1>2, <2>1 DEF KnownInv, BookIn
  <2>3. BooksInv(books, next_order_id)' /\ WaitInv(event_queue, books, next_order_id)'
    BY <1>2, <1>4, <2>1 DEF BooksInv, WaitInv, RestsIn
  <2> QED BY <1>1, <1>2, <1>4, <1>5, <2>1, <2>2, <2>3 DEF EngineInv
<1> QED BY <1>2, <1>6, <1>7

LEMMA EngineStepInvariant ==
  ASSUME UniqueIds
  PROVE  EngineInv /\ [Next]_vars => EngineInv'
<1> SUFFICES ASSUME EngineInv, [Next]_vars PROVE EngineInv'
  OBVIOUS
<1>1. ASSUME UNCHANGED <<books, event_queue, next_order_id, processed, last, known>>,
             running' \in BOOLEAN
      PROVE  EngineInv'
  <2>1. KnownInv' BY <1>1 DEF EngineInv, KnownInv, BookIn
  <2>2. BooksInv(books, next_order_id)' /\ WaitInv(event_queue, books, next_order_id)'
    BY <1>1 DEF EngineInv, BooksInv, WaitInv, RestsIn
  <2> QED BY <1>1, <2>1, <2>2 DEF EngineInv
<1>2. CASE Start BY <1>1, <1>2 DEF Start
<1>3. CASE Stop BY <1>1, <1>3 DEF Stop
<1>4. ASSUME NEW e \in Events, SubmitEvent(e) PROVE EngineInv'
  BY <1>4, SubmitStep
<1>5. CASE UNCHANGED vars BY <1>1, <1>5 DEF vars, EngineInv
<1> QED BY <1>2, <1>3, <1>4, <1>5 DEF Next

LEMMA EngineInvariance == UniqueIds => (Spec => []EngineInv)
<1> SUFFICES ASSUME ClientIds \cap 1..AutoIds = {} PROVE Spec => []EngineInv
  BY DEF UniqueIds
<1>1. Init => EngineInv BY EngineInit
<1>2. EngineInv /\ [Next]_vars => EngineInv'
  BY EngineStepInvariant DEF UniqueIds
<1> QED BY <1>1, <1>2, PTL DEF Spec

(* The results ************************************************************)

\* Every book stays sound, whatever clients send to whichever symbol, as long
\* as no client chooses an id that the engine may assign.  Without that, an
\* assigned id may be one that rests, and its index entry is overwritten.
THEOREM BooksStaySound == UniqueIds => (Spec => []BooksSound)
<1> SUFFICES ASSUME ClientIds \cap 1..AutoIds = {} PROVE Spec => []BooksSound
  BY DEF UniqueIds
<1>1. EngineInv => BooksSound
  BY DEF EngineInv, BooksInv, SoundBook, BookInv, BooksSound
<1>2. Spec => []EngineInv BY EngineInvariance DEF UniqueIds
<1> QED BY <1>1, <1>2, PTL

\* What the callbacks say adds up to what rests in every book, as long as no
\* order is killed: a FOK order that is killed has traded without a callback.
THEOREM CallbacksAreComplete ==
  UniqueIds /\ "FOK" \notin TIFs => (Spec => []CallbacksTellTheBook)
<1> SUFFICES ASSUME ClientIds \cap 1..AutoIds = {}, "FOK" \notin TIFs
             PROVE  Spec => []CallbacksTellTheBook
  BY DEF UniqueIds
<1>1. EngineInv => CallbacksTellTheBook
  BY DEF EngineInv, KnownInv, CallbacksTellTheBook, BookIn, Book
<1>2. Spec => []EngineInv BY EngineInvariance DEF UniqueIds
<1> QED BY <1>1, <1>2, PTL

\* Every variable has its type; of the queue, one slot stays free.
THEOREM EngineTypes == UniqueIds /\ "FOK" \notin TIFs => (Spec => []TypeOK)
<1> SUFFICES ASSUME ClientIds \cap 1..AutoIds = {}, "FOK" \notin TIFs
             PROVE  Spec => []TypeOK
  BY DEF UniqueIds
<1>1. ASSUME EngineInv PROVE TypeOK
  <2>1. \A s \in DOMAIN books : BookType(books[s])
    BY <1>1 DEF EngineInv, BooksInv, SoundBook, BookInv
  <2>2. \A i \in DOMAIN event_queue : event_queue[i].event \in Events
    <3>1. event_queue \in Seq(Queued) BY <1>1 DEF EngineInv
    <3>2. \A i \in DOMAIN event_queue : event_queue[i] \in Queued BY <3>1, ElementOfSeq
    <3> QED BY <3>2 DEF Queued
  <2>3. ASSUME NEW s \in Symbols PROVE PartialFunction(known[s], OrderIds, Nat)
    <3>1. known[s] = RestingIn(BookIn(books, s)) BY <1>1 DEF EngineInv, KnownInv
    <3>2. SoundBook(BookIn(books, s)) BY <1>1, BookInIsSound DEF EngineInv
    <3> QED BY <3>1, <3>2, RestingTyped
  <2> QED BY <1>1, <2>1, <2>2, <2>3 DEF EngineInv, BooksInv, WaitInv, TypeOK
<1>2. EngineInv => TypeOK BY <1>1
<1>3. Spec => []EngineInv BY EngineInvariance DEF UniqueIds
<1> QED BY <1>2, <1>3, PTL

\* Numbered events: those that wait are the ones after the last processed.
OrderInv ==
    /\ processed \in Nat
    /\ event_queue \in Seq(Queued)
    /\ AnsweredInOrder

\* Events are answered in the order in which they were accepted, each once,
\* whatever they are and however often the engine is stopped.
THEOREM AnswersComeInOrder == Spec => []AnsweredInOrder
<1>1. Init => OrderInv
  <2> SUFFICES ASSUME Init PROVE OrderInv OBVIOUS
  <2>1. event_queue = << >> /\ processed = 0 /\ last.number = 0 BY DEF Init
  <2> QED BY <2>1 DEF OrderInv, AnsweredInOrder
<1>2. OrderInv /\ [Next]_vars => OrderInv'
  <2> SUFFICES ASSUME OrderInv, [Next]_vars PROVE OrderInv' OBVIOUS
  <2> USE DEF OrderInv, AnsweredInOrder
  <2>1. CASE Start BY <2>1 DEF Start
  <2>2. CASE Stop BY <2>2 DEF Stop
  <2>3. ASSUME NEW e \in Events, SubmitEvent(e) PROVE OrderInv'
    <3> DEFINE n     == Len(event_queue)
               item  == [number |-> Accepted + 1, event |-> e]
               queue == Append(event_queue, item)
    <3>1. /\ IF running
             THEN Process(Head(queue)) /\ event_queue' = Tail(queue)
             ELSE event_queue' = queue /\ UNCHANGED <<processed, last>>
      BY <2>3 DEF SubmitEvent
    <3>2. n \in Nat /\ Accepted = processed + n BY LenProperties DEF Accepted
    <3>3. item \in Queued /\ item.number = processed + (n + 1) BY <3>2 DEF Queued
    <3> HIDE DEF item
    <3>4. /\ queue \in Seq(Queued) /\ Len(queue) = n + 1
          /\ queue # << >> /\ DOMAIN queue = 1..(n + 1)
          /\ \A i \in DOMAIN queue : queue[i].number = processed + i
      <4>1. /\ queue \in Seq(Queued) /\ queue # << >>
            /\ DOMAIN queue = DOMAIN event_queue \cup {n + 1}
            /\ \A i \in DOMAIN event_queue : queue[i] = event_queue[i]
            /\ queue[n + 1] = item
        BY <3>3, AppendToQueue
      <4>2. Len(queue) = n + 1 /\ DOMAIN queue = 1..(n + 1)
        BY <3>2, <3>3, <4>1, LenProperties, AppendProperties
      <4> HIDE DEF queue
      <4> QED BY <3>3, <4>1, <4>2
    <3> HIDE DEF queue
    <3>5. CASE running
      <4>1. /\ Tail(queue) \in Seq(Queued)
            /\ DOMAIN Tail(queue) = 1..n
            /\ \A i \in 1..n : Tail(queue)[i] = queue[i + 1]
            /\ Head(queue) = queue[1]
        BY <3>2, <3>4, HeadTailProperties, LenProperties
      <4>2. processed' = processed + 1 /\ last'.number = Head(queue).number
        BY <3>1, <3>5 DEF Process
      <4>3. last'.number = processed'
        <5>1. Head(queue) = queue[1] /\ 1 \in 1..(n + 1) BY <3>2, <4>1
        <5> QED BY <3>2, <3>4, <4>2, <5>1
      <4>4. \A i \in 1..n : Tail(queue)[i].number = processed' + i
        <5> TAKE i \in 1..n
        <5>1. i + 1 \in DOMAIN queue BY <3>2, <3>4
        <5>2. Tail(queue)[i].number = processed + (i + 1) BY <3>4, <4>1, <5>1
        <5>3. processed \in Nat /\ i \in Nat /\ processed' = processed + 1 BY <3>2, <4>2
        <5>4. processed + (i + 1) = processed' + i BY ONLY <5>3
        <5> QED BY <5>2, <5>4, Zenon
      <4>5. event_queue' = Tail(queue) /\ processed' \in Nat BY <3>1, <3>5, <4>2
      <4> QED BY ONLY <4>1, <4>3, <4>4, <4>5 DEF OrderInv, AnsweredInOrder
    <3>6. CASE ~running BY <3>1, <3>4, <3>6
    <3> QED BY <3>5, <3>6
  <2>4. CASE UNCHANGED vars BY <2>4 DEF vars
  <2> QED BY <2>1, <2>2, <2>3, <2>4 DEF Next
<1>3. OrderInv => AnsweredInOrder BY DEF OrderInv
<1> QED BY <1>1, <1>2, <1>3, PTL DEF Spec

(* The feed ***************************************************************)

\* The parser makes of a message an event that the engine knows, or none.
FeedParses == \A m \in FeedMessages : parse_json(m) \subseteq Events

LEMMA FeedStepIsEngineStep ==
  ASSUME FeedParses
  PROVE  [FeedNext]_feedVars => [Next]_vars
<1> SUFFICES ASSUME [FeedNext]_feedVars PROVE [Next]_vars OBVIOUS
<1>1. CASE StartOrStop BY <1>1 DEF StartOrStop, Next
<1>2. ASSUME NEW m \in FeedMessages, HandleMessage(m) PROVE [Next]_vars
  <2>1. \/ UNCHANGED vars
        \/ \E e \in parse_json(m) : SubmitEvent(e)
    BY <1>2 DEF HandleMessage, Dropped
  <2>2. parse_json(m) \subseteq Events BY <1>2 DEF FeedParses
  <2> QED BY <2>1, <2>2, Zenon DEF Next
<1>3. CASE UNCHANGED feedVars BY <1>3 DEF feedVars
<1> QED BY <1>1, <1>2, <1>3 DEF FeedNext

\* The feed handler drives the engine and does nothing else to it.
THEOREM FeedImplementsEngine == FeedParses => (FeedSpec => Spec)
<1> SUFFICES ASSUME \A m \in FeedMessages : parse_json(m) \subseteq Events
             PROVE  FeedSpec => Spec
  BY DEF FeedParses
<1>1. FeedInit => Init BY DEF FeedInit
<1>2. [FeedNext]_feedVars => [Next]_vars BY FeedStepIsEngineStep DEF FeedParses
<1> QED BY <1>1, <1>2, PTL DEF FeedSpec, Spec

\* Hence behind the feed, too, the books stay sound and the callbacks complete.
THEOREM FeedKeepsBooks ==
  FeedParses /\ UniqueIds /\ "FOK" \notin TIFs =>
    (FeedSpec => [](TypeOK /\ BooksSound /\ CallbacksTellTheBook /\ AnsweredInOrder))
<1> SUFFICES ASSUME \A m \in FeedMessages : parse_json(m) \subseteq Events,
                    ClientIds \cap 1..AutoIds = {}, "FOK" \notin TIFs
             PROVE  FeedSpec => [](TypeOK /\ BooksSound /\ CallbacksTellTheBook /\ AnsweredInOrder)
  BY DEF FeedParses, UniqueIds
<1>1. FeedSpec => Spec BY FeedImplementsEngine DEF FeedParses
<1>2. Spec => []TypeOK BY EngineTypes DEF UniqueIds
<1>3. Spec => []BooksSound BY BooksStaySound DEF UniqueIds
<1>4. Spec => []CallbacksTellTheBook BY CallbacksAreComplete DEF UniqueIds
<1> QED BY <1>1, <1>2, <1>3, <1>4, AnswersComeInOrder, PTL

\* All that the counting needs of the queue: it is a sequence.
Waiting == [number : Int, event : UNION {parse_json(m) : m \in FeedMessages}]
CountInv == processed \in Nat /\ event_queue \in Seq(Waiting)

\* A submitted event is counted as processed, or it makes the queue longer.
LEMMA SubmitCounts ==
  ASSUME CountInv, NEW m \in FeedMessages, NEW e \in parse_json(m), SubmitEvent(e)
  PROVE  /\ CountInv'
         /\ running' = running
         /\ Len(event_queue) < Capacity - 1
         /\ IF running
            THEN processed' = processed + 1 /\ Len(event_queue') = Len(event_queue)
            ELSE processed' = processed /\ Len(event_queue') = Len(event_queue) + 1
<1> DEFINE n     == Len(event_queue)
           item  == [number |-> Accepted + 1, event |-> e]
           queue == Append(event_queue, item)
<1>1. /\ Len(event_queue) < Capacity - 1 /\ running' = running
      /\ IF running
         THEN processed' = processed + 1 /\ event_queue' = Tail(queue)
         ELSE event_queue' = queue /\ processed' = processed
  BY DEF SubmitEvent, HasSlot, Process
<1>2. n \in Nat /\ processed \in Nat /\ event_queue \in Seq(Waiting)
  BY LenProperties DEF CountInv
<1>3. item \in Waiting
  <2>1. Accepted + 1 \in Int BY <1>2 DEF Accepted
  <2>2. e \in UNION {parse_json(k) : k \in FeedMessages} OBVIOUS
  <2> QED BY <2>1, <2>2 DEF Waiting
<1> HIDE DEF item
<1>4. queue \in Seq(Waiting) /\ Len(queue) = n + 1 /\ queue # << >>
  BY <1>2, <1>3, AppendProperties, AppendToQueue
<1> HIDE DEF queue
<1>5. Tail(queue) \in Seq(Waiting) /\ Len(Tail(queue)) = n
  BY <1>2, <1>4, HeadTailProperties
<1>6. CASE running BY <1>1, <1>2, <1>5, <1>6 DEF CountInv
<1>7. CASE ~running BY <1>1, <1>2, <1>4, <1>7 DEF CountInv
<1> QED BY <1>1, <1>6, <1>7

\* Every message is counted once, as dropped, as processed or as waiting, and
\* no event is ever taken from a full ring, where the push fails first.
THEOREM FeedCountsMessages == FeedSpec => ImplementsCounts
<1>1. FeedInit => Counted!Init /\ CountInv
  <2> SUFFICES ASSUME FeedInit PROVE Counted!Init /\ CountInv OBVIOUS
  <2>1. /\ event_queue = << >> /\ processed = 0 /\ running = FALSE
        /\ msg_count = 0 /\ dropped = 0
    BY DEF FeedInit, Init
  <2> QED BY <2>1 DEF Counted!Init, CountInv
<1>2. CountInv /\ [FeedNext]_feedVars => CountInv' /\ [Counted!Next]_(Counted!countsVars)
  <2> SUFFICES ASSUME CountInv, [FeedNext]_feedVars
               PROVE  CountInv' /\ [Counted!Next]_(Counted!countsVars)
    OBVIOUS
  <2>1. ASSUME event_queue' = event_queue, processed' = processed
        PROVE  CountInv' /\ Len(event_queue') = Len(event_queue)
    BY <2>1 DEF CountInv
  <2>2. CASE StartOrStop
    <3>1. /\ running' \in {TRUE, FALSE}
          /\ event_queue' = event_queue /\ processed' = processed
          /\ msg_count' = msg_count /\ dropped' = dropped
      BY <2>2 DEF StartOrStop, Start, Stop
    <3>2. Counted!Start \/ Counted!Stop
      BY <2>1, <3>1 DEF Counted!Start, Counted!Stop
    <3> QED BY <2>1, <3>1, <3>2 DEF Counted!Next
  <2>3. ASSUME NEW m \in FeedMessages, HandleMessage(m)
        PROVE  CountInv' /\ [Counted!Next]_(Counted!countsVars)
    <3>1. msg_count' = msg_count + 1 BY <2>3 DEF HandleMessage
    <3>2. \/ Dropped
          \/ \E e \in parse_json(m) : SubmitEvent(e) /\ UNCHANGED dropped
      BY <2>3 DEF HandleMessage
    <3>3. CASE Dropped
      <4>1. /\ dropped' = dropped + 1 /\ running' = running
            /\ event_queue' = event_queue /\ processed' = processed
        BY <3>3 DEF Dropped, vars
      <4>2. Counted!HandleMessage
        BY <2>1, <3>1, <4>1 DEF Counted!HandleMessage, Counted!Drop
      <4> QED BY <2>1, <4>1, <4>2 DEF Counted!Next
    <3>4. ASSUME NEW e \in parse_json(m), SubmitEvent(e), UNCHANGED dropped
          PROVE  CountInv' /\ [Counted!Next]_(Counted!countsVars)
      <4>1. /\ CountInv' /\ running' = running
            /\ Len(event_queue) < Capacity - 1
            /\ IF running
               THEN processed' = processed + 1 /\ Len(event_queue') = Len(event_queue)
               ELSE processed' = processed /\ Len(event_queue') = Len(event_queue) + 1
        BY <3>4, SubmitCounts DEF SubmitEvent
      <4>2. Counted!Accept BY <3>4, <4>1 DEF Counted!Accept
      <4>3. Counted!HandleMessage BY <3>1, <4>1, <4>2 DEF Counted!HandleMessage
      <4> QED BY <4>1, <4>3 DEF Counted!Next
    <3> QED BY <3>2, <3>3, <3>4
  <2>4. CASE UNCHANGED feedVars
    BY <2>1, <2>4 DEF feedVars, vars, Counted!countsVars
  <2> QED BY <2>2, <2>3, <2>4 DEF FeedNext
<1> QED BY <1>1, <1>2, PTL DEF FeedSpec, ImplementsCounts, Counted!Spec

(* Prices *****************************************************************)

\* A price that is a number converts to a tick at most a tick below it, toward
\* zero.
LEMMA TruncatedNear ==
  ASSUME NEW price \in Int, NEW t \in Truncated(price)
  PROVE  t \in Int /\ 2 * t <= price + 2 /\ 2 * t >= price - 2
<1> DEFINE ticks == Magnitude(price) \div 2
<1>1. PICK u \in Int : /\ u = ticks \/ u = ticks - 1
                       /\ t = IF price < 0 THEN -u ELSE u
                       /\ u = ticks - 1 => price % 2 = 0
  <2>1. ticks \in Int BY DEF Magnitude
  <2> HIDE DEF ticks
  <2> QED BY <2>1 DEF Truncated, ticks
<1>2. CASE price >= 0
  <2>1. ticks \in Int /\ 2 * ticks <= price /\ price <= 2 * ticks + 1
    BY <1>2 DEF Magnitude
  <2>2. price % 2 = 0 => price = 2 * ticks BY <1>2 DEF Magnitude
  <2> HIDE DEF ticks
  <2> QED BY <1>1, <1>2, <2>1, <2>2
<1>3. CASE price < 0
  <2>1. ticks \in Int /\ 2 * ticks <= -price /\ -price <= 2 * ticks + 1
    BY <1>3 DEF Magnitude
  <2>2. price % 2 = 0 => -price = 2 * ticks BY <1>3 DEF Magnitude
  <2> HIDE DEF ticks
  <2> QED BY <1>1, <1>3, <2>1, <2>2
<1> QED BY <1>2, <1>3

LEMMA TradesWithinLimit ==
  ASSUME NEW b, SoundBook(b), NEW o \in Order, o.filled = 0
  PROVE  \A i \in DOMAIN Matched(b, o).trades :
           /\ WithinLimit(o, Matched(b, o).trades[i])
           /\ Matched(b, o).trades[i].price \in Int
<1>1. PICK m : /\ MatchSound(b, o, m)
               /\ Matched(b, o).trades = IF Killed(m.order) THEN << >> ELSE m.trades
  BY MatchedEnds
<1> HIDE DEF Matched
<1>2. \A i \in DOMAIN m.trades : WithinLimit(o, m.trades[i]) /\ m.trades[i] \in Trade
  BY <1>1, ElementOfSeq DEF MatchSound
<1>3. \A i \in DOMAIN m.trades : m.trades[i].price \in Int
  BY <1>2, PricesAreIntegers DEF Trade
<1>4. CASE Killed(m.order) BY <1>1, <1>4
<1>5. CASE ~Killed(m.order) BY <1>1, <1>2, <1>3, <1>5
<1> QED BY <1>4, <1>5

\* The limit order that the parser makes of a message with a price.
LEMMA ParsedLimit ==
  ASSUME NEW m, m # Malformed, "price" \in DOMAIN m, m["price"] \in Int \cup {Mistyped},
         Field(m, "order_type", "limit") \in {"limit", "LIMIT"},
         NEW e \in parse_json(m), e.kind = "new"
  PROVE  /\ e.order.type = "LIMIT" /\ e.order.price \in Int
         /\ 2 * e.order.price <= m["price"] + 2 /\ 2 * e.order.price >= m["price"] - 2
         /\ m["price"] \in Int
<1>1. e \in NewOrderParsed(m)
  <2> DEFINE type == Field(m, "type", "")
  <2>1. CASE type = "new_order" BY <2>1 DEF parse_json
  <2>2. CASE type = "cancel"
    <3>1. e \in CancelParsed(m) BY <2>2 DEF parse_json
    <3>2. e.kind = "cancel" BY <3>1 DEF CancelParsed
    <3> QED BY <3>2
  <2>3. CASE type = "modify"
    <3>1. e \in ModifyParsed(m) BY <2>3 DEF parse_json
    <3> HIDE DEF type
    <3>2. e.kind = "modify"
      <4> DEFINE quantity == Unsigned(Field(m, "quantity", 0))
      <4>1. e \in {[kind |-> "modify", symbol |-> Field(m, "symbol", UnnamedSymbol),
                    id |-> Field(m, "order_id", INVALID_ORDER_ID), price |-> price,
                    quantity |-> quantity] : price \in Truncated(Field(m, "price", 0))}
        BY <3>1, Zenon DEF ModifyParsed
      <4> HIDE DEF quantity
      <4> QED BY <4>1
    <3> QED BY <3>2
  <2>4. CASE type \notin {"new_order", "cancel", "modify"} BY <2>4 DEF parse_json
  <2> QED BY <2>1, <2>2, <2>3, <2>4
<1>2. ~Throws(m, NewOrderFields) BY <1>1 DEF NewOrderParsed
<1>3. m["price"] \in Int BY <1>2 DEF Throws, NewOrderFields
<1>4. PICK price \in Truncated(m["price"]) : e.order = OrderOf(m, price)
  <2>1. Field(m, "price", 0) = m["price"] BY DEF Field
  <2>2. e \in {[kind |-> "new", symbol |-> Field(m, "symbol", UnnamedSymbol),
                order |-> OrderOf(m, price)] : price \in Truncated(Field(m, "price", 0))}
    BY <1>1, Zenon DEF NewOrderParsed
  <2>3. PICK price \in Truncated(Field(m, "price", 0)) :
          e = [kind |-> "new", symbol |-> Field(m, "symbol", UnnamedSymbol),
               order |-> OrderOf(m, price)]
    BY <2>2
  <2>4. e.order = OrderOf(m, price) BY <2>3
  <2> QED BY <2>1, <2>4, Zenon
<1>5. /\ OrderOf(m, price).price = price
      /\ OrderOf(m, price).type = OrderTypeNames[Field(m, "order_type", "limit")]
  <2> DEFINE order == OrderOf(m, price)
             x == Field(m, "order_id", INVALID_ORDER_ID)
             side == SideNames[Field(m, "side", "")]
             type == OrderTypeNames[Field(m, "order_type", "limit")]
             tif == TifNames[Field(m, "tif", "gtc")]
             quantity == Unsigned(Field(m, "quantity", 0))
  <2>1. order = [id |-> x, side |-> side, type |-> type, tif |-> tif, price |-> price,
                 quantity |-> quantity, filled |-> 0, status |-> "PENDING"]
    BY Zenon DEF OrderOf
  <2> HIDE DEF order, x, side, type, tif, quantity
  <2>2. order.price = price /\ order.type = type BY <2>1
  <2> QED BY <2>2 DEF order, type
<1>6. OrderTypeNames[Field(m, "order_type", "limit")] = "LIMIT" BY DEF OrderTypeNames
<1> QED BY <1>3, <1>4, <1>5, <1>6, TruncatedNear

\* The prices in the messages are numbers, or of a type that is refused.
PricesAreNumbers ==
    \A m \in FeedMessages :
        m # Malformed /\ "price" \in DOMAIN m => m["price"] \in Int \cup {Mistyped}

LEMMA LimitStep ==
  ASSUME FeedParses, UniqueIds, PricesAreNumbers, EngineInv,
         NEW m \in FeedMessages, HandleMessage(m),
         last' # last, last'.trades # << >>, event_queue = << >>,
         m # Malformed, "price" \in DOMAIN m,
         Field(m, "order_type", "limit") \in {"limit", "LIMIT"}
  PROVE  \A i \in DOMAIN last'.trades : NoWorse(m, last'.trades[i])
<1>1. PICK e \in parse_json(m) : SubmitEvent(e)
  BY DEF HandleMessage, Dropped, vars
<1>2. e \in Events BY DEF FeedParses
<1>3. running BY <1>1 DEF SubmitEvent
<1>4. last'.trades = Handled(e).trades
  <2> DEFINE item == [number |-> Accepted + 1, event |-> e]
  <2>1. Process(Head(Append(event_queue, item))) BY <1>1, <1>3 DEF SubmitEvent
  <2>2. Head(Append(event_queue, item)) = item OBVIOUS
  <2>3. Process(item) BY <2>1, <2>2
  <2> QED BY <2>3 DEF Process
<1>5. e.kind = "new"
  <2>1. e.kind \in {"new", "cancel", "modify"} BY <1>2, EventParts
  <2>2. CASE e.kind = "cancel"
    BY <1>4, <2>2 DEF Handled, CancelHandled, Only
  <2>3. CASE e.kind = "modify"
    BY <1>4, <2>3 DEF Handled, ModifyHandled, Only
  <2> QED BY <2>1, <2>2, <2>3
<1> DEFINE r == e.order
           o == [r EXCEPT !.id = AssignedId(r)]
           b == Book(e.symbol)
<1>6. o \in Order /\ o.filled = 0 /\ o.type = r.type
  <2>1. r \in Orders BY <1>2, <1>5, EventParts
  <2>2. r.id \in ClientIds => ~RestsIn(books, r.id)
    BY <1>1, <1>5 DEF SubmitEvent, MaySubmit, RestsIn
  <2>3. next_order_id \in 1..AutoIds
    BY <1>1, IdsAssumption DEF SubmitEvent, WithinBounds, EngineInv, WaitInv
  <2> HIDE DEF r
  <2> QED BY <2>1, <2>2, <2>3, AssignedOrder DEF EngineInv
<1>7. o.price = r.price
  BY <1>2, <1>5, EventParts DEF Orders
<1>8. /\ r.type = "LIMIT" /\ r.price \in Int
      /\ 2 * r.price <= m["price"] + 2 /\ 2 * r.price >= m["price"] - 2
      /\ m["price"] \in Int
  BY <1>5, ParsedLimit DEF PricesAreNumbers
<1>9. last'.trades = Matched(b, o).trades
  BY <1>4, <1>5 DEF Handled, NewOrderHandled, Only
<1>10. SoundBook(b) BY BookInIsSound DEF EngineInv, Book, BookIn
<1> HIDE DEF o, b, r
<1>11. \A i \in DOMAIN last'.trades :
         WithinLimit(o, last'.trades[i]) /\ last'.trades[i].price \in Int
  BY <1>6, <1>9, <1>10, TradesWithinLimit
<1>12. ASSUME NEW t, WithinLimit(o, t), t.price \in Int PROVE NoWorse(m, t)
  <2>1. o.type = "LIMIT" BY <1>6, <1>8
  <2>2. o.side \in {"BUY", "SELL"} BY <1>6 DEF Order, Side
  <2>3. CASE o.side = "BUY"
    <3>1. t.buyer_is_aggressor /\ t.price <= r.price
      BY <1>7, <1>8, <1>12, <2>1, <2>3 DEF WithinLimit, Crosses
    <3>2. 2 * t.price <= m["price"] + 2 BY <1>8, <1>12, <3>1
    <3> QED BY <3>1, <3>2 DEF NoWorse
  <2>4. CASE o.side = "SELL"
    <3>1. ~t.buyer_is_aggressor /\ t.price >= r.price
      BY <1>7, <1>8, <1>12, <2>1, <2>4 DEF WithinLimit, Crosses
    <3>2. 2 * t.price >= m["price"] - 2 BY <1>8, <1>12, <3>1
    <3> QED BY <3>1, <3>2 DEF NoWorse
  <2> QED BY <2>2, <2>3, <2>4
<1> QED BY <1>11, <1>12

\* An order trades at no price that is worse by more than a tick than the
\* limit in its message, whatever the conversion of decimal prices does.
THEOREM LimitsHoldWithinATick ==
  FeedParses /\ UniqueIds /\ PricesAreNumbers => (FeedSpec => LimitWithinATick)
<1> SUFFICES ASSUME FeedParses, UniqueIds, PricesAreNumbers
             PROVE  FeedSpec => LimitWithinATick
  OBVIOUS
<1>1. EngineInv /\ [FeedNext]_feedVars =>
        [\A m \in FeedMessages :
           /\ last' # last /\ last'.trades # << >> /\ event_queue = << >>
           /\ m # Malformed /\ "price" \in DOMAIN m
           /\ Field(m, "order_type", "limit") \in {"limit", "LIMIT"}
           /\ HandleMessage(m)
           => \A i \in DOMAIN last'.trades : NoWorse(m, last'.trades[i])]_feedVars
  BY LimitStep
<1>2. FeedSpec => Spec BY FeedImplementsEngine
<1>3. Spec => []EngineInv BY EngineInvariance
<1> QED BY <1>1, <1>2, <1>3, PTL DEF FeedSpec, LimitWithinATick
==================================================================================
