----------------------------- MODULE OrderBookProofs -----------------------------
(***************************************************************************)
(* Proofs about OrderBook, for any ids, prices, quantities and bound.      *)
(***************************************************************************)
EXTENDS OrderBook, BookOpsProofs

(* The inductive invariant ***********************************************)

AggressorInBounds ==
    call.op \in {"match", "matched"} => call.order.filled <= call.order.quantity

\* The id of the order that is being matched is still free.
AggressorIdFree ==
    ReuseIds \/ (call.op = "match" =>
                   \A n \in DOMAIN book.heap : book.heap[n].id # call.order.id)

IInv ==
    /\ TypeOK
    /\ BookInv(book)
    /\ NotOverfilled(book)
    /\ AggressorInBounds
    /\ AggressorIdFree
    /\ CrossedOnlyByReadd
    /\ IndexComplete
    /\ NothingLeftToMatch

LEMMA NewOrdersTyped ==
  \A o \in NewOrders : o \in Order /\ o.filled = 0 /\ o.quantity \in Nat
<1> SUFFICES ASSUME NEW o \in NewOrders
             PROVE  o \in Order /\ o.filled = 0 /\ o.quantity \in Nat
  OBVIOUS
<1>1. /\ TIFs \subseteq TimeInForce /\ Quantities \subseteq Nat
      /\ {0} \subseteq Nat /\ {"PENDING"} \subseteq OrderStatus
  BY QuantitiesAssumption, TIFsAssumption DEF OrderStatus
<1>2. o \in Order BY <1>1 DEF NewOrders, Order
<1>3. o.filled = 0 /\ o.quantity \in Nat BY <1>1 DEF NewOrders
<1> QED BY <1>2, <1>3

LEMMA IdleTyped == Idle \in CallType /\ Idle.op = "none"
BY DEF Idle, CallType

LEMMA EmptyTyped == PartialFunction(Empty, Node, Order)
BY DEF Empty, PartialFunction

LEMMA InitHolds == Init => IInv
<1> SUFFICES ASSUME Init PROVE IInv OBVIOUS
<1>1. BookInv(book) /\ DOMAIN book.heap = {} BY NewBookSound DEF Init
<1>2. TypeOK BY <1>1, IdleTyped, EmptyTyped DEF Init, TypeOK, BookInv
<1>3. AggressorInBounds /\ AggressorIdFree /\ NothingLeftToMatch
  BY IdleTyped DEF Init, AggressorInBounds, AggressorIdFree, NothingLeftToMatch
<1>4. NotOverfilled(book) /\ CrossedOnlyByReadd /\ IndexComplete
  BY <1>1 DEF NotOverfilled, CrossedOnlyByReadd, IndexComplete, FullyIndexed
<1> QED BY <1>1, <1>2, <1>3, <1>4 DEF IInv

LEMMA AddOrderStep ==
  ASSUME IInv, NEW o \in NewOrders, AddOrder(o)
  PROVE  IInv'
<1>1. /\ BookInv(book) /\ BookType(book) /\ TypeOK
      /\ o \in Order /\ o.filled <= o.quantity
  BY NewOrdersTyped DEF IInv, BookInv
<1>2. /\ book' = Added(book, o)
      /\ readded' = readded \cup {book.fresh}
      /\ call' = Idle /\ before' = Empty
      /\ ReuseIds \/ \A n \in DOMAIN book.heap : book.heap[n].id # o.id
  BY DEF AddOrder, MaySubmit, Resting
<1>3. BookInv(book') BY <1>1, <1>2, AddedSound
<1>4. /\ DOMAIN book'.heap = DOMAIN book.heap \cup {book.fresh}
      /\ \A m \in DOMAIN book.heap : book'.heap[m] = book.heap[m]
  BY <1>1, <1>2, AddedHeap, FreshIsFree
<1>5. TypeOK'
  BY <1>1, <1>2, <1>3, <1>4, IdleTyped, EmptyTyped DEF TypeOK, BookInv
<1>6. NotOverfilled(book') /\ IndexComplete'
  BY <1>1, <1>2, AddedIndexed DEF IInv, IndexComplete
<1>7. (AggressorInBounds /\ AggressorIdFree /\ NothingLeftToMatch)'
  BY <1>2, IdleTyped DEF AggressorInBounds, AggressorIdFree, NothingLeftToMatch
<1>8. CrossedOnlyByReadd'
  BY <1>2, <1>4 DEF IInv, CrossedOnlyByReadd
<1> QED BY <1>3, <1>5, <1>6, <1>7, <1>8 DEF IInv

LEMMA CancelOrderStep ==
  ASSUME IInv, NEW id \in OrderIds, CancelOrder(id)
  PROVE  IInv'
<1>1. /\ call'.op = "cancel" /\ call' \in CallType /\ before' = Empty
  <2>1. /\ call' \in {[op |-> "cancel", ok |-> r] : r \in BOOLEAN}
        /\ before' = Empty
    BY DEF CancelOrder
  <2> QED BY <2>1 DEF CallType
<1>2. (AggressorInBounds /\ AggressorIdFree /\ NothingLeftToMatch)'
  BY <1>1 DEF AggressorInBounds, AggressorIdFree, NothingLeftToMatch
<1>3. CASE id \notin DOMAIN book.orders
  <2>1. UNCHANGED <<book, readded>> BY <1>3 DEF CancelOrder
  <2>2. TypeOK' BY <1>1, <2>1, EmptyTyped DEF IInv, TypeOK
  <2> QED BY <1>2, <2>1, <2>2 DEF IInv, CrossedOnlyByReadd, IndexComplete
<1>4. CASE id \in DOMAIN book.orders
  <2> DEFINE n == book.orders[id]
  <2>1. book' = Released(book, n) /\ readded' = readded \ {n}
    BY <1>4 DEF CancelOrder, Cancelled
  <2>2. BookInv(book) /\ n \in DOMAIN book.heap BY <1>4 DEF IInv, BookInv, Indexed
  <2>3. /\ BookInv(book')
        /\ DOMAIN book'.heap = DOMAIN book.heap \ {n}
        /\ \A m \in DOMAIN book.heap : m # n => book'.heap[m] = book.heap[m]
        /\ FullyIndexed(book) => FullyIndexed(book')
    BY <2>1, <2>2, ReleasedSound, ReleasedIndexed
  <2>4. TypeOK'
    BY <1>1, <2>1, <2>3, EmptyTyped DEF IInv, TypeOK, BookInv
  <2>5. NotOverfilled(book') /\ IndexComplete'
    BY <2>3 DEF IInv, NotOverfilled, IndexComplete
  <2>6. CrossedOnlyByReadd' BY <2>1, <2>3 DEF IInv, CrossedOnlyByReadd
  <2> QED BY <1>2, <2>3, <2>4, <2>5, <2>6 DEF IInv
<1> QED BY <1>3, <1>4

LEMMA ModifyOrderStep ==
  ASSUME IInv, NEW id \in OrderIds, NEW p \in Prices, NEW q \in ModQuantities,
         ModifyOrder(id, p, q)
  PROVE  IInv'
<1>1. /\ call'.op = "modify" /\ call' \in CallType /\ before' = Empty
  <2>1. /\ call' \in {[op |-> "modify", ok |-> r] : r \in BOOLEAN}
        /\ before' = Empty
    BY DEF ModifyOrder
  <2> QED BY <2>1 DEF CallType
<1>2. (AggressorInBounds /\ AggressorIdFree /\ NothingLeftToMatch)'
  BY <1>1 DEF AggressorInBounds, AggressorIdFree, NothingLeftToMatch
<1>3. CASE id \notin DOMAIN book.orders
  <2>1. UNCHANGED <<book, readded>> BY <1>3 DEF ModifyOrder
  <2>2. TypeOK' BY <1>1, <2>1, EmptyTyped DEF IInv, TypeOK
  <2> QED BY <1>2, <2>1, <2>2 DEF IInv, CrossedOnlyByReadd, IndexComplete
<1>4. CASE id \in DOMAIN book.orders
  <2> DEFINE n == book.orders[id]
             o == [book.heap[n] EXCEPT !.price = p, !.quantity = q, !.filled = 0]
             c == Released(book, n)
  <2>1. /\ book' = Modified(book, id, p, q)
        /\ readded' = (readded \ {n}) \cup {book.fresh}
    BY <1>4 DEF ModifyOrder
  <2>2. BookInv(book) /\ q \in Nat BY QuantitiesAssumption DEF IInv
  <2>3. /\ n \in DOMAIN book.heap
        /\ o \in Order
        /\ BookInv(c) /\ c.fresh = book.fresh
        /\ book' = Added(c, o)
        /\ BookInv(book')
        /\ NotOverfilled(book) => NotOverfilled(book')
        /\ FullyIndexed(book) => FullyIndexed(book')
    <3>1. /\ n \in DOMAIN book.heap /\ o \in Order
          /\ BookInv(c) /\ c.fresh = book.fresh
          /\ Modified(book, id, p, q) = Added(c, o)
      <4>1. n \in DOMAIN book.heap BY <1>4, <2>2 DEF BookInv, Indexed
      <4>2. o \in Order BY <1>4, <2>2, ModifiedSound
      <4>3. BookInv(c) /\ c.fresh = book.fresh
        BY <2>2, <4>1, ReleasedSound, ReleasedParts
      <4>4. Modified(book, id, p, q) = Added(c, o) BY DEF Modified, Cancelled
      <4> QED BY <4>1, <4>2, <4>3, <4>4
    <3>2. /\ BookInv(Modified(book, id, p, q))
          /\ NotOverfilled(book) => NotOverfilled(Modified(book, id, p, q))
          /\ FullyIndexed(book) => FullyIndexed(Modified(book, id, p, q))
      BY <1>4, <2>2, ModifiedSound
    <3> QED BY <2>1, <3>1, <3>2
  <2>4. /\ DOMAIN c.heap = DOMAIN book.heap \ {n}
        /\ \A m \in DOMAIN book.heap : m # n => c.heap[m] = book.heap[m]
    BY <2>2, <2>3, ReleasedIndexed
  <2> HIDE DEF n, c, o
  <2>5. /\ DOMAIN book'.heap = DOMAIN c.heap \cup {book.fresh}
        /\ \A m \in DOMAIN c.heap : book'.heap[m] = c.heap[m]
    BY <2>3, AddedHeap, FreshIsFree DEF BookInv
  <2>6. TypeOK'
    BY <1>1, <2>1, <2>3, <2>4, <2>5, EmptyTyped DEF IInv, TypeOK, BookInv
  <2>7. NotOverfilled(book') /\ IndexComplete' BY <2>3 DEF IInv, IndexComplete
  <2>8. CrossedOnlyByReadd'
    BY <2>1, <2>4, <2>5 DEF IInv, CrossedOnlyByReadd
  <2> QED BY <1>2, <2>3, <2>6, <2>7, <2>8 DEF IInv
<1> QED BY <1>3, <1>4

LEMMA ClearStep ==
  ASSUME IInv, Clear
  PROVE  IInv'
<1>1. book' = NewBook /\ readded' = {} /\ call' = Idle /\ before' = Empty BY DEF Clear
<1>2. BookInv(book') /\ DOMAIN book'.heap = {} BY <1>1, NewBookSound
<1>3. TypeOK' BY <1>1, <1>2, IdleTyped, EmptyTyped DEF TypeOK, BookInv
<1>4. (AggressorInBounds /\ AggressorIdFree /\ NothingLeftToMatch)'
  BY <1>1, IdleTyped DEF AggressorInBounds, AggressorIdFree, NothingLeftToMatch
<1>5. NotOverfilled(book') /\ (CrossedOnlyByReadd /\ IndexComplete)'
  BY <1>2 DEF NotOverfilled, CrossedOnlyByReadd, IndexComplete, FullyIndexed
<1> QED BY <1>2, <1>3, <1>4, <1>5 DEF IInv

LEMMA MatchOrderStep ==
  ASSUME IInv, NEW o \in NewOrders, MatchOrder(o)
  PROVE  IInv'
<1>1. o \in Order /\ o.filled <= o.quantity BY NewOrdersTyped
<1>2. /\ call' = [op |-> "match", order |-> o, trades |-> << >>]
      /\ before' = book.heap
      /\ UNCHANGED <<book, readded>>
      /\ ReuseIds \/ \A n \in DOMAIN book.heap : book.heap[n].id # o.id
  BY DEF MatchOrder, MaySubmit, Resting
<1>3. call' \in CallType /\ call'.op = "match" /\ call'.order = o
  <2>1. << >> \in Seq(Trade) OBVIOUS
  <2> QED BY <1>1, <1>2, <2>1 DEF CallType
<1>4. TypeOK' BY <1>2, <1>3 DEF IInv, TypeOK, BookType
<1>5. (AggressorInBounds /\ AggressorIdFree /\ NothingLeftToMatch)'
  BY <1>1, <1>2, <1>3 DEF AggressorInBounds, AggressorIdFree, NothingLeftToMatch
<1>6. BookInv(book') /\ NotOverfilled(book') /\ (CrossedOnlyByReadd /\ IndexComplete)'
  BY <1>2 DEF IInv, CrossedOnlyByReadd, IndexComplete
<1> QED BY <1>4, <1>5, <1>6 DEF IInv

\* While a match is in progress its order and its trades have their types.
LEMMA CallTyped ==
  ASSUME TypeOK, call.op = "match"
  PROVE  /\ call \in [op : {"match", "matched"}, order : Order, trades : Seq(Trade)]
         /\ call.order \in Order
         /\ call.trades \in Seq(Trade)
<1>1. call \in [op : {"match", "matched"}, order : Order, trades : Seq(Trade)]
  BY DEF TypeOK, CallType
<1> QED BY <1>1

LEMMA MatchStepStep ==
  ASSUME IInv, MatchStep
  PROVE  IInv'
<1>1. /\ call.op = "match" /\ TypeOK /\ BookInv(book) /\ NotOverfilled(book)
      /\ call.order.filled <= call.order.quantity
  BY DEF MatchStep, IInv, AggressorInBounds
<1>2. /\ call \in [op : {"match", "matched"}, order : Order, trades : Seq(Trade)]
      /\ call.order \in Order /\ call.trades \in Seq(Trade)
  BY <1>1, CallTyped
<1> DEFINE s == Opposite(call.order.side)
<1>3. PICK p \in DOMAIN book.levels[s] :
        /\ Matches(book, call.order, p)
        /\ LET n       == Head(book.levels[s][p].queue)
               passive == book.heap[n]
               qty     == MatchQty(call.order, passive)
           IN  /\ book' = Filled(book, n, qty)
               /\ call' = [call EXCEPT
                             !.order.filled = @ + qty,
                             !.trades = Append(@, TradeOf(call.order, passive, qty))]
               /\ readded' = readded \cap DOMAIN book'.heap
  BY DEF MatchStep
<1> DEFINE n       == Head(book.levels[s][p].queue)
           passive == book.heap[n]
           qty     == MatchQty(call.order, passive)
           trade   == TradeOf(call.order, passive, qty)
           order   == [call.order EXCEPT !.filled = @ + qty]
<1>4. s \in Side BY <1>2 DEF Opposite, Side, Order
<1>5. n \in DOMAIN book.heap
  <2> DEFINE q == book.levels[s][p].queue
  <2>1. QueueSound(book, s, p, q) BY <1>1, <1>3, <1>4 DEF BookInv, QueuesSound
  <2>2. q \in Seq(Node)
    BY <1>1, <1>3, <1>4 DEF BookInv, BookType, PartialFunction, Level
  <2>3. q # << >> BY <2>1 DEF QueueSound
  <2>4. 1 \in DOMAIN q /\ Head(q) = q[1]
    <3> HIDE DEF q
    <3> QED BY <2>2, <2>3
  <2> QED BY <2>1, <2>4 DEF QueueSound
<1>6. passive \in Order /\ passive.filled <= passive.quantity
  BY <1>1, <1>5 DEF BookInv, BookType, PartialFunction, NotOverfilled
<1>7. /\ qty \in Nat /\ qty <= Remaining(passive)
      /\ call.order.filled + qty <= call.order.quantity
  BY <1>1, <1>2, <1>3, <1>6, MatchQtyInBounds DEF Matches
<1>8. /\ book' = Filled(book, n, qty)
      /\ readded' = readded \cap DOMAIN book'.heap
      /\ call' = [call EXCEPT !.order = order, !.trades = Append(call.trades, trade)]
  BY <1>2, <1>3
<1>9. before' = before BY DEF MatchStep
<1> HIDE DEF n, passive, qty, trade, order
<1>10. /\ BookInv(book') /\ Kept(book, book') /\ NotOverfilled(book')
       /\ FullyIndexed(book) => FullyIndexed(book')
  BY <1>1, <1>5, <1>7, <1>8, FilledSound DEF passive
<1>11. /\ order \in Order
       /\ order.filled <= order.quantity
       /\ order.id = call.order.id
  BY <1>2, <1>7 DEF order, Order
<1>12. trade \in Trade
  BY <1>2, <1>6, <1>7 DEF trade, TradeOf, Trade, Order
<1>13. /\ call' \in [op : {"match", "matched"}, order : Order, trades : Seq(Trade)]
       /\ call'.op = "match" /\ call'.order = order
  <2>1. Append(call.trades, trade) \in Seq(Trade) BY <1>2, <1>12
  <2> QED BY <1>1, <1>2, <1>8, <1>11, <2>1
<1>14. TypeOK' BY <1>1, <1>8, <1>9, <1>10, <1>13 DEF TypeOK, CallType, BookInv
<1>15. AggressorInBounds' /\ NothingLeftToMatch'
  BY <1>11, <1>13 DEF AggressorInBounds, NothingLeftToMatch
<1>16. AggressorIdFree'
  BY <1>1, <1>10, <1>11, <1>13 DEF IInv, AggressorIdFree, Kept
<1>17. CrossedOnlyByReadd'
  BY <1>8, <1>10 DEF IInv, CrossedOnlyByReadd, Kept
<1>18. IndexComplete' BY <1>10 DEF IInv, IndexComplete
<1> QED BY <1>10, <1>14, <1>15, <1>16, <1>17, <1>18 DEF IInv

LEMMA MatchDoneStep ==
  ASSUME IInv, MatchDone
  PROVE  IInv'
<1> DEFINE o == call.order
           p == [o EXCEPT !.status = FinalStatus(o)]
<1>1. /\ call.op = "match" /\ TypeOK /\ BookInv(book) /\ BookType(book)
      /\ NotOverfilled(book) /\ o.filled <= o.quantity
  BY DEF MatchDone, IInv, AggressorInBounds, BookInv
<1>2. o \in Order /\ call.trades \in Seq(Trade) BY <1>1, CallTyped
<1>3. /\ \A x \in DOMAIN book.levels[Opposite(o.side)] : ~Matches(book, o, x)
      /\ book' = IF Rests(o) THEN Added(book, o) ELSE book
      /\ call' = IF Killed(o)
                 THEN [op |-> "matched", order |-> [p EXCEPT !.filled = 0], trades |-> << >>]
                 ELSE [op |-> "matched", order |-> p, trades |-> call.trades]
      /\ UNCHANGED <<before, readded>>
  BY DEF MatchDone
<1>4. /\ FinalStatus(o) \in OrderStatus
      /\ FinalStatus(o) \in {"ACCEPTED", "PARTIALLY_FILLED", "CANCELLED"}
           => Remaining(o) > 0
  BY <1>1, <1>2, FinalStatusTyped
<1>5. /\ p \in Order /\ [p EXCEPT !.filled = 0] \in Order
      /\ p.filled = o.filled /\ p.quantity = o.quantity /\ p.status = FinalStatus(o)
      /\ [p EXCEPT !.filled = 0].filled = 0 /\ [p EXCEPT !.filled = 0].quantity = o.quantity
      /\ [p EXCEPT !.filled = 0].status = FinalStatus(o)
      /\ p.type = o.type /\ p.side = o.side /\ p.price = o.price
      /\ [p EXCEPT !.filled = 0].type = o.type
      /\ [p EXCEPT !.filled = 0].side = o.side
      /\ [p EXCEPT !.filled = 0].price = o.price
  <2>1. p \in Order /\ p.filled = o.filled /\ p.quantity = o.quantity
        /\ p.status = FinalStatus(o) /\ p.type = o.type /\ p.side = o.side
        /\ p.price = o.price
    BY <1>2, <1>4 DEF Order
  <2> HIDE DEF p
  <2>2. [p EXCEPT !.filled = 0] \in Order
        /\ [p EXCEPT !.filled = 0].filled = 0
        /\ [p EXCEPT !.filled = 0].quantity = p.quantity
        /\ [p EXCEPT !.filled = 0].status = p.status
        /\ [p EXCEPT !.filled = 0].type = p.type
        /\ [p EXCEPT !.filled = 0].side = p.side
        /\ [p EXCEPT !.filled = 0].price = p.price
    BY <2>1 DEF Order
  <2> QED BY <2>1, <2>2
<1>6. /\ call' \in [op : {"match", "matched"}, order : Order, trades : Seq(Trade)]
      /\ call'.op = "matched"
      /\ call'.order.filled <= call'.order.quantity
      /\ call'.order.status = FinalStatus(o)
      /\ call'.order.type = o.type /\ call'.order.side = o.side
      /\ call'.order.price = o.price
  <2> DEFINE killed == [p EXCEPT !.filled = 0]
  <2>1. << >> \in Seq(Trade) /\ 0 <= o.quantity BY <1>2 DEF Order
  <2> HIDE DEF o, p, killed
  <2>2. CASE Killed(o)
    <3>1. call' = [op |-> "matched", order |-> killed, trades |-> << >>]
      BY <1>3, <2>2 DEF killed
    <3> QED BY <1>5, <2>1, <3>1 DEF killed
  <2>3. CASE ~Killed(o)
    <3>1. call' = [op |-> "matched", order |-> p, trades |-> call.trades]
      BY <1>3, <2>3
    <3> QED BY <1>1, <1>2, <1>5, <3>1
  <2> QED BY <2>2, <2>3
<1>7. \A m \in DOMAIN book.heap : m \in DOMAIN book'.heap /\ book'.heap[m] = book.heap[m]
  BY <1>1, <1>3, AddedHeap, FreshIsFree
<1>8. \A m \in DOMAIN book'.heap :
        m \in DOMAIN book.heap \/ (Rests(o) /\ m = book.fresh /\ book'.heap[m] = o)
  BY <1>1, <1>3, AddedHeap, FreshIsFree
<1>9. BookInv(book') BY <1>1, <1>2, <1>3, AddedSound
<1>10. NotOverfilled(book') BY <1>1, <1>2, <1>3, AddedIndexed
<1>11. IndexComplete'
  <2>1. ReuseIds \/ (FullyIndexed(book) /\ \A m \in DOMAIN book.heap : book.heap[m].id # o.id)
    BY <1>1 DEF IInv, IndexComplete, AggressorIdFree
  <2> QED BY <1>1, <1>2, <1>3, <2>1, AddedIndexed DEF IndexComplete
<1> HIDE DEF o, p
<1>12. TypeOK'
  BY <1>1, <1>3, <1>6, <1>7, <1>9 DEF TypeOK, CallType, BookInv
<1>13. AggressorInBounds' /\ AggressorIdFree'
  BY <1>6 DEF AggressorInBounds, AggressorIdFree
<1>14. Remaining(o) > 0 => \A m \in DOMAIN book.heap :
         book.heap[m].side = Opposite(o.side) => ~Crosses(o, book.heap[m].price)
  BY <1>1, <1>2, <1>3, LoopExhausts
<1>15. o.side \in Side /\ Opposite(o.side) # o.side
  BY <1>2 DEF Order, Side, Opposite
<1>16. NothingLeftToMatch'
  <2> SUFFICES ASSUME Remaining(o) > 0, NEW m \in DOMAIN book'.heap,
                      book'.heap[m].side = Opposite(o.side)
               PROVE  ~Crosses(call'.order, book'.heap[m].price)
    BY <1>4, <1>6 DEF NothingLeftToMatch
  <2>1. m \in DOMAIN book.heap BY <1>8, <1>15
  <2>2. ~Crosses(o, book'.heap[m].price) BY <1>7, <1>14, <2>1
  <2> QED BY <1>6, <2>2 DEF Crosses
<1>17. CrossedOnlyByReadd'
  <2> SUFFICES ASSUME NEW m \in DOMAIN book'.heap, NEW n \in DOMAIN book'.heap,
                      book'.heap[m].side = "BUY", book'.heap[n].side = "SELL",
                      book'.heap[m].price >= book'.heap[n].price
               PROVE  m \in readded \/ n \in readded
    BY <1>3 DEF CrossedOnlyByReadd
  <2>1. CASE m \in DOMAIN book.heap /\ n \in DOMAIN book.heap
    BY <1>7, <2>1 DEF IInv, CrossedOnlyByReadd
  <2>2. CASE m \notin DOMAIN book.heap
    <3>1. Rests(o) /\ book'.heap[m] = o BY <1>8, <2>2
    <3>2. n \in DOMAIN book.heap BY <1>8, <3>1
    <3>3. Crosses(o, book.heap[n].price) /\ book.heap[n].side = Opposite(o.side)
      BY <1>7, <3>1, <3>2 DEF Crosses, Opposite
    <3> QED BY <1>14, <3>1, <3>2, <3>3 DEF Rests
  <2>3. CASE n \notin DOMAIN book.heap
    <3>1. Rests(o) /\ book'.heap[n] = o BY <1>8, <2>3
    <3>2. m \in DOMAIN book.heap BY <1>8, <3>1
    <3>3. o.price \in Int /\ book.heap[m].price \in Int
      BY <1>1, <1>2, <3>2, PricesAreIntegers DEF BookType, PartialFunction, Order
    <3>4. Crosses(o, book.heap[m].price) /\ book.heap[m].side = Opposite(o.side)
      BY <1>7, <3>1, <3>2, <3>3 DEF Crosses, Opposite
    <3> QED BY <1>14, <3>1, <3>2, <3>4 DEF Rests
  <2> QED BY <2>1, <2>2, <2>3
<1> QED BY <1>9, <1>10, <1>11, <1>12, <1>13, <1>16, <1>17 DEF IInv

LEMMA StutterStep ==
  ASSUME IInv, UNCHANGED vars
  PROVE  IInv'
BY DEF vars, IInv, TypeOK, CrossedOnlyByReadd, IndexComplete, AggressorInBounds,
       AggressorIdFree, NothingLeftToMatch

(* The theorems **********************************************************)

LEMMA Invariance == Spec => []IInv
<1>1. Init => IInv BY InitHolds
<1>2. IInv /\ [Next]_vars => IInv'
  <2> SUFFICES ASSUME IInv, [Next]_vars PROVE IInv' OBVIOUS
  <2>1. ASSUME NEW o \in NewOrders, AddOrder(o) PROVE IInv' BY <2>1, AddOrderStep
  <2>2. ASSUME NEW o \in NewOrders, MatchOrder(o) PROVE IInv' BY <2>2, MatchOrderStep
  <2>3. ASSUME NEW id \in OrderIds, CancelOrder(id) PROVE IInv' BY <2>3, CancelOrderStep
  <2>4. ASSUME NEW id \in OrderIds, NEW p \in Prices, NEW q \in ModQuantities,
               ModifyOrder(id, p, q)
        PROVE  IInv'
    BY <2>4, ModifyOrderStep
  <2>5. CASE Clear BY <2>5, ClearStep
  <2>6. CASE MatchStep BY <2>6, MatchStepStep
  <2>7. CASE MatchDone BY <2>7, MatchDoneStep
  <2>8. CASE UNCHANGED vars BY <2>8, StutterStep
  <2> QED BY <2>1, <2>2, <2>3, <2>4, <2>5, <2>6, <2>7, <2>8 DEF Next
<1> QED BY <1>1, <1>2, PTL DEF Spec

(* What a match has done so far ******************************************)

\* The nodes the match found keep their place, and none has come since.
BeforeInv ==
    call.op \in {"match", "matched"} =>
        /\ \A n \in DOMAIN before : n < book.fresh
        /\ \A n \in DOMAIN before : n \in DOMAIN book.heap =>
             /\ book.heap[n].side = before[n].side
             /\ book.heap[n].price = before[n].price
        /\ call.op = "match" =>
             /\ DOMAIN book.heap \subseteq DOMAIN before
             /\ call.order.status = "PENDING"

MatchInv ==
    /\ BeforeInv
    /\ PriorityRespected
    /\ FillsAccounted
    /\ TotalsCover(book)

\* One iteration of the loop: the node that trades is one the order crosses
\* and no live node of its side precedes it.
LEMMA MatchStepTrades ==
  ASSUME IInv, MatchStep
  PROVE  \E n \in DOMAIN book.heap : \E qty \in Nat :
           /\ book' = Filled(book, n, qty)
           /\ book.heap[n].side = Opposite(call.order.side)
           /\ Crosses(call.order, book.heap[n].price)
           /\ \A m \in DOMAIN book.heap :
                book.heap[m].side = book.heap[n].side =>
                  /\ ~Better(book.heap[n].side, book.heap[m].price, book.heap[n].price)
                  /\ book.heap[m].price = book.heap[n].price => n <= m
           /\ call.op = "match" /\ call'.op = "match"
           /\ call'.order = [call.order EXCEPT !.filled = @ + qty]
           /\ call'.trades = Append(call.trades, TradeOf(call.order, book.heap[n], qty))
           /\ before' = before
<1>1. /\ call.op = "match" /\ TypeOK /\ BookInv(book) /\ NotOverfilled(book)
      /\ call.order.filled <= call.order.quantity
  BY DEF MatchStep, IInv, AggressorInBounds
<1>2. /\ call \in [op : {"match", "matched"}, order : Order, trades : Seq(Trade)]
      /\ call.order \in Order
  BY <1>1, CallTyped
<1> DEFINE s == Opposite(call.order.side)
<1>3. PICK p \in DOMAIN book.levels[s] :
        /\ Matches(book, call.order, p)
        /\ LET n       == Head(book.levels[s][p].queue)
               passive == book.heap[n]
               qty     == MatchQty(call.order, passive)
           IN  /\ book' = Filled(book, n, qty)
               /\ call' = [call EXCEPT
                             !.order.filled = @ + qty,
                             !.trades = Append(@, TradeOf(call.order, passive, qty))]
  BY DEF MatchStep
<1> DEFINE n   == Head(book.levels[s][p].queue)
           qty == MatchQty(call.order, book.heap[n])
           trade == TradeOf(call.order, book.heap[n], qty)
           order == [call.order EXCEPT !.filled = @ + qty]
<1>4. s \in Side BY <1>2 DEF Opposite, Side, Order
<1>5. /\ n \in DOMAIN book.heap /\ book.heap[n].side = s /\ book.heap[n].price = p
      /\ \A m \in DOMAIN book.heap :
           book.heap[m].side = s /\ book.heap[m].price = p => n <= m
  <2>1. p \in DOMAIN book.levels[s] OBVIOUS
  <2>2. BookInv(book) BY <1>1
  <2>3. n = Head(book.levels[s][p].queue) OBVIOUS
  <2> HIDE DEF s, n
  <2> QED BY <1>4, <2>1, <2>2, <2>3, HeadIsOldest
<1>6. book.heap[n] \in Order /\ book.heap[n].filled <= book.heap[n].quantity
  BY <1>1, <1>5 DEF BookInv, BookType, PartialFunction, NotOverfilled
<1>7. qty \in Nat BY <1>1, <1>2, <1>3, <1>6, MatchQtyInBounds DEF Matches
<1>8. call' = [call EXCEPT !.order = order, !.trades = Append(call.trades, trade)]
  BY <1>2, <1>3
<1>9. book' = Filled(book, n, qty) BY <1>3
<1>10. before' = before BY DEF MatchStep
<1> HIDE DEF n, qty, trade, order
<1>11. call'.op = "match" /\ call'.order = order /\ call'.trades = Append(call.trades, trade)
  BY <1>1, <1>2, <1>8
<1>12. ASSUME NEW m \in DOMAIN book.heap, book.heap[m].side = s
       PROVE  ~Better(s, book.heap[m].price, p)
  <2> DEFINE r == book.heap[m].price
  <2>1. IsBest(book, s, p) BY <1>3 DEF Matches
  <2>2. r \in DOMAIN book.levels[s] BY <1>1, <1>12 DEF BookInv, HeapListed, Listed
  <2>3. r = p \/ Better(s, p, r) BY <2>1, <2>2 DEF IsBest
  <2>4. r \in Int /\ p \in Int
    <3>1. DOMAIN book.levels[s] \subseteq Prices
      BY <1>1, <1>4 DEF BookInv, BookType, PartialFunction
    <3> QED BY <1>3, <2>2, <3>1, PricesAreIntegers
  <2> HIDE DEF r
  <2>5. ~Better(s, r, p) BY <2>3, <2>4 DEF Better
  <2> QED BY <2>5 DEF r
<1>13. Crosses(call.order, p) BY <1>3 DEF Matches
<1> QED
  <2> USE <1>5, <1>7
  <2> WITNESS n \in DOMAIN book.heap
  <2> WITNESS qty \in Nat
  <2> QED BY <1>1, <1>5, <1>9, <1>10, <1>11, <1>12, <1>13 DEF trade, order

\* The nodes that a match found, and what is left of each, as TypeOK has them.
LEMMA BeforeTyped ==
  ASSUME TypeOK, BookInv(book), \A n \in DOMAIN before : n < book.fresh
  PROVE  /\ IsFiniteSet(DOMAIN before)
         /\ [n \in DOMAIN before |-> Had(n) - Left(n)] \in [DOMAIN before -> Int]
<1>1. /\ DOMAIN before \subseteq Node /\ before \in [DOMAIN before -> Order]
      /\ BookType(book)
  BY DEF TypeOK, PartialFunction
<1>2. IsFiniteSet(DOMAIN before)
  <2>1. 1 \in Int /\ book.fresh \in Int BY <1>1 DEF BookType, Node
  <2>3. IsFiniteSet(1..book.fresh) BY ONLY <2>1, FS_Interval
  <2>2. DOMAIN before \subseteq 1..book.fresh BY <1>1 DEF BookType, Node
  <2> QED BY <2>2, <2>3, FS_Subset
<1>3. \A n \in DOMAIN before : Had(n) \in Int BY <1>1 DEF Had, Remaining, Order
<1>4. \A n \in DOMAIN before : Left(n) \in Int BY <1>1, RemainingIsInteger DEF Left
<1> QED BY <1>2, <1>3, <1>4

\* A call that is not a match leaves nothing to say about one.
LEMMA NoMatchNoClaim ==
  ASSUME call.op \notin {"match", "matched"}
  PROVE  BeforeInv /\ PriorityRespected /\ FillsAccounted
BY DEF BeforeInv, PriorityRespected, FillsAccounted

LEMMA MatchOrderClaims ==
  ASSUME IInv, TotalsCover(book), NEW o \in NewOrders, MatchOrder(o)
  PROVE  MatchInv'
<1>1. /\ call' = [op |-> "match", order |-> o, trades |-> << >>]
      /\ before' = book.heap /\ book' = book
  BY DEF MatchOrder
<1>2. /\ call'.op = "match" /\ call'.trades = << >>
      /\ call'.order.filled = 0 /\ call'.order.status = "PENDING"
  BY <1>1 DEF NewOrders
<1>3. BookType(book) /\ \A n \in DOMAIN book.heap : n < book.fresh
  BY DEF IInv, TypeOK, BookType
<1>4. BeforeInv' BY <1>1, <1>2, <1>3 DEF BeforeInv
<1>5. PriorityRespected' BY <1>1 DEF PriorityRespected
<1>6. FillsAccounted'
  <2> DEFINE lost == [n \in DOMAIN book.heap |-> Had(n)' - Left(n)']
  <2>1. \A n \in DOMAIN book.heap : Had(n)' - Left(n)' = 0
    BY <1>1, <1>3, RemainingIsInteger DEF Had, Left
  <2>2. lost \in [DOMAIN book.heap -> Int] /\ \A n \in DOMAIN book.heap : lost[n] = 0
    BY <2>1
  <2>3. IsFiniteSet(DOMAIN book.heap) BY <1>3, HeapIsFinite
  <2>4. lost = [n \in DOMAIN before |-> Had(n) - Left(n)]' BY <1>1
  <2> HIDE DEF lost
  <2>5. SumFunction(lost) = 0 BY <2>2, <2>3, SumOfZeros
  <2> QED BY <1>2, <2>4, <2>5, NothingTraded DEF FillsAccounted
<1>7. TotalsCover(book') BY <1>1
<1> QED BY <1>4, <1>5, <1>6, <1>7 DEF MatchInv

\* A node that was touched before is preceded only by nodes that are gone, and
\* none comes back; the one that is touched now is the best and oldest left.
LEMMA MatchStepClaims ==
  ASSUME IInv, MatchInv, MatchStep
  PROVE  MatchInv'
<1>1. PICK n \in DOMAIN book.heap : \E qty \in Nat :
           /\ book' = Filled(book, n, qty)
           /\ book.heap[n].side = Opposite(call.order.side)
           /\ Crosses(call.order, book.heap[n].price)
           /\ \A m \in DOMAIN book.heap :
                book.heap[m].side = book.heap[n].side =>
                  /\ ~Better(book.heap[n].side, book.heap[m].price, book.heap[n].price)
                  /\ book.heap[m].price = book.heap[n].price => n <= m
           /\ call.op = "match" /\ call'.op = "match"
           /\ call'.order = [call.order EXCEPT !.filled = @ + qty]
           /\ call'.trades = Append(call.trades, TradeOf(call.order, book.heap[n], qty))
           /\ before' = before
  BY MatchStepTrades
<1>2. PICK qty \in Nat :
           /\ book' = Filled(book, n, qty)
           /\ call.op = "match" /\ call'.op = "match"
           /\ call'.order = [call.order EXCEPT !.filled = @ + qty]
           /\ call'.trades = Append(call.trades, TradeOf(call.order, book.heap[n], qty))
           /\ before' = before
  BY <1>1
<1>3. /\ TypeOK /\ BookInv(book) /\ NotOverfilled(book)
      /\ call.order \in Order /\ call.trades \in Seq(Trade)
      /\ book.heap[n] \in Order
  BY <1>2, CallTyped DEF IInv, BookInv, BookType, PartialFunction
<1>4. /\ \A m \in DOMAIN before : m < book.fresh
      /\ \A m \in DOMAIN before : m \in DOMAIN book.heap =>
           /\ book.heap[m].side = before[m].side
           /\ book.heap[m].price = before[m].price
      /\ DOMAIN book.heap \subseteq DOMAIN before
      /\ call.order.status = "PENDING"
  BY <1>2 DEF MatchInv, BeforeInv
<1> DEFINE c == Filled(book, n, qty)
<1>5. /\ c.fresh = book.fresh
      /\ DOMAIN c.heap \subseteq DOMAIN book.heap
      /\ \A m \in DOMAIN book.heap \ {n} : m \in DOMAIN c.heap /\ c.heap[m] = book.heap[m]
      /\ n \in DOMAIN c.heap => Remaining(c.heap[n]) = Remaining(book.heap[n]) - qty
      /\ n \notin DOMAIN c.heap => Remaining(book.heap[n]) - qty = 0
  BY <1>3, FilledHeap
<1>6. book' = c BY <1>2
<1>7. Kept(book, c)
  <2> SUFFICES ASSUME NEW m \in DOMAIN c.heap
               PROVE  /\ c.heap[m].id = book.heap[m].id
                      /\ c.heap[m].side = book.heap[m].side
                      /\ c.heap[m].price = book.heap[m].price
    BY <1>5 DEF Kept
  <2> DEFINE t == [book EXCEPT !.heap[n].filled = @ + qty]
  <2>2. Kept(book, t) /\ BookInv(t) /\ DOMAIN t.heap = DOMAIN book.heap
    BY <1>3, TradedSound
  <2>3. c = IF Remaining(t.heap[n]) = 0 THEN Released(t, n) ELSE t BY DEF Filled
  <2>4. Kept(t, Released(t, n)) BY <2>2, ReleasedIndexed
  <2> HIDE DEF c, t
  <2> QED BY <2>2, <2>3, <2>4 DEF Kept
<1> HIDE DEF c
<1>8. /\ call'.order.side = call.order.side /\ call'.order.type = call.order.type
      /\ call'.order.price = call.order.price /\ call'.order.status = call.order.status
      /\ call'.order.filled = call.order.filled + qty
  BY <1>2, <1>3 DEF Order
<1>9. BeforeInv'
  BY <1>2, <1>4, <1>5, <1>6, <1>7, <1>8 DEF BeforeInv, Kept
<1>10. PriorityRespected'
  <2> SUFFICES ASSUME NEW x \in DOMAIN before,
                      x \notin DOMAIN c.heap \/ c.heap[x] # before[x]
               PROVE  /\ before[x].side = Opposite(call.order.side)
                      /\ Crosses(call.order, before[x].price)
                      /\ \A m \in DOMAIN before : Precedes(m, x) => m \notin DOMAIN c.heap
    BY <1>2, <1>6, <1>8 DEF PriorityRespected, Precedes, Crosses
  <2>1. CASE x \notin DOMAIN book.heap \/ book.heap[x] # before[x]
    BY <1>2, <1>5, <2>1 DEF MatchInv, PriorityRespected
  <2>2. CASE x \in DOMAIN book.heap /\ book.heap[x] = before[x]
    <3>1. x = n BY <1>5, <2>2
    <3>2. before[n] = book.heap[n] BY <2>2, <3>1
    <3>3. ASSUME NEW m \in DOMAIN before, Precedes(m, n) PROVE m \notin DOMAIN c.heap
      <4> SUFFICES ASSUME m \in DOMAIN book.heap PROVE FALSE BY <1>5
      <4>1. /\ book.heap[m].side = before[m].side /\ book.heap[m].price = before[m].price
        BY <1>4
      <4>2. /\ ~Better(book.heap[n].side, book.heap[m].price, book.heap[n].price)
            /\ book.heap[m].price = book.heap[n].price => n <= m
        BY <1>1, <3>2, <3>3, <4>1 DEF Precedes
      <4>3. m \in Nat /\ n \in Nat
        BY <1>3 DEF BookInv, BookType, PartialFunction, Node
      <4> QED BY <3>2, <3>3, <4>1, <4>2, <4>3 DEF Precedes
    <3> QED BY <1>1, <3>1, <3>2, <3>3
  <2> QED BY <2>1, <2>2
<1>11. FillsAccounted'
  <2> DEFINE old == [m \in DOMAIN before |-> Had(m) - Left(m)]
             new == [m \in DOMAIN before |-> Had(m) - Left(m)]'
  <2>1. TradedQuantity(call.trades) = call.order.filled /\ SumFunction(old) = call.order.filled
    BY <1>2, <1>4 DEF MatchInv, FillsAccounted
  <2>2. IsFiniteSet(DOMAIN before) /\ old \in [DOMAIN before -> Int]
    BY <1>3, <1>4, BeforeTyped
  <2>3. IInv' BY MatchStepStep
  <2>4. new \in [DOMAIN before -> Int]
    <3>1. BookType(book') /\ \A m \in DOMAIN before : before[m] \in Order
      BY <1>3, <2>3 DEF IInv, TypeOK, PartialFunction
    <3>2. \A m \in DOMAIN before : Had(m)' \in Int
      BY <1>2, <3>1 DEF Had, Remaining, Order
    <3>3. \A m \in DOMAIN before : Left(m)' \in Int
      BY <3>1, RemainingIsInteger DEF Left
    <3> QED BY <1>2, <3>2, <3>3
  <2>5. n \in DOMAIN before BY <1>4
  <2>6. \A m \in DOMAIN before \ {n} : new[m] = old[m]
    BY <1>2, <1>4, <1>5, <1>6 DEF Had, Left
  <2>7. new[n] = old[n] + qty
    <3>1. Left(n) = Remaining(book.heap[n]) /\ Left(n) \in Int
      BY <1>3, RemainingIsInteger DEF Left, BookInv
    <3>2. Left(n)' = Left(n) - qty BY <1>5, <1>6, <3>1 DEF Left
    <3>3. Had(n) \in Int /\ Had(n)' = Had(n)
      BY <1>2, <1>3, <2>5 DEF Had, TypeOK, PartialFunction, Remaining, Order
    <3>4. new[n] = Had(n)' - Left(n)' /\ old[n] = Had(n) - Left(n) BY <1>2, <2>5
    <3> HIDE DEF new, old
    <3> QED BY <3>1, <3>2, <3>3, <3>4
  <2>8. new = [m \in DOMAIN before |-> Had(m) - Left(m)]' OBVIOUS
  <2> HIDE DEF old, new
  <2>9. SumFunction(old) \in Int /\ SumFunction(new) = SumFunction(old) - old[n] + new[n]
    BY <2>2, <2>4, <2>5, <2>6, SumWithChange
  <2>10. SumFunction(new) = call.order.filled + qty
    <3>1. old[n] \in Int BY <2>2, <2>5
    <3> QED BY <2>1, <2>7, <2>9, <3>1
  <2>11. TradedQuantity(call'.trades) = call.order.filled + qty
    <3> DEFINE t == TradeOf(call.order, book.heap[n], qty)
    <3>1. t \in Trade /\ t.quantity = qty BY <1>3 DEF TradeOf, Trade, Order
    <3> HIDE DEF t
    <3> QED BY <1>2, <1>3, <2>1, <3>1, OneMoreTraded DEF t
  <2> QED BY <1>8, <2>8, <2>10, <2>11 DEF FillsAccounted
<1>12. TotalsCover(book') BY <1>3, <1>6, FilledCovers DEF MatchInv, c
<1> QED BY <1>9, <1>10, <1>11, <1>12 DEF MatchInv

\* A remainder that rests is a new node; the nodes that the match found stay
\* as its last iteration left them.
LEMMA MatchDoneClaims ==
  ASSUME IInv, MatchInv, MatchDone
  PROVE  MatchInv'
<1> DEFINE o == call.order
<1>1. /\ call.op = "match" /\ before' = before
      /\ book' = IF Rests(o) THEN Added(book, o) ELSE book
      /\ call' = IF Killed(o)
                 THEN [op |-> "matched", trades |-> << >>,
                       order |-> [[o EXCEPT !.status = FinalStatus(o)] EXCEPT !.filled = 0]]
                 ELSE [op |-> "matched", trades |-> call.trades,
                       order |-> [o EXCEPT !.status = FinalStatus(o)]]
  BY DEF MatchDone
<1>2. /\ TypeOK /\ BookInv(book) /\ BookType(book)
      /\ o \in Order /\ call.trades \in Seq(Trade)
  BY <1>1, CallTyped DEF IInv, BookInv
<1>3. /\ \A m \in DOMAIN before : m < book.fresh
      /\ \A m \in DOMAIN before : m \in DOMAIN book.heap =>
           /\ book.heap[m].side = before[m].side
           /\ book.heap[m].price = before[m].price
      /\ o.status = "PENDING"
  BY <1>1 DEF MatchInv, BeforeInv
<1>4. /\ call'.op = "matched"
      /\ call'.order.side = o.side /\ call'.order.type = o.type
      /\ call'.order.price = o.price /\ call'.order.status = FinalStatus(o)
      /\ ~Killed(o) => call'.order.filled = o.filled /\ call'.trades = call.trades
  BY <1>1, <1>2 DEF Order
<1> HIDE DEF o
<1>5. /\ \A m \in DOMAIN before :
           /\ m \in DOMAIN book'.heap <=> m \in DOMAIN book.heap
           /\ m \in DOMAIN book.heap => book'.heap[m] = book.heap[m]
      /\ book.fresh <= book'.fresh
  <2>1. CASE ~Rests(o) BY <1>1, <1>2, <2>1 DEF BookType, Node
  <2>2. CASE Rests(o)
    <3>1. book' = Added(book, o) BY <1>1, <2>2
    <3>2. book.fresh \in Nat /\ book'.fresh = book.fresh + 1
      BY <1>2, <3>1, AddedParts DEF BookType, Node
    <3>3. \A m \in DOMAIN before : m # book.fresh
      <4>1. \A m \in DOMAIN before : m \in Nat
        BY <1>2 DEF TypeOK, PartialFunction, Node
      <4> QED BY <1>3, <3>2, <4>1
    <3> QED BY <1>2, <3>1, <3>2, <3>3, AddedHeap, FreshIsFree
  <2> QED BY <2>1, <2>2
<1>6. BeforeInv'
  <2>1. \A m \in DOMAIN before : m < book'.fresh
    <3>1. \A m \in DOMAIN before : m \in Nat BY <1>2 DEF TypeOK, PartialFunction, Node
    <3>2. book.fresh \in Nat /\ book'.fresh \in Nat
      <4>1. book.fresh \in Nat BY <1>2 DEF BookType, Node
      <4>2. CASE Rests(o)
        <5>1. book'.fresh = book.fresh + 1 BY <1>1, <1>2, <4>2, AddedParts
        <5> QED BY <4>1, <5>1
      <4>3. CASE ~Rests(o) BY <1>1, <4>1, <4>3
      <4> QED BY <4>2, <4>3
    <3> QED BY <1>3, <1>5, <3>1, <3>2
  <2> QED BY <1>1, <1>3, <1>4, <1>5, <2>1 DEF BeforeInv
<1>7. PriorityRespected'
  <2> SUFFICES ASSUME NEW x \in DOMAIN before,
                      x \notin DOMAIN book'.heap \/ book'.heap[x] # before[x]
               PROVE  /\ before[x].side = Opposite(o.side)
                      /\ Crosses(o, before[x].price)
                      /\ \A m \in DOMAIN before : Precedes(m, x) => m \notin DOMAIN book'.heap
    BY <1>1, <1>4 DEF PriorityRespected, Precedes, Crosses
  <2>1. x \notin DOMAIN book.heap \/ book.heap[x] # before[x] BY <1>5
  <2> QED BY <1>1, <1>5, <2>1 DEF MatchInv, PriorityRespected, o
<1>8. FillsAccounted'
  <2> SUFFICES ASSUME FinalStatus(o) # "REJECTED"
               PROVE  /\ TradedQuantity(call'.trades) = call'.order.filled
                      /\ SumFunction([n \in DOMAIN before |-> Had(n) - Left(n)]')
                           = call'.order.filled
    BY <1>4 DEF FillsAccounted
  <2>1. ~Killed(o)
    <3> SUFFICES ASSUME Killed(o) PROVE FALSE OBVIOUS
    <3>1. Remaining(o) # 0 /\ o.type # "MARKET" /\ o.tif = "FOK"
      BY <1>2 DEF Killed, Remaining, Order
    <3>2. FinalStatus(o) = "REJECTED" BY <3>1 DEF FinalStatus
    <3> QED BY <3>2
  <2>2. [n \in DOMAIN before |-> Had(n) - Left(n)]' = [n \in DOMAIN before |-> Had(n) - Left(n)]
    BY <1>1, <1>5 DEF Had, Left
  <2>3. /\ TradedQuantity(call.trades) = o.filled
        /\ SumFunction([n \in DOMAIN before |-> Had(n) - Left(n)]) = o.filled
    BY <1>1, <1>3 DEF MatchInv, FillsAccounted, o
  <2> QED BY <1>4, <2>1, <2>2, <2>3
<1>9. TotalsCover(book') BY <1>1, <1>2, AddedCovers DEF MatchInv
<1> QED BY <1>6, <1>7, <1>8, <1>9 DEF MatchInv

\* The calls that are not a match keep the totals.
LEMMA OtherCallsCover ==
  ASSUME IInv, TotalsCover(book)
  PROVE  /\ \A o \in NewOrders : AddOrder(o) => MatchInv'
         /\ \A id \in OrderIds : CancelOrder(id) => MatchInv'
         /\ \A id \in OrderIds, p \in Prices, q \in ModQuantities :
              ModifyOrder(id, p, q) => MatchInv'
         /\ Clear => MatchInv'
<1>1. BookInv(book) BY DEF IInv
<1>2. ASSUME NEW o \in NewOrders, AddOrder(o) PROVE MatchInv'
  <2>1. book' = Added(book, o) /\ call'.op = "none" BY <1>2, IdleTyped DEF AddOrder
  <2>2. (BeforeInv /\ PriorityRespected /\ FillsAccounted)'
    BY <2>1 DEF BeforeInv, PriorityRespected, FillsAccounted
  <2>3. o \in Order BY NewOrdersTyped
  <2> QED BY <1>1, <2>1, <2>2, <2>3, AddedCovers DEF MatchInv
<1>3. ASSUME NEW id \in OrderIds, CancelOrder(id) PROVE MatchInv'
  <2>1. call'.op = "cancel" BY <1>3 DEF CancelOrder
  <2>2. (BeforeInv /\ PriorityRespected /\ FillsAccounted)'
    BY <2>1 DEF BeforeInv, PriorityRespected, FillsAccounted
  <2>3. CASE id \notin DOMAIN book.orders
    BY <1>3, <2>2, <2>3 DEF CancelOrder, MatchInv
  <2>4. CASE id \in DOMAIN book.orders
    <3>1. book' = Released(book, book.orders[id]) BY <1>3, <2>4 DEF CancelOrder, Cancelled
    <3>2. book.orders[id] \in DOMAIN book.heap BY <1>1, <2>4 DEF BookInv, Indexed
    <3> QED BY <1>1, <2>2, <3>1, <3>2, ReleasedCovers DEF MatchInv
  <2> QED BY <2>3, <2>4
<1>4. ASSUME NEW id \in OrderIds, NEW p \in Prices, NEW q \in ModQuantities,
             ModifyOrder(id, p, q)
      PROVE  MatchInv'
  <2>1. call'.op = "modify" BY <1>4 DEF ModifyOrder
  <2>2. (BeforeInv /\ PriorityRespected /\ FillsAccounted)'
    BY <2>1 DEF BeforeInv, PriorityRespected, FillsAccounted
  <2>3. CASE id \notin DOMAIN book.orders
    BY <1>4, <2>2, <2>3 DEF ModifyOrder, MatchInv
  <2>4. CASE id \in DOMAIN book.orders
    <3> DEFINE n == book.orders[id]
               o == [book.heap[n] EXCEPT !.price = p, !.quantity = q, !.filled = 0]
    <3>1. book' = Added(Released(book, n), o)
      BY <1>4, <2>4 DEF ModifyOrder, Modified, Cancelled
    <3>2. n \in DOMAIN book.heap BY <1>1, <2>4 DEF BookInv, Indexed
    <3>3. o \in Order
      <4>1. q \in Nat BY QuantitiesAssumption
      <4>2. book.heap[n] \in Order BY <1>1, <3>2 DEF BookInv, BookType, PartialFunction
      <4> QED BY <4>1, <4>2 DEF Order
    <3> HIDE DEF n, o
    <3>4. BookInv(Released(book, n)) BY <1>1, <3>2, ReleasedSound
    <3>5. TotalsCover(Released(book, n)) BY <1>1, <3>2, ReleasedCovers
    <3> QED BY <2>2, <3>1, <3>3, <3>4, <3>5, AddedCovers DEF MatchInv
  <2> QED BY <2>3, <2>4
<1>5. ASSUME Clear PROVE MatchInv'
  <2>1. book' = NewBook /\ call'.op = "none" BY <1>5, IdleTyped DEF Clear
  <2>2. (BeforeInv /\ PriorityRespected /\ FillsAccounted)'
    BY <2>1 DEF BeforeInv, PriorityRespected, FillsAccounted
  <2>3. TotalsCover(NewBook) BY DEF TotalsCover, NewBook, Side
  <2> QED BY <2>1, <2>2, <2>3 DEF MatchInv
<1> QED BY <1>2, <1>3, <1>4, <1>5

LEMMA MatchInvariance == Spec => []MatchInv
<1>1. Init => MatchInv
  <2> SUFFICES ASSUME Init PROVE MatchInv OBVIOUS
  <2>1. call.op = "none" /\ book = NewBook BY IdleTyped DEF Init
  <2>2. TotalsCover(book) BY <2>1 DEF TotalsCover, NewBook, Side
  <2> QED BY <2>1, <2>2, NoMatchNoClaim DEF MatchInv
<1>2. IInv /\ MatchInv /\ [Next]_vars => MatchInv'
  <2> SUFFICES ASSUME IInv, MatchInv, [Next]_vars PROVE MatchInv' OBVIOUS
  <2>1. TotalsCover(book) BY DEF MatchInv
  <2>2. ASSUME NEW o \in NewOrders, AddOrder(o) PROVE MatchInv'
    BY <2>1, <2>2, OtherCallsCover
  <2>3. ASSUME NEW o \in NewOrders, MatchOrder(o) PROVE MatchInv'
    BY <2>1, <2>3, MatchOrderClaims
  <2>4. ASSUME NEW id \in OrderIds, CancelOrder(id) PROVE MatchInv'
    BY <2>1, <2>4, OtherCallsCover
  <2>5. ASSUME NEW id \in OrderIds, NEW p \in Prices, NEW q \in ModQuantities,
               ModifyOrder(id, p, q)
        PROVE  MatchInv'
    BY <2>1, <2>5, OtherCallsCover
  <2>6. CASE Clear BY <2>1, <2>6, OtherCallsCover
  <2>7. CASE MatchStep BY <2>7, MatchStepClaims
  <2>8. CASE MatchDone BY <2>8, MatchDoneClaims
  <2>9. CASE UNCHANGED vars
    BY <2>9 DEF vars, MatchInv, BeforeInv, PriorityRespected, Precedes, FillsAccounted, Had, Left
  <2> QED BY <2>2, <2>3, <2>4, <2>5, <2>6, <2>7, <2>8, <2>9 DEF Next
<1> QED BY <1>1, <1>2, Invariance, PTL DEF Spec

\* Every variable keeps its type.
THEOREM TypeCorrect == Spec => []TypeOK
<1>1. IInv => TypeOK BY DEF IInv
<1> QED BY <1>1, Invariance, PTL

\* orders_ never leads to a node that was given back, nor to another order,
\* whatever ids the clients use.
THEOREM IndexNeverDangles == Spec => []IndexSound
<1>1. IInv => IndexSound BY DEF IInv, BookInv, IndexSound
<1> QED BY <1>1, Invariance, PTL

\* Levels and nodes agree: no empty level, queues in order of arrival, no
\* node in the wrong queue and none in no queue.
THEOREM LevelsStaySound == Spec => []LevelsSound
<1>1. IInv => LevelsSound BY DEF IInv, BookInv, LevelsSound
<1> QED BY <1>1, Invariance, PTL

\* Two resting orders that could trade with each other are there only if
\* add_order or modify_order put one of them there.
THEOREM MatchingNeverCrosses == Spec => []CrossedOnlyByReadd
<1>1. IInv => CrossedOnlyByReadd BY DEF IInv
<1> QED BY <1>1, Invariance, PTL

\* With unique ids, every resting order can be reached under its id.
THEOREM EveryOrderReachable == Spec => []IndexComplete
<1>1. IInv => IndexComplete BY DEF IInv
<1> QED BY <1>1, Invariance, PTL

\* A match ends only when nothing is left that the order could trade with.
THEOREM MatchingIsExhaustive == Spec => []NothingLeftToMatch
<1>1. IInv => NothingLeftToMatch BY DEF IInv
<1> QED BY <1>1, Invariance, PTL

\* No unsigned subtraction wraps: no order is filled beyond its quantity, and
\* the total of a level covers what is left in its queue.
THEOREM QuantitiesStayUnsigned == Spec => []QuantitiesNeverWrap
<1>1. IInv /\ MatchInv => QuantitiesNeverWrap
  BY DEF IInv, MatchInv, AggressorInBounds, QuantitiesNeverWrap
<1> QED BY <1>1, Invariance, MatchInvariance, PTL

\* Price-time priority, at every step of every match.
THEOREM PriorityIsRespected == Spec => []PriorityRespected
<1>1. MatchInv => PriorityRespected BY DEF MatchInv
<1> QED BY <1>1, MatchInvariance, PTL

\* What the aggressor gains, its trades say and the resting orders lose is one
\* quantity, at every step of every match.
THEOREM FillsAreAccounted == Spec => []FillsAccounted
<1>1. MatchInv => FillsAccounted BY DEF MatchInv
<1> QED BY <1>1, MatchInvariance, PTL

\* cancel_order removes every order of its id, provided no client submits an
\* id that is resting; if one may, TLC finds an order that stays.
THEOREM CancelRemovesUniqueIds == ReuseIds = FALSE => (Spec => CancelRemoves)
<1> SUFFICES ASSUME ReuseIds = FALSE PROVE Spec => CancelRemoves OBVIOUS
<1>1. IInv /\ IInv' /\ [Next]_vars
        => [\A id \in OrderIds : CancelOrder(id) /\ call'.ok => ~Resting(id)']_vars
  <2> SUFFICES ASSUME IInv, IInv', NEW id \in OrderIds, CancelOrder(id), call'.ok
               PROVE  ~Resting(id)'
    OBVIOUS
  <2>1. id \in DOMAIN book.orders
    <3> SUFFICES ASSUME id \notin DOMAIN book.orders PROVE FALSE OBVIOUS
    <3>1. call' = [op |-> "cancel", ok |-> FALSE] BY DEF CancelOrder
    <3>2. call'.ok = FALSE BY <3>1
    <3> QED BY <3>2
  <2> DEFINE n == book.orders[id]
  <2>2. book' = Released(book, n) BY <2>1 DEF CancelOrder, Cancelled
  <2>3. BookInv(book) /\ n \in DOMAIN book.heap /\ book.heap[n].id = id
    BY <2>1 DEF IInv, BookInv, Indexed
  <2>4. id \notin DOMAIN book'.orders
    <3> HIDE DEF n
    <3>1. DOMAIN Released(book, n).orders = DOMAIN book.orders \ {book.heap[n].id}
      BY DEF Released, Restrict
    <3> QED BY <2>2, <2>3, <3>1
  <2>5. FullyIndexed(book') BY DEF IInv, IndexComplete
  <2> QED BY <2>4, <2>5 DEF Resting, FullyIndexed
<1> QED BY <1>1, Invariance, PTL DEF Spec, CancelRemoves
==================================================================================
