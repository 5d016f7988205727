--------------------------------- MODULE BookOps ---------------------------------
(***************************************************************************)
(* The operations of OrderBook (src/engine/order_book.cpp) as operators    *)
(* from a book to the book they leave.  A book is                          *)
(*   levels  bids_ and asks_: for each side, a function from a price to    *)
(*           its PriceLevel, the FIFO queue of nodes and total_qty_;       *)
(*   orders  orders_: the node that find_order, cancel_order and           *)
(*           modify_order reach under an order id;                         *)
(*   heap    the nodes that are allocated, with the Order each holds;      *)
(*   fresh   the node the monotonic pool hands out next.                   *)
(* A node stands for its address: the pool never reuses one before clear() *)
(* releases it, so node numbers also order the nodes by age.  The doubly   *)
(* linked list behind a queue is module PriceLevel.                        *)
(*                                                                         *)
(* A definition named X_yyy is a wrong variant of X; nothing uses it but   *)
(* the mutation checks of PROJECT.json, which put it in X's place.         *)
(***************************************************************************)
EXTENDS Types, SequencesExt

\* f with the entry v under the key x, like operator[] of the maps.
Put(f, x, v) == [y \in DOMAIN f \cup {x} |-> IF y = x THEN v ELSE f[y]]

TradedQuantity(trades) == SumFunction([i \in DOMAIN trades |-> trades[i].quantity])

Node == Nat \ {0}

EmptyLevel == [queue |-> << >>, total_qty |-> 0]

LevelAdd_atHead(l, n, o) ==
    [queue |-> <<n>> \o l.queue, total_qty |-> l.total_qty + Remaining(o)]

LevelAdd(l, n, o) ==
    [queue |-> Append(l.queue, n), total_qty |-> l.total_qty + Remaining(o)]

LevelRemove(l, n, o) ==
    [queue |-> RemoveAt(l.queue, CHOOSE i \in DOMAIN l.queue : l.queue[i] = n),
     total_qty |-> l.total_qty - Remaining(o)]

NewBook ==
    [levels |-> [s \in Side |-> [p \in {} |-> EmptyLevel]],
     orders |-> [id \in {} |-> 0],
     heap   |-> [n \in {} |-> 0],
     fresh  |-> 1]

Added_sameNode(b, o) ==
    [b EXCEPT !.levels[o.side] = Put(@, o.price, LevelAdd(EmptyLevel, b.fresh, o)),
              !.orders = Put(@, o.id, b.fresh),
              !.heap = Put(@, b.fresh, o)]

\* add_order: the node goes to the tail of its level, which is created on
\* demand, and the index entry of its id is overwritten, whatever it held.
Added(b, o) ==
    LET side  == b.levels[o.side]
        level == IF o.price \in DOMAIN side THEN side[o.price] ELSE EmptyLevel
    IN  [levels |-> [b.levels EXCEPT
                       ![o.side] = Put(side, o.price, LevelAdd(level, b.fresh, o))],
         orders |-> Put(b.orders, o.id, b.fresh),
         heap   |-> Put(b.heap, b.fresh, o),
         fresh  |-> b.fresh + 1]

Unlinked_keepsLevel(side, n, o) ==
    IF o.price \notin DOMAIN side THEN side
    ELSE [side EXCEPT ![o.price] = LevelRemove(side[o.price], n, o)]

\* The levels of a side without node n, which holds o; an emptied level goes.
Unlinked(side, n, o) ==
    IF o.price \notin DOMAIN side THEN side
    ELSE LET level == LevelRemove(side[o.price], n, o)
         IN  IF level.queue = << >>
             THEN Restrict(side, DOMAIN side \ {o.price})
             ELSE [side EXCEPT ![o.price] = level]

Released_keepsIndex(b, n) ==
    [b EXCEPT !.levels[b.heap[n].side] = Unlinked(@, n, b.heap[n]),
              !.heap = Restrict(b.heap, DOMAIN b.heap \ {n})]

\* Unlink node n, erase the index entry of its id, give the node back.
Released(b, n) ==
    LET o == b.heap[n]
    IN  [levels |-> [b.levels EXCEPT ![o.side] = Unlinked(@, n, o)],
         orders |-> Restrict(b.orders, DOMAIN b.orders \ {o.id}),
         heap   |-> Restrict(b.heap, DOMAIN b.heap \ {n}),
         fresh  |-> b.fresh]

Cancelled(b, id) == Released(b, b.orders[id])

Modified_addsFirst(b, id, p, q) ==
    LET o == b.heap[b.orders[id]]
    IN  Cancelled(Added(b, [o EXCEPT !.price = p, !.quantity = q, !.filled = 0]), id)

Modified_keepsFilled(b, id, p, q) ==
    Added(Cancelled(b, id), [b.heap[b.orders[id]] EXCEPT !.price = p, !.quantity = q])

\* modify_order cancels and re-adds: priority is lost, filled starts again
\* at 0, and the order is not matched against the other side.
Modified(b, id, p, q) ==
    LET o == b.heap[b.orders[id]]
    IN  Added(Cancelled(b, id), [o EXCEPT !.price = p, !.quantity = q, !.filled = 0])

----------------------------------------------------------------------------------
Better_ascending(s, p, q) == p < q

\* bids_ is ordered by greater<Price>, asks_ by less<Price>.
Better(s, p, q) == IF s = "BUY" THEN p > q ELSE p < q

\* p is the key of begin() of side s.
IsBest(b, s, p) ==
    /\ p \in DOMAIN b.levels[s]
    /\ \A q \in DOMAIN b.levels[s] : q = p \/ Better(s, p, q)

Crosses_strictly(o, p) ==
    \/ o.type = "MARKET"
    \/ o.side = "BUY" /\ o.price > p
    \/ o.side = "SELL" /\ o.price < p

\* The limit of o admits a trade at p; a market order has no limit.
Crosses(o, p) ==
    \/ o.type = "MARKET"
    \/ o.side = "BUY" /\ o.price >= p
    \/ o.side = "SELL" /\ o.price <= p

\* The matching loop of o takes another iteration, at price p.
Matches(b, o, p) ==
    /\ Remaining(o) > 0
    /\ IsBest(b, Opposite(o.side), p)
    /\ Crosses(o, p)
    /\ b.levels[Opposite(o.side)][p].queue # << >>

MatchQty(o, passive) ==
    IF Remaining(o) <= Remaining(passive) THEN Remaining(o) ELSE Remaining(passive)

TradeOf(o, passive, qty) ==
    [buyer_id  |-> IF o.side = "BUY" THEN o.id ELSE passive.id,
     seller_id |-> IF o.side = "SELL" THEN o.id ELSE passive.id,
     price |-> passive.price, quantity |-> qty,
     buyer_is_aggressor |-> o.side = "BUY"]

Filled_onlyWhole(b, n, qty) ==
    IF Remaining(b.heap[n]) = qty THEN Released(b, n) ELSE b

\* Node n trades qty; a complete one leaves its level, the index and the heap.
Filled(b, n, qty) ==
    LET traded == [b EXCEPT !.heap[n].filled = @ + qty]
    IN  IF Remaining(traded.heap[n]) = 0 THEN Released(traded, n) ELSE traded

Rests_anyType(o) == o.tif = "GTC" /\ Remaining(o) > 0

\* What match_order does with a remainder when its loop ends.
Rests(o)  == o.type = "LIMIT" /\ o.tif = "GTC" /\ Remaining(o) > 0
Killed(o) == o.type = "LIMIT" /\ o.tif = "FOK" /\ Remaining(o) > 0

FinalStatus(o) ==
    IF Remaining(o) = 0 THEN "FILLED"
    ELSE IF o.type = "MARKET" THEN "PARTIALLY_FILLED"
    ELSE CASE o.tif = "FOK" -> "REJECTED"
           [] o.tif = "IOC" -> "CANCELLED"
           [] o.tif = "GTC" -> IF o.filled > 0 THEN "PARTIALLY_FILLED" ELSE "ACCEPTED"

----------------------------------------------------------------------------------
(* What a sound book is. *)

Level == [queue : Seq(Node), total_qty : Int]

\* A partial function from D to R.
PartialFunction(f, D, R) == DOMAIN f \subseteq D /\ f \in [DOMAIN f -> R]

BookType(b) ==
    /\ DOMAIN b = {"levels", "orders", "heap", "fresh"}
    /\ DOMAIN b.levels = Side
    /\ \A s \in Side : PartialFunction(b.levels[s], Prices, Level)
    /\ PartialFunction(b.orders, OrderIds, Node)
    /\ PartialFunction(b.heap, Node, Order)
    /\ b.fresh \in Node
    /\ \A n \in DOMAIN b.heap : n < b.fresh

\* Every index entry leads to a live node, which holds the order of that id.
Indexed(b) ==
    \A id \in DOMAIN b.orders :
        b.orders[id] \in DOMAIN b.heap /\ b.heap[b.orders[id]].id = id

\* A queue holds live nodes of its own side and price, oldest first; it is
\* never empty.
QueueSound(b, s, p, queue) ==
    /\ queue # << >>
    /\ \A i \in DOMAIN queue : /\ queue[i] \in DOMAIN b.heap
                               /\ b.heap[queue[i]].side = s
                               /\ b.heap[queue[i]].price = p
    /\ \A i, j \in DOMAIN queue : i < j => queue[i] < queue[j]

QueuesSound(b) ==
    \A s \in Side : \A p \in DOMAIN b.levels[s] : QueueSound(b, s, p, b.levels[s][p].queue)

Listed(b, n) ==
    LET side == b.levels[b.heap[n].side]
    IN  /\ b.heap[n].price \in DOMAIN side
        /\ \E i \in DOMAIN side[b.heap[n].price].queue : side[b.heap[n].price].queue[i] = n

\* Every live node waits at the level of its side and price.
HeapListed(b) == \A n \in DOMAIN b.heap : Listed(b, n)

\* The order in a live node is not overfilled.
NotOverfilled(b) == \A n \in DOMAIN b.heap : b.heap[n].filled <= b.heap[n].quantity

\* total_qty of a level, which no fill reduces, is no less than what is left
\* of the orders in its queue.
LevelCovered(b, level) ==
    SumFunction([n \in Range(level.queue) |-> Remaining(b.heap[n])]) <= level.total_qty

TotalsCover(b) ==
    \A s \in Side : \A p \in DOMAIN b.levels[s] : LevelCovered(b, b.levels[s][p])

\* Every live node is the one its id leads to.
FullyIndexed(b) ==
    \A n \in DOMAIN b.heap :
        b.heap[n].id \in DOMAIN b.orders /\ b.orders[b.heap[n].id] = n
==================================================================================
