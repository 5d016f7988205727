-------------------------------- MODULE OrderBook --------------------------------
(***************************************************************************)
(* One OrderBook as a state machine: each action is a call of its public   *)
(* interface, except that match_order is followed through its loop, one    *)
(* iteration per step, so that what holds in the middle of a match can be  *)
(* stated too.  The book is driven by one thread at a time (the engine's), *)
(* so no other call begins while one is in progress.                       *)
(*                                                                         *)
(* X_yyy is a wrong variant of X, as in BookOps.                           *)
(***************************************************************************)
EXTENDS BookOps

CONSTANTS Quantities,     \* quantities that orders are submitted with
          ModQuantities,  \* quantities that modify_order is called with
          TIFs,           \* times in force that are submitted
          MaxNodes,       \* bound: nodes allocated between two clear() calls
          ReuseIds        \* may a client submit an id that is resting?

ASSUME QuantitiesAssumption ==
    Quantities \subseteq Nat \ {0} /\ ModQuantities \subseteq Nat
ASSUME TIFsAssumption == TIFs \subseteq TimeInForce
ASSUME MaxNodesAssumption == MaxNodes \in Nat
ASSUME ReuseIdsAssumption == ReuseIds \in BOOLEAN

VARIABLES
    book,     \* levels, index and nodes
    call,     \* the call in progress ("match") or the last one, with its result
    before,   \* history: the nodes as they were when the last match began
    readded   \* history: the nodes that entered the book without being matched

vars == <<book, call, before, readded>>

Idle == [op |-> "none"]
Empty == [n \in {} |-> 0]

\* The orders a caller can build: nothing filled, status still PENDING.
NewOrders ==
    [id : OrderIds, side : Side, type : OrderType, tif : TIFs, price : Prices,
     quantity : Quantities, filled : {0}, status : {"PENDING"}]

Resting(id) == \E n \in DOMAIN book.heap : book.heap[n].id = id

MaySubmit(o) == ReuseIds \/ ~Resting(o.id)
HasRoom == book.fresh <= MaxNodes

Init ==
    /\ book = NewBook
    /\ call = Idle
    /\ before = Empty
    /\ readded = {}

----------------------------------------------------------------------------------
\* add_order called on its own, as the tests and the benchmark do.
AddOrder(o) ==
    /\ call.op # "match" /\ HasRoom /\ MaySubmit(o)
    /\ o.type = "LIMIT" /\ o.tif = "GTC"
    /\ book' = Added(book, o)
    /\ readded' = readded \cup {book.fresh}
    /\ call' = Idle
    /\ before' = Empty

CancelOrder(id) ==
    /\ call.op # "match"
    /\ IF id \in DOMAIN book.orders
       THEN /\ book' = Cancelled(book, id)
            /\ readded' = readded \ {book.orders[id]}
            /\ call' = [op |-> "cancel", ok |-> TRUE]
       ELSE /\ UNCHANGED <<book, readded>>
            /\ call' = [op |-> "cancel", ok |-> FALSE]
    /\ before' = Empty

ModifyOrder(id, p, q) ==
    /\ call.op # "match" /\ HasRoom
    /\ IF id \in DOMAIN book.orders
       THEN /\ book' = Modified(book, id, p, q)
            /\ readded' = (readded \ {book.orders[id]}) \cup {book.fresh}
            /\ call' = [op |-> "modify", ok |-> TRUE]
       ELSE /\ UNCHANGED <<book, readded>>
            /\ call' = [op |-> "modify", ok |-> FALSE]
    /\ before' = Empty

\* clear releases the pool, which starts over.
Clear ==
    /\ call.op # "match"
    /\ book' = NewBook
    /\ readded' = {}
    /\ call' = Idle
    /\ before' = Empty

MatchOrder(o) ==
    /\ call.op # "match" /\ HasRoom /\ MaySubmit(o)
    /\ call' = [op |-> "match", order |-> o, trades |-> << >>]
    /\ before' = book.heap
    /\ UNCHANGED <<book, readded>>

\* One iteration of the loop: the head of the best level trades.
MatchStep ==
    /\ call.op = "match"
    /\ \E p \in DOMAIN book.levels[Opposite(call.order.side)] :
         /\ Matches(book, call.order, p)
         /\ LET n       == Head(book.levels[Opposite(call.order.side)][p].queue)
                passive == book.heap[n]
                qty     == MatchQty(call.order, passive)
            IN  /\ book' = Filled(book, n, qty)
                /\ call' = [call EXCEPT
                              !.order.filled = @ + qty,
                              !.trades = Append(@, TradeOf(call.order, passive, qty))]
                /\ readded' = readded \cap DOMAIN book'.heap
    /\ UNCHANGED before

\* `continue' where the code has `break': only an empty side ends the loop.
MatchDone_withoutBreak ==
    /\ call.op = "match"
    /\ Remaining(call.order) = 0 \/ DOMAIN book.levels[Opposite(call.order.side)] = {}
    /\ book' = IF Rests(call.order) THEN Added(book, call.order) ELSE book
    /\ call' = [op |-> "matched", trades |-> call.trades,
                order |-> [call.order EXCEPT !.status = FinalStatus(call.order)]]
    /\ UNCHANGED <<before, readded>>

\* The loop is over: the time in force decides what becomes of the rest.
\* The node of a rested order is copied before the status is set.
MatchDone ==
    /\ call.op = "match"
    /\ \A p \in DOMAIN book.levels[Opposite(call.order.side)] : ~Matches(book, call.order, p)
    /\ book' = IF Rests(call.order) THEN Added(book, call.order) ELSE book
    /\ LET o == [call.order EXCEPT !.status = FinalStatus(call.order)]
       IN  call' = IF Killed(call.order)
                   THEN [op |-> "matched", order |-> [o EXCEPT !.filled = 0], trades |-> << >>]
                   ELSE [op |-> "matched", order |-> o, trades |-> call.trades]
    /\ UNCHANGED <<before, readded>>

Next ==
    \/ \E o \in NewOrders : AddOrder(o) \/ MatchOrder(o)
    \/ \E id \in OrderIds :
         \/ CancelOrder(id)
         \/ \E p \in Prices, q \in ModQuantities : ModifyOrder(id, p, q)
    \/ Clear
    \/ MatchStep
    \/ MatchDone

Spec == Init /\ [][Next]_vars

\* The thread that runs a match is not suspended for ever.
FairSpec == Spec /\ WF_vars(MatchStep \/ MatchDone)

----------------------------------------------------------------------------------
CallType ==
    [op : {"none"}] \cup [op : {"cancel", "modify"}, ok : BOOLEAN]
      \cup [op : {"match", "matched"}, order : Order, trades : Seq(Trade)]

\* Every variable has its type; the book is one that add, cancel, modify and
\* match can work on, its nodes older than the next one the pool will give.
TypeOK ==
    /\ BookType(book)
    /\ call \in CallType
    /\ PartialFunction(before, Node, Order)
    /\ readded \subseteq DOMAIN book.heap

\* No index entry dangles: orders_ holds only allocated nodes, each under the
\* id of the order in it, so cancel_order, modify_order and find_order never
\* follow a pointer to a node that a fill or a cancel gave back.
IndexSound == Indexed(book)

\* The levels and the nodes agree after any sequence of calls: no level is
\* empty (begin() is always a price one can trade at), a queue holds live
\* nodes of its own side and price in the order of their arrival, and no
\* live node is lost from the levels.
LevelsSound == QueuesSound(book) /\ HeapListed(book)

\* The unsigned subtractions never wrap: filled stays within quantity, for
\* the resting orders and for the aggressor, and total_qty_ of a level, which
\* no fill reduces, stays at or above what is left in its queue.
QuantitiesNeverWrap ==
    /\ NotOverfilled(book)
    /\ call.op \in {"match", "matched"} => call.order.filled <= call.order.quantity
    /\ TotalsCover(book)

\* Matching never leaves two orders resting that could have traded with each
\* other: if a bid meets an ask, one of them was put there by add_order or
\* modify_order, which do not match.
CrossedOnlyByReadd ==
    \A m, n \in DOMAIN book.heap :
        book.heap[m].side = "BUY" /\ book.heap[n].side = "SELL"
          /\ book.heap[m].price >= book.heap[n].price
        => m \in readded \/ n \in readded

\* While no client reuses the id of a resting order, every resting order can
\* be found, cancelled and modified under its id, and no two share one.
IndexComplete == ReuseIds \/ FullyIndexed(book)

----------------------------------------------------------------------------------
\* What was left in node n when the match began, and what is left now.
Had(n)  == Remaining(before[n])
Left(n) == IF n \in DOMAIN book.heap THEN Remaining(book.heap[n]) ELSE 0

\* m trades before n: a better price, or the same price and an older node.
Precedes(m, n) ==
    /\ before[m].side = before[n].side
    /\ \/ Better(before[m].side, before[m].price, before[n].price)
       \/ before[m].price = before[n].price /\ m < n

\* Price-time priority, in the middle of a match and after it: an order that
\* has traded in it leaves nothing behind of the orders that precede it, and
\* the aggressor's own side is untouched.
PriorityRespected ==
    call.op \in {"match", "matched"} =>
        \A n \in DOMAIN before :
            n \notin DOMAIN book.heap \/ book.heap[n] # before[n] =>
                /\ before[n].side = Opposite(call.order.side)
                /\ Crosses(call.order, before[n].price)
                /\ \A m \in DOMAIN before : Precedes(m, n) => m \notin DOMAIN book.heap

\* What the aggressor has been filled, what its trades add up to and what the
\* resting orders have lost is one quantity ("Total quantity in = total
\* quantity out"), for every order but the FOK order that is killed.
FillsAccounted ==
    call.op \in {"match", "matched"} /\ call.order.status # "REJECTED" =>
        /\ TradedQuantity(call.trades) = call.order.filled
        /\ SumFunction([n \in DOMAIN before |-> Had(n) - Left(n)]) = call.order.filled

\* Everything that could trade has traded: an order that is not filled leaves
\* no resting order it could still have traded with.
NothingLeftToMatch ==
    call.op = "matched" /\ call.order.status \in {"ACCEPTED", "PARTIALLY_FILLED", "CANCELLED"} =>
        \A n \in DOMAIN book.heap :
            book.heap[n].side = Opposite(call.order.side) =>
                ~Crosses(call.order, book.heap[n].price)

\* "Order either fully processed or not at all" (docs/matching_engine.md:225):
\* an order reported REJECTED leaves the resting orders as they were.
RejectedLeavesBook ==
    call.op = "matched" /\ call.order.status = "REJECTED" => book.heap = before

\* "Found: CANCELLED (removed from book)" (docs/matching_engine.md:38): when
\* cancel_order returns true, no order of that id rests any more.
CancelRemoves ==
    [][\A id \in OrderIds : CancelOrder(id) /\ call'.ok => ~Resting(id)']_vars

\* A match comes to its end: every iteration uses up a resting order or the
\* aggressor, so the loop cannot run for ever on an order of quantity 0.
MatchTerminates == call.op = "match" ~> call.op = "matched"
==================================================================================
