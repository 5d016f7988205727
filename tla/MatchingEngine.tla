------------------------------ MODULE MatchingEngine ------------------------------
(***************************************************************************)
(* MatchingEngine (src/engine/matching_engine.cpp): one book per symbol, a *)
(* queue of events in front of them, and the callbacks that tell the       *)
(* outside what became of each event.                                      *)
(*                                                                         *)
(* There is no engine thread: nothing calls run(), so submit_event is the  *)
(* only place where an event is processed, by the thread that submits.     *)
(* start() and stop() may come from another thread at any time; all that   *)
(* submit_event sees of them is one load of running_.  Pushed and popped   *)
(* by one thread, the ring is a bounded queue (module BoundedFifo).        *)
(*                                                                         *)
(* A match is one step here; module OrderBook follows its loop.            *)
(*                                                                         *)
(* X_yyy is a wrong variant of X, as in BookOps.                           *)
(***************************************************************************)
EXTENDS BookOps

CONSTANTS Symbols,
          ClientIds,       \* the ids clients choose themselves
          AutoIds,         \* bound: ids the engine can assign
          Quantities, ModQuantities, TIFs,
          Capacity,        \* slots of the ring, of which one stays free
          MaxEvents,       \* bound: events processed
          RejectCallback   \* is reject_cb_ set?  main() leaves it empty

INVALID_ORDER_ID == 0

ASSUME IdsAssumption ==
    /\ AutoIds \in Nat
    /\ OrderIds = ClientIds \cup 1..AutoIds
    /\ INVALID_ORDER_ID \notin ClientIds
ASSUME QuantitiesAssumption == Quantities \subseteq Nat /\ ModQuantities \subseteq Nat
ASSUME TIFsAssumption == TIFs \subseteq TimeInForce
ASSUME BoundsAssumption == Capacity \in Nat \ {0} /\ MaxEvents \in Nat
ASSUME RejectCallbackAssumption == RejectCallback \in BOOLEAN

VARIABLES
    books,           \* the books that exist, by symbol
    event_queue,
    running,
    next_order_id,
    processed,       \* processed_
    last,            \* the last event that was processed and what it emitted
    known            \* history: what a client that heard every callback knows to rest

vars == <<books, event_queue, running, next_order_id, processed, last, known>>

NoMessage == [kind |-> "none"]
Ack(id, status) == [kind |-> "ack", id |-> id, status |-> status]
Reject(id) == IF RejectCallback THEN [kind |-> "reject", id |-> id] ELSE NoMessage

\* No order has INVALID_ORDER_ID, but a cancel or a modify may carry it.
AnyId == OrderIds \cup {INVALID_ORDER_ID}

Orders ==
    [id : ClientIds \cup {INVALID_ORDER_ID}, side : Side, type : OrderType, tif : TIFs,
     price : Prices, quantity : Quantities, filled : {0}, status : {"PENDING"}]

Events ==
    [kind : {"new"}, symbol : Symbols, order : Orders]
      \cup [kind : {"cancel"}, symbol : Symbols, id : AnyId]
      \cup [kind : {"modify"}, symbol : Symbols, id : AnyId,
            price : Prices, quantity : ModQuantities]

Valid(o) == o.quantity # 0 /\ (o.type = "LIMIT" => o.price # 0)

----------------------------------------------------------------------------------
\* One iteration of the loop of match_order, if there is another one.
Iterate(m) ==
    LET far  == m.book.levels[Opposite(m.order.side)]
        best == {p \in DOMAIN far : Matches(m.book, m.order, p)}
    IN  IF best = {} THEN m
        ELSE LET n   == Head(far[CHOOSE p \in best : TRUE].queue)
                 qty == MatchQty(m.order, m.book.heap[n])
             IN  [book   |-> Filled(m.book, n, qty),
                  order  |-> [m.order EXCEPT !.filled = @ + qty],
                  trades |-> Append(m.trades, TradeOf(m.order, m.book.heap[n], qty))]

\* match_order: every iteration but the last uses up a resting order.
Matched(b, o) ==
    LET steps == Cardinality(DOMAIN b.heap) + 1
        run[i \in 0..steps] ==
          IF i = 0 THEN [book |-> b, order |-> o, trades |-> << >>] ELSE Iterate(run[i - 1])
        m == run[steps]
    IN  [book   |-> IF Rests(m.order) THEN Added(m.book, m.order) ELSE m.book,
         status |-> FinalStatus(m.order),
         trades |-> IF Killed(m.order) THEN << >> ELSE m.trades]

Book(s) == IF s \in DOMAIN books THEN books[s] ELSE NewBook

NextId_kept(o) == next_order_id

\* The id of a new order is assigned, before anything is validated, if the
\* client has chosen none.
AssignedId(o) == IF o.id = INVALID_ORDER_ID THEN next_order_id ELSE o.id
NextId(o) == IF o.id = INVALID_ORDER_ID THEN next_order_id + 1 ELSE next_order_id

\* What a handler leaves and emits: the books, the next id, the trades, and
\* the ack or the reject that follows them.
Only(answer) ==
    [books |-> books, next_order_id |-> next_order_id, trades |-> << >>, answer |-> answer]

NewOrderHandled(e) ==
    LET o == [e.order EXCEPT !.id = AssignedId(e.order)]
        m == Matched(Book(e.symbol), o)
    IN  IF ~Valid(o)
        THEN [Only(Reject(o.id)) EXCEPT !.next_order_id = NextId(e.order)]
        ELSE [books |-> Put(books, e.symbol, m.book), next_order_id |-> NextId(e.order),
              trades |-> m.trades, answer |-> Ack(o.id, m.status)]

CancelHandled(e) ==
    IF e.symbol \notin DOMAIN books THEN Only(Reject(e.id))
    ELSE IF e.id \notin DOMAIN books[e.symbol].orders THEN Only(Ack(e.id, "REJECTED"))
    ELSE [Only(Ack(e.id, "CANCELLED")) EXCEPT !.books[e.symbol] = Cancelled(@, e.id)]

\* The result of modify_order is not looked at.
ModifyHandled_alwaysAccepts(e) ==
    IF e.symbol \notin DOMAIN books THEN Only(Reject(e.id))
    ELSE IF e.id \notin DOMAIN books[e.symbol].orders THEN Only(Ack(e.id, "ACCEPTED"))
    ELSE [Only(Ack(e.id, "ACCEPTED")) EXCEPT
            !.books[e.symbol] = Modified(@, e.id, e.price, e.quantity)]

ModifyHandled(e) ==
    IF e.symbol \notin DOMAIN books THEN Only(Reject(e.id))
    ELSE IF e.id \notin DOMAIN books[e.symbol].orders THEN Only(Ack(e.id, "REJECTED"))
    ELSE [Only(Ack(e.id, "ACCEPTED")) EXCEPT
            !.books[e.symbol] = Modified(@, e.id, e.price, e.quantity)]

Handled(e) ==
    CASE e.kind = "new"    -> NewOrderHandled(e)
      [] e.kind = "cancel" -> CancelHandled(e)
      [] e.kind = "modify" -> ModifyHandled(e)

----------------------------------------------------------------------------------
(* A client that knows every event and hears every callback. *)

Without(f, x) == Restrict(f, DOMAIN f \ {x})

\* A trade takes its quantity from the order that rests.
HearTrade(orders, t) ==
    LET id == IF t.buyer_is_aggressor THEN t.seller_id ELSE t.buyer_id
    IN  IF id \notin DOMAIN orders THEN orders
        ELSE IF orders[id] = t.quantity THEN Without(orders, id)
        ELSE [orders EXCEPT ![id] = @ - t.quantity]

\* The trades of one match, heard in the order in which they come.
HearTrades(orders, trades) ==
    LET heard[i \in 0..Len(trades)] ==
          IF i = 0 THEN orders ELSE HearTrade(heard[i - 1], trades[i])
    IN  heard[Len(trades)]

\* What rests of the symbol of e, once the answer to e is heard.
HearAnswer(orders, e, trades, answer) ==
    IF answer.kind # "ack" THEN orders
    ELSE CASE e.kind = "new" ->
                IF e.order.type = "LIMIT" /\ answer.status \in {"ACCEPTED", "PARTIALLY_FILLED"}
                THEN Put(orders, answer.id, e.order.quantity - TradedQuantity(trades))
                ELSE orders
           [] e.kind = "cancel" ->
                IF answer.status = "CANCELLED" THEN Without(orders, e.id) ELSE orders
           [] e.kind = "modify" ->
                IF answer.status = "ACCEPTED" THEN Put(orders, e.id, e.quantity) ELSE orders

Heard(e, h) ==
    LET orders == HearTrades(known[e.symbol], h.trades)
    IN  [known EXCEPT ![e.symbol] = HearAnswer(orders, e, h.trades, h.answer)]

----------------------------------------------------------------------------------
Init ==
    /\ books = [s \in {} |-> NewBook]
    /\ event_queue = << >>
    /\ running = FALSE
    /\ next_order_id = 1
    /\ processed = 0
    /\ last = [number |-> 0, trades |-> << >>, answer |-> NoMessage]
    /\ known = [s \in Symbols |-> [id \in {} |-> 0]]

Start ==
    /\ ~running
    /\ running' = TRUE
    /\ UNCHANGED <<books, event_queue, next_order_id, processed, last, known>>

Stop ==
    /\ running
    /\ running' = FALSE
    /\ UNCHANGED <<books, event_queue, next_order_id, processed, last, known>>

\* process_event, then ++processed_.
Process(queued) ==
    LET e == queued.event
        h == Handled(e)
    IN  /\ books' = h.books
        /\ next_order_id' = h.next_order_id
        /\ processed' = processed + 1
        /\ last' = [number |-> queued.number, trades |-> h.trades, answer |-> h.answer]
        /\ known' = Heard(e, h)

\* Events are numbered in the order in which submit_event accepts them.
Accepted == processed + Len(event_queue)

\* An id that a client chooses is not one that rests or waits already.
MaySubmit(e) ==
    e.kind = "new" /\ e.order.id \in ClientIds =>
        /\ \A s \in DOMAIN books : \A n \in DOMAIN books[s].heap :
             books[s].heap[n].id # e.order.id
        /\ \A i \in DOMAIN event_queue :
             event_queue[i].event.kind = "new" => event_queue[i].event.order.id # e.order.id

\* Bounds on the events and on the ids that the waiting ones may still take.
WithinBounds ==
    /\ Accepted < MaxEvents
    /\ next_order_id + Len(event_queue) <= AutoIds

HasSlot_all == Len(event_queue) < Capacity

\* try_push succeeds: one slot of the ring stays free.
HasSlot == Len(event_queue) < Capacity - 1

\* The event that was just pushed is processed, whatever waits before it.
SubmitEvent_newestFirst(e) ==
    /\ WithinBounds /\ MaySubmit(e) /\ HasSlot
    /\ LET queued == [number |-> Accepted + 1, event |-> e]
       IN  IF running
           THEN Process(queued) /\ UNCHANGED event_queue
           ELSE /\ event_queue' = Append(event_queue, queued)
                /\ UNCHANGED <<books, next_order_id, processed, last, known>>
    /\ UNCHANGED running

\* submit_event that succeeds: the event goes to the end of the queue and, if
\* the engine is running, the event at its head is processed.  With the queue
\* full it returns false before it looks at running_, and nothing happens.
SubmitEvent(e) ==
    /\ WithinBounds /\ MaySubmit(e) /\ HasSlot
    /\ LET queue == Append(event_queue, [number |-> Accepted + 1, event |-> e])
       IN  IF running
           THEN Process(Head(queue)) /\ event_queue' = Tail(queue)
           ELSE /\ event_queue' = queue
                /\ UNCHANGED <<books, next_order_id, processed, last, known>>
    /\ UNCHANGED running

Next ==
    \/ Start
    \/ Stop
    \/ \E e \in Events : SubmitEvent(e)

Spec == Init /\ [][Next]_vars

----------------------------------------------------------------------------------
Messages ==
    {NoMessage} \cup [kind : {"reject"}, id : AnyId]
      \cup [kind : {"ack"}, id : AnyId, status : OrderStatus]

\* Every variable has its type, and the queue never takes its last slot.
TypeOK ==
    /\ DOMAIN books \subseteq Symbols
    /\ \A s \in DOMAIN books : BookType(books[s])
    /\ Len(event_queue) < Capacity
    /\ \A i \in DOMAIN event_queue : event_queue[i].event \in Events
    /\ running \in BOOLEAN
    /\ next_order_id \in 1..(AutoIds + 1)
    /\ last.trades \in Seq(Trade) /\ last.answer \in Messages
    /\ \A s \in Symbols : PartialFunction(known[s], OrderIds, Nat)

\* Whatever clients send to whichever symbol, each book stays sound: no
\* dangling or ambiguous index entry, no lost or misplaced node.  In
\* particular an id the engine assigns is not one that still rests.
BooksSound ==
    \A s \in DOMAIN books :
        /\ Indexed(books[s]) /\ FullyIndexed(books[s])
        /\ QueuesSound(books[s]) /\ HeapListed(books[s])
        /\ NotOverfilled(books[s])

RestingIn(b) == [id \in DOMAIN b.orders |-> Remaining(b.heap[b.orders[id]])]

\* "Total quantity in = total quantity out" as a client can check it: the
\* callbacks, taken in the order in which they come, always add up to exactly
\* the orders that rest in each book and what is left of each.
CallbacksTellTheBook == \A s \in Symbols : known[s] = RestingIn(Book(s))

\* Events are answered in the order in which submit_event accepted them, none
\* twice and none left out, however long they waited and however often the
\* engine was stopped.
AnsweredInOrder ==
    /\ last.number = processed
    /\ \A i \in DOMAIN event_queue : event_queue[i].number = processed + i
==================================================================================
