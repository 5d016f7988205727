-------------------------------- MODULE PriceLevel --------------------------------
(***************************************************************************)
(* The PriceLevel of src/engine/order_book.cpp: a queue of order nodes     *)
(* kept as a doubly linked list.  The nodes come from the pool of the book *)
(* and are filled by its matching loop, which knows nothing of the list.   *)
(* The callers of remove_order erase a level that it leaves empty and make *)
(* a new one when the price is used again.                                 *)
(*                                                                         *)
(* `level' is the same level as module BookOps sees it, which every other  *)
(* module relies on: the list has to represent it.                         *)
(*                                                                         *)
(* X_yyy is a wrong variant of X, as in BookOps.                           *)
(***************************************************************************)
EXTENDS Integers, Sequences

CONSTANTS MaxNodes,     \* bound: nodes allocated in a behaviour
          Quantities,   \* what the orders ask for
          Null

ASSUME MaxNodesAssumption == MaxNodes \in Nat
ASSUME QuantitiesAssumption == Quantities \subseteq Nat
ASSUME NullAssumption == Null \notin Nat

VARIABLES
    head, tail, total_qty,   \* the level
    next, prev,              \* the pointers in the nodes
    orders,                  \* the orders in the nodes: quantity and filled
    level                    \* history: the level as the queue it stands for

pointers == <<head, tail, next, prev>>
vars == <<pointers, total_qty, orders, level>>

Ops == INSTANCE BookOps WITH OrderIds <- {}, Prices <- {}, PriceBound <- 0

Linked == {level.queue[i] : i \in DOMAIN level.queue}

Init ==
    /\ head = Null /\ tail = Null /\ total_qty = 0
    /\ next = << >> /\ prev = << >> /\ orders = << >>
    /\ level = Ops!EmptyLevel

\* The pool makes a node for an order, which may be the remainder of one that
\* has traded, and it goes behind the tail.
AddOrder(o) ==
    LET n == Len(orders) + 1
    IN  /\ n <= MaxNodes
        /\ orders' = Append(orders, o)
        /\ IF head = Null
           THEN /\ head' = n
                /\ next' = Append(next, Null)
                /\ prev' = Append(prev, Null)
           ELSE /\ next' = Append([next EXCEPT ![tail] = n], Null)
                /\ prev' = Append(prev, tail)
                /\ UNCHANGED head
        /\ tail' = n
        /\ total_qty' = total_qty + Ops!Remaining(o)
        /\ level' = Ops!LevelAdd(level, n, o)

TotalWithout_whole(o) == total_qty - o.quantity

TotalWithout(o) == total_qty - Ops!Remaining(o)

\* Without the special case for the tail.
RemoveOrder_keepsTail(n, o) ==
    /\ next' = IF prev[n] # Null THEN [next EXCEPT ![prev[n]] = next[n]] ELSE next
    /\ prev' = IF next[n] # Null THEN [prev EXCEPT ![next[n]] = prev[n]] ELSE prev
    /\ head' = IF prev[n] = Null THEN next[n] ELSE head
    /\ tail' = IF head' = Null THEN Null ELSE tail
    /\ total_qty' = IF head' = Null THEN 0 ELSE TotalWithout(o)
    /\ LET rest == Ops!LevelRemove(level, n, o)
       IN  level' = IF rest.queue = << >> THEN Ops!EmptyLevel ELSE rest

\* The neighbours of n, or the ends of the list, are joined, and a level that
\* is empty then is erased.  n, which holds o, keeps its own pointers.
RemoveOrder(n, o) ==
    /\ next' = IF prev[n] # Null THEN [next EXCEPT ![prev[n]] = next[n]] ELSE next
    /\ prev' = IF next[n] # Null THEN [prev EXCEPT ![next[n]] = prev[n]] ELSE prev
    /\ head' = IF prev[n] = Null THEN next[n] ELSE head
    /\ tail' = IF next[n] = Null THEN prev[n] ELSE tail
    /\ total_qty' = IF head' = Null THEN 0 ELSE TotalWithout(o)
    /\ LET rest == Ops!LevelRemove(level, n, o)
       IN  level' = IF rest.queue = << >> THEN Ops!EmptyLevel ELSE rest

CancelOrder(n) ==
    /\ n \in Linked
    /\ RemoveOrder(n, orders[n])
    /\ UNCHANGED orders

\* The loop fills the order at the head, and removes it when it is complete;
\* one that was modified to quantity 0 is complete at once.
FillHead(qty) ==
    /\ head # Null
    /\ qty <= Ops!Remaining(orders[head])
    /\ qty > 0 \/ Ops!Remaining(orders[head]) = 0
    /\ orders' = [orders EXCEPT ![head].filled = @ + qty]
    /\ IF Ops!Remaining(orders'[head]) = 0
       THEN RemoveOrder(head, orders'[head])
       ELSE UNCHANGED <<pointers, total_qty, level>>

Next ==
    \/ \E q \in Quantities : \E f \in 0..q :
         (q = 0 \/ f < q) /\ AddOrder([quantity |-> q, filled |-> f])
    \/ \E n \in Linked : CancelOrder(n)
    \/ \E q \in Quantities : \E qty \in 0..q : FillHead(qty)

Spec == Init /\ [][Next]_vars

----------------------------------------------------------------------------------
PointerType == Nat \cup {Null}

\* Pointers lead to nodes that were allocated, or nowhere.
TypeOK ==
    /\ head \in PointerType /\ tail \in PointerType /\ total_qty \in Nat
    /\ orders \in Seq([quantity : Quantities, filled : Nat])
    /\ Len(next) = Len(orders) /\ Len(prev) = Len(orders)
    /\ \A n \in DOMAIN orders : {next[n], prev[n]} \subseteq DOMAIN orders \cup {Null}

\* Whichever nodes are taken out, first, last, only or in between, the list
\* is the queue: its ends are the head and the tail, each node points to its
\* neighbours, so that no node in it points to one that was given back, and
\* the total is the one of the queue.
RepresentsQueue ==
    LET queue == level.queue
        Neighbour(i) == IF i \in DOMAIN queue THEN queue[i] ELSE Null
    IN  /\ head = Neighbour(1)
        /\ tail = Neighbour(Len(queue))
        /\ \A i \in DOMAIN queue : /\ next[queue[i]] = Neighbour(i + 1)
                                   /\ prev[queue[i]] = Neighbour(i - 1)
        /\ total_qty = level.total_qty
==================================================================================
