------------------------------- MODULE BoundedFifo -------------------------------
(* What the queue between two threads promises: at most Limit items wait, *)
(* and they are delivered once each, in the order in which they came.     *)
EXTENDS Naturals, Sequences

CONSTANTS Items, Limit

VARIABLES queue, delivered

Init == queue = << >> /\ delivered = << >>

Push(x) ==
    /\ Len(queue) < Limit
    /\ queue' = Append(queue, x)
    /\ UNCHANGED delivered

Pop ==
    /\ queue # << >>
    /\ queue' = Tail(queue)
    /\ delivered' = Append(delivered, Head(queue))

Next == Pop \/ \E x \in Items : Push(x)

Spec == Init /\ [][Next]_<<queue, delivered>>
==================================================================================
