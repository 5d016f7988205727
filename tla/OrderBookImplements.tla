--------------------------- MODULE OrderBookImplements ---------------------------
(***************************************************************************)
(* OrderBook implements PriceTimePriority when no client reuses the id of  *)
(* a resting order.  While a match is in progress the abstract book is     *)
(* still the one its caller saw and the order still the one it passed; the *)
(* step that ends the loop is the one in which the abstract order is       *)
(* served.                                                                 *)
(***************************************************************************)
EXTENDS OrderBook

CONSTANT FokRollsBack

Promised == INSTANCE PriceTimePriority
              WITH resting <- IF call.op = "match" THEN before ELSE book.heap,
                   stamp   <- book.fresh,
                   call    <- IF call.op = "match"
                              THEN [call EXCEPT !.order.filled = 0, !.trades = << >>]
                              ELSE call

\* Levels, queues, index and loop together serve each order exactly the
\* trades, the status and the book that price-time priority gives it.
ImplementsPriority == Promised!Spec
==================================================================================
