---------------------------- MODULE PriceTimePriority ----------------------------
(***************************************************************************)
(* What a limit order book promises (docs/matching_engine.md), without     *)
(* levels, queues, an index or a loop.  The book is a set of resting       *)
(* orders, each with the stamp of its arrival, and an order that is asked  *)
(* to be matched is served in one step: it trades with every order it may  *)
(* trade with whose predecessors do not already satisfy it, in order of    *)
(* price, then time.                                                       *)
(* Order ids are unique among the resting orders.                          *)
(***************************************************************************)
EXTENDS Types, SequencesExt

CONSTANTS Quantities, ModQuantities, TIFs, MaxNodes,
          FokRollsBack    \* does a killed FOK order leave the resting orders alone?

VARIABLES resting, stamp, call

vars == <<resting, stamp, call>>

Idle == [op |-> "none"]

Put(f, x, v) == [y \in DOMAIN f \cup {x} |-> IF y = x THEN v ELSE f[y]]

NewOrders(types, tifs) ==
    [id : OrderIds, side : Side, type : types, tif : tifs, price : Prices,
     quantity : Quantities, filled : {0}, status : {"PENDING"}]

Fresh(id) == \A n \in DOMAIN resting : resting[n].id # id

Init ==
    /\ resting = [n \in {} |-> 0]
    /\ stamp = 1
    /\ call = Idle

----------------------------------------------------------------------------------
Submit(o) ==
    /\ call.op # "match" /\ stamp <= MaxNodes /\ Fresh(o.id)
    /\ call' = Idle
    /\ stamp' = stamp + 1
    /\ resting' = Put(resting, stamp, o)

Cancel(id) ==
    /\ call.op # "match"
    /\ IF Fresh(id)
       THEN /\ UNCHANGED resting
            /\ call' = [op |-> "cancel", ok |-> FALSE]
       ELSE /\ resting' = Restrict(resting, {n \in DOMAIN resting : resting[n].id # id})
            /\ call' = [op |-> "cancel", ok |-> TRUE]
    /\ UNCHANGED stamp

\* A modified order keeps its id and its side and joins the end of the queue
\* at its new price.
Modify(id, p, q) ==
    /\ call.op # "match" /\ stamp <= MaxNodes
    /\ \/ /\ Fresh(id)
          /\ call' = [op |-> "modify", ok |-> FALSE]
          /\ UNCHANGED <<resting, stamp>>
       \/ /\ call' = [op |-> "modify", ok |-> TRUE]
          /\ \E n \in DOMAIN resting :
               /\ resting[n].id = id
               /\ resting' = Put(Restrict(resting, DOMAIN resting \ {n}), stamp,
                                 [resting[n] EXCEPT !.price = p, !.quantity = q, !.filled = 0])
          /\ stamp' = stamp + 1

Clear ==
    /\ call.op # "match"
    /\ resting' = [n \in {} |-> 0]
    /\ stamp' = 1
    /\ call' = Idle

----------------------------------------------------------------------------------
Acceptable(o, price) ==
    o.type = "LIMIT" => IF o.side = "BUY" THEN price <= o.price ELSE price >= o.price

Opposing(o) == {n \in DOMAIN resting :
                  resting[n].side # o.side /\ Acceptable(o, resting[n].price)}

\* m is served before n.
Before(m, n) ==
    \/ resting[m].price = resting[n].price /\ m < n
    \/ resting[m].side = "SELL" /\ resting[m].price < resting[n].price
    \/ resting[m].side = "BUY" /\ resting[m].price > resting[n].price

\* What o still wants when n's turn comes, if anything.
Wanted(o, n) ==
    o.quantity - MapThenSumSet(LAMBDA m : Remaining(resting[m]),
                               {m \in Opposing(o) : Before(m, n)})

Served(o) == {n \in Opposing(o) : Wanted(o, n) > 0}

Share(o, n) == Min({Wanted(o, n), Remaining(resting[n])})

Total(o) == MapThenSumSet(LAMBDA n : Share(o, n), Served(o))

Trades(o) ==
    LET order == SetToSortSeq(Served(o), Before)
    IN  [i \in DOMAIN order |->
           [buyer_id  |-> IF o.side = "BUY" THEN o.id ELSE resting[order[i]].id,
            seller_id |-> IF o.side = "SELL" THEN o.id ELSE resting[order[i]].id,
            price |-> resting[order[i]].price, quantity |-> Share(o, order[i]),
            buyer_is_aggressor |-> o.side = "BUY"]]

\* The resting orders when o has traded; one that is complete is gone.
AfterTrades(o) ==
    LET traded == [n \in DOMAIN resting |->
                     IF n \in Served(o) THEN [resting[n] EXCEPT !.filled = @ + Share(o, n)]
                                        ELSE resting[n]]
    IN  Restrict(traded, {n \in DOMAIN resting :
                            n \in Served(o) => Remaining(traded[n]) > 0})

Outcome(o, status) ==
    [op |-> "matched", order |-> [o EXCEPT !.filled = Total(o), !.status = status],
     trades |-> Trades(o)]

FillInFull(o) ==
    /\ Total(o) = o.quantity
    /\ resting' = AfterTrades(o)
    /\ call' = Outcome(o, "FILLED")
    /\ UNCHANGED stamp

\* GTC: the remainder rests, with the stamp of now.
RestRemainder(o) ==
    /\ o.type = "LIMIT" /\ o.tif = "GTC" /\ Total(o) < o.quantity
    /\ resting' = Put(AfterTrades(o), stamp, [o EXCEPT !.filled = Total(o)])
    /\ stamp' = stamp + 1
    /\ call' = Outcome(o, IF Total(o) > 0 THEN "PARTIALLY_FILLED" ELSE "ACCEPTED")

\* IOC orders and market orders: the remainder is dropped.
DropRemainder(o) ==
    /\ Total(o) < o.quantity
    /\ \/ o.type = "LIMIT" /\ o.tif = "IOC" /\ call' = Outcome(o, "CANCELLED")
       \/ o.type = "MARKET" /\ call' = Outcome(o, "PARTIALLY_FILLED")
    /\ resting' = AfterTrades(o)
    /\ UNCHANGED stamp

\* FOK: "No trades, order rejected".
Kill(o) ==
    /\ o.type = "LIMIT" /\ o.tif = "FOK" /\ Total(o) < o.quantity
    /\ resting' = IF FokRollsBack THEN resting ELSE AfterTrades(o)
    /\ call' = [op |-> "matched", order |-> [o EXCEPT !.status = "REJECTED"],
                trades |-> << >>]
    /\ UNCHANGED stamp

\* A client asks for an order to be matched; nothing else happens until it is.
Request ==
    /\ call.op # "match" /\ stamp <= MaxNodes
    /\ call' \in [op : {"match"}, order : NewOrders(OrderType, TIFs), trades : {<< >>}]
    /\ Fresh(call'.order.id)
    /\ UNCHANGED <<resting, stamp>>

Serve ==
    /\ call.op = "match"
    /\ \/ FillInFull(call.order)
       \/ RestRemainder(call.order)
       \/ DropRemainder(call.order)
       \/ Kill(call.order)

Next ==
    \/ Request
    \/ Serve
    \/ \E o \in NewOrders({"LIMIT"}, TIFs \cap {"GTC"}) : Submit(o)
    \/ \E id \in OrderIds :
         Cancel(id) \/ \E p \in Prices, q \in ModQuantities : Modify(id, p, q)
    \/ Clear

Spec == Init /\ [][Next]_vars
==================================================================================
