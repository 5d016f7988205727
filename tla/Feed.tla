---------------------------------- MODULE Feed ----------------------------------
(***************************************************************************)
(* FeedHandler (src/feed/feed_handler.cpp) in front of the engine: every   *)
(* message is counted, parsed and submitted by the feed thread, and        *)
(* counted as dropped if the parser or the queue refuses it.  Somebody     *)
(* else may start and stop the engine meanwhile.                           *)
(***************************************************************************)
EXTENDS Parser

CONSTANTS FeedMessages,  \* the messages that may arrive
          MaxDropped     \* bound: messages dropped

ASSUME MaxDroppedAssumption == MaxDropped \in Nat

VARIABLES msg_count, dropped

feedVars == <<vars, msg_count, dropped>>

FeedInit == Init /\ msg_count = 0 /\ dropped = 0

Dropped ==
    /\ dropped < MaxDropped
    /\ dropped' = dropped + 1
    /\ UNCHANGED vars

HandleMessage_ignoresResult(m) ==
    /\ msg_count' = msg_count + 1
    /\ \/ parse_json(m) = {} /\ Dropped
       \/ \E e \in parse_json(m) :
            /\ SubmitEvent(e) \/ (~HasSlot /\ UNCHANGED vars)
            /\ UNCHANGED dropped

HandleMessage(m) ==
    /\ msg_count' = msg_count + 1
    /\ \/ parse_json(m) = {} /\ Dropped
       \/ \E e \in parse_json(m) :
            \/ SubmitEvent(e) /\ UNCHANGED dropped
            \/ ~HasSlot /\ Dropped

StartOrStop == (Start \/ Stop) /\ UNCHANGED <<msg_count, dropped>>

FeedNext == StartOrStop \/ \E m \in FeedMessages : HandleMessage(m)

FeedSpec == FeedInit /\ [][FeedNext]_feedVars

----------------------------------------------------------------------------------
Counted == INSTANCE FeedCounts WITH engine_running <- running, queued <- Len(event_queue)

\* Behind the counters there is nothing that could lose a message without a
\* trace, make it count twice, leave an event unprocessed while the engine
\* runs, or ever take one out of a full ring, where submit_event fails at the
\* push, before the pop: what module Exchange relies on.
ImplementsCounts == Counted!Spec

NoWorse(m, trade) ==
    IF trade.buyer_is_aggressor
    THEN 2 * trade.price <= m.price + 2
    ELSE 2 * trade.price >= m.price - 2

\* Whatever the conversion of decimal prices does to a limit, an order trades
\* at no price that is worse by more than a tick than its message says.
LimitWithinATick ==
    [][\A m \in FeedMessages :
         /\ last' # last /\ last'.trades # << >> /\ event_queue = << >>
         /\ m # Malformed /\ "price" \in DOMAIN m
         /\ Field(m, "order_type", "limit") \in {"limit", "LIMIT"}
         /\ HandleMessage(m)
         => \A i \in DOMAIN last'.trades : NoWorse(m, last'.trades[i])]_feedVars
==================================================================================
