-------------------------------- MODULE FeedCounts --------------------------------
(***************************************************************************)
(* What the rest of the program relies on of the feed handler and the      *)
(* engine behind it: how many messages came, how many were dropped, how    *)
(* many wait and how many are processed.  ImplementsCounts in module Feed  *)
(* says that the feed, with its parser, books and callbacks, does this.    *)
(***************************************************************************)
EXTENDS Naturals

CONSTANT Capacity   \* slots of the ring, of which one stays free

VARIABLES engine_running, queued, processed, msg_count, dropped

countsVars == <<engine_running, queued, processed, msg_count, dropped>>

Init ==
    /\ engine_running = FALSE
    /\ queued = 0 /\ processed = 0
    /\ msg_count = 0 /\ dropped = 0

Start == engine_running' = TRUE /\ UNCHANGED <<queued, processed, msg_count, dropped>>
Stop  == engine_running' = FALSE /\ UNCHANGED <<queued, processed, msg_count, dropped>>

\* The parser or a full queue refuses the message.
Drop ==
    /\ dropped' = dropped + 1
    /\ UNCHANGED <<queued, processed>>

\* A running engine processes one event for each it accepts.
Accept ==
    /\ queued < Capacity - 1
    /\ IF engine_running
       THEN processed' = processed + 1 /\ UNCHANGED queued
       ELSE queued' = queued + 1 /\ UNCHANGED processed
    /\ UNCHANGED dropped

HandleMessage ==
    /\ msg_count' = msg_count + 1
    /\ Drop \/ Accept
    /\ UNCHANGED engine_running

Next == Start \/ Stop \/ HandleMessage

Spec == Init /\ [][Next]_countsVars
==================================================================================
