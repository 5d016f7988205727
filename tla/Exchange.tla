--------------------------------- MODULE Exchange ---------------------------------
(***************************************************************************)
(* The program (src/main.cpp): the main thread opens the log, starts the   *)
(* components, saves snapshots until a signal comes and stops everything   *)
(* again; the feed thread feeds the engine; a detached thread starts the   *)
(* HTTP server, whose own thread then listens.  The process may die at any *)
(* time and be started again.                                              *)
(*                                                                         *)
(* The engine and the feed handler are the counters of FeedCounts, the log *)
(* is module WAL.  main never appends to the log, so that it only gets     *)
(* headers, and a snapshot is nothing but a header either.                 *)
(*                                                                         *)
(* cpp-httplib (v0.14.3) is external: stop() does nothing unless the       *)
(* server is listening, and listen() returns when it is stopped, or at     *)
(* once when the port cannot be bound.                                     *)
(***************************************************************************)
EXTENDS Integers, Sequences, FiniteSets

CONSTANTS Capacity,      \* slots of the ring
          MaxMessages,   \* bound: messages one process receives
          MaxStarts,     \* bound: processes
          MaxChunks,     \* bound of module WAL, which main must not reach
          MaxPeriodic    \* bound: no periodic snapshot when the log has this many headers

ASSUME ExchangeAssumption ==
    /\ {MaxMessages, MaxChunks, MaxPeriodic} \subseteq Nat /\ MaxStarts \in Nat \ {0}
    /\ Capacity \in Nat /\ Capacity >= 2
    /\ MaxPeriodic + 2 * MaxStarts + 1 <= MaxChunks

VARIABLES
    main,                  \* where the main thread is, or how the process ended
    g_running,
    feed, feed_running,    \* the feed thread; FeedHandler::running_
    engine_running, queued, processed, msg_count, dropped,
    orders, cancels, trades, \* the counters of Metrics
    publisher_running,
    http, http_running,    \* http_thread of main; HttpServer::running_
    listener, joinable,    \* the server's thread; has HttpServer::thread_ been assigned?
    snapshot,              \* the file: "absent", "torn" (truncated) or "whole"
    exists, file, buffer, phase, failed, entry_count, \* the log, as in WAL
    starts,                \* processes so far
    cut                    \* history: the files whose creation a death has cut short

Counts == INSTANCE FeedCounts
Log == INSTANCE WAL WITH SequenceNums <- {}, MaxCount <- 0,
                         accepted <- << >>, synced <- 0, read <- << >>

countsVars  == <<engine_running, queued, processed, msg_count, dropped>>
metricsVars == <<orders, cancels, trades>>
feedVars    == <<feed, feed_running, countsVars, metricsVars>>
httpVars    == <<http, http_running, listener, joinable>>
logVars     == <<exists, file, buffer, phase, failed, entry_count>>
diskVars    == <<snapshot, logVars>>
otherVars   == <<publisher_running, starts, cut>>

vars == <<main, g_running, feedVars, httpVars, diskVars, otherVars>>

Ended == {"down", "exited", "failed", "terminated", "undefined"}
Up == main \notin Ended

Init ==
    /\ main = "open" /\ g_running = TRUE
    /\ feed = "none" /\ feed_running = FALSE
    /\ Counts!Init
    /\ orders = 0 /\ cancels = 0 /\ trades = 0
    /\ publisher_running = FALSE
    /\ http = "none" /\ http_running = FALSE
    /\ listener = "none" /\ joinable = FALSE
    /\ snapshot = "absent"
    /\ exists = FALSE /\ file = << >> /\ buffer = << >>
    /\ phase = "closed" /\ failed = FALSE /\ entry_count = 0
    /\ starts = 1 /\ cut = {}

GoTo(from, to) == main = from /\ main' = to

----------------------------------------------------------------------------------
(* Starting. *)

OpenLog_ignoresFailure ==
    /\ \/ GoTo("open", "flush") /\ Log!Create
       \/ GoTo("flush", "load") /\ Log!FlushHeader
       \/ GoTo("open", "load") /\ (Log!Open \/ UNCHANGED logVars)
    /\ UNCHANGED <<g_running, feedVars, httpVars, snapshot, otherVars>>

\* wal.open(), which may fail, and then main returns 1.  A new file is
\* created first and gets its header with the flush at the end.
OpenLog ==
    /\ \/ GoTo("open", "flush") /\ Log!Create
       \/ GoTo("flush", "load") /\ Log!FlushHeader
       \/ GoTo("open", "load") /\ Log!Open
       \/ GoTo("open", "failed") /\ UNCHANGED logVars
    /\ UNCHANGED <<g_running, feedVars, httpVars, snapshot, otherVars>>

\* load() only reads the header, and main does not look at its result.
LoadSnapshot ==
    /\ GoTo("load", "start_engine")
    /\ UNCHANGED <<g_running, feedVars, httpVars, diskVars, otherVars>>

StartEngine_forgotten ==
    /\ GoTo("start_engine", "start_feed")
    /\ UNCHANGED <<g_running, feedVars, httpVars, diskVars, otherVars>>

StartEngine ==
    /\ GoTo("start_engine", "start_feed")
    /\ Counts!Start
    /\ UNCHANGED <<g_running, feed, feed_running, metricsVars, httpVars, diskVars, otherVars>>

StartFeed ==
    /\ GoTo("start_feed", "start_publisher")
    /\ feed_running' = TRUE
    /\ feed' = IF feed_running THEN feed ELSE "polling"
    /\ UNCHANGED <<g_running, countsVars, metricsVars, httpVars, diskVars, otherVars>>

StartPublisher ==
    /\ GoTo("start_publisher", "start_http")
    /\ publisher_running' = TRUE
    /\ UNCHANGED <<g_running, feedVars, httpVars, diskVars, starts, cut>>

SpawnHttpThread ==
    /\ GoTo("start_http", "loop")
    /\ http' = "starting"
    /\ UNCHANGED <<g_running, feedVars, http_running, listener, joinable, diskVars, otherVars>>

----------------------------------------------------------------------------------
(* The loop of main, and snapshots. *)

\* The interval has passed after another second of sleep, or a signal came.
Loop ==
    /\ \/ GoTo("loop", "save") /\ g_running /\ Len(file) < MaxPeriodic
       \/ GoTo("loop", "stop_feed") /\ ~g_running
    /\ UNCHANGED <<g_running, feedVars, httpVars, diskVars, otherVars>>

\* Opening the stream truncates the file that is there, unless it is refused.
CreateSnapshot ==
    /\ \/ /\ GoTo("save", "write") \/ GoTo("final_save", "final_write")
          /\ snapshot' = "torn"
       \/ /\ GoTo("save", "sync") \/ GoTo("final_save", "close_log")
          /\ UNCHANGED snapshot
    /\ UNCHANGED <<g_running, feedVars, httpVars, logVars, otherVars>>

WriteSnapshot_leavesEmpty ==
    /\ GoTo("write", "sync") \/ GoTo("final_write", "close_log")
    /\ UNCHANGED <<g_running, feedVars, httpVars, diskVars, otherVars>>

\* The header is written and the stream closed.
WriteSnapshot ==
    /\ GoTo("write", "sync") \/ GoTo("final_write", "close_log")
    /\ snapshot' = "whole"
    /\ UNCHANGED <<g_running, feedVars, httpVars, logVars, otherVars>>

\* sync() on a stream that has failed does nothing.
SyncLog ==
    /\ GoTo("sync", "loop")
    /\ IF failed THEN UNCHANGED logVars ELSE Log!Sync
    /\ UNCHANGED <<g_running, feedVars, httpVars, snapshot, otherVars>>

----------------------------------------------------------------------------------
(* Stopping. *)

StopFeed ==
    /\ GoTo("stop_feed", IF feed_running THEN "join_feed" ELSE "stop_engine")
    /\ feed_running' = FALSE
    /\ UNCHANGED <<g_running, feed, countsVars, metricsVars, httpVars, diskVars, otherVars>>

JoinFeed_detaches ==
    /\ GoTo("join_feed", "stop_engine")
    /\ UNCHANGED <<g_running, feedVars, httpVars, diskVars, otherVars>>

JoinFeed ==
    /\ GoTo("join_feed", "stop_engine")
    /\ feed = "done"
    /\ UNCHANGED <<g_running, feedVars, httpVars, diskVars, otherVars>>

StopEngine ==
    /\ GoTo("stop_engine", "stop_publisher")
    /\ Counts!Stop
    /\ UNCHANGED <<g_running, feed, feed_running, metricsVars, httpVars, diskVars, otherVars>>

StopPublisher ==
    /\ GoTo("stop_publisher", "stop_http")
    /\ publisher_running' = FALSE
    /\ UNCHANGED <<g_running, feedVars, httpVars, diskVars, starts, cut>>

StopHttp_leavesServer ==
    /\ IF http_running
       THEN GoTo("stop_http", "join_http") \/ GoTo("destroy_http", "join_destroyed")
       ELSE GoTo("stop_http", "final_save") \/ GoTo("destroy_http", "destroy_thread")
    /\ http_running' = FALSE
    /\ UNCHANGED <<g_running, feedVars, http, listener, joinable, diskVars, otherVars>>

\* HttpServer::stop(), which main calls and the destructor calls again: a
\* plain flag tells whether there is something to stop.
StopHttp ==
    /\ IF http_running
       THEN GoTo("stop_http", "join_http") \/ GoTo("destroy_http", "join_destroyed")
       ELSE GoTo("stop_http", "final_save") \/ GoTo("destroy_http", "destroy_thread")
    /\ http_running' = FALSE
    /\ listener' = IF http_running /\ listener = "listening" THEN "closing" ELSE listener
    /\ UNCHANGED <<g_running, feedVars, http, joinable, diskVars, otherVars>>

\* The rest of stop(): it joins the server's thread, if thread_ is one by
\* now.  http_thread, which may still be in start(), is then detached.
JoinHttp ==
    /\ GoTo("join_http", "final_save") \/ GoTo("join_destroyed", "destroy_thread")
    /\ joinable => listener = "done"
    /\ joinable' = FALSE
    /\ UNCHANGED <<g_running, feedVars, http, http_running, listener, diskVars, otherVars>>

CloseLog ==
    /\ GoTo("close_log", "destroy_http")
    /\ Log!Close
    /\ UNCHANGED <<g_running, feedVars, httpVars, snapshot, otherVars>>

\* The destructor of a joinable std::thread ends the program.
DestroyThread ==
    /\ GoTo("destroy_thread", IF joinable THEN "terminated" ELSE "return")
    /\ UNCHANGED <<g_running, feedVars, httpVars, diskVars, otherVars>>

\* The publisher, the feed handler (whose destructor finds it stopped) and
\* the engine go after the HTTP server; then main returns.
Return ==
    /\ GoTo("return", "exited")
    /\ UNCHANGED <<g_running, feedVars, httpVars, diskVars, otherVars>>

----------------------------------------------------------------------------------
(* The other threads. *)

\* The loop of the feed thread.  That it reads the flag with a relaxed load
\* makes no difference, as main does nothing between the store and the join.
PollFeed ==
    /\ Up /\ feed = "polling"
    /\ feed' = IF feed_running THEN "handling" ELSE "done"
    /\ feed_running => msg_count < MaxMessages
    /\ UNCHANGED <<main, g_running, feed_running, countsVars, metricsVars, httpVars, diskVars, otherVars>>

\* The callbacks of main: an order that rests untouched is counted, so is a
\* cancelled one, so is every trade, after it was published.
Count ==
    \E status \in {"ACCEPTED", "CANCELLED", "OTHER"}, n \in 0..1 :
        /\ orders' = IF status = "ACCEPTED" THEN orders + 1 ELSE orders
        /\ cancels' = IF status = "CANCELLED" THEN cancels + 1 ELSE cancels
        /\ trades' = trades + n

HandleMessage ==
    /\ Up /\ feed = "handling"
    /\ Counts!HandleMessage
    /\ IF processed' = processed THEN UNCHANGED metricsVars ELSE Count
    /\ feed' = "polling"
    /\ UNCHANGED <<main, g_running, feed_running, httpVars, diskVars, otherVars>>

\* HttpServer exists until its destructor has run.
ServerExists == Up /\ main # "return"

\* HttpServer::start() in http_thread: set the flag, start the thread that
\* listens, and assign it to thread_.
StartHttp ==
    /\ ServerExists
    /\ \/ /\ http = "starting"
          /\ http' = IF http_running THEN "done" ELSE "flagged"
          /\ http_running' = TRUE
          /\ UNCHANGED <<listener, joinable>>
       \/ /\ http = "flagged" /\ http' = "spawned"
          /\ listener' = "starting"
          /\ UNCHANGED <<http_running, joinable>>
       \/ /\ http = "spawned" /\ http' = "done"
          /\ joinable' = TRUE
          /\ UNCHANGED <<http_running, listener>>
    /\ UNCHANGED <<main, g_running, feedVars, diskVars, otherVars>>

\* Server::listen.
Listen ==
    /\ ServerExists
    /\ \/ listener = "starting" /\ listener' \in {"listening", "done"}
       \/ listener = "closing" /\ listener' = "done"
    /\ UNCHANGED <<main, g_running, feedVars, http, http_running, joinable, diskVars, otherVars>>

\* A thread goes on with a server that is destroyed.
UseDestroyedServer ==
    /\ main = "return"
    /\ http \in {"starting", "flagged", "spawned"} \/ listener \in {"starting", "listening", "closing"}
    /\ main' = "undefined"
    /\ UNCHANGED <<g_running, feedVars, httpVars, diskVars, otherVars>>

----------------------------------------------------------------------------------
(* The outside: signals, the death of the process and its next start. *)

Signal ==
    /\ Up /\ g_running
    /\ g_running' = FALSE
    /\ UNCHANGED <<main, feedVars, httpVars, diskVars, otherVars>>

Die ==
    /\ Up
    /\ main' = "down"
    /\ IF phase = "closed" THEN UNCHANGED logVars ELSE Log!Crash
    /\ cut' = cut \cup (IF phase = "creating" THEN {"log"} ELSE {})
                  \cup (IF main \in {"write", "final_write"} THEN {"snapshot"} ELSE {})
    /\ UNCHANGED <<g_running, feedVars, httpVars, snapshot, publisher_running, starts>>

Restart ==
    /\ main \in Ended /\ starts < MaxStarts
    /\ main' = "open" /\ g_running' = TRUE
    /\ feed' = "none" /\ feed_running' = FALSE
    /\ engine_running' = FALSE
    /\ queued' = 0 /\ processed' = 0 /\ msg_count' = 0 /\ dropped' = 0
    /\ orders' = 0 /\ cancels' = 0 /\ trades' = 0
    /\ publisher_running' = FALSE
    /\ http' = "none" /\ http_running' = FALSE
    /\ listener' = "none" /\ joinable' = FALSE
    /\ starts' = starts + 1
    /\ UNCHANGED <<diskVars, cut>>

MainStep ==
    \/ OpenLog \/ LoadSnapshot
    \/ StartEngine \/ StartFeed \/ StartPublisher \/ SpawnHttpThread
    \/ Loop \/ CreateSnapshot \/ WriteSnapshot \/ SyncLog
    \/ StopFeed \/ JoinFeed \/ StopEngine \/ StopPublisher \/ StopHttp \/ JoinHttp
    \/ CloseLog \/ DestroyThread \/ Return

FeedStep == PollFeed \/ HandleMessage

Next ==
    \/ MainStep \/ FeedStep \/ StartHttp \/ Listen \/ UseDestroyedServer
    \/ Signal \/ Die \/ Restart

Spec == Init /\ [][Next]_vars

\* Every thread that can go on does; the operating system schedules them all.
FairSpec ==
    Spec /\ WF_vars(MainStep) /\ WF_vars(FeedStep) /\ WF_vars(StartHttp) /\ WF_vars(Listen)

----------------------------------------------------------------------------------
MainSteps ==
    {"open", "flush", "load", "start_engine", "start_feed", "start_publisher", "start_http",
     "loop", "save", "write", "sync", "stop_feed", "join_feed", "stop_engine",
     "stop_publisher", "stop_http", "join_http", "final_save", "final_write", "close_log",
     "destroy_http", "join_destroyed", "destroy_thread", "return"}

LogClosed ==
    {"open", "flush", "destroy_http", "join_destroyed", "destroy_thread", "return"}

\* Every variable has its type, and the log is open for as long as main uses it.
TypeOK ==
    /\ main \in MainSteps \cup Ended /\ g_running \in BOOLEAN
    /\ feed \in {"none", "polling", "handling", "done"} /\ feed_running \in BOOLEAN
    /\ engine_running \in BOOLEAN /\ {queued, processed, msg_count, dropped} \subseteq Nat
    /\ {orders, cancels, trades} \subseteq Nat /\ publisher_running \in BOOLEAN
    /\ http \in {"none", "starting", "flagged", "spawned", "done"}
    /\ http_running \in BOOLEAN /\ joinable \in BOOLEAN
    /\ listener \in {"none", "starting", "listening", "closing", "done"}
    /\ snapshot \in {"absent", "torn", "whole"}
    /\ Log!TypeOK
    /\ phase = "creating" <=> main = "flush"
    /\ phase = "open" <=> main \in MainSteps \ LogClosed
    /\ starts \in 1..MaxStarts /\ cut \subseteq {"log", "snapshot"}

\* No message is left in the queue, from the first to the last: the engine
\* runs before the feed starts and stops after it has ended, so that every
\* message is processed by the call that submits it, or dropped.
EveryMessageSettled ==
    /\ queued = 0
    /\ msg_count = dropped + processed
    /\ orders + cancels <= processed

Stopped ==
    {"stop_engine", "stop_publisher", "stop_http", "join_http", "final_save", "final_write",
     "close_log", "destroy_http", "join_destroyed", "destroy_thread", "return", "exited"}

\* Once main has gone past feed.stop(), nothing reaches the engine, the
\* metrics or the publisher any more, so that main may stop, save and destroy
\* them: no thread uses an engine that is gone.
QuietOnceStopped ==
    [][(main \in Stopped) => Restart \/ UNCHANGED <<processed, msg_count, metricsVars>>]_vars

\* Only the death of the process in the middle of a save leaves a snapshot
\* without a header behind; it stays until a later save succeeds.
TornOnlyByDeath ==
    snapshot = "torn" => main \in {"write", "final_write"} \/ "snapshot" \in cut

\* A log whose stream refuses everything is one that was empty when main
\* opened it, and that takes a death between its creation and its first flush.
DeadLogOnlyByDeath == failed => "log" \in cut

\* A program that is told to stop when its HTTP server listens already, or
\* could not listen, comes to its regular end unless it dies: the feed
\* thread, the server's thread and main never wait for each other for ever.
StopsOnceListening ==
    (main = "loop" /\ ~g_running /\ http = "done" /\ listener \in {"listening", "done"})
        ~> main \in {"exited", "down"}

\* "HFT Exchange running. Press Ctrl+C to stop." (src/main.cpp:77): a signal
\* brings the program to a regular end.
StopsOnSignal == (Up /\ ~g_running) ~> main \in {"exited", "failed", "down"}
==================================================================================
