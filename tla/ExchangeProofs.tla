------------------------------ MODULE ExchangeProofs ------------------------------
(***************************************************************************)
(* Proofs about Exchange, for any capacity of the ring and any number of   *)
(* messages, processes and snapshots.                                      *)
(***************************************************************************)
EXTENDS Exchange, TLAPS, SequenceTheorems

(* The feed and the counters *********************************************)

Starting == {"open", "flush", "load", "start_engine", "start_feed"}
Feeding == {"start_publisher", "start_http", "loop", "save", "write", "sync", "stop_feed"}

Counters ==
    /\ {msg_count, dropped, processed, orders, cancels, trades} \subseteq Nat
    /\ queued = 0
    /\ msg_count = dropped + processed
    /\ orders + cancels <= processed

\* The feed thread only runs while the engine does: between its start, which
\* comes after the engine's, and its join, which comes before.
FeedWithEngine ==
    /\ feed \in {"none", "polling", "handling", "done"}
    /\ Up /\ feed \in {"polling", "handling"} =>
         engine_running /\ main \in Feeding \cup {"join_feed"}
    /\ main \in Feeding => feed_running
    /\ main \in Starting => feed = "none" /\ ~feed_running
    /\ main = "start_feed" => engine_running

FeedInv == Counters /\ FeedWithEngine

LEMMA FeedInit == Init => FeedInv
BY DEF Init, Counts!Init, FeedInv, Counters, FeedWithEngine, Starting, Feeding, Up, Ended

\* A message that is handled goes into one counter of the feed.
LEMMA HandleMessageCounts == ASSUME FeedInv, HandleMessage PROVE FeedInv'
<1>1. /\ msg_count \in Nat /\ dropped \in Nat /\ processed \in Nat
      /\ orders \in Nat /\ cancels \in Nat /\ trades \in Nat
      /\ queued = 0 /\ msg_count = dropped + processed /\ orders + cancels <= processed
  BY DEF FeedInv, Counters
<1>2. engine_running /\ msg_count' = msg_count + 1 /\ engine_running' = engine_running
  BY DEF HandleMessage, Counts!HandleMessage, FeedInv, FeedWithEngine
<1>3. Counters'
  <2>1. CASE Counts!Drop
    <3>1. /\ dropped' = dropped + 1 /\ queued' = queued /\ processed' = processed
          /\ UNCHANGED <<orders, cancels, trades>>
      BY <2>1 DEF Counts!Drop, HandleMessage, metricsVars
    <3> QED BY <1>1, <1>2, <3>1 DEF Counters
  <2>2. CASE Counts!Accept
    <3>1. dropped' = dropped /\ queued' = queued /\ processed' = processed + 1
      BY <1>2, <2>2 DEF Counts!Accept
    <3>2. Count BY <1>1, <3>1 DEF HandleMessage
    <3>3. /\ orders' \in Nat /\ cancels' \in Nat /\ trades' \in Nat
          /\ orders' + cancels' <= orders + cancels + 1
      BY <1>1, <3>2 DEF Count
    <3>4. orders' + cancels' <= processed'
      <4>1. \A a, b, c, d, k \in Nat : c + d <= a + b + 1 /\ a + b <= k => c + d <= k + 1
        OBVIOUS
      <4>2. orders' + cancels' <= processed + 1 BY ONLY <1>1, <3>3, <4>1
      <4> QED BY <3>1, <4>2
    <3>5. msg_count' = dropped' + processed' BY <1>1, <1>2, <3>1
    <3>6. msg_count' \in Nat /\ dropped' \in Nat /\ processed' \in Nat /\ queued' = 0
      BY <1>1, <1>2, <3>1
    <3> QED BY <3>3, <3>4, <3>5, <3>6 DEF Counters
  <2> QED BY <2>1, <2>2 DEF HandleMessage, Counts!HandleMessage
<1>4. FeedWithEngine'
  BY <1>2 DEF HandleMessage, FeedInv, FeedWithEngine, Up
<1> QED BY <1>3, <1>4 DEF FeedInv

LEMMA FeedStepInvariant == FeedInv /\ [Next]_vars => FeedInv'
<1> SUFFICES ASSUME FeedInv, [Next]_vars PROVE FeedInv' OBVIOUS
<1> USE DEF FeedInv, Counters, FeedWithEngine, Starting, Feeding, Up, Ended, GoTo
<1> USE DEF feedVars, countsVars, metricsVars
<1>1. CASE OpenLog BY <1>1 DEF OpenLog
<1>2. CASE LoadSnapshot BY <1>2 DEF LoadSnapshot
<1>3. CASE StartEngine BY <1>3 DEF StartEngine, Counts!Start
<1>4. CASE StartFeed BY <1>4 DEF StartFeed
<1>5. CASE StartPublisher BY <1>5 DEF StartPublisher
<1>6. CASE SpawnHttpThread BY <1>6 DEF SpawnHttpThread
<1>7. CASE Loop BY <1>7 DEF Loop
<1>8. CASE CreateSnapshot BY <1>8 DEF CreateSnapshot
<1>9. CASE WriteSnapshot BY <1>9 DEF WriteSnapshot
<1>10. CASE SyncLog BY <1>10 DEF SyncLog
<1>11. CASE StopFeed BY <1>11 DEF StopFeed
<1>12. CASE JoinFeed BY <1>12 DEF JoinFeed
<1>13. CASE StopEngine BY <1>13 DEF StopEngine, Counts!Stop
<1>14. CASE StopPublisher BY <1>14 DEF StopPublisher
<1>15. CASE StopHttp BY <1>15 DEF StopHttp
<1>16. CASE JoinHttp BY <1>16 DEF JoinHttp
<1>17. CASE CloseLog BY <1>17 DEF CloseLog
<1>18. CASE DestroyThread BY <1>18 DEF DestroyThread
<1>19. CASE Return BY <1>19 DEF Return
<1>20. CASE PollFeed BY <1>20 DEF PollFeed
<1>21. CASE HandleMessage BY <1>21, HandleMessageCounts
<1>22. CASE StartHttp BY <1>22 DEF StartHttp
<1>23. CASE Listen BY <1>23 DEF Listen
<1>24. CASE UseDestroyedServer BY <1>24 DEF UseDestroyedServer
<1>25. CASE Signal BY <1>25 DEF Signal
<1>26. CASE Die BY <1>26 DEF Die
<1>27. CASE Restart BY <1>27 DEF Restart
<1>28. CASE UNCHANGED vars BY <1>28 DEF vars
<1> QED
  BY <1>1, <1>2, <1>3, <1>4, <1>5, <1>6, <1>7, <1>8, <1>9, <1>10, <1>11, <1>12, <1>13, <1>14,
     <1>15, <1>16, <1>17, <1>18, <1>19, <1>20, <1>21, <1>22, <1>23, <1>24, <1>25, <1>26,
     <1>27, <1>28
  DEF Next, MainStep, FeedStep

LEMMA FeedInvariance == Spec => []FeedInv
BY FeedInit, FeedStepInvariant, PTL DEF Spec

(* The files *************************************************************)

LogHeader == Log!Header(0)

\* main appends nothing, so that the log is a sequence of equal headers; it is
\* empty only while it is created, or after a death at that time.
LogSound ==
    /\ exists \in BOOLEAN /\ failed \in BOOLEAN
    /\ file \in Seq({LogHeader}) /\ buffer \in Seq({LogHeader})
    /\ entry_count = 0
    /\ ~exists => file = << >>
    /\ phase # "closed" => exists
    /\ phase = "creating" => file = << >> /\ buffer = <<LogHeader>> /\ ~failed
    /\ phase # "creating" => buffer = << >>
    /\ phase = "closed" => ~failed
    /\ exists /\ file = << >> => phase = "creating" \/ "log" \in cut
    /\ failed => "log" \in cut

\* The phase of the log follows main; a snapshot is torn while it is written.
FilesFollowMain ==
    /\ main \in MainSteps \cup Ended
    /\ phase \in {"closed", "creating", "open"}
    /\ phase = "creating" <=> main = "flush"
    /\ phase = "open" <=> main \in MainSteps \ LogClosed
    /\ snapshot \in {"absent", "torn", "whole"}
    /\ snapshot = "torn" => main \in {"write", "final_write"} \/ "snapshot" \in cut
    /\ cut \subseteq {"log", "snapshot"}

FilesInv == LogSound /\ FilesFollowMain

LEMMA FilesInit == Init => FilesInv
<1> SUFFICES ASSUME Init PROVE FilesInv OBVIOUS
<1>1. LogSound
  <2>1. << >> \in Seq({LogHeader}) OBVIOUS
  <2>2. /\ exists = FALSE /\ failed = FALSE /\ file = << >> /\ buffer = << >>
        /\ entry_count = 0 /\ phase = "closed"
    BY DEF Init
  <2> QED BY <2>1, <2>2 DEF LogSound
<1>2. FilesFollowMain BY DEF Init, FilesFollowMain, MainSteps, LogClosed, Ended
<1> QED BY <1>1, <1>2 DEF FilesInv

\* What is written to the log keeps it a sequence of headers, and not an empty one.
LEMMA HeadersAppended ==
  ASSUME NEW f \in Seq({LogHeader}), NEW b \in Seq({LogHeader})
  PROVE  /\ f \o b \o <<LogHeader>> \in Seq({LogHeader})
         /\ f \o b \o <<LogHeader>> # << >>
<1>1. f \o b \in Seq({LogHeader}) /\ Len(f \o b) \in Nat BY ConcatProperties, LenProperties
<1>2. <<LogHeader>> \in Seq({LogHeader}) /\ Len(<<LogHeader>>) = 1 OBVIOUS
<1> DEFINE g == f \o b
<1> HIDE DEF g
<1>3. g \in Seq({LogHeader}) /\ Len(g) \in Nat BY <1>1 DEF g
<1>4. /\ g \o <<LogHeader>> \in Seq({LogHeader})
      /\ Len(g \o <<LogHeader>>) = Len(g) + 1
  BY <1>2, <1>3, ConcatProperties
<1>5. g \o <<LogHeader>> # << >>
  <2>1. Len(<< >>) = 0 OBVIOUS
  <2> QED BY <1>3, <1>4, <2>1
<1> QED BY <1>4, <1>5 DEF g

LEMMA OpenLogKeepsFiles == ASSUME FilesInv, OpenLog PROVE FilesInv'
<1> USE DEF FilesInv, FilesFollowMain, GoTo, MainSteps, LogClosed, Ended, otherVars
<1>1. CASE GoTo("open", "flush") /\ Log!Create
  <2>1. file = << >> /\ ~failed BY <1>1 DEF LogSound, Log!Create
  <2>2. <<LogHeader>> \in Seq({LogHeader}) OBVIOUS
  <2>3. buffer' = <<LogHeader>> BY <1>1 DEF Log!Create, LogHeader
  <2>4. LogSound' BY <1>1, <2>1, <2>2, <2>3 DEF LogSound, Log!Create, OpenLog
  <2> QED BY <1>1, <2>4 DEF Log!Create, OpenLog
<1>2. CASE GoTo("flush", "load") /\ Log!FlushHeader
  <2>1. file = << >> /\ buffer = <<LogHeader>> BY <1>2 DEF LogSound, Log!FlushHeader
  <2>2. file' = <<LogHeader>> /\ file' # << >> /\ file' \in Seq({LogHeader})
    BY <1>2, <2>1 DEF Log!FlushHeader
  <2>3. LogSound' BY <1>2, <2>2 DEF LogSound, Log!FlushHeader, OpenLog
  <2> QED BY <1>2, <2>3 DEF Log!FlushHeader, OpenLog
<1>3. CASE GoTo("open", "load") /\ Log!Open
  <2>1. CASE file = << >> BY <1>3, <2>1 DEF LogSound, Log!Open, OpenLog
  <2>2. CASE file # << >>
    <3>1. Head(file) = LogHeader
      <4>1. Head(file) \in {LogHeader} BY <2>2, HeadTailProperties DEF LogSound
      <4> QED BY <4>1
    <3>2. entry_count' = 0 BY <1>3, <2>2, <3>1 DEF Log!Open, LogHeader, Log!Header
    <3> QED BY <1>3, <2>2, <3>2 DEF LogSound, Log!Open, OpenLog
  <2> QED BY <2>1, <2>2
<1>4. CASE GoTo("open", "failed") /\ UNCHANGED logVars
  BY <1>4 DEF OpenLog, logVars, LogSound
<1> QED BY <1>1, <1>2, <1>3, <1>4 DEF OpenLog

LEMMA SyncLogKeepsFiles == ASSUME FilesInv, SyncLog PROVE FilesInv'
<1> USE DEF FilesInv, FilesFollowMain, GoTo, MainSteps, LogClosed, Ended, otherVars
<1>1. CASE failed BY <1>1 DEF SyncLog, logVars, LogSound
<1>2. CASE ~failed
  <2>1. file' = file \o buffer \o <<LogHeader>> BY <1>2 DEF SyncLog, Log!Sync, LogSound, LogHeader
  <2>2. file' \in Seq({LogHeader}) /\ file' # << >> BY <2>1, HeadersAppended DEF LogSound
  <2>3. << >> \in Seq({LogHeader}) OBVIOUS
  <2>4. /\ exists' = exists /\ exists /\ failed' = FALSE /\ buffer' = << >> /\ entry_count' = 0
        /\ phase' = "open"
    BY <1>2 DEF SyncLog, Log!Sync, LogSound
  <2>5. LogSound' BY <2>2, <2>3, <2>4 DEF LogSound
  <2>6. FilesFollowMain' BY <1>2 DEF SyncLog, Log!Sync
  <2> QED BY <2>5, <2>6
<1> QED BY <1>1, <1>2

LEMMA CloseLogKeepsFiles == ASSUME FilesInv, CloseLog PROVE FilesInv'
<1> USE DEF FilesInv, FilesFollowMain, GoTo, MainSteps, LogClosed, Ended, otherVars
<1>1. CASE failed BY <1>1 DEF CloseLog, Log!Close, LogSound
<1>2. CASE ~failed
  <2>1. file' = file \o buffer \o <<LogHeader>> BY <1>2 DEF CloseLog, Log!Close, LogSound, LogHeader
  <2>2. file' \in Seq({LogHeader}) /\ file' # << >> BY <2>1, HeadersAppended DEF LogSound
  <2>3. << >> \in Seq({LogHeader}) OBVIOUS
  <2>4. /\ exists' = exists /\ exists /\ failed' = FALSE /\ buffer' = << >> /\ entry_count' = 0
        /\ phase' = "closed"
    BY <1>2 DEF CloseLog, Log!Close, LogSound
  <2>5. LogSound' BY <2>2, <2>3, <2>4 DEF LogSound
  <2>6. FilesFollowMain' BY <1>2 DEF CloseLog, Log!Close
  <2> QED BY <2>5, <2>6
<1> QED BY <1>1, <1>2

\* A death remembers what it has cut short.
LEMMA DieKeepsFiles == ASSUME FilesInv, Die PROVE FilesInv'
<1> USE DEF FilesInv, FilesFollowMain, MainSteps, LogClosed, Ended, Up
<1>1. /\ main' = "down" /\ phase' = "closed" /\ buffer' = << >> /\ failed' = FALSE
      /\ UNCHANGED <<exists, file, entry_count, snapshot>>
  <2>1. CASE phase = "closed" BY <2>1 DEF Die, logVars, LogSound
  <2>2. CASE phase # "closed" BY <2>2 DEF Die, Log!Crash
  <2> QED BY <2>1, <2>2
<1>2. /\ cut \subseteq cut' /\ cut' \subseteq {"log", "snapshot"}
      /\ phase = "creating" => "log" \in cut'
      /\ main \in {"write", "final_write"} => "snapshot" \in cut'
  BY DEF Die
<1>3. LogSound'
  <2>1. << >> \in Seq({LogHeader}) OBVIOUS
  <2>2. /\ exists' \in BOOLEAN /\ file' \in Seq({LogHeader}) /\ entry_count' = 0
        /\ ~exists' => file' = << >>
        /\ exists' /\ file' = << >> => "log" \in cut'
    BY <1>1, <1>2 DEF LogSound
  <2> QED BY <1>1, <2>1, <2>2 DEF LogSound
<1>4. FilesFollowMain' BY <1>1, <1>2
<1> QED BY <1>3, <1>4

LEMMA FilesStepInvariant == FilesInv /\ [Next]_vars => FilesInv'
<1> SUFFICES ASSUME FilesInv, [Next]_vars PROVE FilesInv' OBVIOUS
<1>1. CASE OpenLog BY <1>1, OpenLogKeepsFiles
<1>2. CASE SyncLog BY <1>2, SyncLogKeepsFiles
<1>3. CASE CloseLog BY <1>3, CloseLogKeepsFiles
<1>4. CASE Die BY <1>4, DieKeepsFiles
<1> USE DEF FilesInv, LogSound, FilesFollowMain, MainSteps, LogClosed, Ended, Up, GoTo
<1> USE DEF diskVars, logVars, otherVars
<1>5. CASE LoadSnapshot BY <1>5 DEF LoadSnapshot
<1>6. CASE StartEngine BY <1>6 DEF StartEngine
<1>7. CASE StartFeed BY <1>7 DEF StartFeed
<1>8. CASE StartPublisher BY <1>8 DEF StartPublisher
<1>9. CASE SpawnHttpThread BY <1>9 DEF SpawnHttpThread
<1>10. CASE Loop BY <1>10 DEF Loop
<1>11. CASE CreateSnapshot BY <1>11 DEF CreateSnapshot
<1>12. CASE WriteSnapshot BY <1>12 DEF WriteSnapshot
<1>13. CASE StopFeed BY <1>13 DEF StopFeed
<1>14. CASE JoinFeed BY <1>14 DEF JoinFeed
<1>15. CASE StopEngine BY <1>15 DEF StopEngine
<1>16. CASE StopPublisher BY <1>16 DEF StopPublisher
<1>17. CASE StopHttp BY <1>17 DEF StopHttp
<1>18. CASE JoinHttp BY <1>18 DEF JoinHttp
<1>19. CASE DestroyThread BY <1>19 DEF DestroyThread
<1>20. CASE Return BY <1>20 DEF Return
<1>21. CASE PollFeed BY <1>21 DEF PollFeed
<1>22. CASE HandleMessage BY <1>22 DEF HandleMessage
<1>23. CASE StartHttp BY <1>23 DEF StartHttp
<1>24. CASE Listen BY <1>24 DEF Listen
<1>25. CASE UseDestroyedServer BY <1>25 DEF UseDestroyedServer
<1>26. CASE Signal BY <1>26 DEF Signal
<1>27. CASE Restart BY <1>27 DEF Restart
<1>28. CASE UNCHANGED vars BY <1>28 DEF vars
<1> QED
  BY <1>1, <1>2, <1>3, <1>4, <1>5, <1>6, <1>7, <1>8, <1>9, <1>10, <1>11, <1>12, <1>13, <1>14,
     <1>15, <1>16, <1>17, <1>18, <1>19, <1>20, <1>21, <1>22, <1>23, <1>24, <1>25, <1>26,
     <1>27, <1>28
  DEF Next, MainStep, FeedStep

LEMMA FilesInvariance == Spec => []FilesInv
BY FilesInit, FilesStepInvariant, PTL DEF Spec

(* The theorems **********************************************************)

\* Whatever the interleaving of main, the feed thread and the signal: no
\* message stays behind in the queue, each is dropped or processed.
THEOREM MessagesSettled == Spec => []EveryMessageSettled
<1>1. FeedInv => EveryMessageSettled BY DEF FeedInv, Counters, EveryMessageSettled
<1> QED BY <1>1, FeedInvariance, PTL

\* Behind feed.stop() nothing reaches the engine or the metrics.
THEOREM NothingAfterStop == Spec => QuietOnceStopped
<1>1. FeedInv /\ [Next]_vars =>
        [(main \in Stopped) => Restart \/ UNCHANGED <<processed, msg_count, metricsVars>>]_vars
  <2> SUFFICES ASSUME FeedInv, Next, main \in Stopped
               PROVE  Restart \/ UNCHANGED <<processed, msg_count, metricsVars>>
    OBVIOUS
  <2> USE DEF countsVars, metricsVars, feedVars, GoTo, Stopped
  <2>1. CASE FeedStep
    BY <2>1 DEF FeedStep, PollFeed, HandleMessage, FeedInv, FeedWithEngine, Feeding
  <2>2. CASE MainStep
    <3>1. CASE StopEngine BY <3>1 DEF StopEngine, Counts!Stop
    <3>2. CASE ~StopEngine
      BY <2>2, <3>2
      DEF MainStep, OpenLog, LoadSnapshot, StartEngine, StartFeed, StartPublisher,
          SpawnHttpThread, Loop, CreateSnapshot, WriteSnapshot, SyncLog, StopFeed, JoinFeed,
          StopPublisher, StopHttp, JoinHttp, CloseLog, DestroyThread, Return
    <3> QED BY <3>1, <3>2
  <2>3. CASE StartHttp \/ Listen \/ UseDestroyedServer
    BY <2>3 DEF StartHttp, Listen, UseDestroyedServer
  <2>4. CASE Signal \/ Die BY <2>4 DEF Signal, Die
  <2> QED BY <2>1, <2>2, <2>3, <2>4 DEF Next
<1> QED BY <1>1, FeedInvariance, PTL DEF Spec, QuietOnceStopped

\* A snapshot without a header is one whose writing a death has cut short.
THEOREM SnapshotTornByDeath == Spec => []TornOnlyByDeath
<1>1. FilesInv => TornOnlyByDeath BY DEF FilesInv, FilesFollowMain, TornOnlyByDeath
<1> QED BY <1>1, FilesInvariance, PTL

\* A log that refuses everything is one whose creation a death has cut short.
THEOREM LogDeadByDeath == Spec => []DeadLogOnlyByDeath
<1>1. FilesInv => DeadLogOnlyByDeath BY DEF FilesInv, LogSound, DeadLogOnlyByDeath
<1> QED BY <1>1, FilesInvariance, PTL

\* The flags and the threads that neither the feed nor the files are about.
ThreadsTyped ==
    /\ {g_running, feed_running, engine_running, publisher_running, http_running, joinable}
         \subseteq BOOLEAN
    /\ http \in {"none", "starting", "flagged", "spawned", "done"}
    /\ listener \in {"none", "starting", "listening", "closing", "done"}
    /\ starts \in 1..MaxStarts

LEMMA ThreadsInit == Init => ThreadsTyped
<1> SUFFICES ASSUME Init PROVE ThreadsTyped OBVIOUS
<1>1. starts \in 1..MaxStarts BY ExchangeAssumption DEF Init
<1>2. {g_running, feed_running, engine_running, publisher_running, http_running, joinable}
        \subseteq BOOLEAN
  BY Zenon DEF Init, Counts!Init
<1> QED BY <1>1, <1>2 DEF Init, ThreadsTyped

LEMMA ThreadsStepInvariant == ThreadsTyped /\ [Next]_vars => ThreadsTyped'
<1> SUFFICES ASSUME ThreadsTyped, [Next]_vars PROVE ThreadsTyped' OBVIOUS
<1> USE DEF ThreadsTyped, feedVars, countsVars, httpVars, otherVars
<1>1. CASE OpenLog \/ LoadSnapshot \/ StartPublisher \/ SpawnHttpThread
  BY <1>1 DEF OpenLog, LoadSnapshot, StartPublisher, SpawnHttpThread
<1>2. CASE StartEngine \/ StopEngine
  BY <1>2 DEF StartEngine, StopEngine, Counts!Start, Counts!Stop
<1>3. CASE StartFeed \/ StopFeed BY <1>3 DEF StartFeed, StopFeed
<1>4. CASE Loop \/ CreateSnapshot \/ WriteSnapshot \/ SyncLog
  BY <1>4 DEF Loop, CreateSnapshot, WriteSnapshot, SyncLog
<1>5. CASE JoinFeed \/ StopPublisher BY <1>5 DEF JoinFeed, StopPublisher
<1>6. CASE StopHttp \/ JoinHttp BY <1>6 DEF StopHttp, JoinHttp
<1>7. CASE CloseLog \/ DestroyThread \/ Return BY <1>7 DEF CloseLog, DestroyThread, Return
<1>8. CASE PollFeed BY <1>8 DEF PollFeed
<1>9. CASE HandleMessage BY <1>9 DEF HandleMessage, Counts!HandleMessage
<1>10. CASE StartHttp BY <1>10 DEF StartHttp
<1>11. CASE Listen BY <1>11 DEF Listen
<1>12. CASE UseDestroyedServer \/ Signal BY <1>12 DEF UseDestroyedServer, Signal
<1>13. CASE Die BY <1>13 DEF Die
<1>14. CASE Restart
  <2>1. starts' \in 1..MaxStarts BY <1>14, ExchangeAssumption DEF Restart
  <2> QED BY <1>14, <2>1 DEF Restart
<1>15. CASE UNCHANGED vars BY <1>15 DEF vars
<1> QED
  BY <1>1, <1>2, <1>3, <1>4, <1>5, <1>6, <1>7, <1>8, <1>9, <1>10, <1>11, <1>12, <1>13, <1>14,
     <1>15
  DEF Next, MainStep, FeedStep

\* The log of main is one of module WAL, which starts with a header.
LEMMA LogIsTyped == FilesInv => Log!TypeOK
<1> SUFFICES ASSUME FilesInv PROVE Log!TypeOK OBVIOUS
<1>1. LogHeader \in Log!Chunks /\ LogHeader.kind = "header"
  BY DEF LogHeader, Log!Chunks, Log!Header
<1>2. Seq({LogHeader}) \subseteq Seq(Log!Chunks) BY <1>1
<1>3. << >> \in Seq(Log!Chunks) /\ << >> \in Seq(Log!Chunks \cup {Log!Bogus}) OBVIOUS
<1>4. file # << >> => Head(file).kind = "header"
  <2>1. file # << >> => Head(file) \in {LogHeader} BY HeadTailProperties DEF FilesInv, LogSound
  <2> QED BY <1>1, <2>1
<1> QED BY <1>2, <1>3, <1>4 DEF FilesInv, LogSound, FilesFollowMain, Log!TypeOK

\* Every variable of the program has its type, and the log is open for as
\* long as main uses it: from the end of its creation to the last save.
THEOREM ExchangeTypes == Spec => []TypeOK
<1>1. FeedInv /\ FilesInv /\ ThreadsTyped => TypeOK
  <2> SUFFICES ASSUME FeedInv, FilesInv, ThreadsTyped PROVE TypeOK OBVIOUS
  <2>1. /\ feed \in {"none", "polling", "handling", "done"}
        /\ {queued, processed, msg_count, dropped} \subseteq Nat
        /\ {orders, cancels, trades} \subseteq Nat
    BY DEF FeedInv, FeedWithEngine, Counters
  <2>2. /\ main \in MainSteps \cup Ended
        /\ snapshot \in {"absent", "torn", "whole"}
        /\ phase = "creating" <=> main = "flush"
        /\ phase = "open" <=> main \in MainSteps \ LogClosed
        /\ cut \subseteq {"log", "snapshot"}
    BY DEF FilesInv, FilesFollowMain
  <2> QED BY <2>1, <2>2, LogIsTyped DEF ThreadsTyped, TypeOK
<1>2. Spec => []ThreadsTyped BY ThreadsInit, ThreadsStepInvariant, PTL DEF Spec
<1> QED BY <1>1, <1>2, FeedInvariance, FilesInvariance, PTL
==================================================================================
