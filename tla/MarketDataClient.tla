----------------------------- MODULE MarketDataClient -----------------------------
(***************************************************************************)
(* The web interface: MarketDataClient (ui/src/websocket.js) keeps a       *)
(* connection open, App (ui/src/App.jsx) keeps a copy of the book and a    *)
(* tape of the trades, and polls the number of processed orders.           *)
(*                                                                         *)
(* The server is external (Publisher formats these messages and sends none *)
(* so far): it sends each change of a level, and each trade, on every open *)
(* connection.  A connection delivers in order and loses what is under way *)
(* when it closes; every request for the count is answered with the count  *)
(* of its time or fails, in any order.                                     *)
(*                                                                         *)
(* In React's strict mode (ui/src/main.jsx, a development build) the       *)
(* effect of App runs, is cleaned up and runs again, with one state:       *)
(* disconnect() closes the first client's socket, whose onclose connects   *)
(* again, so that the page then listens to two clients.                    *)
(***************************************************************************)
EXTENDS Integers, SequencesExt

CONSTANTS Changes,       \* the book updates the server may send
          TapeLength,    \* trades that the tape shows (100 in App.jsx)
          MaxProcessed,  \* bound: orders that the server processes
          MaxServerSteps \* bound: changes, trades and orders of the server together

ASSUME ClientAssumption ==
    /\ Changes \subseteq [type : {"book_update"}, side : {"buy", "sell"}, price : Int,
                         quantity : Nat]
    /\ {TapeLength, MaxProcessed, MaxServerSteps} \subseteq Nat

Client == 1..2

VARIABLES
    strict,              \* is this a build in which strict mode mounts twice?
    conn,                \* the socket of each client
    inbox,               \* what is under way to each client
    connected, bids, asks, tape, trade_count, orders_shown, \* the state of App
    fetches,             \* the counts that are under way to App
    level,               \* server: the quantity at each level
    updates, traded, processed, \* server: changes, trades and orders so far
    missed               \* history: the levels whose newest change was lost

appVars    == <<connected, bids, asks, tape, trade_count>>
pollVars   == <<orders_shown, fetches, processed>>
serverVars == <<level, updates, traded>>
vars == <<strict, conn, inbox, appVars, pollVars, serverVars, missed>>

\* "none": connect() was not called yet.  "waiting": closed, and the timer
\* that will connect again is set.
ConnState == {"none", "connecting", "open", "closing", "waiting"}

TradeMessage(n) == [type |-> "trade", number |-> n]

\* A quantity of 0 deletes the level.
LevelOf(m) == <<m.side, m.price>>
Levels == {LevelOf(m) : m \in Changes}
LevelsIn(messages) == {LevelOf(m) : m \in {x \in ToSet(messages) : x.type = "book_update"}}

Init ==
    /\ strict \in BOOLEAN
    /\ conn = [c \in Client |-> "none"]
    /\ inbox = [c \in Client |-> << >>]
    /\ connected = FALSE /\ bids = << >> /\ asks = << >> /\ tape = << >> /\ trade_count = 0
    /\ orders_shown = 0 /\ fetches = {} /\ processed = 0
    /\ level = [l \in Levels |-> 0]
    /\ updates = 0 /\ traded = 0
    /\ missed = {}

----------------------------------------------------------------------------------
(* App: the copy of the book. *)

\* The place of a price among the levels, or 0.
IndexOf(levels, p) == SelectInSeq(levels, LAMBDA l : l.price = p)

\* Bids are shown from the highest price down, asks from the lowest up.
Above(side, p, q) == IF side = "buy" THEN p > q ELSE p < q

\* The levels in the order that sort() gives them, which is stable.
Sorted(levels, side) ==
    LET order == CHOOSE order \in [DOMAIN levels -> DOMAIN levels] :
                   \A i, j \in DOMAIN levels : i < j =>
                     LET p == levels[order[i]].price
                         q == levels[order[j]].price
                     IN  Above(side, p, q) \/ (p = q /\ order[i] < order[j])
    IN  [i \in DOMAIN levels |-> levels[order[i]]]

Added(levels, m) == Append(levels, [price |-> m.price, quantity |-> m.quantity])

Applied_unsorted(levels, m) ==
    LET i == IndexOf(levels, m.price)
    IN  CASE i # 0 /\ m.quantity = 0 -> RemoveAt(levels, i)
          [] i # 0 /\ m.quantity > 0 -> [levels EXCEPT ![i].quantity = m.quantity]
          [] i = 0 /\ m.quantity = 0 -> levels
          [] OTHER -> Added(levels, m)

Applied_keepsEmpty(levels, m) ==
    LET i == IndexOf(levels, m.price)
    IN  CASE m.quantity = 0 -> levels
          [] i # 0 /\ m.quantity > 0 -> [levels EXCEPT ![i].quantity = m.quantity]
          [] OTHER -> Sorted(Added(levels, m), m.side)

\* The first level at the price is changed or taken out; a new one is put at
\* the end and the levels are sorted.
Applied(levels, m) ==
    LET i == IndexOf(levels, m.price)
    IN  CASE i # 0 /\ m.quantity = 0 -> RemoveAt(levels, i)
          [] i # 0 /\ m.quantity > 0 -> [levels EXCEPT ![i].quantity = m.quantity]
          [] i = 0 /\ m.quantity = 0 -> levels
          [] OTHER -> Sorted(Added(levels, m), m.side)

OnBookUpdate(m) ==
    /\ bids' = IF m.side = "buy" THEN Applied(bids, m) ELSE bids
    /\ asks' = IF m.side = "buy" THEN asks ELSE Applied(asks, m)
    /\ UNCHANGED <<tape, trade_count>>

OnTrade_uncut(m) ==
    /\ tape' = <<m.number>> \o tape
    /\ trade_count' = trade_count + 1
    /\ UNCHANGED <<bids, asks>>

OnTrade_atEnd(m) ==
    /\ tape' = SubSeq(Append(tape, m.number), 1, Min({Len(tape) + 1, TapeLength}))
    /\ trade_count' = trade_count + 1
    /\ UNCHANGED <<bids, asks>>

\* The tape shows the newest trades first.
OnTrade(m) ==
    /\ tape' = SubSeq(<<m.number>> \o tape, 1, Min({Len(tape) + 1, TapeLength}))
    /\ trade_count' = trade_count + 1
    /\ UNCHANGED <<bids, asks>>

----------------------------------------------------------------------------------
(* The clients and their connections. *)

\* The effect of App: a client is made and connected.  In strict mode that is
\* the second one, and the first is on its way to close.
Mount ==
    /\ conn[1] = "none"
    /\ conn' = IF strict THEN <<"closing", "connecting">>
               ELSE [conn EXCEPT ![1] = "connecting"]
    /\ UNCHANGED <<strict, inbox, appVars, pollVars, serverVars, missed>>

Opened(c) ==
    /\ conn[c] = "connecting"
    /\ conn' = [conn EXCEPT ![c] = "open"]
    /\ connected' = TRUE
    /\ UNCHANGED <<strict, inbox, bids, asks, tape, trade_count, pollVars, serverVars, missed>>

\* onclose, whether the server refuses, the connection breaks, or disconnect()
\* asked for it: listeners are told, and in 5 seconds connect() is called.
Closed(c) ==
    /\ conn[c] \in {"connecting", "open", "closing"}
    /\ conn' = [conn EXCEPT ![c] = "waiting"]
    /\ connected' = FALSE
    /\ missed' = missed \cup LevelsIn(inbox[c])
    /\ inbox' = [inbox EXCEPT ![c] = << >>]
    /\ UNCHANGED <<strict, bids, asks, tape, trade_count, pollVars, serverVars>>

Reconnect_never(c) == conn[c] = "waiting" /\ UNCHANGED vars

Reconnect(c) ==
    /\ conn[c] = "waiting"
    /\ conn' = [conn EXCEPT ![c] = "connecting"]
    /\ UNCHANGED <<strict, inbox, appVars, pollVars, serverVars, missed>>

\* onmessage.
Receive(c) ==
    /\ conn[c] = "open" /\ inbox[c] # << >>
    /\ inbox' = [inbox EXCEPT ![c] = Tail(@)]
    /\ LET m == Head(inbox[c])
       IN  IF m.type = "trade" THEN OnTrade(m) ELSE OnBookUpdate(m)
    /\ UNCHANGED <<strict, conn, connected, pollVars, serverVars, missed>>

----------------------------------------------------------------------------------
(* The number of processed orders, polled every second. *)

Fetch ==
    /\ conn[1] # "none"
    /\ fetches' = fetches \cup {processed}
    /\ UNCHANGED <<strict, conn, inbox, appVars, orders_shown, processed, serverVars, missed>>

FetchDone_spreadsLast(n) ==
    /\ n \in fetches
    /\ fetches' = fetches \ {n}
    /\ UNCHANGED <<strict, conn, inbox, appVars, orders_shown, processed, serverVars, missed>>

FetchDone(n) ==
    /\ n \in fetches
    /\ fetches' = fetches \ {n}
    /\ orders_shown' = n
    /\ UNCHANGED <<strict, conn, inbox, appVars, processed, serverVars, missed>>

FetchFails(n) ==
    /\ n \in fetches
    /\ fetches' = fetches \ {n}
    /\ UNCHANGED <<strict, conn, inbox, appVars, orders_shown, processed, serverVars, missed>>

----------------------------------------------------------------------------------
(* The server. *)

ServerActs == updates + traded + processed < MaxServerSteps

Send(m) == inbox' = [c \in Client |-> IF conn[c] = "open" THEN Append(inbox[c], m) ELSE inbox[c]]

ChangeLevel(m) ==
    /\ ServerActs
    /\ level[LevelOf(m)] # m.quantity
    /\ level' = [level EXCEPT ![LevelOf(m)] = m.quantity]
    /\ updates' = updates + 1
    /\ Send(m)
    /\ missed' = IF \E c \in Client : conn[c] = "open" THEN missed \ {LevelOf(m)}
                 ELSE missed \cup {LevelOf(m)}
    /\ UNCHANGED <<strict, conn, appVars, pollVars, traded>>

Trade ==
    /\ ServerActs
    /\ traded' = traded + 1
    /\ Send(TradeMessage(traded + 1))
    /\ UNCHANGED <<strict, conn, appVars, pollVars, level, updates, missed>>

ProcessOrder ==
    /\ ServerActs /\ processed < MaxProcessed
    /\ processed' = processed + 1
    /\ UNCHANGED <<strict, conn, inbox, appVars, orders_shown, fetches, serverVars, missed>>

Next ==
    \/ Mount
    \/ \E c \in Client : Opened(c) \/ Closed(c) \/ Reconnect(c) \/ Receive(c)
    \/ Fetch
    \/ \E n \in fetches : FetchDone(n) \/ FetchFails(n)
    \/ \E m \in Changes : ChangeLevel(m)
    \/ Trade
    \/ ProcessOrder

Spec == Init /\ [][Next]_vars

\* The browser fires its timers and finishes what it closes; a request that
\* is repeated for ever succeeds now and then, and so does a connection.
FairSpec ==
    /\ Spec
    /\ WF_vars(Mount) /\ WF_vars(Fetch)
    /\ \A c \in Client :
         /\ WF_vars(Reconnect(c)) /\ WF_vars(conn[c] = "closing" /\ Closed(c))
         /\ SF_vars(Opened(c))
    /\ \A n \in 0..MaxProcessed : SF_vars(FetchDone(n))

----------------------------------------------------------------------------------
Drawable(levels, side) ==
    /\ \A i \in DOMAIN levels : levels[i].quantity > 0
    /\ \A i, j \in DOMAIN levels : i < j => Above(side, levels[i].price, levels[j].price)

\* Every variable has its type, and messages are only under way where a
\* connection is open.
TypeOK ==
    /\ strict \in BOOLEAN /\ connected \in BOOLEAN
    /\ conn \in [Client -> ConnState]
    /\ \A c \in Client : inbox[c] # << >> => conn[c] = "open"
    /\ \A c \in Client : \A i \in DOMAIN inbox[c] :
         inbox[c][i] \in Changes \cup [type : {"trade"}, number : 1..traded]
    /\ Len(tape) <= TapeLength /\ trade_count \in Nat
    /\ orders_shown \in 0..MaxProcessed /\ fetches \subseteq 0..MaxProcessed
    /\ level \in [Levels -> Nat] /\ missed \subseteq Levels

\* The book on the page is one that can be drawn, whatever was lost or came
\* twice: bids from the highest price down, asks from the lowest up, no price
\* twice and no level without a quantity.
LevelsDrawable == Drawable(bids, "buy") /\ Drawable(asks, "sell")

Shown(l) ==
    LET levels == IF l[1] = "buy" THEN bids ELSE asks
        i      == IndexOf(levels, l[2])
    IN  IF i = 0 THEN 0 ELSE levels[i].quantity

\* A page with one client is stale only where it must be: a level is the
\* server's once its newest change has come, and after a reconnection only
\* the levels whose newest change was lost are wrong.
StaleOnlyIfMissed ==
    ~strict => \A l \in Levels :
        Shown(l) = level[l] \/ l \in missed \/ l \in LevelsIn(inbox[1])

Copies(n) == Cardinality({i \in DOMAIN tape : tape[i] = n})

\* The tape of a page with one client is newest first and shows no trade
\* twice; a page with two shows and counts a trade at most twice.
TradesTapeSound ==
    /\ \A n \in 1..traded : Copies(n) <= IF strict THEN 2 ELSE 1
    /\ trade_count <= IF strict THEN 2 * traded ELSE traded
    /\ ~strict => \A i, j \in DOMAIN tape : i < j => tape[i] > tape[j]

\* No client ever comes to rest, be its connection refused, lost or closed by
\* disconnect(): it is connected again and again.
ConnectsAgain == \A c \in Client : []<>(conn[c] = "none" \/ conn[c] = "open")

\* Answers that overtake each other may make the count of orders go back, but
\* once the server processes no more (its steps are bounded here) the page
\* comes to show its count, and keeps to it.
OrdersCatchUp == <>[](orders_shown = processed)
==================================================================================
