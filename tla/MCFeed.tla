---------------------------------- MODULE MCFeed ----------------------------------
(* The messages that may arrive, with fields left out, spelled in both cases, *)
(* of the wrong type and out of range.                                        *)
EXTENDS Feed

CONSTANT s

MCSymbols == {s, UnnamedSymbol}
MCClientIds == {9}
MCOrderIds == {1, 2, 3, 9}
MCPrices == {-PRICE_SCALE, 0, 9998, 9999, PRICE_SCALE, 19999}
MCQuantities == {0, 1, 2}
MCModQuantities == {0, 2}

Limit(side, q) == [type |-> "new_order", side |-> side, quantity |-> q, price |-> 20000]
Ioc(side, price) ==
    [type |-> "new_order", side |-> side, quantity |-> 2, price |-> price, tif |-> "ioc"]
Market(side, q) ==
    [type |-> "new_order", side |-> side, quantity |-> q, order_type |-> "MARKET"]

OnS == [symbol |-> s]
Id(id) == [order_id |-> id]

\* 20000 half ticks are 1.0.  20001 and 39999 lie between two ticks, 19998 is
\* on one that the conversion may miss.
OrderMessages ==
    {m @@ OnS : m \in {Limit("buy", 1), Limit("SELL", 2)}}
      \cup {Limit("buy", 1), Limit("sell", 2), Id(9) @@ Limit("sell", 1)}
      \cup {m @@ Id(9) @@ OnS : m \in {Limit("buy", 2), Limit("sell", 1), Market("SELL", 1)}}
      \cup {m @@ OnS : m \in {Ioc("sell", 20001), Ioc("sell", 39999), Ioc("buy", 19998),
                              Market("buy", 2)}}

CancelMessages ==
    {[type |-> "cancel"] @@ m : m \in {OnS, Id(1) @@ OnS, Id(9) @@ OnS, Id(1), Id(9)}}

\* A quantity left out is 0, and -6 becomes 2; a price may be negative.
ModifyMessages ==
    {[type |-> "modify"] @@ m :
       m \in {[price |-> 20000] @@ Id(1) @@ OnS,
              [price |-> -20000, quantity |-> -6] @@ Id(9) @@ OnS,
              [price |-> 20000, quantity |-> -6] @@ Id(1)}}

RefusedMessages ==
    {Malformed,
     [type |-> "ping"],
     [type |-> "new_order", quantity |-> 1, price |-> 20000],
     [type |-> "new_order", side |-> "sell", tif |-> "day", quantity |-> 1, price |-> 20000],
     [type |-> "new_order", side |-> "buy", order_type |-> "stop", quantity |-> 1],
     [type |-> "cancel", order_id |-> Mistyped]}

ValidationMessages ==
    {[type |-> "new_order", side |-> "BUY", quantity |-> 1],
     [type |-> "new_order", side |-> "BUY", price |-> 20000]}

MCFeedMessages ==
    OrderMessages \cup CancelMessages \cup ModifyMessages
      \cup RefusedMessages \cup ValidationMessages
==================================================================================
