--------------------------- MODULE MCMarketDataClient ---------------------------
(* Two levels on each side that come and go; one of them also changes. *)
EXTENDS MarketDataClient

Update(side, price, quantity) ==
    [type |-> "book_update", side |-> side, price |-> price, quantity |-> quantity]

MCChanges ==
    {Update("buy", p, q) : p \in {1, 2}, q \in {0, 1}}
      \cup {Update("sell", p, q) : p \in {3, 4}, q \in {0, 1}}
      \cup {Update("buy", 1, 2)}
==================================================================================
