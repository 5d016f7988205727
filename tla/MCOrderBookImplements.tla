-------------------------- MODULE MCOrderBookImplements --------------------------
(* Unique ids; a third order still finds a book of two, on one side or on both. *)
EXTENDS OrderBookImplements

MCPrices == {1, 2}
MCQuantities == {1, 2}
MCModQuantities == {0, 1}

==================================================================================
