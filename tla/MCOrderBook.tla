------------------------------- MODULE MCOrderBook -------------------------------
(* Three orders, by three clients who may all use the same id, at two prices. *)
EXTENDS OrderBook

MCPrices == {1, 2}
MCQuantities == {1, 2}
MCModQuantities == {0, 1}

\* Ids are only compared for equality.
IdSymmetry == Permutations(OrderIds)
==================================================================================
