---------------------------------- MODULE Types ----------------------------------
(***************************************************************************)
(* The vocabulary of src/common/types.hpp.  A symbol is left to the module *)
(* that keeps one book per symbol; timestamps only stamp messages and are  *)
(* never compared, so they are left out.  Prices are fixed-point int64_t   *)
(* values, quantities uint64_t values: both are integers here, and the     *)
(* invariants say where the unsigned subtractions cannot wrap.             *)
(***************************************************************************)
EXTENDS Integers, Sequences

CONSTANTS OrderIds,   \* the order ids in use: they are only compared for equality
          Prices,     \* the price ticks in use
          PriceBound  \* the largest of the type: int64_t has finitely many prices

ASSUME PricesAssumption ==
    PriceBound \in Nat /\ Prices \subseteq (-PriceBound)..PriceBound

Side == {"BUY", "SELL"}
OrderType == {"LIMIT", "MARKET"}
TimeInForce == {"GTC", "IOC", "FOK"}
OrderStatus ==
    {"PENDING", "ACCEPTED", "PARTIALLY_FILLED", "FILLED", "CANCELLED", "REJECTED"}

Order == [id : OrderIds, side : Side, type : OrderType, tif : TimeInForce,
          price : Prices, quantity : Nat, filled : Nat, status : OrderStatus]

Trade == [buyer_id : OrderIds, seller_id : OrderIds, price : Prices,
          quantity : Nat, buyer_is_aggressor : BOOLEAN]

Remaining(o) == o.quantity - o.filled

Opposite(s) == IF s = "BUY" THEN "SELL" ELSE "BUY"
==================================================================================
