--------------------------------- MODULE Parser ---------------------------------
(***************************************************************************)
(* Parser (src/feed/parser.cpp): from a JSON message to an event.          *)
(*                                                                         *)
(* A message is a function from the names of the fields it has to their    *)
(* values, Malformed stands for a text that is not JSON and Mistyped for a *)
(* value of another JSON type than the one asked for; both make the        *)
(* library throw, which parse_json turns into a failure.                   *)
(*                                                                         *)
(* A price is a number of half ticks here, so that there are prices        *)
(* between two ticks; a tick is one unit of Price.                         *)
(***************************************************************************)
EXTENDS MatchingEngine

CONSTANTS UnnamedSymbol,       \* Symbol(""), which is a symbol like any other
          Malformed, Mistyped,
          QuantityWidth        \* bits of Quantity (64 in the code)

ASSUME ParserAssumption == UnnamedSymbol \in Symbols /\ QuantityWidth \in Nat

\* Ticks in a price of 1.0.
PRICE_SCALE == 10000

SideNames == [buy |-> "BUY", BUY |-> "BUY", sell |-> "SELL", SELL |-> "SELL"]
OrderTypeNames ==
    [limit |-> "LIMIT", LIMIT |-> "LIMIT", market |-> "MARKET", MARKET |-> "MARKET"]
TifNames ==
    [gtc |-> "GTC", GTC |-> "GTC", ioc |-> "IOC", IOC |-> "IOC", fok |-> "FOK", FOK |-> "FOK"]

\* j.value(name, default).
Field(m, name, default) == IF name \in DOMAIN m THEN m[name] ELSE default

\* Reading these fields of m throws.
Throws(m, names) == \E name \in names \cap DOMAIN m : m[name] = Mistyped

Magnitude(x) == IF x < 0 THEN -x ELSE x

\* The cast before the product.
Truncated_wholePrices(price) == {(price \div (2 * PRICE_SCALE)) * PRICE_SCALE}

\* The cast of price * PRICE_SCALE truncates toward zero.  The product is exact
\* for a whole price; for another price on a tick it may come out a little
\* smaller, and the cast then takes a tick away.
Truncated(price) ==
    LET ticks == Magnitude(price) \div 2
        least == IF price % 2 = 0 /\ price % (2 * PRICE_SCALE) # 0 THEN ticks - 1 ELSE ticks
    IN  {IF price < 0 THEN -t ELSE t : t \in least..ticks}

\* A negative JSON number is converted to the unsigned type as C++ does it.
Unsigned(number) == number % (2 ^ QuantityWidth)

OrderOf(m, price) ==
    [id |-> Field(m, "order_id", INVALID_ORDER_ID),
     side |-> SideNames[Field(m, "side", "")],
     type |-> OrderTypeNames[Field(m, "order_type", "limit")],
     tif |-> TifNames[Field(m, "tif", "gtc")],
     price |-> price,
     quantity |-> Unsigned(Field(m, "quantity", 0)),
     filled |-> 0, status |-> "PENDING"]

NewOrderFields == {"order_id", "symbol", "side", "order_type", "tif", "price", "quantity"}

\* The events a message of each type may become; none if it is refused.
NewOrderParsed(m) ==
    IF \/ Throws(m, NewOrderFields)
       \/ Field(m, "side", "") \notin DOMAIN SideNames
       \/ Field(m, "order_type", "limit") \notin DOMAIN OrderTypeNames
       \/ Field(m, "tif", "gtc") \notin DOMAIN TifNames
    THEN {}
    ELSE {[kind |-> "new", symbol |-> Field(m, "symbol", UnnamedSymbol),
           order |-> OrderOf(m, price)] : price \in Truncated(Field(m, "price", 0))}

CancelParsed(m) ==
    IF Throws(m, {"order_id", "symbol"}) THEN {}
    ELSE {[kind |-> "cancel", symbol |-> Field(m, "symbol", UnnamedSymbol),
           id |-> Field(m, "order_id", INVALID_ORDER_ID)]}

ModifyParsed(m) ==
    IF Throws(m, {"order_id", "symbol", "price", "quantity"}) THEN {}
    ELSE {[kind |-> "modify", symbol |-> Field(m, "symbol", UnnamedSymbol),
           id |-> Field(m, "order_id", INVALID_ORDER_ID), price |-> price,
           quantity |-> Unsigned(Field(m, "quantity", 0))]
            : price \in Truncated(Field(m, "price", 0))}

\* parse_json: the events it may make of m, none if it reports an error.
parse_json(m) ==
    IF m = Malformed THEN {}
    ELSE CASE Field(m, "type", "") = "new_order" -> NewOrderParsed(m)
           [] Field(m, "type", "") = "cancel"    -> CancelParsed(m)
           [] Field(m, "type", "") = "modify"    -> ModifyParsed(m)
           [] OTHER -> {}
==================================================================================
