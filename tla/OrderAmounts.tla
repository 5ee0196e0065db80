---------------------------- MODULE OrderAmounts ----------------------------
(***************************************************************************)
(* The arithmetic of OrderBuilder: what an order for a size and a price,   *)
(* or for an amount at the market, makes and takes, and at what price a    *)
(* market order is signed.                                                 *)
(*                                                                         *)
(* A decimal number is an integer in some unit: a price and a tick size in *)
(* 1 / One, a size or an amount of money in 1 / One too, until it is       *)
(* rounded to lots. A float that is read or rounded prints its decimals; a *)
(* product, a quotient or a sum of floats is the exact one and an error,   *)
(* in a unit that is Finest times finer than that of the amounts. The      *)
(* token amounts (10^6) are the same numbers, in a unit that every amount  *)
(* unit divides.                                                           *)
(***************************************************************************)
EXTENDS Integers, Sequences, FiniteSets

CONSTANTS
    One,        \* units in 1; 10000 in the code
    TickSizes,  \* 1000, 100, 10 and 1 in the code
    LotSize,    \* 100 in the code: sizes have two decimals
    Fine,       \* 10000 in the code: the four decimals more of round_up
    Sizes,      \* what users order: shares of limit orders, amounts and
    Amounts,    \* shares of market orders; and what they have
    Fees,       \* the fee of an amount, num / den of it
    Errors,     \* errors of a product or a quotient of floats, and
    Ulp,        \* the largest of one addition to a sum of them, in 1 / Finest
    Books       \* the levels of a side of a book, as the server lists them

ASSUME UnitsAssumption ==
    /\ One \in Nat \ {0} /\ LotSize \in 1..One /\ Fine \in Nat \ {0, 1}
    /\ TickSizes \subseteq {t \in 1..One : One % t = 0}

ASSUME InputsAssumption ==
    /\ Sizes \subseteq Nat /\ Amounts \subseteq Nat
    /\ Fees \subseteq [num : Nat, den : Nat \ {0}]
    /\ Errors \subseteq Int /\ Ulp \in Nat
    /\ Books \subseteq Seq([size : Nat, price : 1..One])

Finest == Fine * Fine

\* RoundConfig of a tick size: how many ticks make 1.
ROUNDING_CONFIG == [t \in TickSizes |-> [price |-> One \div t, size |-> LotSize]]

Ceiling(a, b) == (a + b - 1) \div b

\* round_down and round_normal of x to a multiple of unit.
RoundDown(x, unit) == x \div unit
RoundNormal(x, unit) == (2 * x + unit) \div (2 * unit)

Lots(x, tick) == RoundDown(x, ROUNDING_CONFIG[tick].size)

\* Mutants of Repaired: no round_up first; no round_down after it.
RepairedDown(x) == x \div Finest
RepairedUp(x) == Ceiling(x, Finest)

\* A float in the finest unit, as an amount: if it has too many decimals,
\* round_up to four more and then, if it still has, round_down.
Repaired(x) == Ceiling(x, Fine) \div Fine

\* lots * price and lots / price as floats, made amounts.
Product(lots, price, error) == Repaired(lots * price * Finest + error)
Quotient(lots, price, ticks, error) ==
    Repaired((lots * ticks * ticks * Finest) \div price + error)

-----------------------------------------------------------------------------
\* get_order_amounts, when the price is rounded already: what is made and
\* taken, in units of amounts.
MakesAndTakes(side, lots, price, ticks, error) ==
    LET shares == lots * ticks
        money == Product(lots, price, error)
    IN  IF side = "BUY" THEN [make |-> money, take |-> shares]
        ELSE [make |-> shares, take |-> money]

OrderAmounts(side, size, price, tick, error) ==
    MakesAndTakes(side, Lots(size, tick), RoundNormal(price, tick),
            ROUNDING_CONFIG[tick].price, error)

\* get_market_order_amounts: a BUY is for an amount of money, and the price is
\* rounded down.
MarketOrderAmounts(side, amount, price, tick, error) ==
    LET lots == Lots(amount, tick)
        ticks == ROUNDING_CONFIG[tick].price
    IN  IF side = "BUY"
        THEN [make |-> lots * ticks,
              take |-> Quotient(lots, RoundDown(price, tick), ticks, error)]
        ELSE MakesAndTakes(side, lots, RoundDown(price, tick), ticks, error)

\* adjust_market_buy_amount, the fee being num / den of the amount: a float, in
\* the finest unit and not rounded. Called only for a balance other than 0.
AdjustedAmount(amount, balance, num, den, error) ==
    IF balance * den <= amount * (num + den)
    THEN (balance * den * Finest) \div (num + den) + error
    ELSE amount * Finest

\* What a level is worth to a market order: money for a BUY, else shares. The
\* unit of money is 1 / One^2 here.
Worth(side, level) == IF side = "BUY" THEN level.size * level.price ELSE level.size

\* The running float sum of their loops over the levels, from the best on: those
\* of the server are in the other order. Each round brings an error.
Matched(side, levels, errors) ==
    LET n == Len(levels)
        matched[i \in 0..n] ==
            IF i = 0 THEN 0
            ELSE matched[i - 1] + (Worth(side, levels[n + 1 - i]) * Finest + errors[i])
    IN  matched

\* calculate_buy_market_price and calculate_sell_market_price: the first price
\* at which enough is matched; 0 for the exception of a FOK that finds too little.
MarketPrice(side, levels, amount, fok, errors) ==
    LET n == Len(levels)
        enough == {i \in 1..n : Matched(side, levels, errors)[i] >= amount * Finest}
    IN  IF enough # {}
        THEN levels[n + 1 - (CHOOSE i \in enough : \A j \in enough : i <= j)].price
        ELSE IF fok \/ n = 0 THEN 0 ELSE levels[1].price

\* price_valid.
PriceValid(price, tick) == tick <= price /\ price <= One - tick

-----------------------------------------------------------------------------
\* What the orders must be, for an error of a float.

\* An error less than the last decimal of round_up: that of any result below
\* 10^5, whose float is off by less than 10^-10.
Small(e) == -Fine < e /\ e < Fine
Magnitude(e) == IF e < 0 THEN -e ELSE e

\* By how many units an amount may be off.
Off(e) == IF Small(e) THEN 0 ELSE 1 + Magnitude(e) \div Finest

\* o is for the size but for less than a lot, at p ticks for 1: exactly, if the
\* error is small.
ExactlyAt(o, side, size, p, tick, e) ==
    LET ticks == ROUNDING_CONFIG[tick].price
        shares == IF side = "BUY" THEN o.take ELSE o.make
        money == IF side = "BUY" THEN o.make ELSE o.take
        lots == shares \div ticks
    IN  /\ shares = lots * ticks /\ money - lots * p \in -Off(e)..Off(e)
        /\ size - LotSize < lots * LotSize /\ lots * LotSize <= size

\* A limit order is for its size at the price nearest to its own
\* (get_order_amounts).
LimitOrderExact(side, size, price, tick, e) ==
    \E p \in 0..ROUNDING_CONFIG[tick].price :
        /\ 2 * (p * tick - price) <= tick /\ 2 * (price - p * tick) < tick
        /\ ExactlyAt(OrderAmounts(side, size, price, tick, e), side, size, p, tick, e)

\* A market SELL is exact at its price rounded down. A market BUY takes what its
\* money pays for at that price: never a unit less, if the error is small; and
\* more only by what round_up adds (less than its last decimal) and the error,
\* which makes a whole unit when the quotient is as near to it as that
\* (get_market_order_amounts).
MarketOrderExact(side, amount, price, tick, e) ==
    LET o == MarketOrderAmounts(side, amount, price, tick, e)
        p == price \div tick
        ticks == ROUNDING_CONFIG[tick].price
    IN  IF side = "SELL" THEN ExactlyAt(o, side, amount, p, tick, e)
        ELSE /\ o.make = (amount \div LotSize) * ticks
             /\ Small(e) => o.make * ticks < (o.take + 1) * p
             /\ (o.take * p - o.make * ticks) * Finest < p * (Fine + Magnitude(e))

\* What a market BUY spends when it was adjusted, which is in lots, is not more
\* than was asked for, and can be paid with its fee, but for the error; and it is
\* what was asked for, or a lot more could not be paid, but for the error
\* (adjust_market_buy_amount, get_market_order_amounts).
AdjustmentFits(amount, balance, num, den, e) ==
    LET spent == (AdjustedAmount(amount, balance, num, den, e) \div (LotSize * Finest)) * LotSize
        beyond(s) == (s * (num + den) - balance * den) * Finest
    IN  /\ Small(e) => spent <= amount
        /\ beyond(spent) <= (num + den) * Magnitude(e)
        /\ \/ spent = (amount \div LotSize) * LotSize
           \/ beyond(spent + LotSize) > (num + den) * e

\* What a limit at level i admits, unit by unit.
Admits(side, levels, i) ==
    UNION {{j} \X (1..Worth(side, levels[j])) : j \in i..Len(levels)}

\* The sum of a market order is off by at most an Ulp for every level. A limit at
\* its price admits levels worth the amount, or short of it by no more than that;
\* and no better level admits as much more than the amount, nor does any level
\* when it raises or has the last price. For levels worth just the amount the
\* code may thus go on to the next level, or raise: 3 at 0.7 is "no match" for a
\* FOK of 2.1 (calculate_*_market_price).
PriceReaches(side, levels, amount, fok, errors) ==
    LET price == MarketPrice(side, levels, amount, fok, errors)
        slack == Len(levels) * Ulp
        beyond == [i \in DOMAIN levels |->
                     (Cardinality(Admits(side, levels, i)) - amount) * Finest]
        plenty == {i \in DOMAIN levels : beyond[i] >= slack}
    IN  \/ \E i \in DOMAIN levels :
              price = levels[i].price /\ beyond[i] >= -slack /\ \A j \in plenty : j <= i
        \/ plenty = {} /\ price = IF fok \/ levels = <<>> THEN 0 ELSE levels[1].price

\* The tick sizes with which every order is exact.
ExactTickSizes ==
    {t \in TickSizes : \A side \in {"BUY", "SELL"}, size \in Sizes, e \in Errors :
        \A price \in {p \in 1..One : PriceValid(p, t)} :
            /\ LimitOrderExact(side, size, price, t, e)
            /\ MarketOrderExact(side, size, price, t, e)}

MarketOrdersFit ==
    /\ \A amount \in Amounts, balance \in Amounts \ {0}, fee \in Fees, e \in Errors :
          AdjustmentFits(amount, balance, fee.num, fee.den, e)
    /\ \A side \in {"BUY", "SELL"}, book \in Books, amount \in Amounts, fok \in BOOLEAN :
          \A errors \in [DOMAIN book -> -Ulp..Ulp] :
              PriceReaches(side, book, amount, fok, errors)
=============================================================================
