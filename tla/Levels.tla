-------------------------------- MODULE Levels --------------------------------
(***************************************************************************)
(* Price levels and the integer arithmetic on them, as the C++ hot path,   *)
(* the Rust strategy, the order books and the simulated exchange share it. *)
(* Prices and quantities are integers (pipettes and base units).           *)
(***************************************************************************)
EXTENDS Integers, Sequences, FiniteSetsExt

Sides == {"Buy", "Sell"}

Level == [price: Nat \ {0}, qty: Nat]

(* An order book update: levels of each side, best first.                  *)
Updates == [bids: Seq(Level), asks: Seq(Level), is_snapshot: BOOLEAN]

Opposite(side) == IF side = "Buy" THEN "Sell" ELSE "Buy"

(* The sign a fill gives the position.                                     *)
Sign(side) == IF side = "Buy" THEN 1 ELSE -1

(* Integer division of C++ and Rust: towards zero, where \div rounds down. *)
Quot(a, b) == IF (a >= 0) = (b > 0)
              THEN (IF a >= 0 THEN a ELSE -a) \div (IF b > 0 THEN b ELSE -b)
              ELSE -((IF a >= 0 THEN a ELSE -a) \div (IF b > 0 THEN b ELSE -b))

Magnitude(n) == IF n >= 0 THEN n ELSE -n

Clamp(n, low, high) == IF n > high THEN high ELSE IF n < low THEN low ELSE n

(* Levels come best first: bids descending, asks ascending.                *)
Better(side, p, q) == IF side = "Buy" THEN p > q ELSE p < q

(* An order of this side at limit accepts to trade at this price.          *)
Accepts(side, limit, price) == price = limit \/ Better(Opposite(side), price, limit)

(* Volume-weighted fair value of the first depth levels, deeper ones       *)
(* weighing less: every price weighs with the quantity across.             *)
WeightedPrice(bids, asks, depth) ==
  LET n == Min({depth, Len(bids), Len(asks)})
      weight(i) == n - i + 1
      value(i) == weight(i) * (asks[i].qty * bids[i].price + bids[i].qty * asks[i].price)
      volume(i) == weight(i) * (asks[i].qty + bids[i].qty)
      total == MapThenSumSet(volume, 1 .. n)
  IN  IF n = 0 THEN 0
      ELSE IF total = 0 THEN (bids[1].price + asks[1].price) \div 2
      ELSE MapThenSumSet(value, 1 .. n) \div total

(* |buy - sell| / total, scaled by 10000.                                  *)
Vpin(buy, sell, total) ==
  IF total = 0 THEN 0 ELSE (Magnitude(buy - sell) * 10000) \div total
=============================================================================
