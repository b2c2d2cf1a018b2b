-------------------------------- MODULE Router --------------------------------
(***************************************************************************)
(* crates/atomic-router/src/router.rs: how an order is split over venues.  *)
(* The router keeps a book per venue in a HashMap; "order" is the sequence *)
(* of venues in which the map happens to be iterated, the same for every   *)
(* iteration as nothing is inserted in between.  A slice is an order sent  *)
(* to a venue; its type (limit, immediate-or-cancel) is always the same.   *)
(*                                                                         *)
(* The live loop feeds the router and never asks it to route.              *)
(***************************************************************************)
EXTENDS OrderBook

SweepDepth == 20       \* levels of each venue a sweep looks at

Slice(venue, price, qty) == [venue |-> venue, price |-> price, qty |-> qty]

(* What an order of this side trades against.                              *)
Across(book, side) == LevelsOf(book, Opposite(side))

(* The venues with liquidity, in iteration order.                          *)
Quoting(books, side, order) ==
  SelectSeq(order, LAMBDA v : DOMAIN Across(books[v], side) # {})

BestAt(books, side, v) == Best(Across(books[v], side), Opposite(side))

(* The first venue whose price no later one strictly improves.             *)
RouteBestVenue(books, side, qty, order) ==
  LET quoting == Quoting(books, side, order)
      price(v) == BestAt(books, side, v)
      best == FoldLeft(LAMBDA b, v : IF Better(Opposite(side), price(v), price(b)) THEN v ELSE b,
                       Head(quoting), quoting)
  IN  IF quoting = <<>> THEN <<>> ELSE <<Slice(best, price(best), qty)>>

(* round() of a quotient of naturals.                                      *)
Round(a, b) == (2 * a + b) \div (2 * b)

(* Proportional to the depth each venue shows; empty slices are dropped,   *)
(* what rounding adds or loses is not made up for.                         *)
RouteVwap(books, side, qty, order) ==
  LET quoting == Quoting(books, side, order)
      depth(v) == Depth(Across(books[v], side))
      total == FoldLeft(LAMBDA s, v : s + depth(v), 0, quoting)
      slices == [i \in DOMAIN quoting |->
                   Slice(quoting[i], BestAt(books, side, quoting[i]),
                         Round(qty * depth(quoting[i]), total))]
  IN  SelectSeq(slices, HasQty)

(* Equal slices to the best venue; the remainder of the division is lost.  *)
(* (slices = 0 panics: division by zero.)                                  *)
RouteTwap(books, side, qty, slices, order) ==
  LET slice_qty == qty \div slices
  IN  IF slice_qty = 0 THEN <<>>
      ELSE FoldLeft(LAMBDA r, i : r \o RouteBestVenue(books, side, slice_qty, order),
                    <<>>, [i \in 1 .. slices |-> i])

(* All levels of all venues, best price first, equal prices in the order   *)
(* the venues were iterated (the sort is stable).                          *)
AllLevels(books, side, order) ==
  LET levels(i) == Top(Across(books[order[i]], side), Opposite(side), SweepDepth)
      all == UNION { { [rank |-> i, price |-> l.price, qty |-> l.qty] :
                         l \in {levels(i)[j] : j \in DOMAIN levels(i)} } : i \in DOMAIN order }
  IN  SetToSortSeq(all, LAMBDA a, b : \/ Better(Opposite(side), a.price, b.price)
                                      \/ a.price = b.price /\ a.rank < b.rank)

TakeAll(remaining, l) == l.qty                    \* for mutation: no cap at what remains

Take(remaining, l) == Min({remaining, l.qty})

RouteSweep(books, side, qty, order) ==
  LET step(r, l) ==
        IF r.remaining <= 0 THEN r
        ELSE [remaining |-> r.remaining - Take(r.remaining, l),
              slices |-> Append(r.slices,
                                Slice(order[l.rank], l.price, Take(r.remaining, l)))]
  IN  FoldLeft(step, [remaining |-> qty, slices |-> <<>>], AllLevels(books, side, order)).slices
=============================================================================
