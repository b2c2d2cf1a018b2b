------------------------------ MODULE OrderBook ------------------------------
(***************************************************************************)
(* crates/atomic-orderbook/src/book.rs: the L2 book, a map from price to   *)
(* quantity on either side.  (The crate is used by the live loop, the Rust *)
(* strategy and the router; the simulated exchange has a book of its own   *)
(* that keeps levels the same way.)                                        *)
(***************************************************************************)
EXTENDS Levels, SequencesExt

NoLevels == [p \in {} |-> 0]
EmptyBook == [bids |-> NoLevels, asks |-> NoLevels]

(* A level replaces the one at its price; quantity 0 removes it.           *)
SetLevel(levels, l) ==
  [p \in (IF l.qty = 0 THEN DOMAIN levels \ {l.price} ELSE DOMAIN levels \cup {l.price}) |->
     IF p = l.price THEN l.qty ELSE levels[p]]

SetLevels(levels, news) == FoldLeft(SetLevel, levels, news)

HasQty(l) == l.qty > 0

(* A snapshot starts from nothing and skips its empty levels.              *)
AddLevel(levels, l) == IF HasQty(l) THEN SetLevel(levels, l) ELSE levels

ApplySnapshot(u) == [bids |-> FoldLeft(AddLevel, NoLevels, u.bids),
                     asks |-> FoldLeft(AddLevel, NoLevels, u.asks)]

ApplyDelta(book, u) == [bids |-> SetLevels(book.bids, u.bids),
                        asks |-> SetLevels(book.asks, u.asks)]

Apply(book, u) == IF u.is_snapshot THEN ApplySnapshot(u) ELSE ApplyDelta(book, u)

LevelsOf(book, side) == IF side = "Buy" THEN book.bids ELSE book.asks

(* Best price of a side that has levels.                                   *)
Best(levels, side) == CHOOSE p \in DOMAIN levels :
                        \A q \in DOMAIN levels \ {p} : Better(side, p, q)

(* Prices, best first.                                                     *)
BestFirst(prices, side) ==
  CHOOSE s \in [1 .. Cardinality(prices) -> prices] :
    \A i, j \in DOMAIN s : i < j => Better(side, s[i], s[j])

(* The first n levels of a side, best first.                               *)
Top(levels, side, n) ==
  LET ordered == BestFirst(DOMAIN levels, side)
      count == Min({n, Len(ordered)})
  IN  [i \in 1 .. count |-> [price |-> ordered[i], qty |-> levels[ordered[i]]]]

Depth(levels) == MapThenSumSet(LAMBDA p : levels[p], DOMAIN levels)
=============================================================================
