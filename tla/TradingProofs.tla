--------------------------- MODULE TradingProofs ----------------------------
(***************************************************************************)
(* The event loop's own parts, for every value of the constants: the fill  *)
(* accounting and both inventories of the live loop; the hot path and the  *)
(* market maker over any sequence of updates, trades and fills; the        *)
(* commands; the two books; and the simulated exchange with the tracker    *)
(* that hears its reports.                                                 *)
(***************************************************************************)
EXTENDS Trading, FiniteSetTheorems, SequenceTheorems, TLAPS

-----------------------------------------------------------------------------
(* What the proofs use of the assumption on the constants.                 *)
LEMMA Constants ==
  /\ OrderQty \in Nat /\ MaxInventory \in Nat /\ QtyDivisor \in Nat \ {0}
  /\ FillPrices \subseteq Nat /\ FillQtys \subseteq Nat /\ Fees \subseteq Int
  BY TradingAssumption DEF TradingAssumption

-----------------------------------------------------------------------------
(* Arithmetic.                                                             *)

(* The minimum and the maximum of two, here and inside the instances.      *)
LEMMA MinOfTwo ==
  ASSUME NEW a \in Int, NEW b \in Int
  PROVE  /\ Min({a, b}) = IF a <= b THEN a ELSE b
         /\ Acc!Min({a, b}) = IF a <= b THEN a ELSE b
  BY SMT DEF Min, Acc!Min

(* The maximum of two, so too.                                             *)
LEMMA MaxOfTwo ==
  ASSUME NEW a \in Int, NEW b \in Int
  PROVE  /\ Max({a, b}) = IF a >= b THEN a ELSE b
         /\ Maker!Max({a, b}) = IF a >= b THEN a ELSE b
  BY SMT DEF Max, Maker!Max

(* An exact division leaves the factor.                                    *)
LEMMA ExactDivision ==
  ASSUME NEW a \in Nat, NEW b \in Nat \ {0}
  PROVE  (a * b) \div b = a
  BY SMT

(* Taking all of a position out of its cost basis leaves nothing of it.    *)
LEMMA WholeEntry ==
  ASSUME NEW c \in Int, NEW p \in Int, p # 0
  PROVE  Acc!Quot(c * p, p) = c
  BY ExactDivision, SMT DEF Acc!Quot

(* A quotient is an integer.                                               *)
LEMMA QuotInt ==
  ASSUME NEW a \in Int, NEW b \in Int, b # 0
  PROVE  Acc!Quot(a, b) \in Int
  BY SMT DEF Acc!Quot

(* A value is an integer, of nothing it is nothing.                        *)
LEMMA ValueInt ==
  ASSUME NEW price \in Nat, NEW qty \in Nat
  PROVE  /\ Acc!Value(Acc!LiveUnit, price, qty) \in Int
         /\ Acc!Value(Acc!LiveUnit, price, 0) = 0
  BY Constants, SMT DEF Acc!Value, Acc!LiveUnit

-----------------------------------------------------------------------------
(* One fill in the books.                                                  *)

FillTypes == [side: Sides, price: Nat, qty: Nat, fee: Int]

(* The fills of the gateway have these types.                              *)
LEMMA FillsTyped == Fills \subseteq FillTypes
<1> SUFFICES ASSUME NEW f \in Fills
             PROVE  f \in FillTypes
  OBVIOUS
<1>1. /\ f = [side |-> f.side, price |-> f.price, qty |-> f.qty, fee |-> f.fee]
      /\ f.side \in Sides /\ f.price \in FillPrices /\ f.qty \in FillQtys /\ f.fee \in Fees
  BY DEF Fills
<1>2. f.price \in Nat /\ f.qty \in Nat /\ f.fee \in Int
  BY <1>1, Constants
<1> QED
  BY <1>1, <1>2 DEF FillTypes

(* What a fill may set in the books: position, cost basis, realized PnL.   *)
Update(l, p, c, r) == [l EXCEPT !.position_qty = p, !.cost_basis = c, !.realized_pnl = r]

(* Setting them leaves the rest.                                           *)
LEMMA UpdateTyped ==
  ASSUME NEW l \in Acc!Books, NEW p \in Int, NEW c \in Int, NEW r \in Int
  PROVE  /\ Update(l, p, c, r) \in Acc!Books
         /\ Update(l, p, c, r).position_qty = p
         /\ Update(l, p, c, r).cost_basis = c
         /\ Update(l, p, c, r).realized_pnl = r
         /\ Update(l, p, c, r).last_flat_pnl = l.last_flat_pnl
         /\ Update(l, p, c, r).losses = l.losses
  BY DEF Acc!Books, Update

(* A buy counts up, a sell down; the same in the instance.                 *)
LEMMA Signs ==
  ASSUME NEW f \in FillTypes
  PROVE  /\ Sign(f.side) \in {-1, 1}
         /\ Acc!Sign(f.side) = Sign(f.side)
         /\ f.qty \in Nat /\ f.price \in Nat /\ f.fee \in Int
         /\ f.side = "Buy" \/ f.side = "Sell"
         /\ Sign(f.side) = IF f.side = "Buy" THEN 1 ELSE -1
  BY DEF FillTypes, Sides, Sign, Acc!Sign

NewPosition(l, f) == l.position_qty + Sign(f.side) * f.qty

(* Opening and closing in terms of Update.                                 *)
LEMMA OpenUpdates ==
  ASSUME NEW l \in Acc!Books, NEW f \in FillTypes
  PROVE  Acc!OpenPosition(l, f, Acc!LiveUnit)
           = Update(l, NewPosition(l, f),
                    l.cost_basis + Sign(f.side) * Acc!Value(Acc!LiveUnit, f.price, f.qty),
                    l.realized_pnl)
  BY Signs DEF Acc!OpenPosition, Acc!Move, Update, NewPosition, Acc!Books

(* A sale against a long position as one update of the books.              *)
LEMMA CloseLongUpdates ==
  ASSUME NEW l \in Acc!Books, NEW f \in FillTypes
  PROVE  LET closed == Acc!Min({f.qty, l.position_qty})
             opened == f.qty - closed
         IN  Acc!CloseLong(l, f, Acc!LiveUnit)
               = Update(l, NewPosition(l, f),
                        IF opened > 0 THEN -Acc!Value(Acc!LiveUnit, f.price, opened)
                        ELSE l.cost_basis - Acc!EntryValue(l, closed),
                        l.realized_pnl + Acc!Value(Acc!LiveUnit, f.price, closed)
                          - Acc!EntryValue(l, closed))
  BY Signs DEF Acc!CloseLong, Acc!Move, Update, NewPosition, Acc!Books

(* A purchase against a short position as one update of the books.         *)
LEMMA CloseShortUpdates ==
  ASSUME NEW l \in Acc!Books, NEW f \in FillTypes
  PROVE  LET closed == Acc!Min({f.qty, -l.position_qty})
             opened == f.qty - closed
         IN  Acc!CloseShort(l, f)
               = Update(l, NewPosition(l, f),
                        IF opened > 0 THEN Acc!Value(Acc!LiveUnit, f.price, opened)
                        ELSE l.cost_basis + Acc!Value(Acc!LiveUnit, f.price, closed),
                        l.realized_pnl + Acc!EntryValue(l, closed)
                          - Acc!Value(Acc!LiveUnit, f.price, closed))
  BY Signs DEF Acc!CloseShort, Acc!Move, Update, NewPosition, Acc!Books

(* A fill against a position of size n: what it closes and what it opens.  *)
LEMMA Parts ==
  ASSUME NEW l \in Acc!Books, NEW f \in FillTypes,
         NEW n \in Nat \ {0}, n = l.position_qty \/ n = -l.position_qty
  PROVE  LET closed == Acc!Min({f.qty, n})
         IN  /\ closed = IF f.qty <= n THEN f.qty ELSE n
             /\ closed \in Nat /\ f.qty - closed \in Nat
             /\ Acc!EntryValue(l, closed) \in Int
             /\ Acc!Value(Acc!LiveUnit, f.price, closed) \in Int
             /\ Acc!Value(Acc!LiveUnit, f.price, f.qty - closed) \in Int
<1> DEFINE closed == Acc!Min({f.qty, n})
<1>1. closed = IF f.qty <= n THEN f.qty ELSE n
  <2>1. f.qty \in Int /\ n \in Int
    BY Signs
  <2> QED
    BY <2>1, MinOfTwo
<1> HIDE DEF closed
<1>2. closed \in Nat /\ f.qty - closed \in Nat
  BY <1>1, Signs
<1>3. l.cost_basis * closed \in Int /\ l.position_qty \in Int /\ l.position_qty # 0
  BY <1>2 DEF Acc!Books
<1>4. Acc!EntryValue(l, closed) \in Int
  BY <1>3, QuotInt DEF Acc!EntryValue
<1>5. /\ Acc!Value(Acc!LiveUnit, f.price, closed) \in Int
      /\ Acc!Value(Acc!LiveUnit, f.price, f.qty - closed) \in Int
  BY <1>2, Signs, ValueInt
<1> QED
  BY <1>1, <1>2, <1>4, <1>5 DEF closed

(* TradeLive sets position, cost basis and realized PnL only.              *)
LEMMA TradeTyped ==
  ASSUME NEW l \in Acc!Books, NEW f \in FillTypes
  PROVE  LET t == Acc!TradeLive(l, f)
         IN  /\ t \in Acc!Books
             /\ t.position_qty = NewPosition(l, f)
             /\ t.last_flat_pnl = l.last_flat_pnl
             /\ t.losses = l.losses
<1> DEFINE t == Acc!TradeLive(l, f)
<1>1. NewPosition(l, f) \in Int /\ l.cost_basis \in Int /\ l.realized_pnl \in Int
  BY Signs DEF NewPosition, Acc!Books
<1>2. CASE Acc!Opens(l, f.side)
  <2> DEFINE c == l.cost_basis + Sign(f.side) * Acc!Value(Acc!LiveUnit, f.price, f.qty)
  <2>1. Acc!Value(Acc!LiveUnit, f.price, f.qty) \in Int
    BY Signs, ValueInt
  <2>2. c \in Int
    BY <2>1, <1>1, Signs
  <2>3. t = Update(l, NewPosition(l, f), c, l.realized_pnl)
    BY <1>2, OpenUpdates DEF Acc!TradeLive
  <2> HIDE DEF c, t
  <2> QED
    BY <1>1, <2>2, <2>3, UpdateTyped DEF t
<1>3. CASE ~Acc!Opens(l, f.side) /\ f.side = "Sell"
  <2> DEFINE closed == Acc!Min({f.qty, l.position_qty})
             opened == f.qty - closed
             c == IF opened > 0 THEN -Acc!Value(Acc!LiveUnit, f.price, opened)
                  ELSE l.cost_basis - Acc!EntryValue(l, closed)
             r == l.realized_pnl + Acc!Value(Acc!LiveUnit, f.price, closed)
                    - Acc!EntryValue(l, closed)
  <2>1. l.position_qty \in Nat \ {0}
    BY <1>3 DEF Acc!Opens, Acc!Books
  <2>2. /\ Acc!EntryValue(l, closed) \in Int
        /\ Acc!Value(Acc!LiveUnit, f.price, closed) \in Int
        /\ Acc!Value(Acc!LiveUnit, f.price, opened) \in Int
    BY <2>1, Parts
  <2> HIDE DEF closed, opened
  <2>3. c \in Int /\ r \in Int
    BY <2>2, <1>1
  <2>4. t = Update(l, NewPosition(l, f), c, r)
    BY <1>3, CloseLongUpdates DEF Acc!TradeLive, closed, opened
  <2> HIDE DEF c, r, t
  <2> QED
    BY <1>1, <2>3, <2>4, UpdateTyped DEF t
<1>4. CASE ~Acc!Opens(l, f.side) /\ f.side # "Sell"
  <2> DEFINE closed == Acc!Min({f.qty, -l.position_qty})
             opened == f.qty - closed
             c == IF opened > 0 THEN Acc!Value(Acc!LiveUnit, f.price, opened)
                  ELSE l.cost_basis + Acc!Value(Acc!LiveUnit, f.price, closed)
             r == l.realized_pnl + Acc!EntryValue(l, closed)
                    - Acc!Value(Acc!LiveUnit, f.price, closed)
  <2>1. -l.position_qty \in Nat \ {0}
    BY <1>4, Signs DEF Acc!Opens, Acc!Books
  <2>2. /\ Acc!EntryValue(l, closed) \in Int
        /\ Acc!Value(Acc!LiveUnit, f.price, closed) \in Int
        /\ Acc!Value(Acc!LiveUnit, f.price, opened) \in Int
    BY <2>1, Parts
  <2> HIDE DEF closed, opened
  <2>3. c \in Int /\ r \in Int
    BY <2>2, <1>1
  <2>4. t = Update(l, NewPosition(l, f), c, r)
    BY <1>4, CloseShortUpdates DEF Acc!TradeLive, closed, opened
  <2> HIDE DEF c, r, t
  <2> QED
    BY <1>1, <2>3, <2>4, UpdateTyped DEF t
<1> QED
  BY <1>2, <1>3, <1>4

(* The balance one fill must keep: the realized PnL is the cash and the    *)
(* cost basis, and a flat position has cost nothing.                       *)
Balanced(l, cash) ==
  /\ l.realized_pnl = cash + l.cost_basis
  /\ l.position_qty = 0 => l.cost_basis = 0

(* A trade that closes no short keeps the books balanced.                  *)
LEMMA TradeBalances ==
  ASSUME NEW l \in Acc!Books, NEW f \in FillTypes, NEW cash \in Int,
         Balanced(l, cash), ~(f.side = "Buy" /\ l.position_qty < 0)
  PROVE  /\ FillCash(l, f, Acc!LiveUnit) \in Int
         /\ Balanced(Acc!TradeLive(l, f), cash + FillCash(l, f, Acc!LiveUnit) + f.fee)
<1> DEFINE t == Acc!TradeLive(l, f)
           V(qty) == Acc!Value(Acc!LiveUnit, f.price, qty)
<1>1. /\ NewPosition(l, f) \in Int /\ l.cost_basis \in Int /\ l.realized_pnl \in Int
      /\ l.position_qty \in Int
  BY Signs DEF NewPosition, Acc!Books
<1>2. CASE Acc!Opens(l, f.side)
  <2> DEFINE c == l.cost_basis + Sign(f.side) * V(f.qty)
  <2>1. V(f.qty) \in Int /\ V(0) = 0 /\ f.qty - 0 = f.qty
    BY Signs, ValueInt
  <2>2. FillCash(l, f, Acc!LiveUnit) = -Sign(f.side) * (V(0) + V(f.qty)) - f.fee
    BY <1>2, <2>1 DEF FillCash
  <2> HIDE DEF V
  <2>3. FillCash(l, f, Acc!LiveUnit) = -Sign(f.side) * V(f.qty) - f.fee
    BY <2>1, <2>2
  <2>4. c \in Int
    BY <2>1, <1>1, Signs
  <2>5. t = Update(l, NewPosition(l, f), c, l.realized_pnl)
    BY <1>2, OpenUpdates DEF Acc!TradeLive, V
  <2>6. t.cost_basis = c /\ t.realized_pnl = l.realized_pnl /\ t.position_qty = NewPosition(l, f)
    BY <2>4, <2>5, <1>1, UpdateTyped
  <2>7. NewPosition(l, f) = 0 => l.position_qty = 0 /\ f.qty = 0
    BY <1>1, <1>2, Signs DEF NewPosition, Acc!Opens
  <2>8. f.qty = 0 => V(f.qty) = 0
    BY <2>1
  <2>9. FillCash(l, f, Acc!LiveUnit) \in Int
    BY <2>1, <2>3, Signs
  <2>10. t.realized_pnl = cash + FillCash(l, f, Acc!LiveUnit) + f.fee + t.cost_basis
    BY <2>1, <2>3, <2>6, <1>1, Signs DEF Balanced
  <2>11. t.position_qty = 0 => t.cost_basis = 0
    BY <2>6, <2>7, <2>8, <1>1, Signs DEF Balanced
  <2> QED
    BY <2>9, <2>10, <2>11 DEF Balanced
<1>3. CASE ~Acc!Opens(l, f.side) /\ f.side = "Sell"
  <2> DEFINE closed == Acc!Min({f.qty, l.position_qty})
             opened == f.qty - closed
             e == Acc!EntryValue(l, closed)
             c == IF opened > 0 THEN -V(opened) ELSE l.cost_basis - e
             r == l.realized_pnl + V(closed) - e
  <2>1. l.position_qty \in Nat \ {0}
    BY <1>3 DEF Acc!Opens, Acc!Books
  <2>2. /\ closed = IF f.qty <= l.position_qty THEN f.qty ELSE l.position_qty
        /\ closed \in Nat /\ opened \in Nat
        /\ e \in Int /\ V(closed) \in Int /\ V(opened) \in Int
    BY <2>1, Parts
  <2>3. V(0) = 0
    BY Signs, ValueInt
  <2>4. closed = l.position_qty => e = l.cost_basis
    <3>1. Acc!Quot(l.cost_basis * l.position_qty, l.position_qty) = l.cost_basis
      BY <2>1, <1>1, WholeEntry
    <3>2. e = Acc!Quot(l.cost_basis * closed, l.position_qty)
      BY DEF Acc!EntryValue
    <3> HIDE DEF closed, e
    <3> QED
      BY <3>1, <3>2
  <2>5. FillCash(l, f, Acc!LiveUnit) = V(closed) + V(opened) - f.fee
    <3>1. Min({f.qty, Magnitude(l.position_qty)}) = closed
      <4>1. Magnitude(l.position_qty) = l.position_qty
        BY <2>1 DEF Magnitude
      <4>2. Min({f.qty, l.position_qty}) = closed
        BY <2>1, <2>2, Signs, MinOfTwo
      <4> QED
        BY <4>1, <4>2
    <3>2. FillCash(l, f, Acc!LiveUnit) = -Sign(f.side) * (V(closed) + V(opened)) - f.fee
      BY <1>3, <3>1 DEF FillCash
    <3>3. Sign(f.side) = -1
      BY <1>3, Signs
    <3> HIDE DEF closed, opened, V
    <3> QED
      BY <3>2, <3>3, <2>2, Signs
  <2>6. t = Update(l, NewPosition(l, f), c, r)
    BY <1>3, CloseLongUpdates DEF Acc!TradeLive
  <2>7. NewPosition(l, f) = l.position_qty - f.qty
    BY <1>1, <1>3, Signs DEF NewPosition
  <2>8. opened = f.qty - closed
    OBVIOUS
  <2> HIDE DEF closed, opened, V, e
  <2>9. c \in Int /\ r \in Int
    BY <2>2, <1>1
  <2>10. t.cost_basis = c /\ t.realized_pnl = r /\ t.position_qty = NewPosition(l, f)
    BY <2>6, <2>9, <1>1, UpdateTyped
  <2>11. FillCash(l, f, Acc!LiveUnit) \in Int
    BY <2>2, <2>5, Signs
  <2>12. opened = 0 => V(opened) = 0
    BY <2>3
  <2>13. opened > 0 => e = l.cost_basis
    BY <2>1, <2>2, <2>4, <2>8, Signs
  <2>14. t.realized_pnl = cash + FillCash(l, f, Acc!LiveUnit) + f.fee + t.cost_basis
    <3>1. l.realized_pnl = cash + l.cost_basis
      BY DEF Balanced
    <3>2. f.fee \in Int
      BY Signs
    <3>3. CASE opened > 0
      <4>1. e = l.cost_basis /\ c = -V(opened)
        BY <2>13, <3>3 DEF c
      <4> HIDE DEF c, r
      <4>2. t.realized_pnl = l.realized_pnl + V(closed) - l.cost_basis
        BY <2>10, <4>1 DEF r
      <4> QED
        BY <2>2, <2>5, <2>10, <3>1, <3>2, <4>1, <4>2, <1>1
    <3>4. CASE ~(opened > 0)
      <4>1. V(opened) = 0 /\ c = l.cost_basis - e
        BY <2>2, <2>12, <3>4 DEF c
      <4> HIDE DEF c, r
      <4>2. t.realized_pnl = l.realized_pnl + V(closed) - e
        BY <2>10 DEF r
      <4> QED
        BY <2>2, <2>5, <2>10, <3>1, <3>2, <4>1, <4>2, <1>1
    <3> QED
      BY <3>3, <3>4
  <2>15. t.position_qty = 0 => t.cost_basis = 0
    <3>1. NewPosition(l, f) = 0 => opened = 0 /\ closed = l.position_qty
      BY <2>1, <2>2, <2>7, <2>8, Signs
    <3> QED
      BY <3>1, <2>2, <2>4, <2>10, <1>1
  <2> QED
    BY <2>11, <2>14, <2>15 DEF Balanced
<1>4. f.side = "Buy" => Acc!Opens(l, f.side)
  BY <1>1 DEF Acc!Opens
<1> QED
  BY <1>2, <1>3, <1>4, Signs

-----------------------------------------------------------------------------
(* One fill in the live loop, judged.                                      *)

(* The history that goes with the books.                                   *)
HistTyped(h) ==
  /\ DOMAIN h = DOMAIN NoHistory
  /\ {h.cash, h.flat_cash, h.net, h.lowest, h.highest} \subseteq Int
  /\ h.streak \in Nat
  /\ h.short_closed \in BOOLEAN

(* The strengthening of LiveBooksBalance and JudgedByCash: until a short   *)
(* is closed the books balance, and the last judgement saw the cash of     *)
(* that moment.                                                            *)
Judged(l, h) ==
  ~h.short_closed => /\ Balanced(l, h.cash)
                     /\ l.last_flat_pnl = h.flat_cash
                     /\ l.losses = h.streak

(* The fee is taken from realized_pnl and nothing else.                    *)
LEMMA PayFeeTyped ==
  ASSUME NEW l \in Acc!Books, NEW fee \in Int
  PROVE  LET t == Acc!PayFee(l, fee)
         IN  /\ t \in Acc!Books
             /\ t.position_qty = l.position_qty /\ t.cost_basis = l.cost_basis
             /\ t.realized_pnl = l.realized_pnl - fee
             /\ t.last_flat_pnl = l.last_flat_pnl /\ t.losses = l.losses
  BY DEF Acc!PayFee, Acc!Books

(* A judgement sets the streak and the mark of the last flat position.     *)
LEMMA JudgeTyped ==
  ASSUME NEW l \in Acc!Books
  PROVE  LET t == Acc!Judge(l)
         IN  /\ t \in Acc!Books
             /\ t.position_qty = l.position_qty /\ t.cost_basis = l.cost_basis
             /\ t.realized_pnl = l.realized_pnl
             /\ t.last_flat_pnl = IF l.position_qty = 0 THEN l.realized_pnl ELSE l.last_flat_pnl
             /\ t.losses = IF l.position_qty # 0 THEN l.losses
                           ELSE IF l.realized_pnl - l.last_flat_pnl >= 0 THEN 0 ELSE l.losses + 1
<1> DEFINE n == IF l.realized_pnl - l.last_flat_pnl >= 0 THEN 0 ELSE l.losses + 1
<1>1. n \in Nat /\ l.realized_pnl \in Int
  BY DEF Acc!Books
<1>2. CASE l.position_qty # 0
  BY <1>2 DEF Acc!Judge
<1>3. CASE l.position_qty = 0
  <2>1. Acc!Judge(l) = [l EXCEPT !.losses = n, !.last_flat_pnl = l.realized_pnl]
    BY <1>3 DEF Acc!Judge, Acc!Books
  <2> HIDE DEF n
  <2>2. LET t == [l EXCEPT !.losses = n, !.last_flat_pnl = l.realized_pnl]
        IN  /\ t \in Acc!Books
            /\ t.position_qty = l.position_qty /\ t.cost_basis = l.cost_basis
            /\ t.realized_pnl = l.realized_pnl
            /\ t.last_flat_pnl = l.realized_pnl
            /\ t.losses = n
    BY <1>1 DEF Acc!Books
  <2> QED
    BY <1>3, <2>1, <2>2 DEF n
<1> QED
  BY <1>2, <1>3

(* The history of the money keeps the history of the fills ...             *)
LEMMA CountCashTyped ==
  ASSUME NEW h, HistTyped(h), NEW l \in Acc!Books, NEW f \in FillTypes,
         FillCash(l, f, Acc!LiveUnit) \in Int
  PROVE  LET k == CountCash(h, l, f, Acc!LiveUnit)
             flat == NewPosition(l, f) = 0
             cash == h.cash + FillCash(l, f, Acc!LiveUnit)
         IN  /\ HistTyped(k)
             /\ k.cash = cash
             /\ k.flat_cash = IF flat THEN cash ELSE h.flat_cash
             /\ k.streak = IF ~flat THEN h.streak
                           ELSE IF cash - h.flat_cash >= 0 THEN 0 ELSE h.streak + 1
             /\ k.short_closed = (h.short_closed \/ (f.side = "Buy" /\ l.position_qty < 0))
             /\ k.net = h.net /\ k.lowest = h.lowest /\ k.highest = h.highest
  BY DEF CountCash, HistTyped, NoHistory, NewPosition

(* ... and the other way round.                                            *)
LEMMA CountNetTyped ==
  ASSUME NEW h, HistTyped(h), NEW f \in FillTypes
  PROVE  LET k == CountNet(h, f)
             net == h.net + Sign(f.side) * f.qty
         IN  /\ HistTyped(k)
             /\ k.net = net
             /\ k.lowest = (IF h.lowest <= net THEN h.lowest ELSE net)
             /\ k.highest = (IF h.highest >= net THEN h.highest ELSE net)
             /\ k.cash = h.cash /\ k.flat_cash = h.flat_cash /\ k.streak = h.streak
             /\ k.short_closed = h.short_closed
  BY Signs, MinOfTwo, MaxOfTwo DEF CountNet, HistTyped, NoHistory

(* The money a fill moves is an integer.                                   *)
LEMMA FillCashInt ==
  ASSUME NEW l \in Acc!Books, NEW f \in FillTypes
  PROVE  FillCash(l, f, Acc!LiveUnit) \in Int
<1> DEFINE closed == IF Acc!Opens(l, f.side) THEN 0 ELSE Min({f.qty, Magnitude(l.position_qty)})
           V(qty) == Acc!Value(Acc!LiveUnit, f.price, qty)
<1>1. Magnitude(l.position_qty) \in Nat
  BY DEF Magnitude, Acc!Books
<1>2. closed \in Nat /\ f.qty - closed \in Nat
  BY <1>1, Signs, MinOfTwo
<1>3. FillCash(l, f, Acc!LiveUnit) = -Sign(f.side) * (V(closed) + V(f.qty - closed)) - f.fee
  BY DEF FillCash
<1> HIDE DEF closed
<1>4. V(closed) \in Int /\ V(f.qty - closed) \in Int
  BY <1>2, Signs, ValueInt
<1> HIDE DEF V
<1> QED
  BY <1>3, <1>4, Signs

(* A fill keeps the types of books and history.                            *)
LEMMA FillTyped ==
  ASSUME NEW l \in Acc!Books, NEW h, HistTyped(h), NEW f \in FillTypes
  PROVE  /\ Acc!LiveFill(l, f) \in Acc!Books
         /\ HistTyped(CountNet(CountCash(h, l, f, Acc!LiveUnit), f))
<1>1. Acc!TradeLive(l, f) \in Acc!Books
  BY TradeTyped
<1>2. Acc!PayFee(Acc!TradeLive(l, f), f.fee) \in Acc!Books
  BY <1>1, PayFeeTyped, Signs
<1>3. Acc!LiveFill(l, f) \in Acc!Books
  BY <1>2, JudgeTyped DEF Acc!LiveFill
<1>4. HistTyped(CountCash(h, l, f, Acc!LiveUnit))
  BY FillCashInt, CountCashTyped
<1> QED
  BY <1>3, <1>4, CountNetTyped

(* A fill keeps the books judged by their cash.                            *)
LEMMA FillJudged ==
  ASSUME NEW l \in Acc!Books, NEW h, HistTyped(h), NEW f \in FillTypes,
         Judged(l, h)
  PROVE  Judged(Acc!LiveFill(l, f), CountNet(CountCash(h, l, f, Acc!LiveUnit), f))
<1> DEFINE t == Acc!TradeLive(l, f)
           u == Acc!PayFee(t, f.fee)
           v == Acc!Judge(u)
           cash == h.cash + FillCash(l, f, Acc!LiveUnit)
           k == CountCash(h, l, f, Acc!LiveUnit)
           n == CountNet(k, f)
<1>1. Acc!LiveFill(l, f) = v
  BY DEF Acc!LiveFill
<1>2. FillCash(l, f, Acc!LiveUnit) \in Int /\ cash \in Int /\ f.fee \in Int
  BY FillCashInt, Signs DEF HistTyped
<1>3. /\ t \in Acc!Books /\ t.position_qty = NewPosition(l, f)
      /\ t.last_flat_pnl = l.last_flat_pnl /\ t.losses = l.losses
  BY TradeTyped
<1>4. /\ u \in Acc!Books /\ u.position_qty = NewPosition(l, f)
      /\ u.cost_basis = t.cost_basis /\ u.realized_pnl = t.realized_pnl - f.fee
      /\ u.last_flat_pnl = l.last_flat_pnl /\ u.losses = l.losses
  BY <1>2, <1>3, PayFeeTyped
<1>5. /\ v.position_qty = NewPosition(l, f)
      /\ v.cost_basis = t.cost_basis /\ v.realized_pnl = t.realized_pnl - f.fee
      /\ v.last_flat_pnl = IF NewPosition(l, f) = 0 THEN t.realized_pnl - f.fee ELSE l.last_flat_pnl
      /\ v.losses = IF NewPosition(l, f) # 0 THEN l.losses
                    ELSE IF t.realized_pnl - f.fee - l.last_flat_pnl >= 0 THEN 0 ELSE l.losses + 1
  BY <1>4, JudgeTyped
<1>6. /\ HistTyped(k)
      /\ k.cash = cash
      /\ k.flat_cash = IF NewPosition(l, f) = 0 THEN cash ELSE h.flat_cash
      /\ k.streak = IF NewPosition(l, f) # 0 THEN h.streak
                    ELSE IF cash - h.flat_cash >= 0 THEN 0 ELSE h.streak + 1
      /\ k.short_closed = (h.short_closed \/ (f.side = "Buy" /\ l.position_qty < 0))
  BY <1>2, CountCashTyped
<1>7. /\ n.cash = k.cash /\ n.flat_cash = k.flat_cash /\ n.streak = k.streak
      /\ n.short_closed = k.short_closed
  BY <1>6, CountNetTyped
<1>8. ASSUME ~n.short_closed
      PROVE  /\ Balanced(v, n.cash) /\ v.last_flat_pnl = n.flat_cash /\ v.losses = n.streak
  <2>1. ~h.short_closed /\ ~(f.side = "Buy" /\ l.position_qty < 0)
    <3> DEFINE short == h.short_closed \/ (f.side = "Buy" /\ l.position_qty < 0)
    <3>1. n.short_closed = short
      BY <1>6, <1>7
    <3> HIDE DEF k, n, short
    <3>2. ~short
      BY <1>8, <3>1
    <3> QED
      BY <3>2 DEF short
  <2>2. Balanced(l, h.cash) /\ l.last_flat_pnl = h.flat_cash /\ l.losses = h.streak
    BY <2>1 DEF Judged
  <2>3. h.cash \in Int
    BY DEF HistTyped
  <2>4. Balanced(t, h.cash + FillCash(l, f, Acc!LiveUnit) + f.fee)
    BY <2>1, <2>2, <2>3, TradeBalances
  <2>5. /\ t.realized_pnl \in Int /\ t.cost_basis \in Int
        /\ t.realized_pnl = cash + f.fee + t.cost_basis
    BY <1>3, <2>4 DEF Balanced, Acc!Books
  <2>6. NewPosition(l, f) = 0 => t.cost_basis = 0
    BY <1>3, <2>4 DEF Balanced
  <2> HIDE DEF t, u, v, k, n, cash
  <2>7. t.realized_pnl - f.fee = cash + t.cost_basis
    BY <1>2, <2>5
  <2>8. Balanced(v, n.cash)
    BY <1>5, <1>6, <1>7, <2>6, <2>7 DEF Balanced
  <2>9. NewPosition(l, f) = 0 => t.realized_pnl - f.fee = cash
    BY <1>2, <2>6, <2>7
  <2>10. v.last_flat_pnl = n.flat_cash
    BY <1>5, <1>6, <1>7, <2>2, <2>9
  <2>11. v.losses = n.streak
    BY <1>5, <1>6, <1>7, <2>2, <2>9
  <2> QED
    BY <2>8, <2>10, <2>11
<1> QED
  BY <1>1, <1>8 DEF Judged

-----------------------------------------------------------------------------
(* The inventories.                                                        *)

(* Neither a book update nor a trade moves an inventory.                   *)
LEMMA HotPathKeepsInventory ==
  ASSUME NEW e, "position_qty" \in DOMAIN e, NEW u, NEW t
  PROVE  /\ "position_qty" \in DOMAIN HP!OnBookUpdate(e, u).engine
         /\ HP!OnBookUpdate(e, u).engine.position_qty = e.position_qty
         /\ "position_qty" \in DOMAIN HP!OnTrade(e, t).engine
         /\ HP!OnTrade(e, t).engine.position_qty = e.position_qty
<1>1. \A x : "position_qty" \in DOMAIN x =>
         /\ "position_qty" \in DOMAIN HP!ApplyBook(x, u)
         /\ HP!ApplyBook(x, u).position_qty = x.position_qty
  BY DEF HP!ApplyBook
<1>2. \A x, fv : "position_qty" \in DOMAIN x =>
         /\ "position_qty" \in DOMAIN HP!GenerateQuotes(x, fv).engine
         /\ HP!GenerateQuotes(x, fv).engine.position_qty = x.position_qty
  BY DEF HP!GenerateQuotes
<1>3. \A x, y, n : "position_qty" \in DOMAIN x =>
         /\ "position_qty" \in DOMAIN HP!CountTrade(x, y, n)
         /\ HP!CountTrade(x, y, n).position_qty = x.position_qty
  BY DEF HP!CountTrade
<1>4. \A x : "position_qty" \in DOMAIN x =>
         /\ "position_qty" \in DOMAIN HP!EvictTrade(x)
         /\ HP!EvictTrade(x).position_qty = x.position_qty
  BY <1>3 DEF HP!EvictTrade
<1>5. /\ "position_qty" \in DOMAIN HP!RecordTrade(e, t)
      /\ HP!RecordTrade(e, t).position_qty = e.position_qty
  BY <1>3, <1>4 DEF HP!RecordTrade
<1>6. /\ "position_qty" \in DOMAIN HP!OnTrade(e, t).engine
      /\ HP!OnTrade(e, t).engine.position_qty = e.position_qty
  BY <1>5 DEF HP!OnTrade
<1>7. /\ "position_qty" \in DOMAIN HP!OnBookUpdate(e, u).engine
      /\ HP!OnBookUpdate(e, u).engine.position_qty = e.position_qty
  <2> DEFINE ticked == [HP!ApplyBook(e, u) EXCEPT !.tick_count = @ + 1, !.ticks_since_quote = @ + 1]
             fair_value == HP!FairValue(ticked)
  <2>1. "position_qty" \in DOMAIN ticked /\ ticked.position_qty = e.position_qty
    BY <1>1
  <2>2. HP!OnBookUpdate(e, u) =
          IF fair_value # 0 /\ HP!ShouldRequote(ticked, fair_value)
          THEN HP!GenerateQuotes(ticked, fair_value)
          ELSE [engine |-> ticked, commands |-> <<>>]
    BY DEF HP!OnBookUpdate
  <2> HIDE DEF ticked, fair_value
  <2> QED
    BY <1>2, <2>1, <2>2
<1> QED
  BY <1>6, <1>7

(* The market maker likewise.                                              *)
LEMMA MakerKeepsInventory ==
  ASSUME NEW m, "position_qty" \in DOMAIN m, NEW u, NEW t
  PROVE  /\ "position_qty" \in DOMAIN Maker!OnBook(m, u)
         /\ Maker!OnBook(m, u).position_qty = m.position_qty
         /\ "position_qty" \in DOMAIN Maker!OnTrade(m, t)
         /\ Maker!OnTrade(m, t).position_qty = m.position_qty
<1>1. \A x, fv : "position_qty" \in DOMAIN x =>
         /\ "position_qty" \in DOMAIN Maker!MakerQuotes(x, fv)
         /\ Maker!MakerQuotes(x, fv).position_qty = x.position_qty
  BY DEF Maker!MakerQuotes
<1>2. \A x, p : "position_qty" \in DOMAIN x =>
         /\ "position_qty" \in DOMAIN Maker!UpdateVolatility(x, p)
         /\ Maker!UpdateVolatility(x, p).position_qty = x.position_qty
  BY DEF Maker!UpdateVolatility
<1>3. \A x : "position_qty" \in DOMAIN x =>
         /\ "position_qty" \in DOMAIN Maker!InsertTrade(x, t)
         /\ Maker!InsertTrade(x, t).position_qty = x.position_qty
  BY DEF Maker!InsertTrade
<1>4. \A x : "position_qty" \in DOMAIN x =>
         /\ "position_qty" \in DOMAIN Maker!EvictOld(x)
         /\ Maker!EvictOld(x).position_qty = x.position_qty
  BY DEF Maker!EvictOld
<1>5. /\ "position_qty" \in DOMAIN Maker!OnTrade(m, t)
      /\ Maker!OnTrade(m, t).position_qty = m.position_qty
  BY <1>2, <1>3, <1>4 DEF Maker!OnTrade
<1>6. /\ "position_qty" \in DOMAIN Maker!OnBook(m, u)
      /\ Maker!OnBook(m, u).position_qty = m.position_qty
  BY <1>1 DEF Maker!OnBook
<1> QED
  BY <1>5, <1>6

(* A fill moves both, one clamped, the other never below zero.             *)
LEMMA FillMoves ==
  ASSUME NEW f \in FillTypes,
         NEW e, "position_qty" \in DOMAIN e, e.position_qty \in Int,
         NEW m, "position_qty" \in DOMAIN m, m.position_qty \in Int
  PROVE  /\ "position_qty" \in DOMAIN HP!OnFill(e, f.side, f.qty)
         /\ HP!OnFill(e, f.side, f.qty).position_qty
              = HP!Clamp(e.position_qty + Sign(f.side) * f.qty, -MaxInventory, MaxInventory)
         /\ "position_qty" \in DOMAIN Maker!OnFill(m, f.side, f.qty)
         /\ Maker!OnFill(m, f.side, f.qty).position_qty
              = LET moved == m.position_qty + Sign(f.side) * f.qty
                IN  IF moved >= 0 THEN moved ELSE 0
<1>1. HP!Sign(f.side) = Sign(f.side) /\ Maker!Sign(f.side) = Sign(f.side)
  BY DEF HP!Sign, Maker!Sign, Sign
<1>2. /\ "position_qty" \in DOMAIN HP!OnFill(e, f.side, f.qty)
      /\ HP!OnFill(e, f.side, f.qty).position_qty
           = HP!Clamp(e.position_qty + Sign(f.side) * f.qty, -MaxInventory, MaxInventory)
  BY <1>1 DEF HP!OnFill
<1> DEFINE moved == m.position_qty + Sign(f.side) * f.qty
<1>3. moved \in Int
  BY Signs
<1>4. /\ "position_qty" \in DOMAIN Maker!AddFill(m, f.side, f.qty)
      /\ Maker!AddFill(m, f.side, f.qty).position_qty = Maker!Max({moved, 0})
  BY <1>1 DEF Maker!AddFill
<1>5. /\ "position_qty" \in DOMAIN Maker!OnFill(m, f.side, f.qty)
      /\ Maker!OnFill(m, f.side, f.qty).position_qty = Maker!Max({moved, 0})
  BY <1>4 DEF Maker!OnFill
<1> HIDE DEF moved
<1>6. Maker!Max({moved, 0}) = IF moved >= 0 THEN moved ELSE 0
  BY <1>3, SMT DEF Maker!Max
<1> QED
  BY <1>2, <1>5, <1>6 DEF moved

-----------------------------------------------------------------------------
(* The inductive invariant, of the live loop.                              *)

HoldsPosition(r) == "position_qty" \in DOMAIN r /\ r.position_qty \in Int

Inventories ==
  /\ mm.position_qty = hist.net - hist.lowest /\ hist.lowest <= hist.net
  /\ (hist.lowest >= -MaxInventory /\ hist.highest <= MaxInventory) => hp.position_qty = hist.net

LiveInv ==
  /\ ledger \in Acc!Books
  /\ HistTyped(hist)
  /\ HoldsPosition(hp) /\ HoldsPosition(mm)
  /\ Judged(ledger, hist)
  /\ Inventories

(* The invariant holds initially ...                                       *)
LEMMA LiveInit ==
  ASSUME Init
  PROVE  LiveInv
<1>1. /\ ledger = [position_qty |-> 0, cost_basis |-> 0, realized_pnl |-> 0, last_flat_pnl |-> 0,
                   losses |-> 0]
      /\ ledger \in Acc!Books
  BY DEF Init, Acc!NewLedger, Acc!Books
<1>2. hist = NoHistory /\ HistTyped(hist)
  BY DEF Init, NoHistory, HistTyped
<1>3. HoldsPosition(hp) /\ hp.position_qty = 0
  BY DEF Init, HP!NewEngine, HoldsPosition
<1>4. HoldsPosition(mm) /\ mm.position_qty = 0
  BY DEF Init, Maker!NewMaker, HoldsPosition
<1>5. Judged(ledger, hist)
  BY <1>1, <1>2 DEF Judged, Balanced, NoHistory
<1>6. Inventories
  BY <1>2, <1>3, <1>4 DEF Inventories, NoHistory
<1> QED
  BY <1>1, <1>2, <1>3, <1>4, <1>5, <1>6 DEF LiveInv

(* ... and after a book update: books and inventories are left alone,      *)
LEMMA BookUpdateStep ==
  ASSUME LiveInv, NEW venue, NEW u, LiveBookUpdate(venue, u)
  PROVE  LiveInv'
<1>1. ledger' = ledger /\ hist' = [hist EXCEPT !.fits = Fits(hist, book, u)]
  BY DEF LiveBookUpdate
<1>2. HoldsPosition(hp)' /\ hp'.position_qty = hp.position_qty
  <2>1. hp' = HP!OnBookUpdate(hp, u).engine
    BY DEF LiveBookUpdate
  <2> QED
    BY <2>1, HotPathKeepsInventory DEF LiveInv, HoldsPosition
<1>3. HoldsPosition(mm)' /\ mm'.position_qty = mm.position_qty
  <2>1. mm' = Maker!OnBook(mm, u) \/ mm' = mm
    BY DEF LiveBookUpdate
  <2> QED
    BY <2>1, MakerKeepsInventory DEF LiveInv, HoldsPosition
<1>4. /\ HistTyped(hist)'
      /\ hist'.cash = hist.cash /\ hist'.flat_cash = hist.flat_cash /\ hist'.streak = hist.streak
      /\ hist'.short_closed = hist.short_closed
      /\ hist'.net = hist.net /\ hist'.lowest = hist.lowest /\ hist'.highest = hist.highest
  BY <1>1 DEF LiveInv, HistTyped, NoHistory
<1>5. Judged(ledger, hist)'
  BY <1>1, <1>4 DEF LiveInv, Judged, Balanced
<1>6. Inventories'
  BY <1>2, <1>3, <1>4 DEF LiveInv, Inventories
<1> QED
  BY <1>1, <1>2, <1>3, <1>4, <1>5, <1>6 DEF LiveInv

(* after a trade, likewise,                                                *)
LEMMA TradeStep ==
  ASSUME LiveInv, NEW t, LiveTrade(t)
  PROVE  LiveInv'
<1>1. ledger' = ledger /\ hist' = hist
  BY DEF LiveTrade
<1>2. HoldsPosition(hp)' /\ hp'.position_qty = hp.position_qty
  <2>1. hp' = HP!OnTrade(hp, t).engine
    BY DEF LiveTrade
  <2> QED
    BY <2>1, HotPathKeepsInventory DEF LiveInv, HoldsPosition
<1>3. HoldsPosition(mm)' /\ mm'.position_qty = mm.position_qty
  <2>1. mm' = Maker!OnTrade(mm, t)
    BY DEF LiveTrade
  <2> QED
    BY <2>1, MakerKeepsInventory DEF LiveInv, HoldsPosition
<1>4. HistTyped(hist)' /\ Judged(ledger, hist)'
  BY <1>1 DEF LiveInv, HistTyped, Judged, Balanced
<1>5. Inventories'
  BY <1>1, <1>2, <1>3 DEF LiveInv, Inventories
<1> QED
  BY <1>1, <1>2, <1>3, <1>4, <1>5 DEF LiveInv

(* after a fill, which moves everything,                                   *)
LEMMA FillStep ==
  ASSUME LiveInv, NEW f \in Fills, QuoteFill(f)
  PROVE  LiveInv'
<1>1. f \in FillTypes
  BY FillsTyped
<1>2. /\ ledger' = Acc!LiveFill(ledger, f)
      /\ hist' = CountNet(CountCash(hist, ledger, f, Acc!LiveUnit), f)
      /\ hp' = HP!OnFill(hp, f.side, f.qty)
      /\ mm' = Maker!OnFill(mm, f.side, f.qty)
  BY DEF QuoteFill, GatewayFill
<1>3. ledger' \in Acc!Books /\ HistTyped(hist)'
  <2>1. ledger' \in Acc!Books /\ HistTyped(CountNet(CountCash(hist, ledger, f, Acc!LiveUnit), f))
    BY <1>1, <1>2, FillTyped DEF LiveInv
  <2> QED
    BY <1>2, <2>1 DEF HistTyped
<1>4. Judged(ledger, hist)'
  <2>1. Judged(Acc!LiveFill(ledger, f), CountNet(CountCash(hist, ledger, f, Acc!LiveUnit), f))
    BY <1>1, FillJudged DEF LiveInv
  <2> QED
    BY <1>2, <2>1 DEF Judged, Balanced
<1> DEFINE delta == Sign(f.side) * f.qty
<1>5. delta \in Int /\ MaxInventory \in Nat
  BY <1>1, Signs, Constants
<1>6. /\ hist'.net = hist.net + delta
      /\ hist'.lowest = IF hist.lowest <= hist.net + delta THEN hist.lowest ELSE hist.net + delta
      /\ hist'.highest = IF hist.highest >= hist.net + delta THEN hist.highest ELSE hist.net + delta
  <2> DEFINE k == CountCash(hist, ledger, f, Acc!LiveUnit)
  <2>1. HistTyped(k) /\ k.net = hist.net /\ k.lowest = hist.lowest /\ k.highest = hist.highest
    BY <1>1, FillCashInt, CountCashTyped DEF LiveInv
  <2> HIDE DEF k
  <2>2. hist' = CountNet(k, f)
    BY <1>2 DEF k
  <2> QED
    BY <1>1, <2>1, <2>2, CountNetTyped
<1>7. /\ "position_qty" \in DOMAIN hp'
      /\ hp'.position_qty = HP!Clamp(hp.position_qty + delta, -MaxInventory, MaxInventory)
      /\ "position_qty" \in DOMAIN mm'
      /\ mm'.position_qty = LET moved == mm.position_qty + delta
                            IN  IF moved >= 0 THEN moved ELSE 0
  BY <1>1, <1>2, FillMoves DEF LiveInv, HoldsPosition
<1> HIDE DEF delta
<1>8. /\ hp.position_qty \in Int /\ mm.position_qty \in Int
      /\ hist.net \in Int /\ hist.lowest \in Int /\ hist.highest \in Int
  BY DEF LiveInv, HoldsPosition, HistTyped
<1>9. HoldsPosition(hp)' /\ HoldsPosition(mm)'
  BY <1>5, <1>7, <1>8 DEF HoldsPosition, HP!Clamp
<1>10. mm'.position_qty = hist'.net - hist'.lowest /\ hist'.lowest <= hist'.net
  BY <1>5, <1>6, <1>7, <1>8 DEF LiveInv, Inventories
<1>11. ASSUME hist'.lowest >= -MaxInventory, hist'.highest <= MaxInventory
       PROVE  hp'.position_qty = hist'.net
  <2>1. hist.lowest >= -MaxInventory /\ hist.highest <= MaxInventory
    BY <1>5, <1>6, <1>8, <1>11
  <2>2. hp.position_qty = hist.net
    BY <2>1 DEF LiveInv, Inventories
  <2>3. -MaxInventory <= hist.net + delta /\ hist.net + delta <= MaxInventory
    BY <1>5, <1>6, <1>8, <1>11
  <2> QED
    BY <1>5, <1>6, <1>7, <1>8, <2>2, <2>3 DEF HP!Clamp
<1>12. Inventories'
  BY <1>10, <1>11 DEF Inventories
<1> QED
  BY <1>3, <1>4, <1>9, <1>12 DEF LiveInv

(* after midnight, when the books start anew and the inventories do not.   *)
LEMMA MidnightStep ==
  ASSUME LiveInv, Midnight
  PROVE  LiveInv'
<1>1. /\ ledger' = [position_qty |-> 0, cost_basis |-> 0, realized_pnl |-> 0, last_flat_pnl |-> 0,
                    losses |-> 0]
      /\ ledger' \in Acc!Books
  BY DEF Midnight, Acc!DailyReset, Acc!NewLedger, Acc!Books
<1>2. /\ hist' = CountMidnight(hist)
      /\ hp' = hp /\ mm' = mm
  BY DEF Midnight
<1>3. /\ HistTyped(hist)'
      /\ hist'.cash = 0 /\ hist'.flat_cash = 0 /\ hist'.streak = 0 /\ hist'.short_closed = FALSE
      /\ hist'.net = hist.net /\ hist'.lowest = hist.lowest /\ hist'.highest = hist.highest
  BY <1>2 DEF LiveInv, HistTyped, NoHistory, CountMidnight
<1>4. Judged(ledger, hist)'
  BY <1>1, <1>3 DEF Judged, Balanced
<1>5. Inventories' /\ HoldsPosition(hp)' /\ HoldsPosition(mm)'
  BY <1>2, <1>3 DEF LiveInv, Inventories, HoldsPosition
<1> QED
  BY <1>1, <1>3, <1>4, <1>5 DEF LiveInv

(* Steps of the backtest and the harness happen in their own modes.        *)
LEMMA LiveNext ==
  ASSUME Live => LiveInv, [Next]_vars
  PROVE  (Live => LiveInv)'
<1>1. CASE \E l \in LiveUpdates : LiveBookUpdate(l.venue, l.update)
  <2>1. Live
    BY <1>1 DEF LiveBookUpdate, Live
  <2> QED
    BY <1>1, <2>1, BookUpdateStep
<1>2. CASE \E t \in Trades : LiveTrade(t)
  <2>1. Live
    BY <1>2 DEF LiveTrade, Live
  <2> QED
    BY <1>2, <2>1, TradeStep
<1>3. CASE \E f \in Fills : QuoteFill(f)
  <2>1. Live
    BY <1>3 DEF QuoteFill, GatewayFill, Live
  <2> QED
    BY <1>3, <2>1, FillStep
<1>4. CASE Midnight
  <2>1. Live
    BY <1>4 DEF Midnight, Live
  <2> QED
    BY <1>4, <2>1, MidnightStep
<1>5. CASE \E u \in BacktestUpdates : BacktestBookUpdate(u)
  <2>1. PICK u : BacktestBookUpdate(u)
    BY <1>5
  <2>2. mode = "backtest"
    BY <2>1 DEF BacktestBookUpdate
  <2>3. mode' = mode
    BY <2>1 DEF BacktestBookUpdate, BacktestStep
  <2> QED
    BY <2>2, <2>3 DEF Live
<1>6. CASE \E t \in Trades : BacktestTrade(t)
  <2>1. PICK t : BacktestTrade(t)
    BY <1>6
  <2>2. mode = "backtest"
    BY <2>1 DEF BacktestTrade
  <2>3. mode' = mode
    BY <2>1 DEF BacktestTrade, BacktestStep
  <2> QED
    BY <2>2, <2>3 DEF Live
<1>7. CASE \E u \in HarnessUpdates : HarnessBookUpdate(u)
  <2>1. PICK u : HarnessBookUpdate(u)
    BY <1>7
  <2>2. mode = "harness"
    BY <2>1 DEF HarnessBookUpdate
  <2>3. mode' = mode
    BY <2>1 DEF HarnessBookUpdate, HarnessStep
  <2> QED
    BY <2>2, <2>3 DEF Live
<1>8. CASE \E o \in HarnessOrders : HarnessSubmit(o)
  <2>1. PICK o : HarnessSubmit(o)
    BY <1>8
  <2>2. mode = "harness"
    BY <2>1 DEF HarnessSubmit
  <2>3. mode' = mode
    BY <2>1 DEF HarnessSubmit, HarnessStep
  <2> QED
    BY <2>2, <2>3 DEF Live
<1>9. CASE \E id \in Eng!OpenOrderIds(orders) : HarnessCancel(id)
  <2>1. PICK id : HarnessCancel(id)
    BY <1>9
  <2>2. mode = "harness"
    BY <2>1 DEF HarnessCancel
  <2>3. mode' = mode
    BY <2>1 DEF HarnessCancel, HarnessStep
  <2> QED
    BY <2>2, <2>3 DEF Live
<1>10. CASE UNCHANGED vars
  BY <1>10 DEF vars, Live, LiveInv, HistTyped, HoldsPosition, Judged, Balanced, Inventories
<1> QED
  BY <1>1, <1>2, <1>3, <1>4, <1>5, <1>6, <1>7, <1>8, <1>9, <1>10 DEF Next

(* The invariant of the live loop.                                         *)
LEMMA LiveInvariant == Spec => [](Live => LiveInv)
<1>1. Init => (Live => LiveInv)
  BY LiveInit
<1>2. (Live => LiveInv) /\ [Next]_vars => (Live => LiveInv)'
  BY LiveNext
<1> QED
  BY <1>1, <1>2, PTL DEF Spec

-----------------------------------------------------------------------------
(* The results.                                                            *)

(* InventoryTracks: the hot path's clamped inventory is the sum of all     *)
(* fills as long as that sum stayed within max_inventory, over any number  *)
(* of midnights.                                                           *)
THEOREM InventoryFollows == Spec => []InventoryTracks
<1>1. (Live => LiveInv) => InventoryTracks
  BY DEF LiveInv, Inventories, InventoryTracks
<1> QED
  BY <1>1, LiveInvariant, PTL

(* MirrorReflects: the market maker's inventory is above the fills by the  *)
(* deepest short there ever was.                                           *)
THEOREM MirrorFollows == Spec => []MirrorReflects
<1>1. (Live => LiveInv) => MirrorReflects
  BY DEF LiveInv, Inventories, MirrorReflects
<1> QED
  BY <1>1, LiveInvariant, PTL

(* LiveBooksBalance: realized PnL is cash and cost basis, whatever the     *)
(* prices, quantities and fees, until a short is closed.                   *)
THEOREM BooksHold == Spec => []LiveBooksBalance
<1>1. (Live => LiveInv) => LiveBooksBalance
  BY DEF LiveInv, Judged, Balanced, LiveBooksBalance
<1> QED
  BY <1>1, LiveInvariant, PTL

(* JudgedByCash: the losing streak is the streak of round trips that lost  *)
(* money, until a short is closed.                                         *)
THEOREM JudgementHolds == Spec => []JudgedByCash
<1>1. (Live => LiveInv) => JudgedByCash
  BY DEF LiveInv, Judged, JudgedByCash
<1> QED
  BY <1>1, LiveInvariant, PTL

-----------------------------------------------------------------------------
(* The window of trades: its volumes as sums.                              *)

(* A trade as both windows keep it.                                        *)
Heard == [side: Sides, qty: Nat]

(* A side's share of the i-th trade of a window: c = [window, side].       *)
Share(c, i) == IF c.window[i].side = c.side THEN c.window[i].qty ELSE 0

(* No loop, only sums: Volume instantiates FoldFacts for its Total.        *)
NoStep(c, s, x) == s
NoGood(c, k, s) == TRUE

Volume == INSTANCE FoldFacts WITH Step <- NoStep, Good <- NoGood, Term <- Share

(* The volume of a window is the sum of the shares of its trades.          *)
LEMMA VolumeIsSum ==
  ASSUME NEW c
  PROVE  WindowVolume(c.window, c.side) = Volume!Total(c, DOMAIN c.window)
  BY DEF WindowVolume, Volume!Total, MapThenSumSet, Volume!MapThenSumSet,
         MapThenFoldSet, Volume!MapThenFoldSet, Share

(* A volume is a sum of naturals.                                          *)
LEMMA VolumeNat ==
  ASSUME NEW w \in Seq(Heard), NEW side
  PROVE  /\ WindowVolume(w, side) \in Nat
         /\ \A i \in DOMAIN w : w[i].side = side => WindowVolume(w, side) >= w[i].qty
<1> DEFINE c == [window |-> w, side |-> side]
<1>1. DOMAIN w = 1 .. Len(w) /\ Len(w) \in Nat
  OBVIOUS
<1>2. \A i \in DOMAIN w : Share(c, i) \in Nat /\ (w[i].side = side => Share(c, i) = w[i].qty)
  <2>1. \A i \in DOMAIN w : w[i].qty \in Nat
    <3>1. \A i \in DOMAIN w : w[i] \in Heard
      OBVIOUS
    <3> QED
      BY <3>1 DEF Heard
  <2>2. c.window = w /\ c.side = side
    OBVIOUS
  <2> HIDE DEF c
  <2> QED
    BY <2>1, <2>2 DEF Share
<1>3. WindowVolume(w, side) = Volume!Total(c, DOMAIN w)
  <2>1. WindowVolume(c.window, c.side) = Volume!Total(c, DOMAIN c.window)
    <3> HIDE DEF c
    <3> QED
      BY VolumeIsSum
  <2> QED
    BY <2>1
<1> HIDE DEF c
<1>4. /\ Volume!Total(c, DOMAIN w) \in Nat
      /\ \A i \in DOMAIN w : Volume!Total(c, DOMAIN w) >= Share(c, i)
  BY <1>1, <1>2, Volume!SumNat
<1> QED
  BY <1>2, <1>3, <1>4

(* A trade that is heard adds to its side's volume ...                     *)
LEMMA VolumeAppend ==
  ASSUME NEW w \in Seq(Heard), NEW t \in Heard, NEW side
  PROVE  WindowVolume(Append(w, t), side)
           = WindowVolume(w, side) + (IF t.side = side THEN t.qty ELSE 0)
<1> DEFINE more == Append(w, t)
           c == [window |-> w, side |-> side]
           d == [window |-> more, side |-> side]
           n == Len(w)
<1>1. /\ n \in Nat /\ DOMAIN w = 1 .. n /\ DOMAIN more = 1 .. n + 1
      /\ more[n + 1] = t /\ \A i \in 1 .. n : more[i] = w[i]
  OBVIOUS
<1>2. /\ WindowVolume(w, side) = Volume!Total(c, DOMAIN w)
      /\ WindowVolume(more, side) = Volume!Total(d, DOMAIN more)
  <2>1. /\ WindowVolume(c.window, c.side) = Volume!Total(c, DOMAIN c.window)
        /\ WindowVolume(d.window, d.side) = Volume!Total(d, DOMAIN d.window)
    <3> HIDE DEF c, d
    <3> QED
      BY VolumeIsSum
  <2> QED
    BY <2>1
<1>3. /\ \A i \in 1 .. n : Share(c, i) \in Int /\ Share(d, i) = Share(c, i)
      /\ Share(d, n + 1) = (IF t.side = side THEN t.qty ELSE 0)
      /\ Share(d, n + 1) \in Int
  <2>1. (\A i \in 1 .. n : w[i].qty \in Nat) /\ t.qty \in Nat
    <3>1. \A i \in 1 .. n : w[i] \in Heard
      BY <1>1
    <3> HIDE DEF c, d, more, n
    <3> QED
      BY <3>1 DEF Heard
  <2>2. c.window = w /\ c.side = side /\ d.window = more /\ d.side = side
    OBVIOUS
  <2> HIDE DEF c, d, more, n
  <2> QED
    BY <1>1, <2>1, <2>2 DEF Share
<1> HIDE DEF c, d, more, n
<1>4. \A i \in 1 .. n + 1 : Share(d, i) \in Int
  BY <1>1, <1>3
<1>5. Volume!Total(d, 1 .. n + 1) = Share(d, n + 1) + Volume!Total(d, 1 .. n)
  BY <1>1, <1>4, Volume!SumLast
<1>6. Volume!Total(d, 1 .. n) = Volume!Total(c, 1 .. n)
  BY <1>1, <1>3, Volume!SumSame
<1>7. Volume!Total(c, 1 .. n) \in Nat
  BY <1>1, <1>2, VolumeNat
<1> QED
  BY <1>1, <1>2, <1>3, <1>5, <1>6, <1>7 DEF more

(* ... and one that is forgotten takes it away again.                      *)
LEMMA VolumeTail ==
  ASSUME NEW w \in Seq(Heard), w # <<>>, NEW side
  PROVE  WindowVolume(Tail(w), side)
           = WindowVolume(w, side) - (IF Head(w).side = side THEN Head(w).qty ELSE 0)
<1> DEFINE less == Tail(w)
           c == [window |-> w, side |-> side]
           d == [window |-> less, side |-> side]
           n == Len(less)
<1>1. /\ n \in Nat /\ DOMAIN less = 1 .. n /\ DOMAIN w = 1 .. n + 1
      /\ w[1] = Head(w) /\ Head(w) \in Heard /\ \A i \in 1 .. n : less[i] = w[i + 1]
  OBVIOUS
<1>2. /\ WindowVolume(w, side) = Volume!Total(c, DOMAIN w)
      /\ WindowVolume(less, side) = Volume!Total(d, DOMAIN less)
  <2>1. /\ WindowVolume(c.window, c.side) = Volume!Total(c, DOMAIN c.window)
        /\ WindowVolume(d.window, d.side) = Volume!Total(d, DOMAIN d.window)
    <3> HIDE DEF c, d
    <3> QED
      BY VolumeIsSum
  <2> QED
    BY <2>1
<1>3. /\ \A i \in 1 .. n + 1 : Share(c, i) \in Int
      /\ \A i \in 1 .. n : Share(d, i) = Share(c, i + 1)
      /\ Share(c, 1) = (IF Head(w).side = side THEN Head(w).qty ELSE 0)
  <2>1. \A i \in 1 .. n + 1 : w[i].qty \in Nat
    <3>1. \A i \in 1 .. n + 1 : w[i] \in Heard
      BY <1>1
    <3> HIDE DEF c, d, less, n
    <3> QED
      BY <3>1 DEF Heard
  <2>2. c.window = w /\ c.side = side /\ d.window = less /\ d.side = side
    OBVIOUS
  <2> HIDE DEF c, d, less, n
  <2> QED
    BY <1>1, <2>1, <2>2 DEF Share
<1> HIDE DEF c, d, less, n
<1>4. Volume!Total(c, 1 .. n + 1) = Share(c, 1) + Volume!Total(d, 1 .. n)
  BY <1>1, <1>3, Volume!SumFirst
<1>5. Volume!Total(d, 1 .. n) \in Nat
  <2>1. less \in Seq(Heard)
    BY DEF less
  <2> QED
    BY <1>1, <1>2, <2>1, VolumeNat
<1>6. Share(c, 1) \in Int
  BY <1>1, <1>3
<1> HIDE DEF Volume!Total
<1> QED
  BY <1>1, <1>2, <1>3, <1>4, <1>5, <1>6 DEF less

-----------------------------------------------------------------------------
(* Sets inside the instance of the hot path are those outside it.          *)
LEMMA HotPathSets ==
  /\ \A S : HP!Cardinality(S) = Cardinality(S)
  /\ HP!Level = Level
  /\ \A a, b \in Int : HP!Min({a, b}) = IF a <= b THEN a ELSE b
<1>1. \A S : HP!Cardinality(S) = Cardinality(S)
  BY DEF HP!Cardinality, Cardinality, HP!IsFiniteSet, IsFiniteSet
<1>2. HP!Level = Level
  BY DEF HP!Level, Level
<1>3. \A a, b \in Int : HP!Min({a, b}) = IF a <= b THEN a ELSE b
  BY SMT DEF HP!Min
<1> QED
  BY <1>1, <1>2, <1>3

(* An element put in or taken out at its place.                            *)
LEMMA InsertedAt ==
  ASSUME NEW S, NEW s \in Seq(S), NEW e \in S, NEW i \in 1 .. Len(s) + 1
  PROVE  /\ HP!InsertAt(s, i, e) \in Seq(S)
         /\ Len(HP!InsertAt(s, i, e)) = Len(s) + 1
         /\ \A j \in 1 .. Len(s) + 1 :
              HP!InsertAt(s, i, e)[j] = IF j < i THEN s[j] ELSE IF j = i THEN e ELSE s[j - 1]
<1> DEFINE front == SubSeq(s, 1, i - 1)
           back == SubSeq(s, i, Len(s))
           mid == front \o <<e>>
<1>1. /\ front \in Seq(S) /\ Len(front) = i - 1 /\ \A j \in 1 .. i - 1 : front[j] = s[j]
  BY SubSeqProperties
<1>2. /\ back \in Seq(S) /\ Len(back) = Len(s) - i + 1
      /\ \A j \in 1 .. Len(s) - i + 1 : back[j] = s[i + j - 1]
  BY SubSeqProperties
<1>3. <<e>> \in Seq(S) /\ Len(<<e>>) = 1 /\ <<e>>[1] = e
  OBVIOUS
<1> HIDE DEF front, back
<1>4. /\ mid \in Seq(S) /\ Len(mid) = i
      /\ \A j \in 1 .. i : mid[j] = IF j < i THEN s[j] ELSE e
  <2>1. mid \in Seq(S) /\ Len(mid) = i
    BY <1>1, <1>3, ConcatProperties
  <2>2. \A j \in 1 .. i : mid[j] = IF j <= i - 1 THEN front[j] ELSE <<e>>[j - (i - 1)]
    BY <1>1, <1>3, ConcatProperties
  <2> QED
    BY <1>1, <1>3, <2>1, <2>2
<1> HIDE DEF mid
<1>5. HP!InsertAt(s, i, e) = mid \o back
  BY DEF HP!InsertAt, mid, front, back
<1>6. /\ mid \o back \in Seq(S) /\ Len(mid \o back) = Len(s) + 1
      /\ \A j \in 1 .. Len(s) + 1 :
           (mid \o back)[j] = IF j <= i THEN mid[j] ELSE back[j - i]
  <2>1. Len(mid) + Len(back) = Len(s) + 1
    BY <1>2, <1>4
  <2>2. /\ mid \o back \in Seq(S) /\ Len(mid \o back) = Len(mid) + Len(back)
        /\ \A j \in 1 .. Len(mid) + Len(back) :
             (mid \o back)[j] = IF j <= Len(mid) THEN mid[j] ELSE back[j - Len(mid)]
    BY <1>2, <1>4, ConcatProperties
  <2> QED
    BY <1>4, <2>1, <2>2
<1>7. \A j \in 1 .. Len(s) + 1 :
        (mid \o back)[j] = IF j < i THEN s[j] ELSE IF j = i THEN e ELSE s[j - 1]
  BY <1>2, <1>4, <1>6
<1> QED
  BY <1>5, <1>6, <1>7

(* A sequence without its i-th element.                                    *)
LEMMA RemovedAt ==
  ASSUME NEW S, NEW s \in Seq(S), NEW i \in 1 .. Len(s)
  PROVE  /\ HP!RemoveAt(s, i) \in Seq(S)
         /\ Len(HP!RemoveAt(s, i)) = Len(s) - 1
         /\ \A j \in 1 .. Len(s) - 1 : HP!RemoveAt(s, i)[j] = IF j < i THEN s[j] ELSE s[j + 1]
<1> DEFINE front == SubSeq(s, 1, i - 1)
           back == SubSeq(s, i + 1, Len(s))
<1>1. /\ front \in Seq(S) /\ Len(front) = i - 1 /\ \A j \in 1 .. i - 1 : front[j] = s[j]
  BY SubSeqProperties
<1>2. /\ back \in Seq(S) /\ Len(back) = Len(s) - i
      /\ \A j \in 1 .. Len(s) - i : back[j] = s[i + j]
  BY SubSeqProperties
<1> HIDE DEF front, back
<1>3. HP!RemoveAt(s, i) = front \o back
  BY DEF HP!RemoveAt, front, back
<1>4. /\ front \o back \in Seq(S) /\ Len(front \o back) = Len(s) - 1
      /\ \A j \in 1 .. Len(s) - 1 :
           (front \o back)[j] = IF j <= i - 1 THEN front[j] ELSE back[j - (i - 1)]
  BY <1>1, <1>2, ConcatProperties
<1>5. ASSUME NEW j \in 1 .. Len(s) - 1
      PROVE  (front \o back)[j] = IF j < i THEN s[j] ELSE s[j + 1]
  <2>1. CASE j < i
    <3>1. j \in 1 .. i - 1 /\ j <= i - 1
      BY <2>1
    <3> QED
      BY <1>1, <1>4, <2>1, <3>1
  <2>2. CASE ~(j < i)
    <3>1. j - (i - 1) \in 1 .. Len(s) - i /\ ~(j <= i - 1) /\ i + (j - (i - 1)) = j + 1
      BY <2>2
    <3> QED
      BY <1>2, <1>4, <2>2, <3>1
  <2> QED
    BY <2>1, <2>2
<1> QED
  BY <1>3, <1>4, <1>5

(* A side of the flat book.                                                *)
FlatSide(levels) == levels \in Seq(Level) /\ Len(levels) <= MaxLevels

(* The first MaxLevels of the levels given are a side of the flat book.    *)
LEMMA FirstLevelsTyped ==
  ASSUME NEW levels \in Seq(Level)
  PROVE  /\ FlatSide(HP!FirstLevels(levels))
         /\ Len(HP!FirstLevels(levels)) = IF Len(levels) <= MaxLevels THEN Len(levels) ELSE MaxLevels
         /\ \A i \in 1 .. Len(HP!FirstLevels(levels)) : HP!FirstLevels(levels)[i] = levels[i]
         /\ Len(levels) <= MaxLevels => HP!FirstLevels(levels) = levels
<1>1. MaxLevels \in Nat
  BY TradingAssumption DEF TradingAssumption
<1> DEFINE n == HP!Min({Len(levels), MaxLevels})
<1>2. n = IF Len(levels) <= MaxLevels THEN Len(levels) ELSE MaxLevels
  <2>1. Len(levels) \in Int /\ MaxLevels \in Int
    BY <1>1
  <2> QED
    BY <2>1, HotPathSets
<1> HIDE DEF n
<1>3. HP!FirstLevels(levels) = SubSeq(levels, 1, n)
  BY DEF HP!FirstLevels, n
<1>4. n \in 0 .. Len(levels) /\ n <= MaxLevels
  BY <1>1, <1>2
<1>5. /\ SubSeq(levels, 1, n) \in Seq(Level)
      /\ Len(SubSeq(levels, 1, n)) = n
      /\ \A i \in 1 .. n : SubSeq(levels, 1, n)[i] = levels[i]
  BY <1>4, SubSeqProperties
<1>6. n = Len(levels) => SubSeq(levels, 1, n) = levels
  BY SubSeqFull
<1> QED
  BY <1>2, <1>3, <1>4, <1>5, <1>6 DEF FlatSide

(* The number of levels better than a price.                               *)
LEMMA BetterCount ==
  ASSUME NEW levels \in Seq(Level), NEW side, NEW p
  PROVE  Cardinality({ i \in DOMAIN levels : HP!Better(side, levels[i].price, p) }) \in 0 .. Len(levels)
<1> DEFINE S == { i \in DOMAIN levels : HP!Better(side, levels[i].price, p) }
<1>1. DOMAIN levels = 1 .. Len(levels) /\ Len(levels) \in Nat
  OBVIOUS
<1>2. IsFiniteSet(DOMAIN levels) /\ Cardinality(DOMAIN levels) = Len(levels)
  BY <1>1, FS_Interval
<1>3. S \in SUBSET DOMAIN levels
  OBVIOUS
<1> HIDE DEF S
<1>4. Cardinality(S) <= Len(levels) /\ IsFiniteSet(S)
  BY <1>2, <1>3, FS_Subset
<1>5. Cardinality(S) \in Nat
  BY <1>4, FS_CardinalityType
<1> QED
  BY <1>1, <1>4, <1>5 DEF S

(* Upsert by cases.                                                        *)
LEMMA UpsertCases ==
  ASSUME NEW levels \in Seq(Level), NEW side, NEW l
  PROVE  LET better == Cardinality({ i \in DOMAIN levels : HP!Better(side, levels[i].price, l.price) })
             exists == \E i \in DOMAIN levels : levels[i].price = l.price
         IN  HP!Upsert(levels, side, l) =
               IF exists /\ l.qty = 0 THEN HP!RemoveAt(levels, better + 1)
               ELSE IF exists THEN [levels EXCEPT ![better + 1].qty = l.qty]
               ELSE IF l.qty > 0 /\ Len(levels) < MaxLevels
                    THEN HP!InsertAt(levels, better + 1, l)
               ELSE levels
  BY HotPathSets DEF HP!Upsert

(* A level set, inserted or removed leaves a side of the flat book.        *)
LEMMA UpsertTyped ==
  ASSUME NEW levels, FlatSide(levels), NEW side, NEW l \in Level
  PROVE  FlatSide(HP!Upsert(levels, side, l))
<1> DEFINE better == Cardinality({ i \in DOMAIN levels : HP!Better(side, levels[i].price, l.price) })
<1>1. levels \in Seq(Level) /\ Len(levels) <= MaxLevels /\ MaxLevels \in Nat /\ Len(levels) \in Nat
  BY TradingAssumption DEF TradingAssumption, FlatSide
<1>2. better \in 0 .. Len(levels)
  BY <1>1, BetterCount
<1> DEFINE exists == \E i \in DOMAIN levels : levels[i].price = l.price
<1>3. HP!Upsert(levels, side, l) =
        IF exists /\ l.qty = 0 THEN HP!RemoveAt(levels, better + 1)
        ELSE IF exists THEN [levels EXCEPT ![better + 1].qty = l.qty]
        ELSE IF l.qty > 0 /\ Len(levels) < MaxLevels THEN HP!InsertAt(levels, better + 1, l)
        ELSE levels
  BY <1>1, UpsertCases
<1> HIDE DEF better, exists
<1>4. FlatSide(HP!RemoveAt(levels, better + 1))
  <2>1. CASE better < Len(levels)
    <3>1. better + 1 \in 1 .. Len(levels)
      BY <1>1, <1>2, <2>1
    <3>2. /\ HP!RemoveAt(levels, better + 1) \in Seq(Level)
          /\ Len(HP!RemoveAt(levels, better + 1)) = Len(levels) - 1
      BY <1>1, <3>1, RemovedAt
    <3> QED
      BY <1>1, <3>2 DEF FlatSide
  <2>2. CASE better = Len(levels)
    <3> DEFINE i == better + 1
    <3>1. i - 1 = Len(levels) /\ i + 1 \in Int /\ i + 1 > Len(levels)
      BY <1>1, <1>2, <2>2
    <3> HIDE DEF i
    <3>2. SubSeq(levels, 1, i - 1) = levels
      BY <1>1, <3>1, SubSeqFull
    <3>3. SubSeq(levels, i + 1, Len(levels)) = << >>
      BY <1>1, <3>1, SubSeqEmpty
    <3>4. HP!RemoveAt(levels, i) = SubSeq(levels, 1, i - 1) \o SubSeq(levels, i + 1, Len(levels))
      BY DEF HP!RemoveAt
    <3>5. HP!RemoveAt(levels, i) = levels
      BY <1>1, <3>2, <3>3, <3>4, ConcatEmptySeq
    <3> QED
      BY <1>1, <3>5 DEF FlatSide, i
  <2> QED
    BY <1>1, <1>2, <2>1, <2>2
<1>5. FlatSide([levels EXCEPT ![better + 1].qty = l.qty])
  <2>1. CASE better + 1 \in DOMAIN levels
    <3>1. levels[better + 1] \in Level
      BY <1>1, <2>1
    <3>2. [levels[better + 1] EXCEPT !.qty = l.qty] \in Level
      BY <3>1 DEF Level
    <3>3. [levels EXCEPT ![better + 1].qty = l.qty]
            = [levels EXCEPT ![better + 1] = [levels[better + 1] EXCEPT !.qty = l.qty]]
      OBVIOUS
    <3> QED
      BY <1>1, <2>1, <3>2, <3>3, ExceptSeq DEF FlatSide
  <2>2. CASE better + 1 \notin DOMAIN levels
    <3>1. [levels EXCEPT ![better + 1].qty = l.qty] = levels
      BY <1>1, <2>2
    <3> QED
      BY <3>1
  <2> QED
    BY <2>1, <2>2
<1>6. Len(levels) < MaxLevels => FlatSide(HP!InsertAt(levels, better + 1, l))
  BY <1>1, <1>2, InsertedAt DEF FlatSide
<1> QED
  BY <1>3, <1>4, <1>5, <1>6

-----------------------------------------------------------------------------
(* The loops of the hot path.                                              *)

(* A delta, one level after the other: c is the side.                      *)
DeltaStep(c, s, x) == HP!Upsert(s, c, x)
DeltaKeeps(c, k, s) == FlatSide(s)

Delta == INSTANCE FoldFacts WITH Step <- DeltaStep, Good <- DeltaKeeps, Term <- Share

(* The loop over the levels of a delta as a fold.                          *)
LEMMA DeltaIsFold ==
  ASSUME NEW levels, NEW side, NEW news
  PROVE  HP!ApplyDeltaSide(levels, side, news) = Delta!Fold(side, levels, news)
  BY DEF HP!ApplyDeltaSide, Delta!Fold, HP!FoldLeft,
         HP!MapThenFoldSet, Delta!MapThenFoldSet, HP!Max, Delta!Max, DeltaStep

(* A delta leaves a side of the flat book.                                 *)
LEMMA DeltaTyped ==
  ASSUME NEW levels, FlatSide(levels), NEW side, NEW news \in Seq(Level)
  PROVE  FlatSide(HP!ApplyDeltaSide(levels, side, news))
<1> DEFINE n == Len(news)
<1>1. n \in Nat /\ DOMAIN news = 1 .. n /\ \A k \in 1 .. n : news[k] \in Level
  OBVIOUS
<1> HIDE DEF n
<1>2. DeltaKeeps(side, 0, levels)
  BY DEF DeltaKeeps
<1>3. \A k \in 1 .. n : \A s :
        DeltaKeeps(side, k - 1, s) => DeltaKeeps(side, k, DeltaStep(side, s, news[k]))
  BY <1>1, UpsertTyped DEF DeltaKeeps, DeltaStep
<1>4. DeltaKeeps(side, n, Delta!Fold(side, levels, news))
  BY <1>1, <1>2, <1>3, Delta!FoldInduction
<1> QED
  BY <1>4, DeltaIsFold DEF DeltaKeeps

(* The fair value: c = [bids, asks, depth].                                *)
Depth(c) == HP!Min({c.depth, Len(c.bids), Len(c.asks)})
WeightedValue(c, i) ==
  (Depth(c) - i + 1) * (c.asks[i].qty * c.bids[i].price + c.bids[i].qty * c.asks[i].price)
WeightedVolume(c, i) == (Depth(c) - i + 1) * (c.asks[i].qty + c.bids[i].qty)

(* The two sums of the fair value.                                         *)
Values == INSTANCE FoldFacts WITH Step <- NoStep, Good <- NoGood, Term <- WeightedValue
Volumes == INSTANCE FoldFacts WITH Step <- NoStep, Good <- NoGood, Term <- WeightedVolume

(* The fair value as a quotient of two sums over the depth.                *)
LEMMA FairValueSums ==
  ASSUME NEW c
  PROVE  HP!WeightedPrice(c.bids, c.asks, c.depth) =
           IF Depth(c) = 0 THEN 0
           ELSE IF Volumes!Total(c, 1 .. Depth(c)) = 0
                THEN (c.bids[1].price + c.asks[1].price) \div 2
           ELSE Values!Total(c, 1 .. Depth(c)) \div Volumes!Total(c, 1 .. Depth(c))
  BY DEF HP!WeightedPrice, Depth, WeightedValue, WeightedVolume,
         Values!Total, Volumes!Total, HP!MapThenSumSet, Values!MapThenSumSet, Volumes!MapThenSumSet,
         HP!MapThenFoldSet, Values!MapThenFoldSet, Volumes!MapThenFoldSet

(* The minimum of three is one of them and at most each.                   *)
LEMMA MinOfThree ==
  ASSUME NEW a \in Int, NEW b \in Int, NEW c \in Int
  PROVE  HP!Min({a, b, c}) \in {a, b, c} /\ HP!Min({a, b, c}) <= a
         /\ HP!Min({a, b, c}) <= b /\ HP!Min({a, b, c}) <= c
<1>1. \E x \in {a, b, c} : \A y \in {a, b, c} : x <= y
  <2>1. CASE a <= b /\ a <= c
    BY <2>1
  <2>2. CASE b <= a /\ b <= c
    BY <2>2
  <2>3. CASE c <= a /\ c <= b
    BY <2>3
  <2> QED
    BY <2>1, <2>2, <2>3
<1> DEFINE m == HP!Min({a, b, c})
<1>2. m \in {a, b, c} /\ \A y \in {a, b, c} : m <= y
  BY <1>1 DEF HP!Min
<1> HIDE DEF m
<1>3. m \in {a, b, c} /\ m <= a /\ m <= b /\ m <= c
  BY <1>2
<1> QED
  BY <1>3 DEF m

(* A fair value is no negative price.                                      *)
LEMMA FairValueTyped ==
  ASSUME NEW bids \in Seq(Level), NEW asks \in Seq(Level), NEW depth \in Nat
  PROVE  HP!WeightedPrice(bids, asks, depth) \in Nat
<1> DEFINE c == [bids |-> bids, asks |-> asks, depth |-> depth]
           n == HP!Min({depth, Len(bids), Len(asks)})
<1>1. /\ n \in Nat /\ n <= Len(bids) /\ n <= Len(asks)
      /\ Len(bids) \in Nat /\ Len(asks) \in Nat
  <2>1. /\ Len(bids) \in Nat /\ Len(asks) \in Nat
        /\ depth \in Int /\ Len(bids) \in Int /\ Len(asks) \in Int
    OBVIOUS
  <2>2. /\ n \in {depth, Len(bids), Len(asks)}
        /\ n <= Len(bids) /\ n <= Len(asks)
    BY <2>1, MinOfThree
  <2> HIDE DEF n
  <2> QED
    BY <2>1, <2>2
<1>2. c.bids = bids /\ c.asks = asks /\ c.depth = depth /\ Depth(c) = n
  BY DEF Depth
<1> HIDE DEF c, n
<1>3. \A i \in 1 .. n :
        bids[i].price \in Nat /\ bids[i].qty \in Nat /\ asks[i].price \in Nat /\ asks[i].qty \in Nat
  <2>1. \A i \in 1 .. n : bids[i] \in Level /\ asks[i] \in Level
    BY <1>1
  <2> QED
    BY <2>1 DEF Level
<1>4. \A i \in 1 .. n : WeightedVolume(c, i) \in Nat
  BY <1>1, <1>2, <1>3 DEF WeightedVolume
<1>5. \A i \in 1 .. n : WeightedValue(c, i) \in Nat
  <2> SUFFICES ASSUME NEW i \in 1 .. n
               PROVE  WeightedValue(c, i) \in Nat
    OBVIOUS
  <2> DEFINE v == asks[i].qty * bids[i].price + bids[i].qty * asks[i].price
  <2>1. v \in Nat /\ n - i + 1 \in Nat
    <3>1. \A a, b \in Nat : a * b \in Nat
      OBVIOUS
    <3>2. asks[i].qty * bids[i].price \in Nat /\ bids[i].qty * asks[i].price \in Nat
      BY <1>3, <3>1
    <3> QED
      BY <1>1, <3>2
  <2>2. WeightedValue(c, i) = (n - i + 1) * v
    BY <1>2 DEF WeightedValue
  <2> HIDE DEF v
  <2> QED
    BY <2>1, <2>2
<1>6. Volumes!Total(c, 1 .. n) \in Nat
  BY <1>1, <1>4, Volumes!SumNat
<1>7. Values!Total(c, 1 .. n) \in Nat
  BY <1>1, <1>5, Values!SumNat
<1>8. HP!WeightedPrice(bids, asks, depth) =
        IF n = 0 THEN 0
        ELSE IF Volumes!Total(c, 1 .. n) = 0 THEN (bids[1].price + asks[1].price) \div 2
        ELSE Values!Total(c, 1 .. n) \div Volumes!Total(c, 1 .. n)
  BY <1>2, FairValueSums
<1> DEFINE x == Values!Total(c, 1 .. n)
           y == Volumes!Total(c, 1 .. n)
<1> HIDE DEF x, y
<1>9. y # 0 => x \div y \in Nat
  BY <1>6, <1>7 DEF x, y
<1>10. n # 0 => (bids[1].price + asks[1].price) \div 2 \in Nat
  BY <1>1, <1>3
<1> QED
  BY <1>8, <1>9, <1>10 DEF x, y

-----------------------------------------------------------------------------
(* The hot path as a whole.                                                *)

(* The running volumes are those of the window.                            *)
Flow(e) ==
  /\ e.buy_volume = WindowVolume(e.window, "Buy")
  /\ e.sell_volume = WindowVolume(e.window, "Sell")
  /\ e.total_volume = e.buy_volume + e.sell_volume

(* The last quote does not cross the fair value.                           *)
Passive(e) ==
  /\ e.last_bid_price <= e.last_fair_value
  /\ e.last_fair_value <= e.last_ask_price

(* The fair value and the quote last computed.                             *)
Quoted(e) ==
  /\ e.last_fair_value \in Nat /\ e.last_bid_price \in Int /\ e.last_ask_price \in Int
  /\ Passive(e)

(* What every call of the hot path keeps.                                  *)
EngineInv(e) ==
  /\ DOMAIN e = DOMAIN HP!NewEngine(FALSE)
  /\ FlatSide(e.bids) /\ FlatSide(e.asks)
  /\ e.window \in Seq(Heard)
  /\ Flow(e)
  /\ e.position_qty \in -MaxInventory .. MaxInventory
  /\ Quoted(e)
  /\ e.has_active_quotes \in BOOLEAN /\ e.vpin_enabled \in BOOLEAN

(* A new engine has it.                                                    *)
LEMMA NewEngineGood ==
  ASSUME NEW b \in BOOLEAN
  PROVE  EngineInv(HP!NewEngine(b))
<1> DEFINE e == HP!NewEngine(b)
<1>1. /\ DOMAIN e = DOMAIN HP!NewEngine(FALSE)
      /\ e.bids = <<>> /\ e.asks = <<>> /\ e.window = <<>>
      /\ e.buy_volume = 0 /\ e.sell_volume = 0 /\ e.total_volume = 0
      /\ e.position_qty = 0
      /\ e.last_fair_value = 0 /\ e.last_bid_price = 0 /\ e.last_ask_price = 0
      /\ e.has_active_quotes = FALSE /\ e.vpin_enabled = b
  BY DEF HP!NewEngine
<1> HIDE DEF e
<1>2. \A side : WindowVolume(<<>>, side) = 0
  <2>1. ASSUME NEW side
        PROVE  WindowVolume(<<>>, side) = 0
    <3>1. Volume!Total([window |-> <<>>, side |-> side], {}) = 0
      <4>1. \A c : Volume!Total(c, {}) = 0
        BY Volume!SumNone
      <4> QED
        BY <4>1
    <3>2. \A c : c.window = <<>> => WindowVolume(<<>>, c.side) = Volume!Total(c, {})
      BY VolumeIsSum
    <3> QED
      BY <3>1, <3>2
  <2> QED
    BY <2>1
<1>3. MaxLevels \in Nat /\ MaxInventory \in Nat
  BY TradingAssumption DEF TradingAssumption
<1>4. FlatSide(<<>>)
  BY <1>3 DEF FlatSide
<1>5. Flow(e)
  BY <1>1, <1>2 DEF Flow
<1>6. Quoted(e)
  BY <1>1 DEF Quoted, Passive
<1>7. e.position_qty \in -MaxInventory .. MaxInventory
  BY <1>1, <1>3
<1>8. <<>> \in Seq(Heard)
  OBVIOUS
<1>9. FlatSide(e.bids) /\ FlatSide(e.asks) /\ e.window \in Seq(Heard)
  BY <1>1, <1>4, <1>8
<1>10. e.has_active_quotes \in BOOLEAN /\ e.vpin_enabled \in BOOLEAN
  BY <1>1
<1> QED
  BY <1>1, <1>5, <1>6, <1>7, <1>9, <1>10 DEF EngineInv, e

(* The sums, and the window with them.                                     *)
VolumeFields == {"buy_volume", "sell_volume", "total_volume"}

(* The window and its sums move together.                                  *)
Windows(e) ==
  /\ DOMAIN e = DOMAIN HP!NewEngine(FALSE)
  /\ e.window \in Seq(Heard)
  /\ Flow(e)

WindowFields == {"window", "buy_volume", "sell_volume", "total_volume"}

(* The oldest trade leaves a full window, and its volume the sums.         *)
LEMMA EvictFlows ==
  ASSUME NEW e, Windows(e)
  PROVE  LET x == HP!EvictTrade(e)
         IN  /\ Windows(x)
             /\ x.window = IF Len(e.window) < VpinWindow THEN e.window ELSE Tail(e.window)
             /\ \A f \in DOMAIN e \ WindowFields : x[f] = e[f]
<1>1. VpinWindow \in Nat \ {0}
  BY TradingAssumption DEF TradingAssumption
<1>2. CASE Len(e.window) < VpinWindow
  BY <1>2 DEF HP!EvictTrade
<1>3. CASE ~(Len(e.window) < VpinWindow)
  <2> DEFINE t == Head(e.window)
             y == HP!CountTrade(e, t, -1)
             x == [y EXCEPT !.window = Tail(@)]
  <2>1. e.window \in Seq(Heard) /\ e.window # <<>> /\ Tail(e.window) \in Seq(Heard)
        /\ Head(e.window) \in Heard
    <3> DEFINE w == e.window
    <3>1. w \in Seq(Heard) /\ ~(Len(w) < VpinWindow)
      BY <1>3 DEF Windows
    <3> HIDE DEF w
    <3>2. w # <<>>
      BY <1>1, <3>1
    <3>3. Tail(w) \in Seq(Heard) /\ Head(w) \in Heard
      BY <3>1, <3>2
    <3> QED
      BY <3>1, <3>2, <3>3 DEF w
  <2>2. t \in Heard /\ t.qty \in Nat /\ t.side \in Sides
    <3>1. t \in Heard
      BY <2>1
    <3> HIDE DEF t
    <3> QED
      BY <3>1 DEF Heard
  <2>3. HP!EvictTrade(e) = x
    BY <1>3 DEF HP!EvictTrade
  <2>4. /\ DOMAIN y = DOMAIN e
        /\ \A f \in DOMAIN e \ VolumeFields : y[f] = e[f]
        /\ y.buy_volume = e.buy_volume + (IF t.side = "Buy" THEN (-1) * t.qty ELSE 0)
        /\ y.sell_volume = e.sell_volume + (IF t.side = "Buy" THEN 0 ELSE (-1) * t.qty)
        /\ y.total_volume = e.total_volume + (-1) * t.qty
    <3> DEFINE n == -1
               m == n * t.qty
    <3>1. DOMAIN e = DOMAIN HP!NewEngine(FALSE)
      BY DEF Windows
    <3>2. y = HP!CountTrade(e, t, n) /\ m = n * t.qty
      OBVIOUS
    <3> HIDE DEF t, y, x, m, n
    <3>3. /\ DOMAIN y = DOMAIN e
          /\ \A f \in DOMAIN e \ VolumeFields : y[f] = e[f]
          /\ y.buy_volume = e.buy_volume + (IF t.side = "Buy" THEN m ELSE 0)
          /\ y.sell_volume = e.sell_volume + (IF t.side = "Buy" THEN 0 ELSE m)
          /\ y.total_volume = e.total_volume + m
      BY <3>1, <3>2 DEF HP!CountTrade, HP!NewEngine, VolumeFields
    <3>4. m = (-1) * t.qty
      BY DEF m, n
    <3> QED
      BY <3>3, <3>4
  <2> HIDE DEF y, t
  <2>5. "window" \in DOMAIN e /\ y.window = e.window
    BY <2>4 DEF Windows, HP!NewEngine, VolumeFields
  <2>6. /\ DOMAIN x = DOMAIN e
        /\ x.window = Tail(e.window)
        /\ \A f \in DOMAIN e \ WindowFields : x[f] = e[f]
        /\ x.buy_volume = y.buy_volume /\ x.sell_volume = y.sell_volume
        /\ x.total_volume = y.total_volume
    BY <2>4, <2>5 DEF Windows, HP!NewEngine, WindowFields, VolumeFields
  <2> HIDE DEF x
  <2>7. /\ WindowVolume(Tail(e.window), "Buy")
             = WindowVolume(e.window, "Buy") - (IF t.side = "Buy" THEN t.qty ELSE 0)
        /\ WindowVolume(Tail(e.window), "Sell")
             = WindowVolume(e.window, "Sell") - (IF t.side = "Sell" THEN t.qty ELSE 0)
        /\ WindowVolume(e.window, "Buy") \in Nat /\ WindowVolume(e.window, "Sell") \in Nat
    BY <2>1, VolumeTail, VolumeNat DEF t
  <2>8. Flow(x)
    <3> DEFINE b == WindowVolume(e.window, "Buy")
               s == WindowVolume(e.window, "Sell")
               q == t.qty
    <3>1. e.buy_volume = b /\ e.sell_volume = s /\ e.total_volume = b + s
      BY DEF Windows, Flow
    <3>2. b \in Nat /\ s \in Nat /\ q \in Nat
      BY <2>2, <2>7
    <3>3. CASE t.side = "Buy"
      <4>1. x.buy_volume = b + (-1) * q /\ x.sell_volume = s + 0 /\ x.total_volume = b + s + (-1) * q
        BY <2>4, <2>6, <3>1, <3>3
      <4>2. WindowVolume(x.window, "Buy") = b - q /\ WindowVolume(x.window, "Sell") = s - 0
        BY <2>6, <2>7, <3>3
      <4> HIDE DEF b, s, q
      <4> QED
        BY <3>2, <4>1, <4>2 DEF Flow
    <3>4. CASE t.side = "Sell"
      <4>1. x.buy_volume = b + 0 /\ x.sell_volume = s + (-1) * q /\ x.total_volume = b + s + (-1) * q
        BY <2>4, <2>6, <3>1, <3>4
      <4>2. WindowVolume(x.window, "Buy") = b - 0 /\ WindowVolume(x.window, "Sell") = s - q
        BY <2>6, <2>7, <3>4
      <4> HIDE DEF b, s, q
      <4> QED
        BY <3>2, <4>1, <4>2 DEF Flow
    <3> QED
      BY <2>2, <3>3, <3>4 DEF Sides
  <2>9. Windows(x)
    BY <2>1, <2>6, <2>8 DEF Windows
  <2> QED
    BY <1>3, <2>3, <2>6, <2>9
<1> QED
  BY <1>2, <1>3

(* A trade enters the window and its volume the sums.                      *)
LEMMA RecordFlows ==
  ASSUME NEW e, Windows(e), NEW t, t.side \in Sides, t.qty \in Nat
  PROVE  LET x == HP!RecordTrade(e, t)
             kept == IF Len(e.window) < VpinWindow THEN e.window ELSE Tail(e.window)
         IN  /\ Windows(x)
             /\ x.window = Append(kept, [side |-> t.side, qty |-> t.qty])
             /\ \A f \in DOMAIN e \ WindowFields : x[f] = e[f]
<1> DEFINE z == HP!EvictTrade(e)
           h == [side |-> t.side, qty |-> t.qty]
           y == HP!CountTrade(z, t, 1)
           x == [y EXCEPT !.window = Append(@, h)]
<1>1. /\ Windows(z)
      /\ z.window = IF Len(e.window) < VpinWindow THEN e.window ELSE Tail(e.window)
      /\ \A f \in DOMAIN e \ WindowFields : z[f] = e[f]
  BY EvictFlows
<1>2. HP!RecordTrade(e, t) = x
  BY DEF HP!RecordTrade
<1> HIDE DEF z
<1>12. DOMAIN z = DOMAIN HP!NewEngine(FALSE)
  BY <1>1 DEF Windows
<1>3. /\ DOMAIN y = DOMAIN z
      /\ \A f \in DOMAIN z \ VolumeFields : y[f] = z[f]
      /\ y.buy_volume = z.buy_volume + (IF t.side = "Buy" THEN 1 * t.qty ELSE 0)
      /\ y.sell_volume = z.sell_volume + (IF t.side = "Buy" THEN 0 ELSE 1 * t.qty)
      /\ y.total_volume = z.total_volume + 1 * t.qty
  <2> DEFINE n == 1
             m == n * t.qty
  <2>1. y = HP!CountTrade(z, t, n) /\ m = n * t.qty
    OBVIOUS
  <2> HIDE DEF y, x, m, n
  <2>2. /\ DOMAIN y = DOMAIN z
        /\ \A f \in DOMAIN z \ VolumeFields : y[f] = z[f]
        /\ y.buy_volume = z.buy_volume + (IF t.side = "Buy" THEN m ELSE 0)
        /\ y.sell_volume = z.sell_volume + (IF t.side = "Buy" THEN 0 ELSE m)
        /\ y.total_volume = z.total_volume + m
    BY <1>12, <2>1 DEF HP!CountTrade, HP!NewEngine, VolumeFields
  <2> QED
    BY <2>2 DEF m, n
<1>4. h \in Heard /\ h.side = t.side /\ h.qty = t.qty
  BY DEF Heard
<1> HIDE DEF y, h
<1>5. "window" \in DOMAIN z /\ y.window = z.window
  BY <1>12, <1>3 DEF HP!NewEngine, VolumeFields
<1>6. /\ DOMAIN x = DOMAIN z
      /\ x.window = Append(z.window, h)
      /\ \A f \in DOMAIN z \ WindowFields : x[f] = z[f]
      /\ x.buy_volume = y.buy_volume /\ x.sell_volume = y.sell_volume
      /\ x.total_volume = y.total_volume
  BY <1>1, <1>3, <1>5 DEF Windows, HP!NewEngine, WindowFields, VolumeFields
<1> HIDE DEF x
<1>7. z.window \in Seq(Heard) /\ Append(z.window, h) \in Seq(Heard)
  <2> DEFINE w == z.window
  <2>1. w \in Seq(Heard)
    BY <1>1 DEF Windows
  <2> HIDE DEF w
  <2>2. Append(w, h) \in Seq(Heard)
    BY <1>4, <2>1
  <2> QED
    BY <2>1, <2>2 DEF w
<1>8. /\ WindowVolume(x.window, "Buy")
           = WindowVolume(z.window, "Buy") + (IF h.side = "Buy" THEN h.qty ELSE 0)
      /\ WindowVolume(x.window, "Sell")
           = WindowVolume(z.window, "Sell") + (IF h.side = "Sell" THEN h.qty ELSE 0)
      /\ WindowVolume(z.window, "Buy") \in Nat /\ WindowVolume(z.window, "Sell") \in Nat
  BY <1>4, <1>6, <1>7, VolumeAppend, VolumeNat
<1>9. Flow(x)
  <2> DEFINE b == WindowVolume(z.window, "Buy")
             s == WindowVolume(z.window, "Sell")
             q == t.qty
  <2>1. z.buy_volume = b /\ z.sell_volume = s /\ z.total_volume = b + s
    BY <1>1 DEF Windows, Flow
  <2>2. b \in Nat /\ s \in Nat /\ q \in Nat
    BY <1>8
  <2>3. CASE t.side = "Buy"
    <3>1. x.buy_volume = b + 1 * q /\ x.sell_volume = s + 0 /\ x.total_volume = b + s + 1 * q
      BY <1>3, <1>6, <2>1, <2>3
    <3>2. WindowVolume(x.window, "Buy") = b + q /\ WindowVolume(x.window, "Sell") = s + 0
      BY <1>4, <1>8, <2>3
    <3> HIDE DEF b, s, q
    <3> QED
      BY <2>2, <3>1, <3>2 DEF Flow
  <2>4. CASE t.side = "Sell"
    <3>1. x.buy_volume = b + 0 /\ x.sell_volume = s + 1 * q /\ x.total_volume = b + s + 1 * q
      BY <1>3, <1>6, <2>1, <2>4
    <3>2. WindowVolume(x.window, "Buy") = b + 0 /\ WindowVolume(x.window, "Sell") = s + q
      BY <1>4, <1>8, <2>4
    <3> HIDE DEF b, s, q
    <3> QED
      BY <2>2, <3>1, <3>2 DEF Flow
  <2> QED
    BY <2>3, <2>4 DEF Sides
<1>10. Windows(x)
  BY <1>1, <1>6, <1>7, <1>9 DEF Windows
<1>11. DOMAIN z = DOMAIN e
  BY <1>1 DEF Windows
<1> QED
  BY <1>1, <1>2, <1>6, <1>10, <1>11 DEF h

-----------------------------------------------------------------------------
(* Division towards zero.                                                  *)

(* A product grows with its first factor.                                  *)
LEMMA Grows ==
  ASSUME NEW a \in Int, NEW b \in Int, NEW c \in Nat, a <= b
  PROVE  a * c <= b * c
<1>1. (b - a) * c >= 0
  BY SMT
<1>2. (b - a) * c = b * c - a * c
  BY SMT
<1> QED
  BY <1>1, <1>2, SMT

(* A quotient stays below h when its numerator is at most h divisors.      *)
LEMMA DivBetween ==
  ASSUME NEW n \in Nat, NEW d \in Nat \ {0}, NEW h \in Nat, n <= h * d
  PROVE  n \div d \in 0 .. h
<1> DEFINE q == n \div d
<1>1. q \in Nat /\ q * d <= n
  <2>1. q \in Int /\ n = d * q + (n % d) /\ n % d \in 0 .. d - 1
    BY SMT
  <2>2. q >= 0
    BY SMT
  <2> QED
    BY <2>1, <2>2, SMT
<1>2. ASSUME q > h
      PROVE  FALSE
  <2> HIDE DEF q
  <2>1. q \in Int /\ h + 1 \in Int /\ d \in Nat /\ h + 1 <= q
    BY <1>1, <1>2
  <2>2. (h + 1) * d <= q * d
    BY <2>1, Grows
  <2>3. (h + 1) * d = h * d + d
    BY SMT
  <2>4. h * d \in Int /\ q * d \in Int
    BY <1>1
  <2> QED
    BY <1>1, <2>2, <2>3, <2>4
<1> QED
  BY <1>1, <1>2

(* The same for the division towards zero of a signed numerator.           *)
LEMMA QuotBetween ==
  ASSUME NEW a \in Int, NEW d \in Nat \ {0}, NEW h \in Nat, a <= h * d, -a <= h * d
  PROVE  /\ HP!Quot(a, d) \in -h .. h
         /\ HP!Quot(a, d) = Quot(a, d)
<1>1. CASE a >= 0
  <2>1. HP!Quot(a, d) = a \div d /\ Quot(a, d) = a \div d
    BY <1>1 DEF HP!Quot, Quot
  <2>2. a \div d \in 0 .. h
    BY <1>1, DivBetween
  <2> QED
    BY <2>1, <2>2
<1>2. CASE ~(a >= 0)
  <2> DEFINE b == -a
  <2>1. HP!Quot(a, d) = -(b \div d) /\ Quot(a, d) = -(b \div d)
    BY <1>2 DEF HP!Quot, Quot
  <2>2. b \in Nat /\ b <= h * d
    BY <1>2
  <2> HIDE DEF b
  <2>3. b \div d \in 0 .. h
    BY <2>2, DivBetween
  <2> QED
    BY <2>1, <2>3
<1> QED
  BY <1>1, <1>2

-----------------------------------------------------------------------------
(* Quotes.                                                                 *)

(* The half spread is never negative.                                      *)
LEMMA HalfNat ==
  ASSUME NEW e, e.total_volume \in Nat, e.buy_volume \in Int, e.sell_volume \in Int
  PROVE  HP!Half(e) \in Nat
<1> DEFINE v == HP!VpinOf(e)
           m == HP!SpreadMultiplier(e)
           w == HP!Max({HalfSpread, 1})
<1>1. v \in Int
  <2> DEFINE t == e.total_volume
             k == HP!Magnitude(e.buy_volume - e.sell_volume) * 10000
  <2>1. t \in Nat /\ k \in Int
    BY DEF HP!Magnitude
  <2>2. v = IF t = 0 THEN 0 ELSE k \div t
    BY DEF HP!VpinOf, HP!Vpin
  <2> HIDE DEF t, k, v
  <2> QED
    BY <2>1, <2>2
<1>2. m = 10000 \/ (v > 8000 /\ m = 10000 + ((v - 8000) * 10000) \div 2000)
  BY DEF HP!SpreadMultiplier, HP!IsToxic, HP!ToxicThreshold
<1>3. w \in Nat
  <2>1. HalfSpread \in Int
    BY TradingAssumption DEF TradingAssumption
  <2> QED
    BY <2>1 DEF HP!Max
<1>4. HP!Half(e) = (w * m) \div 10000
  BY DEF HP!Half
<1> HIDE DEF v, m, w
<1>5. m \in Nat
  BY <1>1, <1>2
<1>6. w * m \in Nat
  BY <1>3, <1>5, SMT
<1> QED
  BY <1>4, <1>6

(* Whatever the inventory, the skew stays within the half spread.          *)
LEMMA SkewWithin ==
  ASSUME NEW e, e.position_qty \in -MaxInventory .. MaxInventory, NEW h \in Nat
  PROVE  HP!ComputeSkew(e, h) \in -h .. h
<1> DEFINE g == Gamma
           p == e.position_qty
           M == MaxInventory
           a == g * p * h
           d == 10000 * M
<1>1. g \in 0 .. 10000 /\ M \in Nat
  BY TradingAssumption DEF TradingAssumption
<1>2. p \in Int /\ p <= M /\ -p <= M
  BY <1>1
<1>3. HP!ComputeSkew(e, h) = IF M = 0 THEN 0 ELSE HP!Quot(a, d)
  BY DEF HP!ComputeSkew
<1> HIDE DEF g, p, M
<1>4. CASE M = 0
  BY <1>3, <1>4
<1>5. CASE M # 0
  <2>1. d \in Nat \ {0} /\ g * p \in Int /\ a \in Int
    BY <1>1, <1>2, <1>5
  <2>2. g * p <= d /\ g * (-p) <= d
    <3>1. \A q \in Int : q <= M => g * q <= 10000 * M
      <4> SUFFICES ASSUME NEW q \in Int, q <= M
                   PROVE  g * q <= 10000 * M
        OBVIOUS
      <4>1. q * g <= M * g
        <5>1. g \in Nat /\ M \in Int
          BY <1>1
        <5> QED
          BY <5>1, Grows
      <4>2. g * M <= 10000 * M
        <5>1. g \in Int /\ 10000 \in Int /\ M \in Nat /\ g <= 10000
          BY <1>1
        <5> QED
          BY <5>1, Grows
      <4>3. g * q = q * g /\ M * g = g * M /\ g * q \in Int /\ g * M \in Int /\ 10000 * M \in Int
        BY <1>1, SMT
      <4> QED
        BY <4>1, <4>2, <4>3
    <3>2. -p \in Int
      BY <1>2
    <3> QED
      BY <1>2, <3>1, <3>2
  <2>3. g * (-p) = -(g * p) /\ g * (-p) \in Int
    BY <1>1, <1>2, SMT
  <2>4. a <= d * h /\ -a <= d * h
    <3> DEFINE b == g * p
               c == g * (-p)
    <3>1. b * h <= d * h /\ c * h <= d * h
      <4>1. b \in Int /\ c \in Int /\ d \in Int /\ b <= d /\ c <= d
        BY <2>1, <2>2, <2>3
      <4> HIDE DEF b, c, d
      <4> QED
        BY <4>1, Grows
    <3>2. c = -b /\ b \in Int
      BY <2>1, <2>3
    <3>3. a = b * h
      OBVIOUS
    <3> HIDE DEF a, b, c, d
    <3>4. c * h = -(b * h)
      BY <3>2, SMT
    <3> QED
      BY <3>1, <3>3, <3>4
  <2>5. d * h = h * d
    BY <2>1, SMT
  <2> HIDE DEF a, d
  <2>6. HP!Quot(a, d) \in -h .. h
    BY <2>1, <2>4, <2>5, QuotBetween
  <2> QED
    BY <1>3, <1>5, <2>6
<1> QED
  BY <1>4, <1>5

-----------------------------------------------------------------------------
(* The calls on the engine.                                                *)

(* The running volumes are naturals.                                       *)
LEMMA FlowNat ==
  ASSUME NEW e, e.window \in Seq(Heard), Flow(e)
  PROVE  e.buy_volume \in Nat /\ e.sell_volume \in Nat /\ e.total_volume \in Nat
<1>1. WindowVolume(e.window, "Buy") \in Nat /\ WindowVolume(e.window, "Sell") \in Nat
  BY VolumeNat
<1> DEFINE b == WindowVolume(e.window, "Buy")
           s == WindowVolume(e.window, "Sell")
<1>2. e.buy_volume = b /\ e.sell_volume = s /\ e.total_volume = b + s /\ b \in Nat /\ s \in Nat
  BY <1>1 DEF Flow
<1> HIDE DEF b, s
<1> QED
  BY <1>2

(* Fields no part of the invariant looks at.                               *)
Ticks == {"tick_count", "ticks_since_quote"}

(* EngineInv does not depend on what a tick of the clock changes.          *)
LEMMA EngineAgrees ==
  ASSUME NEW e, NEW x, EngineInv(e), DOMAIN x = DOMAIN e,
         \A f \in DOMAIN e \ Ticks : x[f] = e[f]
  PROVE  EngineInv(x)
<1>1. /\ x.bids = e.bids /\ x.asks = e.asks /\ x.window = e.window
      /\ x.buy_volume = e.buy_volume /\ x.sell_volume = e.sell_volume
      /\ x.total_volume = e.total_volume /\ x.position_qty = e.position_qty
      /\ x.last_fair_value = e.last_fair_value /\ x.last_bid_price = e.last_bid_price
      /\ x.last_ask_price = e.last_ask_price
      /\ x.has_active_quotes = e.has_active_quotes /\ x.vpin_enabled = e.vpin_enabled
  BY DEF EngineInv, HP!NewEngine, Ticks
<1> QED
  BY <1>1 DEF EngineInv, Flow, Quoted, Passive

(* A book update leaves everything but the book as it was.                 *)
LEMMA BookKeepsEngine ==
  ASSUME NEW e, EngineInv(e), NEW u \in Updates
  PROVE  EngineInv(HP!ApplyBook(e, u))
<1> DEFINE x == HP!ApplyBook(e, u)
           b == HP!FirstLevels(u.bids)
           a == HP!FirstLevels(u.asks)
<1>1. u.bids \in Seq(Level) /\ u.asks \in Seq(Level)
  BY DEF Updates
<1>2. FlatSide(b) /\ FlatSide(a)
  BY <1>1, FirstLevelsTyped
<1>3. FlatSide(HP!ApplyDeltaSide(e.bids, "Buy", b)) /\ FlatSide(HP!ApplyDeltaSide(e.asks, "Sell", a))
  <2>1. FlatSide(e.bids) /\ FlatSide(e.asks)
    BY DEF EngineInv
  <2>2. b \in Seq(Level) /\ a \in Seq(Level)
    BY <1>2 DEF FlatSide
  <2> QED
    BY <2>1, <2>2, DeltaTyped
<1>4. /\ DOMAIN x = DOMAIN e
      /\ FlatSide(x.bids) /\ FlatSide(x.asks)
      /\ \A f \in DOMAIN e \ {"bids", "asks"} : x[f] = e[f]
  <2>1. x = IF u.is_snapshot THEN [e EXCEPT !.bids = b, !.asks = a]
            ELSE [e EXCEPT !.bids = HP!ApplyDeltaSide(e.bids, "Buy", b),
                           !.asks = HP!ApplyDeltaSide(e.asks, "Sell", a)]
    BY DEF HP!ApplyBook
  <2> HIDE DEF x, a, b
  <2>2. "bids" \in DOMAIN e /\ "asks" \in DOMAIN e
    BY DEF EngineInv, HP!NewEngine
  <2> QED
    BY <1>2, <1>3, <2>1, <2>2
<1> HIDE DEF x
<1>5. /\ x.window = e.window
      /\ x.buy_volume = e.buy_volume /\ x.sell_volume = e.sell_volume
      /\ x.total_volume = e.total_volume /\ x.position_qty = e.position_qty
      /\ x.last_fair_value = e.last_fair_value /\ x.last_bid_price = e.last_bid_price
      /\ x.last_ask_price = e.last_ask_price
      /\ x.has_active_quotes = e.has_active_quotes /\ x.vpin_enabled = e.vpin_enabled
  BY <1>4 DEF EngineInv, HP!NewEngine
<1> QED
  BY <1>4, <1>5 DEF EngineInv, Flow, Quoted, Passive, x

(* generate_quotes.                                                        *)
LEMMA QuotesKeepEngine ==
  ASSUME NEW e, EngineInv(e), NEW v \in Nat
  PROVE  LET r == HP!GenerateQuotes(e, v)
         IN  /\ EngineInv(r.engine)
             /\ r.engine.has_active_quotes
             /\ r.engine.position_qty = e.position_qty
             /\ r.engine.vpin_enabled = e.vpin_enabled
             /\ \E bid \in Int, ask \in Nat :
                  r.commands = HP!QuoteCommands(e, bid, ask)
<1> DEFINE h == HP!Half(e)
           s == HP!ComputeSkew(e, h)
           bid == v - h - s
           ask == v + h - s
           x == HP!GenerateQuotes(e, v).engine
<1>1. h \in Nat
  <2>1. e.window \in Seq(Heard) /\ Flow(e)
    BY DEF EngineInv
  <2>2. e.buy_volume \in Int /\ e.sell_volume \in Int /\ e.total_volume \in Nat
    BY <2>1, FlowNat
  <2> QED
    BY <2>2, HalfNat
<1>2. s \in -h .. h
  BY <1>1, SkewWithin DEF EngineInv
<1>3. HP!GenerateQuotes(e, v).commands = HP!QuoteCommands(e, bid, ask)
  BY DEF HP!GenerateQuotes
<1>4. x = [e EXCEPT !.last_fair_value = v, !.last_bid_price = bid,
                    !.last_ask_price = ask, !.ticks_since_quote = 0,
                    !.has_active_quotes = TRUE]
  BY DEF HP!GenerateQuotes
<1> HIDE DEF h, s, x
<1>5. bid \in Int /\ ask \in Int /\ ask \in Nat /\ bid <= v /\ v <= ask
  BY <1>1, <1>2
<1> HIDE DEF bid, ask
<1>6. /\ DOMAIN x = DOMAIN e
      /\ x.bids = e.bids /\ x.asks = e.asks /\ x.window = e.window
      /\ x.buy_volume = e.buy_volume /\ x.sell_volume = e.sell_volume
      /\ x.total_volume = e.total_volume /\ x.position_qty = e.position_qty
      /\ x.last_fair_value = v /\ x.last_bid_price = bid
      /\ x.last_ask_price = ask
      /\ x.has_active_quotes = TRUE /\ x.vpin_enabled = e.vpin_enabled
  BY <1>4 DEF EngineInv, HP!NewEngine
<1>7. EngineInv(x)
  BY <1>5, <1>6 DEF EngineInv, Flow, Quoted, Passive
<1> QED
  BY <1>3, <1>5, <1>6, <1>7 DEF x

(* on_book_update: a pair of quotes is left only when there are commands.  *)
LEMMA OnBookKeepsEngine ==
  ASSUME NEW e, EngineInv(e), NEW u \in Updates
  PROVE  LET r == HP!OnBookUpdate(e, u)
         IN  /\ EngineInv(r.engine)
             /\ r.engine.position_qty = e.position_qty
             /\ r.engine.vpin_enabled = e.vpin_enabled
             /\ \/ /\ r.commands = <<>>
                   /\ r.engine.has_active_quotes = e.has_active_quotes
                \/ /\ r.engine.has_active_quotes
                   /\ \E bid \in Int, ask \in Nat :
                        r.commands = HP!QuoteCommands(e, bid, ask)
<1> DEFINE b == HP!ApplyBook(e, u)
           k == [b EXCEPT !.tick_count = @ + 1, !.ticks_since_quote = @ + 1]
           v == HP!FairValue(k)
           r == HP!OnBookUpdate(e, u)
<1>1. EngineInv(b)
  BY BookKeepsEngine
<1>2. /\ b.position_qty = e.position_qty /\ b.vpin_enabled = e.vpin_enabled
      /\ b.has_active_quotes = e.has_active_quotes
  BY DEF EngineInv, HP!NewEngine, HP!ApplyBook
<1>3. r = IF v # 0 /\ HP!ShouldRequote(k, v) THEN HP!GenerateQuotes(k, v)
          ELSE [engine |-> k, commands |-> <<>>]
  BY DEF HP!OnBookUpdate
<1> HIDE DEF b, r
<1>4. DOMAIN k = DOMAIN b /\ \A f \in DOMAIN b \ Ticks : k[f] = b[f]
  BY DEF Ticks
<1>5. /\ k.position_qty = b.position_qty /\ k.vpin_enabled = b.vpin_enabled
      /\ k.has_active_quotes = b.has_active_quotes
  BY <1>1 DEF EngineInv, HP!NewEngine
<1> HIDE DEF k
<1>6. EngineInv(k)
  BY <1>1, <1>4, EngineAgrees
<1>7. v \in Nat
  <2>1. k.bids \in Seq(Level) /\ k.asks \in Seq(Level)
    BY <1>6 DEF EngineInv, FlatSide
  <2>2. v = HP!WeightedPrice(k.bids, k.asks, 5)
    BY DEF HP!FairValue, HP!MicropriceDepth
  <2>3. 5 \in Nat
    OBVIOUS
  <2> HIDE DEF v
  <2> QED
    BY <2>1, <2>2, <2>3, FairValueTyped
<1> HIDE DEF v
<1>8. \A bid, ask : HP!QuoteCommands(k, bid, ask) = HP!QuoteCommands(e, bid, ask)
  BY <1>2, <1>5 DEF HP!QuoteCommands, HP!AtMaxLong, HP!AtMaxShort
<1>9. CASE v # 0 /\ HP!ShouldRequote(k, v)
  <2>1. /\ EngineInv(r.engine)
        /\ r.engine.has_active_quotes
        /\ r.engine.position_qty = k.position_qty
        /\ r.engine.vpin_enabled = k.vpin_enabled
        /\ \E bid \in Int, ask \in Nat : r.commands = HP!QuoteCommands(k, bid, ask)
    <3>1. r = HP!GenerateQuotes(k, v)
      BY <1>3, <1>9
    <3> QED
      BY <3>1, <1>6, <1>7, QuotesKeepEngine
  <2> QED
    BY <1>2, <1>5, <1>8, <2>1 DEF r
<1>10. CASE ~(v # 0 /\ HP!ShouldRequote(k, v))
  <2>1. r.engine = k /\ r.commands = <<>>
    BY <1>3, <1>10
  <2> QED
    BY <1>2, <1>5, <1>6, <2>1 DEF r
<1> QED
  BY <1>9, <1>10

(* on_trade: toxic flow pulls the quotes.                                  *)
LEMMA OnTradeKeepsEngine ==
  ASSUME NEW e, EngineInv(e), NEW t, t.side \in Sides, t.qty \in Nat
  PROVE  LET r == HP!OnTrade(e, t)
             kept == IF Len(e.window) < VpinWindow THEN e.window ELSE Tail(e.window)
         IN  /\ EngineInv(r.engine)
             /\ r.engine.position_qty = e.position_qty
             /\ r.engine.vpin_enabled = e.vpin_enabled
             /\ r.engine.window = Append(kept, [side |-> t.side, qty |-> t.qty])
             /\ \/ /\ r.commands = <<>>
                   /\ r.engine.has_active_quotes = e.has_active_quotes
                \/ /\ e.vpin_enabled /\ e.has_active_quotes
                   /\ ~r.engine.has_active_quotes
                   /\ r.commands = <<HP!CancelAll>>
<1> DEFINE x == HP!RecordTrade(e, t)
           y == [x EXCEPT !.has_active_quotes = FALSE]
           r == HP!OnTrade(e, t)
           kept == IF Len(e.window) < VpinWindow THEN e.window ELSE Tail(e.window)
<1>1. /\ Windows(x)
      /\ x.window = Append(kept, [side |-> t.side, qty |-> t.qty])
      /\ \A f \in DOMAIN e \ WindowFields : x[f] = e[f]
  <2>1. Windows(e)
    BY DEF EngineInv, Windows
  <2> QED
    BY <2>1, RecordFlows
<1>2. r = IF HP!IsToxic(x) /\ x.has_active_quotes THEN [engine |-> y, commands |-> <<HP!CancelAll>>]
          ELSE [engine |-> x, commands |-> <<>>]
  BY DEF HP!OnTrade
<1> HIDE DEF x, r, kept
<1>3. /\ x.bids = e.bids /\ x.asks = e.asks /\ x.position_qty = e.position_qty
      /\ x.last_fair_value = e.last_fair_value /\ x.last_bid_price = e.last_bid_price
      /\ x.last_ask_price = e.last_ask_price
      /\ x.has_active_quotes = e.has_active_quotes /\ x.vpin_enabled = e.vpin_enabled
  BY <1>1 DEF EngineInv, HP!NewEngine, WindowFields
<1>4. EngineInv(x)
  BY <1>1, <1>3 DEF EngineInv, Windows, Quoted, Passive
<1>5. /\ y.bids = x.bids /\ y.asks = x.asks /\ y.position_qty = x.position_qty
      /\ y.window = x.window /\ y.buy_volume = x.buy_volume /\ y.sell_volume = x.sell_volume
      /\ y.total_volume = x.total_volume
      /\ y.last_fair_value = x.last_fair_value /\ y.last_bid_price = x.last_bid_price
      /\ y.last_ask_price = x.last_ask_price
      /\ y.has_active_quotes = FALSE /\ y.vpin_enabled = x.vpin_enabled
      /\ DOMAIN y = DOMAIN x
  BY <1>4 DEF EngineInv, HP!NewEngine
<1> HIDE DEF y
<1>6. EngineInv(y)
  BY <1>4, <1>5 DEF EngineInv, Flow, Quoted, Passive
<1>7. HP!IsToxic(x) => x.vpin_enabled
  BY DEF HP!IsToxic
<1>8. CASE HP!IsToxic(x) /\ x.has_active_quotes
  BY <1>1, <1>2, <1>3, <1>5, <1>6, <1>7, <1>8 DEF r, kept
<1>9. CASE ~(HP!IsToxic(x) /\ x.has_active_quotes)
  BY <1>1, <1>2, <1>3, <1>4, <1>9 DEF r, kept
<1> QED
  BY <1>8, <1>9

(* on_fill moves the inventory only.                                       *)
LEMMA OnFillKeepsEngine ==
  ASSUME NEW e, EngineInv(e), NEW side, NEW qty \in Int
  PROVE  LET x == HP!OnFill(e, side, qty)
         IN  /\ EngineInv(x)
             /\ x.position_qty = HP!Clamp(e.position_qty + HP!Sign(side) * qty,
                                          -MaxInventory, MaxInventory)
             /\ \A f \in DOMAIN e \ {"position_qty"} : x[f] = e[f]
<1> DEFINE p == HP!Clamp(e.position_qty + HP!Sign(side) * qty, -MaxInventory, MaxInventory)
           x == HP!OnFill(e, side, qty)
<1>1. x = [e EXCEPT !.position_qty = p]
  BY DEF HP!OnFill
<1>2. p \in -MaxInventory .. MaxInventory
  <2> DEFINE s == HP!Sign(side) * qty
             n == e.position_qty + s
  <2>1. MaxInventory \in Nat
    BY TradingAssumption DEF TradingAssumption
  <2>2. n \in Int
    <3>1. e.position_qty \in Int
      <4>1. e.position_qty \in -MaxInventory .. MaxInventory
        BY DEF EngineInv
      <4> HIDE DEF n, s, p, x
      <4> QED
        BY <2>1, <4>1
    <3>2. s \in Int
      BY DEF HP!Sign
    <3> HIDE DEF s
    <3> QED
      BY <3>1, <3>2
  <2>3. p = HP!Clamp(n, -MaxInventory, MaxInventory)
    OBVIOUS
  <2> HIDE DEF n, p
  <2> QED
    BY <2>1, <2>2, <2>3 DEF HP!Clamp
<1> HIDE DEF p, x
<1>3. /\ DOMAIN x = DOMAIN e
      /\ x.position_qty = p
      /\ \A f \in DOMAIN e \ {"position_qty"} : x[f] = e[f]
  BY <1>1 DEF EngineInv, HP!NewEngine
<1>4. /\ x.bids = e.bids /\ x.asks = e.asks /\ x.window = e.window
      /\ x.buy_volume = e.buy_volume /\ x.sell_volume = e.sell_volume
      /\ x.total_volume = e.total_volume
      /\ x.last_fair_value = e.last_fair_value /\ x.last_bid_price = e.last_bid_price
      /\ x.last_ask_price = e.last_ask_price
      /\ x.has_active_quotes = e.has_active_quotes /\ x.vpin_enabled = e.vpin_enabled
  BY <1>3 DEF EngineInv, HP!NewEngine
<1>5. EngineInv(x)
  BY <1>2, <1>3, <1>4 DEF EngineInv, Flow, Quoted, Passive
<1> QED
  BY <1>3, <1>5 DEF x, p

-----------------------------------------------------------------------------
(* The Rust market maker.                                                  *)

(* The market maker's running volumes are those of its window.             *)
MakerFlow(m) ==
  /\ m.buy_volume = WindowVolume(m.window, "Buy")
  /\ m.sell_volume = WindowVolume(m.window, "Sell")

(* What every call of the market maker keeps.                              *)
MakerInv(m) ==
  /\ DOMAIN m = DOMAIN Maker!NewMaker
  /\ m.window \in Seq(Heard)
  /\ MakerFlow(m)
  /\ m.tick_count \in Nat
  /\ m.last_quote_tick \in 0 .. m.tick_count

(* A new market maker has it, with an empty window.                        *)
LEMMA NewMakerGood ==
  MakerInv(Maker!NewMaker) /\ Maker!NewMaker.window = <<>>
<1> DEFINE m == Maker!NewMaker
<1>1. /\ m.window = <<>> /\ m.buy_volume = 0 /\ m.sell_volume = 0
      /\ m.tick_count = 0 /\ m.last_quote_tick = 0
  BY DEF Maker!NewMaker
<1>2. /\ WindowVolume(<<>>, "Buy") = 0 /\ WindowVolume(<<>>, "Sell") = 0
  <2>1. EngineInv(HP!NewEngine(FALSE))
    BY NewEngineGood
  <2>2. /\ HP!NewEngine(FALSE).window = <<>>
        /\ HP!NewEngine(FALSE).buy_volume = 0 /\ HP!NewEngine(FALSE).sell_volume = 0
    BY DEF HP!NewEngine
  <2> QED
    BY <2>1, <2>2 DEF EngineInv, Flow
<1>3. <<>> \in Seq(Heard)
  OBVIOUS
<1> HIDE DEF m
<1>4. MakerFlow(m)
  BY <1>1, <1>2 DEF MakerFlow
<1>5. m.tick_count \in Nat /\ m.last_quote_tick \in 0 .. m.tick_count
  BY <1>1
<1>6. DOMAIN m = DOMAIN Maker!NewMaker
  BY DEF m
<1>7. m.window \in Seq(Heard)
  BY <1>1, <1>3
<1>8. MakerInv(m)
  BY <1>4, <1>5, <1>6, <1>7 DEF MakerInv
<1> QED
  BY <1>1, <1>8 DEF m

(* The market maker inserts a trade first and evicts then: the window ends *)
(* up as the hot path's, and no volume is cut off at zero.                 *)
LEMMA MakerHears ==
  ASSUME NEW m, MakerInv(m), NEW t, t.side \in Sides, t.qty \in Nat
  PROVE  LET x == Maker!OnTrade(m, t)
             kept == IF Len(m.window) < VpinWindow THEN m.window ELSE Tail(m.window)
         IN  /\ MakerInv(x)
             /\ x.window = Append(kept, [side |-> t.side, qty |-> t.qty])
<1> DEFINE w == m.window
           h == [side |-> t.side, qty |-> t.qty]
           y == Maker!UpdateVolatility(m, t.price)
           i == Maker!InsertTrade(y, t)
           z == Maker!EvictOld(i)
           x == Maker!OnTrade(m, t)
           kept == IF Len(w) < VpinWindow THEN w ELSE Tail(w)
           bi == IF t.side = "Buy" THEN t.qty ELSE 0
           si == IF t.side = "Sell" THEN t.qty ELSE 0
<1>1. /\ VpinWindow \in Nat \ {0} /\ MmWindow = VpinWindow
      /\ w \in Seq(Heard) /\ Len(w) \in Nat
  <2>1. w \in Seq(Heard)
    BY DEF MakerInv
  <2> HIDE DEF w
  <2> QED
    BY <2>1, TradingAssumption DEF TradingAssumption
<1>2. h \in Heard /\ h.side = t.side /\ h.qty = t.qty
  BY DEF Heard
<1>3. /\ DOMAIN y = DOMAIN m
      /\ y.window = w /\ y.buy_volume = m.buy_volume /\ y.sell_volume = m.sell_volume
      /\ y.tick_count = m.tick_count /\ y.last_quote_tick = m.last_quote_tick
  BY DEF Maker!UpdateVolatility, MakerInv, Maker!NewMaker
<1> HIDE DEF y
<1>4. /\ DOMAIN i = DOMAIN m
      /\ i.window = Append(w, h)
      /\ i.buy_volume = m.buy_volume + bi /\ i.sell_volume = m.sell_volume + si
      /\ i.tick_count = m.tick_count /\ i.last_quote_tick = m.last_quote_tick
  BY <1>3 DEF Maker!InsertTrade, MakerInv, Maker!NewMaker
<1> HIDE DEF i, h
<1>5. /\ Append(w, h) \in Seq(Heard) /\ Len(Append(w, h)) = Len(w) + 1 /\ Append(w, h) # <<>>
  <2> HIDE DEF w
  <2> QED
    BY <1>1, <1>2
<1>6. /\ i.buy_volume = WindowVolume(Append(w, h), "Buy")
      /\ i.sell_volume = WindowVolume(Append(w, h), "Sell")
  <2>1. m.buy_volume = WindowVolume(w, "Buy") /\ m.sell_volume = WindowVolume(w, "Sell")
    BY DEF MakerInv, MakerFlow
  <2>2. \A side : WindowVolume(Append(w, h), side)
                    = WindowVolume(w, side) + (IF h.side = side THEN h.qty ELSE 0)
    BY <1>1, <1>2, VolumeAppend
  <2> HIDE DEF w
  <2> QED
    BY <1>2, <1>4, <2>1, <2>2
<1>7. /\ DOMAIN z = DOMAIN m
      /\ z.window = Append(kept, h)
      /\ z.window \in Seq(Heard)
      /\ MakerFlow(z)
      /\ z.tick_count = m.tick_count /\ z.last_quote_tick = m.last_quote_tick
  <2>1. CASE Len(w) < VpinWindow
    <3>1. Len(i.window) <= MmWindow
      BY <1>1, <1>4, <1>5, <2>1
    <3>2. z = i
      BY <3>1 DEF Maker!EvictOld
    <3> QED
      BY <1>4, <1>5, <1>6, <2>1, <3>2 DEF MakerFlow
  <2>2. CASE ~(Len(w) < VpinWindow)
    <3> DEFINE g == Head(i.window)
               less == Tail(i.window)
               b == WindowVolume(less, "Buy")
               s == WindowVolume(less, "Sell")
    <3>1. ~(Len(i.window) <= MmWindow)
      BY <1>1, <1>4, <1>5, <2>2
    <3>2. w # <<>>
      <4> HIDE DEF w
      <4> QED
        BY <1>1, <2>2
    <3>3. g \in Heard /\ less \in Seq(Heard) /\ less = Append(Tail(w), h)
      <4>1. Head(Append(w, h)) \in Heard /\ Tail(Append(w, h)) \in Seq(Heard)
        <5> DEFINE v == Append(w, h)
        <5>1. v \in Seq(Heard) /\ v # <<>>
          BY <1>5
        <5> HIDE DEF v
        <5>2. Head(v) \in Heard /\ Tail(v) \in Seq(Heard)
          BY <5>1
        <5> QED
          BY <5>2 DEF v
      <4>2. Tail(Append(w, h)) = Append(Tail(w), h)
        <5> HIDE DEF w
        <5> QED
          BY <1>1, <1>2, <3>2
      <4> QED
        BY <1>4, <4>1, <4>2
    <3>4. g.side \in Sides /\ g.qty \in Nat
      <4> HIDE DEF g, less
      <4> QED
        BY <3>3 DEF Heard
    <3>5. /\ b = i.buy_volume - (IF g.side = "Buy" THEN g.qty ELSE 0)
          /\ s = i.sell_volume - (IF g.side = "Sell" THEN g.qty ELSE 0)
          /\ b \in Nat /\ s \in Nat /\ i.buy_volume \in Nat /\ i.sell_volume \in Nat
      <4>1. \A side : /\ WindowVolume(Tail(Append(w, h)), side)
                           = WindowVolume(Append(w, h), side)
                               - (IF Head(Append(w, h)).side = side THEN Head(Append(w, h)).qty ELSE 0)
                      /\ WindowVolume(Append(w, h), side) \in Nat
        BY <1>5, VolumeTail, VolumeNat
      <4>2. b \in Nat /\ s \in Nat
        <5> HIDE DEF less
        <5> QED
          BY <3>3, VolumeNat
      <4> QED
        BY <1>4, <1>6, <4>1, <4>2
    <3>6. z = [i EXCEPT !.window = Tail(@),
                   !.buy_volume = IF g.side = "Buy" THEN Maker!MinusOrZero(@, g.qty) ELSE @,
                   !.sell_volume = IF g.side = "Sell" THEN Maker!MinusOrZero(@, g.qty) ELSE @]
      BY <3>1 DEF Maker!EvictOld
    <3>7. /\ DOMAIN z = DOMAIN m /\ z.window = less
          /\ z.buy_volume = IF g.side = "Buy" THEN Maker!MinusOrZero(i.buy_volume, g.qty)
                            ELSE i.buy_volume
          /\ z.sell_volume = IF g.side = "Sell" THEN Maker!MinusOrZero(i.sell_volume, g.qty)
                             ELSE i.sell_volume
          /\ z.tick_count = m.tick_count /\ z.last_quote_tick = m.last_quote_tick
      <4> HIDE DEF g, z, b, s
      <4> QED
        BY <1>4, <3>6 DEF MakerInv, Maker!NewMaker
    <3>8. \A a \in Nat, q \in Nat : a - q \in Nat => Maker!MinusOrZero(a, q) = a - q
      BY SMT DEF Maker!MinusOrZero, Maker!Max
    <3> HIDE DEF g, b, s, less, z
    <3>9. z.buy_volume = b /\ z.sell_volume = s
      <4> DEFINE p == i.buy_volume
                 r == i.sell_volume
                 q == g.qty
      <4>1. p \in Nat /\ r \in Nat /\ q \in Nat /\ b \in Nat /\ s \in Nat
        BY <3>4, <3>5
      <4>2. CASE g.side = "Buy"
        <5>1. b = p - q /\ s = r - 0 /\ z.buy_volume = Maker!MinusOrZero(p, q) /\ z.sell_volume = r
          BY <3>5, <3>7, <4>2
        <5> HIDE DEF p, q, r
        <5> QED
          BY <3>8, <4>1, <5>1
      <4>3. CASE g.side = "Sell"
        <5>1. b = p - 0 /\ s = r - q /\ z.buy_volume = p /\ z.sell_volume = Maker!MinusOrZero(r, q)
          BY <3>5, <3>7, <4>3
        <5> HIDE DEF p, q, r
        <5> QED
          BY <3>8, <4>1, <5>1
      <4> QED
        BY <3>4, <4>2, <4>3 DEF Sides
    <3>10. MakerFlow(z)
      BY <3>7, <3>9 DEF MakerFlow, b, s
    <3>11. kept = Tail(w)
      BY <2>2
    <3> QED
      BY <3>3, <3>7, <3>10, <3>11
  <2> QED
    BY <2>1, <2>2
<1> HIDE DEF z
<1>8. /\ DOMAIN x = DOMAIN z
      /\ x.window = z.window /\ x.buy_volume = z.buy_volume /\ x.sell_volume = z.sell_volume
      /\ x.tick_count = z.tick_count /\ x.last_quote_tick = z.last_quote_tick
  BY <1>7 DEF Maker!OnTrade, z, i, y, MakerInv, Maker!NewMaker
<1> HIDE DEF x, kept, w
<1>9. MakerInv(x)
  BY <1>7, <1>8 DEF MakerInv, MakerFlow
<1> QED
  BY <1>7, <1>8, <1>9 DEF x, kept, w, h

(* on_book_update: the tick counter runs, a quote dates itself by it.      *)
LEMMA MakerSees ==
  ASSUME NEW m, MakerInv(m), NEW u
  PROVE  MakerInv(Maker!OnBook(m, u)) /\ Maker!OnBook(m, u).window = m.window
<1> DEFINE k == [m EXCEPT !.tick_count = @ + 1]
           v == Maker!WeightedPrice(u.bids, u.asks, Maker!MmDepth)
           x == Maker!OnBook(m, u)
<1>1. x = k \/ x = Maker!MakerQuotes(k, v)
  BY DEF Maker!OnBook
<1>2. /\ DOMAIN k = DOMAIN m /\ k.window = m.window
      /\ k.buy_volume = m.buy_volume /\ k.sell_volume = m.sell_volume
      /\ k.tick_count = m.tick_count + 1 /\ k.last_quote_tick = m.last_quote_tick
  BY DEF MakerInv, Maker!NewMaker
<1> HIDE DEF k, v, x
<1>3. LET q == Maker!MakerQuotes(k, v)
      IN  /\ DOMAIN q = DOMAIN m /\ q.window = m.window
          /\ q.buy_volume = m.buy_volume /\ q.sell_volume = m.sell_volume
          /\ q.tick_count = m.tick_count + 1 /\ q.last_quote_tick = m.tick_count + 1
  BY <1>2 DEF Maker!MakerQuotes, MakerInv, Maker!NewMaker
<1>4. /\ DOMAIN x = DOMAIN m /\ x.window = m.window
      /\ x.buy_volume = m.buy_volume /\ x.sell_volume = m.sell_volume
      /\ x.tick_count = m.tick_count + 1
      /\ x.last_quote_tick \in {m.last_quote_tick, m.tick_count + 1}
  BY <1>1, <1>2, <1>3
<1>5. x.tick_count \in Nat /\ x.last_quote_tick \in 0 .. x.tick_count
  BY <1>4 DEF MakerInv
<1> QED
  BY <1>4, <1>5 DEF MakerInv, MakerFlow, x

(* on_fill ends the cooldown, not before the first tick.                   *)
LEMMA MakerFills ==
  ASSUME NEW m, MakerInv(m), NEW side, NEW qty
  PROVE  MakerInv(Maker!OnFill(m, side, qty)) /\ Maker!OnFill(m, side, qty).window = m.window
<1> DEFINE y == Maker!AddFill(m, side, qty)
           x == Maker!OnFill(m, side, qty)
           q == Maker!MinusOrZero(m.tick_count, MmMinQuoteInterval)
<1>1. /\ DOMAIN y = DOMAIN m /\ y.window = m.window
      /\ y.buy_volume = m.buy_volume /\ y.sell_volume = m.sell_volume
      /\ y.tick_count = m.tick_count
  BY DEF MakerInv, Maker!NewMaker, Maker!AddFill
<1>2. /\ DOMAIN x = DOMAIN m /\ x.window = m.window
      /\ x.buy_volume = m.buy_volume /\ x.sell_volume = m.sell_volume
      /\ x.tick_count = m.tick_count /\ x.last_quote_tick = q
  <2> HIDE DEF y, q
  <2>1. x = [y EXCEPT !.last_quote_tick = q]
    BY DEF Maker!OnFill, y, q
  <2> HIDE DEF x
  <2> QED
    BY <1>1, <2>1 DEF MakerInv, Maker!NewMaker
<1>3. m.tick_count \in Nat /\ MmMinQuoteInterval \in Nat
  BY TradingAssumption DEF TradingAssumption, MakerInv
<1>4. q \in 0 .. m.tick_count
  BY <1>3, SMT DEF Maker!MinusOrZero, Maker!Max
<1> HIDE DEF x, q
<1>5. x.tick_count \in Nat /\ x.last_quote_tick \in 0 .. x.tick_count
  BY <1>2, <1>3, <1>4
<1> QED
  BY <1>2, <1>5 DEF MakerInv, MakerFlow, x

-----------------------------------------------------------------------------
(* The commands of the hot path.                                           *)

(* A quote the hot path asks for.                                          *)
IsPlace(c) == c.tag = "PLACE" /\ c.side \in Sides /\ c.price \in Int

(* What may come: everything is canceled first if at all, and then at most *)
(* one order a side is placed.                                             *)
Pair(cs) ==
  /\ cs \in Seq({HP!CancelAll} \cup [tag: {"PLACE"}, side: Sides, price: Int])
  /\ \A i \in DOMAIN cs : cs[i].tag = "CANCEL_ALL" => i = 1
  /\ \A i, j \in DOMAIN cs :
       (i < j /\ cs[i].tag = "PLACE" /\ cs[j].tag = "PLACE") => cs[i].side # cs[j].side

(* The answer begins with CANCEL_ALL.                                      *)
Cancels(cs) == cs # <<>> /\ cs[1] = HP!CancelAll

(* Short sequences joined.                                                 *)
LEMMA Joined ==
  ASSUME NEW S, NEW u \in S, NEW v \in S, NEW w \in S
  PROVE  /\ <<u>> \o <<v>> = <<u, v>>
         /\ <<u, v>> \o <<w>> = <<u, v, w>>
<1>1. /\ <<u>> \in Seq(S) /\ <<v>> \in Seq(S) /\ <<w>> \in Seq(S)
      /\ <<u, v>> \in Seq(S) /\ <<u, v, w>> \in Seq(S)
      /\ Len(<<u>>) = 1 /\ Len(<<v>>) = 1 /\ Len(<<w>>) = 1
      /\ Len(<<u, v>>) = 2 /\ Len(<<u, v, w>>) = 3
  OBVIOUS
<1>2. <<u>> \o <<v>> = <<u, v>>
  <2> DEFINE j == <<u>> \o <<v>>
             t == <<u, v>>
  <2>1. j \in Seq(S) /\ Len(j) = 2
        /\ \A i \in 1 .. 2 : j[i] = IF i <= 1 THEN <<u>>[i] ELSE <<v>>[i - 1]
    BY <1>1, ConcatProperties
  <2>2. j[1] = u /\ j[2] = v
    BY <2>1
  <2> HIDE DEF j
  <2>3. \A i \in 1 .. Len(j) : j[i] = t[i]
    BY <2>1, <2>2
  <2>4. t \in Seq(S) /\ Len(j) = Len(t)
    BY <1>1, <2>1
  <2> HIDE DEF t
  <2>5. j = t
    BY <2>1, <2>3, <2>4, SeqEqual
  <2> QED
    BY <2>5 DEF j, t
<1>3. <<u, v>> \o <<w>> = <<u, v, w>>
  <2> DEFINE j == <<u, v>> \o <<w>>
             t == <<u, v, w>>
  <2>1. j \in Seq(S) /\ Len(j) = 3
        /\ \A i \in 1 .. 3 : j[i] = IF i <= 2 THEN <<u, v>>[i] ELSE <<w>>[i - 2]
    BY <1>1, ConcatProperties
  <2>2. j[1] = u /\ j[2] = v /\ j[3] = w
    BY <2>1
  <2> HIDE DEF j
  <2>3. \A i \in 1 .. Len(j) : j[i] = t[i]
    BY <2>1, <2>2
  <2>4. t \in Seq(S) /\ Len(j) = Len(t)
    BY <1>1, <2>1
  <2> HIDE DEF t
  <2>5. j = t
    BY <2>1, <2>3, <2>4, SeqEqual
  <2> QED
    BY <2>5 DEF j, t
<1> QED
  BY <1>2, <1>3

(* A requote: CANCEL_ALL if quotes are out, then a bid, then an ask.       *)
LEMMA QuoteCommandsPair ==
  ASSUME NEW e, NEW bid \in Int, NEW ask \in Nat
  PROVE  LET cs == HP!QuoteCommands(e, bid, ask)
         IN  /\ Pair(cs)
             /\ e.has_active_quotes => Cancels(cs)
             /\ ~e.has_active_quotes => \A i \in DOMAIN cs : cs[i].tag = "PLACE"
             /\ \A i \in DOMAIN cs : (cs[i].tag = "PLACE" /\ cs[i].side = "Sell") => cs[i].price \in Nat
             /\ \A i, j \in DOMAIN cs :
                  (i < j /\ cs[i].tag = "PLACE" /\ cs[j].tag = "PLACE")
                    => cs[i].side = "Buy" /\ cs[j].side = "Sell"
<1> DEFINE a == HP!CancelAll
           b == HP!Place("Buy", bid)
           s == HP!Place("Sell", ask)
           cs == HP!QuoteCommands(e, bid, ask)
           C == {HP!CancelAll} \cup [tag: {"PLACE"}, side: Sides, price: Int]
<1>1. /\ a.tag = "CANCEL_ALL"
      /\ b.tag = "PLACE" /\ b.side = "Buy" /\ b.price = bid
      /\ s.tag = "PLACE" /\ s.side = "Sell" /\ s.price = ask
      /\ a \in C /\ b \in C /\ s \in C
  BY DEF HP!CancelAll, HP!Place, Sides
<1>2. cs = (IF e.has_active_quotes THEN <<a>> ELSE <<>>)
           \o (IF HP!AtMaxLong(e) THEN <<>> ELSE <<b>>)
           \o (IF HP!AtMaxShort(e) THEN <<>> ELSE <<s>>)
  BY DEF HP!QuoteCommands
<1> HIDE DEF a, b, s, cs
<1>3. /\ e.has_active_quotes => cs \in {<<a>>, <<a, b>>, <<a, s>>, <<a, b, s>>}
      /\ ~e.has_active_quotes => cs \in {<<>>, <<b>>, <<s>>, <<b, s>>}
  <2> DEFINE x == IF e.has_active_quotes THEN <<a>> ELSE <<>>
             y == IF HP!AtMaxLong(e) THEN <<>> ELSE <<b>>
             z == IF HP!AtMaxShort(e) THEN <<>> ELSE <<s>>
  <2>0. a \in C /\ b \in C /\ s \in C
    BY <1>1
  <2>1. <<a>> \o <<b>> = <<a, b>> /\ <<a>> \o <<s>> = <<a, s>> /\ <<b>> \o <<s>> = <<b, s>>
    <3> HIDE DEF C
    <3> QED
      BY <2>0, Joined
  <2>2. <<a, b>> \o <<s>> = <<a, b, s>>
    <3> HIDE DEF C
    <3> QED
      BY <2>0, Joined
  <2>3. \A u \in {<<>>, <<a>>, <<b>>, <<s>>, <<a, b>>} : u \o <<>> = u /\ <<>> \o u = u
    <3>1. /\ <<>> \in Seq(C) /\ <<a>> \in Seq(C) /\ <<b>> \in Seq(C) /\ <<s>> \in Seq(C)
          /\ <<a, b>> \in Seq(C)
      <4> HIDE DEF C
      <4> QED
        BY <1>1
    <3> QED
      BY <3>1, ConcatEmptySeq
  <2>5. cs = (x \o y) \o z
    BY <1>2
  <2>6. /\ e.has_active_quotes => x \o y \in {<<a>>, <<a, b>>}
        /\ ~e.has_active_quotes => x \o y \in {<<>>, <<b>>}
    BY <2>1, <2>3
  <2>7. z \in {<<>>, <<s>>}
    OBVIOUS
  <2> HIDE DEF x, y, z
  <2> QED
    <3>1. CASE e.has_active_quotes
      BY <2>1, <2>2, <2>3, <2>5, <2>6, <2>7, <3>1
    <3>2. CASE ~e.has_active_quotes
      BY <2>1, <2>2, <2>3, <2>5, <2>6, <2>7, <3>2
    <3> QED
      BY <3>1, <3>2
<1>4. Pair(cs)
  <2>1. cs \in Seq(C)
    <3> HIDE DEF C
    <3>1. /\ <<>> \in Seq(C) /\ <<a>> \in Seq(C) /\ <<b>> \in Seq(C) /\ <<s>> \in Seq(C)
          /\ <<a, b>> \in Seq(C) /\ <<a, s>> \in Seq(C) /\ <<b, s>> \in Seq(C)
          /\ <<a, b, s>> \in Seq(C)
      BY <1>1
    <3> QED
      BY <1>3, <3>1
  <2>2. /\ \A i \in DOMAIN cs : cs[i].tag = "CANCEL_ALL" => i = 1
        /\ \A i, j \in DOMAIN cs :
             (i < j /\ cs[i].tag = "PLACE" /\ cs[j].tag = "PLACE") => cs[i].side # cs[j].side
    BY <1>1, <1>3
  <2> QED
    BY <2>1, <2>2 DEF Pair
<1>5. e.has_active_quotes => Cancels(cs)
  BY <1>3 DEF Cancels, a
<1>6. ~e.has_active_quotes => \A i \in DOMAIN cs : cs[i].tag = "PLACE"
  BY <1>1, <1>3
<1>7. /\ \A i \in DOMAIN cs : (cs[i].tag = "PLACE" /\ cs[i].side = "Sell") => cs[i].price \in Nat
      /\ \A i, j \in DOMAIN cs :
           (i < j /\ cs[i].tag = "PLACE" /\ cs[j].tag = "PLACE")
             => cs[i].side = "Buy" /\ cs[j].side = "Sell"
  BY <1>1, <1>3
<1> QED
  BY <1>4, <1>5, <1>6, <1>7 DEF cs

(* CANCEL_ALL alone, and nothing at all, are such answers.                 *)
LEMMA CancelPair ==
  /\ Pair(<<HP!CancelAll>>) /\ Cancels(<<HP!CancelAll>>)
  /\ Pair(<<>>)
<1>1. HP!CancelAll.tag = "CANCEL_ALL"
  BY DEF HP!CancelAll
<1> QED
  BY <1>1 DEF Pair, Cancels

-----------------------------------------------------------------------------
(* The quotes of the live loop: q = [quotes, next], c = [commands,         *)
(* refused].                                                               *)

(* The quotes of the live loop by their local id.                          *)
Quotes == [side: Sides, price: Int, canceled: BOOLEAN]

(* Their types; an id is below the one minted next.                        *)
QuotesTyped(qs, next) ==
  /\ next \in Nat \ {0}
  /\ qs \in [DOMAIN qs -> Quotes]
  /\ \A id \in DOMAIN qs : id \in Nat /\ id < next

(* A quote not yet canceled.                                               *)
OpenQuote(qs, id) == id \in DOMAIN qs /\ ~qs[id].canceled

(* At most one open quote a side.                                          *)
OnePerSide(qs) ==
  \A i, j : (OpenQuote(qs, i) /\ OpenQuote(qs, j) /\ qs[i].side = qs[j].side) => i = j

(* execute_commands as a fold: c = [commands, refused].                    *)
ExecStep(c, q, x) == ExecuteCommand(q, x, c.refused)

(* What is still to be placed has no open quote on its side.               *)
ExecGood(c, k, q) ==
  /\ DOMAIN q = {"quotes", "next"}
  /\ QuotesTyped(q.quotes, q.next)
  /\ OnePerSide(q.quotes)
  /\ \/ k = 0 /\ Cancels(c.commands)
     \/ \A id : OpenQuote(q.quotes, id) =>
          \A j \in DOMAIN c.commands :
            (j > k /\ c.commands[j].tag = "PLACE") => c.commands[j].side # q.quotes[id].side
  /\ (k = 1 /\ Cancels(c.commands)) => \A id : ~OpenQuote(q.quotes, id)

(* The fold over the commands.                                             *)
Exec == INSTANCE FoldFacts WITH Step <- ExecStep, Good <- ExecGood, Term <- Share

(* The loop over the commands as a fold.                                   *)
LEMMA ExecuteIsFold ==
  ASSUME NEW c
  PROVE  ExecuteCommands(c.commands, c.refused) <=>
           LET done == Exec!Fold(c, [quotes |-> quotes, next |-> next_local_id], c.commands)
           IN  quotes' = done.quotes /\ next_local_id' = done.next
  BY DEF ExecuteCommands, Exec!Fold, FoldLeft, MapThenFoldSet, Exec!MapThenFoldSet,
         Max, Exec!Max, ExecStep

(* One command keeps what is still to come free of open quotes.            *)
LEMMA ExecKeeps ==
  ASSUME NEW c, Pair(c.commands), NEW k \in 1 .. Len(c.commands), NEW q, ExecGood(c, k - 1, q)
  PROVE  ExecGood(c, k, ExecStep(c, q, c.commands[k]))
<1> DEFINE cs == c.commands
           x == cs[k]
           r == ExecStep(c, q, x)
           qs == q.quotes
<1>1. /\ cs \in Seq({HP!CancelAll} \cup [tag: {"PLACE"}, side: Sides, price: Int])
      /\ k \in DOMAIN cs /\ DOMAIN cs = 1 .. Len(cs) /\ Len(cs) \in Nat /\ k \in Nat
      /\ x \in {HP!CancelAll} \cup [tag: {"PLACE"}, side: Sides, price: Int]
      /\ k - 1 \in Nat
  <2>1. cs \in Seq({HP!CancelAll} \cup [tag: {"PLACE"}, side: Sides, price: Int])
    BY DEF Pair
  <2> DEFINE S == {HP!CancelAll} \cup [tag: {"PLACE"}, side: Sides, price: Int]
  <2>2. cs \in Seq(S) /\ k \in 1 .. Len(cs)
    BY <2>1
  <2> HIDE DEF cs, S
  <2>3. k \in DOMAIN cs /\ DOMAIN cs = 1 .. Len(cs) /\ Len(cs) \in Nat /\ cs[k] \in S
    BY <2>2
  <2>4. k \in Nat /\ k - 1 \in Nat
    BY <2>2, <2>3
  <2> QED
    BY <2>2, <2>3, <2>4 DEF S, x
<1>2. /\ DOMAIN q = {"quotes", "next"} /\ QuotesTyped(qs, q.next) /\ OnePerSide(qs)
  BY DEF ExecGood
<1>3. CASE x.tag = "CANCEL_ALL"
  <2>1. k = 1 /\ x = HP!CancelAll
    BY <1>1, <1>3 DEF Pair
  <2>2. r = [q EXCEPT !.quotes = [id \in DOMAIN qs |-> [qs[id] EXCEPT !.canceled = TRUE]]]
    BY <1>3 DEF ExecStep, ExecuteCommand
  <2>3. /\ DOMAIN r = {"quotes", "next"} /\ r.next = q.next
        /\ r.quotes = [id \in DOMAIN qs |-> [qs[id] EXCEPT !.canceled = TRUE]]
    BY <1>2, <2>2
  <2> HIDE DEF r
  <2>4. /\ QuotesTyped(r.quotes, r.next)
        /\ \A id : ~OpenQuote(r.quotes, id)
    <3>1. \A id \in DOMAIN qs : /\ [qs[id] EXCEPT !.canceled = TRUE] \in Quotes
                               /\ [qs[id] EXCEPT !.canceled = TRUE].canceled = TRUE
      BY <1>2 DEF QuotesTyped, Quotes
    <3>2. DOMAIN r.quotes = DOMAIN qs /\ r.quotes \in [DOMAIN r.quotes -> Quotes]
      BY <2>3, <3>1, SMTT(30)
    <3>3. QuotesTyped(r.quotes, r.next)
      BY <1>2, <2>3, <3>2 DEF QuotesTyped
    <3>4. \A id : ~OpenQuote(r.quotes, id)
      BY <2>3, <3>1 DEF OpenQuote
    <3> QED
      BY <3>3, <3>4
  <2>5. OnePerSide(r.quotes)
    BY <2>4 DEF OnePerSide
  <2> QED
    BY <2>3, <2>4, <2>5 DEF ExecGood, r
<1>4. CASE x.tag # "CANCEL_ALL"
  <2>1. x \in [tag: {"PLACE"}, side: Sides, price: Int]
    BY <1>1, <1>4 DEF HP!CancelAll
  <2>2. x.tag = "PLACE" /\ x.side \in Sides /\ x.price \in Int
    BY <2>1
  <2>3. \A id : OpenQuote(qs, id) =>
          \A j \in DOMAIN cs : (j > k - 1 /\ cs[j].tag = "PLACE") => cs[j].side # qs[id].side
    <3>1. ~(k - 1 = 0 /\ Cancels(cs))
      <4>1. HP!CancelAll.tag = "CANCEL_ALL"
        BY DEF HP!CancelAll
      <4>2. k = 1 => ~Cancels(cs)
        BY <1>4, <4>1 DEF Cancels
      <4> HIDE DEF cs
      <4> QED
        BY <1>1, <4>2
    <3> QED
      BY <3>1 DEF ExecGood
  <2>4. /\ \A id : OpenQuote(qs, id) => x.side # qs[id].side
        /\ \A id : OpenQuote(qs, id) =>
             \A j \in DOMAIN cs : (j > k /\ cs[j].tag = "PLACE") => cs[j].side # qs[id].side
        /\ \A j \in DOMAIN cs : (j > k /\ cs[j].tag = "PLACE") => cs[j].side # x.side
    <3>1. k > k - 1 /\ \A j \in DOMAIN cs : j > k => j > k - 1
      BY <1>1
    <3>2. \A j \in DOMAIN cs : (j > k /\ cs[j].tag = "PLACE") => cs[j].side # x.side
      <4>1. \A j \in DOMAIN cs : j > k => k < j
        BY <1>1
      <4> QED
        BY <1>1, <2>2, <4>1 DEF Pair
    <3> QED
      BY <1>1, <2>2, <2>3, <3>1, <3>2
  <2>5. ~(k = 1 /\ Cancels(cs))
    <3>1. HP!CancelAll.tag = "CANCEL_ALL"
      BY DEF HP!CancelAll
    <3> QED
      BY <1>4, <3>1 DEF Cancels
  <2> HIDE DEF cs, x
  <2>6. CASE x.side \in c.refused
    <3>1. r = q
      BY <1>4, <2>6 DEF ExecStep, ExecuteCommand
    <3> HIDE DEF r
    <3> QED
      BY <1>2, <2>4, <2>5, <3>1 DEF ExecGood, r, cs, x
  <2>7. CASE x.side \notin c.refused
    <3> DEFINE n == q.next
               new == [side |-> x.side, price |-> x.price, canceled |-> FALSE]
               rs == r.quotes
    <3>1. r = [ next |-> n + 1,
                quotes |-> [id \in DOMAIN qs \cup {n} |-> IF id = n THEN new ELSE qs[id]] ]
      BY <1>4, <2>7 DEF ExecStep, ExecuteCommand
    <3>2. /\ DOMAIN r = {"quotes", "next"} /\ r.next = n + 1
          /\ rs = [id \in DOMAIN qs \cup {n} |-> IF id = n THEN new ELSE qs[id]]
      BY <3>1
    <3> HIDE DEF r
    <3>3. n \in Nat \ {0} /\ n \notin DOMAIN qs
      BY <1>2 DEF QuotesTyped
    <3>4. /\ new \in Quotes /\ new.side = x.side /\ new.canceled = FALSE
      BY <2>2 DEF Quotes
    <3> HIDE DEF new, n
    <3>5. /\ rs[n] = new /\ DOMAIN rs = DOMAIN qs \cup {n}
          /\ \A id \in DOMAIN qs : rs[id] = qs[id]
      BY <3>2, <3>3
    <3>6. QuotesTyped(rs, n + 1)
      <4>1. rs \in [DOMAIN rs -> Quotes]
        BY <1>2, <3>2, <3>4 DEF QuotesTyped, n
      <4>2. \A id \in DOMAIN rs : id \in Nat /\ id < n + 1
        BY <1>2, <3>3, <3>5 DEF QuotesTyped, n
      <4>3. n + 1 \in Nat \ {0}
        BY <3>3
      <4> QED
        BY <4>1, <4>2, <4>3 DEF QuotesTyped
    <3> HIDE DEF rs
    <3>7. \A id : OpenQuote(rs, id) => id = n \/ (OpenQuote(qs, id) /\ rs[id] = qs[id])
      BY <3>5 DEF OpenQuote
    <3>8. OnePerSide(rs)
      BY <1>2, <2>4, <3>4, <3>5, <3>7 DEF OnePerSide
    <3>9. \A id : OpenQuote(rs, id) =>
            \A j \in DOMAIN cs : (j > k /\ cs[j].tag = "PLACE") => cs[j].side # rs[id].side
      BY <2>4, <3>4, <3>5, <3>7
    <3> QED
      BY <2>5, <3>2, <3>6, <3>8, <3>9 DEF ExecGood, rs, r, cs, x
  <2> QED
    BY <2>6, <2>7
<1> QED
  BY <1>3, <1>4

(* A batch of commands, executed whole.                                    *)
LEMMA ExecuteKeeps ==
  ASSUME NEW cs, Pair(cs), NEW refused, ExecuteCommands(cs, refused),
         QuotesTyped(quotes, next_local_id), OnePerSide(quotes),
         Cancels(cs) \/ \A id : ~OpenQuote(quotes, id)
  PROVE  /\ QuotesTyped(quotes, next_local_id)'
         /\ OnePerSide(quotes)'
         /\ cs = <<HP!CancelAll>> => \A id : ~OpenQuote(quotes', id)
<1> DEFINE c == [commands |-> cs, refused |-> refused]
           base == [quotes |-> quotes, next |-> next_local_id]
           done == Exec!Fold(c, base, cs)
           n == Len(cs)
<1>1. c.commands = cs /\ c.refused = refused
  OBVIOUS
<1>2. /\ DOMAIN base = {"quotes", "next"}
      /\ base.quotes = quotes /\ base.next = next_local_id
  OBVIOUS
<1> HIDE DEF c
<1>3. ExecuteCommands(c.commands, c.refused)
  BY <1>1
<1>4. quotes' = Exec!Fold(c, base, c.commands).quotes /\ next_local_id' = Exec!Fold(c, base, c.commands).next
  BY <1>3, ExecuteIsFold
<1>5. quotes' = done.quotes /\ next_local_id' = done.next
  BY <1>1, <1>4
<1> HIDE DEF base
<1>6. n \in Nat /\ DOMAIN cs = 1 .. n
  BY DEF Pair
<1> HIDE DEF n
<1>7. ExecGood(c, 0, base)
  BY <1>1, <1>2 DEF ExecGood
<1>8. \A k \in 1 .. n : \A s : ExecGood(c, k - 1, s) => ExecGood(c, k, ExecStep(c, s, cs[k]))
  BY <1>1, ExecKeeps DEF n
<1>9. ExecGood(c, n, done)
  BY <1>6, <1>7, <1>8, Exec!FoldInduction
<1> HIDE DEF done
<1>10. cs = <<HP!CancelAll>> => (n = 1 /\ Cancels(cs))
  BY DEF Cancels, n
<1> QED
  BY <1>1, <1>5, <1>9, <1>10 DEF ExecGood, QuotesTyped, OnePerSide, OpenQuote

(* Without a command nothing changes.                                      *)
LEMMA NothingExecuted ==
  ASSUME NEW refused, ExecuteCommands(<<>>, refused)
  PROVE  quotes' = quotes /\ next_local_id' = next_local_id
<1> DEFINE c == [commands |-> <<>>, refused |-> refused]
           base == [quotes |-> quotes, next |-> next_local_id]
<1>1. c.commands = <<>> /\ c.refused = refused
  OBVIOUS
<1> HIDE DEF c
<1>2. ExecuteCommands(c.commands, c.refused)
  BY <1>1
<1>3. quotes' = Exec!Fold(c, base, <<>>).quotes /\ next_local_id' = Exec!Fold(c, base, <<>>).next
  BY <1>1, <1>2, ExecuteIsFold
<1>4. Exec!Fold(c, base, <<>>) = base
  BY Exec!FoldEmpty
<1> QED
  BY <1>3, <1>4

-----------------------------------------------------------------------------
(* The live loop: both engines heard the same trades, and without active   *)
(* quotes none is left open.                                               *)

(* The live loop's two engines see one window, and one pair of quotes is   *)
(* out.                                                                    *)
QuotingInv ==
  /\ EngineInv(hp) /\ MakerInv(mm)
  /\ mm.window = hp.window
  /\ QuotesTyped(quotes, next_local_id)
  /\ OnePerSide(quotes)
  /\ ~hp.has_active_quotes => \A id : ~OpenQuote(quotes, id)
  /\ DOMAIN router \subseteq Venues
  /\ sim = Sim!NewExchange

(* It holds at first.                                                      *)
LEMMA QuotingInit ==
  ASSUME Init
  PROVE  QuotingInv
<1>1. hp = HP!NewEngine(VpinEnabled /\ mode = "live") /\ mm = Maker!NewMaker
  BY DEF Init
<1>2. VpinEnabled \in BOOLEAN
  BY TradingAssumption DEF TradingAssumption
<1>3. EngineInv(hp)
  <2> DEFINE b == VpinEnabled /\ mode = "live"
  <2>1. b \in BOOLEAN /\ hp = HP!NewEngine(b)
    BY <1>1, <1>2
  <2> HIDE DEF b
  <2> QED
    BY <2>1, NewEngineGood
<1>4. MakerInv(mm) /\ mm.window = <<>>
  BY <1>1, NewMakerGood
<1>5. hp.window = <<>>
  BY <1>1 DEF HP!NewEngine
<1>6. quotes = [id \in {} |-> 0] /\ next_local_id = 1 /\ DOMAIN router = {} /\ sim = Sim!NewExchange
  BY DEF Init
<1>7. DOMAIN quotes = {} /\ \A id : ~OpenQuote(quotes, id)
  BY <1>6 DEF OpenQuote
<1>8. QuotesTyped(quotes, next_local_id) /\ OnePerSide(quotes)
  BY <1>6, <1>7 DEF QuotesTyped, OnePerSide
<1> QED
  BY <1>3, <1>4, <1>5, <1>6, <1>7, <1>8 DEF QuotingInv

(* A book update keeps it.                                                 *)
LEMMA QuotingBookUpdate ==
  ASSUME QuotingInv, NEW l \in LiveUpdates, LiveBookUpdate(l.venue, l.update)
  PROVE  QuotingInv'
<1> DEFINE u == l.update
           r == HP!OnBookUpdate(hp, u)
<1>1. l.venue \in Venues /\ u \in Updates
  BY InputAssumption DEF InputAssumption, FromFeed
<1>2. /\ hp' = r.engine
      /\ mm' = Maker!OnBook(mm, u) \/ mm' = mm
      /\ DOMAIN router' = DOMAIN router \cup {l.venue}
      /\ sim' = sim
  BY DEF LiveBookUpdate
<1>3. PICK refused : ExecuteCommands(r.commands, refused)
  BY DEF LiveBookUpdate
<1>4. /\ EngineInv(r.engine)
      /\ \/ /\ r.commands = <<>>
            /\ r.engine.has_active_quotes = hp.has_active_quotes
         \/ /\ r.engine.has_active_quotes
            /\ \E bid \in Int, ask \in Nat : r.commands = HP!QuoteCommands(hp, bid, ask)
  BY <1>1, OnBookKeepsEngine DEF QuotingInv
<1>5. hp'.window = hp.window
  <2>1. \A e : "window" \in DOMAIN e =>
          "window" \in DOMAIN HP!ApplyBook(e, u) /\ HP!ApplyBook(e, u).window = e.window
    BY DEF HP!ApplyBook
  <2>2. \A e, v : "window" \in DOMAIN e => HP!GenerateQuotes(e, v).engine.window = e.window
    BY DEF HP!GenerateQuotes
  <2> DEFINE b == HP!ApplyBook(hp, u)
             k == [b EXCEPT !.tick_count = @ + 1, !.ticks_since_quote = @ + 1]
             v == HP!FairValue(k)
  <2>3. "window" \in DOMAIN hp
    BY DEF QuotingInv, EngineInv, HP!NewEngine
  <2>4. "window" \in DOMAIN k /\ k.window = hp.window
    <3> HIDE DEF v
    <3> QED
      BY <2>1, <2>3
  <2>5. r = IF v # 0 /\ HP!ShouldRequote(k, v) THEN HP!GenerateQuotes(k, v)
            ELSE [engine |-> k, commands |-> <<>>]
    BY DEF HP!OnBookUpdate
  <2> HIDE DEF k, v, r, u
  <2> QED
    BY <1>2, <2>2, <2>4, <2>5
<1>6. MakerInv(mm') /\ mm'.window = mm.window
  BY <1>2, MakerSees DEF QuotingInv
<1> HIDE DEF r, u
<1>7. /\ QuotesTyped(quotes, next_local_id)' /\ OnePerSide(quotes)'
      /\ ~r.engine.has_active_quotes => \A id : ~OpenQuote(quotes', id)
  <2>1. CASE r.commands = <<>> /\ r.engine.has_active_quotes = hp.has_active_quotes
    <3>1. quotes' = quotes /\ next_local_id' = next_local_id
      BY <1>3, <2>1, NothingExecuted
    <3> QED
      BY <2>1, <3>1 DEF QuotingInv, QuotesTyped, OnePerSide, OpenQuote
  <2>2. ASSUME r.engine.has_active_quotes,
               NEW bid \in Int, NEW ask \in Nat, r.commands = HP!QuoteCommands(hp, bid, ask)
        PROVE  QuotesTyped(quotes, next_local_id)' /\ OnePerSide(quotes)'
    <3>1. /\ Pair(r.commands)
          /\ hp.has_active_quotes => Cancels(r.commands)
      BY <2>2, QuoteCommandsPair
    <3>2. Cancels(r.commands) \/ \A id : ~OpenQuote(quotes, id)
      BY <3>1 DEF QuotingInv, EngineInv
    <3>3. QuotesTyped(quotes, next_local_id) /\ OnePerSide(quotes)
      BY DEF QuotingInv
    <3> QED
      BY <1>3, <3>1, <3>2, <3>3, ExecuteKeeps
  <2> QED
    BY <1>4, <2>1, <2>2
<1> QED
  BY <1>1, <1>2, <1>4, <1>5, <1>6, <1>7 DEF QuotingInv, QuotesTyped, OnePerSide, OpenQuote

(* A trade keeps it: both engines record it and the commands are executed. *)
LEMMA QuotingTrade ==
  ASSUME QuotingInv, NEW t \in Trades, LiveTrade(t)
  PROVE  QuotingInv'
<1> DEFINE r == HP!OnTrade(hp, t)
           h == [side |-> t.side, qty |-> t.qty]
           kept == IF Len(hp.window) < VpinWindow THEN hp.window ELSE Tail(hp.window)
<1>1. t.side \in Sides /\ t.qty \in Nat
  BY InputAssumption DEF InputAssumption
<1>2. /\ hp' = r.engine /\ mm' = Maker!OnTrade(mm, t)
      /\ ExecuteCommands(r.commands, {})
      /\ router' = router /\ sim' = sim
  BY DEF LiveTrade
<1>3. /\ EngineInv(r.engine)
      /\ r.engine.window = Append(kept, h)
      /\ \/ /\ r.commands = <<>>
            /\ r.engine.has_active_quotes = hp.has_active_quotes
         \/ /\ hp.has_active_quotes
            /\ ~r.engine.has_active_quotes
            /\ r.commands = <<HP!CancelAll>>
  BY <1>1, OnTradeKeepsEngine DEF QuotingInv
<1>4. MakerInv(mm') /\ mm'.window = Append(kept, h)
  <2>1. MakerInv(mm) /\ mm.window = hp.window
    BY DEF QuotingInv
  <2>2. LET keptmm == IF Len(mm.window) < VpinWindow THEN mm.window ELSE Tail(mm.window)
        IN  MakerInv(mm') /\ mm'.window = Append(keptmm, h)
    BY <1>1, <1>2, <2>1, MakerHears
  <2> QED
    BY <2>1, <2>2
<1> HIDE DEF r, kept, h
<1>5. /\ QuotesTyped(quotes, next_local_id)' /\ OnePerSide(quotes)'
      /\ ~r.engine.has_active_quotes => \A id : ~OpenQuote(quotes', id)
  <2>1. CASE r.commands = <<>> /\ r.engine.has_active_quotes = hp.has_active_quotes
    <3>1. quotes' = quotes /\ next_local_id' = next_local_id
      BY <1>2, <2>1, NothingExecuted
    <3> QED
      BY <2>1, <3>1 DEF QuotingInv, QuotesTyped, OnePerSide, OpenQuote
  <2>2. CASE r.commands = <<HP!CancelAll>>
    <3>1. Pair(r.commands) /\ Cancels(r.commands)
      BY <2>2, CancelPair
    <3>2. QuotesTyped(quotes, next_local_id) /\ OnePerSide(quotes)
      BY DEF QuotingInv
    <3> QED
      BY <1>2, <2>2, <3>1, <3>2, ExecuteKeeps
  <2> QED
    BY <1>3, <2>1, <2>2
<1> QED
  BY <1>2, <1>3, <1>4, <1>5 DEF QuotingInv, QuotesTyped, OnePerSide, OpenQuote

(* A fill keeps it: it moves positions only.                               *)
LEMMA QuotingFill ==
  ASSUME QuotingInv, NEW f \in Fills, QuoteFill(f)
  PROVE  QuotingInv'
<1>1. /\ hp' = HP!OnFill(hp, f.side, f.qty)
      /\ mm' = Maker!OnFill(mm, f.side, f.qty)
      /\ UNCHANGED <<router, sim, quotes, next_local_id>>
  BY DEF QuoteFill, GatewayFill
<1>2. f.qty \in Int
  <2>1. f \in FillTypes
    BY FillsTyped
  <2> QED
    BY <2>1 DEF FillTypes
<1>3. EngineInv(hp') /\ \A x \in DOMAIN hp \ {"position_qty"} : hp'[x] = hp[x]
  BY <1>1, <1>2, OnFillKeepsEngine DEF QuotingInv
<1>4. hp'.window = hp.window /\ hp'.has_active_quotes = hp.has_active_quotes
  BY <1>3 DEF QuotingInv, EngineInv, HP!NewEngine
<1>5. MakerInv(mm') /\ mm'.window = mm.window
  BY <1>1, MakerFills DEF QuotingInv
<1> QED
  BY <1>1, <1>3, <1>4, <1>5 DEF QuotingInv, QuotesTyped, OnePerSide, OpenQuote

-----------------------------------------------------------------------------
(* Sets of prices.                                                         *)

(* A finite set of naturals is bounded.                                    *)
LEMMA FiniteBounded ==
  ASSUME NEW P \in SUBSET Nat, IsFiniteSet(P)
  PROVE  \E m \in Nat : \A p \in P : p <= m
<1>1. PICK n \in Nat : ExistsSurjection(1 .. n, P)
  BY FS_NatSurjection
<1>2. PICK f \in [1 .. n -> P] : \A p \in P : \E i \in 1 .. n : f[i] = p
  BY <1>1 DEF ExistsSurjection, Surjection
<1> DEFINE T == { k \in 0 .. n : \E m \in Nat : \A i \in 1 .. k : f[i] <= m }
<1>3. 0 \in T
  <2>1. \A i \in 1 .. 0 : f[i] <= 0
    OBVIOUS
  <2> QED
    BY <2>1
<1>4. ASSUME NEW k \in 1 .. n, k - 1 \in T
      PROVE  k \in T
  <2>1. PICK m \in Nat : \A i \in 1 .. k - 1 : f[i] <= m
    BY <1>4
  <2>2. f[k] \in Nat
    OBVIOUS
  <2>3. \A i \in 1 .. k : i \in 1 .. k - 1 \/ i = k
    OBVIOUS
  <2>4. \A i \in 1 .. k : f[i] \in Nat
    <3>1. \A i \in 1 .. k : i \in 1 .. n
      OBVIOUS
    <3> QED
      BY <3>1
  <2>5. \A i \in 1 .. k : f[i] <= m + f[k]
    BY <2>1, <2>2, <2>3, <2>4
  <2> QED
    BY <2>2, <2>5
<1> HIDE DEF T
<1>5. n \in T
  BY <1>3, <1>4, Exec!UpTo
<1>6. PICK m \in Nat : \A i \in 1 .. n : f[i] <= m
  BY <1>5 DEF T
<1> QED
  BY <1>2, <1>6

(* The best, and the worst, of a finite set of prices.                     *)
LEMMA BestExists ==
  ASSUME NEW P \in SUBSET Nat, IsFiniteSet(P), P # {}, NEW side
  PROVE  /\ \E p \in P : \A q \in P \ {p} : Sim!Better(side, p, q)
         /\ \E p \in P : \A q \in P \ {p} : Sim!Better(side, q, p)
<1>1. PICK m \in Nat : \A p \in P : p <= m
  BY FiniteBounded
<1>2. PICK l \in P : \A q \in P : l <= q
  BY Exec!LeastOne
<1>3. PICK h \in P : \A q \in P : q <= h
  <2> DEFINE R == { m - p : p \in P }
  <2>1. R \in SUBSET Nat /\ R # {}
    <3>1. \A p \in P : p \in Nat /\ m - p \in Nat
      BY <1>1
    <3> QED
      BY <3>1
  <2>2. PICK x \in R : \A y \in R : x <= y
    BY <2>1, Exec!LeastOne
  <2>3. PICK h \in P : x = m - h
    BY <2>2
  <2>4. \A q \in P : m - h <= m - q
    BY <2>2, <2>3
  <2>5. \A q \in P : q <= h
    <3> SUFFICES ASSUME NEW q \in P
                 PROVE  q <= h
      OBVIOUS
    <3>1. q \in Nat /\ h \in Nat /\ m - h <= m - q
      BY <2>4
    <3> QED
      BY <3>1
  <2> QED
    BY <2>5
<1>4. \A q \in P \ {l} : l < q
  BY <1>2
<1>5. \A q \in P \ {h} : h > q
  BY <1>3
<1>6. \A q \in P \ {l} : q > l
  BY <1>2
<1>7. \A q \in P \ {h} : q < h
  BY <1>3
<1>8. CASE side = "Buy"
  BY <1>5, <1>6, <1>8 DEF Sim!Better
<1>9. CASE side # "Buy"
  BY <1>4, <1>7, <1>9 DEF Sim!Better
<1> QED
  BY <1>8, <1>9

(* Better is transitive.                                                   *)
LEMMA BetterTransitive ==
  ASSUME NEW side, NEW a \in Nat, NEW b \in Nat, NEW c \in Nat,
         Sim!Better(side, a, b), Sim!Better(side, b, c)
  PROVE  Sim!Better(side, a, c)
  BY DEF Sim!Better

(* Sets inside the instance of the exchange are those outside it.          *)
LEMMA SimSets ==
  /\ \A S : Sim!Cardinality(S) = Cardinality(S)
  /\ Sim!Level = Level /\ Sim!Sides = Sides
  /\ \A a, b \in Int : Sim!Min({a, b}) = IF a <= b THEN a ELSE b
<1>1. \A S : Sim!Cardinality(S) = Cardinality(S)
  BY DEF Sim!Cardinality, Cardinality, Sim!IsFiniteSet, IsFiniteSet
<1>2. Sim!Level = Level /\ Sim!Sides = Sides
  BY DEF Sim!Level, Level, Sim!Sides, Sides
<1>3. \A a, b \in Int : Sim!Min({a, b}) = IF a <= b THEN a ELSE b
  BY SMT DEF Sim!Min
<1> QED
  BY <1>1, <1>2, <1>3

(* The prices of P, each once, the best first.                             *)
SortedPrices(P, side, s) ==
  /\ s \in [1 .. Cardinality(P) -> P]
  /\ \A i, j \in DOMAIN s : i < j => Sim!Better(side, s[i], s[j])

(* Prices can be sorted.                                                   *)
LEMMA SortedExists ==
  ASSUME NEW P \in SUBSET Nat, IsFiniteSet(P), NEW side
  PROVE  \E s : SortedPrices(P, side, s)
<1> DEFINE n == Cardinality(P)
           T == { k \in 0 .. n : \A Q \in SUBSET P :
                    Cardinality(Q) = k => \E s : SortedPrices(Q, side, s) }
<1>1. n \in Nat /\ \A Q \in SUBSET P : IsFiniteSet(Q)
  BY FS_CardinalityType, FS_Subset
<1> HIDE DEF n
<1>2. 0 \in T
  <2>1. ASSUME NEW Q \in SUBSET P, Cardinality(Q) = 0
        PROVE  SortedPrices(Q, side, <<>>)
    <3>1. DOMAIN <<>> = 1 .. 0 /\ <<>> \in [1 .. 0 -> Q]
      OBVIOUS
    <3>2. \A i \in 1 .. 0 : FALSE
      OBVIOUS
    <3> QED
      BY <2>1, <3>1, <3>2 DEF SortedPrices
  <2> QED
    BY <1>1, <2>1
<1>3. ASSUME NEW k \in 1 .. n, k - 1 \in T
      PROVE  k \in T
  <2>1. ASSUME NEW Q \in SUBSET P, Cardinality(Q) = k
        PROVE  \E s : SortedPrices(Q, side, s)
    <3>1. Q # {} /\ IsFiniteSet(Q) /\ k \in Nat /\ k >= 1
      BY <1>1, <2>1, FS_EmptySet
    <3>2. PICK w \in Q : \A q \in Q \ {w} : Sim!Better(side, q, w)
      BY <3>1, BestExists
    <3> DEFINE R == Q \ {w}
    <3>3. Cardinality(R) = k - 1 /\ R \in SUBSET P
      BY <2>1, <3>1, FS_RemoveElement
    <3> HIDE DEF R
    <3>4. PICK s : SortedPrices(R, side, s)
      BY <1>3, <3>3
    <3> DEFINE t == [i \in 1 .. k |-> IF i = k THEN w ELSE s[i]]
    <3>5. s \in [1 .. k - 1 -> R] /\ DOMAIN s = 1 .. k - 1
      BY <3>3, <3>4 DEF SortedPrices
    <3>6. \A i \in 1 .. k : i = k \/ i \in 1 .. k - 1
      BY <3>1
    <3>7. t \in [1 .. k -> Q]
      BY <3>5, <3>6 DEF R
    <3>8. ASSUME NEW i \in 1 .. k, NEW j \in 1 .. k, i < j
          PROVE  Sim!Better(side, t[i], t[j])
      <4>1. i \in 1 .. k - 1 /\ i # k
        BY <3>8, <3>1
      <4>2. t[i] = s[i] /\ s[i] \in R
        BY <3>5, <4>1
      <4>3. CASE j = k
        <5>1. t[j] = w
          BY <4>3
        <5> QED
          BY <3>2, <4>2, <5>1 DEF R
      <4>4. CASE j # k
        <5>1. j \in 1 .. k - 1 /\ t[j] = s[j]
          BY <3>6, <4>4
        <5> QED
          BY <3>4, <3>5, <3>8, <4>1, <4>2, <5>1 DEF SortedPrices
      <4> QED
        BY <4>3, <4>4
    <3>9. SortedPrices(Q, side, t)
      BY <2>1, <3>7, <3>8 DEF SortedPrices
    <3> QED
      BY <3>9
  <2> QED
    BY <2>1
<1> HIDE DEF T
<1>4. n \in T
  BY <1>1, <1>2, <1>3, Exec!UpTo
<1> QED
  BY <1>1, <1>4 DEF T, n

(* BestFirst lists a finite set of prices so.                              *)
LEMMA BestFirstSorted ==
  ASSUME NEW P \in SUBSET Nat, IsFiniteSet(P), NEW side
  PROVE  SortedPrices(P, side, Sim!BestFirst(P, side))
<1> DEFINE G(s) == \A i, j \in DOMAIN s : i < j => Sim!Better(side, s[i], s[j])
           F == [1 .. Cardinality(P) -> P]
<1>1. Sim!BestFirst(P, side) = CHOOSE s \in F : G(s)
  BY SimSets DEF Sim!BestFirst
<1>2. \E s \in F : G(s)
  BY SortedExists DEF SortedPrices
<1> QED
  BY <1>1, <1>2 DEF SortedPrices

-----------------------------------------------------------------------------
(* The book of the simulated exchange.                                     *)

(* One side of the exchange's book: a finite map from prices to            *)
(* quantities.                                                             *)
IsLevels(levels) ==
  /\ DOMAIN levels \subseteq Nat \ {0}
  /\ IsFiniteSet(DOMAIN levels)
  /\ levels \in [DOMAIN levels -> Nat \ {0}]

(* The best price of a side that is not empty is one of its prices.        *)
LEMMA SimBest ==
  ASSUME NEW levels, IsLevels(levels), DOMAIN levels # {}, NEW side
  PROVE  Sim!Best(levels, side) \in DOMAIN levels
<1> DEFINE P == DOMAIN levels
<1>1. P \in SUBSET Nat /\ IsFiniteSet(P)
  BY DEF IsLevels
<1>2. \E p \in P : \A q \in P \ {p} : Sim!Better(side, p, q)
  <2> HIDE DEF P
  <2>1. P # {}
    BY DEF P
  <2> QED
    BY <1>1, <2>1, BestExists
<1> QED
  BY <1>2 DEF Sim!Best

(* set_levels as a fold.                                                   *)
SetStep(c, s, x) == Sim!SetLevel(s, x)
SetGood(c, k, s) == IsLevels(s)

Setting == INSTANCE FoldFacts WITH Step <- SetStep, Good <- SetGood, Term <- Share

(* The loop over the levels as a fold.                                     *)
LEMMA SetIsFold ==
  ASSUME NEW levels, NEW news
  PROVE  Sim!SetLevels(levels, news) = Setting!Fold(0, levels, news)
  BY DEF Sim!SetLevels, Setting!Fold, Sim!FoldLeft, Sim!MapThenFoldSet,
         Setting!MapThenFoldSet, Sim!Max, Setting!Max, SetStep

(* One level set or removed leaves a side of the book.                     *)
LEMMA SetLevelTyped ==
  ASSUME NEW levels, IsLevels(levels), NEW l, l.price \in Nat \ {0}, l.qty \in Nat
  PROVE  IsLevels(Sim!SetLevel(levels, l))
<1> DEFINE D == IF l.qty = 0 THEN DOMAIN levels \ {l.price} ELSE DOMAIN levels \cup {l.price}
           r == Sim!SetLevel(levels, l)
<1>1. r = [p \in D |-> IF p = l.price THEN l.qty ELSE levels[p]]
  BY DEF Sim!SetLevel
<1>2. D \subseteq Nat \ {0} /\ IsFiniteSet(D)
  BY FS_RemoveElement, FS_AddElement DEF IsLevels
<1>3. \A p \in D : (IF p = l.price THEN l.qty ELSE levels[p]) \in Nat \ {0}
  BY DEF IsLevels
<1> HIDE DEF D, r
<1>4. DOMAIN r = D /\ r \in [D -> Nat \ {0}]
  BY <1>1, <1>3
<1> QED
  BY <1>2, <1>4 DEF IsLevels, r

(* So do all of them.                                                      *)
LEMMA SetLevelsTyped ==
  ASSUME NEW levels, IsLevels(levels), NEW news \in Seq(Level)
  PROVE  IsLevels(Sim!SetLevels(levels, news))
<1> DEFINE n == Len(news)
<1>1. n \in Nat /\ DOMAIN news = 1 .. n /\ \A k \in 1 .. n : news[k] \in Level
  OBVIOUS
<1> HIDE DEF n
<1>2. SetGood(0, 0, levels)
  BY DEF SetGood
<1>3. \A k \in 1 .. n : \A s : SetGood(0, k - 1, s) => SetGood(0, k, SetStep(0, s, news[k]))
  <2>1. \A k \in 1 .. n : news[k].price \in Nat \ {0} /\ news[k].qty \in Nat
    BY <1>1 DEF Level
  <2> QED
    BY <2>1, SetLevelTyped DEF SetGood, SetStep
<1>4. SetGood(0, n, Setting!Fold(0, levels, news))
  BY <1>1, <1>2, <1>3, Setting!FoldInduction
<1> QED
  BY <1>4, SetIsFold DEF SetGood

(* An empty side is a side.                                                *)
LEMMA NoLevelsTyped == IsLevels(Sim!NoLevels)
<1>1. DOMAIN Sim!NoLevels = {}
  BY DEF Sim!NoLevels
<1>2. IsFiniteSet({})
  BY FS_EmptySet
<1>3. Sim!NoLevels \in [DOMAIN Sim!NoLevels -> Nat \ {0}]
  BY <1>1 DEF Sim!NoLevels
<1> QED
  BY <1>1, <1>2, <1>3 DEF IsLevels

(* What an order may trade with: levels of the book, at accepted prices.   *)
LEMMA MatchingTyped ==
  ASSUME NEW s, NEW o, IsLevels(s.bids), IsLevels(s.asks)
  PROVE  LET list == Sim!Matching(s, o)
         IN  \E n \in Nat :
               /\ DOMAIN list = 1 .. n
               /\ \A i \in 1 .. n :
                    /\ list[i].price \in Nat \ {0} /\ list[i].qty \in Nat \ {0}
                    /\ Sim!HasLimit(o) => Sim!Accepts(o.side, o.price, list[i].price)
<1> DEFINE levels == Sim!Liquidity(s, o.side)
           P == { p \in DOMAIN levels : Sim!HasLimit(o) => Sim!Accepts(o.side, o.price, p) }
           side == Sim!Opposite(o.side)
           ordered == Sim!BestFirst(P, side)
           n == Cardinality(P)
           list == Sim!Matching(s, o)
<1>1. IsLevels(levels)
  BY DEF Sim!Liquidity
<1> HIDE DEF levels
<1>2. P \in SUBSET Nat /\ IsFiniteSet(P)
  <2>1. P \in SUBSET DOMAIN levels
    OBVIOUS
  <2>2. IsFiniteSet(DOMAIN levels) /\ DOMAIN levels \subseteq Nat
    BY <1>1 DEF IsLevels
  <2> HIDE DEF P
  <2> QED
    BY <2>1, <2>2, FS_Subset
<1>3. list = [i \in DOMAIN ordered |-> [price |-> ordered[i], qty |-> levels[ordered[i]]]]
  BY DEF Sim!Matching, levels
<1>4. n \in Nat /\ ordered \in [1 .. n -> P]
  <2> HIDE DEF P
  <2> QED
    BY <1>2, BestFirstSorted, FS_CardinalityType DEF SortedPrices
<1> HIDE DEF n, ordered, list
<1>5. DOMAIN list = 1 .. n
  BY <1>3, <1>4
<1>6. \A i \in 1 .. n :
        /\ list[i].price \in Nat \ {0} /\ list[i].qty \in Nat \ {0}
        /\ Sim!HasLimit(o) => Sim!Accepts(o.side, o.price, list[i].price)
  <2> SUFFICES ASSUME NEW i \in 1 .. n
               PROVE  /\ list[i].price \in Nat \ {0} /\ list[i].qty \in Nat \ {0}
                      /\ Sim!HasLimit(o) => Sim!Accepts(o.side, o.price, list[i].price)
    OBVIOUS
  <2>1. ordered[i] \in P
    BY <1>4
  <2>2. list[i].price = ordered[i] /\ list[i].qty = levels[ordered[i]]
    BY <1>3, <1>4
  <2>3. ordered[i] \in DOMAIN levels /\ (Sim!HasLimit(o) => Sim!Accepts(o.side, o.price, ordered[i]))
    BY <2>1
  <2> HIDE DEF P
  <2>4. ordered[i] \in Nat \ {0} /\ levels[ordered[i]] \in Nat \ {0}
    BY <1>1, <2>3 DEF IsLevels
  <2> QED
    BY <2>2, <2>3, <2>4
<1> QED
  BY <1>4, <1>5, <1>6 DEF list

-----------------------------------------------------------------------------
(* The flat book and the map.                                              *)

(* The best price first.                                                   *)
Sorted(side, flat) ==
  \A i, j \in DOMAIN flat : i < j => Better(side, flat[i].price, flat[j].price)

(* Every flat level is a level of the map.                                 *)
Held(flat, levels) ==
  \A i \in DOMAIN flat : flat[i].price \in DOMAIN levels /\ flat[i].qty = levels[flat[i].price]

(* And every level of the map is a flat one: there are as many.            *)
Whole(flat, levels) == Len(flat) = Cardinality(DOMAIN levels)

(* The flat levels before a price.                                         *)
BetterPlaces(side, flat, p) == { i \in DOMAIN flat : HP!Better(side, flat[i].price, p) }

(* What SetLevel leaves, in both books alike.                              *)
LEMMA SetLevelIs ==
  ASSUME NEW levels, NEW l
  PROVE  LET m == Book!SetLevel(levels, l)
         IN  /\ DOMAIN m = IF l.qty = 0 THEN DOMAIN levels \ {l.price} ELSE DOMAIN levels \cup {l.price}
             /\ \A p \in DOMAIN m : m[p] = IF p = l.price THEN l.qty ELSE levels[p]
             /\ m = Sim!SetLevel(levels, l)
  BY DEF Book!SetLevel, Sim!SetLevel

(* The elements of a flat side are levels.                                 *)
LEMMA SortedLevels ==
  ASSUME NEW flat \in Seq(Level)
  PROVE  /\ DOMAIN flat = 1 .. Len(flat) /\ Len(flat) \in Nat
         /\ \A i \in 1 .. Len(flat) : /\ flat[i] \in Level
                                       /\ flat[i].price \in Nat \ {0} /\ flat[i].qty \in Nat
<1>1. /\ DOMAIN flat = 1 .. Len(flat) /\ Len(flat) \in Nat
      /\ \A i \in 1 .. Len(flat) : flat[i] \in Level
  OBVIOUS
<1>2. \A l \in Level : l.price \in Nat \ {0} /\ l.qty \in Nat
  BY DEF Level
<1> QED
  BY <1>1, <1>2

(* The size of an interval from 1 on.                                      *)
LEMMA UpToCount ==
  ASSUME NEW n \in Nat
  PROVE  Cardinality(1 .. n) = n /\ IsFiniteSet(1 .. n)
  BY FS_Interval

(* The place of a price that is held.                                      *)
LEMMA PlaceOf ==
  ASSUME NEW flat \in Seq(Level), NEW side, Sorted(side, flat), NEW j \in DOMAIN flat
  PROVE  Cardinality(BetterPlaces(side, flat, flat[j].price)) = j - 1
<1> DEFINE S == BetterPlaces(side, flat, flat[j].price)
           n == Len(flat)
           m == j - 1
<1>1. /\ DOMAIN flat = 1 .. n /\ n \in Nat /\ j \in 1 .. n
      /\ \A i \in 1 .. n : flat[i].price \in Nat
  BY SortedLevels
<1>2. S \subseteq 1 .. n /\ \A i \in 1 .. n : i \in S <=> Better(side, flat[i].price, flat[j].price)
  BY <1>1 DEF BetterPlaces, HP!Better, Better
<1> HIDE DEF S, n
<1>3. ASSUME NEW i \in 1 .. n
      PROVE  i \in S <=> i < j
  <2>1. i < j => Better(side, flat[i].price, flat[j].price)
    BY <1>1 DEF Sorted
  <2>2. j < i => Better(side, flat[j].price, flat[i].price)
    BY <1>1 DEF Sorted
  <2>3. flat[i].price \in Nat /\ flat[j].price \in Nat /\ i \in Nat /\ j \in Nat
    BY <1>1
  <2> QED
    BY <1>2, <2>1, <2>2, <2>3 DEF Better
<1>4. m \in Nat /\ j = m + 1
  BY <1>1
<1>5. S = 1 .. m
  <2>1. \A i \in 1 .. n : i < j <=> i \in 1 .. m
    BY <1>1, <1>4
  <2>2. 1 .. m \subseteq 1 .. n
    BY <1>1, <1>4
  <2> HIDE DEF m
  <2> QED
    BY <1>2, <1>3, <2>1, <2>2
<1> HIDE DEF m
<1>6. Cardinality(1 .. m) = m
  BY <1>4, UpToCount
<1>7. m = j - 1
  BY DEF m
<1> QED
  BY <1>5, <1>6, <1>7 DEF S

(* The place for a price that is not.                                      *)
LEMMA PlaceFor ==
  ASSUME NEW flat \in Seq(Level), NEW side, Sorted(side, flat), NEW p \in Nat,
         \A i \in DOMAIN flat : flat[i].price # p
  PROVE  \E k \in 0 .. Len(flat) :
           /\ Cardinality(BetterPlaces(side, flat, p)) = k
           /\ \A i \in DOMAIN flat : i <= k => Better(side, flat[i].price, p)
           /\ \A i \in DOMAIN flat : i > k => Better(side, p, flat[i].price)
<1> DEFINE S == BetterPlaces(side, flat, p)
           n == Len(flat)
           T == { i \in 1 .. n + 1 : i \notin S }
<1>1. /\ DOMAIN flat = 1 .. n /\ n \in Nat
      /\ \A i \in 1 .. n : flat[i].price \in Nat /\ flat[i].price # p
  BY SortedLevels
<1>2. S \subseteq 1 .. n /\ \A i \in 1 .. n : i \in S <=> Better(side, flat[i].price, p)
  BY <1>1 DEF BetterPlaces, HP!Better, Better
<1> HIDE DEF S, n
<1>3. PICK m \in T : \A y \in T : m <= y
  <2>1. T \in SUBSET Nat /\ n + 1 \in T
    BY <1>1, <1>2
  <2> HIDE DEF T
  <2> QED
    BY <2>1, Delta!LeastOne
<1> DEFINE k == m - 1
<1>4. k \in 0 .. n /\ m \in 1 .. n + 1 /\ m \notin S
  BY <1>1, <1>3
<1>5. \A i \in 1 .. n : i < m => i \in S
  BY <1>1, <1>3
<1>6. ASSUME NEW i \in 1 .. n, m <= i
      PROVE  i \notin S
  <2>1. CASE i = m
    BY <1>4, <2>1
  <2>2. CASE m < i
    <3>1. Better(side, flat[m].price, flat[i].price)
      BY <1>1, <1>4, <2>2 DEF Sorted
    <3>2. flat[m].price \in Nat /\ flat[i].price \in Nat /\ m \in 1 .. n
      BY <1>1, <1>4, <2>2
    <3>3. Better(side, flat[i].price, p) => Better(side, flat[m].price, p)
      BY <3>1, <3>2 DEF Better
    <3> QED
      BY <1>2, <1>4, <3>2, <3>3
  <2> QED
    BY <1>4, <1>6, <2>1, <2>2
<1>7. S = 1 .. k
  <2>1. \A i \in 1 .. n : (i < m <=> i \in 1 .. k) /\ (i < m \/ m <= i)
    BY <1>1, <1>4
  <2>2. 1 .. k \subseteq 1 .. n
    BY <1>1, <1>4
  <2> HIDE DEF k
  <2>3. \A i \in 1 .. n : i \in S <=> i \in 1 .. k
    BY <1>5, <1>6, <2>1
  <2> QED
    BY <1>2, <2>2, <2>3
<1>8. Cardinality(S) = k
  <2>0. k \in Nat
    BY <1>1, <1>4
  <2> HIDE DEF k
  <2>1. Cardinality(1 .. k) = k
    BY <2>0, UpToCount
  <2> QED
    BY <1>7, <2>1
<1>9. \A i \in 1 .. n : (i <= k => Better(side, flat[i].price, p)) /\ (i > k => Better(side, p, flat[i].price))
  <2> TAKE i \in 1 .. n
  <2>1. i <= k => Better(side, flat[i].price, p)
    BY <1>2, <1>4, <1>5
  <2>2. i > k => ~Better(side, flat[i].price, p)
    BY <1>2, <1>4, <1>6
  <2>3. flat[i].price \in Nat /\ flat[i].price # p
    BY <1>1
  <2> HIDE DEF k
  <2> QED
    BY <2>1, <2>2, <2>3 DEF Better
<1> HIDE DEF k
<1> QED
  BY <1>1, <1>4, <1>8, <1>9 DEF S, n

(* An array of all levels holds every price.                               *)
LEMMA Covers ==
  ASSUME NEW flat \in Seq(Level), NEW side, Sorted(side, flat),
         NEW levels, IsLevels(levels), Held(flat, levels), Whole(flat, levels)
  PROVE  \A p \in DOMAIN levels : \E i \in DOMAIN flat : flat[i].price = p
<1> DEFINE n == Len(flat)
           D == DOMAIN levels
           f == [i \in 1 .. n |-> flat[i].price]
<1>1. /\ DOMAIN flat = 1 .. n /\ n \in Nat /\ IsFiniteSet(D) /\ n = Cardinality(D)
      /\ \A i \in 1 .. n : flat[i].price \in D /\ flat[i].price \in Nat
  BY SortedLevels DEF Held, IsLevels, Whole
<1>2. \A i, j \in 1 .. n : i # j => flat[i].price # flat[j].price
  <2> TAKE i, j \in 1 .. n
  <2>1. i < j => Better(side, flat[i].price, flat[j].price)
    BY <1>1 DEF Sorted
  <2>2. j < i => Better(side, flat[j].price, flat[i].price)
    BY <1>1 DEF Sorted
  <2> HIDE DEF n
  <2> QED
    BY <1>1, <2>1, <2>2 DEF Better
<1> HIDE DEF n, D
<1>3. f \in Injection(1 .. n, D)
  BY <1>1, <1>2 DEF Injection, IsInjective
<1> HIDE DEF f
<1>4. Cardinality(1 .. n) = n
  BY <1>1, UpToCount
<1>5. f \in Surjection(1 .. n, D)
  BY <1>1, <1>3, <1>4, FS_Injection
<1> QED
  BY <1>1, <1>5 DEF Surjection, f, D

-----------------------------------------------------------------------------
(* One side of the flat book against the map of the same side.             *)
Agrees(side, flat, levels) ==
  /\ FlatSide(flat) /\ Sorted(side, flat)
  /\ IsLevels(levels) /\ Held(flat, levels)

(* No price is held twice.                                                 *)
LEMMA Distinct ==
  ASSUME NEW flat \in Seq(Level), NEW side, Sorted(side, flat),
         NEW i \in DOMAIN flat, NEW j \in DOMAIN flat, i # j
  PROVE  flat[i].price # flat[j].price
<1>1. i \in Nat /\ j \in Nat /\ flat[i].price \in Nat /\ flat[j].price \in Nat
  BY SortedLevels
<1>2. i < j => Better(side, flat[i].price, flat[j].price)
  BY DEF Sorted
<1>3. j < i => Better(side, flat[j].price, flat[i].price)
  BY DEF Sorted
<1> QED
  BY <1>1, <1>2, <1>3 DEF Better

(* A level less.                                                           *)
LEMMA RemoveAgrees ==
  ASSUME NEW side, NEW flat, NEW levels, Agrees(side, flat, levels),
         NEW l \in Level, l.qty = 0, NEW j \in DOMAIN flat, flat[j].price = l.price
  PROVE  LET n == HP!RemoveAt(flat, j)
             m == Book!SetLevel(levels, l)
         IN  Sorted(side, n) /\ Held(n, m) /\ (Whole(flat, levels) => Whole(n, m))
<1> DEFINE n == HP!RemoveAt(flat, j)
           m == Book!SetLevel(levels, l)
           len == Len(flat)
           less == len - 1
           D == DOMAIN levels
<1>1. /\ flat \in Seq(Level) /\ Sorted(side, flat) /\ IsFiniteSet(D)
      /\ DOMAIN flat = 1 .. len /\ len \in Nat /\ j \in 1 .. len
      /\ \A i \in 1 .. len : flat[i].price \in D /\ flat[i].qty = levels[flat[i].price]
  BY SortedLevels DEF Agrees, FlatSide, IsLevels, Held
<1>2. /\ n \in Seq(Level) /\ Len(n) = less
      /\ \A i \in 1 .. less : n[i] = IF i < j THEN flat[i] ELSE flat[i + 1]
  BY <1>1, RemovedAt
<1>3. DOMAIN m = D \ {l.price} /\ \A p \in DOMAIN m : m[p] = IF p = l.price THEN l.qty ELSE levels[p]
  BY SetLevelIs
<1>4. less \in Nat /\ DOMAIN n = 1 .. less
  BY <1>1, <1>2
<1> HIDE DEF n, m, D
<1> DEFINE Old(i) == IF i < j THEN i ELSE i + 1
<1>5. ASSUME NEW i \in 1 .. less
      PROVE  Old(i) \in 1 .. len /\ Old(i) # j /\ n[i] = flat[Old(i)]
  BY <1>1, <1>2, <1>4
<1>6. \A i, k \in 1 .. less : i < k => Old(i) < Old(k)
  BY <1>1, <1>4
<1> HIDE DEF Old, len, less
<1>7. Sorted(side, n)
  <2> SUFFICES ASSUME NEW i \in 1 .. less, NEW k \in 1 .. less, i < k
               PROVE  Better(side, n[i].price, n[k].price)
    BY <1>4 DEF Sorted
  <2>1. Better(side, flat[Old(i)].price, flat[Old(k)].price)
    BY <1>1, <1>5, <1>6 DEF Sorted
  <2> QED
    BY <1>5, <2>1
<1>8. Held(n, m)
  <2> SUFFICES ASSUME NEW i \in 1 .. less
               PROVE  n[i].price \in DOMAIN m /\ n[i].qty = m[n[i].price]
    BY <1>4 DEF Held
  <2>1. flat[Old(i)].price # flat[j].price
    BY <1>1, <1>5, Distinct
  <2> QED
    BY <1>1, <1>3, <1>5, <2>1
<1>9. Len(flat) = Cardinality(D) => less = Cardinality(D \ {l.price})
  <2>1. l.price \in D
    BY <1>1
  <2>2. Cardinality(D \ {l.price}) = Cardinality(D) - 1
    BY <1>1, <2>1, FS_RemoveElement
  <2> QED
    BY <2>2 DEF less, len
<1> QED
  BY <1>2, <1>3, <1>7, <1>8, <1>9 DEF Whole, n, m, D

(* A level changed.                                                        *)
LEMMA ChangeAgrees ==
  ASSUME NEW side, NEW flat, NEW levels, Agrees(side, flat, levels),
         NEW l \in Level, l.qty # 0, NEW j \in DOMAIN flat, flat[j].price = l.price
  PROVE  LET n == [flat EXCEPT ![j].qty = l.qty]
             m == Book!SetLevel(levels, l)
         IN  Sorted(side, n) /\ Held(n, m) /\ (Whole(flat, levels) => Whole(n, m))
<1> DEFINE n == [flat EXCEPT ![j].qty = l.qty]
           x == [flat[j] EXCEPT !.qty = l.qty]
           m == Book!SetLevel(levels, l)
           D == DOMAIN levels
<1>1. /\ flat \in Seq(Level) /\ Sorted(side, flat) /\ IsFiniteSet(D)
      /\ j \in 1 .. Len(flat) /\ DOMAIN flat = 1 .. Len(flat) /\ flat[j] \in Level
      /\ \A i \in DOMAIN flat : flat[i].price \in D /\ flat[i].qty = levels[flat[i].price]
  BY SortedLevels DEF Agrees, FlatSide, IsLevels, Held
<1>2. x \in Level /\ x.price = flat[j].price /\ x.qty = l.qty
  BY <1>1 DEF Level
<1>3. DOMAIN m = D \cup {l.price} /\ \A p \in DOMAIN m : m[p] = IF p = l.price THEN l.qty ELSE levels[p]
  BY SetLevelIs
<1>4. n = [flat EXCEPT ![j] = x]
  OBVIOUS
<1> HIDE DEF n, m, D, x
<1>5. Len(n) = Len(flat) /\ \A i \in DOMAIN flat : n[i] = IF i = j THEN x ELSE flat[i]
  BY <1>1, <1>2, <1>4, ExceptSeq
<1>6. DOMAIN n = DOMAIN flat
  BY <1>4
<1>7. \A i \in DOMAIN flat : n[i].price = flat[i].price
                             /\ n[i].qty = IF i = j THEN l.qty ELSE flat[i].qty
  BY <1>2, <1>5
<1>8. Sorted(side, n)
  BY <1>1, <1>6, <1>7 DEF Sorted
<1>9. Held(n, m)
  <2> SUFFICES ASSUME NEW i \in DOMAIN flat
               PROVE  n[i].price \in DOMAIN m /\ n[i].qty = m[n[i].price]
    BY <1>6 DEF Held
  <2>1. CASE i = j
    BY <1>3, <1>7, <2>1
  <2>2. CASE i # j
    <3>1. flat[i].price # flat[j].price
      BY <1>1, <2>2, Distinct
    <3> QED
      BY <1>1, <1>3, <1>7, <2>2, <3>1
  <2> QED
    BY <2>1, <2>2
<1>10. DOMAIN m = D
  BY <1>1, <1>3
<1> QED
  BY <1>5, <1>8, <1>9, <1>10 DEF Whole, n, m, D

(* A level more, at its place.                                             *)
LEMMA InsertAgrees ==
  ASSUME NEW side, NEW flat, NEW levels, Agrees(side, flat, levels),
         NEW l \in Level, l.qty # 0, \A i \in DOMAIN flat : flat[i].price # l.price
  PROVE  LET n == HP!InsertAt(flat, Cardinality(BetterPlaces(side, flat, l.price)) + 1, l)
             m == Book!SetLevel(levels, l)
         IN  Sorted(side, n) /\ Held(n, m) /\ (Whole(flat, levels) => Whole(n, m))
<1> DEFINE len == Len(flat)
           D == DOMAIN levels
           m == Book!SetLevel(levels, l)
<1>1. /\ flat \in Seq(Level) /\ Sorted(side, flat) /\ IsFiniteSet(D) /\ IsLevels(levels)
      /\ DOMAIN flat = 1 .. len /\ len \in Nat /\ l.price \in Nat
      /\ \A i \in 1 .. len : flat[i].price \in D /\ flat[i].qty = levels[flat[i].price]
  BY SortedLevels DEF Agrees, FlatSide, IsLevels, Held, Level
<1>2. PICK k \in 0 .. len :
        /\ Cardinality(BetterPlaces(side, flat, l.price)) = k
        /\ \A i \in DOMAIN flat : i <= k => Better(side, flat[i].price, l.price)
        /\ \A i \in DOMAIN flat : i > k => Better(side, l.price, flat[i].price)
  BY <1>1, PlaceFor
<1> DEFINE at == k + 1
           more == len + 1
           n == HP!InsertAt(flat, at, l)
<1>3. at \in 1 .. more /\ more \in Nat /\ k \in Nat
  BY <1>1, <1>2
<1>4. /\ n \in Seq(Level) /\ Len(n) = more
      /\ \A i \in 1 .. more : n[i] = IF i < at THEN flat[i] ELSE IF i = at THEN l ELSE flat[i - 1]
  BY <1>1, <1>3, InsertedAt
<1>5. DOMAIN m = D \cup {l.price} /\ \A p \in DOMAIN m : m[p] = IF p = l.price THEN l.qty ELSE levels[p]
  BY SetLevelIs
<1>6. DOMAIN n = 1 .. more
  BY <1>3, <1>4
<1> HIDE DEF n, m, D
<1> DEFINE Old(i) == IF i < at THEN i ELSE i - 1
<1>7. ASSUME NEW i \in 1 .. more, i # at
      PROVE  Old(i) \in 1 .. len /\ n[i] = flat[Old(i)] /\ (i < at => Old(i) <= k) /\ (i > at => Old(i) > k)
  <2>1. CASE i < at
    <3>1. Old(i) = i /\ i \in 1 .. len /\ i <= k
      BY <1>1, <1>2, <1>3, <2>1
    <3>2. n[i] = flat[i]
      BY <1>4, <2>1
    <3>3. ~(i > at)
      BY <1>3, <2>1
    <3> HIDE DEF Old, at
    <3> QED
      BY <3>1, <3>2, <3>3
  <2>2. CASE i > at
    <3>1. Old(i) = i - 1 /\ i - 1 \in 1 .. len /\ i - 1 > k /\ ~(i < at)
      BY <1>1, <1>2, <1>3, <2>2
    <3>2. n[i] = flat[i - 1]
      BY <1>4, <1>7, <3>1
    <3> HIDE DEF Old, at
    <3> QED
      BY <3>1, <3>2
  <2> QED
    BY <1>3, <1>7, <2>1, <2>2
<1>8. \A i, j \in 1 .. more : i # at /\ j # at /\ i < j => Old(i) < Old(j)
  BY <1>1, <1>3
<1>9. n[at] = l
  BY <1>3, <1>4
<1>10. at \in Nat /\ \A i \in 1 .. more : i \in Nat
  BY <1>3
<1> HIDE DEF Old, len, more, at
<1>11. Sorted(side, n)
  <2> SUFFICES ASSUME NEW i \in 1 .. more, NEW j \in 1 .. more, i < j
               PROVE  Better(side, n[i].price, n[j].price)
    BY <1>6 DEF Sorted
  <2>1. CASE i # at /\ j # at
    <3>1. Better(side, flat[Old(i)].price, flat[Old(j)].price)
      BY <1>1, <1>7, <1>8, <2>1 DEF Sorted
    <3> QED
      BY <1>7, <2>1, <3>1
  <2>2. CASE i = at
    <3>1. j > at /\ j # at
      BY <1>10, <2>2
    <3>2. Better(side, l.price, flat[Old(j)].price)
      BY <1>1, <1>2, <1>7, <3>1
    <3> QED
      BY <1>7, <1>9, <2>2, <3>1, <3>2
  <2>3. CASE j = at
    <3>1. i < at /\ i # at
      BY <1>10, <2>3
    <3>2. Better(side, flat[Old(i)].price, l.price)
      BY <1>1, <1>2, <1>7, <3>1
    <3> QED
      BY <1>7, <1>9, <2>3, <3>1, <3>2
  <2> QED
    BY <2>1, <2>2, <2>3
<1>12. Held(n, m)
  <2> SUFFICES ASSUME NEW i \in 1 .. more
               PROVE  n[i].price \in DOMAIN m /\ n[i].qty = m[n[i].price]
    BY <1>6 DEF Held
  <2>1. CASE i = at
    BY <1>5, <1>9, <2>1
  <2>2. CASE i # at
    <3>1. flat[Old(i)].price # l.price
      BY <1>1, <1>7, <2>2
    <3> QED
      BY <1>1, <1>5, <1>7, <2>2, <3>1
  <2> QED
    BY <2>1, <2>2
<1>13. Whole(flat, levels) => Len(n) = Cardinality(D \cup {l.price})
  <2> SUFFICES ASSUME Whole(flat, levels)
               PROVE  Len(n) = Cardinality(D \cup {l.price})
    OBVIOUS
  <2>1. l.price \notin D
    BY <1>1, Covers DEF Agrees, D
  <2>2. Cardinality(D \cup {l.price}) = Cardinality(D) + 1
    BY <1>1, <2>1, FS_AddElement
  <2> QED
    BY <1>4, <2>2 DEF Whole, D, more, len
<1>14. n = HP!InsertAt(flat, Cardinality(BetterPlaces(side, flat, l.price)) + 1, l)
  BY <1>2 DEF n, at
<1> QED
  BY <1>5, <1>11, <1>12, <1>13, <1>14 DEF Whole, m, D

(* A level that the array neither holds nor takes in.                      *)
LEMMA IgnoreAgrees ==
  ASSUME NEW side, NEW flat, NEW levels, Agrees(side, flat, levels),
         NEW l \in Level, \A i \in DOMAIN flat : flat[i].price # l.price
  PROVE  LET m == Book!SetLevel(levels, l)
         IN  Held(flat, m) /\ (Whole(flat, levels) /\ l.qty = 0 => Whole(flat, m))
<1> DEFINE m == Book!SetLevel(levels, l)
           D == DOMAIN levels
<1>1. /\ DOMAIN m = IF l.qty = 0 THEN D \ {l.price} ELSE D \cup {l.price}
      /\ \A p \in DOMAIN m : m[p] = IF p = l.price THEN l.qty ELSE levels[p]
  BY DEF Book!SetLevel
<1>2. \A i \in DOMAIN flat : flat[i].price \in D /\ flat[i].qty = levels[flat[i].price]
  BY DEF Agrees, Held
<1> HIDE DEF m, D
<1>3. Held(flat, m)
  BY <1>1, <1>2 DEF Held
<1>4. Whole(flat, levels) => l.price \notin D
  BY Covers DEF Agrees, FlatSide, D
<1> QED
  BY <1>1, <1>3, <1>4 DEF Whole, m, D

(* One level of a delta in both books.                                     *)
LEMMA UpsertAgrees ==
  ASSUME NEW side, NEW flat, NEW levels, Agrees(side, flat, levels), NEW l \in Level
  PROVE  LET n == HP!Upsert(flat, side, l)
             m == Book!SetLevel(levels, l)
         IN  /\ Agrees(side, n, m)
             /\ Cardinality(DOMAIN m) <= Cardinality(DOMAIN levels) + 1
             /\ Whole(flat, levels) /\ Cardinality(DOMAIN levels) < MaxLevels => Whole(n, m)
<1> DEFINE n == HP!Upsert(flat, side, l)
           m == Book!SetLevel(levels, l)
           D == DOMAIN levels
           better == Cardinality(BetterPlaces(side, flat, l.price))
           exists == \E i \in DOMAIN flat : flat[i].price = l.price
<1>1. /\ flat \in Seq(Level) /\ Sorted(side, flat) /\ FlatSide(flat) /\ IsLevels(levels)
      /\ l.price \in Nat \ {0} /\ l.qty \in Nat /\ IsFiniteSet(D)
      /\ DOMAIN flat = 1 .. Len(flat)
  BY SortedLevels DEF Agrees, FlatSide, Level, IsLevels
<1>2. FlatSide(n)
  BY <1>1, UpsertTyped
<1>3. IsLevels(m)
  <2>1. m = Sim!SetLevel(levels, l)
    BY SetLevelIs
  <2>2. IsLevels(Sim!SetLevel(levels, l))
    BY <1>1, SetLevelTyped
  <2> QED
    BY <2>1, <2>2
<1>4. Cardinality(DOMAIN m) <= Cardinality(D) + 1
  <2>1. DOMAIN m = IF l.qty = 0 THEN D \ {l.price} ELSE D \cup {l.price}
    BY SetLevelIs
  <2> HIDE DEF m, D
  <2>2. /\ Cardinality(D) \in Nat
        /\ Cardinality(D \ {l.price}) = IF l.price \in D THEN Cardinality(D) - 1 ELSE Cardinality(D)
        /\ Cardinality(D \cup {l.price}) = IF l.price \in D THEN Cardinality(D) ELSE Cardinality(D) + 1
    BY <1>1, FS_CardinalityType, FS_AddElement, FS_RemoveElement
  <2> QED
    BY <2>1, <2>2
<1>5. n = IF exists /\ l.qty = 0 THEN HP!RemoveAt(flat, better + 1)
          ELSE IF exists THEN [flat EXCEPT ![better + 1].qty = l.qty]
          ELSE IF l.qty > 0 /\ Len(flat) < MaxLevels THEN HP!InsertAt(flat, better + 1, l)
          ELSE flat
  BY <1>1, UpsertCases DEF BetterPlaces
<1>6. Sorted(side, n) /\ Held(n, m)
      /\ (Whole(flat, levels) /\ Cardinality(D) < MaxLevels => Whole(n, m))
  <2>1. ASSUME exists
        PROVE  \E j \in DOMAIN flat : flat[j].price = l.price /\ better + 1 = j
    <3>1. PICK j \in DOMAIN flat : flat[j].price = l.price
      BY <2>1
    <3>2. better = j - 1 /\ j \in Nat
      BY <1>1, <3>1, PlaceOf
    <3> HIDE DEF better
    <3> QED
      BY <3>1, <3>2
  <2>2. CASE exists /\ l.qty = 0
    <3>1. PICK j \in DOMAIN flat : flat[j].price = l.price /\ better + 1 = j
      BY <2>1, <2>2
    <3>2. n = HP!RemoveAt(flat, j)
      BY <1>5, <2>2, <3>1
    <3> HIDE DEF n
    <3> QED
      BY <2>2, <3>1, <3>2, RemoveAgrees
  <2>3. CASE exists /\ l.qty # 0
    <3>1. PICK j \in DOMAIN flat : flat[j].price = l.price /\ better + 1 = j
      BY <2>1, <2>3
    <3>2. n = [flat EXCEPT ![j].qty = l.qty]
      BY <1>5, <2>3, <3>1
    <3> HIDE DEF n
    <3> QED
      BY <2>3, <3>1, <3>2, ChangeAgrees
  <2>4. CASE ~exists /\ l.qty # 0 /\ Len(flat) < MaxLevels
    <3>1. n = HP!InsertAt(flat, better + 1, l)
      BY <1>1, <1>5, <2>4
    <3> HIDE DEF n
    <3> QED
      BY <2>4, <3>1, InsertAgrees
  <2>5. CASE ~exists /\ ~(l.qty # 0 /\ Len(flat) < MaxLevels)
    <3>1. n = flat
      BY <1>1, <1>5, <2>5
    <3>2. Held(flat, m) /\ (Whole(flat, levels) /\ l.qty = 0 => Whole(flat, m))
      BY <2>5, IgnoreAgrees
    <3>3. Whole(flat, levels) /\ Cardinality(D) < MaxLevels => Len(flat) < MaxLevels
      BY DEF Whole
    <3> HIDE DEF n, m
    <3> QED
      BY <1>1, <2>5, <3>1, <3>2, <3>3
  <2> QED
    BY <2>2, <2>3, <2>4, <2>5
<1> QED
  BY <1>2, <1>3, <1>4, <1>6 DEF Agrees

-----------------------------------------------------------------------------
(* A delta in both books.                                                  *)

(* The loop over the levels of a delta as a fold.                          *)
LEMMA BookSetIsFold ==
  ASSUME NEW levels, NEW news
  PROVE  Book!SetLevels(levels, news) = Setting!Fold(0, levels, news)
  BY DEF Book!SetLevels, Setting!Fold, Book!FoldLeft, Book!MapThenFoldSet, Setting!MapThenFoldSet,
         Book!Max, Setting!Max, SetStep, Book!SetLevel, Sim!SetLevel

(* After k levels of a delta.                                              *)
AgreeingAt(side, held, most, k, flat, levels) ==
  /\ Agrees(side, flat, levels)
  /\ Cardinality(DOMAIN levels) <= held + k
  /\ most <= MaxLevels => Whole(flat, levels)

(* One level of a delta keeps the two books in agreement.                  *)
LEMMA LevelAgrees ==
  ASSUME NEW side, NEW held \in Nat, NEW most \in Nat, NEW j \in Nat, held + j < most,
         NEW flat, NEW levels, AgreeingAt(side, held, most, j, flat, levels),
         NEW l \in Level, NEW k, k = j + 1
  PROVE  AgreeingAt(side, held, most, k, HP!Upsert(flat, side, l), Book!SetLevel(levels, l))
<1> DEFINE s == HP!Upsert(flat, side, l)
           m == Book!SetLevel(levels, l)
           before == Cardinality(DOMAIN levels)
           after == Cardinality(DOMAIN m)
<1>1. Agrees(side, flat, levels) /\ before <= held + j /\ (most <= MaxLevels => Whole(flat, levels))
  BY DEF AgreeingAt
<1>2. Agrees(side, s, m) /\ after <= before + 1 /\ (Whole(flat, levels) /\ before < MaxLevels => Whole(s, m))
  BY <1>1, UpsertAgrees
<1> HIDE DEF s, m
<1>3. before \in Nat /\ after \in Nat /\ MaxLevels \in Nat
  BY <1>1, <1>2, FS_CardinalityType, TradingAssumption DEF Agrees, IsLevels, TradingAssumption
<1> HIDE DEF before, after
<1>4. after <= held + k /\ (most <= MaxLevels => before < MaxLevels)
  BY <1>1, <1>2, <1>3
<1> QED
  BY <1>1, <1>2, <1>4 DEF AgreeingAt, s, m, before, after

(* Level by level the two keep agreeing; all levels are in the array as    *)
(* long as the map cannot have outgrown it.                                *)
LEMMA DeltaAgrees ==
  ASSUME NEW side, NEW flat, NEW levels, Agrees(side, flat, levels), NEW news \in Seq(Level)
  PROVE  LET n == HP!ApplyDeltaSide(flat, side, news)
             m == Book!SetLevels(levels, news)
         IN  /\ Agrees(side, n, m)
             /\ Whole(flat, levels) /\ Cardinality(DOMAIN levels) + Len(news) <= MaxLevels => Whole(n, m)
<1> DEFINE n == Len(news)
           held == Cardinality(DOMAIN levels)
           most == IF Whole(flat, levels) THEN held + n ELSE held + n + MaxLevels + 1
<1>1. n \in Nat /\ DOMAIN news = 1 .. n /\ \A k \in 1 .. n : news[k] \in Level
  OBVIOUS
<1>2. held \in Nat /\ MaxLevels \in Nat
  BY TradingAssumption, FS_CardinalityType DEF TradingAssumption, Agrees, IsLevels
<1> HIDE DEF n, held
<1>a. most \in Nat /\ held + n <= most /\ (most <= MaxLevels => Whole(flat, levels))
      /\ (Whole(flat, levels) => most = held + n)
  BY <1>1, <1>2
<1> HIDE DEF most
<1>3. PICK as : Delta!Run(as, side, flat, news, n)
  BY <1>1, Delta!FoldSteps
<1>4. PICK ms : Setting!Run(ms, 0, levels, news, n)
  BY <1>1, Setting!FoldSteps
<1> DEFINE T == { k \in 0 .. n : AgreeingAt(side, held, most, k, as[k], ms[k]) }
<1>b. \A k : k \in T <=> k \in 0 .. n /\ AgreeingAt(side, held, most, k, as[k], ms[k])
  OBVIOUS
<1> HIDE DEF T
<1>5. 0 \in T
  <2>1. as[0] = flat /\ ms[0] = levels
    BY <1>3, <1>4 DEF Delta!Run, Setting!Run
  <2>2. AgreeingAt(side, held, most, 0, flat, levels)
    <3>1. held <= held + 0
      BY <1>2
    <3> QED
      BY <1>a, <3>1 DEF AgreeingAt, held
  <2>3. 0 \in 0 .. n
    BY <1>1
  <2> QED
    BY <1>b, <2>1, <2>2, <2>3
<1>6. ASSUME NEW k \in 1 .. n, k - 1 \in T
      PROVE  k \in T
  <2> DEFINE j == k - 1
  <2>1. /\ j \in Nat /\ k = j + 1 /\ k \in 0 .. n /\ j < n /\ news[k] \in Level
        /\ j \in T
    BY <1>1, <1>6
  <2>4. AgreeingAt(side, held, most, j, as[j], ms[j])
    BY <1>b, <2>1
  <2>2. as[k] = HP!Upsert(as[j], side, news[k])
    BY <1>3 DEF Delta!Run, DeltaStep
  <2>3. ms[k] = Book!SetLevel(ms[j], news[k])
    BY <1>4 DEF Setting!Run, SetStep, Sim!SetLevel, Book!SetLevel
  <2> HIDE DEF j
  <2>6. held + j < most
    BY <1>1, <1>2, <1>a, <2>1
  <2>7. AgreeingAt(side, held, most, k, HP!Upsert(as[j], side, news[k]), Book!SetLevel(ms[j], news[k]))
    BY <1>2, <1>a, <2>1, <2>4, <2>6, LevelAgrees
  <2>5. AgreeingAt(side, held, most, k, as[k], ms[k])
    BY <2>2, <2>3, <2>7
  <2> QED
    BY <1>b, <2>1, <2>5
<1>7. n \in T
  <2>1. \A k \in 1 .. n : k - 1 \in T => k \in T
    BY <1>6
  <2> HIDE DEF T
  <2>2. \A k \in 0 .. n : k \in T
    BY <1>1, <1>5, <2>1, Delta!UpTo
  <2> QED
    BY <1>1, <2>2
<1>8. Agrees(side, as[n], ms[n]) /\ (most <= MaxLevels => Whole(as[n], ms[n]))
  BY <1>7, <1>b DEF AgreeingAt
<1>9. as[n] = HP!ApplyDeltaSide(flat, side, news) /\ ms[n] = Book!SetLevels(levels, news)
  BY <1>3, <1>4, DeltaIsFold, BookSetIsFold DEF Delta!Run, Setting!Run
<1> QED
  BY <1>8, <1>9, <1>a DEF held, n

-----------------------------------------------------------------------------
(* A snapshot in both books.                                               *)

(* The loop over the levels of a snapshot as a fold.                       *)
AddStep(c, s, x) == Book!AddLevel(s, x)
Adding == INSTANCE FoldFacts WITH Step <- AddStep, Good <- NoGood, Term <- Share

(* The same loop, named as in FoldFacts.                                   *)
LEMMA AddIsFold ==
  ASSUME NEW levels, NEW news
  PROVE  Book!FoldLeft(Book!AddLevel, levels, news) = Adding!Fold(0, levels, news)
  BY DEF Adding!Fold, Book!FoldLeft, Book!MapThenFoldSet, Adding!MapThenFoldSet,
         Book!Max, Adding!Max, AddStep

(* The map of the first k levels of a snapshot.                            *)
FirstOf(news, k, m) ==
  /\ IsLevels(m)
  /\ DOMAIN m = { news[i].price : i \in 1 .. k }
  /\ \A i \in 1 .. k : m[news[i].price] = news[i].qty
  /\ Cardinality(DOMAIN m) = k

(* One level more of the snapshot is in the map.                           *)
LEMMA AddFirst ==
  ASSUME NEW news \in Seq(Level), NEW side, Sorted(side, news), \A i \in DOMAIN news : news[i].qty > 0,
         NEW j \in Nat, NEW k \in DOMAIN news, k = j + 1, NEW m, FirstOf(news, j, m)
  PROVE  FirstOf(news, k, Book!AddLevel(m, news[k]))
<1> DEFINE l == news[k]
           r == Book!SetLevel(m, l)
           D == DOMAIN m
<1>1. /\ DOMAIN news = 1 .. Len(news) /\ Len(news) \in Nat /\ k \in 1 .. Len(news)
      /\ l.price \in Nat \ {0} /\ l.qty \in Nat \ {0} /\ l.qty # 0 /\ l.qty > 0
  BY SortedLevels
<1>2. Book!AddLevel(m, l) = r
  BY <1>1 DEF Book!AddLevel, Book!HasQty
<1>3. DOMAIN r = D \cup {l.price} /\ \A p \in DOMAIN r : r[p] = IF p = l.price THEN l.qty ELSE m[p]
  BY <1>1 DEF Book!SetLevel
<1>4. IsLevels(r)
  <2>1. r = Sim!SetLevel(m, l)
    BY SetLevelIs
  <2>2. IsLevels(Sim!SetLevel(m, l))
    BY <1>1, SetLevelTyped DEF FirstOf
  <2> QED
    BY <2>1, <2>2
<1> HIDE DEF r
<1>5. \A i \in 1 .. j : i \in DOMAIN news /\ i # k /\ news[i].price # l.price
  <2> TAKE i \in 1 .. j
  <2>1. i \in DOMAIN news /\ i # k
    BY <1>1
  <2> QED
    BY <2>1, Distinct
<1>6. \A i : i \in 1 .. k <=> (i \in 1 .. j \/ i = k)
  OBVIOUS
<1> HIDE DEF l, D
<1>7. D = { news[i].price : i \in 1 .. j } /\ IsFiniteSet(D) /\ Cardinality(D) = j
  BY DEF FirstOf, IsLevels, D
<1>8. l.price \notin D
  BY <1>5, <1>7
<1>9. DOMAIN r = { news[i].price : i \in 1 .. k }
  BY <1>3, <1>6, <1>7 DEF l
<1>10. Cardinality(DOMAIN r) = k
  BY <1>3, <1>7, <1>8, FS_AddElement
<1>11. \A i \in 1 .. k : r[news[i].price] = news[i].qty
  <2> TAKE i \in 1 .. k
  <2>1. CASE i = k
    BY <1>3, <2>1 DEF l
  <2>2. CASE i # k
    <3>1. i \in 1 .. j
      BY <1>6, <2>2
    <3>2. m[news[i].price] = news[i].qty /\ news[i].price \in D
      BY <1>7, <3>1 DEF FirstOf
    <3> QED
      BY <1>3, <1>5, <3>1, <3>2
  <2> QED
    BY <2>1, <2>2
<1> QED
  BY <1>2, <1>4, <1>9, <1>10, <1>11 DEF FirstOf, l

(* A snapshot leaves the two books in agreement.                           *)
LEMMA SnapshotAgrees ==
  ASSUME NEW news \in Seq(Level), NEW side, Sorted(side, news), \A i \in DOMAIN news : news[i].qty > 0
  PROVE  LET n == HP!FirstLevels(news)
             m == Book!FoldLeft(Book!AddLevel, Book!NoLevels, news)
         IN  Agrees(side, n, m) /\ (Len(news) <= MaxLevels => Whole(n, m))
<1> DEFINE len == Len(news)
           n == HP!FirstLevels(news)
           m == Book!FoldLeft(Book!AddLevel, Book!NoLevels, news)
<1>1. len \in Nat /\ DOMAIN news = 1 .. len
  OBVIOUS
<1> HIDE DEF len
<1>2. PICK ms : Adding!Run(ms, 0, Book!NoLevels, news, len)
  BY <1>1, Adding!FoldSteps
<1> DEFINE T == { k \in 0 .. len : FirstOf(news, k, ms[k]) }
<1>3. 0 \in T
  <2>1. ms[0] = Book!NoLevels
    BY <1>2 DEF Adding!Run
  <2>2. DOMAIN Book!NoLevels = {} /\ Book!NoLevels = Sim!NoLevels
    BY DEF Book!NoLevels, Sim!NoLevels
  <2>3. Cardinality({}) = 0
    BY FS_EmptySet
  <2>4. 1 .. 0 = {}
    OBVIOUS
  <2>5. FirstOf(news, 0, Book!NoLevels)
    BY <2>2, <2>3, <2>4, NoLevelsTyped DEF FirstOf
  <2> QED
    BY <1>1, <2>1, <2>5
<1>4. ASSUME NEW k \in 1 .. len, k - 1 \in T
      PROVE  k \in T
  <2> DEFINE j == k - 1
  <2>1. j \in Nat /\ k = j + 1 /\ k \in 0 .. len /\ FirstOf(news, j, ms[j])
    BY <1>1, <1>4
  <2>2. ms[k] = Book!AddLevel(ms[j], news[k])
    BY <1>2 DEF Adding!Run, AddStep
  <2> HIDE DEF j, T
  <2>3. FirstOf(news, k, ms[k])
    BY <1>1, <2>1, <2>2, AddFirst
  <2> QED
    BY <2>1, <2>3 DEF T
<1>5. FirstOf(news, len, m)
  <2>1. \A k \in 1 .. len : k - 1 \in T => k \in T
    BY <1>4
  <2> HIDE DEF T
  <2>4. \A k \in 0 .. len : k \in T
    BY <1>1, <1>3, <2>1, Adding!UpTo
  <2>2. len \in T
    BY <1>1, <2>4
  <2>3. ms[len] = m
    BY <1>2, AddIsFold DEF Adding!Run
  <2> QED
    BY <2>2, <2>3 DEF T
<1>6. /\ FlatSide(n) /\ Len(n) = (IF len <= MaxLevels THEN len ELSE MaxLevels)
      /\ \A i \in 1 .. Len(n) : n[i] = news[i]
  BY FirstLevelsTyped DEF len
<1> HIDE DEF n, m
<1>7. /\ DOMAIN n = 1 .. Len(n) /\ MaxLevels \in Nat /\ Len(n) \in Nat
      /\ \A i \in DOMAIN n : i \in 1 .. len /\ i \in DOMAIN news /\ n[i] = news[i]
  <2>1. n \in Seq(Level) /\ MaxLevels \in Nat
    BY <1>6, TradingAssumption DEF TradingAssumption, FlatSide
  <2>2. DOMAIN n = 1 .. Len(n) /\ Len(n) \in Nat
    BY <2>1
  <2> QED
    BY <1>1, <1>6, <2>1, <2>2
<1>8. Sorted(side, n)
  BY <1>7 DEF Sorted
<1>9. Held(n, m)
  BY <1>5, <1>7 DEF Held, FirstOf
<1>10. IsLevels(m) /\ Cardinality(DOMAIN m) = len
  BY <1>5 DEF FirstOf
<1>11. Agrees(side, n, m)
  BY <1>6, <1>8, <1>9, <1>10 DEF Agrees
<1>12. len <= MaxLevels => Whole(n, m)
  BY <1>6, <1>10 DEF Whole
<1> QED
  BY <1>11, <1>12 DEF n, m, len

-----------------------------------------------------------------------------
(* Both sides of both books.                                               *)

(* Both sides agree, and are the same while everything fitted.             *)
Aligned(h, e, b) ==
  /\ Agrees("Buy", e.bids, b.bids)
  /\ Agrees("Sell", e.asks, b.asks)
  /\ h.fits => Whole(e.bids, b.bids) /\ Whole(e.asks, b.asks)

(* Two empty books are aligned.                                            *)
LEMMA AlignedAtFirst ==
  ASSUME NEW b \in BOOLEAN, NEW h
  PROVE  Aligned(h, HP!NewEngine(b), Book!EmptyBook)
<1> DEFINE e == HP!NewEngine(b)
<1>1. e.bids = <<>> /\ e.asks = <<>>
  BY DEF HP!NewEngine
<1>2. FlatSide(e.bids) /\ FlatSide(e.asks)
  BY NewEngineGood DEF EngineInv
<1> HIDE DEF e
<1>3. /\ Book!EmptyBook.bids = Book!NoLevels /\ Book!EmptyBook.asks = Book!NoLevels
      /\ DOMAIN Book!NoLevels = {} /\ IsLevels(Book!NoLevels)
  <2>1. Book!NoLevels = Sim!NoLevels /\ DOMAIN Book!NoLevels = {}
    BY DEF Book!NoLevels, Sim!NoLevels
  <2> QED
    BY <2>1, NoLevelsTyped DEF Book!EmptyBook
<1>4. Cardinality({}) = 0 /\ DOMAIN <<>> = {} /\ Len(<<>>) = 0
  BY FS_EmptySet
<1> QED
  BY <1>1, <1>2, <1>3, <1>4 DEF Aligned, Agrees, Sorted, Held, Whole, e

(* One side after an update of the feed.                                   *)
SideAfter(flat, side, news, snapshot) ==
  IF snapshot THEN HP!FirstLevels(news) ELSE HP!ApplyDeltaSide(flat, side, HP!FirstLevels(news))
MapAfter(levels, news, snapshot) ==
  IF snapshot THEN Book!FoldLeft(Book!AddLevel, Book!NoLevels, news) ELSE Book!SetLevels(levels, news)

(* What FromFeed says of one side.                                         *)
FedSide(side, news, snapshot) ==
  /\ news \in Seq(Level)
  /\ snapshot => Sorted(side, news) /\ \A i \in DOMAIN news : news[i].qty > 0
  /\ ~snapshot => Len(news) <= MaxLevels

(* An update leaves a side in agreement; the same, if it all fitted.       *)
LEMMA SideApplies ==
  ASSUME NEW side, NEW flat, NEW levels, Agrees(side, flat, levels),
         NEW news, NEW snapshot \in BOOLEAN, FedSide(side, news, snapshot)
  PROVE  LET n == SideAfter(flat, side, news, snapshot)
             m == MapAfter(levels, news, snapshot)
             held == IF snapshot THEN 0 ELSE Cardinality(DOMAIN levels)
         IN  /\ Agrees(side, n, m)
             /\ (snapshot \/ Whole(flat, levels)) /\ held + Len(news) <= MaxLevels => Whole(n, m)
<1>1. CASE snapshot
  <2>1. Len(news) \in Nat /\ 0 + Len(news) = Len(news)
    BY DEF FedSide
  <2> QED
    BY <1>1, <2>1, SnapshotAgrees DEF FedSide, SideAfter, MapAfter
<1>2. CASE ~snapshot
  <2>1. news \in Seq(Level) /\ HP!FirstLevels(news) = news
    BY <1>2, FirstLevelsTyped DEF FedSide
  <2> QED
    BY <1>2, <2>1, DeltaAgrees DEF SideAfter, MapAfter
<1> QED
  BY <1>1, <1>2

(* An update of the feed in both books.                                    *)
LEMMA UpdateAligns ==
  ASSUME NEW h, NEW k, NEW e, EngineInv(e), NEW b, Aligned(h, e, b), NEW u, FromFeed(u),
         k.fits = Fits(h, b, u)
  PROVE  Aligned(k, HP!OnBookUpdate(e, u).engine, Book!Apply(b, u))
<1> DEFINE x == HP!OnBookUpdate(e, u).engine
           y == HP!ApplyBook(e, u)
           c == Book!Apply(b, u)
<1>1. u \in Updates /\ u.bids \in Seq(Level) /\ u.asks \in Seq(Level) /\ u.is_snapshot \in BOOLEAN
  BY DEF FromFeed, Updates
<1>2. x.bids = y.bids /\ x.asks = y.asks /\ DOMAIN y = DOMAIN e
  <2>1. EngineInv(y) /\ DOMAIN y = DOMAIN e
    BY <1>1, BookKeepsEngine DEF EngineInv
  <2> DEFINE z == [y EXCEPT !.tick_count = @ + 1, !.ticks_since_quote = @ + 1]
  <2>2. z.bids = y.bids /\ z.asks = y.asks /\ DOMAIN z = DOMAIN y
    BY <2>1 DEF EngineInv, HP!NewEngine
  <2> HIDE DEF y
  <2>3. \/ x = z
        \/ \E v : x = HP!GenerateQuotes(z, v).engine
    BY DEF HP!OnBookUpdate, y
  <2> HIDE DEF z, x
  <2>4. \A v : HP!GenerateQuotes(z, v).engine.bids = z.bids /\ HP!GenerateQuotes(z, v).engine.asks = z.asks
    BY <2>1, <2>2 DEF HP!GenerateQuotes, EngineInv, HP!NewEngine
  <2> QED
    BY <2>1, <2>2, <2>3, <2>4
<1>3. /\ y.bids = SideAfter(e.bids, "Buy", u.bids, u.is_snapshot)
      /\ y.asks = SideAfter(e.asks, "Sell", u.asks, u.is_snapshot)
  BY DEF HP!ApplyBook, SideAfter, EngineInv, HP!NewEngine
<1>4. /\ c.bids = MapAfter(b.bids, u.bids, u.is_snapshot)
      /\ c.asks = MapAfter(b.asks, u.asks, u.is_snapshot)
  BY DEF Book!Apply, Book!ApplySnapshot, Book!ApplyDelta, MapAfter
<1>5. FedSide("Buy", u.bids, u.is_snapshot) /\ FedSide("Sell", u.asks, u.is_snapshot)
  BY <1>1 DEF FromFeed, FedSide, Sorted
<1> DEFINE Room(levels, news) ==
             (IF u.is_snapshot THEN 0 ELSE Cardinality(DOMAIN levels)) + Len(news) <= MaxLevels
<1>6. k.fits => /\ u.is_snapshot \/ h.fits
                /\ Room(b.bids, u.bids) /\ Room(b.asks, u.asks)
  <2>1. Book!LevelsOf(b, "Buy") = b.bids /\ Book!LevelsOf(b, "Sell") = b.asks
    BY DEF Book!LevelsOf
  <2>2. "Buy" \in Sides /\ "Sell" \in Sides
    BY DEF Sides
  <2> QED
    BY <2>1, <2>2 DEF Fits
<1> HIDE DEF x, y, c
<1>7. /\ Agrees("Buy", x.bids, c.bids)
      /\ (u.is_snapshot \/ Whole(e.bids, b.bids)) /\ Room(b.bids, u.bids) => Whole(x.bids, c.bids)
  BY <1>1, <1>2, <1>3, <1>4, <1>5, SideApplies DEF Aligned
<1>8. /\ Agrees("Sell", x.asks, c.asks)
      /\ (u.is_snapshot \/ Whole(e.asks, b.asks)) /\ Room(b.asks, u.asks) => Whole(x.asks, c.asks)
  BY <1>1, <1>2, <1>3, <1>4, <1>5, SideApplies DEF Aligned
<1> HIDE DEF Room
<1> QED
  BY <1>6, <1>7, <1>8 DEF Aligned, x, c

(* A trade and a fill leave the hot path's book alone.                     *)
LEMMA TradeKeepsBook ==
  ASSUME NEW e, EngineInv(e), NEW t, t.side \in Sides, t.qty \in Nat
  PROVE  HP!OnTrade(e, t).engine.bids = e.bids /\ HP!OnTrade(e, t).engine.asks = e.asks
<1> DEFINE x == HP!RecordTrade(e, t)
<1>1. Windows(e)
  BY DEF EngineInv, Windows
<1>2. DOMAIN x = DOMAIN e /\ \A f \in DOMAIN e \ WindowFields : x[f] = e[f]
  BY <1>1, RecordFlows DEF Windows
<1>3. x.bids = e.bids /\ x.asks = e.asks
  BY <1>2 DEF EngineInv, HP!NewEngine, WindowFields
<1> DEFINE y == [x EXCEPT !.has_active_quotes = FALSE]
           r == HP!OnTrade(e, t).engine
<1>4. r = x \/ r = y
  BY DEF HP!OnTrade
<1> HIDE DEF x, r
<1>5. y.bids = x.bids /\ y.asks = x.asks
  BY <1>2 DEF EngineInv, HP!NewEngine
<1> HIDE DEF y
<1> QED
  BY <1>3, <1>4, <1>5 DEF r

(* A fill leaves the flat book alone.                                      *)
LEMMA FillKeepsBook ==
  ASSUME NEW e, EngineInv(e), NEW side, NEW qty
  PROVE  HP!OnFill(e, side, qty).bids = e.bids /\ HP!OnFill(e, side, qty).asks = e.asks
  BY DEF HP!OnFill, EngineInv, HP!NewEngine

-----------------------------------------------------------------------------
(* The simulated exchange: its state, its reports, and what a call does.   *)

(* The orders the simulated exchange is asked for, its reports, and what   *)
(* rests.                                                                  *)
SimIds == {"Simulated"} \X Nat

Reports == [kind: {"OrderAck", "OrderFill", "OrderCancel", "OrderReject"}, id: SimIds,
            side: Sides, price: Nat, qty: Nat, fee: Int, ts: {0}]

Resting == [side: Sides, price: Int, remaining: Nat \ {0}]

(* The types of the exchange's state.                                      *)
SimTyped(s) ==
  /\ DOMAIN s = {"bids", "asks", "resting", "pending"}
  /\ IsLevels(s.bids) /\ IsLevels(s.asks)
  /\ DOMAIN s.resting \subseteq SimIds /\ IsFiniteSet(DOMAIN s.resting)
  /\ s.resting \in [DOMAIN s.resting -> Resting]
  /\ \A id \in DOMAIN s.resting : s.resting[id].side = "Sell" => s.resting[id].price \in Nat
  /\ s.pending \in Seq(Reports)

(* An order as its owner submits it.                                       *)
Requests == [id: SimIds, side: Sides, type: Sim!OrderTypes, tif: Sim!TimesInForce,
             price: Int, qty: Nat \ {0}]

(* A seller's limit is not negative; a bid computed from inventory may be. *)
IsRequest(o) == o \in Requests /\ (o.side = "Sell" => o.price \in Nat)

(* The state after r differs from s in what rests and in one more report.  *)
Reports1(s, r, resting, e) ==
  /\ SimTyped(r)
  /\ r.resting = resting
  /\ e \in Reports
  /\ r.pending = Append(s.pending, e)

(* A report is what it is made of.                                         *)
LEMMA ReportTyped ==
  ASSUME NEW kind \in {"OrderAck", "OrderFill", "OrderCancel", "OrderReject"}, NEW id \in SimIds,
         NEW side \in Sides, NEW price \in Nat, NEW qty \in Nat, NEW fee \in Int
  PROVE  LET e == Sim!SimEvent(kind, id, side, price, qty, fee)
         IN  /\ e \in Reports
             /\ e.kind = kind /\ e.id = id /\ e.side = side /\ e.price = price
             /\ e.qty = qty /\ e.fee = fee /\ e.ts = 0
  BY DEF Sim!SimEvent, Reports

(* The same for a fill.                                                    *)
LEMMA FillReport ==
  ASSUME NEW id \in SimIds, NEW side \in Sides, NEW price \in Nat, NEW qty \in Nat, NEW fee \in Int
  PROVE  LET e == Sim!SimEvent("OrderFill", id, side, price, qty, fee)
         IN  /\ e \in Reports
             /\ e.kind = "OrderFill" /\ e.id = id /\ e.side = side /\ e.price = price
             /\ e.qty = qty
  BY DEF Sim!SimEvent, Reports

(* A fee, or a rebate, is an integer.                                      *)
LEMMA FeeTyped ==
  ASSUME NEW price \in Nat, NEW qty \in Nat, NEW bps \in Int
  PROVE  Sim!Fee(price, qty, bps) \in Int
<1> DEFINE a == price * qty * bps
<1>1. a \in Int
  BY SMT
<1>2. Sim!Fee(price, qty, bps) = Sim!Quot(a, 10000)
  BY DEF Sim!Fee
<1> HIDE DEF a
<1> QED
  BY <1>1, <1>2 DEF Sim!Quot

(* A report more is a sequence of reports still.                           *)
LEMMA OneMore ==
  ASSUME NEW p \in Seq(Reports), NEW e \in Reports
  PROVE  Append(p, e) \in Seq(Reports)
  OBVIOUS

(* The resting orders without one.                                         *)
LEMMA WithoutTyped ==
  ASSUME NEW s, SimTyped(s), NEW id
  PROVE  LET w == Sim!Without(s.resting, id)
         IN  /\ DOMAIN w = DOMAIN s.resting \ {id}
             /\ \A x \in DOMAIN w : w[x] = s.resting[x]
             /\ DOMAIN w \subseteq SimIds /\ IsFiniteSet(DOMAIN w)
             /\ w \in [DOMAIN w -> Resting]
             /\ \A x \in DOMAIN w : w[x].side = "Sell" => w[x].price \in Nat
<1> DEFINE w == Sim!Without(s.resting, id)
<1>1. w = [y \in DOMAIN s.resting \ {id} |-> s.resting[y]]
  BY DEF Sim!Without
<1> HIDE DEF w
<1>2. DOMAIN w = DOMAIN s.resting \ {id} /\ \A x \in DOMAIN w : w[x] = s.resting[x]
  BY <1>1
<1>3. IsFiniteSet(DOMAIN w)
  BY <1>2, FS_RemoveElement DEF SimTyped
<1>4. w \in [DOMAIN w -> Resting]
  BY <1>1, <1>2 DEF SimTyped
<1> QED
  BY <1>2, <1>3, <1>4 DEF SimTyped, w

(* The exchange's own book changes, no order does.                         *)
LEMMA SetBookEffect ==
  ASSUME NEW s, SimTyped(s), NEW u \in Updates
  PROVE  LET r == Sim!SetBook(s, u)
         IN  SimTyped(r) /\ r.resting = s.resting /\ r.pending = s.pending
<1> DEFINE b == Sim!SetLevels(IF u.is_snapshot THEN Sim!NoLevels ELSE s.bids, u.bids)
           a == Sim!SetLevels(IF u.is_snapshot THEN Sim!NoLevels ELSE s.asks, u.asks)
           r == Sim!SetBook(s, u)
<1>1. r = [s EXCEPT !.bids = b, !.asks = a]
  BY DEF Sim!SetBook
<1>2. IsLevels(b) /\ IsLevels(a)
  <2>1. u.bids \in Seq(Level) /\ u.asks \in Seq(Level)
    BY DEF Updates
  <2>2. IsLevels(s.bids) /\ IsLevels(s.asks)
    BY DEF SimTyped
  <2> QED
    BY <2>1, <2>2, NoLevelsTyped, SetLevelsTyped
<1> HIDE DEF a, b, r
<1>3. /\ DOMAIN r = DOMAIN s /\ r.bids = b /\ r.asks = a
      /\ r.resting = s.resting /\ r.pending = s.pending
  BY <1>1 DEF SimTyped
<1> QED
  BY <1>2, <1>3 DEF SimTyped, r

(* A report without a fill is queued, nothing else changes.                *)
LEMMA EmitEffect ==
  ASSUME NEW s, SimTyped(s), NEW kind \in {"OrderAck", "OrderCancel", "OrderReject"},
         NEW id \in SimIds, NEW side \in Sides
  PROVE  LET r == Sim!Emit(s, kind, id, side)
             e == Sim!SimEvent(kind, id, side, 0, 0, 0)
         IN  /\ Reports1(s, r, s.resting, e)
             /\ r.bids = s.bids /\ r.asks = s.asks
             /\ e.kind = kind /\ e.id = id
<1> DEFINE r == Sim!Emit(s, kind, id, side)
           e == Sim!SimEvent(kind, id, side, 0, 0, 0)
<1>1. e \in Reports /\ e.kind = kind /\ e.id = id
  BY ReportTyped
<1>2. r = [s EXCEPT !.pending = Append(@, e)]
  BY DEF Sim!Emit
<1> HIDE DEF e, r
<1>3. /\ DOMAIN r = DOMAIN s /\ r.bids = s.bids /\ r.asks = s.asks
      /\ r.resting = s.resting /\ r.pending = Append(s.pending, e)
  BY <1>2 DEF SimTyped
<1>4. r.pending \in Seq(Reports)
  BY <1>1, <1>3, OneMore DEF SimTyped
<1>5. SimTyped(r)
  BY <1>3, <1>4 DEF SimTyped
<1> QED
  BY <1>1, <1>3, <1>5 DEF Reports1, r, e

(* cancel_order takes the order out of the book and reports it.            *)
LEMMA CancelEffect ==
  ASSUME NEW s, SimTyped(s), NEW id \in DOMAIN s.resting
  PROVE  LET e == Sim!SimEvent("OrderCancel", id, s.resting[id].side, 0, 0, 0)
         IN  /\ Reports1(s, Sim!CancelOrder(s, id), Sim!Without(s.resting, id), e)
             /\ e.kind = "OrderCancel" /\ e.id = id
<1> DEFINE w == Sim!Without(s.resting, id)
           t == [s EXCEPT !.resting = w]
           r == Sim!CancelOrder(s, id)
           side == s.resting[id].side
           e == Sim!SimEvent("OrderCancel", id, side, 0, 0, 0)
<1>1. /\ DOMAIN w = DOMAIN s.resting \ {id}
      /\ DOMAIN w \subseteq SimIds /\ IsFiniteSet(DOMAIN w)
      /\ w \in [DOMAIN w -> Resting]
      /\ \A x \in DOMAIN w : w[x].side = "Sell" => w[x].price \in Nat
  BY WithoutTyped
<1> HIDE DEF w
<1>2. /\ DOMAIN t = DOMAIN s /\ t.bids = s.bids /\ t.asks = s.asks
      /\ t.resting = w /\ t.pending = s.pending
  BY DEF SimTyped
<1> HIDE DEF t
<1>3. SimTyped(t)
  BY <1>1, <1>2 DEF SimTyped
<1>4. r = Sim!Emit(t, "OrderCancel", id, side)
  BY DEF Sim!CancelOrder, t, w
<1>5. id \in SimIds /\ side \in Sides
  BY DEF SimTyped, Resting
<1> HIDE DEF side
<1>6. /\ Reports1(t, Sim!Emit(t, "OrderCancel", id, side), t.resting, e)
      /\ e.kind = "OrderCancel" /\ e.id = id
  BY <1>3, <1>5, EmitEffect
<1> QED
  BY <1>2, <1>4, <1>6 DEF Reports1, w, side

(* check_resting_orders: a crossed order trades at its own, positive price.*)
LEMMA MakerFillEffect ==
  ASSUME NEW s, SimTyped(s), NEW id \in DOMAIN s.resting
  PROVE  LET o == s.resting[id]
             r == Sim!MakerFill(s, id)
             e == Sim!SimEvent("OrderFill", id, o.side, o.price, o.remaining,
                               Sim!Fee(o.price, o.remaining, MakerFeeBps))
         IN  \/ r = s
             \/ /\ Reports1(s, r, Sim!Without(s.resting, id), e)
                /\ e.kind = "OrderFill" /\ e.id = id /\ e.side = o.side /\ e.price = o.price
                /\ e.qty = o.remaining
<1> DEFINE o == s.resting[id]
           r == Sim!MakerFill(s, id)
           w == Sim!Without(s.resting, id)
           fee == Sim!Fee(o.price, o.remaining, MakerFeeBps)
           e == Sim!SimEvent("OrderFill", id, o.side, o.price, o.remaining, fee)
<1>1. CASE ~Sim!Crossed(s, id)
  BY <1>1 DEF Sim!MakerFill
<1>2. CASE Sim!Crossed(s, id)
  <2>1. /\ o.side \in Sides /\ o.price \in Int /\ o.remaining \in Nat /\ id \in SimIds
        /\ o.side = "Sell" => o.price \in Nat
    BY DEF SimTyped, Resting
  <2>2. o.price \in Nat
    <3>1. CASE o.side = "Sell"
      BY <2>1, <3>1
    <3>2. CASE o.side = "Buy"
      <4> DEFINE levels == Sim!Liquidity(s, o.side)
                 side == Sim!Opposite(o.side)
                 b == Sim!Best(levels, side)
      <4>1. DOMAIN levels # {} /\ Sim!Accepts(o.side, o.price, b)
        BY <1>2 DEF Sim!Crossed
      <4>2. IsLevels(levels)
        BY DEF SimTyped, Sim!Liquidity
      <4> HIDE DEF levels, side
      <4>3. b \in Nat
        BY <4>1, <4>2, SimBest DEF IsLevels
      <4> HIDE DEF b
      <4>4. b = o.price \/ b < o.price
        BY <3>2, <4>1 DEF Sim!Accepts, Sim!Better, Sim!Opposite
      <4> QED
        BY <2>1, <4>3, <4>4
    <3> QED
      BY <2>1, <3>1, <3>2 DEF Sides
  <2>3. fee \in Int
    <3>1. MakerFeeBps \in Int
      BY TradingAssumption DEF TradingAssumption
    <3> QED
      BY <2>1, <2>2, <3>1, FeeTyped
  <2>4. r = [s EXCEPT !.resting = w, !.pending = Append(@, e)]
    BY <1>2 DEF Sim!MakerFill
  <2> HIDE DEF fee
  <2>5. /\ e \in Reports /\ e.kind = "OrderFill" /\ e.id = id /\ e.side = o.side
        /\ e.price = o.price /\ e.qty = o.remaining
    <3> QED
      BY <2>1, <2>2, <2>3, FillReport
  <2>6. /\ DOMAIN w \subseteq SimIds /\ IsFiniteSet(DOMAIN w)
        /\ w \in [DOMAIN w -> Resting]
        /\ \A x \in DOMAIN w : w[x].side = "Sell" => w[x].price \in Nat
    BY WithoutTyped
  <2> HIDE DEF e, w, r, o
  <2>7. /\ DOMAIN r = DOMAIN s /\ r.bids = s.bids /\ r.asks = s.asks
        /\ r.resting = w /\ r.pending = Append(s.pending, e)
    BY <2>4 DEF SimTyped
  <2>8. r.pending \in Seq(Reports)
    BY <2>5, <2>7, OneMore DEF SimTyped
  <2>9. SimTyped(r)
    BY <2>6, <2>7, <2>8 DEF SimTyped
  <2>10. Reports1(s, r, w, e)
    BY <2>5, <2>7, <2>9 DEF Reports1
  <2> QED
    BY <2>5, <2>10 DEF r, w, e, o, fee
<1> QED
  BY <1>1, <1>2

(* What is left of a limit order is put into the book.                     *)
LEMMA RestEffect ==
  ASSUME NEW s, SimTyped(s), NEW o, IsRequest(o), NEW q \in Nat \ {0}
  PROVE  LET r == Sim!Rest(s, o, q)
         IN  /\ SimTyped(r) /\ r.pending = s.pending
             /\ DOMAIN r.resting = DOMAIN s.resting \cup {o.id}
             /\ r.resting[o.id] = [side |-> o.side, price |-> o.price, remaining |-> q]
             /\ \A id \in DOMAIN s.resting \ {o.id} : r.resting[id] = s.resting[id]
<1> DEFINE r == Sim!Rest(s, o, q)
           n == [side |-> o.side, price |-> o.price, remaining |-> q]
           w == [id \in DOMAIN s.resting \cup {o.id} |-> IF id = o.id THEN n ELSE s.resting[id]]
<1>1. r = [s EXCEPT !.resting = w]
  BY DEF Sim!Rest
<1>2. o.id \in SimIds /\ n \in Resting /\ (n.side = "Sell" => n.price \in Nat)
  BY DEF IsRequest, Requests, Resting
<1> HIDE DEF n, r
<1>3. /\ DOMAIN w = DOMAIN s.resting \cup {o.id} /\ w[o.id] = n
      /\ \A id \in DOMAIN s.resting \ {o.id} : w[id] = s.resting[id]
  OBVIOUS
<1>4. w \in [DOMAIN w -> Resting]
  BY <1>2 DEF SimTyped
<1> HIDE DEF w
<1>5. IsFiniteSet(DOMAIN w) /\ DOMAIN w \subseteq SimIds
  <2> DEFINE D == DOMAIN s.resting
  <2>1. IsFiniteSet(D) /\ D \subseteq SimIds
    BY DEF SimTyped
  <2>2. DOMAIN w = D \cup {o.id}
    BY <1>3
  <2> HIDE DEF D
  <2>3. IsFiniteSet(D \cup {o.id})
    BY <2>1, FS_AddElement
  <2> QED
    BY <1>2, <2>1, <2>2, <2>3
<1>6. \A x \in DOMAIN w : w[x].side = "Sell" => w[x].price \in Nat
  BY <1>2, <1>3 DEF SimTyped
<1>7. /\ DOMAIN r = DOMAIN s /\ r.bids = s.bids /\ r.asks = s.asks
      /\ r.resting = w /\ r.pending = s.pending
  BY <1>1 DEF SimTyped
<1>8. SimTyped(r)
  BY <1>4, <1>5, <1>6, <1>7 DEF SimTyped
<1> QED
  BY <1>3, <1>7, <1>8 DEF r, n

(* One level taken.                                                        *)
LEMMA TakerFillEffect ==
  ASSUME NEW m, DOMAIN m = {"sim", "remaining"}, SimTyped(m.sim), m.remaining \in Nat,
         NEW o, IsRequest(o), NEW l, l.price \in Nat \ {0}, l.qty \in Nat \ {0}
  PROVE  LET r == Sim!TakerFill(m, o, l)
             q == IF m.remaining <= l.qty THEN m.remaining ELSE l.qty
             e == Sim!SimEvent("OrderFill", o.id, o.side, l.price, q,
                               Sim!Fee(l.price, q, TakerFeeBps))
         IN  \/ m.remaining = 0 /\ r = m
             \/ /\ m.remaining > 0 /\ q \in 1 .. m.remaining
                /\ DOMAIN r = {"sim", "remaining"}
                /\ r.remaining = m.remaining - q
                /\ Reports1(m.sim, r.sim, m.sim.resting, e)
                /\ e.kind = "OrderFill" /\ e.id = o.id /\ e.side = o.side /\ e.price = l.price
                /\ e.qty = q
<1> DEFINE r == Sim!TakerFill(m, o, l)
           q == IF m.remaining <= l.qty THEN m.remaining ELSE l.qty
           fee == Sim!Fee(l.price, q, TakerFeeBps)
           e == Sim!SimEvent("OrderFill", o.id, o.side, l.price, q, fee)
           left == [price |-> l.price, qty |-> l.qty - q]
           s == m.sim
           t == IF o.side = "Buy" THEN [s EXCEPT !.asks = Sim!SetLevel(@, left)]
                ELSE [s EXCEPT !.bids = Sim!SetLevel(@, left)]
           z == [t EXCEPT !.pending = Append(@, e)]
<1>1. Sim!Min({m.remaining, l.qty}) = q /\ q \in Nat /\ q <= m.remaining /\ l.qty - q \in Nat
      /\ (q = 0 <=> m.remaining = 0)
  BY SimSets
<1>2. r = IF q = 0 THEN m ELSE [sim |-> z, remaining |-> m.remaining - q]
  BY <1>1 DEF Sim!TakerFill
<1>3. CASE m.remaining = 0
  BY <1>1, <1>2, <1>3
<1>4. CASE m.remaining # 0
  <2>1. fee \in Int
    <3>1. TakerFeeBps \in Int
      BY TradingAssumption DEF TradingAssumption
    <3> HIDE DEF q
    <3> QED
      BY <1>1, <3>1, FeeTyped
  <2>2. o.id \in SimIds /\ o.side \in Sides
    BY DEF IsRequest, Requests
  <2>3. /\ e \in Reports /\ e.kind = "OrderFill" /\ e.id = o.id /\ e.side = o.side
        /\ e.price = l.price /\ e.qty = q
    <3>1. o.id \in SimIds /\ o.side \in Sides /\ l.price \in Nat /\ q \in Nat /\ fee \in Int
      BY <1>1, <2>1, <2>2
    <3> HIDE DEF q, fee, r, left, s, t, z
    <3> QED
      BY <3>1, FillReport
  <2>4. left.price \in Nat \ {0} /\ left.qty \in Nat
    <3> HIDE DEF q
    <3> QED
      BY <1>1
  <2> HIDE DEF e, q, fee, left
  <2>5. IsLevels(Sim!SetLevel(s.asks, left)) /\ IsLevels(Sim!SetLevel(s.bids, left))
    BY <2>4, SetLevelTyped DEF SimTyped
  <2> HIDE DEF r, s
  <2>6. /\ DOMAIN t = DOMAIN s /\ IsLevels(t.bids) /\ IsLevels(t.asks)
        /\ t.resting = s.resting /\ t.pending = s.pending
    <3>1. CASE o.side = "Buy"
      BY <2>5, <3>1 DEF SimTyped, s
    <3>2. CASE o.side # "Buy"
      BY <2>5, <3>2 DEF SimTyped, s
    <3> QED
      BY <3>1, <3>2
  <2> HIDE DEF t
  <2>7. /\ DOMAIN z = DOMAIN s /\ IsLevels(z.bids) /\ IsLevels(z.asks)
        /\ z.resting = s.resting /\ z.pending = Append(s.pending, e)
    BY <2>6 DEF SimTyped, s
  <2> HIDE DEF z
  <2>8. z.pending \in Seq(Reports)
    BY <2>3, <2>7, OneMore DEF SimTyped, s
  <2>9. SimTyped(z)
    BY <2>7, <2>8 DEF SimTyped, s
  <2>10. Reports1(s, z, s.resting, e)
    BY <2>3, <2>7, <2>9 DEF Reports1
  <2>11. r = [sim |-> z, remaining |-> m.remaining - q]
    BY <1>1, <1>2, <1>4
  <2>12. DOMAIN r = {"sim", "remaining"} /\ r.sim = z /\ r.remaining = m.remaining - q
    BY <2>11
  <2>13. m.remaining > 0 /\ q \in 1 .. m.remaining
    BY <1>1, <1>4
  <2> QED
    BY <2>3, <2>10, <2>12, <2>13 DEF r, s, e, q, fee
<1> QED
  BY <1>3, <1>4

-----------------------------------------------------------------------------
(* What the exchange's reports do to one order of the tracker, and to the  *)
(* prices it traded at.                                                    *)

(* ProcessEvent on the order a report is about.                            *)
ProcessOne(o, e) ==
  CASE e.kind = "OrderAck" ->
         IF Eng!CanTransitionTo(o.state, "Ack")
         THEN [o EXCEPT !.state = "Ack", !.updated_at = e.ts] ELSE o
    [] e.kind = "OrderFill" ->
         IF Eng!CanTransitionTo(o.state, Eng!FillTarget(o, e.qty))
         THEN Eng!FillOrder(o, e.qty, e.ts) ELSE o
    [] e.kind = "OrderCancel" ->
         IF Eng!CanTransitionTo(o.state, "Canceled")
         THEN [o EXCEPT !.state = "Canceled", !.updated_at = e.ts] ELSE o
    [] e.kind = "OrderReject" ->
         IF Eng!CanTransitionTo(o.state, "Rejected")
         THEN [o EXCEPT !.state = "Rejected", !.updated_at = e.ts] ELSE o
    [] OTHER -> o

(* c = [id, base]: the order looked at and what it was at first.           *)
ViewStep(c, v, e) ==
  IF e.id # c.id THEN v
  ELSE [ order |-> ProcessOne(v.order, e),
         traded |-> IF e.kind = "OrderFill" THEN v.traded \cup {e.price} ELSE v.traded ]

(* The views of an order as the reports are drained one by one.            *)
ViewGood(c, k, v) == v = c.base

Viewing == INSTANCE FoldFacts WITH Step <- ViewStep, Good <- ViewGood, Term <- Share

(* w = [orders, prices, requests]: the tracker and the history before the  *)
(* reports are drained.                                                    *)
ViewOf(w, id) == [ order |-> w.orders[id],
                   traded |-> IF id \in DOMAIN w.prices THEN w.prices[id] ELSE {} ]

(* The order looked at.                                                    *)
Looking(w, id) == [id |-> id, base |-> ViewOf(w, id)]

(* The order once the reports are drained.                                 *)
Seen(w, id, pending) == Viewing!Fold(Looking(w, id), ViewOf(w, id), pending)

(* No report: the view is the order as tracked.                            *)
LEMMA SeenNothing ==
  ASSUME NEW w, NEW id
  PROVE  Seen(w, id, <<>>) = ViewOf(w, id)
  BY Viewing!FoldEmpty DEF Seen

(* One more report: one more step of the view.                             *)
LEMMA SeenAppend ==
  ASSUME NEW w, NEW id, NEW p \in Seq(Reports), NEW e \in Reports
  PROVE  Seen(w, id, Append(p, e)) = ViewStep(Looking(w, id), Seen(w, id, p), e)
<1> DEFINE n == Len(p)
           more == Append(p, e)
<1>1. n \in Nat /\ DOMAIN p = 1 .. n /\ DOMAIN more = 1 .. n + 1
  OBVIOUS
<1>2. (\A k \in 1 .. n : more[k] = p[k]) /\ more[n + 1] = e
  OBVIOUS
<1> HIDE DEF n, more
<1>3. \A c, base : Viewing!Fold(c, base, more) = ViewStep(c, Viewing!Fold(c, base, p), more[n + 1])
  BY <1>1, <1>2, Viewing!FoldAppend
<1> QED
  BY <1>2, <1>3 DEF Seen, more

(* Reports about other orders.                                             *)
LEMMA SeenUntouched ==
  ASSUME NEW w, NEW id, NEW p \in Seq(Reports), \A i \in DOMAIN p : p[i].id # id
  PROVE  Seen(w, id, p) = ViewOf(w, id)
<1> DEFINE c == Looking(w, id)
           base == ViewOf(w, id)
           n == Len(p)
<1>1. n \in Nat /\ DOMAIN p = 1 .. n
  OBVIOUS
<1>2. c.id = id /\ c.base = base
  BY DEF Looking
<1> HIDE DEF c, n, base
<1>3. ViewGood(c, 0, base)
  BY <1>2 DEF ViewGood
<1>4. \A k \in 1 .. n : \A v : ViewGood(c, k - 1, v) => ViewGood(c, k, ViewStep(c, v, p[k]))
  BY <1>1, <1>2 DEF ViewGood, ViewStep
<1>5. ViewGood(c, n, Viewing!Fold(c, base, p))
  BY <1>1, <1>3, <1>4, Viewing!FoldInduction
<1> QED
  BY <1>2, <1>5 DEF ViewGood, Seen, c, base

(* The view depends on nothing but the order and the reports.              *)
LEMMA SeenSame ==
  ASSUME NEW w, NEW x, NEW id, ViewOf(w, id) = ViewOf(x, id), NEW p
  PROVE  Seen(w, id, p) = Seen(x, id, p)
  BY DEF Seen, Looking

-----------------------------------------------------------------------------
(* What the tracker knows of an order once the reports are drained.        *)

(* Facts that do not depend on whether the order is over.                  *)
OrderSound(o, v) ==
  /\ DOMAIN v = {"order", "traded"}
  /\ v.order \in Eng!LiveOrder
  /\ v.order.original_qty = o.qty
  /\ v.order.filled_qty \in 0 .. o.qty
  /\ v.order.remaining_qty = o.qty - v.order.filled_qty
  /\ \A p \in v.traded : p \in Nat
  /\ Sim!HasLimit(o) => \A p \in v.traded : Accepts(o.side, o.price, p)

(* Settled: the exchange has answered it. What rests is open in the        *)
(* tracker, what is open rests, what a market order without a term could   *)
(* not buy excepted.                                                       *)
OrderGood(o, resting, id, v) ==
  /\ OrderSound(o, v)
  /\ v.order.state # "New"
  /\ id \in DOMAIN resting =>
       /\ Sim!Rests(o)
       /\ v.order.state \in {"Ack", "PartialFill"}
       /\ v.order.remaining_qty = resting[id].remaining
       /\ resting[id].side = o.side /\ resting[id].price = o.price
  /\ (id \notin DOMAIN resting /\ v.order.state \notin Eng!Terminal) =>
       o.type # "Limit" /\ o.tif \in {"GTC", "GTD"}
  /\ o.tif = "FOK" => v.order.filled_qty \in {0, o.qty}

(* Every order but those of X.                                             *)
VenueBut(w, s, X) ==
  /\ SimTyped(s)
  /\ DOMAIN w.orders = DOMAIN w.requests /\ DOMAIN w.prices \subseteq DOMAIN w.requests
  /\ \A id \in DOMAIN w.requests : IsRequest(w.requests[id])
  /\ DOMAIN s.resting \subseteq DOMAIN w.requests
  /\ \A i \in DOMAIN s.pending : s.pending[i].id \in DOMAIN w.requests
  /\ \A id \in DOMAIN w.requests \ X :
       OrderGood(w.requests[id], s.resting, id, Seen(w, id, s.pending))

(* Every order is in its place.                                            *)
VenueInv(w, s) == VenueBut(w, s, {})

(* One report, about an order that is in its place again after it.         *)
LEMMA ReportKept ==
  ASSUME NEW w, NEW s, NEW X, VenueBut(w, s, X), NEW r, NEW resting, NEW e,
         Reports1(s, r, resting, e), e.id \in DOMAIN w.requests,
         DOMAIN resting \subseteq DOMAIN w.requests,
         \A x \in DOMAIN s.resting \cup DOMAIN resting : x # e.id =>
           x \in DOMAIN s.resting /\ x \in DOMAIN resting /\ resting[x] = s.resting[x],
         e.id \notin X => OrderGood(w.requests[e.id], resting, e.id,
                            ViewStep(Looking(w, e.id), Seen(w, e.id, s.pending), e))
  PROVE  VenueBut(w, r, X)
<1>1. /\ SimTyped(r) /\ r.resting = resting /\ r.pending = Append(s.pending, e)
      /\ s.pending \in Seq(Reports) /\ e \in Reports
  BY DEF Reports1, VenueBut, SimTyped
<1>2. \A i \in DOMAIN r.pending : r.pending[i].id \in DOMAIN w.requests
  <2> DEFINE p == s.pending
  <2>1. p \in Seq(Reports) /\ \A i \in DOMAIN p : p[i].id \in DOMAIN w.requests
    BY <1>1 DEF VenueBut
  <2>2. r.pending = Append(p, e)
    BY <1>1
  <2> HIDE DEF p
  <2>3. DOMAIN Append(p, e) = 1 .. Len(p) + 1 /\ DOMAIN p = 1 .. Len(p)
    BY <2>1
  <2>4. \A i \in 1 .. Len(p) + 1 : Append(p, e)[i] = IF i = Len(p) + 1 THEN e ELSE p[i]
    BY <2>1
  <2>5. \A i \in 1 .. Len(p) + 1 : i # Len(p) + 1 => i \in 1 .. Len(p)
    BY <2>1
  <2> QED
    BY <2>1, <2>2, <2>3, <2>4, <2>5
<1>3. ASSUME NEW id \in DOMAIN w.requests \ X
      PROVE  OrderGood(w.requests[id], r.resting, id, Seen(w, id, r.pending))
  <2>1. Seen(w, id, r.pending) = ViewStep(Looking(w, id), Seen(w, id, s.pending), e)
    BY <1>1, SeenAppend
  <2>2. CASE id = e.id
    BY <1>1, <1>3, <2>1, <2>2
  <2>3. CASE id # e.id
    <3>1. Seen(w, id, r.pending) = Seen(w, id, s.pending)
      BY <2>1, <2>3 DEF ViewStep, Looking
    <3>2. OrderGood(w.requests[id], s.resting, id, Seen(w, id, s.pending))
      BY <1>3 DEF VenueBut
    <3>3. (id \in DOMAIN s.resting <=> id \in DOMAIN resting)
          /\ (id \in DOMAIN resting => resting[id] = s.resting[id])
      BY <2>3
    <3> QED
      BY <1>1, <3>1, <3>2, <3>3 DEF OrderGood
  <2> QED
    BY <2>2, <2>3
<1> QED
  BY <1>1, <1>2, <1>3 DEF VenueBut

-----------------------------------------------------------------------------
(* Both modules' Accepts.                                                  *)
LEMMA SameAccepts ==
  \A side, limit, price : Sim!Accepts(side, limit, price) <=> Accepts(side, limit, price)
  BY DEF Sim!Accepts, Accepts, Sim!Better, Better, Sim!Opposite, Opposite

(* The transitions of the table that the exchange's reports use.           *)
LEMMA Transitions ==
  /\ Eng!CanTransitionTo("New", "Ack") /\ Eng!CanTransitionTo("New", "Rejected")
  /\ \A s \in {"Ack", "PartialFill"} : \A t \in {"PartialFill", "Filled", "Canceled"} :
       Eng!CanTransitionTo(s, t)
  BY DEF Eng!CanTransitionTo

(* A fill of q of an order with enough left, at a price it accepts.        *)
LEMMA ViewFill ==
  ASSUME NEW o, IsRequest(o), NEW v, OrderSound(o, v), v.order.state \in {"Ack", "PartialFill"},
         NEW e \in Reports, e.kind = "OrderFill",
         NEW c, c.id = e.id, e.qty <= v.order.remaining_qty,
         Sim!HasLimit(o) => Accepts(o.side, o.price, e.price)
  PROVE  LET n == ViewStep(c, v, e)
         IN  /\ OrderSound(o, n)
             /\ n.order.remaining_qty = v.order.remaining_qty - e.qty
             /\ n.order.state = IF n.order.remaining_qty = 0 THEN "Filled" ELSE "PartialFill"
<1> DEFINE n == ViewStep(c, v, e)
           x == v.order
           y == ProcessOne(x, e)
           q == e.qty
           target == Eng!FillTarget(x, q)
<1>1. /\ x \in Eng!LiveOrder /\ x.original_qty = o.qty /\ x.filled_qty \in 0 .. o.qty
      /\ x.remaining_qty = o.qty - x.filled_qty /\ q \in Nat /\ o.qty \in Nat
      /\ x.state \in {"Ack", "PartialFill"} /\ q <= x.remaining_qty
      /\ e.price \in Nat /\ e.ts = 0
  BY DEF OrderSound, Reports, IsRequest, Requests
<1>2. n = [order |-> y, traded |-> v.traded \cup {e.price}]
  BY DEF ViewStep
<1>3. target = IF x.filled_qty + q >= x.original_qty THEN "Filled" ELSE "PartialFill"
  BY DEF Eng!FillTarget
<1>4. Eng!CanTransitionTo(x.state, target)
  BY <1>1, <1>3, Transitions
<1>5. y = Eng!FillOrder(x, q, 0)
  BY <1>1, <1>4 DEF ProcessOne
<1>6. y = [x EXCEPT !.filled_qty = x.filled_qty + q,
                    !.remaining_qty = Eng!Minus(x.original_qty, x.filled_qty + q),
                    !.state = target, !.updated_at = 0]
  BY <1>5 DEF Eng!FillOrder
<1> HIDE DEF n, x, y, q, target
<1>7. Eng!Minus(x.original_qty, x.filled_qty + q) = o.qty - (x.filled_qty + q)
  BY <1>1 DEF Eng!Minus
<1>8. target \in Eng!OrderState
  BY <1>3 DEF Eng!OrderState
<1>9. /\ y \in Eng!LiveOrder /\ y.original_qty = o.qty /\ y.filled_qty = x.filled_qty + q
      /\ y.remaining_qty = o.qty - (x.filled_qty + q) /\ y.state = target
  <2> DEFINE f == x.filled_qty + q
             g == Eng!Minus(x.original_qty, f)
  <2>1. f \in Nat /\ g \in Nat /\ g = o.qty - f
    BY <1>1, <1>7
  <2>2. y = [x EXCEPT !.filled_qty = f, !.remaining_qty = g, !.state = target, !.updated_at = 0]
    BY <1>6
  <2> HIDE DEF f, g
  <2>3. /\ y \in Eng!LiveOrder /\ y.original_qty = x.original_qty /\ y.filled_qty = f
        /\ y.remaining_qty = g /\ y.state = target
    BY <1>1, <1>8, <2>1, <2>2 DEF Eng!LiveOrder
  <2> QED
    BY <1>1, <2>1, <2>3 DEF f
<1>10. y.filled_qty \in 0 .. o.qty /\ y.remaining_qty = x.remaining_qty - q
       /\ (target = IF y.remaining_qty = 0 THEN "Filled" ELSE "PartialFill")
  BY <1>1, <1>3, <1>9
<1>11. DOMAIN n = {"order", "traded"} /\ n.order = y /\ n.traded = v.traded \cup {e.price}
  BY <1>2
<1>12. /\ \A p \in n.traded : p \in Nat
       /\ Sim!HasLimit(o) => \A p \in n.traded : Accepts(o.side, o.price, p)
  BY <1>1, <1>11 DEF OrderSound
<1>13. OrderSound(o, n)
  BY <1>9, <1>10, <1>11, <1>12 DEF OrderSound
<1> QED
  BY <1>9, <1>10, <1>11, <1>13 DEF n, q, x

(* An acknowledgement, cancellation or rejection changes the state only.   *)
LEMMA ViewMove ==
  ASSUME NEW o, NEW v, OrderSound(o, v), NEW e \in Reports, NEW to,
         <<e.kind, to>> \in {<<"OrderAck", "Ack">>, <<"OrderCancel", "Canceled">>,
                             <<"OrderReject", "Rejected">>},
         Eng!CanTransitionTo(v.order.state, to),
         NEW c, c.id = e.id
  PROVE  LET n == ViewStep(c, v, e)
         IN  /\ OrderSound(o, n)
             /\ n.order.filled_qty = v.order.filled_qty
             /\ n.order.remaining_qty = v.order.remaining_qty
             /\ n.order.state = to
<1> DEFINE n == ViewStep(c, v, e)
           x == v.order
           y == [x EXCEPT !.state = to, !.updated_at = 0]
<1>1. e.ts = 0 /\ e.kind # "OrderFill"
  BY DEF Reports
<1>2. ProcessOne(x, e) = y
  BY <1>1 DEF ProcessOne
<1>3. n = [order |-> y, traded |-> v.traded]
  BY <1>1, <1>2 DEF ViewStep
<1>4. to \in Eng!OrderState
  BY DEF Eng!OrderState
<1>5. /\ y \in Eng!LiveOrder /\ y.original_qty = x.original_qty /\ y.filled_qty = x.filled_qty
      /\ y.remaining_qty = x.remaining_qty /\ y.state = to
  BY <1>4 DEF OrderSound, Eng!LiveOrder
<1> HIDE DEF n, y
<1>6. DOMAIN n = {"order", "traded"} /\ n.order = y /\ n.traded = v.traded
  BY <1>3
<1>7. OrderSound(o, n)
  BY <1>5, <1>6 DEF OrderSound
<1> QED
  BY <1>5, <1>6, <1>7 DEF n

-----------------------------------------------------------------------------
(* The calls that move resting orders.                                     *)

(* A new book moves no order.                                              *)
LEMMA VenueSetBook ==
  ASSUME NEW w, NEW s, VenueInv(w, s), NEW u \in Updates
  PROVE  /\ VenueInv(w, Sim!SetBook(s, u))
         /\ Sim!SetBook(s, u).resting = s.resting /\ Sim!SetBook(s, u).pending = s.pending
<1> DEFINE r == Sim!SetBook(s, u)
<1>1. SimTyped(r) /\ r.resting = s.resting /\ r.pending = s.pending
  BY SetBookEffect DEF VenueInv, VenueBut
<1> HIDE DEF r
<1> QED
  BY <1>1 DEF VenueInv, VenueBut, r

(* One order leaves the book, with one report.                             *)
LEMMA VenueLeaves ==
  ASSUME NEW w, NEW s, VenueInv(w, s), NEW id \in DOMAIN s.resting, NEW r, NEW e,
         Reports1(s, r, Sim!Without(s.resting, id), e), e.id = id,
         LET n == ViewStep(Looking(w, id), Seen(w, id, s.pending), e)
             o == w.requests[id]
         IN  /\ OrderSound(o, n) /\ n.order.state \in Eng!Terminal
             /\ o.tif = "FOK" => n.order.filled_qty \in {0, o.qty}
  PROVE  VenueInv(w, r)
<1> DEFINE t == Sim!Without(s.resting, id)
           n == ViewStep(Looking(w, id), Seen(w, id, s.pending), e)
           o == w.requests[id]
<1>1. /\ DOMAIN t = DOMAIN s.resting \ {id}
      /\ \A x \in DOMAIN t : t[x] = s.resting[x]
  BY DEF Sim!Without
<1>2. id \in DOMAIN w.requests /\ DOMAIN s.resting \subseteq DOMAIN w.requests
  BY DEF VenueInv, VenueBut
<1>3. n.order.state # "New" /\ id \notin DOMAIN t
  BY <1>1 DEF Eng!Terminal
<1> HIDE DEF t, n, o
<1>4. OrderGood(o, t, id, n)
  BY <1>3 DEF OrderGood, n, o
<1>5. VenueBut(w, r, {})
  BY <1>1, <1>2, <1>4, ReportKept DEF VenueInv, t, n, o
<1> QED
  BY <1>5 DEF VenueInv

(* A fill at the order's own price, reported, keeps every order in its     *)
(* place.                                                                  *)
LEMMA VenueMakerFill ==
  ASSUME NEW w, NEW s, VenueInv(w, s), NEW id \in DOMAIN s.resting
  PROVE  VenueInv(w, Sim!MakerFill(s, id))
<1> DEFINE q == s.resting[id]
           r == Sim!MakerFill(s, id)
           e == Sim!SimEvent("OrderFill", id, q.side, q.price, q.remaining,
                             Sim!Fee(q.price, q.remaining, MakerFeeBps))
           v == Seen(w, id, s.pending)
           o == w.requests[id]
           c == Looking(w, id)
           n == ViewStep(c, v, e)
<1>1. \/ r = s
      \/ /\ Reports1(s, r, Sim!Without(s.resting, id), e)
         /\ e.kind = "OrderFill" /\ e.id = id /\ e.side = q.side /\ e.price = q.price
         /\ e.qty = q.remaining
  BY MakerFillEffect DEF VenueInv, VenueBut
<1>2. OrderGood(o, s.resting, id, v) /\ IsRequest(o)
  BY DEF VenueInv, VenueBut
<1>3. c.id = id
  BY DEF Looking
<1> HIDE DEF e, r, v, c, o
<1>4. CASE r # s
  <2>1. e \in Reports
    BY <1>1, <1>4 DEF Reports1
  <2>2. /\ OrderSound(o, v) /\ v.order.state \in {"Ack", "PartialFill"}
        /\ v.order.remaining_qty = q.remaining /\ q.price = o.price /\ Sim!Rests(o)
        /\ v.order.remaining_qty = o.qty - v.order.filled_qty /\ o.qty \in Nat
        /\ v.order.filled_qty \in Nat
    BY <1>2 DEF OrderGood, OrderSound, IsRequest, Requests
  <2>3. Accepts(o.side, o.price, e.price)
    BY <1>1, <1>4, <2>2 DEF Accepts
  <2> HIDE DEF q
  <2>4. e.qty <= v.order.remaining_qty
    BY <1>1, <1>4, <2>2
  <2>5. /\ OrderSound(o, n)
        /\ n.order.remaining_qty = v.order.remaining_qty - e.qty
        /\ n.order.state = IF n.order.remaining_qty = 0 THEN "Filled" ELSE "PartialFill"
    BY <1>1, <1>2, <1>3, <1>4, <2>1, <2>2, <2>3, <2>4, ViewFill
  <2> HIDE DEF n
  <2>6. n.order.remaining_qty = 0
    BY <1>1, <1>4, <2>2, <2>5
  <2>7. n.order.state \in Eng!Terminal
    BY <2>5, <2>6 DEF Eng!Terminal
  <2>8. o.tif # "FOK"
    BY <2>2 DEF Sim!Rests
  <2> QED
    BY <1>1, <1>4, <2>5, <2>7, <2>8, VenueLeaves DEF n, c, v, o, q, r
<1> QED
  BY <1>4 DEF r

(* So does a cancellation.                                                 *)
LEMMA VenueCancel ==
  ASSUME NEW w, NEW s, VenueInv(w, s), NEW id
  PROVE  VenueInv(w, Sim!CancelOrder(s, id))
<1> DEFINE q == s.resting[id]
           r == Sim!CancelOrder(s, id)
           e == Sim!SimEvent("OrderCancel", id, q.side, 0, 0, 0)
           v == Seen(w, id, s.pending)
           o == w.requests[id]
           c == Looking(w, id)
           n == ViewStep(c, v, e)
<1>1. CASE id \notin DOMAIN s.resting
  BY <1>1 DEF Sim!CancelOrder
<1>2. CASE id \in DOMAIN s.resting
  <2>1. /\ Reports1(s, r, Sim!Without(s.resting, id), e)
        /\ e.kind = "OrderCancel" /\ e.id = id
    BY <1>2, CancelEffect DEF VenueInv, VenueBut
  <2>2. OrderGood(o, s.resting, id, v)
    BY <1>2 DEF VenueInv, VenueBut
  <2>3. c.id = id
    BY DEF Looking
  <2> HIDE DEF e, r, v, c, o, q
  <2>4. e \in Reports
    BY <2>1 DEF Reports1
  <2>5. OrderSound(o, v) /\ v.order.state \in {"Ack", "PartialFill"} /\ o.tif # "FOK"
    BY <1>2, <2>2 DEF OrderGood, Sim!Rests
  <2>6. Eng!CanTransitionTo(v.order.state, "Canceled")
    BY <2>5, Transitions
  <2>7. OrderSound(o, n) /\ n.order.state = "Canceled"
    BY <2>1, <2>3, <2>4, <2>5, <2>6, ViewMove
  <2> HIDE DEF n
  <2>8. n.order.state \in Eng!Terminal
    BY <2>7 DEF Eng!Terminal
  <2> QED
    BY <1>2, <2>1, <2>5, <2>7, <2>8, VenueLeaves DEF n, c, v, o, r
<1> QED
  BY <1>1, <1>2

-----------------------------------------------------------------------------
(* check_resting_orders: the resting orders in any order, each once.       *)

(* c = [w, ids, order, n].                                                 *)
FillingStep(c, s, id) == Sim!MakerFill(s, id)

(* c.w is the world, and what is still to be checked rests.                *)
FillingGood(c, k, s) ==
  /\ VenueInv(c.w, s)
  /\ DOMAIN s.resting \subseteq c.ids
  /\ \A j \in 1 .. c.n : j > k => c.order[j] \in DOMAIN s.resting

Filling == INSTANCE FoldFacts WITH Step <- FillingStep, Good <- FillingGood, Term <- Share

(* The loop over the resting orders as a fold.                             *)
LEMMA CheckIsFold ==
  ASSUME NEW c, NEW s, NEW order
  PROVE  Sim!CheckRestingOrders(s, order) = Filling!Fold(c, s, order)
  BY DEF Sim!CheckRestingOrders, Filling!Fold, Sim!FoldLeft,
         Sim!MapThenFoldSet, Filling!MapThenFoldSet, Sim!Max, Filling!Max, FillingStep

(* A fill takes at most its own order out of the book.                     *)
LEMMA MakerFillLeaves ==
  ASSUME NEW s, SimTyped(s), NEW id
  PROVE  LET r == Sim!MakerFill(s, id)
         IN  r.resting = s.resting \/ r.resting = Sim!Without(s.resting, id)
<1> DEFINE r == Sim!MakerFill(s, id)
<1>1. CASE ~Sim!Crossed(s, id)
  BY <1>1 DEF Sim!MakerFill
<1>2. CASE Sim!Crossed(s, id)
  <2> DEFINE o == s.resting[id]
             w == Sim!Without(s.resting, id)
             e == Sim!SimEvent("OrderFill", id, o.side, o.price, o.remaining,
                               Sim!Fee(o.price, o.remaining, MakerFeeBps))
  <2>1. r = [s EXCEPT !.resting = w, !.pending = Append(@, e)]
    BY <1>2 DEF Sim!MakerFill
  <2>2. "resting" \in DOMAIN s
    BY DEF SimTyped
  <2> HIDE DEF w, e, r
  <2>3. r.resting = w
    BY <2>1, <2>2
  <2> QED
    BY <2>3 DEF r, w
<1> QED
  BY <1>1, <1>2

(* One of them checked.                                                    *)
LEMMA FillingKeeps ==
  ASSUME NEW c, c.n \in Nat, \A i, j \in 1 .. c.n : i # j => c.order[i] # c.order[j],
         NEW k \in 1 .. c.n, NEW s, FillingGood(c, k - 1, s)
  PROVE  FillingGood(c, k, FillingStep(c, s, c.order[k]))
<1> DEFINE id == c.order[k]
           r == Sim!MakerFill(s, id)
<1>1. /\ VenueInv(c.w, s) /\ DOMAIN s.resting \subseteq c.ids
      /\ \A j \in 1 .. c.n : j > k - 1 => c.order[j] \in DOMAIN s.resting
  BY DEF FillingGood
<1>2. id \in DOMAIN s.resting /\ \A j \in 1 .. c.n : j > k => j > k - 1 /\ c.order[j] # id
  BY <1>1
<1>3. VenueInv(c.w, r)
  BY <1>1, <1>2, VenueMakerFill
<1>4. SimTyped(s)
  BY <1>1 DEF VenueInv, VenueBut
<1>5. r.resting = s.resting \/ r.resting = Sim!Without(s.resting, id)
  BY <1>4, MakerFillLeaves
<1> HIDE DEF r, id
<1>6. DOMAIN r.resting \subseteq DOMAIN s.resting /\ DOMAIN s.resting \ {id} \subseteq DOMAIN r.resting
  BY <1>5 DEF Sim!Without
<1>7. \A j \in 1 .. c.n : j > k => c.order[j] \in DOMAIN r.resting
  BY <1>1, <1>2, <1>6
<1> QED
  BY <1>1, <1>3, <1>6, <1>7 DEF FillingGood, FillingStep, r, id

(* The sequences a finite set is walked in.                                *)
LEMMA Walks ==
  ASSUME NEW S, IsFiniteSet(S), NEW order \in SetToSeqs(S)
  PROVE  /\ Cardinality(S) \in Nat
         /\ DOMAIN order = 1 .. Cardinality(S)
         /\ \A i \in DOMAIN order : order[i] \in S
         /\ \A i, j \in DOMAIN order : i # j => order[i] # order[j]
<1>1. Cardinality(S) \in Nat
  BY FS_CardinalityType
<1> QED
  BY <1>1 DEF SetToSeqs

(* A book update at the exchange keeps every order in its place.           *)
LEMMA VenueOnBook ==
  ASSUME NEW w, NEW s, VenueInv(w, s), NEW u \in Updates, NEW order \in SetToSeqs(DOMAIN s.resting)
  PROVE  LET r == Sim!OnBookUpdate(s, u, order)
         IN  VenueInv(w, r) /\ DOMAIN r.resting \subseteq DOMAIN s.resting
<1> DEFINE r == Sim!OnBookUpdate(s, u, order)
           b == Sim!SetBook(s, u)
           n == Cardinality(DOMAIN s.resting)
           c == [w |-> w, ids |-> DOMAIN s.resting, order |-> order, n |-> n]
<1>1. VenueInv(w, b) /\ b.resting = s.resting
  BY VenueSetBook
<1>2. IsFiniteSet(DOMAIN s.resting)
  BY DEF VenueInv, VenueBut, SimTyped
<1>3. /\ n \in Nat /\ DOMAIN order = 1 .. n /\ \A i \in 1 .. n : order[i] \in DOMAIN s.resting
      /\ \A i, j \in 1 .. n : i # j => order[i] # order[j]
  <2> DEFINE S == DOMAIN s.resting
  <2> HIDE DEF S
  <2>1. IsFiniteSet(S) /\ order \in SetToSeqs(S)
    BY <1>2 DEF S
  <2> QED
    BY <2>1, Walks DEF S
<1>4. r = Filling!Fold(c, b, order)
  BY CheckIsFold DEF Sim!OnBookUpdate
<1>5. c.w = w /\ c.ids = DOMAIN s.resting /\ c.order = order /\ c.n = n
  OBVIOUS
<1> HIDE DEF b, c, n, r
<1>6. FillingGood(c, 0, b)
  BY <1>1, <1>3, <1>5 DEF FillingGood
<1>7. \A k \in 1 .. n : \A q : FillingGood(c, k - 1, q) => FillingGood(c, k, FillingStep(c, q, order[k]))
  BY <1>3, <1>5, FillingKeeps
<1>8. FillingGood(c, n, Filling!Fold(c, b, order))
  BY <1>3, <1>6, <1>7, Filling!FoldInduction
<1> QED
  BY <1>4, <1>5, <1>8 DEF FillingGood, r

-----------------------------------------------------------------------------
(* CANCEL_ALL: the open orders of the tracker, each once.                  *)

(* The cancellation of several orders as a fold.                           *)
CancelStep(c, s, id) == Sim!CancelOrder(s, id)

(* c = [w, ids, list].                                                     *)
CancelGood(c, k, s) ==
  /\ VenueInv(c.w, s)
  /\ DOMAIN s.resting \subseteq c.ids
  /\ \A j \in DOMAIN c.list : j <= k => c.list[j] \notin DOMAIN s.resting

Canceling == INSTANCE FoldFacts WITH Step <- CancelStep, Good <- CancelGood, Term <- Share

(* The loop over the ids as a fold.                                        *)
LEMMA CancelIsFold ==
  ASSUME NEW c, NEW s, NEW list
  PROVE  FoldLeft(Sim!CancelOrder, s, list) = Canceling!Fold(c, s, list)
  BY DEF FoldLeft, Canceling!Fold, MapThenFoldSet, Canceling!MapThenFoldSet,
         Max, Canceling!Max, CancelStep

(* Canceled orders do not rest.                                            *)
LEMMA CancelLeaves ==
  ASSUME NEW s, SimTyped(s), NEW id
  PROVE  DOMAIN Sim!CancelOrder(s, id).resting = DOMAIN s.resting \ {id}
<1> DEFINE r == Sim!CancelOrder(s, id)
           e == Sim!SimEvent("OrderCancel", id, s.resting[id].side, 0, 0, 0)
<1>1. CASE id \notin DOMAIN s.resting
  BY <1>1 DEF Sim!CancelOrder
<1>2. CASE id \in DOMAIN s.resting
  <2>1. Reports1(s, r, Sim!Without(s.resting, id), e)
    BY <1>2, CancelEffect
  <2> QED
    BY <2>1 DEF Reports1, Sim!Without
<1> QED
  BY <1>1, <1>2

(* One of them canceled.                                                   *)
LEMMA CancelKeeps ==
  ASSUME NEW c, NEW n \in Nat, DOMAIN c.list = 1 .. n, NEW k \in 1 .. n, NEW s, CancelGood(c, k - 1, s)
  PROVE  CancelGood(c, k, CancelStep(c, s, c.list[k]))
<1> DEFINE id == c.list[k]
           r == Sim!CancelOrder(s, id)
<1>1. /\ VenueInv(c.w, s) /\ DOMAIN s.resting \subseteq c.ids
      /\ \A j \in DOMAIN c.list : j <= k - 1 => c.list[j] \notin DOMAIN s.resting
  BY DEF CancelGood
<1>2. VenueInv(c.w, r)
  BY <1>1, VenueCancel
<1>3. DOMAIN r.resting = DOMAIN s.resting \ {id}
  BY <1>1, CancelLeaves DEF VenueInv, VenueBut
<1>4. \A j \in DOMAIN c.list : j <= k => j = k \/ j <= k - 1
  OBVIOUS
<1> HIDE DEF r
<1> QED
  BY <1>1, <1>2, <1>3, <1>4 DEF CancelGood, CancelStep, r

(* The sequence CANCEL_ALL goes through holds every open order.            *)
LEMMA Listed ==
  ASSUME NEW S, IsFiniteSet(S)
  PROVE  LET list == SetToSeq(S)
         IN  /\ DOMAIN list = 1 .. Cardinality(S) /\ Cardinality(S) \in Nat
             /\ \A x \in S : \E i \in DOMAIN list : list[i] = x
<1> DEFINE n == Cardinality(S)
           list == SetToSeq(S)
<1>1. n \in Nat
  BY FS_CardinalityType
<1>2. ExistsBijection(1 .. n, S)
  BY FS_CardinalityType
<1>3. PICK f : f \in Bijection(1 .. n, S)
  BY <1>2 DEF ExistsBijection
<1>4. f \in [1 .. n -> S] /\ IsInjective(f)
  BY <1>3 DEF Bijection, Injection
<1>5. list \in [1 .. n -> S] /\ IsInjective(list)
  BY <1>4 DEF SetToSeq
<1>6. IsFiniteSet(1 .. n) /\ Cardinality(1 .. n) = n
  <2>1. \A m \in Nat : IsFiniteSet(1 .. m) /\ Cardinality(1 .. m) = IF 1 > m THEN 0 ELSE m - 1 + 1
    BY FS_Interval
  <2> HIDE DEF n
  <2> QED
    BY <1>1, <2>1
<1> HIDE DEF list
<1>7. list \in Surjection(1 .. n, S)
  <2>1. list \in Injection(1 .. n, S)
    BY <1>5 DEF Injection
  <2> DEFINE T == 1 .. n
  <2>2. list \in Injection(T, S) /\ Cardinality(T) = Cardinality(S)
    BY <1>6, <2>1
  <2> HIDE DEF T
  <2>3. list \in Surjection(T, S)
    BY <2>2, FS_Injection
  <2> QED
    BY <2>3 DEF T
<1> QED
  BY <1>1, <1>5, <1>7 DEF Surjection, list

(* All of a finite set of orders canceled: none of them rests.             *)
LEMMA VenueCancelAll ==
  ASSUME NEW w, NEW s, VenueInv(w, s), NEW S, IsFiniteSet(S)
  PROVE  LET r == FoldLeft(Sim!CancelOrder, s, SetToSeq(S))
         IN  /\ VenueInv(w, r)
             /\ DOMAIN r.resting \subseteq DOMAIN s.resting
             /\ DOMAIN s.resting \subseteq S => DOMAIN r.resting = {}
<1> DEFINE list == SetToSeq(S)
           r == FoldLeft(Sim!CancelOrder, s, list)
           n == Cardinality(S)
           c == [w |-> w, ids |-> DOMAIN s.resting, list |-> list]
<1>1. DOMAIN list = 1 .. n /\ n \in Nat /\ \A x \in S : \E i \in DOMAIN list : list[i] = x
  BY Listed
<1>2. c.w = w /\ c.ids = DOMAIN s.resting /\ c.list = list
  OBVIOUS
<1>3. r = Canceling!Fold(c, s, list)
  BY CancelIsFold
<1> HIDE DEF c, n, r, list
<1>4. CancelGood(c, 0, s)
  BY <1>1, <1>2 DEF CancelGood
<1>5. \A k \in 1 .. n : \A q : CancelGood(c, k - 1, q) => CancelGood(c, k, CancelStep(c, q, list[k]))
  BY <1>1, <1>2, CancelKeeps
<1>6. CancelGood(c, n, Canceling!Fold(c, s, list))
  BY <1>1, <1>4, <1>5, Canceling!FoldInduction
<1> QED
  BY <1>1, <1>2, <1>3, <1>6 DEF CancelGood, r, list

-----------------------------------------------------------------------------
(* A new order: registered, acknowledged, matched, and put in its place.   *)

(* On its way: everything else is in place, and what is left of o is       *)
(* neither resting nor over.                                               *)
Submitting(w, s, o, remaining) ==
  /\ VenueBut(w, s, {o.id})
  /\ o.id \in DOMAIN w.requests /\ o.id \notin DOMAIN s.resting
  /\ remaining \in 0 .. o.qty
  /\ LET v == Seen(w, o.id, s.pending)
     IN  /\ OrderSound(o, v)
         /\ v.order.remaining_qty = remaining
         /\ v.order.state = IF remaining = 0 THEN "Filled"
                            ELSE IF remaining = o.qty THEN "Ack" ELSE "PartialFill"

(* x is w with the new order o.                                            *)
LEMMA Registered ==
  ASSUME NEW w, NEW s, VenueInv(w, s), NEW o, IsRequest(o), o.id \notin DOMAIN w.requests,
         NEW x,
         DOMAIN x.orders = DOMAIN w.orders \cup {o.id},
         x.orders[o.id] = Eng!NewOrder(o.side, o.qty, 0),
         \A id \in DOMAIN w.orders : x.orders[id] = w.orders[id],
         DOMAIN x.requests = DOMAIN w.requests \cup {o.id},
         x.requests[o.id] = o,
         \A id \in DOMAIN w.requests : x.requests[id] = w.requests[id],
         x.prices = w.prices
  PROVE  /\ VenueBut(x, s, {o.id})
         /\ o.id \notin DOMAIN s.resting
         /\ LET v == Seen(x, o.id, s.pending)
            IN  OrderSound(o, v) /\ v.order.state = "New" /\ v.order.remaining_qty = o.qty
                /\ v.order.filled_qty = 0
<1>1. /\ SimTyped(s) /\ DOMAIN w.orders = DOMAIN w.requests
      /\ DOMAIN w.prices \subseteq DOMAIN w.requests
      /\ \A id \in DOMAIN w.requests : IsRequest(w.requests[id])
      /\ DOMAIN s.resting \subseteq DOMAIN w.requests
      /\ \A i \in DOMAIN s.pending : s.pending[i].id \in DOMAIN w.requests
      /\ \A id \in DOMAIN w.requests : OrderGood(w.requests[id], s.resting, id, Seen(w, id, s.pending))
  BY DEF VenueInv, VenueBut
<1>2. \A id \in DOMAIN w.requests : Seen(x, id, s.pending) = Seen(w, id, s.pending)
  <2>1. \A id \in DOMAIN w.requests : ViewOf(x, id) = ViewOf(w, id)
    BY <1>1 DEF ViewOf
  <2> QED
    BY <2>1, SeenSame
<1>3. VenueBut(x, s, {o.id})
  BY <1>1, <1>2 DEF VenueBut
<1>4. Seen(x, o.id, s.pending) = ViewOf(x, o.id)
  <2>1. s.pending \in Seq(Reports)
    BY <1>1 DEF SimTyped
  <2>2. \A i \in DOMAIN s.pending : s.pending[i].id # o.id
    BY <1>1
  <2> QED
    BY <2>1, <2>2, SeenUntouched
<1> DEFINE n == Eng!NewOrder(o.side, o.qty, 0)
           v == ViewOf(x, o.id)
<1>5. v = [order |-> n, traded |-> {}]
  BY <1>1 DEF ViewOf
<1>6. o.side \in Sides /\ o.qty \in Nat
  BY DEF IsRequest, Requests
<1>7. /\ n \in Eng!LiveOrder /\ n.original_qty = o.qty /\ n.filled_qty = 0
      /\ n.remaining_qty = o.qty /\ n.state = "New"
  <2>1. n = [side |-> o.side, original_qty |-> o.qty, filled_qty |-> 0, remaining_qty |-> o.qty,
             state |-> "New", updated_at |-> 0]
    BY DEF Eng!NewOrder
  <2> HIDE DEF n
  <2>2. "New" \in Eng!OrderState
    BY DEF Eng!OrderState
  <2> QED
    BY <1>6, <2>1, <2>2 DEF Eng!LiveOrder
<1> HIDE DEF n, v
<1>8. OrderSound(o, v) /\ v.order = n
  BY <1>5, <1>6, <1>7 DEF OrderSound
<1> QED
  BY <1>1, <1>3, <1>4, <1>7, <1>8 DEF v

(* A report about the order on its way.                                    *)
LEMMA ReportedSelf ==
  ASSUME NEW w, NEW s, NEW o, VenueBut(w, s, {o.id}), o.id \in DOMAIN w.requests,
         NEW r, NEW e, Reports1(s, r, s.resting, e), e.id = o.id
  PROVE  /\ VenueBut(w, r, {o.id}) /\ r.resting = s.resting
         /\ Seen(w, o.id, r.pending) = ViewStep(Looking(w, o.id), Seen(w, o.id, s.pending), e)
<1>1. SimTyped(s) /\ s.pending \in Seq(Reports) /\ e \in Reports /\ r.resting = s.resting
      /\ r.pending = Append(s.pending, e) /\ DOMAIN s.resting \subseteq DOMAIN w.requests
  BY DEF VenueBut, SimTyped, Reports1
<1>2. Seen(w, o.id, r.pending) = ViewStep(Looking(w, o.id), Seen(w, o.id, s.pending), e)
  BY <1>1, SeenAppend
<1>3. e.id \in {o.id}
  OBVIOUS
<1> DEFINE X == {o.id}
<1>4. VenueBut(w, s, X) /\ e.id \in X
  BY <1>3
<1> HIDE DEF X
<1>5. VenueBut(w, r, X)
  BY <1>1, <1>4, ReportKept
<1> QED
  BY <1>1, <1>2, <1>5 DEF X

(* The order is acknowledged and on its way.                               *)
LEMMA Acknowledged ==
  ASSUME NEW w, NEW s, NEW o, IsRequest(o), VenueBut(w, s, {o.id}), o.id \in DOMAIN w.requests,
         o.id \notin DOMAIN s.resting,
         LET v == Seen(w, o.id, s.pending)
         IN  OrderSound(o, v) /\ v.order.state = "New" /\ v.order.remaining_qty = o.qty
  PROVE  LET r == Sim!Emit(s, "OrderAck", o.id, o.side)
         IN  /\ Submitting(w, r, o, o.qty)
             /\ r.resting = s.resting /\ r.bids = s.bids /\ r.asks = s.asks
<1> DEFINE v == Seen(w, o.id, s.pending)
           r == Sim!Emit(s, "OrderAck", o.id, o.side)
           e == Sim!SimEvent("OrderAck", o.id, o.side, 0, 0, 0)
           c == Looking(w, o.id)
           n == ViewStep(c, v, e)
<1>1. SimTyped(s) /\ o.id \in SimIds /\ o.side \in Sides /\ o.qty \in Nat \ {0}
  BY DEF VenueBut, IsRequest, Requests
<1>2. /\ Reports1(s, r, s.resting, e) /\ r.bids = s.bids /\ r.asks = s.asks
      /\ e.kind = "OrderAck" /\ e.id = o.id
  <2> DEFINE id == o.id
             side == o.side
  <2> HIDE DEF id, side, r, e
  <2>1. id \in SimIds /\ side \in Sides /\ r = Sim!Emit(s, "OrderAck", id, side)
        /\ e = Sim!SimEvent("OrderAck", id, side, 0, 0, 0)
    BY <1>1 DEF id, side, r, e
  <2>2. /\ Reports1(s, r, s.resting, e) /\ r.bids = s.bids /\ r.asks = s.asks
        /\ e.kind = "OrderAck" /\ e.id = id
    BY <1>1, <2>1, EmitEffect
  <2> QED
    BY <2>2 DEF id
<1>3. OrderSound(o, v) /\ v.order.state = "New" /\ v.order.remaining_qty = o.qty /\ c.id = o.id
  BY DEF Looking
<1> HIDE DEF v, r, e, c
<1>4. e \in Reports
  BY <1>2 DEF Reports1
<1>5. /\ OrderSound(o, n) /\ n.order.remaining_qty = o.qty /\ n.order.state = "Ack"
  <2>1. Eng!CanTransitionTo(v.order.state, "Ack")
    BY <1>3, Transitions
  <2> QED
    BY <1>2, <1>3, <1>4, <2>1, ViewMove
<1> HIDE DEF n
<1>6. VenueBut(w, r, {o.id}) /\ r.resting = s.resting /\ Seen(w, o.id, r.pending) = n
  BY <1>2, ReportedSelf DEF n, c, v
<1> QED
  BY <1>1, <1>2, <1>5, <1>6 DEF Submitting, r

-----------------------------------------------------------------------------
(* One level taken by the order on its way.                                *)
LEMMA TakerKeeps ==
  ASSUME NEW w, NEW o, IsRequest(o), NEW m, DOMAIN m = {"sim", "remaining"},
         Submitting(w, m.sim, o, m.remaining), NEW l, l.price \in Nat \ {0}, l.qty \in Nat \ {0},
         Sim!HasLimit(o) => Accepts(o.side, o.price, l.price)
  PROVE  LET r == Sim!TakerFill(m, o, l)
         IN  /\ DOMAIN r = {"sim", "remaining"}
             /\ Submitting(w, r.sim, o, r.remaining)
             /\ r.sim.resting = m.sim.resting
             /\ r.remaining = 0 \/ (m.remaining > l.qty /\ r.remaining = m.remaining - l.qty)
<1> DEFINE r == Sim!TakerFill(m, o, l)
           q == IF m.remaining <= l.qty THEN m.remaining ELSE l.qty
           e == Sim!SimEvent("OrderFill", o.id, o.side, l.price, q, Sim!Fee(l.price, q, TakerFeeBps))
           v == Seen(w, o.id, m.sim.pending)
           c == Looking(w, o.id)
           n == ViewStep(c, v, e)
<1>1. /\ VenueBut(w, m.sim, {o.id}) /\ SimTyped(m.sim) /\ o.id \in DOMAIN w.requests
      /\ o.id \notin DOMAIN m.sim.resting
      /\ m.remaining \in 0 .. o.qty /\ OrderSound(o, v) /\ v.order.remaining_qty = m.remaining
      /\ v.order.state = IF m.remaining = 0 THEN "Filled"
                         ELSE IF m.remaining = o.qty THEN "Ack" ELSE "PartialFill"
  BY DEF Submitting, VenueBut
<1>2. \/ m.remaining = 0 /\ r = m
      \/ /\ m.remaining > 0 /\ q \in 1 .. m.remaining
         /\ DOMAIN r = {"sim", "remaining"}
         /\ r.remaining = m.remaining - q
         /\ Reports1(m.sim, r.sim, m.sim.resting, e)
         /\ e.kind = "OrderFill" /\ e.id = o.id /\ e.side = o.side /\ e.price = l.price
         /\ e.qty = q
  <2>1. m.remaining \in Nat
    BY <1>1 DEF IsRequest, Requests
  <2> HIDE DEF r, q, e
  <2> QED
    BY <1>1, <2>1, TakerFillEffect DEF r, q, e
<1>3. c.id = o.id /\ o.qty \in Nat \ {0}
  BY DEF Looking, IsRequest, Requests
<1>4. q = m.remaining \/ (m.remaining > l.qty /\ q = l.qty)
  BY <1>1, <1>3
<1> HIDE DEF r, q, e, v, c
<1>5. CASE m.remaining = 0
  BY <1>2, <1>5 DEF r
<1>6. CASE m.remaining # 0
  <2>1. /\ q \in 1 .. m.remaining
        /\ DOMAIN r = {"sim", "remaining"}
        /\ r.remaining = m.remaining - q
        /\ Reports1(m.sim, r.sim, m.sim.resting, e)
        /\ e.kind = "OrderFill" /\ e.id = o.id /\ e.side = o.side /\ e.price = l.price
        /\ e.qty = q /\ e \in Reports
    BY <1>2, <1>6 DEF Reports1
  <2>2. v.order.state \in {"Ack", "PartialFill"} /\ e.qty <= v.order.remaining_qty
    BY <1>1, <1>6, <2>1
  <2>3. /\ OrderSound(o, n)
        /\ n.order.remaining_qty = v.order.remaining_qty - e.qty
        /\ n.order.state = IF n.order.remaining_qty = 0 THEN "Filled" ELSE "PartialFill"
    BY <1>1, <1>3, <2>1, <2>2, ViewFill
  <2> HIDE DEF n
  <2>4. /\ VenueBut(w, r.sim, {o.id}) /\ r.sim.resting = m.sim.resting
        /\ Seen(w, o.id, r.sim.pending) = n
    BY <1>1, <2>1, ReportedSelf DEF n, c, v
  <2>5. r.remaining \in 0 .. o.qty /\ r.remaining # o.qty
    BY <1>1, <1>3, <2>1
  <2>6. n.order.remaining_qty = r.remaining
    BY <1>1, <2>1, <2>3
  <2>7. Submitting(w, r.sim, o, r.remaining)
    BY <1>1, <2>3, <2>4, <2>5, <2>6 DEF Submitting
  <2>8. r.remaining = 0 \/ (m.remaining > l.qty /\ r.remaining = m.remaining - l.qty)
    BY <1>1, <1>3, <1>4, <2>1
  <2> QED
    BY <2>1, <2>4, <2>7, <2>8 DEF r
<1> QED
  BY <1>5, <1>6

-----------------------------------------------------------------------------
(* The levels one after the other.                                         *)

(* What the book offers within the limit, as a fold.                       *)
AvailStep(c, q, l) == q + l.qty

NoAvail(c, k, q) == TRUE

Availing == INSTANCE FoldFacts WITH Step <- AvailStep, Good <- NoAvail, Term <- Share

(* The quantity on offer as a fold.                                        *)
LEMMA AvailableIsFold ==
  ASSUME NEW s, NEW o
  PROVE  Sim!Available(s, o) = Availing!Fold(0, 0, Sim!Matching(s, o))
  BY DEF Sim!Available, Availing!Fold, Sim!FoldLeft,
         Sim!MapThenFoldSet, Availing!MapThenFoldSet, Sim!Max, Availing!Max, AvailStep

(* c = [w, o, resting, found]: found[k] is the quantity of k levels.       *)
MatchStep(c, m, l) == Sim!TakerFill(m, c.o, l)

(* After k levels the order is on its way with what they left of it.       *)
MatchGood(c, k, m) ==
  /\ DOMAIN m = {"sim", "remaining"}
  /\ Submitting(c.w, m.sim, c.o, m.remaining)
  /\ m.sim.resting = c.resting
  /\ c.found[k] \in Nat
  /\ m.remaining = 0 \/ c.found[k] + m.remaining = c.o.qty

Matching == INSTANCE FoldFacts WITH Step <- MatchStep, Good <- MatchGood, Term <- Share

(* The loop over the levels as a fold.                                     *)
LEMMA MatchIsFold ==
  ASSUME NEW c, NEW s
  PROVE  Sim!MatchOrder(s, c.o) =
           Matching!Fold(c, [sim |-> s, remaining |-> c.o.qty], Sim!Matching(s, c.o))
  BY DEF Sim!MatchOrder, Matching!Fold, Sim!FoldLeft,
         Sim!MapThenFoldSet, Matching!MapThenFoldSet, Sim!Max, Matching!Max, MatchStep

(* One level taken.                                                        *)
LEMMA MatchKeeps ==
  ASSUME NEW c, IsRequest(c.o), NEW n \in Nat, NEW k \in 1 .. n, NEW l,
         l.price \in Nat \ {0}, l.qty \in Nat \ {0},
         Sim!HasLimit(c.o) => Accepts(c.o.side, c.o.price, l.price),
         c.found[k] = c.found[k - 1] + l.qty,
         NEW m, MatchGood(c, k - 1, m)
  PROVE  MatchGood(c, k, MatchStep(c, m, l))
<1> DEFINE r == Sim!TakerFill(m, c.o, l)
           o == c.o
           f == c.found[k - 1]
           g == c.found[k]
<1>1. /\ DOMAIN m = {"sim", "remaining"}
      /\ Submitting(c.w, m.sim, o, m.remaining)
      /\ m.sim.resting = c.resting /\ f \in Nat
      /\ m.remaining = 0 \/ f + m.remaining = o.qty
  BY DEF MatchGood
<1>2. /\ DOMAIN r = {"sim", "remaining"}
      /\ Submitting(c.w, r.sim, o, r.remaining)
      /\ r.sim.resting = m.sim.resting
      /\ r.remaining = 0 \/ (m.remaining > l.qty /\ r.remaining = m.remaining - l.qty)
  <2> DEFINE w == c.w
  <2>1. IsRequest(o) /\ (Sim!HasLimit(o) => Accepts(o.side, o.price, l.price))
        /\ Submitting(w, m.sim, o, m.remaining) /\ r = Sim!TakerFill(m, o, l)
    BY <1>1
  <2> HIDE DEF r, w, o, f, g
  <2>2. LET z == Sim!TakerFill(m, o, l)
        IN  /\ DOMAIN z = {"sim", "remaining"}
            /\ Submitting(w, z.sim, o, z.remaining)
            /\ z.sim.resting = m.sim.resting
            /\ z.remaining = 0 \/ (m.remaining > l.qty /\ z.remaining = m.remaining - l.qty)
    BY <1>1, <2>1, TakerKeeps
  <2> QED
    BY <2>1, <2>2 DEF w
<1>3. m.remaining \in Nat /\ o.qty \in Nat /\ g = f + l.qty
  BY <1>1 DEF Submitting, IsRequest, Requests
<1> HIDE DEF r, o, f, g
<1>4. g \in Nat /\ (r.remaining = 0 \/ g + r.remaining = o.qty)
  BY <1>1, <1>2, <1>3
<1> QED
  BY <1>1, <1>2, <1>4 DEF MatchGood, MatchStep, r, o, g

(* With enough to be found, nothing of the order is left.                  *)
LEMMA Matched ==
  ASSUME NEW w, NEW s, NEW o, IsRequest(o), Submitting(w, s, o, o.qty)
  PROVE  LET m == Sim!MatchOrder(s, o)
         IN  /\ DOMAIN m = {"sim", "remaining"}
             /\ Submitting(w, m.sim, o, m.remaining)
             /\ m.sim.resting = s.resting
             /\ Sim!Available(s, o) \in Nat
             /\ Sim!Available(s, o) >= o.qty => m.remaining = 0
<1> DEFINE list == Sim!Matching(s, o)
           m == Sim!MatchOrder(s, o)
           base == [sim |-> s, remaining |-> o.qty]
<1>1. IsLevels(s.bids) /\ IsLevels(s.asks) /\ o.qty \in Nat \ {0}
  BY DEF Submitting, VenueBut, SimTyped, IsRequest, Requests
<1> HIDE DEF list
<1>2. PICK n \in Nat :
        /\ DOMAIN list = 1 .. n
        /\ \A i \in 1 .. n :
             /\ list[i].price \in Nat \ {0} /\ list[i].qty \in Nat \ {0}
             /\ Sim!HasLimit(o) => Sim!Accepts(o.side, o.price, list[i].price)
  BY <1>1, MatchingTyped DEF list
<1>3. PICK found : Availing!Run(found, 0, 0, list, n)
  BY <1>2, Availing!FoldSteps
<1>4. /\ found[0] = 0 /\ \A k \in 1 .. n : found[k] = found[k - 1] + list[k].qty
      /\ found[n] = Sim!Available(s, o)
  BY <1>3, AvailableIsFold DEF Availing!Run, AvailStep, list
<1> DEFINE c == [w |-> w, o |-> o, resting |-> s.resting, found |-> found]
<1>5. c.w = w /\ c.o = o /\ c.resting = s.resting /\ c.found = found
  OBVIOUS
<1> HIDE DEF c, m
<1>6. m = Matching!Fold(c, base, list)
  <2>1. Sim!MatchOrder(s, c.o) =
          Matching!Fold(c, [sim |-> s, remaining |-> c.o.qty], Sim!Matching(s, c.o))
    BY MatchIsFold
  <2> QED
    BY <1>5, <2>1 DEF m, list
<1>7. MatchGood(c, 0, base)
  <2>1. DOMAIN base = {"sim", "remaining"} /\ base.sim = s /\ base.remaining = o.qty
    OBVIOUS
  <2> HIDE DEF base
  <2> QED
    BY <1>1, <1>4, <1>5, <2>1 DEF MatchGood
<1> HIDE DEF base
<1>8. \A k \in 1 .. n : \A q : MatchGood(c, k - 1, q) => MatchGood(c, k, MatchStep(c, q, list[k]))
  <2> TAKE k \in 1 .. n
  <2> TAKE q
  <2> HAVE MatchGood(c, k - 1, q)
  <2>1. /\ list[k].price \in Nat \ {0} /\ list[k].qty \in Nat \ {0}
        /\ Sim!HasLimit(c.o) => Accepts(c.o.side, c.o.price, list[k].price)
    BY <1>2, <1>5, SameAccepts
  <2>2. c.found[k] = c.found[k - 1] + list[k].qty
    BY <1>4, <1>5
  <2>3. IsRequest(c.o)
    BY <1>5
  <2> DEFINE l == list[k]
  <2> HIDE DEF l
  <2> QED
    BY <2>1, <2>2, <2>3, MatchKeeps DEF l
<1>9. MatchGood(c, n, Matching!Fold(c, base, list))
  BY <1>2, <1>7, <1>8, Matching!FoldInduction
<1>10. MatchGood(c, n, m)
  BY <1>6, <1>9
<1>11. Sim!Available(s, o) >= o.qty => m.remaining = 0
  <2>1. m.remaining \in Nat /\ found[n] \in Nat /\ (m.remaining = 0 \/ found[n] + m.remaining = o.qty)
    BY <1>1, <1>5, <1>10 DEF MatchGood, Submitting
  <2> QED
    BY <1>1, <1>4, <2>1
<1> QED
  BY <1>4, <1>5, <1>10, <1>11 DEF MatchGood, m

-----------------------------------------------------------------------------
(* Registered and not yet acknowledged.                                    *)
Fresh(w, s, o) ==
  LET v == Seen(w, o.id, s.pending)
  IN  /\ OrderSound(o, v)
      /\ v.order.state = "New" /\ v.order.remaining_qty = o.qty /\ v.order.filled_qty = 0

(* May move to a last state, with its fills as they are.                   *)
Ends(w, s, o, to) ==
  LET v == Seen(w, o.id, s.pending)
  IN  /\ OrderSound(o, v) /\ Eng!CanTransitionTo(v.order.state, to)
      /\ o.tif = "FOK" => v.order.filled_qty \in {0, o.qty}

(* The new order is in its place.                                          *)
LEMMA Placed ==
  ASSUME NEW w, NEW r, NEW o, VenueBut(w, r, {o.id}), w.requests[o.id] = o,
         OrderGood(o, r.resting, o.id, Seen(w, o.id, r.pending))
  PROVE  VenueInv(w, r)
  BY DEF VenueBut, VenueInv

(* A report that ends the order.                                           *)
LEMMA EndedBy ==
  ASSUME NEW w, NEW s, NEW o, IsRequest(o), VenueBut(w, s, {o.id}), o.id \in DOMAIN w.requests,
         w.requests[o.id] = o, o.id \notin DOMAIN s.resting,
         NEW kind, NEW to,
         <<kind, to>> \in {<<"OrderCancel", "Canceled">>, <<"OrderReject", "Rejected">>},
         Ends(w, s, o, to)
  PROVE  LET r == Sim!Emit(s, kind, o.id, o.side)
         IN  VenueInv(w, r) /\ r.resting = s.resting
<1> DEFINE id == o.id
           side == o.side
           v == Seen(w, id, s.pending)
           r == Sim!Emit(s, kind, id, side)
           e == Sim!SimEvent(kind, id, side, 0, 0, 0)
           c == Looking(w, id)
           n == ViewStep(c, v, e)
<1>1. SimTyped(s) /\ id \in SimIds /\ side \in Sides
  BY DEF VenueBut, IsRequest, Requests
<1>2. kind \in {"OrderAck", "OrderCancel", "OrderReject"} /\ to \in Eng!Terminal
      /\ <<kind, to>> \in {<<"OrderAck", "Ack">>, <<"OrderCancel", "Canceled">>,
                           <<"OrderReject", "Rejected">>}
  BY DEF Eng!Terminal
<1>3. OrderSound(o, v) /\ Eng!CanTransitionTo(v.order.state, to)
      /\ (o.tif = "FOK" => v.order.filled_qty \in {0, o.qty}) /\ c.id = id
      /\ id \notin DOMAIN s.resting
  BY DEF Looking, Ends
<1> HIDE DEF id, side, v, r, e, c
<1>4. Reports1(s, r, s.resting, e) /\ e.kind = kind /\ e.id = id
  BY <1>1, <1>2, EmitEffect DEF r, e
<1>5. e \in Reports
  BY <1>4 DEF Reports1
<1>6. /\ OrderSound(o, n) /\ n.order.filled_qty = v.order.filled_qty /\ n.order.state = to
  BY <1>2, <1>3, <1>4, <1>5, ViewMove
<1> HIDE DEF n
<1>7. VenueBut(w, r, {id}) /\ r.resting = s.resting /\ Seen(w, id, r.pending) = n
  BY <1>4, ReportedSelf DEF n, c, v, id
<1>8. to # "New" /\ OrderGood(o, r.resting, id, n)
  <2>1. to # "New"
    BY <1>2 DEF Eng!Terminal
  <2> QED
    BY <1>2, <1>3, <1>6, <1>7, <2>1 DEF OrderGood
<1>9. VenueInv(w, r)
  BY <1>7, <1>8, Placed DEF id
<1> QED
  BY <1>7, <1>9 DEF r, id, side

(* submit_order.                                                           *)
LEMMA VenueSubmit ==
  ASSUME NEW w, NEW s, NEW o, IsRequest(o), VenueBut(w, s, {o.id}), o.id \in DOMAIN w.requests,
         w.requests[o.id] = o, o.id \notin DOMAIN s.resting,
         Fresh(w, s, o)
  PROVE  LET r == Sim!SubmitOrder(s, o)
         IN  /\ VenueInv(w, r)
             /\ DOMAIN r.resting \ {o.id} = DOMAIN s.resting
             /\ \A x \in DOMAIN s.resting : r.resting[x] = s.resting[x]
<1> DEFINE a == Sim!Emit(s, "OrderAck", o.id, o.side)
           m == Sim!MatchOrder(a, o)
           r == Sim!SubmitOrder(s, o)
           v == Seen(w, o.id, m.sim.pending)
<1>1. /\ Submitting(w, a, o, o.qty)
      /\ a.resting = s.resting /\ a.bids = s.bids /\ a.asks = s.asks
  BY Acknowledged DEF Fresh
<1>2. Sim!Available(a, o) = Sim!Available(s, o)
  <2> HIDE DEF a
  <2>1. Sim!Matching(a, o) = Sim!Matching(s, o)
    BY <1>1 DEF Sim!Matching, Sim!Liquidity
  <2> QED
    BY <2>1 DEF Sim!Available
<1> HIDE DEF a
<1>3. /\ DOMAIN m = {"sim", "remaining"}
      /\ Submitting(w, m.sim, o, m.remaining)
      /\ m.sim.resting = a.resting
      /\ Sim!Available(a, o) \in Nat
      /\ Sim!Available(a, o) >= o.qty => m.remaining = 0
  BY <1>1, Matched
<1>4. r = IF Sim!Unfillable(s, o) THEN Sim!Emit(s, "OrderReject", o.id, o.side)
          ELSE IF m.remaining > 0 /\ o.tif = "IOC" THEN Sim!Emit(m.sim, "OrderCancel", o.id, o.side)
          ELSE IF m.remaining > 0 /\ Sim!Rests(o) THEN Sim!Rest(m.sim, o, m.remaining)
          ELSE m.sim
  BY DEF Sim!SubmitOrder, a
<1> HIDE DEF m, r, v
<1>5. /\ VenueBut(w, m.sim, {o.id}) /\ SimTyped(m.sim) /\ o.id \notin DOMAIN m.sim.resting
      /\ m.remaining \in 0 .. o.qty /\ OrderSound(o, v) /\ v.order.remaining_qty = m.remaining
      /\ v.order.state = IF m.remaining = 0 THEN "Filled"
                         ELSE IF m.remaining = o.qty THEN "Ack" ELSE "PartialFill"
      /\ o.qty \in Nat \ {0} /\ v.order.filled_qty \in Nat
      /\ v.order.remaining_qty = o.qty - v.order.filled_qty
      /\ o.tif \in Sim!TimesInForce
  BY <1>3 DEF Submitting, VenueBut, v, IsRequest, Requests, OrderSound
<1>6. CASE Sim!Unfillable(s, o)
  <2>1. r = Sim!Emit(s, "OrderReject", o.id, o.side)
    BY <1>4, <1>6
  <2>2. Ends(w, s, o, "Rejected")
    BY Transitions DEF Ends, Fresh
  <2>3. VenueInv(w, r) /\ r.resting = s.resting
    BY <2>1, <2>2, EndedBy
  <2> QED
    BY <2>3 DEF r
<1>7. CASE ~Sim!Unfillable(s, o) /\ m.remaining > 0 /\ o.tif = "IOC"
  <2>1. r = Sim!Emit(m.sim, "OrderCancel", o.id, o.side)
    BY <1>4, <1>7
  <2>2. Eng!CanTransitionTo(v.order.state, "Canceled") /\ o.tif # "FOK"
    BY <1>5, <1>7, Transitions
  <2> DEFINE z == m.sim
  <2>3. /\ Ends(w, z, o, "Canceled") /\ VenueBut(w, z, {o.id}) /\ o.id \notin DOMAIN z.resting
        /\ r = Sim!Emit(z, "OrderCancel", o.id, o.side)
    BY <1>5, <2>1, <2>2 DEF v, Ends
  <2> HIDE DEF z
  <2>4. VenueInv(w, r) /\ r.resting = z.resting
    BY <2>3, EndedBy
  <2> QED
    BY <1>1, <1>3, <2>4 DEF r, z
<1>8. CASE ~Sim!Unfillable(s, o) /\ m.remaining > 0 /\ o.tif # "IOC" /\ Sim!Rests(o)
  <2>1. r = Sim!Rest(m.sim, o, m.remaining)
    BY <1>4, <1>8
  <2>2. /\ SimTyped(r) /\ r.pending = m.sim.pending
        /\ DOMAIN r.resting = DOMAIN m.sim.resting \cup {o.id}
        /\ r.resting[o.id] = [side |-> o.side, price |-> o.price, remaining |-> m.remaining]
        /\ \A id \in DOMAIN m.sim.resting \ {o.id} : r.resting[id] = m.sim.resting[id]
    <3>1. m.remaining \in Nat \ {0}
      BY <1>5, <1>8
    <3> DEFINE z == m.sim
               q == m.remaining
    <3>2. SimTyped(z) /\ q \in Nat \ {0} /\ r = Sim!Rest(z, o, q)
      BY <1>5, <2>1, <3>1
    <3> HIDE DEF z, q
    <3> QED
      BY <3>2, RestEffect DEF z, q
  <2>3. VenueBut(w, r, {o.id})
    <3>1. \A id \in DOMAIN w.requests \ {o.id} :
            OrderGood(w.requests[id], r.resting, id, Seen(w, id, r.pending))
      <4> TAKE id \in DOMAIN w.requests \ {o.id}
      <4>1. OrderGood(w.requests[id], m.sim.resting, id, Seen(w, id, m.sim.pending))
        BY <1>5 DEF VenueBut
      <4>2. (id \in DOMAIN r.resting <=> id \in DOMAIN m.sim.resting)
            /\ (id \in DOMAIN r.resting => r.resting[id] = m.sim.resting[id])
        BY <2>2
      <4> QED
        BY <2>2, <4>1, <4>2 DEF OrderGood
    <3> QED
      BY <1>5, <2>2, <3>1 DEF VenueBut
  <2>4. Seen(w, o.id, r.pending) = v
    BY <2>2 DEF v
  <2>5. OrderGood(o, r.resting, o.id, v)
    <3>1. v.order.state \in {"Ack", "PartialFill"}
      BY <1>5, <1>8
    <3>2. o.tif # "FOK"
      BY <1>8 DEF Sim!Rests
    <3>3. /\ o.id \in DOMAIN r.resting /\ r.resting[o.id].remaining = m.remaining
          /\ r.resting[o.id].side = o.side /\ r.resting[o.id].price = o.price
      BY <2>2
    <3>4. v.order.state # "New" /\ OrderSound(o, v) /\ v.order.remaining_qty = m.remaining
          /\ Sim!Rests(o)
      BY <1>5, <1>8, <3>1
    <3> QED
      BY <3>1, <3>2, <3>3, <3>4 DEF OrderGood
  <2>6. VenueInv(w, r)
    BY <2>3, <2>4, <2>5, Placed
  <2>7. DOMAIN r.resting \ {o.id} = DOMAIN s.resting
        /\ \A x \in DOMAIN s.resting : r.resting[x] = s.resting[x]
    BY <1>1, <1>3, <1>5, <2>2
  <2> QED
    BY <2>6, <2>7 DEF r
<1>9. CASE ~Sim!Unfillable(s, o) /\ ~(m.remaining > 0 /\ (o.tif = "IOC" \/ Sim!Rests(o)))
  <2>1. r = m.sim
    BY <1>4, <1>9
  <2>2. o.tif = "FOK" => m.remaining = 0
    BY <1>2, <1>3, <1>5, <1>9 DEF Sim!Unfillable
  <2>3. m.remaining # 0 => o.type # "Limit" /\ o.tif \in {"GTC", "GTD"}
    BY <1>5, <1>9, <2>2 DEF Sim!Rests, Sim!TimesInForce
  <2>4. OrderGood(o, r.resting, o.id, v)
    <3>1. m.remaining = 0 => v.order.filled_qty = o.qty
      <4> DEFINE f == v.order.filled_qty
                 q == o.qty
      <4>1. f \in Nat /\ q \in Nat /\ m.remaining = q - f
        BY <1>5
      <4> HIDE DEF f, q
      <4>2. m.remaining = 0 => f = q
        BY <4>1
      <4> QED
        BY <4>2 DEF f, q
    <3>2. v.order.state # "New" /\ (m.remaining = 0 => v.order.state \in Eng!Terminal)
      BY <1>5 DEF Eng!Terminal
    <3> QED
      BY <1>5, <2>1, <2>2, <2>3, <3>1, <3>2 DEF OrderGood
  <2>5. VenueInv(w, r)
    BY <1>5, <2>1, <2>4, Placed DEF v
  <2> QED
    BY <1>1, <1>3, <1>5, <2>1, <2>5 DEF r
<1> QED
  BY <1>6, <1>7, <1>8, <1>9

-----------------------------------------------------------------------------
(* Draining the reports: tracker and history end where Seen says.          *)

(* The first k reports are drained: st[id] are the views of order id.      *)
OrdersAsSeen(ids, st, k, os) ==
  /\ DOMAIN os = ids
  /\ \A id \in ids : os[id] = st[id][k].order

(* The prices each order traded at, after k reports.                       *)
PricesAsSeen(ids, st, k, h) ==
  /\ "prices" \in DOMAIN h
  /\ DOMAIN h.prices \subseteq ids
  /\ \A id \in ids : (IF id \in DOMAIN h.prices THEN h.prices[id] ELSE {}) = st[id][k].traded

(* The views of every order of w, report by report.                        *)
Views(w, pending, st) ==
  \A id \in DOMAIN w.requests :
    Viewing!Run(st[id], Looking(w, id), ViewOf(w, id), pending, Len(pending))

(* The views of every order after every number of reports.                 *)
LEMMA ViewsExist ==
  ASSUME NEW w, NEW p \in Seq(Reports)
  PROVE  \E st : Views(w, p, st)
<1> DEFINE n == Len(p)
           R(id, x) == Viewing!Run(x, Looking(w, id), ViewOf(w, id), p, n)
           st == [id \in DOMAIN w.requests |-> CHOOSE x : R(id, x)]
<1>1. n \in Nat /\ DOMAIN p = 1 .. n
  OBVIOUS
<1> HIDE DEF n
<1>2. \A id : \E x : R(id, x)
  BY <1>1, Viewing!FoldSteps
<1> HIDE DEF R
<1>3. \A id \in DOMAIN w.requests : R(id, st[id])
  BY <1>2
<1> QED
  BY <1>3 DEF Views, R, n

(* One report moves one order of the tracker.                              *)
LEMMA EngineOne ==
  ASSUME NEW os, NEW e \in Reports, e.id \in DOMAIN os
  PROVE  LET r == Eng!ProcessEvent(os, e)
         IN  /\ DOMAIN r = DOMAIN os
             /\ \A id \in DOMAIN os : r[id] = IF id = e.id THEN ProcessOne(os[id], e) ELSE os[id]
<1> DEFINE r == Eng!ProcessEvent(os, e)
           i == e.id
           G == DOMAIN r = DOMAIN os
                /\ \A id \in DOMAIN os : r[id] = IF id = i THEN ProcessOne(os[id], e) ELSE os[id]
<1>1. ASSUME e.kind = "OrderAck" PROVE G
  <2>1. r = Eng!OnAck(os, i, e.ts)
    BY <1>1 DEF Eng!ProcessEvent
  <2>2. r = IF Eng!CanTransitionTo(os[i].state, "Ack")
            THEN [os EXCEPT ![i] = [os[i] EXCEPT !.state = "Ack", !.updated_at = e.ts]] ELSE os
    BY <2>1 DEF Eng!OnAck, Eng!May
  <2>3. ProcessOne(os[i], e) = IF Eng!CanTransitionTo(os[i].state, "Ack")
            THEN [os[i] EXCEPT !.state = "Ack", !.updated_at = e.ts] ELSE os[i]
    BY <1>1 DEF ProcessOne
  <2> HIDE DEF r, i
  <2> QED
    BY <2>2, <2>3
<1>2. ASSUME e.kind = "OrderFill" PROVE G
  <2>1. r = Eng!OnFill(os, i, e.qty, e.ts)
    BY <1>2 DEF Eng!ProcessEvent
  <2>2. r = IF Eng!CanTransitionTo(os[i].state, Eng!FillTarget(os[i], e.qty))
            THEN [os EXCEPT ![i] = Eng!FillOrder(os[i], e.qty, e.ts)] ELSE os
    BY <2>1 DEF Eng!OnFill
  <2>3. ProcessOne(os[i], e) = IF Eng!CanTransitionTo(os[i].state, Eng!FillTarget(os[i], e.qty))
            THEN Eng!FillOrder(os[i], e.qty, e.ts) ELSE os[i]
    BY <1>2 DEF ProcessOne
  <2> HIDE DEF r, i
  <2> QED
    BY <2>2, <2>3
<1>3. ASSUME e.kind = "OrderCancel" PROVE G
  <2>1. r = Eng!OnCancel(os, i, e.ts)
    BY <1>3 DEF Eng!ProcessEvent
  <2>2. r = IF Eng!CanTransitionTo(os[i].state, "Canceled")
            THEN [os EXCEPT ![i] = [os[i] EXCEPT !.state = "Canceled", !.updated_at = e.ts]] ELSE os
    BY <2>1 DEF Eng!OnCancel, Eng!May
  <2>3. ProcessOne(os[i], e) = IF Eng!CanTransitionTo(os[i].state, "Canceled")
            THEN [os[i] EXCEPT !.state = "Canceled", !.updated_at = e.ts] ELSE os[i]
    BY <1>3 DEF ProcessOne
  <2> HIDE DEF r, i
  <2> QED
    BY <2>2, <2>3
<1>4. ASSUME e.kind = "OrderReject" PROVE G
  <2>1. r = Eng!OnReject(os, i, e.ts)
    BY <1>4 DEF Eng!ProcessEvent
  <2>2. r = IF Eng!CanTransitionTo(os[i].state, "Rejected")
            THEN [os EXCEPT ![i] = [os[i] EXCEPT !.state = "Rejected", !.updated_at = e.ts]] ELSE os
    BY <2>1 DEF Eng!OnReject, Eng!May
  <2>3. ProcessOne(os[i], e) = IF Eng!CanTransitionTo(os[i].state, "Rejected")
            THEN [os[i] EXCEPT !.state = "Rejected", !.updated_at = e.ts] ELSE os[i]
    BY <1>4 DEF ProcessOne
  <2> HIDE DEF r, i
  <2> QED
    BY <2>2, <2>3
<1>5. e.kind \in {"OrderAck", "OrderFill", "OrderCancel", "OrderReject"}
  BY DEF Reports
<1> HIDE DEF r
<1>6. G
  <2> HIDE DEF G
  <2> QED
    BY <1>1, <1>2, <1>3, <1>4, <1>5
<1> QED
  BY <1>6 DEF r

(* The tracker after one more report is the view after one more report.    *)
LEMMA OrdersStep ==
  ASSUME NEW w, NEW p \in Seq(Reports), NEW st, Views(w, p, st),
         NEW k \in 1 .. Len(p), NEW j, j = k - 1, p[k].id \in DOMAIN w.requests,
         NEW os, OrdersAsSeen(DOMAIN w.requests, st, j, os)
  PROVE  OrdersAsSeen(DOMAIN w.requests, st, k, Eng!ProcessEvent(os, p[k]))
<1> DEFINE e == p[k]
           r == Eng!ProcessEvent(os, e)
<1>1. e \in Reports /\ e.id \in DOMAIN os
  BY DEF OrdersAsSeen
<1> HIDE DEF e, r
<1>2. /\ DOMAIN r = DOMAIN os
      /\ \A id \in DOMAIN os : r[id] = IF id = e.id THEN ProcessOne(os[id], e) ELSE os[id]
  BY <1>1, EngineOne DEF r
<1>3. \A id \in DOMAIN w.requests : st[id][k] = ViewStep(Looking(w, id), st[id][k - 1], e)
  BY DEF Views, Viewing!Run, e
<1>4. \A id \in DOMAIN w.requests :
        st[id][k].order = IF id = e.id THEN ProcessOne(st[id][k - 1].order, e) ELSE st[id][k - 1].order
  <2> TAKE id \in DOMAIN w.requests
  <2> DEFINE v == st[id][k - 1]
             n == st[id][k]
  <2>1. n = ViewStep(Looking(w, id), v, e)
    BY <1>3
  <2> HIDE DEF v, n
  <2>2. n.order = IF id = e.id THEN ProcessOne(v.order, e) ELSE v.order
    <3>1. Looking(w, id).id = id
      BY DEF Looking
    <3> DEFINE o == ProcessOne(v.order, e)
    <3> HIDE DEF o
    <3>2. CASE id = e.id
      <4>1. n = [order |-> o, traded |-> IF e.kind = "OrderFill" THEN v.traded \cup {e.price} ELSE v.traded]
        BY <2>1, <3>1, <3>2 DEF ViewStep, o
      <4> QED
        BY <3>2, <4>1 DEF o
    <3>3. CASE id # e.id
      BY <2>1, <3>1, <3>3 DEF ViewStep
    <3> QED
      BY <3>2, <3>3
  <2> QED
    BY <2>2 DEF v, n
<1> QED
  BY <1>2, <1>4 DEF OrdersAsSeen, r, e

(* TradedIn changes the prices only.                                       *)
LEMMA TradedFrame ==
  ASSUME NEW h, "prices" \in DOMAIN h, NEW e
  PROVE  /\ DOMAIN TradedIn(h, e) = DOMAIN h
         /\ \A x \in DOMAIN h \ {"prices"} : TradedIn(h, e)[x] = h[x]
  BY DEF TradedIn, Traded

(* The prices after one more report are those of the view.                 *)
LEMMA PricesStep ==
  ASSUME NEW w, NEW p \in Seq(Reports), NEW st, Views(w, p, st),
         NEW k \in 1 .. Len(p), NEW j, j = k - 1, p[k].id \in DOMAIN w.requests,
         NEW h, PricesAsSeen(DOMAIN w.requests, st, j, h)
  PROVE  PricesAsSeen(DOMAIN w.requests, st, k, TradedIn(h, p[k]))
<1> DEFINE e == p[k]
           r == TradedIn(h, e)
           D == DOMAIN w.requests
           old(id) == IF id \in DOMAIN h.prices THEN h.prices[id] ELSE {}
<1>1. e.id \in D
  OBVIOUS
<1> HIDE DEF e
<1>2. \A id \in D : st[id][k] = ViewStep(Looking(w, id), st[id][k - 1], e)
  BY DEF Views, Viewing!Run, e
<1>3. \A id \in D :
        st[id][k].traded = IF id = e.id /\ e.kind = "OrderFill" THEN st[id][k - 1].traded \cup {e.price}
                           ELSE st[id][k - 1].traded
  <2> TAKE id \in D
  <2> DEFINE v == st[id][k - 1]
             n == st[id][k]
  <2>1. n = ViewStep(Looking(w, id), v, e)
    BY <1>2
  <2> HIDE DEF v, n
  <2>2. n.traded = IF id = e.id /\ e.kind = "OrderFill" THEN v.traded \cup {e.price} ELSE v.traded
    <3>1. Looking(w, id).id = id
      BY DEF Looking
    <3> DEFINE o == ProcessOne(v.order, e)
    <3> HIDE DEF o
    <3>2. CASE id = e.id
      <4>1. n = [order |-> o, traded |-> IF e.kind = "OrderFill" THEN v.traded \cup {e.price} ELSE v.traded]
        BY <2>1, <3>1, <3>2 DEF ViewStep, o
      <4> QED
        BY <3>2, <4>1 DEF o
    <3>3. CASE id # e.id
      BY <2>1, <3>1, <3>3 DEF ViewStep
    <3> QED
      BY <3>2, <3>3
  <2> QED
    BY <2>2 DEF v, n
<1>4. "prices" \in DOMAIN h /\ DOMAIN h.prices \subseteq D /\ \A id \in D : old(id) = st[id][k - 1].traded
  BY DEF PricesAsSeen
<1>5. CASE e.kind # "OrderFill"
  <2>1. r = h
    BY <1>5 DEF TradedIn, e
  <2> QED
    BY <1>3, <1>4, <1>5, <2>1 DEF PricesAsSeen, r, e
<1>6. CASE e.kind = "OrderFill"
  <2> DEFINE q == [id \in DOMAIN h.prices \cup {e.id} |->
                    (IF id \in DOMAIN h.prices THEN h.prices[id] ELSE {})
                       \cup (IF id = e.id THEN {e.price} ELSE {})]
  <2>1. r = [h EXCEPT !.prices = q]
    BY <1>6 DEF TradedIn, Traded, e
  <2>2. /\ DOMAIN q = DOMAIN h.prices \cup {e.id}
        /\ \A id \in DOMAIN q : q[id] = old(id) \cup (IF id = e.id THEN {e.price} ELSE {})
    OBVIOUS
  <2> HIDE DEF q, r
  <2>3. DOMAIN r = DOMAIN h /\ r.prices = q /\ \A x \in DOMAIN h \ {"prices"} : r[x] = h[x]
    BY <1>4, <2>1
  <2>4. \A id \in D : (IF id \in DOMAIN q THEN q[id] ELSE {}) = st[id][k].traded
    <3> TAKE id \in D
    <3>1. (IF id \in DOMAIN h.prices THEN h.prices[id] ELSE {}) = st[id][k - 1].traded
      BY <1>4
    <3>2. st[id][k].traded = IF id = e.id THEN st[id][k - 1].traded \cup {e.price}
                             ELSE st[id][k - 1].traded
      BY <1>3, <1>6
    <3>3. CASE id \in DOMAIN q
      BY <2>2, <3>1, <3>2, <3>3
    <3>4. CASE id \notin DOMAIN q
      BY <2>2, <3>1, <3>2, <3>4
    <3> QED
      BY <3>3, <3>4
  <2>5. DOMAIN q \subseteq D
    BY <1>1, <1>4, <2>2
  <2> QED
    BY <1>4, <2>3, <2>4, <2>5 DEF PricesAsSeen, r, e
<1> QED
  BY <1>5, <1>6

(* What the venue's invariant becomes once all reports are drained.        *)
LEMMA VenueDrained ==
  ASSUME NEW w, NEW s, VenueInv(w, s), NEW st, Views(w, s.pending, st),
         NEW x, OrdersAsSeen(DOMAIN w.requests, st, Len(s.pending), x.orders),
         NEW h, PricesAsSeen(DOMAIN w.requests, st, Len(s.pending), h), x.prices = h.prices,
         x.requests = w.requests
  PROVE  VenueInv(x, Sim!DrainEvents(s)) /\ Sim!DrainEvents(s).pending = <<>>
         /\ Sim!DrainEvents(s).resting = s.resting
<1> DEFINE r == Sim!DrainEvents(s)
           n == Len(s.pending)
           D == DOMAIN w.requests
<1>1. /\ SimTyped(s) /\ \A id \in D : IsRequest(w.requests[id])
      /\ DOMAIN s.resting \subseteq D
      /\ \A id \in D : OrderGood(w.requests[id], s.resting, id, Seen(w, id, s.pending))
  BY DEF VenueInv, VenueBut
<1>2. r = [s EXCEPT !.pending = <<>>]
  BY DEF Sim!DrainEvents
<1> HIDE DEF r
<1>3. /\ DOMAIN r = DOMAIN s /\ r.bids = s.bids /\ r.asks = s.asks
      /\ r.resting = s.resting /\ r.pending = <<>>
  BY <1>1, <1>2 DEF SimTyped
<1>4. SimTyped(r)
  <2>1. <<>> \in Seq(Reports)
    OBVIOUS
  <2> QED
    BY <1>1, <1>3, <2>1 DEF SimTyped
<1>5. \A id \in D : Seen(w, id, s.pending) = st[id][n]
  BY DEF Views, Viewing!Run, Seen
<1>6. \A id \in D : DOMAIN st[id][n] = {"order", "traded"}
  BY <1>1, <1>5 DEF OrderGood, OrderSound
<1>7. \A id \in D : ViewOf(x, id).order = st[id][n].order /\ ViewOf(x, id).traded = st[id][n].traded
  BY DEF ViewOf, OrdersAsSeen, PricesAsSeen
<1>8. \A id \in D : OrderGood(w.requests[id], s.resting, id, ViewOf(x, id))
  <2> TAKE id \in D
  <2> DEFINE v == ViewOf(x, id)
             z == Seen(w, id, s.pending)
  <2>1. OrderGood(w.requests[id], s.resting, id, z)
    BY <1>1
  <2>2. v.order = z.order /\ v.traded = z.traded
    BY <1>5, <1>7
  <2>3. DOMAIN v = {"order", "traded"}
    BY DEF ViewOf
  <2> HIDE DEF v, z
  <2>4. OrderGood(w.requests[id], s.resting, id, v)
    BY <2>1, <2>2, <2>3 DEF OrderGood, OrderSound
  <2> QED
    BY <2>4 DEF v
<1>9. \A id \in D : Seen(x, id, r.pending) = ViewOf(x, id)
  BY <1>3, SeenNothing
<1>10. DOMAIN x.orders = D /\ DOMAIN x.prices \subseteq D
  BY DEF OrdersAsSeen, PricesAsSeen
<1>11. VenueInv(x, r)
  BY <1>1, <1>3, <1>4, <1>8, <1>9, <1>10 DEF VenueInv, VenueBut
<1> QED
  BY <1>3, <1>11 DEF r

-----------------------------------------------------------------------------
(* The two folds that drain the reports of a direct call.                  *)

(* c = [ids, st, base]: the orders, their views, the history at first.     *)
TrackStep(c, os, e) == Eng!ProcessEvent(os, e)
TrackGood(c, k, os) == OrdersAsSeen(c.ids, c.st, k, os)
Tracking == INSTANCE FoldFacts WITH Step <- TrackStep, Good <- TrackGood, Term <- Share

(* The prices; what else the history holds stays.                          *)
PriceStep(c, h, e) == TradedIn(h, e)
PriceGood(c, k, h) ==
  /\ PricesAsSeen(c.ids, c.st, k, h)
  /\ DOMAIN h = DOMAIN c.base
  /\ \A x \in DOMAIN c.base \ {"prices"} : h[x] = c.base[x]
Pricing == INSTANCE FoldFacts WITH Step <- PriceStep, Good <- PriceGood, Term <- Share

(* The loop over the reports as a fold, for the tracker.                   *)
LEMMA TrackIsFold ==
  ASSUME NEW c, NEW os, NEW p
  PROVE  FoldLeft(Eng!ProcessEvent, os, p) = Tracking!Fold(c, os, p)
  BY DEF FoldLeft, Tracking!Fold, MapThenFoldSet, Tracking!MapThenFoldSet,
         Max, Tracking!Max, TrackStep

(* The loop over the reports as a fold, for the prices.                    *)
LEMMA PriceIsFold ==
  ASSUME NEW c, NEW h, NEW p
  PROVE  FoldLeft(TradedIn, h, p) = Pricing!Fold(c, h, p)
  BY DEF FoldLeft, Pricing!Fold, MapThenFoldSet, Pricing!MapThenFoldSet,
         Max, Pricing!Max, PriceStep

(* Before the first report.                                                *)
LEMMA AsSeenFirst ==
  ASSUME NEW w, NEW p, NEW st, Views(w, p, st), DOMAIN w.orders = DOMAIN w.requests,
         DOMAIN w.prices \subseteq DOMAIN w.requests,
         NEW h, "prices" \in DOMAIN h, h.prices = w.prices
  PROVE  /\ OrdersAsSeen(DOMAIN w.requests, st, 0, w.orders)
         /\ PricesAsSeen(DOMAIN w.requests, st, 0, h)
<1>1. \A id \in DOMAIN w.requests : st[id][0] = ViewOf(w, id)
  BY DEF Views, Viewing!Run
<1>2. \A id : /\ ViewOf(w, id).order = w.orders[id]
             /\ ViewOf(w, id).traded = IF id \in DOMAIN w.prices THEN w.prices[id] ELSE {}
  BY DEF ViewOf
<1> QED
  BY <1>1, <1>2 DEF OrdersAsSeen, PricesAsSeen

(* Once drained, tracker and history say of every order what was seen.     *)
LEMMA HarnessDrains ==
  ASSUME NEW w, NEW s, VenueInv(w, s), NEW h, "prices" \in DOMAIN h, h.prices = w.prices,
         h.requests = w.requests, "requests" \in DOMAIN h,
         NEW os, os = FoldLeft(Eng!ProcessEvent, w.orders, s.pending),
         NEW k, k = FoldLeft(TradedIn, h, s.pending)
  PROVE  /\ VenueInv([orders |-> os, prices |-> k.prices, requests |-> k.requests],
                     Sim!DrainEvents(s))
         /\ Sim!DrainEvents(s).pending = <<>>
         /\ DOMAIN k = DOMAIN h /\ \A x \in DOMAIN h \ {"prices"} : k[x] = h[x]
         /\ DOMAIN os = DOMAIN w.orders
<1> DEFINE p == s.pending
           n == Len(p)
           D == DOMAIN w.requests
<1>1. /\ p \in Seq(Reports) /\ DOMAIN w.orders = D /\ DOMAIN w.prices \subseteq D
      /\ \A i \in DOMAIN p : p[i].id \in D
  BY DEF VenueInv, VenueBut, SimTyped
<1> HIDE DEF p
<1>2. n \in Nat /\ DOMAIN p = 1 .. n
  BY <1>1
<1>3. PICK st : Views(w, p, st)
  BY <1>1, ViewsExist
<1> HIDE DEF D
<1>4. OrdersAsSeen(D, st, 0, w.orders) /\ PricesAsSeen(D, st, 0, h)
  BY <1>1, <1>3, AsSeenFirst DEF D
<1> DEFINE c == [ids |-> D, st |-> st, base |-> h]
<1>5. c.ids = D /\ c.st = st /\ c.base = h
  OBVIOUS
<1> HIDE DEF c, n
<1>6. OrdersAsSeen(D, st, n, os)
  <2>1. TrackGood(c, 0, w.orders)
    BY <1>4, <1>5 DEF TrackGood
  <2>2. \A j \in 1 .. n : \A q : TrackGood(c, j - 1, q) => TrackGood(c, j, TrackStep(c, q, p[j]))
    <3> TAKE j \in 1 .. n
    <3> TAKE q
    <3> HAVE TrackGood(c, j - 1, q)
    <3> DEFINE i == j - 1
    <3>1. OrdersAsSeen(D, st, i, q)
      BY <1>5 DEF TrackGood
    <3>2. p[j].id \in D /\ j \in 1 .. Len(p) /\ i = j - 1
      BY <1>1, <1>2 DEF n
    <3> HIDE DEF i
    <3>3. OrdersAsSeen(D, st, j, Eng!ProcessEvent(q, p[j]))
      BY <1>1, <1>3, <3>1, <3>2, OrdersStep DEF D
    <3> QED
      BY <1>5, <3>3 DEF TrackGood, TrackStep
  <2>3. TrackGood(c, n, Tracking!Fold(c, w.orders, p))
    BY <1>2, <2>1, <2>2, Tracking!FoldInduction
  <2> QED
    BY <1>5, <2>3, TrackIsFold DEF TrackGood, p
<1>7. /\ PricesAsSeen(D, st, n, k) /\ DOMAIN k = DOMAIN h
      /\ \A x \in DOMAIN h \ {"prices"} : k[x] = h[x]
  <2>1. PriceGood(c, 0, h)
    BY <1>4, <1>5 DEF PriceGood
  <2>2. \A j \in 1 .. n : \A q : PriceGood(c, j - 1, q) => PriceGood(c, j, PriceStep(c, q, p[j]))
    <3> TAKE j \in 1 .. n
    <3> TAKE q
    <3> HAVE PriceGood(c, j - 1, q)
    <3> DEFINE r == TradedIn(q, p[j])
    <3>1. PricesAsSeen(D, st, j - 1, q) /\ DOMAIN q = DOMAIN h
          /\ \A x \in DOMAIN h \ {"prices"} : q[x] = h[x]
      BY <1>5 DEF PriceGood
    <3>2. /\ PricesAsSeen(D, st, j, r) /\ DOMAIN r = DOMAIN q
          /\ \A x \in DOMAIN q \ {"prices"} : r[x] = q[x]
      <4> DEFINE i == j - 1
      <4>1. p[j].id \in D /\ j \in 1 .. Len(p) /\ i = j - 1 /\ PricesAsSeen(D, st, i, q)
        BY <1>1, <1>2, <3>1 DEF n
      <4> HIDE DEF i
      <4>2. PricesAsSeen(D, st, j, r)
        BY <1>1, <1>3, <4>1, PricesStep DEF D
      <4>3. "prices" \in DOMAIN q
        BY <3>1
      <4> QED
        BY <4>2, <4>3, TradedFrame
    <3> HIDE DEF r
    <3> QED
      BY <1>5, <3>1, <3>2 DEF PriceGood, PriceStep, r
  <2>3. PriceGood(c, n, Pricing!Fold(c, h, p))
    BY <1>2, <2>1, <2>2, Pricing!FoldInduction
  <2> QED
    BY <1>5, <2>3, PriceIsFold DEF PriceGood, p
<1> DEFINE x == [orders |-> os, prices |-> k.prices, requests |-> k.requests]
<1>8. x.orders = os /\ x.prices = k.prices /\ x.requests = w.requests
  <2>1. k["requests"] = h["requests"]
    BY <1>7
  <2> QED
    BY <2>1
<1> HIDE DEF x
<1>9. VenueInv(x, Sim!DrainEvents(s)) /\ Sim!DrainEvents(s).pending = <<>>
  BY <1>3, <1>6, <1>7, <1>8, VenueDrained DEF p, n, D
<1> QED
  BY <1>1, <1>6, <1>7, <1>9 DEF x, OrdersAsSeen

-----------------------------------------------------------------------------
(* The exchange and the tracker between two inputs.                        *)

(* What the proofs about the exchange look at of the caller.               *)
World == [orders |-> orders, prices |-> hist.prices, requests |-> hist.requests]

(* Ids are minted in order.                                                *)
IdsBelow(os, next) ==
  /\ next \in Nat \ {0}
  /\ IsFiniteSet(DOMAIN os)
  /\ \A id \in DOMAIN os : \E k \in Nat : k < next /\ id = <<"Simulated", k>>

(* Between two calls: nothing is undelivered, every order is in its place. *)
VenueState ==
  /\ IdsBelow(orders, next_local_id)
  /\ DOMAIN hist = DOMAIN NoHistory
  /\ sim.pending = <<>>
  /\ VenueInv(World, sim)

(* It holds at first.                                                      *)
LEMMA VenueInit ==
  ASSUME Init
  PROVE  VenueState
<1>1. orders = [id \in {} |-> 0] /\ next_local_id = 1 /\ sim = Sim!NewExchange /\ hist = NoHistory
  BY DEF Init
<1>2. DOMAIN orders = {} /\ hist.requests = [id \in {} |-> 0] /\ hist.prices = [id \in {} |-> {}]
  BY <1>1 DEF NoHistory
<1>3. IdsBelow(orders, next_local_id)
  BY <1>1, <1>2, FS_EmptySet DEF IdsBelow
<1>4. SimTyped(sim) /\ sim.pending = <<>> /\ DOMAIN sim.resting = {}
  <2>1. /\ sim.resting = [id \in {} |-> 0] /\ sim.pending = <<>> /\ sim.bids = Sim!NoLevels
        /\ sim.asks = Sim!NoLevels /\ DOMAIN sim = {"bids", "asks", "resting", "pending"}
    BY <1>1 DEF Sim!NewExchange, Sim!NoOrders
  <2>2. DOMAIN sim.resting = {} /\ sim.resting \in [{} -> Resting]
    BY <2>1
  <2>3. sim.pending \in Seq(Reports)
    BY <2>1
  <2> QED
    BY <2>1, <2>2, <2>3, NoLevelsTyped, FS_EmptySet DEF SimTyped
<1>5. VenueInv(World, sim)
  BY <1>2, <1>4 DEF VenueInv, VenueBut, World
<1> QED
  BY <1>1, <1>3, <1>4, <1>5 DEF VenueState

(* Whatever a direct call made of the exchange, its reports are drained.   *)
LEMMA HarnessStepKeeps ==
  ASSUME VenueState, NEW x, HarnessStep(x), IdsBelow(x.orders, x.next),
         VenueInv([orders |-> x.orders, prices |-> hist.prices, requests |-> x.requests], x.sim)
  PROVE  VenueState'
<1> DEFINE w == [orders |-> x.orders, prices |-> hist.prices, requests |-> x.requests]
           h == [hist EXCEPT !.requests = x.requests]
           s == x.sim
<1>1. /\ sim' = Sim!DrainEvents(s) /\ next_local_id' = x.next
      /\ orders' = FoldLeft(Eng!ProcessEvent, x.orders, s.pending)
      /\ hist' = FoldLeft(TradedIn, h, s.pending)
  BY DEF HarnessStep
<1>2. w.orders = x.orders /\ w.prices = hist.prices /\ w.requests = x.requests /\ VenueInv(w, s)
  OBVIOUS
<1>3. DOMAIN hist = DOMAIN NoHistory /\ {"prices", "requests"} \subseteq DOMAIN NoHistory
  BY DEF VenueState, NoHistory
<1>4. DOMAIN h = DOMAIN hist /\ h.prices = hist.prices /\ h.requests = x.requests
  BY <1>3
<1> HIDE DEF w, h, s
<1>5. /\ VenueInv([orders |-> orders', prices |-> hist'.prices, requests |-> hist'.requests], sim')
      /\ sim'.pending = <<>> /\ DOMAIN hist' = DOMAIN h /\ DOMAIN orders' = DOMAIN w.orders
  <2> DEFINE os == orders'
             k == hist'
  <2>1. os = FoldLeft(Eng!ProcessEvent, w.orders, s.pending) /\ k = FoldLeft(TradedIn, h, s.pending)
    BY <1>1, <1>2
  <2> HIDE DEF os, k
  <2>2. /\ VenueInv([orders |-> os, prices |-> k.prices, requests |-> k.requests],
                    Sim!DrainEvents(s))
        /\ Sim!DrainEvents(s).pending = <<>> /\ DOMAIN k = DOMAIN h /\ DOMAIN os = DOMAIN w.orders
    BY <1>2, <1>3, <1>4, <2>1, HarnessDrains
  <2> QED
    BY <1>1, <2>2 DEF os, k
<1>6. VenueInv(World', sim')
  BY <1>5 DEF World
<1>7. IdsBelow(orders', next_local_id')
  BY <1>1, <1>2, <1>5 DEF IdsBelow
<1> QED
  BY <1>3, <1>4, <1>5, <1>6, <1>7 DEF VenueState, NoHistory

-----------------------------------------------------------------------------
(* The direct calls.                                                       *)

(* A book update keeps it.                                                 *)
LEMMA HarnessUpdateKeeps ==
  ASSUME VenueState, NEW u \in HarnessUpdates, HarnessBookUpdate(u)
  PROVE  VenueState'
<1>1. PICK order \in SetToSeqs(DOMAIN sim.resting) :
        HarnessStep(HarnessState(Sim!OnBookUpdate(sim, u, order)))
  BY DEF HarnessBookUpdate
<1>2. u \in Updates
  BY InputAssumption DEF InputAssumption
<1> DEFINE s == Sim!OnBookUpdate(sim, u, order)
           x == HarnessState(s)
<1>3. VenueInv(World, sim) /\ IdsBelow(orders, next_local_id)
  BY DEF VenueState
<1>4. VenueInv(World, s)
  <2> DEFINE w == World
             b == sim
  <2> HIDE DEF w, b
  <2>1. VenueInv(w, b) /\ order \in SetToSeqs(DOMAIN b.resting)
    BY <1>3 DEF w, b
  <2>2. LET r == Sim!OnBookUpdate(b, u, order) IN VenueInv(w, r) /\ DOMAIN r.resting \subseteq DOMAIN b.resting
    BY <1>2, <2>1, VenueOnBook
  <2> QED
    BY <2>2 DEF w, b
<1>5. x.sim = s /\ x.orders = orders /\ x.next = next_local_id /\ x.requests = hist.requests
  BY DEF HarnessState
<1>6. HarnessStep(x)
  BY <1>1
<1> HIDE DEF x, s
<1>7. VenueInv([orders |-> x.orders, prices |-> hist.prices, requests |-> x.requests], x.sim)
  BY <1>4, <1>5 DEF World
<1>8. IdsBelow(x.orders, x.next)
  BY <1>3, <1>5
<1> QED
  BY <1>6, <1>7, <1>8, HarnessStepKeeps

(* A cancellation keeps it.                                                *)
LEMMA HarnessCancelKeeps ==
  ASSUME VenueState, NEW id, HarnessCancel(id)
  PROVE  VenueState'
<1> DEFINE s == Sim!CancelOrder(sim, id)
           x == HarnessState(s)
<1>1. VenueInv(World, sim) /\ IdsBelow(orders, next_local_id)
  BY DEF VenueState
<1>2. VenueInv(World, s)
  BY <1>1, VenueCancel
<1>3. x.sim = s /\ x.orders = orders /\ x.next = next_local_id /\ x.requests = hist.requests
  BY DEF HarnessState
<1>4. HarnessStep(x)
  BY DEF HarnessCancel
<1> HIDE DEF x, s
<1>5. VenueInv([orders |-> x.orders, prices |-> hist.prices, requests |-> x.requests], x.sim)
  BY <1>2, <1>3 DEF World
<1>6. IdsBelow(x.orders, x.next)
  BY <1>1, <1>3
<1> QED
  BY <1>4, <1>5, <1>6, HarnessStepKeeps

(* A fresh id, registered and submitted.                                   *)
LEMMA SubmitKeeps ==
  ASSUME NEW x, NEW prices,
         VenueInv([orders |-> x.orders, prices |-> prices, requests |-> x.requests], x.sim),
         IdsBelow(x.orders, x.next),
         NEW o, IsRequest(o), o.id = <<"Simulated", x.next>>
  PROVE  LET r == Submit(x, o)
         IN  /\ VenueInv([orders |-> r.orders, prices |-> prices, requests |-> r.requests], r.sim)
             /\ IdsBelow(r.orders, r.next)
             /\ DOMAIN r.sim.resting \ {o.id} = DOMAIN x.sim.resting
             /\ \A id \in DOMAIN x.sim.resting : r.sim.resting[id] = x.sim.resting[id]
             /\ r.sim = Sim!SubmitOrder(x.sim, o) /\ r.next = x.next + 1
             /\ DOMAIN r.requests = DOMAIN x.requests \cup {o.id}
             /\ r.requests[o.id] = o /\ \A id \in DOMAIN x.requests : r.requests[id] = x.requests[id]
<1> DEFINE r == Submit(x, o)
           w == [orders |-> x.orders, prices |-> prices, requests |-> x.requests]
           v == [orders |-> r.orders, prices |-> prices, requests |-> r.requests]
           n == Eng!NewOrder(o.side, o.qty, 0)
           i == o.id
           s == x.sim
           t == r.sim
<1>1. w.orders = x.orders /\ w.prices = prices /\ w.requests = x.requests /\ VenueInv(w, s)
  OBVIOUS
<1>2. v.orders = r.orders /\ v.prices = prices /\ v.requests = r.requests
  OBVIOUS
<1>3. /\ r.sim = Sim!SubmitOrder(x.sim, o) /\ r.next = x.next + 1
      /\ r.requests = [id \in DOMAIN x.requests \cup {i} |-> IF id = i THEN o ELSE x.requests[id]]
      /\ r.orders = Eng!ProcessEvent(x.orders, [kind |-> "OrderNew", id |-> i, side |-> o.side,
                                                qty |-> o.qty, ts |-> 0])
  BY DEF Submit
<1> HIDE DEF w, v, r
<1>4. DOMAIN x.orders = DOMAIN x.requests
  BY <1>1 DEF VenueInv, VenueBut
<1>5. i \notin DOMAIN x.orders /\ x.next \in Nat \ {0}
  <2>1. x.next \in Nat \ {0} /\ \A id \in DOMAIN x.orders : \E k \in Nat : k < x.next /\ id = <<"Simulated", k>>
    BY DEF IdsBelow
  <2>2. \A k \in Nat : k < x.next => k # x.next
    BY <2>1
  <2> QED
    BY <2>1, <2>2
<1>6. r.orders = [id \in DOMAIN x.orders \cup {i} |-> IF id = i THEN n ELSE x.orders[id]]
  <2> DEFINE e == [kind |-> "OrderNew", id |-> i, side |-> o.side, qty |-> o.qty, ts |-> 0]
  <2>1. e.kind = "OrderNew" /\ e.id = i /\ e.side = o.side /\ e.qty = o.qty /\ e.ts = 0
    OBVIOUS
  <2> HIDE DEF e
  <2>2. Eng!ProcessEvent(x.orders, e) = Eng!RegisterOrder(x.orders, i, n)
    BY <2>1 DEF Eng!ProcessEvent
  <2>3. r.orders = Eng!RegisterOrder(x.orders, i, n)
    BY <1>3, <2>2 DEF e
  <2> HIDE DEF n
  <2> QED
    BY <1>5, <2>3 DEF Eng!RegisterOrder
<1>7. /\ DOMAIN v.orders = DOMAIN w.orders \cup {i} /\ v.orders[i] = n
      /\ \A id \in DOMAIN w.orders : v.orders[id] = w.orders[id]
  <2> HIDE DEF n
  <2> QED
    BY <1>1, <1>2, <1>5, <1>6
<1>8. /\ DOMAIN v.requests = DOMAIN w.requests \cup {i} /\ v.requests[i] = o
      /\ \A id \in DOMAIN w.requests : v.requests[id] = w.requests[id]
  BY <1>1, <1>2, <1>3, <1>4, <1>5
<1>9. v.prices = w.prices /\ i \notin DOMAIN w.requests
  BY <1>1, <1>2, <1>4, <1>5
<1> HIDE DEF s
<1>10. VenueBut(v, s, {o.id}) /\ o.id \notin DOMAIN s.resting /\ Fresh(v, s, o)
  <2>1. /\ VenueInv(w, s) /\ IsRequest(o) /\ o.id \notin DOMAIN w.requests
    BY <1>1, <1>9
  <2>2. /\ DOMAIN v.orders = DOMAIN w.orders \cup {o.id}
        /\ v.orders[o.id] = Eng!NewOrder(o.side, o.qty, 0)
        /\ \A id \in DOMAIN w.orders : v.orders[id] = w.orders[id]
    BY <1>1, <1>7
  <2>3. /\ DOMAIN v.requests = DOMAIN w.requests \cup {o.id} /\ v.requests[o.id] = o
        /\ \A id \in DOMAIN w.requests : v.requests[id] = w.requests[id]
        /\ v.prices = w.prices
    BY <1>1, <1>8, <1>9
  <2> HIDE DEF i, n, t
  <2> QED
    BY <2>1, <2>2, <2>3, Registered DEF Fresh
<1>11. o.id \in DOMAIN v.requests /\ v.requests[o.id] = o
  BY <1>8
<1>12. /\ VenueInv(v, Sim!SubmitOrder(s, o))
       /\ DOMAIN Sim!SubmitOrder(s, o).resting \ {o.id} = DOMAIN s.resting
       /\ \A y \in DOMAIN s.resting : Sim!SubmitOrder(s, o).resting[y] = s.resting[y]
  BY <1>10, <1>11, VenueSubmit
<1>13. IdsBelow(r.orders, r.next)
  <2> DEFINE D == DOMAIN x.orders
             m == x.next
  <2>1. IsFiniteSet(D) /\ m \in Nat \ {0} /\ \A id \in D : \E k \in Nat : k < m /\ id = <<"Simulated", k>>
    BY DEF IdsBelow
  <2>2. DOMAIN r.orders = D \cup {i} /\ i = <<"Simulated", m>> /\ r.next = m + 1
    BY <1>3, <1>6
  <2> HIDE DEF D, m, i
  <2>3. IsFiniteSet(D \cup {i})
    BY <2>1, FS_AddElement
  <2>4. m + 1 \in Nat \ {0} /\ m < m + 1 /\ \A k \in Nat : k < m => k < m + 1
    BY <2>1
  <2> QED
    BY <2>1, <2>2, <2>3, <2>4 DEF IdsBelow
<1> QED
  BY <1>1, <1>2, <1>3, <1>8, <1>12, <1>13 DEF v, w, s, r

(* A new order keeps it.                                                   *)
LEMMA HarnessSubmitKeeps ==
  ASSUME VenueState, NEW o \in HarnessOrders, HarnessSubmit(o)
  PROVE  VenueState'
<1> DEFINE i == Eng!LocalOrderId("Simulated", next_local_id)
           q == [o EXCEPT !.id = i]
           x == HarnessState(sim)
           r == Submit(x, q)
<1>1. VenueInv(World, sim) /\ IdsBelow(orders, next_local_id) /\ next_local_id \in Nat
  BY DEF VenueState, IdsBelow
<1>2. i = <<"Simulated", next_local_id>> /\ i \in SimIds
  BY <1>1 DEF Eng!LocalOrderId, SimIds
<1>3. o \in Sim!Orders
  BY HarnessAssumption DEF HarnessAssumption
<1> HIDE DEF i
<1>4. q.id = i /\ IsRequest(q)
  BY <1>2, <1>3, SimSets DEF Sim!Orders, IsRequest, Requests
<1>5. x.sim = sim /\ x.orders = orders /\ x.next = next_local_id /\ x.requests = hist.requests
  BY DEF HarnessState
<1>6. HarnessStep(r)
  BY DEF HarnessSubmit, i
<1> HIDE DEF x, q
<1>7. VenueInv([orders |-> x.orders, prices |-> hist.prices, requests |-> x.requests], x.sim)
  BY <1>1, <1>5 DEF World
<1>8. IdsBelow(x.orders, x.next) /\ q.id = <<"Simulated", x.next>>
  BY <1>1, <1>2, <1>4, <1>5
<1> DEFINE prices == hist.prices
<1> HIDE DEF prices
<1>9. /\ VenueInv([orders |-> r.orders, prices |-> prices, requests |-> r.requests], r.sim)
      /\ IdsBelow(r.orders, r.next)
  BY <1>4, <1>7, <1>8, SubmitKeeps DEF prices
<1> HIDE DEF r
<1> QED
  BY <1>6, <1>9, HarnessStepKeeps DEF prices
=============================================================================
