--------------------------- MODULE BacktestProofs ---------------------------
(***************************************************************************)
(* The backtest, where the hot path quotes on the simulated exchange and a *)
(* ledger books its fills; the invariant of all three modes of Trading;    *)
(* and what follows from it of the properties the runs check.              *)
(***************************************************************************)
EXTENDS TradingProofs

-----------------------------------------------------------------------------
(* One fill in the books of the backtest.                                  *)

(* A fill the exchange reports.                                            *)
IsFill(f) == f.side \in Sides /\ f.price \in Nat /\ f.qty \in Nat /\ f.fee \in Int

(* The sign of a side, here and inside the instances.                      *)
LEMMA SignOf ==
  ASSUME NEW side \in Sides
  PROVE  /\ Sign(side) = IF side = "Buy" THEN 1 ELSE -1
         /\ Acc!Sign(side) = Sign(side) /\ HP!Sign(side) = Sign(side)
         /\ side = "Buy" \/ side = "Sell"
  BY DEF Sides, Sign, Acc!Sign, HP!Sign

(* The backtest does not divide a value.                                   *)
LEMMA ValueNat ==
  ASSUME NEW price \in Nat, NEW qty \in Nat
  PROVE  /\ Acc!Value(Acc!BacktestUnit, price, qty) \in Nat
         /\ Acc!Value(Acc!BacktestUnit, price, 0) = 0
  BY SMT DEF Acc!Value, Acc!BacktestUnit

(* The part of the cost basis of a short that leaves with a part of it.    *)
LEMMA ShortEntry ==
  ASSUME NEW c \in Int, c <= 0, NEW p \in Int, p < 0, NEW n \in Nat, n <= -p
  PROVE  Acc!Quot(c * n, p) \in 0 .. -c
<1> DEFINE a == -c
           d == -p
           x == a * n
<1>1. a \in Nat /\ d \in Nat \ {0} /\ n <= d
  OBVIOUS
<1>2. x \in Nat /\ c * n = -x
  BY <1>1, SMT
<1>3. x <= a * d
  <2>1. n * a <= d * a
    BY <1>1, Grows
  <2>2. n * a = a * n /\ d * a = a * d
    BY <1>1
  <2> QED
    BY <2>1, <2>2
<1>4. x \div d \in 0 .. a
  BY <1>1, <1>2, <1>3, DivBetween
<1> DEFINE z == c * n
<1>5. Acc!Quot(z, p) = x \div d
  <2>1. z \in Int /\ z + x = 0
    BY <1>2
  <2> HIDE DEF x, z
  <2>2. CASE x = 0
    <3>1. z = 0 /\ ~(p > 0)
      BY <1>2, <2>1, <2>2
    <3>2. 0 \div d = 0
      <4>1. (0 * d) \div d = 0 /\ 0 * d = 0
        BY <1>1, ExactDivision
      <4> QED
        BY <4>1
    <3>3. Acc!Quot(0, p) = -(0 \div (-p))
      BY <3>1 DEF Acc!Quot
    <3>4. Acc!Quot(0, p) = 0
      BY <3>2, <3>3
    <3> QED
      BY <2>2, <3>1, <3>2, <3>4
  <2>3. CASE x > 0
    <3>1. ~(z >= 0) /\ ~(p > 0) /\ -z = x
      BY <1>2, <2>1, <2>3
    <3>2. Acc!Quot(z, p) = x \div (-p)
      BY <3>1 DEF Acc!Quot
    <3> QED
      BY <3>2
  <2> QED
    BY <1>2, <2>2, <2>3
<1> HIDE DEF x
<1> QED
  BY <1>4, <1>5 DEF a, z

(* Opening and closing in terms of Update.                                 *)
LEMMA BacktestUpdates1 ==
  ASSUME NEW l \in Acc!Books, NEW f, IsFill(f)
  PROVE  /\ Acc!OpenPosition(l, f, Acc!BacktestUnit)
              = Update(l, NewPosition(l, f),
                       l.cost_basis + Sign(f.side) * Acc!Value(Acc!BacktestUnit, f.price, f.qty),
                       l.realized_pnl)
         /\ LET closed == Acc!Min({f.qty, l.position_qty})
                opened == f.qty - closed
            IN  Acc!CloseLong(l, f, Acc!BacktestUnit)
                  = Update(l, NewPosition(l, f),
                           IF opened > 0 THEN -Acc!Value(Acc!BacktestUnit, f.price, opened)
                           ELSE l.cost_basis - Acc!EntryValue(l, closed),
                           l.realized_pnl + Acc!Value(Acc!BacktestUnit, f.price, closed)
                             - Acc!EntryValue(l, closed))
         /\ LET closed == Acc!Min({f.qty, -l.position_qty})
                opened == f.qty - closed
                cost == -Acc!EntryValue(l, closed)
            IN  Acc!CloseShortBacktest(l, f)
                  = Update(l, NewPosition(l, f),
                           IF opened > 0 THEN Acc!Value(Acc!BacktestUnit, f.price, opened)
                           ELSE l.cost_basis - cost,
                           l.realized_pnl + Acc!Magnitude(cost)
                             - Acc!Value(Acc!BacktestUnit, f.price, closed))
  BY SignOf DEF IsFill, Acc!OpenPosition, Acc!CloseLong, Acc!CloseShortBacktest, Acc!Move, Update,
                NewPosition, Acc!Books

(* The books of the backtest: the realized PnL is the cash and the cost    *)
(* basis, a flat position has cost nothing and a short one less than that. *)
Solvent(l, cash) ==
  /\ l \in Acc!Books
  /\ cash \in Int
  /\ l.realized_pnl = cash + l.cost_basis
  /\ l.position_qty = 0 => l.cost_basis = 0
  /\ l.position_qty < 0 => l.cost_basis <= 0

(* The cash a fill moves.                                                  *)
Money(l, f) == FillCash(l, f, Acc!BacktestUnit)

(* A fill that opens or adds: basis, cash and fees move together.          *)
LEMMA OpenSolvent ==
  ASSUME NEW l, NEW cash, Solvent(l, cash), NEW f, IsFill(f), Acc!Opens(l, f.side)
  PROVE  LET t == Acc!TradeBacktest(l, f)
         IN  Money(l, f) \in Int /\ Solvent(t, cash + Money(l, f) + f.fee)
             /\ t.position_qty = NewPosition(l, f)
<1> DEFINE t == Acc!TradeBacktest(l, f)
           V(qty) == Acc!Value(Acc!BacktestUnit, f.price, qty)
           v == V(f.qty)
           c == l.cost_basis + Sign(f.side) * v
           m == Money(l, f)
           n == NewPosition(l, f)
           p == l.position_qty
<1>1. /\ l \in Acc!Books /\ p \in Int /\ l.cost_basis \in Int /\ l.realized_pnl \in Int
      /\ f.side \in Sides /\ f.price \in Nat /\ f.qty \in Nat /\ f.fee \in Int /\ cash \in Int
  BY DEF Solvent, Acc!Books, IsFill
<1>2. v \in Nat /\ V(0) = 0 /\ f.qty - 0 = f.qty /\ (f.qty = 0 => v = 0)
  <2>1. v \in Nat /\ V(0) = 0
    BY <1>1, ValueNat
  <2>2. f.qty = 0 => v = V(0)
    OBVIOUS
  <2>3. f.qty - 0 = f.qty
    BY <1>1
  <2> QED
    BY <2>1, <2>2, <2>3
<1>3. m = -Sign(f.side) * (V(0) + V(f.qty)) - f.fee
  BY <1>2 DEF Money, FillCash
<1>4. t = Update(l, n, c, l.realized_pnl)
  BY <1>1, BacktestUpdates1 DEF Acc!TradeBacktest
<1>5. n = p + Sign(f.side) * f.qty
  BY DEF NewPosition
<1>6. IF f.side = "Buy" THEN p >= 0 ELSE p <= 0
  BY DEF Acc!Opens
<1>7. /\ l.realized_pnl = cash + l.cost_basis
      /\ p = 0 => l.cost_basis = 0
      /\ p < 0 => l.cost_basis <= 0
  BY DEF Solvent
<1> HIDE DEF V, v, m, n, p, t
<1>8. m = -Sign(f.side) * v - f.fee
  BY <1>2, <1>3 DEF v
<1>9. /\ n \in Int /\ c \in Int /\ m \in Int
      /\ l.realized_pnl = cash + m + f.fee + c
      /\ n = 0 => c = 0
      /\ n < 0 => c <= 0
  <2>1. CASE f.side = "Buy"
    <3>1. Sign(f.side) = 1 /\ p >= 0
      BY <1>6, <2>1 DEF Sign
    <3>2. c = l.cost_basis + v /\ m = -v - f.fee /\ n = p + f.qty
      BY <1>1, <1>2, <1>5, <1>8, <3>1
    <3> HIDE DEF c
    <3>3. n = 0 => v = 0 /\ l.cost_basis = 0
      BY <1>1, <1>2, <1>7, <3>1, <3>2
    <3> QED
      BY <1>1, <1>2, <1>7, <3>1, <3>2, <3>3
  <2>2. CASE f.side # "Buy"
    <3>1. Sign(f.side) = -1 /\ p <= 0
      BY <1>6, <2>2 DEF Sign
    <3>2. c = l.cost_basis - v /\ m = v - f.fee /\ n = p - f.qty
      BY <1>1, <1>2, <1>5, <1>8, <3>1
    <3> HIDE DEF c
    <3>3. n = 0 => v = 0 /\ l.cost_basis = 0
      <4>1. n = 0 => p = 0 /\ f.qty = 0
        BY <1>1, <3>1, <3>2
      <4> QED
        BY <1>2, <1>7, <4>1
    <3>4. l.cost_basis <= 0
      BY <1>1, <1>7, <3>1
    <3>5. n \in Int /\ c \in Int /\ m \in Int /\ c <= 0
      BY <1>1, <1>2, <3>2, <3>4
    <3>6. l.realized_pnl = cash + m + f.fee + c
      BY <1>1, <1>2, <1>7, <3>2
    <3> QED
      BY <1>1, <1>2, <3>2, <3>3, <3>5, <3>6
  <2> QED
    BY <2>1, <2>2
<1> HIDE DEF c
<1>10. /\ t \in Acc!Books /\ t.position_qty = n /\ t.cost_basis = c
       /\ t.realized_pnl = l.realized_pnl
  BY <1>1, <1>4, <1>9, UpdateTyped
<1>11. cash + m + f.fee \in Int
  BY <1>1, <1>9
<1> QED
  BY <1>9, <1>10, <1>11 DEF Solvent, m, n, t

(* What a fill against the position closes and opens.                      *)
LEMMA BacktestParts ==
  ASSUME NEW l \in Acc!Books, NEW f, IsFill(f),
         NEW n \in Nat \ {0}, n = Magnitude(l.position_qty)
  PROVE  LET closed == Acc!Min({f.qty, n})
         IN  /\ closed = IF f.qty <= n THEN f.qty ELSE n
             /\ closed \in Nat /\ f.qty - closed \in Nat
             /\ Min({f.qty, Magnitude(l.position_qty)}) = closed
             /\ Acc!EntryValue(l, closed) \in Int
             /\ Acc!EntryValue(l, closed) = Acc!Quot(l.cost_basis * closed, l.position_qty)
             /\ closed = n /\ l.position_qty > 0 => Acc!EntryValue(l, closed) = l.cost_basis
<1> DEFINE closed == Acc!Min({f.qty, n})
<1>1. f.qty \in Nat /\ l.position_qty \in Int /\ l.cost_basis \in Int
  BY DEF IsFill, Acc!Books
<1>2. closed = (IF f.qty <= n THEN f.qty ELSE n) /\ Min({f.qty, n}) = closed
  BY <1>1, MinOfTwo
<1>3. l.position_qty # 0
  BY <1>1 DEF Magnitude
<1> HIDE DEF closed
<1>4. closed \in Nat /\ f.qty - closed \in Nat /\ closed <= n
  BY <1>1, <1>2
<1>5. Acc!EntryValue(l, closed) = Acc!Quot(l.cost_basis * closed, l.position_qty)
  BY DEF Acc!EntryValue
<1>6. Acc!EntryValue(l, closed) \in Int
  <2>1. l.cost_basis * closed \in Int
    BY <1>1, <1>4
  <2> QED
    BY <1>1, <1>3, <1>5, <2>1, QuotInt
<1>7. closed = n /\ l.position_qty > 0 => Acc!EntryValue(l, closed) = l.cost_basis
  <2>1. l.position_qty > 0 => n = l.position_qty
    BY <1>1 DEF Magnitude
  <2>2. Acc!Quot(l.cost_basis * l.position_qty, l.position_qty) = l.cost_basis
    BY <1>1, <1>3, WholeEntry
  <2> QED
    BY <1>5, <2>1, <2>2
<1> QED
  BY <1>2, <1>4, <1>5, <1>6, <1>7 DEF closed

(* A sale out of a long position: the basis leaves in proportion.          *)
LEMMA CloseLongSolvent ==
  ASSUME NEW l, NEW cash, Solvent(l, cash), NEW f, IsFill(f), ~Acc!Opens(l, f.side), f.side = "Sell"
  PROVE  LET t == Acc!TradeBacktest(l, f)
         IN  Money(l, f) \in Int /\ Solvent(t, cash + Money(l, f) + f.fee)
             /\ t.position_qty = NewPosition(l, f)
<1> DEFINE t == Acc!TradeBacktest(l, f)
           p == l.position_qty
           closed == Acc!Min({f.qty, p})
           opened == f.qty - closed
           V(qty) == Acc!Value(Acc!BacktestUnit, f.price, qty)
           e == Acc!EntryValue(l, closed)
           vc == V(closed)
           vo == V(opened)
           c == IF opened > 0 THEN -vo ELSE l.cost_basis - e
           r == l.realized_pnl + vc - e
           m == Money(l, f)
           n == NewPosition(l, f)
<1>1. /\ l \in Acc!Books /\ p \in Int /\ l.cost_basis \in Int /\ l.realized_pnl \in Int
      /\ f.price \in Nat /\ f.qty \in Nat /\ f.fee \in Int /\ cash \in Int
  BY DEF Solvent, Acc!Books, IsFill
<1>2. p \in Nat \ {0} /\ p = Magnitude(l.position_qty)
  BY <1>1 DEF Acc!Opens, Magnitude
<1>3. /\ closed = IF f.qty <= p THEN f.qty ELSE p
      /\ closed \in Nat /\ opened \in Nat
      /\ Min({f.qty, Magnitude(l.position_qty)}) = closed
      /\ e \in Int /\ (closed = p => e = l.cost_basis)
  <2> HIDE DEF p
  <2>1. LET x == Acc!Min({f.qty, p})
        IN  /\ x = IF f.qty <= p THEN f.qty ELSE p
            /\ x \in Nat /\ f.qty - x \in Nat
            /\ Min({f.qty, Magnitude(l.position_qty)}) = x
            /\ Acc!EntryValue(l, x) \in Int
            /\ x = p /\ l.position_qty > 0 => Acc!EntryValue(l, x) = l.cost_basis
    BY <1>1, <1>2, BacktestParts
  <2>2. l.position_qty > 0
    BY <1>2 DEF p
  <2> QED
    BY <2>1, <2>2
<1>4. m = -Sign(f.side) * (vc + vo) - f.fee
  BY <1>3 DEF Money, FillCash
<1>5. t = Update(l, n, c, r)
  BY <1>1, BacktestUpdates1 DEF Acc!TradeBacktest
<1>6. n = p - f.qty
  BY <1>1 DEF NewPosition, Sign
<1>7. l.realized_pnl = cash + l.cost_basis
  BY DEF Solvent
<1>8. opened = f.qty - closed
  OBVIOUS
<1> HIDE DEF closed, opened
<1>9. vc \in Nat /\ vo \in Nat /\ (opened = 0 => vo = 0)
  BY <1>1, <1>3, ValueNat
<1> HIDE DEF V, vc, vo, e, m, n, p, t
<1>10. m = vc + vo - f.fee
  BY <1>1, <1>4, <1>9 DEF Sign
<1>11. opened > 0 => closed = p
  BY <1>1, <1>2, <1>3, <1>8
<1>12. /\ n \in Int /\ c \in Int /\ m \in Int /\ r \in Int
       /\ r = cash + m + f.fee + c
       /\ n = 0 => c = 0
       /\ n < 0 => c <= 0
  <2>1. CASE opened > 0
    <3>1. e = l.cost_basis /\ c = -vo
      BY <1>3, <1>11, <2>1
    <3>2. n < 0
      BY <1>1, <1>2, <1>3, <1>6, <1>8, <1>11, <2>1
    <3>3. r = l.realized_pnl + vc - e
      OBVIOUS
    <3> HIDE DEF c, r
    <3>4. r \in Int /\ c \in Int /\ m \in Int /\ n \in Int
      BY <1>1, <1>3, <1>6, <1>9, <1>10, <3>1, <3>3
    <3>5. r = cash + m + f.fee + c
      BY <1>1, <1>3, <1>7, <1>9, <1>10, <3>1, <3>3
    <3>6. n # 0 /\ c <= 0
      BY <1>9, <3>1, <3>2, <3>4
    <3> QED
      BY <3>4, <3>5, <3>6
  <2>2. CASE ~(opened > 0)
    <3>1. vo = 0 /\ c = l.cost_basis - e
      BY <1>3, <1>9, <2>2
    <3>2. n >= 0 /\ (n = 0 => closed = p)
      BY <1>1, <1>2, <1>3, <1>6, <1>8, <2>2
    <3>3. r = l.realized_pnl + vc - e
      OBVIOUS
    <3> HIDE DEF c, r
    <3>4. n = 0 => e = l.cost_basis
      BY <1>3, <3>2
    <3>5. r \in Int /\ c \in Int /\ m \in Int /\ n \in Int
      BY <1>1, <1>3, <1>6, <1>9, <1>10, <3>1, <3>3
    <3>6. r = cash + m + f.fee + c
      BY <1>1, <1>3, <1>7, <1>9, <1>10, <3>1, <3>3
    <3> QED
      BY <1>1, <1>3, <3>1, <3>2, <3>4, <3>5, <3>6
  <2> QED
    BY <2>1, <2>2
<1> HIDE DEF c, r
<1>13. /\ t \in Acc!Books /\ t.position_qty = n /\ t.cost_basis = c
       /\ t.realized_pnl = r
  BY <1>1, <1>5, <1>12, UpdateTyped
<1>14. cash + m + f.fee \in Int
  BY <1>1, <1>12
<1> QED
  BY <1>12, <1>13, <1>14 DEF Solvent, m, n, t

(* A purchase out of a short position.                                     *)
LEMMA CloseShortSolvent ==
  ASSUME NEW l, NEW cash, Solvent(l, cash), NEW f, IsFill(f), ~Acc!Opens(l, f.side), f.side = "Buy"
  PROVE  LET t == Acc!TradeBacktest(l, f)
         IN  Money(l, f) \in Int /\ Solvent(t, cash + Money(l, f) + f.fee)
             /\ t.position_qty = NewPosition(l, f)
<1> DEFINE t == Acc!TradeBacktest(l, f)
           p == l.position_qty
           d == -l.position_qty
           closed == Acc!Min({f.qty, -l.position_qty})
           opened == f.qty - closed
           V(qty) == Acc!Value(Acc!BacktestUnit, f.price, qty)
           e == Acc!EntryValue(l, closed)
           cost == -e
           vc == V(closed)
           vo == V(opened)
           c == IF opened > 0 THEN vo ELSE l.cost_basis - cost
           r == l.realized_pnl + Acc!Magnitude(cost) - vc
           m == Money(l, f)
           n == NewPosition(l, f)
<1>1. /\ l \in Acc!Books /\ p \in Int /\ l.cost_basis \in Int /\ l.realized_pnl \in Int
      /\ f.price \in Nat /\ f.qty \in Nat /\ f.fee \in Int /\ cash \in Int
  BY DEF Solvent, Acc!Books, IsFill
<1>2. d \in Nat \ {0} /\ d = Magnitude(l.position_qty) /\ p < 0
  BY <1>1 DEF Acc!Opens, Magnitude
<1>3. /\ closed = IF f.qty <= d THEN f.qty ELSE d
      /\ closed \in Nat /\ opened \in Nat
      /\ Min({f.qty, Magnitude(l.position_qty)}) = closed
      /\ e \in Int /\ e = Acc!Quot(l.cost_basis * closed, p)
  BY <1>1, <1>2, BacktestParts
<1>4. m = -Sign(f.side) * (vc + vo) - f.fee
  BY <1>3 DEF Money, FillCash
<1>5. t = Update(l, n, c, r)
  BY <1>1, BacktestUpdates1 DEF Acc!TradeBacktest
<1>6. n = p + f.qty /\ p = -d
  BY <1>1 DEF NewPosition, Sign
<1>7. l.realized_pnl = cash + l.cost_basis /\ l.cost_basis <= 0
  BY <1>2 DEF Solvent
<1>8. opened = f.qty - closed
  OBVIOUS
<1> HIDE DEF closed, opened
<1>9. vc \in Nat /\ vo \in Nat /\ (opened = 0 => vo = 0)
  BY <1>1, <1>3, ValueNat
<1>10. e \in 0 .. -l.cost_basis
  <2>1. closed <= -p
    BY <1>1, <1>3
  <2> HIDE DEF p, e
  <2> QED
    BY <1>1, <1>2, <1>3, <1>7, <2>1, ShortEntry
<1>11. closed = d => e = -l.cost_basis
  <2> DEFINE k == -l.cost_basis
  <2>2. k \in Int /\ l.cost_basis * d = k * p /\ Acc!Quot(k * p, p) = k
    <3>1. k \in Int /\ p # 0
      BY <1>1, <1>2
    <3>2. Acc!Quot(k * p, p) = k
      <4> HIDE DEF k, p
      <4> QED
        BY <1>1, <3>1, WholeEntry
    <3>3. l.cost_basis * d = k * p
      <4> DEFINE q == l.position_qty
                 b == l.cost_basis
      <4>1. q \in Int /\ b \in Int
        BY <1>1
      <4> HIDE DEF q, b
      <4>2. b * (-q) = (-b) * q
        BY <4>1, SMT
      <4> QED
        BY <4>2 DEF q, b
    <3> QED
      BY <3>1, <3>2, <3>3
  <2> HIDE DEF p, d, e
  <2> QED
    BY <1>3, <2>2
<1>12. Acc!Magnitude(cost) = e
  <2> HIDE DEF e
  <2> QED
    BY <1>7, <1>1, <1>10 DEF Acc!Magnitude
<1> HIDE DEF V, vc, vo, e, m, n, p, t, d
<1>13. m = -(vc + vo) - f.fee
  <2>1. Sign(f.side) = 1
    BY DEF Sign
  <2> QED
    BY <1>1, <1>4, <1>9, <2>1
<1>14. opened > 0 => closed = d
  BY <1>1, <1>2, <1>3, <1>8
<1>15. r = l.realized_pnl + e - vc
  BY <1>12
<1>16. /\ n \in Int /\ c \in Int /\ m \in Int /\ r \in Int
       /\ r = cash + m + f.fee + c
       /\ n = 0 => c = 0
       /\ n < 0 => c <= 0
  <2>1. CASE opened > 0
    <3>1. e = -l.cost_basis /\ c = vo
      BY <1>11, <1>14, <2>1
    <3>2. n > 0
      BY <1>1, <1>2, <1>3, <1>6, <1>8, <1>14, <2>1
    <3> HIDE DEF c, r
    <3> QED
      BY <1>1, <1>3, <1>6, <1>7, <1>9, <1>13, <1>15, <3>1, <3>2
  <2>2. CASE ~(opened > 0)
    <3>1. vo = 0 /\ c = l.cost_basis + e
      BY <1>1, <1>3, <1>9, <2>2
    <3>2. n <= 0 /\ (n = 0 => closed = d)
      BY <1>1, <1>2, <1>3, <1>6, <1>8, <2>2
    <3> HIDE DEF c, r
    <3>3. c <= 0
      BY <1>1, <1>10, <3>1
    <3>4. n = 0 => e = -l.cost_basis
      BY <1>11, <3>2
    <3>5. r \in Int /\ c \in Int /\ m \in Int /\ n \in Int
      BY <1>1, <1>2, <1>3, <1>6, <1>9, <1>13, <1>15, <3>1
    <3>6. r = cash + m + f.fee + c
      <4>1. m = -vc - f.fee
        BY <1>1, <1>9, <1>13, <3>1
      <4> QED
        BY <1>1, <1>3, <1>7, <1>9, <1>15, <3>1, <3>5, <4>1
    <3> QED
      BY <1>1, <1>3, <3>1, <3>2, <3>3, <3>4, <3>5, <3>6
  <2> QED
    BY <2>1, <2>2
<1> HIDE DEF c, r
<1>17. /\ t \in Acc!Books /\ t.position_qty = n /\ t.cost_basis = c
       /\ t.realized_pnl = r
  BY <1>1, <1>5, <1>16, UpdateTyped
<1>18. cash + m + f.fee \in Int
  BY <1>1, <1>16
<1> QED
  BY <1>16, <1>17, <1>18 DEF Solvent, m, n, t

(* A flat position has no cost left.                                       *)
LEMMA FlattenTyped ==
  ASSUME NEW l \in Acc!Books, l.position_qty = 0
  PROVE  LET t == Acc!Flatten(l)
         IN  /\ t \in Acc!Books /\ t.position_qty = 0 /\ t.cost_basis = 0
             /\ t.realized_pnl = l.realized_pnl
<1>1. Acc!Flatten(l) = [l EXCEPT !.cost_basis = 0, !.last_flat_pnl = l.realized_pnl]
  BY DEF Acc!Flatten
<1>2. l.realized_pnl \in Int
  BY DEF Acc!Books
<1>3. LET t == [l EXCEPT !.cost_basis = 0, !.last_flat_pnl = l.realized_pnl]
      IN  /\ t \in Acc!Books /\ t.position_qty = l.position_qty /\ t.cost_basis = 0
          /\ t.realized_pnl = l.realized_pnl
  BY <1>2 DEF Acc!Books
<1> QED
  BY <1>1, <1>3

(* So does a fill that turns the position: it closes, then opens.          *)
LEMMA FillSolvent ==
  ASSUME NEW l, NEW cash, Solvent(l, cash), NEW f, IsFill(f)
  PROVE  LET t == Acc!BacktestFill(l, f)
         IN  Solvent(t, cash + Money(l, f)) /\ t.position_qty = NewPosition(l, f)
<1> DEFINE x == Acc!TradeBacktest(l, f)
           y == Acc!PayFee(x, f.fee)
           t == Acc!BacktestFill(l, f)
           m == Money(l, f)
<1>1. /\ m \in Int /\ Solvent(x, cash + m + f.fee) /\ x.position_qty = NewPosition(l, f)
      /\ f.fee \in Int /\ cash \in Int
  <2>1. f.side = "Buy" \/ f.side = "Sell"
    BY DEF IsFill, Sides
  <2>2. f.fee \in Int /\ cash \in Int
    BY DEF IsFill, Solvent
  <2>3. CASE Acc!Opens(l, f.side)
    BY <2>2, <2>3, OpenSolvent
  <2>4. CASE ~Acc!Opens(l, f.side) /\ f.side = "Sell"
    BY <2>2, <2>4, CloseLongSolvent
  <2>5. CASE ~Acc!Opens(l, f.side) /\ f.side = "Buy"
    BY <2>2, <2>5, CloseShortSolvent
  <2> QED
    BY <2>1, <2>3, <2>4, <2>5
<1>2. t = Acc!Flatten(y)
  BY DEF Acc!BacktestFill
<1> HIDE DEF x, m, t
<1>3. /\ y \in Acc!Books
      /\ y.position_qty = x.position_qty /\ y.cost_basis = x.cost_basis
      /\ y.realized_pnl = x.realized_pnl - f.fee
  BY <1>1, PayFeeTyped DEF Solvent
<1> HIDE DEF y
<1>4. /\ y.cost_basis \in Int /\ y.realized_pnl \in Int /\ y.position_qty \in Int
      /\ x.cost_basis \in Int /\ x.realized_pnl \in Int
      /\ x.realized_pnl = cash + m + f.fee + x.cost_basis
      /\ x.position_qty = 0 => x.cost_basis = 0
      /\ x.position_qty < 0 => x.cost_basis <= 0
  BY <1>1, <1>3 DEF Solvent, Acc!Books
<1>5. Solvent(y, cash + m)
  <2>1. y.realized_pnl = cash + m + y.cost_basis /\ cash + m \in Int
    BY <1>1, <1>3, <1>4
  <2> QED
    BY <1>3, <1>4, <2>1 DEF Solvent
<1>6. Solvent(t, cash + m) /\ t.position_qty = y.position_qty
  <2>1. CASE y.position_qty # 0
    BY <1>2, <1>5, <2>1 DEF Acc!Flatten
  <2>2. CASE y.position_qty = 0
    <3>1. /\ t \in Acc!Books /\ t.position_qty = 0 /\ t.cost_basis = 0
          /\ t.realized_pnl = y.realized_pnl
      BY <1>2, <1>3, <2>2, FlattenTyped
    <3> QED
      BY <1>5, <2>2, <3>1 DEF Solvent
  <2> QED
    BY <2>1, <2>2
<1> QED
  BY <1>1, <1>3, <1>6 DEF m, t

-----------------------------------------------------------------------------
(* The money and the inventory once the reports are drained.               *)

(* m = [hp, ledger, cash]                                                  *)
BankStep(c, m, e) ==
  IF e.kind # "OrderFill" THEN m
  ELSE [ hp |-> HP!OnFill(m.hp, e.side, e.qty),
         ledger |-> Acc!BacktestFill(m.ledger, e),
         cash |-> m.cash + Money(m.ledger, e) ]

(* The backtest's money: m = [hp, ledger, cash].                           *)
Account(m) ==
  /\ DOMAIN m = {"hp", "ledger", "cash"}
  /\ EngineInv(m.hp)
  /\ Solvent(m.ledger, m.cash)

(* c = [active, vpin]: what no fill changes of the hot path.               *)
Flags(c, m) == m.hp.has_active_quotes = c.active /\ m.hp.vpin_enabled = c.vpin

(* Each report keeps it.                                                   *)
BankGood(c, k, m) == Account(m) /\ Flags(c, m)

Banking == INSTANCE FoldFacts WITH Step <- BankStep, Good <- BankGood, Term <- Share

(* The two flags no report changes.                                        *)
FlagsOf(m) == [active |-> m.hp.has_active_quotes, vpin |-> m.hp.vpin_enabled]

(* The money once the reports p are drained.                               *)
Banked(m, p) == Banking!Fold(FlagsOf(m), m, p)

(* The books' position, and the hot path's inventory.                      *)
Position(m) == m.ledger.position_qty
Inventory(m) == m.hp.position_qty

(* One report: only a fill moves anything.                                 *)
LEMMA BankStepEffect ==
  ASSUME NEW c, NEW m, Account(m), NEW e \in Reports
  PROVE  LET n == BankStep(c, m, e)
             h == Inventory(m) + Sign(e.side) * e.qty
         IN  /\ Account(n)
             /\ n.hp.has_active_quotes = m.hp.has_active_quotes
             /\ n.hp.vpin_enabled = m.hp.vpin_enabled
             /\ e.kind # "OrderFill" => n = m
             /\ e.kind = "OrderFill" =>
                  /\ Position(n) = Position(m) + Sign(e.side) * e.qty
                  /\ Inventory(n) = IF h > MaxInventory THEN MaxInventory
                                    ELSE IF h < -MaxInventory THEN -MaxInventory ELSE h
<1> DEFINE n == BankStep(c, m, e)
           h == Inventory(m) + Sign(e.side) * e.qty
<1>1. CASE e.kind # "OrderFill"
  BY <1>1 DEF BankStep
<1>2. CASE e.kind = "OrderFill"
  <2>1. /\ n.hp = HP!OnFill(m.hp, e.side, e.qty)
        /\ n.ledger = Acc!BacktestFill(m.ledger, e)
        /\ n.cash = m.cash + Money(m.ledger, e)
        /\ DOMAIN n = {"hp", "ledger", "cash"}
    BY <1>2 DEF BankStep
  <2>2. IsFill(e) /\ e.side \in Sides /\ e.qty \in Int
    BY DEF IsFill, Reports
  <2> HIDE DEF n
  <2>3. Solvent(n.ledger, n.cash) /\ n.ledger.position_qty = m.ledger.position_qty + Sign(e.side) * e.qty
    BY <2>1, <2>2, FillSolvent DEF Account, NewPosition
  <2>4. /\ EngineInv(n.hp)
        /\ n.hp.position_qty = HP!Clamp(m.hp.position_qty + HP!Sign(e.side) * e.qty,
                                        -MaxInventory, MaxInventory)
        /\ \A f \in DOMAIN m.hp \ {"position_qty"} : n.hp[f] = m.hp[f]
    BY <2>1, <2>2, OnFillKeepsEngine DEF Account
  <2>5. {"has_active_quotes", "vpin_enabled"} \subseteq DOMAIN m.hp \ {"position_qty"}
    BY DEF Account, EngineInv, HP!NewEngine
  <2>6. n.hp["has_active_quotes"] = m.hp["has_active_quotes"] /\ n.hp["vpin_enabled"] = m.hp["vpin_enabled"]
    BY <2>4, <2>5
  <2>7. n.hp.position_qty = IF h > MaxInventory THEN MaxInventory
                            ELSE IF h < -MaxInventory THEN -MaxInventory ELSE h
    BY <2>2, <2>4, SignOf DEF HP!Clamp, Inventory
  <2> QED
    BY <1>2, <2>1, <2>3, <2>4, <2>6, <2>7 DEF Account, Position, Inventory, n
<1> QED
  BY <1>1, <1>2

(* No report: the money as it is.                                          *)
LEMMA BankedNothing ==
  ASSUME NEW m
  PROVE  Banked(m, <<>>) = m
  BY Banking!FoldEmpty DEF Banked

(* One more report: one more step.                                         *)
LEMMA BankedAppend ==
  ASSUME NEW m, NEW p \in Seq(Reports), NEW e \in Reports
  PROVE  Banked(m, Append(p, e)) = BankStep(FlagsOf(m), Banked(m, p), e)
<1> DEFINE n == Len(p)
           more == Append(p, e)
<1>1. n \in Nat /\ DOMAIN p = 1 .. n /\ DOMAIN more = 1 .. n + 1
  OBVIOUS
<1>2. (\A k \in 1 .. n : more[k] = p[k]) /\ more[n + 1] = e
  OBVIOUS
<1> HIDE DEF n, more
<1>3. \A c, base : Banking!Fold(c, base, more) = BankStep(c, Banking!Fold(c, base, p), more[n + 1])
  BY <1>1, <1>2, Banking!FoldAppend
<1> QED
  BY <1>2, <1>3 DEF Banked, more

(* The reports keep the money balanced and leave the flags.                *)
LEMMA BankedKeeps ==
  ASSUME NEW m, Account(m), NEW p \in Seq(Reports)
  PROVE  LET b == Banked(m, p)
         IN  /\ Account(b)
             /\ b.hp.has_active_quotes = m.hp.has_active_quotes
             /\ b.hp.vpin_enabled = m.hp.vpin_enabled
<1> DEFINE c == FlagsOf(m)
           n == Len(p)
<1>1. n \in Nat /\ DOMAIN p = 1 .. n
  OBVIOUS
<1>2. c.active = m.hp.has_active_quotes /\ c.vpin = m.hp.vpin_enabled
  BY DEF FlagsOf
<1> HIDE DEF c, n
<1>3. BankGood(c, 0, m)
  BY <1>2 DEF BankGood, Flags
<1>4. \A k \in 1 .. n : \A x : BankGood(c, k - 1, x) => BankGood(c, k, BankStep(c, x, p[k]))
  <2> TAKE k \in 1 .. n
  <2> TAKE x
  <2> HAVE BankGood(c, k - 1, x)
  <2>1. Account(x) /\ Flags(c, x) /\ p[k] \in Reports
    BY <1>1 DEF BankGood
  <2> QED
    BY <2>1, BankStepEffect DEF BankGood, Flags
<1>5. BankGood(c, n, Banking!Fold(c, m, p))
  BY <1>1, <1>3, <1>4, Banking!FoldInduction
<1> QED
  BY <1>2, <1>5 DEF BankGood, Flags, Banked, c

(* A report that is not a fill.                                            *)
LEMMA BankedSame ==
  ASSUME NEW m, Account(m), NEW p \in Seq(Reports), NEW e \in Reports, e.kind # "OrderFill"
  PROVE  Banked(m, Append(p, e)) = Banked(m, p)
  BY BankedAppend, BankedKeeps, BankStepEffect

(* A fill.                                                                 *)
LEMMA BankedFill ==
  ASSUME NEW m, Account(m), NEW p \in Seq(Reports), NEW e \in Reports, e.kind = "OrderFill"
  PROVE  LET a == Banked(m, p)
             b == Banked(m, Append(p, e))
             h == Inventory(a) + Sign(e.side) * e.qty
         IN  /\ Position(b) = Position(a) + Sign(e.side) * e.qty
             /\ Inventory(b) = IF h > MaxInventory THEN MaxInventory
                               ELSE IF h < -MaxInventory THEN -MaxInventory ELSE h
  BY BankedAppend, BankedKeeps, BankStepEffect

(* Position and inventory are integers, the inventory within its limit.    *)
LEMMA AccountTyped ==
  ASSUME NEW m, Account(m)
  PROVE  Position(m) \in Int /\ Inventory(m) \in -MaxInventory .. MaxInventory
  BY DEF Account, Solvent, EngineInv, Position, Inventory, Acc!Books

-----------------------------------------------------------------------------
(* Position p, inventory h and the orders resting.                         *)

(* At most one order a side, none larger than the order size.              *)
Lots(resting) ==
  /\ resting \in [DOMAIN resting -> Resting]
  /\ \A id \in DOMAIN resting : resting[id].remaining <= OrderQty
  /\ \A i, j \in DOMAIN resting : resting[i].side = resting[j].side => i = j

(* However the orders resting fill, the position stays within the limit.   *)
Bounded(p, resting, limit) ==
  /\ p \in -limit .. limit
  /\ \A id \in DOMAIN resting :
       /\ resting[id].side = "Buy" => p + resting[id].remaining <= limit
       /\ resting[id].side = "Sell" => p - resting[id].remaining >= -limit

(* A tick that begins flat, before its commands.                           *)
Fed(p, h, resting) == Lots(resting) /\ Bounded(p, resting, OrderQty) /\ h = p

(* Nothing rests.                                                          *)
Calm(p, h, resting) == DOMAIN resting = {} /\ p \in -OrderQty .. OrderQty /\ h = p

(* The bid is placed.                                                      *)
Bidding(p, h, resting) ==
  /\ Lots(resting)
  /\ \A id \in DOMAIN resting : resting[id].side = "Buy"
  /\ p >= -OrderQty
  /\ Bounded(p, resting, 2 * OrderQty)
  /\ h = p \/ p > MaxInventory

(* Between two ticks: where the hot path's inventory is not the position,  *)
(* no order resting brings the position back to zero.                      *)
Lodged(p, h, resting) ==
  /\ Lots(resting)
  /\ Bounded(p, resting, 2 * OrderQty)
  /\ \/ h = p
     \/ p > 0 /\ \A id \in DOMAIN resting :
                   resting[id].side = "Sell" => p - resting[id].remaining > 0
     \/ p < 0 /\ \A id \in DOMAIN resting :
                   resting[id].side = "Buy" => p + resting[id].remaining < 0

(* In a backtest the inventory's limit leaves room for an order.           *)
LEMMA QtyBounds ==
  ASSUME "backtest" \in Modes
  PROVE  OrderQty \in Nat \ {0} /\ MaxInventory \in Nat /\ OrderQty <= MaxInventory
  BY TradingAssumption DEF TradingAssumption

(* With a flat position, in particular.                                    *)
LEMMA FedLodged ==
  ASSUME "backtest" \in Modes, NEW p, NEW h, NEW resting, Fed(p, h, resting)
  PROVE  Lodged(p, h, resting)
<1>1. Lots(resting) /\ Bounded(p, resting, OrderQty) /\ h = p
  BY DEF Fed
<1>2. OrderQty \in Nat \ {0} /\ p \in -OrderQty .. OrderQty
  BY <1>1, QtyBounds DEF Bounded
<1>3. \A id \in DOMAIN resting : resting[id].remaining \in Nat
  BY <1>1 DEF Lots, Resting
<1>4. Bounded(p, resting, 2 * OrderQty)
  <2>1. p \in -(2 * OrderQty) .. 2 * OrderQty
    BY <1>2
  <2>2. ASSUME NEW id \in DOMAIN resting
        PROVE  /\ resting[id].side = "Buy" => p + resting[id].remaining <= 2 * OrderQty
               /\ resting[id].side = "Sell" => p - resting[id].remaining >= -(2 * OrderQty)
    <3> DEFINE r == resting[id].remaining
    <3>1. r \in Nat /\ (resting[id].side = "Buy" => p + r <= OrderQty)
          /\ (resting[id].side = "Sell" => p - r >= -OrderQty)
      BY <1>1, <1>3 DEF Bounded
    <3> HIDE DEF r
    <3>2. /\ resting[id].side = "Buy" => p + r <= 2 * OrderQty
          /\ resting[id].side = "Sell" => p - r >= -(2 * OrderQty)
      BY <1>2, <3>1
    <3> QED
      BY <3>2 DEF r
  <2> QED
    BY <2>1, <2>2 DEF Bounded
<1> QED
  BY <1>1, <1>4 DEF Lodged

(* Once everything is canceled, what Fed says leaves Calm.                 *)
LEMMA CalmFed ==
  ASSUME NEW p, NEW h, NEW resting, Fed(p, h, resting), NEW none, DOMAIN none = {}
  PROVE  Calm(p, h, none)
  BY DEF Fed, Calm, Bounded

(* Without an order, in particular.                                        *)
LEMMA CalmBidding ==
  ASSUME "backtest" \in Modes, NEW p, NEW h, NEW resting, Calm(p, h, resting), resting \in [{} -> Resting]
  PROVE  Bidding(p, h, resting)
<1>1. OrderQty \in Nat \ {0} /\ p \in -OrderQty .. OrderQty /\ h = p /\ DOMAIN resting = {}
  BY QtyBounds DEF Calm
<1>2. p \in -(2 * OrderQty) .. 2 * OrderQty /\ p >= -OrderQty
  BY <1>1
<1> QED
  BY <1>1, <1>2 DEF Bidding, Bounded, Lots

(* Without an ask, in particular.                                          *)
LEMMA BiddingLodged ==
  ASSUME "backtest" \in Modes, NEW p, NEW h, NEW resting, Bidding(p, h, resting)
  PROVE  Lodged(p, h, resting)
<1>1. MaxInventory \in Nat /\ p \in Int
  BY QtyBounds DEF Bidding, Bounded
<1>2. \A id \in DOMAIN resting : resting[id].side # "Sell"
  BY DEF Bidding
<1>3. p > MaxInventory => p > 0
  BY <1>1
<1> QED
  BY <1>1, <1>2, <1>3 DEF Bidding, Lodged

-----------------------------------------------------------------------------
(* Orders that leave the book and orders that come.                        *)

(* Some of the orders resting.                                             *)
Some(part, resting) ==
  /\ part \in [DOMAIN part -> Resting]
  /\ DOMAIN part \subseteq DOMAIN resting
  /\ \A id \in DOMAIN part : part[id] = resting[id]

(* Part of lots of at most the order size are such lots.                   *)
LEMMA LotsSome ==
  ASSUME NEW resting, Lots(resting), NEW part, Some(part, resting)
  PROVE  Lots(part)
  BY DEF Lots, Some

(* Part of what rests moves the position less far.                         *)
LEMMA BoundedSome ==
  ASSUME NEW p, NEW limit, NEW resting, Bounded(p, resting, limit), NEW part, Some(part, resting)
  PROVE  Bounded(p, part, limit)
  BY DEF Bounded, Some

(* What Fed says of the resting orders it says of part of them.            *)
LEMMA FedSome ==
  ASSUME NEW p, NEW h, NEW resting, Fed(p, h, resting), NEW part, Some(part, resting)
  PROVE  Fed(p, h, part)
  BY LotsSome, BoundedSome DEF Fed

(* So with Lodged.                                                         *)
LEMMA LodgedSome ==
  ASSUME NEW p, NEW h, NEW resting, Lodged(p, h, resting), NEW part, Some(part, resting)
  PROVE  Lodged(p, h, part)
<1>1. Lots(part) /\ Bounded(p, part, 2 * OrderQty)
  BY LotsSome, BoundedSome DEF Lodged
<1>2. \A id \in DOMAIN part : id \in DOMAIN resting /\ part[id] = resting[id]
  BY DEF Some
<1> QED
  BY <1>1, <1>2 DEF Lodged

(* What a fill of q does to position and inventory.                        *)
Fills1(side, q, p, h, p2, h2) ==
  /\ p2 = p + Sign(side) * q
  /\ LET x == h + Sign(side) * q
     IN  h2 = IF x > MaxInventory THEN MaxInventory ELSE IF x < -MaxInventory THEN -MaxInventory ELSE x

(* The order that fills whole.                                             *)
Leaves(id, resting, part) ==
  /\ id \in DOMAIN resting
  /\ DOMAIN part = DOMAIN resting \ {id}
  /\ part \in [DOMAIN part -> Resting]
  /\ \A x \in DOMAIN part : part[x] = resting[x]

(* A resting order trades: the position moves by what it no longer can.    *)
LEMMA BoundedFill ==
  ASSUME NEW resting, Lots(resting), NEW id, NEW part, Leaves(id, resting, part),
         NEW limit \in Nat, NEW p, Bounded(p, resting, limit),
         NEW p2, p2 = p + Sign(resting[id].side) * resting[id].remaining
  PROVE  Bounded(p2, part, limit) /\ Lots(part) /\ \A x \in DOMAIN part : part[x].side # resting[id].side
<1> DEFINE o == resting[id]
           q == o.remaining
<1>1. id \in DOMAIN resting /\ o \in Resting /\ \A x \in DOMAIN part : part[x] = resting[x] /\ x # id /\ x \in DOMAIN resting
  BY DEF Leaves, Lots
<1>2. q \in Nat /\ o.side \in Sides
  BY <1>1 DEF Resting
<1>3. \A x \in DOMAIN part : part[x].side # o.side /\ part[x].remaining \in Nat /\ part[x].side \in Sides
  BY <1>1 DEF Lots, Leaves, Resting
<1>4. p \in -limit .. limit
      /\ (o.side = "Buy" => p + q <= limit) /\ (o.side = "Sell" => p - q >= -limit)
  BY <1>1 DEF Bounded
<1>5. Lots(part)
  <2>1. Some(part, resting)
    BY DEF Leaves, Some
  <2> QED
    BY <2>1, LotsSome
<1>6. \A x \in DOMAIN part : /\ part[x].side = "Buy" => p + part[x].remaining <= limit
                             /\ part[x].side = "Sell" => p - part[x].remaining >= -limit
  BY <1>1 DEF Bounded
<1> HIDE DEF o, q
<1>7. CASE o.side = "Buy"
  <2>1. p2 = p + q
    BY <1>2, <1>4, <1>7 DEF Sign, q, o
  <2>2. p2 \in -limit .. limit
    BY <1>2, <1>4, <1>7, <2>1
  <2>3. ASSUME NEW x \in DOMAIN part
        PROVE  part[x].side = "Sell" /\ p2 - part[x].remaining >= -limit
    <3> DEFINE r == part[x].remaining
    <3>1. part[x].side = "Sell" /\ r \in Nat /\ p - r >= -limit
      BY <1>3, <1>6, <1>7 DEF Sides
    <3> HIDE DEF r
    <3>2. p2 - r >= -limit
      BY <1>2, <1>4, <2>1, <3>1
    <3> QED
      BY <3>1, <3>2 DEF r
  <2>4. Bounded(p2, part, limit)
    BY <2>2, <2>3 DEF Bounded
  <2> QED
    BY <1>3, <1>5, <2>4 DEF o
<1>8. CASE o.side = "Sell"
  <2>1. p2 = p - q
    BY <1>2, <1>4, <1>8 DEF Sign, q, o
  <2>2. p2 \in -limit .. limit
    BY <1>2, <1>4, <1>8, <2>1
  <2>3. ASSUME NEW x \in DOMAIN part
        PROVE  part[x].side = "Buy" /\ p2 + part[x].remaining <= limit
    <3> DEFINE r == part[x].remaining
    <3>1. part[x].side = "Buy" /\ r \in Nat
      BY <1>3, <1>8 DEF Sides
    <3>0. p + r <= limit
      BY <1>2, <1>3, <1>4, <1>6, <3>1
    <3> HIDE DEF r
    <3>2. p2 + r <= limit
      BY <1>2, <1>4, <2>1, <3>0, <3>1
    <3> QED
      BY <3>1, <3>2 DEF r
  <2>4. Bounded(p2, part, limit)
    BY <2>2, <2>3 DEF Bounded
  <2> QED
    BY <1>3, <1>5, <2>4 DEF o
<1> QED
  BY <1>2, <1>7, <1>8 DEF Sides

(* A fill of a resting order keeps Fed.                                    *)
LEMMA FedFill ==
  ASSUME "backtest" \in Modes, NEW p, NEW h, NEW resting, Fed(p, h, resting),
         NEW id, NEW part, Leaves(id, resting, part),
         NEW p2, NEW h2, Fills1(resting[id].side, resting[id].remaining, p, h, p2, h2)
  PROVE  Fed(p2, h2, part)
<1> DEFINE side == resting[id].side
           q == resting[id].remaining
<1>1. Lots(resting) /\ Bounded(p, resting, OrderQty) /\ h = p /\ p2 = p + Sign(side) * q
  BY DEF Fed, Fills1
<1>2. OrderQty \in Nat /\ MaxInventory \in Nat /\ OrderQty <= MaxInventory
  BY QtyBounds
<1>3. Bounded(p2, part, OrderQty) /\ Lots(part)
  BY <1>1, <1>2, BoundedFill
<1>4. p2 \in -OrderQty .. OrderQty
  BY <1>3 DEF Bounded
<1>5. h2 = IF p2 > MaxInventory THEN MaxInventory ELSE IF p2 < -MaxInventory THEN -MaxInventory ELSE p2
  BY <1>1 DEF Fills1
<1>6. h2 = p2
  BY <1>2, <1>4, <1>5
<1> QED
  BY <1>3, <1>6 DEF Fed

(* And Lodged: the inventory is clamped only where the position is not     *)
(* flat.                                                                   *)
LEMMA LodgedFill ==
  ASSUME "backtest" \in Modes, NEW p, NEW h, NEW resting, Lodged(p, h, resting),
         h \in -MaxInventory .. MaxInventory,
         NEW id, NEW part, Leaves(id, resting, part),
         NEW p2, NEW h2, Fills1(resting[id].side, resting[id].remaining, p, h, p2, h2)
  PROVE  Lodged(p2, h2, part)
<1> DEFINE o == resting[id]
           q == o.remaining
           limit == 2 * OrderQty
<1>1. Lots(resting) /\ Bounded(p, resting, limit)
  BY DEF Lodged
<1>2. OrderQty \in Nat /\ MaxInventory \in Nat /\ OrderQty <= MaxInventory /\ limit \in Nat
  BY QtyBounds
<1>3. p2 = p + Sign(o.side) * q
  BY DEF Fills1
<1>4. Bounded(p2, part, limit) /\ Lots(part) /\ \A x \in DOMAIN part : part[x].side # o.side
  <2> HIDE DEF limit
  <2> QED
    BY <1>1, <1>2, <1>3, BoundedFill
<1>5. /\ q \in Nat /\ o.side \in Sides /\ p \in Int /\ p2 \in Int
      /\ \A x \in DOMAIN part : /\ part[x].remaining \in Nat /\ part[x].side \in Sides
                                /\ part[x].remaining <= OrderQty
                                /\ x \in DOMAIN resting /\ part[x] = resting[x]
  <2>1. o \in Resting /\ \A x \in DOMAIN part : part[x] \in Resting /\ x \in DOMAIN resting /\ part[x] = resting[x]
                            /\ part[x].remaining <= OrderQty
    <3>1. /\ id \in DOMAIN resting /\ DOMAIN part = DOMAIN resting \ {id}
          /\ resting \in [DOMAIN resting -> Resting] /\ part \in [DOMAIN part -> Resting]
          /\ \A x \in DOMAIN part : part[x] = resting[x] /\ part[x].remaining <= OrderQty
      BY <1>1, <1>4 DEF Leaves, Lots
    <3> QED
      BY <3>1
  <2> QED
    BY <1>1, <1>4, <2>1 DEF Resting, Bounded
<1>6. \/ h = p
      \/ p > 0 /\ \A x \in DOMAIN resting : resting[x].side = "Sell" => p - resting[x].remaining > 0
      \/ p < 0 /\ \A x \in DOMAIN resting : resting[x].side = "Buy" => p + resting[x].remaining < 0
  BY DEF Lodged
<1>7. id \in DOMAIN resting
  BY DEF Leaves
<1> DEFINE over == p2 > 0 /\ \A x \in DOMAIN part : part[x].side = "Sell" => p2 - part[x].remaining > 0
           under == p2 < 0 /\ \A x \in DOMAIN part : part[x].side = "Buy" => p2 + part[x].remaining < 0
<1>8. p2 > MaxInventory => over
  <2> SUFFICES ASSUME p2 > MaxInventory PROVE over
    OBVIOUS
  <2>1. p2 > 0
    BY <1>2, <1>5
  <2>2. \A x \in DOMAIN part : p2 - part[x].remaining > 0
    BY <1>2, <1>5
  <2> QED
    BY <2>1, <2>2
<1>9. p2 < -MaxInventory => under
  <2> SUFFICES ASSUME p2 < -MaxInventory PROVE under
    OBVIOUS
  <2>1. p2 < 0
    BY <1>2, <1>5
  <2>2. \A x \in DOMAIN part : p2 + part[x].remaining < 0
    BY <1>2, <1>5
  <2> QED
    BY <2>1, <2>2
<1>10. h = p => h2 = p2 \/ p2 > MaxInventory \/ p2 < -MaxInventory
  <2> SUFFICES ASSUME h = p PROVE h2 = p2 \/ p2 > MaxInventory \/ p2 < -MaxInventory
    OBVIOUS
  <2>1. h2 = IF p2 > MaxInventory THEN MaxInventory ELSE IF p2 < -MaxInventory THEN -MaxInventory ELSE p2
    BY <1>3 DEF Fills1
  <2> QED
    BY <2>1
<1>11. ASSUME p > 0 /\ \A x \in DOMAIN resting : resting[x].side = "Sell" => p - resting[x].remaining > 0
       PROVE  over
  <2>1. CASE o.side = "Buy"
    <3>1. p2 = p + q
      BY <1>3, <1>5, <2>1 DEF Sign
    <3>2. \A x \in DOMAIN part : part[x].side = "Sell" => p - part[x].remaining > 0
      BY <1>5, <1>11
    <3> HIDE DEF q
    <3>3. over
      <4>1. p2 > 0
        BY <1>5, <1>11, <3>1
      <4>2. ASSUME NEW x \in DOMAIN part, part[x].side = "Sell" PROVE p2 - part[x].remaining > 0
        <5> DEFINE r == part[x].remaining
        <5>1. r \in Nat /\ p - r > 0
          BY <1>5, <3>2, <4>2
        <5> HIDE DEF r
        <5>2. p2 - r > 0
          BY <1>5, <3>1, <5>1
        <5> QED
          BY <5>2 DEF r
      <4> QED
        BY <4>1, <4>2
    <3> HIDE DEF over
    <3> QED
      BY <3>3
  <2>2. CASE o.side = "Sell"
    <3>1. p2 = p - q /\ p - q > 0
      BY <1>3, <1>5, <1>7, <1>11, <2>2 DEF Sign
    <3>2. \A x \in DOMAIN part : part[x].side # "Sell"
      BY <1>4, <2>2
    <3> QED
      BY <3>1, <3>2
  <2> QED
    BY <1>5, <2>1, <2>2 DEF Sides
<1>12. ASSUME p < 0 /\ \A x \in DOMAIN resting : resting[x].side = "Buy" => p + resting[x].remaining < 0
       PROVE  under
  <2>1. CASE o.side = "Sell"
    <3>1. p2 = p - q
      BY <1>3, <1>5, <2>1 DEF Sign
    <3>2. \A x \in DOMAIN part : part[x].side = "Buy" => p + part[x].remaining < 0
      BY <1>5, <1>12
    <3> HIDE DEF q
    <3>3. under
      <4>1. p2 < 0
        BY <1>5, <1>12, <3>1
      <4>2. ASSUME NEW x \in DOMAIN part, part[x].side = "Buy" PROVE p2 + part[x].remaining < 0
        <5> DEFINE r == part[x].remaining
        <5>1. r \in Nat /\ p + r < 0
          BY <1>5, <3>2, <4>2
        <5> HIDE DEF r
        <5>2. p2 + r < 0
          BY <1>5, <3>1, <5>1
        <5> QED
          BY <5>2 DEF r
      <4> QED
        BY <4>1, <4>2
    <3> HIDE DEF under
    <3> QED
      BY <3>3
  <2>2. CASE o.side = "Buy"
    <3>1. p2 = p + q /\ p + q < 0
      BY <1>3, <1>5, <1>7, <1>12, <2>2 DEF Sign
    <3>2. \A x \in DOMAIN part : part[x].side # "Buy"
      BY <1>4, <2>2
    <3> QED
      BY <3>1, <3>2
  <2> QED
    BY <1>5, <2>1, <2>2 DEF Sides
<1> HIDE DEF over, under
<1>13. h2 = p2 \/ over \/ under
  <2>1. CASE h = p
    BY <1>8, <1>9, <1>10, <2>1
  <2>2. CASE h # p
    BY <1>6, <1>11, <1>12, <2>2
  <2> QED
    BY <2>1, <2>2
<1> QED
  BY <1>4, <1>13 DEF Lodged, over, under

-----------------------------------------------------------------------------
(* An order that trades q of its size at once and leaves the rest.         *)

(* The position moves by q, the inventory with it or into its limit.       *)
Moved(side, q, p, h, p2, h2) ==
  /\ p2 = p + Sign(side) * q
  /\ h = p => h2 = p2 \/ Sign(side) * p2 > MaxInventory

(* Two moves to one side are one.                                          *)
LEMMA MovedMore ==
  ASSUME NEW side \in Sides, NEW q \in Nat, NEW n \in Nat, NEW p \in Int, NEW h \in Int,
         NEW p2, NEW h2 \in -MaxInventory .. MaxInventory, Moved(side, q, p, h, p2, h2),
         NEW p3, NEW h3, Fills1(side, n, p2, h2, p3, h3)
  PROVE  Moved(side, q + n, p, h, p3, h3)
<1>1. MaxInventory \in Nat
  BY Constants
<1>2. /\ p2 = p + Sign(side) * q /\ p3 = p2 + Sign(side) * n
      /\ h = p => h2 = p2 \/ Sign(side) * p2 > MaxInventory
      /\ h2 = p2 => h3 = IF p3 > MaxInventory THEN MaxInventory ELSE IF p3 < -MaxInventory THEN -MaxInventory ELSE p3
  BY DEF Moved, Fills1
<1>3. CASE side = "Buy"
  <2>1. Sign(side) = 1
    BY <1>3 DEF Sign
  <2>2. p2 = p + q /\ p3 = p2 + n /\ (h = p => h2 = p2 \/ p2 > MaxInventory) /\ p2 \in Int
    BY <1>2, <2>1
  <2>3. p3 = p + (q + n) /\ (h = p => h3 = p3 \/ p3 > MaxInventory)
    BY <1>1, <1>2, <2>2
  <2>4. p3 \in Int
    BY <2>2
  <2> QED
    BY <2>1, <2>3, <2>4 DEF Moved
<1>4. CASE side = "Sell"
  <2>1. Sign(side) = -1
    BY <1>4 DEF Sign
  <2>2. p2 = p - q /\ p3 = p2 - n /\ (h = p => h2 = p2 \/ -p2 > MaxInventory) /\ p2 \in Int
    BY <1>2, <2>1
  <2>3. p3 = p - (q + n) /\ (h = p => h3 = p3 \/ -p3 > MaxInventory)
    BY <1>1, <1>2, <2>2
  <2>4. p3 \in Int /\ (-1) * (q + n) = -(q + n) /\ (-1) * p3 = -p3
    BY <2>2
  <2> QED
    BY <2>1, <2>3, <2>4 DEF Moved
<1> QED
  BY <1>3, <1>4 DEF Sides

(* n of the order rests, if any.                                           *)
Rested(resting, more, id, side, n) ==
  /\ id \notin DOMAIN resting
  /\ more \in [DOMAIN more -> Resting]
  /\ n = 0 => more = resting
  /\ n # 0 => /\ DOMAIN more = DOMAIN resting \cup {id}
              /\ more[id].side = side /\ more[id].remaining = n
              /\ \A x \in DOMAIN resting : more[x] = resting[x]

(* The bid: part of it trades at once, the rest is the only order resting. *)
LEMMA BidPlaced ==
  ASSUME "backtest" \in Modes, NEW p, NEW h, NEW resting, Calm(p, h, resting),
         NEW n \in 0 .. OrderQty, NEW q, q = OrderQty - n,
         NEW p2, NEW h2, Moved("Buy", q, p, h, p2, h2),
         NEW id, NEW more, Rested(resting, more, id, "Buy", n)
  PROVE  Bidding(p2, h2, more)
<1>1. OrderQty \in Nat \ {0} /\ MaxInventory \in Nat
  BY QtyBounds
<1>2. DOMAIN resting = {} /\ p \in -OrderQty .. OrderQty /\ h = p
  BY DEF Calm
<1>3. p2 = p + q /\ (h2 = p2 \/ p2 > MaxInventory)
  <2>1. Sign("Buy") = 1
    BY DEF Sign
  <2>2. p2 = p + 1 * q /\ (h2 = p2 \/ 1 * p2 > MaxInventory)
    BY <1>2, <2>1 DEF Moved
  <2>3. 1 * q = q
    BY <1>1
  <2>4. p2 \in Int
    BY <1>1, <1>2, <2>2
  <2> QED
    BY <2>2, <2>3, <2>4
<1>4. q \in 0 .. OrderQty /\ q + n = OrderQty
  BY <1>1
<1>5. p2 \in -(2 * OrderQty) .. 2 * OrderQty /\ p2 >= -OrderQty /\ p2 + n <= 2 * OrderQty
  BY <1>1, <1>2, <1>3, <1>4
<1>6. more \in [DOMAIN more -> Resting]
      /\ \A x \in DOMAIN more : x = id /\ more[x].side = "Buy" /\ more[x].remaining = n
  BY <1>2 DEF Rested
<1>7. Lots(more)
  BY <1>6 DEF Lots
<1>8. Bounded(p2, more, 2 * OrderQty)
  BY <1>5, <1>6 DEF Bounded
<1> QED
  BY <1>3, <1>5, <1>6, <1>7, <1>8 DEF Bidding

(* The ask next to it.                                                     *)
LEMMA AskPlaced ==
  ASSUME "backtest" \in Modes, NEW p, NEW h, NEW resting, Bidding(p, h, resting),
         NEW n \in 0 .. OrderQty, NEW q, q = OrderQty - n,
         NEW p2, NEW h2, Moved("Sell", q, p, h, p2, h2),
         NEW id, NEW more, Rested(resting, more, id, "Sell", n)
  PROVE  Lodged(p2, h2, more)
<1>1. OrderQty \in Nat \ {0} /\ MaxInventory \in Nat /\ OrderQty <= MaxInventory
  BY QtyBounds
<1>2. /\ Lots(resting) /\ \A x \in DOMAIN resting : resting[x].side = "Buy"
      /\ p >= -OrderQty /\ Bounded(p, resting, 2 * OrderQty)
      /\ h = p \/ p > MaxInventory
  BY DEF Bidding
<1>3. p \in -(2 * OrderQty) .. 2 * OrderQty /\ p \in Int
  BY <1>1, <1>2 DEF Bounded
<1>4. q \in 0 .. OrderQty /\ q + n = OrderQty
  BY <1>1
<1>5. p2 = p - q /\ (h = p => h2 = p2 \/ -p2 > MaxInventory)
  <2>1. Sign("Sell") = -1
    BY DEF Sign
  <2>2. p2 = p + (-1) * q /\ (h = p => h2 = p2 \/ (-1) * p2 > MaxInventory)
    BY <2>1 DEF Moved
  <2>3. p2 \in Int
    BY <1>3, <1>4, <2>2
  <2> QED
    BY <1>3, <1>4, <2>2, <2>3
<1>6. p2 \in -(2 * OrderQty) .. 2 * OrderQty /\ p2 - n >= -(2 * OrderQty) /\ p2 <= p /\ p2 \in Int
  BY <1>1, <1>2, <1>3, <1>4, <1>5
<1>7. p > MaxInventory => p2 > 0 /\ p2 - n > 0
  BY <1>1, <1>3, <1>4, <1>5
<1>8. \A x \in DOMAIN more :
        \/ x \in DOMAIN resting /\ more[x] = resting[x]
        \/ x = id /\ more[x].side = "Sell" /\ more[x].remaining = n
  BY DEF Rested
<1>9. /\ more \in [DOMAIN more -> Resting]
      /\ \A x \in DOMAIN resting : resting[x] \in Resting /\ resting[x].remaining \in Nat
                                   /\ resting[x].remaining <= OrderQty
                                   /\ p + resting[x].remaining <= 2 * OrderQty
  BY <1>2 DEF Rested, Lots, Resting, Bounded
<1>10. Lots(more)
  <2>1. \A x \in DOMAIN more : more[x].remaining <= OrderQty
    BY <1>1, <1>8, <1>9
  <2>2. \A i, j \in DOMAIN more : more[i].side = more[j].side => i = j
    <3>1. \A i, j \in DOMAIN resting : resting[i].side = resting[j].side => i = j
      BY <1>2 DEF Lots
    <3>2. \A x \in DOMAIN resting : resting[x].side # "Sell"
      BY <1>2
    <3> QED
      BY <1>8, <3>1, <3>2
  <2> QED
    BY <1>9, <2>1, <2>2 DEF Lots
<1>11. \A x \in DOMAIN more : more[x].side = "Buy" => x \in DOMAIN resting /\ more[x] = resting[x]
  BY <1>8
<1>12. \A x \in DOMAIN more : more[x].side = "Sell" => more[x].remaining = n
  BY <1>2, <1>8
<1>13. Bounded(p2, more, 2 * OrderQty)
  <2>1. ASSUME NEW x \in DOMAIN more, more[x].side = "Buy" PROVE p2 + more[x].remaining <= 2 * OrderQty
    <3> DEFINE r == more[x].remaining
    <3>1. r \in Nat /\ p + r <= 2 * OrderQty
      BY <1>9, <1>11, <2>1
    <3> HIDE DEF r
    <3>2. p2 + r <= 2 * OrderQty
      BY <1>1, <1>3, <1>6, <3>1
    <3> QED
      BY <3>2 DEF r
  <2>2. ASSUME NEW x \in DOMAIN more, more[x].side = "Sell" PROVE p2 - more[x].remaining >= -(2 * OrderQty)
    BY <1>6, <1>12, <2>2
  <2> QED
    BY <1>6, <2>1, <2>2 DEF Bounded
<1>14. CASE h = p
  <2>1. CASE h2 = p2
    BY <1>10, <1>13, <2>1 DEF Lodged
  <2>2. CASE -p2 > MaxInventory
    <3>1. p2 < 0
      BY <1>1, <1>6, <2>2
    <3>2. ASSUME NEW x \in DOMAIN more, more[x].side = "Buy" PROVE p2 + more[x].remaining < 0
      <4> DEFINE r == more[x].remaining
      <4>1. r \in Nat /\ r <= OrderQty
        BY <1>9, <1>11, <3>2
      <4> HIDE DEF r
      <4>2. p2 + r < 0
        BY <1>1, <1>6, <2>2, <4>1
      <4> QED
        BY <4>2 DEF r
    <3> QED
      BY <1>10, <1>13, <3>1, <3>2 DEF Lodged
  <2> QED
    BY <1>5, <1>14, <2>1, <2>2
<1>15. CASE p > MaxInventory
  <2>1. p2 > 0 /\ \A x \in DOMAIN more : more[x].side = "Sell" => p2 - more[x].remaining > 0
    BY <1>7, <1>12, <1>15
  <2> QED
    BY <1>10, <1>13, <2>1 DEF Lodged
<1> QED
  BY <1>2, <1>14, <1>15

-----------------------------------------------------------------------------
(* The exchange s and the money m before its reports are drained.          *)

(* What position and inventory will be once the pending reports are        *)
(* drained.                                                                *)
Later(m, s) == Banked(m, s.pending)

FedAt(m, s) == Fed(Position(Later(m, s)), Inventory(Later(m, s)), s.resting)
CalmAt(m, s) == Calm(Position(Later(m, s)), Inventory(Later(m, s)), s.resting)
BiddingAt(m, s) == Bidding(Position(Later(m, s)), Inventory(Later(m, s)), s.resting)
LodgedAt(m, s) == Lodged(Position(Later(m, s)), Inventory(Later(m, s)), s.resting)

(* A resting order is crossed.                                             *)
LEMMA FillAt ==
  ASSUME "backtest" \in Modes, NEW m, Account(m), NEW s, SimTyped(s), NEW id \in DOMAIN s.resting
  PROVE  LET r == Sim!MakerFill(s, id)
         IN  /\ FedAt(m, s) => FedAt(m, r)
             /\ LodgedAt(m, s) => LodgedAt(m, r)
<1> DEFINE o == s.resting[id]
           r == Sim!MakerFill(s, id)
           part == Sim!Without(s.resting, id)
           e == Sim!SimEvent("OrderFill", id, o.side, o.price, o.remaining,
                             Sim!Fee(o.price, o.remaining, MakerFeeBps))
           a == Later(m, s)
           b == Later(m, r)
<1>1. \/ r = s
      \/ /\ Reports1(s, r, part, e)
         /\ e.kind = "OrderFill" /\ e.id = id /\ e.side = o.side /\ e.price = o.price
         /\ e.qty = o.remaining
  BY MakerFillEffect
<1>2. /\ DOMAIN part = DOMAIN s.resting \ {id} /\ part \in [DOMAIN part -> Resting]
      /\ \A x \in DOMAIN part : part[x] = s.resting[x]
  BY WithoutTyped
<1> HIDE DEF r, part, e, o, a, b
<1>3. CASE r = s
  BY <1>3 DEF r
<1>4. CASE r # s
  <2>1. /\ Reports1(s, r, part, e) /\ e.kind = "OrderFill" /\ e.side = o.side /\ e.qty = o.remaining
    BY <1>1, <1>4
  <2>2. r.resting = part /\ r.pending = Append(s.pending, e) /\ e \in Reports /\ s.pending \in Seq(Reports)
    BY <2>1 DEF Reports1, SimTyped
  <2>3. a = Banked(m, s.pending) /\ b = Banked(m, Append(s.pending, e))
    BY <2>2 DEF a, b, Later
  <2>4. Fills1(o.side, o.remaining, Position(a), Inventory(a), Position(b), Inventory(b))
    <3> DEFINE h == Inventory(a) + Sign(e.side) * e.qty
    <3>1. /\ Position(b) = Position(a) + Sign(e.side) * e.qty
          /\ Inventory(b) = IF h > MaxInventory THEN MaxInventory
                            ELSE IF h < -MaxInventory THEN -MaxInventory ELSE h
      BY <2>1, <2>2, <2>3, BankedFill
    <3> QED
      BY <2>1, <3>1 DEF Fills1
  <2>5. Leaves(id, s.resting, part)
    BY <1>2 DEF Leaves
  <2>6. Inventory(a) \in -MaxInventory .. MaxInventory
    BY <2>2, <2>3, BankedKeeps, AccountTyped
  <2>7. ASSUME FedAt(m, s) PROVE FedAt(m, r)
    <3>1. Fed(Position(a), Inventory(a), s.resting)
      BY <2>7 DEF FedAt, a
    <3>2. Fed(Position(b), Inventory(b), part)
      BY <2>4, <2>5, <3>1, FedFill DEF o
    <3> QED
      BY <2>2, <3>2 DEF FedAt, b
  <2>8. ASSUME LodgedAt(m, s) PROVE LodgedAt(m, r)
    <3>1. Lodged(Position(a), Inventory(a), s.resting)
      BY <2>8 DEF LodgedAt, a
    <3>2. Lodged(Position(b), Inventory(b), part)
      BY <2>4, <2>5, <2>6, <3>1, LodgedFill DEF o
    <3> QED
      BY <2>2, <3>2 DEF LodgedAt, b
  <2> QED
    BY <2>7, <2>8 DEF r
<1> QED
  BY <1>3, <1>4

-----------------------------------------------------------------------------
(* The exchange is fed the update.                                         *)

(* check_resting_orders as a fold, with the money in mind.                 *)
FeedStep(c, s, id) == Sim!MakerFill(s, id)

(* c = [w, ids, order, n, m, flat]                                         *)
FeedGood(c, k, s) ==
  /\ FillingGood(c, k, s)
  /\ c.flat => FedAt(c.m, s)
  /\ LodgedAt(c.m, s)

Feeding == INSTANCE FoldFacts WITH Step <- FeedStep, Good <- FeedGood, Term <- Share

(* The loop over the resting orders as a fold.                             *)
LEMMA FeedIsFold ==
  ASSUME NEW c, NEW s, NEW order
  PROVE  Sim!CheckRestingOrders(s, order) = Feeding!Fold(c, s, order)
  BY DEF Sim!CheckRestingOrders, Feeding!Fold, Sim!FoldLeft,
         Sim!MapThenFoldSet, Feeding!MapThenFoldSet, Sim!Max, Feeding!Max, FeedStep

(* A book update at the exchange keeps Lodged, and Fed if it was flat.     *)
LEMMA FedThrough ==
  ASSUME "backtest" \in Modes, NEW w, NEW s, VenueInv(w, s), NEW u \in Updates,
         NEW order \in SetToSeqs(DOMAIN s.resting),
         NEW m, Account(m), NEW flat \in BOOLEAN, flat => FedAt(m, s), LodgedAt(m, s)
  PROVE  LET r == Sim!OnBookUpdate(s, u, order)
         IN  /\ VenueInv(w, r) /\ DOMAIN r.resting \subseteq DOMAIN s.resting
             /\ flat => FedAt(m, r)
             /\ LodgedAt(m, r)
<1> DEFINE r == Sim!OnBookUpdate(s, u, order)
           b == Sim!SetBook(s, u)
           n == Cardinality(DOMAIN s.resting)
           c == [w |-> w, ids |-> DOMAIN s.resting, order |-> order, n |-> n, m |-> m, flat |-> flat]
<1>1. VenueInv(w, b) /\ b.resting = s.resting /\ b.pending = s.pending
  BY VenueSetBook
<1>2. IsFiniteSet(DOMAIN s.resting)
  BY DEF VenueInv, VenueBut, SimTyped
<1>3. /\ n \in Nat /\ DOMAIN order = 1 .. n /\ \A i \in 1 .. n : order[i] \in DOMAIN s.resting
      /\ \A i, j \in 1 .. n : i # j => order[i] # order[j]
  <2> DEFINE S == DOMAIN s.resting
  <2> HIDE DEF S
  <2>1. IsFiniteSet(S) /\ order \in SetToSeqs(S)
    BY <1>2 DEF S
  <2> QED
    BY <2>1, Walks DEF S
<1>4. r = Feeding!Fold(c, b, order)
  BY FeedIsFold DEF Sim!OnBookUpdate
<1>5. c.w = w /\ c.ids = DOMAIN s.resting /\ c.order = order /\ c.n = n /\ c.m = m /\ c.flat = flat
  OBVIOUS
<1> HIDE DEF b, c, n, r
<1>6. FeedGood(c, 0, b)
  <2>1. FillingGood(c, 0, b)
    BY <1>1, <1>3, <1>5 DEF FillingGood
  <2>2. (flat => FedAt(m, b)) /\ LodgedAt(m, b)
    BY <1>1 DEF FedAt, LodgedAt, Later
  <2> QED
    BY <1>5, <2>1, <2>2 DEF FeedGood
<1>7. \A k \in 1 .. n : \A q : FeedGood(c, k - 1, q) => FeedGood(c, k, FeedStep(c, q, order[k]))
  <2> TAKE k \in 1 .. n
  <2> TAKE q
  <2> HAVE FeedGood(c, k - 1, q)
  <2> DEFINE z == FeedStep(c, q, order[k])
             id == order[k]
  <2>1. FillingGood(c, k - 1, q) /\ (flat => FedAt(m, q)) /\ LodgedAt(m, q)
    BY <1>5 DEF FeedGood
  <2>2. FillingGood(c, k, z)
    <3>1. FillingGood(c, k, FillingStep(c, q, c.order[k]))
      BY <1>3, <1>5, <2>1, FillingKeeps
    <3> QED
      BY <1>5, <3>1 DEF FillingStep, FeedStep
  <2>3. SimTyped(q) /\ id \in DOMAIN q.resting
    <3>1. VenueInv(c.w, q) /\ \A j \in 1 .. c.n : j > k - 1 => c.order[j] \in DOMAIN q.resting
      BY <2>1 DEF FillingGood
    <3>2. k \in 1 .. c.n /\ k > k - 1 /\ c.order[k] = id
      BY <1>3, <1>5
    <3> QED
      BY <3>1, <3>2 DEF VenueInv, VenueBut
  <2>4. z = Sim!MakerFill(q, id)
    BY DEF FeedStep
  <2> HIDE DEF z, id
  <2>5. (flat => FedAt(m, z)) /\ LodgedAt(m, z)
    BY <2>1, <2>3, <2>4, FillAt
  <2>6. FeedGood(c, k, z)
    BY <1>5, <2>2, <2>5 DEF FeedGood
  <2> QED
    BY <2>6 DEF z
<1>8. FeedGood(c, n, Feeding!Fold(c, b, order))
  BY <1>3, <1>6, <1>7, Feeding!FoldInduction
<1> QED
  BY <1>4, <1>5, <1>8 DEF FeedGood, FillingGood, r

-----------------------------------------------------------------------------
(* Everything is canceled.                                                 *)

(* CANCEL_ALL as a fold, with the money in mind.                           *)
ClearStep(c, s, id) == Sim!CancelOrder(s, id)

(* c = [m, base]                                                           *)
ClearGood(c, k, s) ==
  /\ SimTyped(s)
  /\ Later(c.m, s) = c.base

Clearing == INSTANCE FoldFacts WITH Step <- ClearStep, Good <- ClearGood, Term <- Share

(* The loop over the open orders as a fold.                                *)
LEMMA ClearIsFold ==
  ASSUME NEW c, NEW s, NEW list
  PROVE  FoldLeft(Sim!CancelOrder, s, list) = Clearing!Fold(c, s, list)
  BY DEF FoldLeft, Clearing!Fold, MapThenFoldSet, Clearing!MapThenFoldSet,
         Max, Clearing!Max, ClearStep

(* A cancellation moves no money.                                          *)
LEMMA CancelLater ==
  ASSUME NEW m, Account(m), NEW s, SimTyped(s), NEW id
  PROVE  LET r == Sim!CancelOrder(s, id)
         IN  SimTyped(r) /\ Later(m, r) = Later(m, s)
<1> DEFINE r == Sim!CancelOrder(s, id)
           e == Sim!SimEvent("OrderCancel", id, s.resting[id].side, 0, 0, 0)
<1>1. CASE id \notin DOMAIN s.resting
  BY <1>1 DEF Sim!CancelOrder
<1>2. CASE id \in DOMAIN s.resting
  <2>1. Reports1(s, r, Sim!Without(s.resting, id), e) /\ e.kind = "OrderCancel"
    BY <1>2, CancelEffect
  <2> HIDE DEF r, e
  <2>2. SimTyped(r) /\ r.pending = Append(s.pending, e) /\ e \in Reports /\ s.pending \in Seq(Reports)
    BY <2>1 DEF Reports1, SimTyped
  <2>3. Later(m, r) = Later(m, s)
    BY <2>1, <2>2, BankedSame DEF Later
  <2> QED
    BY <2>2, <2>3 DEF r
<1> QED
  BY <1>1, <1>2

(* Nor do all of them.                                                     *)
LEMMA Cleared ==
  ASSUME NEW m, Account(m), NEW s, SimTyped(s), NEW S, IsFiniteSet(S)
  PROVE  Later(m, FoldLeft(Sim!CancelOrder, s, SetToSeq(S))) = Later(m, s)
<1> DEFINE list == SetToSeq(S)
           r == FoldLeft(Sim!CancelOrder, s, list)
           n == Cardinality(S)
           c == [m |-> m, base |-> Later(m, s)]
<1>1. DOMAIN list = 1 .. n /\ n \in Nat
  BY Listed
<1>2. c.m = m /\ c.base = Later(m, s)
  OBVIOUS
<1>3. r = Clearing!Fold(c, s, list)
  BY ClearIsFold
<1> HIDE DEF c, n, r, list
<1>4. ClearGood(c, 0, s)
  BY <1>2 DEF ClearGood
<1>5. \A k \in 1 .. n : \A q : ClearGood(c, k - 1, q) => ClearGood(c, k, ClearStep(c, q, list[k]))
  BY <1>2, CancelLater DEF ClearGood, ClearStep
<1>6. ClearGood(c, n, Clearing!Fold(c, s, list))
  BY <1>1, <1>4, <1>5, Clearing!FoldInduction
<1> QED
  BY <1>2, <1>3, <1>6 DEF ClearGood, r, list

-----------------------------------------------------------------------------
(* A quote is submitted.                                                   *)

(* match_order as a fold, with the money in mind.                          *)
TakeStep(c, x, l) == Sim!TakerFill(x, c.o, l)

(* c = [o, m, a, resting]: a is the money before.                          *)
TakeGood(c, k, x) ==
  /\ DOMAIN x = {"sim", "remaining"}
  /\ SimTyped(x.sim)
  /\ x.sim.resting = c.resting
  /\ x.remaining \in 0 .. c.o.qty
  /\ Moved(c.o.side, c.o.qty - x.remaining, Position(c.a), Inventory(c.a),
           Position(Later(c.m, x.sim)), Inventory(Later(c.m, x.sim)))

Taking == INSTANCE FoldFacts WITH Step <- TakeStep, Good <- TakeGood, Term <- Share

(* The loop over the levels as a fold.                                     *)
LEMMA TakeIsFold ==
  ASSUME NEW c, NEW s
  PROVE  Sim!MatchOrder(s, c.o) =
           Taking!Fold(c, [sim |-> s, remaining |-> c.o.qty], Sim!Matching(s, c.o))
  BY DEF Sim!MatchOrder, Taking!Fold, Sim!FoldLeft,
         Sim!MapThenFoldSet, Taking!MapThenFoldSet, Sim!Max, Taking!Max, TakeStep

(* One level taken moves the position by what it took.                     *)
LEMMA TakeKeeps ==
  ASSUME NEW c, IsRequest(c.o), Account(c.m), Account(c.a),
         NEW k, NEW j, NEW l, l.price \in Nat \ {0}, l.qty \in Nat \ {0}, NEW x, TakeGood(c, j, x)
  PROVE  TakeGood(c, k, TakeStep(c, x, l))
<1> DEFINE o == c.o
           r == Sim!TakerFill(x, o, l)
           q == IF x.remaining <= l.qty THEN x.remaining ELSE l.qty
           e == Sim!SimEvent("OrderFill", o.id, o.side, l.price, q, Sim!Fee(l.price, q, TakerFeeBps))
           a == c.a
           b == Later(c.m, x.sim)
           d == Later(c.m, r.sim)
<1>1. /\ DOMAIN x = {"sim", "remaining"} /\ SimTyped(x.sim) /\ x.sim.resting = c.resting
      /\ x.remaining \in 0 .. o.qty
      /\ Moved(o.side, o.qty - x.remaining, Position(a), Inventory(a), Position(b), Inventory(b))
  BY DEF TakeGood
<1>2. o.qty \in Nat /\ o.side \in Sides /\ x.remaining \in Nat
  BY <1>1 DEF IsRequest, Requests
<1>3. \/ x.remaining = 0 /\ r = x
      \/ /\ x.remaining > 0 /\ q \in 1 .. x.remaining
         /\ DOMAIN r = {"sim", "remaining"}
         /\ r.remaining = x.remaining - q
         /\ Reports1(x.sim, r.sim, x.sim.resting, e)
         /\ e.kind = "OrderFill" /\ e.id = o.id /\ e.side = o.side /\ e.price = l.price
         /\ e.qty = q
  <2> HIDE DEF o
  <2> QED
    BY <1>1, <1>2, TakerFillEffect DEF o
<1>4. Account(b) /\ Position(a) \in Int /\ Inventory(a) \in Int
      /\ Inventory(b) \in -MaxInventory .. MaxInventory
  <2>1. x.sim.pending \in Seq(Reports)
    BY <1>1 DEF SimTyped
  <2>2. Account(b)
    BY <2>1, BankedKeeps DEF Later
  <2>3. MaxInventory \in Nat
    BY Constants
  <2> QED
    BY <2>2, <2>3, AccountTyped
<1>5. CASE r = x
  <2>1. TakeStep(c, x, l) = x
    BY <1>5 DEF TakeStep
  <2> HIDE DEF r, o, a, b, d, e, q
  <2>2. TakeGood(c, k, x)
    BY DEF TakeGood
  <2> QED
    BY <2>1, <2>2
<1>6. CASE r # x
  <2>1. /\ q \in 1 .. x.remaining /\ DOMAIN r = {"sim", "remaining"} /\ r.remaining = x.remaining - q
        /\ Reports1(x.sim, r.sim, x.sim.resting, e)
        /\ e.kind = "OrderFill" /\ e.side = o.side /\ e.qty = q
    BY <1>3, <1>6
  <2> HIDE DEF r, q, e, o
  <2>2. /\ SimTyped(r.sim) /\ r.sim.resting = x.sim.resting
        /\ r.sim.pending = Append(x.sim.pending, e) /\ e \in Reports /\ x.sim.pending \in Seq(Reports)
    BY <1>1, <2>1 DEF Reports1, SimTyped
  <2>3. b = Banked(c.m, x.sim.pending) /\ d = Banked(c.m, Append(x.sim.pending, e))
    BY <2>2 DEF Later
  <2> HIDE DEF a, b, d
  <2>4. Fills1(o.side, q, Position(b), Inventory(b), Position(d), Inventory(d))
    <3> DEFINE h == Inventory(b) + Sign(e.side) * e.qty
    <3>1. /\ Position(d) = Position(b) + Sign(e.side) * e.qty
          /\ Inventory(d) = IF h > MaxInventory THEN MaxInventory
                            ELSE IF h < -MaxInventory THEN -MaxInventory ELSE h
      BY <2>1, <2>2, <2>3, BankedFill
    <3> QED
      BY <2>1, <3>1 DEF Fills1
  <2> DEFINE g == o.qty - x.remaining
  <2>5. g \in Nat /\ q \in Nat /\ r.remaining \in 0 .. o.qty /\ g + q = o.qty - r.remaining
    BY <1>1, <1>2, <2>1
  <2>6. Moved(o.side, g, Position(a), Inventory(a), Position(b), Inventory(b))
    BY <1>1
  <2> HIDE DEF g
  <2>7. Moved(o.side, g + q, Position(a), Inventory(a), Position(d), Inventory(d))
    BY <1>2, <1>4, <2>4, <2>5, <2>6, MovedMore
  <2>8. Moved(o.side, o.qty - r.remaining, Position(a), Inventory(a), Position(d), Inventory(d))
    BY <2>5, <2>7
  <2> QED
    BY <1>1, <2>1, <2>2, <2>5, <2>8 DEF TakeGood, TakeStep, r, a, d, o
<1> QED
  BY <1>5, <1>6

(* What an order takes from the book moves the position that far.          *)
LEMMA Taken ==
  ASSUME NEW m, Account(m), NEW s, SimTyped(s), NEW o, IsRequest(o)
  PROVE  LET x == Sim!MatchOrder(s, o)
             a == Later(m, s)
             b == Later(m, x.sim)
         IN  /\ SimTyped(x.sim) /\ x.sim.resting = s.resting
             /\ x.remaining \in 0 .. o.qty
             /\ Moved(o.side, o.qty - x.remaining, Position(a), Inventory(a),
                      Position(b), Inventory(b))
<1> DEFINE list == Sim!Matching(s, o)
           x == Sim!MatchOrder(s, o)
           a == Later(m, s)
           base == [sim |-> s, remaining |-> o.qty]
<1>1. /\ IsLevels(s.bids) /\ IsLevels(s.asks) /\ o.qty \in Nat \ {0} /\ o.side \in Sides
      /\ s.pending \in Seq(Reports)
  BY DEF SimTyped, IsRequest, Requests
<1>2. Account(a)
  BY <1>1, BankedKeeps DEF Later
<1> HIDE DEF list
<1>3. PICK n \in Nat :
        /\ DOMAIN list = 1 .. n
        /\ \A i \in 1 .. n :
             /\ list[i].price \in Nat \ {0} /\ list[i].qty \in Nat \ {0}
             /\ Sim!HasLimit(o) => Sim!Accepts(o.side, o.price, list[i].price)
  BY <1>1, MatchingTyped DEF list
<1> DEFINE c == [o |-> o, m |-> m, a |-> a, resting |-> s.resting]
<1>4. c.o = o /\ c.m = m /\ c.a = a /\ c.resting = s.resting
  OBVIOUS
<1> HIDE DEF c, x
<1>5. x = Taking!Fold(c, base, list)
  <2>1. Sim!MatchOrder(s, c.o) =
          Taking!Fold(c, [sim |-> s, remaining |-> c.o.qty], Sim!Matching(s, c.o))
    BY TakeIsFold
  <2> QED
    BY <1>4, <2>1 DEF x, list
<1>6. TakeGood(c, 0, base)
  <2>1. DOMAIN base = {"sim", "remaining"} /\ base.sim = s /\ base.remaining = o.qty
    OBVIOUS
  <2> HIDE DEF base
  <2>2. Position(a) \in Int /\ Inventory(a) \in Int
    <3>1. MaxInventory \in Nat
      BY Constants
    <3> HIDE DEF a
    <3> QED
      BY <1>2, <3>1, AccountTyped
  <2>3. Moved(o.side, o.qty - base.remaining, Position(a), Inventory(a), Position(a), Inventory(a))
    <3>1. o.qty - base.remaining = 0 /\ Sign(o.side) * 0 = 0
      BY <1>1, <2>1, SignOf
    <3> HIDE DEF a
    <3> QED
      BY <2>2, <3>1 DEF Moved
  <2>4. Later(c.m, base.sim) = a
    BY <1>4, <2>1
  <2> HIDE DEF a
  <2> QED
    BY <1>1, <1>4, <2>1, <2>3, <2>4 DEF TakeGood
<1> HIDE DEF base, a
<1>7. \A k \in 1 .. n : \A y : TakeGood(c, k - 1, y) => TakeGood(c, k, TakeStep(c, y, list[k]))
  <2> TAKE k \in 1 .. n
  <2> TAKE y
  <2> HAVE TakeGood(c, k - 1, y)
  <2> DEFINE l == list[k]
             j == k - 1
  <2>1. l.price \in Nat \ {0} /\ l.qty \in Nat \ {0} /\ TakeGood(c, j, y)
    BY <1>3
  <2>2. IsRequest(c.o) /\ Account(c.m) /\ Account(c.a)
    BY <1>2, <1>4
  <2> HIDE DEF l, j
  <2>3. TakeGood(c, k, TakeStep(c, y, l))
    BY <2>1, <2>2, TakeKeeps
  <2> QED
    BY <2>3 DEF l
<1>8. TakeGood(c, n, Taking!Fold(c, base, list))
  BY <1>3, <1>6, <1>7, Taking!FoldInduction
<1>9. TakeGood(c, n, x)
  BY <1>5, <1>8
<1> QED
  BY <1>4, <1>9 DEF TakeGood, x, a

(* A quote: a limit order of the order size that rests.                    *)
IsQuote(o) == IsRequest(o) /\ o.type = "Limit" /\ o.tif = "GTC" /\ o.qty = OrderQty

(* A quote is submitted: it trades q of its size and rests with the        *)
(* others.                                                                 *)
LEMMA QuoteSubmitted ==
  ASSUME NEW m, Account(m), NEW s, SimTyped(s), NEW o, IsQuote(o), o.id \notin DOMAIN s.resting
  PROVE  LET r == Sim!SubmitOrder(s, o)
             a == Later(m, s)
             b == Later(m, r)
         IN  \E n \in 0 .. OrderQty : \E q :
                /\ q = OrderQty - n
                /\ Rested(s.resting, r.resting, o.id, o.side, n)
                /\ Moved(o.side, q, Position(a), Inventory(a), Position(b), Inventory(b))
<1> DEFINE r == Sim!SubmitOrder(s, o)
           y == Sim!Emit(s, "OrderAck", o.id, o.side)
           x == Sim!MatchOrder(y, o)
           a == Later(m, s)
           b == Later(m, r)
           n == x.remaining
           e == Sim!SimEvent("OrderAck", o.id, o.side, 0, 0, 0)
<1>1. /\ IsRequest(o) /\ o.type = "Limit" /\ o.tif = "GTC" /\ o.qty = OrderQty
      /\ o.id \in SimIds /\ o.side \in Sides /\ OrderQty \in Nat
  BY Constants DEF IsQuote, IsRequest, Requests
<1>2. Reports1(s, y, s.resting, e) /\ e.kind = "OrderAck"
  BY <1>1, EmitEffect
<1>3. r = IF n > 0 THEN Sim!Rest(x.sim, o, n) ELSE x.sim
  BY <1>1 DEF Sim!SubmitOrder, Sim!Unfillable, Sim!Rests
<1> HIDE DEF e, y
<1>4. SimTyped(y) /\ y.resting = s.resting /\ Later(m, y) = a
  <2>1. /\ SimTyped(y) /\ y.resting = s.resting /\ y.pending = Append(s.pending, e)
        /\ e \in Reports /\ s.pending \in Seq(Reports)
    BY <1>2 DEF Reports1, SimTyped
  <2> QED
    BY <1>2, <2>1, BankedSame DEF Later
<1>5. /\ SimTyped(x.sim) /\ x.sim.resting = s.resting
      /\ n \in 0 .. OrderQty
      /\ Moved(o.side, OrderQty - n, Position(a), Inventory(a),
               Position(Later(m, x.sim)), Inventory(Later(m, x.sim)))
  <2> HIDE DEF a
  <2> QED
    BY <1>1, <1>4, Taken
<1> HIDE DEF x, a, r, n
<1>6. Rested(s.resting, r.resting, o.id, o.side, n) /\ Later(m, r) = Later(m, x.sim)
  <2>1. CASE n = 0
    <3>1. r = x.sim
      BY <1>3, <2>1
    <3>2. s.resting \in [DOMAIN s.resting -> Resting]
      BY DEF SimTyped
    <3> QED
      BY <1>5, <2>1, <3>1, <3>2 DEF Rested
  <2>2. CASE n # 0
    <3> DEFINE z == x.sim
    <3>1. n \in Nat \ {0} /\ r = Sim!Rest(z, o, n) /\ SimTyped(z) /\ z.resting = s.resting
      BY <1>1, <1>3, <1>5, <2>2
    <3> HIDE DEF z
    <3>2. /\ SimTyped(r) /\ r.pending = z.pending
          /\ DOMAIN r.resting = DOMAIN z.resting \cup {o.id}
          /\ r.resting[o.id] = [side |-> o.side, price |-> o.price, remaining |-> n]
          /\ \A id \in DOMAIN z.resting \ {o.id} : r.resting[id] = z.resting[id]
      BY <1>1, <3>1, RestEffect
    <3>3. r.resting \in [DOMAIN r.resting -> Resting]
      BY <3>2 DEF SimTyped
    <3>4. Rested(s.resting, r.resting, o.id, o.side, n)
      BY <2>2, <3>1, <3>2, <3>3 DEF Rested
    <3> QED
      BY <3>2, <3>4 DEF Later, z
  <2> QED
    BY <2>1, <2>2
<1> QED
  BY <1>5, <1>6 DEF r, a, n

-----------------------------------------------------------------------------
(* The hot path's commands reach the exchange.                             *)

(* The commands of one answer: CANCEL_ALL, then a bid, then an ask.        *)
Batch(cs) ==
  /\ Pair(cs)
  /\ \A i \in DOMAIN cs : (cs[i].tag = "PLACE" /\ cs[i].side = "Sell") => cs[i].price \in Nat
  /\ \A i, j \in DOMAIN cs :
       (i < j /\ cs[i].tag = "PLACE" /\ cs[j].tag = "PLACE")
         => cs[i].side = "Buy" /\ cs[j].side = "Sell"

(* The orders of the backtest as the exchange's invariant sees them.       *)
Venue(x, prices) == [orders |-> x.orders, prices |-> prices, requests |-> x.requests]

(* x = [sim, orders, next, requests].                                      *)
Trading1(m, prices, x) ==
  /\ DOMAIN x = {"sim", "orders", "next", "requests"}
  /\ VenueInv(Venue(x, prices), x.sim)
  /\ IdsBelow(x.orders, x.next)
  /\ LodgedAt(m, x.sim)

(* A quote still to be placed on that side.                                *)
ToCome(cs, k, side) == \E j \in DOMAIN cs : j > k /\ cs[j].tag = "PLACE" /\ cs[j].side = side

(* The commands as a fold.                                                 *)
CommandStep(c, x, cmd) == BacktestCommand(x, cmd)

(* c = [m, prices, cs]                                                     *)
CommandGood(c, k, x) ==
  /\ Trading1(c.m, c.prices, x)
  /\ k = 0 => FedAt(c.m, x.sim) /\ DOMAIN x.sim.resting \subseteq Eng!OpenOrderIds(x.orders)
  /\ \/ k = 0 /\ Cancels(c.cs)
     \/ /\ ToCome(c.cs, k, "Buy") => CalmAt(c.m, x.sim)
        /\ ToCome(c.cs, k, "Sell") => BiddingAt(c.m, x.sim)

Commanding == INSTANCE FoldFacts WITH Step <- CommandStep, Good <- CommandGood, Term <- Share

(* The loop over the commands as a fold.                                   *)
LEMMA CommandsIsFold ==
  ASSUME NEW c, NEW x, NEW cs
  PROVE  FoldLeft(BacktestCommand, x, cs) = Commanding!Fold(c, x, cs)
  BY DEF FoldLeft, Commanding!Fold, MapThenFoldSet,
         Commanding!MapThenFoldSet, Max, Commanding!Max, CommandStep

(* With nothing resting, Calm is Bidding and Lodged.                       *)
LEMMA EmptyBook ==
  ASSUME "backtest" \in Modes, NEW p, NEW h, NEW resting, Calm(p, h, resting),
         resting \in [DOMAIN resting -> Resting]
  PROVE  Bidding(p, h, resting) /\ Lodged(p, h, resting)
<1>1. DOMAIN resting = {}
  BY DEF Calm
<1>2. resting \in [{} -> Resting]
  BY <1>1
<1>3. Bidding(p, h, resting)
  BY <1>2, CalmBidding
<1> QED
  BY <1>3, BiddingLodged

(* The order a command places.                                             *)
LEMMA QuoteOrderIsQuote ==
  ASSUME NEW next \in Nat \ {0}, NEW cmd, cmd.side \in Sides, cmd.price \in Int,
         cmd.side = "Sell" => cmd.price \in Nat
  PROVE  LET o == QuoteOrder(Eng!LocalOrderId("Simulated", next), cmd)
         IN  /\ IsQuote(o) /\ o.id = <<"Simulated", next>> /\ o.side = cmd.side
<1> DEFINE i == Eng!LocalOrderId("Simulated", next)
           o == QuoteOrder(i, cmd)
<1>1. i = <<"Simulated", next>> /\ i \in SimIds
  BY DEF Eng!LocalOrderId, SimIds
<1> HIDE DEF i
<1>2. /\ o.id = i /\ o.side = cmd.side /\ o.type = "Limit" /\ o.tif = "GTC"
      /\ o.price = cmd.price /\ o.qty = OrderQty
  BY DEF QuoteOrder
<1>3. "Limit" \in Sim!OrderTypes /\ "GTC" \in Sim!TimesInForce /\ OrderQty \in Nat \ {0}
  BY TradingAssumption DEF TradingAssumption, Sim!OrderTypes, Sim!TimesInForce
<1>4. o \in Requests
  BY <1>1, <1>3 DEF QuoteOrder, Requests
<1> QED
  BY <1>1, <1>2, <1>4 DEF IsQuote, IsRequest, i

(* CANCEL_ALL.                                                             *)
LEMMA CancelTick ==
  ASSUME "backtest" \in Modes, NEW m, Account(m), NEW prices, NEW x, Trading1(m, prices, x),
         FedAt(m, x.sim), DOMAIN x.sim.resting \subseteq Eng!OpenOrderIds(x.orders),
         NEW cmd, cmd.tag = "CANCEL_ALL"
  PROVE  LET y == BacktestCommand(x, cmd)
         IN  Trading1(m, prices, y) /\ CalmAt(m, y.sim) /\ BiddingAt(m, y.sim)
<1> DEFINE S == Eng!OpenOrderIds(x.orders)
           s == FoldLeft(Sim!CancelOrder, x.sim, SetToSeq(S))
           y == BacktestCommand(x, cmd)
           w == Venue(x, prices)
           b == Later(m, s)
<1>1. y = [x EXCEPT !.sim = s]
  BY DEF BacktestCommand
<1> HIDE DEF s, y
<1>2. /\ y.sim = s /\ y.orders = x.orders /\ y.next = x.next /\ y.requests = x.requests
      /\ DOMAIN y = {"sim", "orders", "next", "requests"}
  BY <1>1 DEF Trading1
<1>3. VenueInv(w, x.sim) /\ IdsBelow(x.orders, x.next) /\ SimTyped(x.sim)
  BY DEF Trading1, VenueInv, VenueBut
<1>4. IsFiniteSet(S)
  <2>1. S \subseteq DOMAIN x.orders
    BY DEF Eng!OpenOrderIds
  <2>2. IsFiniteSet(DOMAIN x.orders)
    BY <1>3 DEF IdsBelow
  <2> QED
    BY <2>1, <2>2, FS_Subset
<1> HIDE DEF S
<1>5. VenueInv(w, s) /\ DOMAIN s.resting = {}
  <2>1. DOMAIN x.sim.resting \subseteq S
    BY DEF S
  <2> HIDE DEF w
  <2> DEFINE r == x.sim
  <2>2. VenueInv(w, r) /\ DOMAIN r.resting \subseteq S
    BY <1>3, <2>1
  <2>3. s = FoldLeft(Sim!CancelOrder, r, SetToSeq(S))
    BY DEF s
  <2> HIDE DEF r
  <2> QED
    BY <1>4, <2>2, <2>3, VenueCancelAll
<1>6. b = Later(m, x.sim)
  <2> DEFINE r == x.sim
  <2>1. SimTyped(r) /\ s = FoldLeft(Sim!CancelOrder, r, SetToSeq(S))
    BY <1>3 DEF s
  <2> HIDE DEF r
  <2>2. Later(m, s) = Later(m, r)
    BY <1>4, <2>1, Cleared
  <2> QED
    BY <2>2 DEF r
<1> HIDE DEF b
<1>7. Calm(Position(b), Inventory(b), s.resting)
  BY <1>5, <1>6, CalmFed DEF FedAt
<1>8. s.resting \in [DOMAIN s.resting -> Resting]
  BY <1>5 DEF VenueInv, VenueBut, SimTyped
<1>9. Bidding(Position(b), Inventory(b), s.resting) /\ Lodged(Position(b), Inventory(b), s.resting)
  BY <1>7, <1>8, EmptyBook
<1>10. CalmAt(m, s) /\ BiddingAt(m, s) /\ LodgedAt(m, s)
  BY <1>7, <1>9 DEF CalmAt, BiddingAt, LodgedAt, b
<1>11. Venue(y, prices) = w
  BY <1>2 DEF Venue
<1> HIDE DEF w
<1> QED
  BY <1>2, <1>3, <1>5, <1>10, <1>11 DEF Trading1, y

(* A quote is placed.                                                      *)
LEMMA PlaceTick ==
  ASSUME "backtest" \in Modes, NEW m, Account(m), NEW prices, NEW x, Trading1(m, prices, x),
         NEW cmd, cmd.tag = "PLACE", cmd.side \in Sides, cmd.price \in Int,
         cmd.side = "Sell" => cmd.price \in Nat,
         cmd.side = "Buy" => CalmAt(m, x.sim),
         cmd.side = "Sell" => BiddingAt(m, x.sim)
  PROVE  LET y == BacktestCommand(x, cmd)
         IN  /\ Trading1(m, prices, y)
             /\ cmd.side = "Buy" => BiddingAt(m, y.sim)
<1> DEFINE o == QuoteOrder(Eng!LocalOrderId("Simulated", x.next), cmd)
           y == BacktestCommand(x, cmd)
           w == Venue(x, prices)
           s == x.sim
           r == Sim!SubmitOrder(s, o)
           a == Later(m, s)
           b == Later(m, r)
<1>1. y = Submit(x, o)
  BY DEF BacktestCommand
<1>0. DOMAIN y = {"sim", "orders", "next", "requests"}
  BY <1>1 DEF Submit
<1>2. VenueInv(w, s) /\ IdsBelow(x.orders, x.next) /\ SimTyped(s) /\ x.next \in Nat \ {0}
  BY DEF Trading1, VenueInv, VenueBut, IdsBelow
<1>3. IsQuote(o) /\ o.id = <<"Simulated", x.next>> /\ o.side = cmd.side
  BY <1>2, QuoteOrderIsQuote
<1> HIDE DEF o, y
<1>4. o.id \notin DOMAIN s.resting
  <2>1. \A k \in Nat : k < x.next => k # x.next
    BY <1>2
  <2>2. \A id \in DOMAIN x.orders : \E k \in Nat : k < x.next /\ id = <<"Simulated", k>>
    BY <1>2 DEF IdsBelow
  <2>3. o.id \notin DOMAIN x.orders
    BY <1>3, <2>1, <2>2
  <2>4. DOMAIN s.resting \subseteq DOMAIN w.requests /\ DOMAIN w.orders = DOMAIN w.requests
    BY <1>2 DEF VenueInv, VenueBut
  <2>5. w.orders = x.orders
    BY DEF Venue
  <2> QED
    BY <2>3, <2>4, <2>5
<1>5. /\ VenueInv(Venue(y, prices), y.sim) /\ IdsBelow(y.orders, y.next) /\ y.sim = r
  <2>1. IsRequest(o)
    BY <1>3 DEF IsQuote
  <2>2. VenueInv([orders |-> x.orders, prices |-> prices, requests |-> x.requests], x.sim)
    BY <1>2 DEF Venue
  <2> QED
    BY <1>1, <1>2, <1>3, <2>1, <2>2, SubmitKeeps DEF Venue
<1>6. PICK n \in 0 .. OrderQty : \E q :
                /\ q = OrderQty - n
                /\ Rested(s.resting, r.resting, o.id, o.side, n)
                /\ Moved(o.side, q, Position(a), Inventory(a), Position(b), Inventory(b))
  <2> HIDE DEF s
  <2> QED
    BY <1>2, <1>3, <1>4, QuoteSubmitted
<1>9. PICK q : /\ q = OrderQty - n
                /\ Rested(s.resting, r.resting, o.id, o.side, n)
                /\ Moved(o.side, q, Position(a), Inventory(a), Position(b), Inventory(b))
  BY <1>6
<1> HIDE DEF a, b, r, s
<1>7. CASE cmd.side = "Buy"
  <2>1. Calm(Position(a), Inventory(a), s.resting)
    BY <1>7 DEF CalmAt, a, s
  <2>2. Bidding(Position(b), Inventory(b), r.resting)
    BY <1>3, <1>7, <1>9, <2>1, BidPlaced
  <2>3. Lodged(Position(b), Inventory(b), r.resting)
    BY <2>2, BiddingLodged
  <2> QED
    BY <1>0, <1>5, <2>2, <2>3 DEF Trading1, BiddingAt, LodgedAt, b, y
<1>8. CASE cmd.side = "Sell"
  <2>1. Bidding(Position(a), Inventory(a), s.resting)
    BY <1>8 DEF BiddingAt, a, s
  <2>2. Lodged(Position(b), Inventory(b), r.resting)
    BY <1>3, <1>8, <1>9, <2>1, AskPlaced
  <2> QED
    BY <1>0, <1>5, <1>8, <2>2 DEF Trading1, LodgedAt, b, y
<1> QED
  BY <1>7, <1>8 DEF Sides

(* One command of the batch.                                               *)
LEMMA CommandKeeps ==
  ASSUME "backtest" \in Modes, NEW c, Account(c.m), Batch(c.cs),
         NEW k \in DOMAIN c.cs, NEW j \in Nat, k = j + 1, NEW x, CommandGood(c, j, x)
  PROVE  CommandGood(c, k, CommandStep(c, x, c.cs[k]))
<1> DEFINE cs == c.cs
           cmd == cs[k]
           y == BacktestCommand(x, cmd)
<1>1. /\ cs \in Seq({HP!CancelAll} \cup [tag: {"PLACE"}, side: Sides, price: Int])
      /\ \A i \in DOMAIN cs : cs[i].tag = "CANCEL_ALL" => i = 1
      /\ \A i \in DOMAIN cs : (cs[i].tag = "PLACE" /\ cs[i].side = "Sell") => cs[i].price \in Nat
      /\ \A i, l \in DOMAIN cs :
           (i < l /\ cs[i].tag = "PLACE" /\ cs[l].tag = "PLACE")
             => cs[i].side = "Buy" /\ cs[l].side = "Sell"
  BY DEF Batch, Pair
<1>2. k \in Nat /\ k \in DOMAIN cs /\ j < k
  BY <1>1
<1>3. \/ cmd.tag = "CANCEL_ALL"
      \/ /\ cmd.tag = "PLACE" /\ cmd.side \in Sides /\ cmd.price \in Int
         /\ cmd.side = "Sell" => cmd.price \in Nat
  <2>1. cmd \in {HP!CancelAll} \cup [tag: {"PLACE"}, side: Sides, price: Int]
    BY <1>1
  <2>2. HP!CancelAll.tag = "CANCEL_ALL"
    BY DEF HP!CancelAll
  <2> QED
    BY <1>1, <2>1, <2>2
<1>4. /\ Trading1(c.m, c.prices, x)
      /\ j = 0 => FedAt(c.m, x.sim) /\ DOMAIN x.sim.resting \subseteq Eng!OpenOrderIds(x.orders)
      /\ \/ j = 0 /\ Cancels(cs)
         \/ /\ ToCome(cs, j, "Buy") => CalmAt(c.m, x.sim)
            /\ ToCome(cs, j, "Sell") => BiddingAt(c.m, x.sim)
  BY DEF CommandGood
<1> HIDE DEF cs
<1>5. CASE cmd.tag = "CANCEL_ALL"
  <2>1. k = 1 /\ j = 0
    BY <1>1, <1>2, <1>5
  <2>2. Trading1(c.m, c.prices, y) /\ CalmAt(c.m, y.sim) /\ BiddingAt(c.m, y.sim)
    <3> HIDE DEF cmd
    <3> QED
      BY <1>4, <1>5, <2>1, CancelTick
  <2> HIDE DEF y
  <2> QED
    BY <2>1, <2>2 DEF CommandGood, CommandStep, y, cs
<1>6. CASE cmd.tag = "PLACE"
  <2>1. ~(j = 0 /\ Cancels(cs))
    <3>1. HP!CancelAll.tag = "CANCEL_ALL"
      BY DEF HP!CancelAll
    <3> QED
      BY <1>6, <3>1 DEF Cancels
  <2>2. ToCome(cs, j, cmd.side)
    BY <1>2, <1>6 DEF ToCome
  <2>3. /\ cmd.side = "Buy" => CalmAt(c.m, x.sim)
        /\ cmd.side = "Sell" => BiddingAt(c.m, x.sim)
    BY <1>4, <2>1, <2>2
  <2>4. /\ cmd.side \in Sides /\ cmd.price \in Int
        /\ cmd.side = "Sell" => cmd.price \in Nat
    BY <1>3, <1>6
  <2>5. /\ Trading1(c.m, c.prices, y)
        /\ cmd.side = "Buy" => BiddingAt(c.m, y.sim)
    <3> HIDE DEF cmd
    <3> QED
      BY <1>4, <1>6, <2>3, <2>4, PlaceTick
  <2>6. ~ToCome(cs, k, "Buy") /\ (ToCome(cs, k, "Sell") => cmd.side = "Buy")
    BY <1>1, <1>6 DEF ToCome
  <2> HIDE DEF y
  <2> QED
    BY <1>2, <2>5, <2>6 DEF CommandGood, CommandStep, y, cs
<1> QED
  BY <1>3, <1>5, <1>6

(* A batch, executed whole.                                                *)
LEMMA CommandsKept ==
  ASSUME "backtest" \in Modes, NEW m, Account(m), NEW prices, NEW x, Trading1(m, prices, x),
         FedAt(m, x.sim), DOMAIN x.sim.resting \subseteq Eng!OpenOrderIds(x.orders),
         NEW cs, Batch(cs), Cancels(cs) \/ DOMAIN x.sim.resting = {}
  PROVE  Trading1(m, prices, FoldLeft(BacktestCommand, x, cs))
<1> DEFINE c == [m |-> m, prices |-> prices, cs |-> cs]
           n == Len(cs)
<1>1. c.m = m /\ c.prices = prices /\ c.cs = cs
  OBVIOUS
<1>2. DOMAIN cs = 1 .. n /\ n \in Nat
  BY DEF Batch, Pair
<1> HIDE DEF c, n
<1>3. CommandGood(c, 0, x)
  <2>1. CASE Cancels(cs)
    BY <1>1, <2>1 DEF CommandGood
  <2>2. CASE DOMAIN x.sim.resting = {}
    <3> DEFINE b == Later(m, x.sim)
               r == x.sim.resting
    <3>1. Calm(Position(b), Inventory(b), r)
      <4>1. Fed(Position(b), Inventory(b), r) /\ DOMAIN r = {}
        BY <2>2 DEF FedAt
      <4> HIDE DEF b, r
      <4> QED
        BY <4>1, CalmFed
    <3>2. r \in [DOMAIN r -> Resting]
      BY DEF Trading1, VenueInv, VenueBut, SimTyped
    <3> HIDE DEF b, r
    <3>3. Bidding(Position(b), Inventory(b), r)
      BY <3>1, <3>2, EmptyBook
    <3> QED
      BY <1>1, <3>1, <3>3 DEF CommandGood, CalmAt, BiddingAt, b, r
  <2> QED
    BY <2>1, <2>2
<1>4. \A k \in 1 .. n : \A y : CommandGood(c, k - 1, y) => CommandGood(c, k, CommandStep(c, y, cs[k]))
  <2> TAKE k \in 1 .. n
  <2> TAKE y
  <2> HAVE CommandGood(c, k - 1, y)
  <2> DEFINE j == k - 1
  <2>1. j \in Nat /\ k = j + 1 /\ k \in DOMAIN c.cs /\ CommandGood(c, j, y)
    BY <1>1, <1>2
  <2>2. Account(c.m) /\ Batch(c.cs)
    BY <1>1
  <2> HIDE DEF j
  <2>3. CommandGood(c, k, CommandStep(c, y, c.cs[k]))
    BY <2>1, <2>2, CommandKeeps
  <2> QED
    BY <1>1, <2>3
<1>5. CommandGood(c, n, Commanding!Fold(c, x, cs))
  BY <1>2, <1>3, <1>4, Commanding!FoldInduction
<1>6. Trading1(m, prices, Commanding!Fold(c, x, cs))
  BY <1>1, <1>5 DEF CommandGood
<1> QED
  BY <1>6, CommandsIsFold

-----------------------------------------------------------------------------
(* The backtest drains the reports: tracker and history as Seen says, the  *)
(* books and the inventory as Banked says.                                 *)

(* The reports as a fold.                                                  *)
DrainStep(c, d, e) == BacktestEvent(d, e)

(* The drained state has the money m.                                      *)
SameBooks(d, m) == d.hp = m.hp /\ d.ledger = m.ledger /\ d.hist.cash = m.cash

(* c = [ids, st, ms, requests]: the orders, their views, the books report  *)
(* by report, the requests.                                                *)
DrainGood(c, k, d) ==
  /\ OrdersAsSeen(c.ids, c.st, k, d.orders)
  /\ PricesAsSeen(c.ids, c.st, k, d.hist)
  /\ DOMAIN d = {"orders", "hp", "ledger", "hist"}
  /\ DOMAIN d.hist = DOMAIN NoHistory
  /\ d.hist.requests = c.requests
  /\ SameBooks(d, c.ms[k])

Draining == INSTANCE FoldFacts WITH Step <- DrainStep, Good <- DrainGood, Term <- Share

(* The loop over the reports as a fold.                                    *)
LEMMA DrainIsFold ==
  ASSUME NEW c, NEW d, NEW p
  PROVE  FoldLeft(BacktestEvent, d, p) = Draining!Fold(c, d, p)
  BY DEF FoldLeft, Draining!Fold, MapThenFoldSet,
         Draining!MapThenFoldSet, Max, Draining!Max, DrainStep

(* One report.                                                             *)
LEMMA EventMoves ==
  ASSUME NEW d, DOMAIN d = {"orders", "hp", "ledger", "hist"}, DOMAIN d.hist = DOMAIN NoHistory,
         NEW e, NEW m, SameBooks(d, m)
  PROVE  LET r == BacktestEvent(d, e)
         IN  /\ DOMAIN r = DOMAIN d
             /\ r.orders = Eng!ProcessEvent(d.orders, e)
             /\ SameBooks(r, BankStep(0, m, e))
             /\ \E h : /\ DOMAIN h = DOMAIN NoHistory /\ h.prices = d.hist.prices
                       /\ h.requests = d.hist.requests
                       /\ r.hist = TradedIn(h, e)
<1> DEFINE r == BacktestEvent(d, e)
           t == Eng!ProcessEvent(d.orders, e)
           g == d.hist
           h == CountCash(g, d.ledger, e, Acc!BacktestUnit)
<1>1. m.hp = d.hp /\ m.ledger = d.ledger /\ m.cash = g.cash
  BY DEF SameBooks
<1>2. CASE e.kind # "OrderFill"
  <2>1. r = [d EXCEPT !.orders = t]
    BY <1>2 DEF BacktestEvent
  <2> HIDE DEF t
  <2>2. DOMAIN r = DOMAIN d /\ r.orders = t /\ r.hp = d.hp /\ r.ledger = d.ledger /\ r.hist = g
    BY <2>1
  <2>3. SameBooks(r, m) /\ BankStep(0, m, e) = m
    BY <1>1, <1>2, <2>2 DEF SameBooks, BankStep
  <2>4. g = TradedIn(g, e)
    BY <1>2 DEF TradedIn
  <2> HIDE DEF r
  <2> QED
    BY <2>2, <2>3, <2>4 DEF r, t
<1>3. CASE e.kind = "OrderFill"
  <2>1. r = [ orders |-> t, hp |-> HP!OnFill(d.hp, e.side, e.qty),
              ledger |-> Acc!BacktestFill(d.ledger, e), hist |-> Traded(h, e) ]
    BY <1>3 DEF BacktestEvent
  <2>2. /\ DOMAIN h = DOMAIN g /\ h.prices = g.prices /\ h.requests = g.requests
        /\ h.cash = g.cash + Money(d.ledger, e)
    BY DEF CountCash, NoHistory, Money
  <2> HIDE DEF t, h
  <2>3. /\ DOMAIN r = DOMAIN d /\ r.orders = t
        /\ r.hp = HP!OnFill(d.hp, e.side, e.qty) /\ r.ledger = Acc!BacktestFill(d.ledger, e)
        /\ r.hist = Traded(h, e)
    BY <2>1
  <2>4. Traded(h, e) = TradedIn(h, e)
    BY <1>3 DEF TradedIn
  <2> HIDE DEF r
  <2>5. r.hist.cash = h.cash
    <3>1. "prices" \in DOMAIN h /\ "cash" \in DOMAIN h \ {"prices"}
      BY <2>2 DEF NoHistory
    <3>2. TradedIn(h, e)["cash"] = h["cash"]
      BY <3>1, TradedFrame
    <3> QED
      BY <2>3, <2>4, <3>2
  <2>6. SameBooks(r, BankStep(0, m, e))
    BY <1>1, <1>3, <2>2, <2>3, <2>5 DEF SameBooks, BankStep
  <2> QED
    BY <2>2, <2>3, <2>4, <2>6 DEF r, t
<1> QED
  BY <1>2, <1>3

(* One report drained.                                                     *)
LEMMA DrainKeeps ==
  ASSUME NEW w, NEW p \in Seq(Reports), NEW st, Views(w, p, st),
         NEW c, c.ids = DOMAIN w.requests, c.st = st,
         NEW k \in 1 .. Len(p), NEW j, j = k - 1, p[k].id \in DOMAIN w.requests,
         c.ms[k] = BankStep(0, c.ms[j], p[k]),
         NEW d, DrainGood(c, j, d)
  PROVE  DrainGood(c, k, DrainStep(c, d, p[k]))
<1> DEFINE e == p[k]
           r == BacktestEvent(d, e)
           D == DOMAIN w.requests
<1>1. /\ OrdersAsSeen(D, st, j, d.orders) /\ PricesAsSeen(D, st, j, d.hist)
      /\ DOMAIN d = {"orders", "hp", "ledger", "hist"} /\ DOMAIN d.hist = DOMAIN NoHistory
      /\ d.hist.requests = c.requests
      /\ SameBooks(d, c.ms[j])
  BY DEF DrainGood
<1>2. /\ DOMAIN r = DOMAIN d
      /\ r.orders = Eng!ProcessEvent(d.orders, e)
      /\ SameBooks(r, BankStep(0, c.ms[j], e))
  BY <1>1, EventMoves
<1>3. PICK h : /\ DOMAIN h = DOMAIN NoHistory /\ h.prices = d.hist.prices
               /\ h.requests = d.hist.requests
               /\ r.hist = TradedIn(h, e)
  BY <1>1, EventMoves
<1> HIDE DEF r, D
<1>4. OrdersAsSeen(D, st, k, r.orders)
  <2> DEFINE os == d.orders
  <2>1. OrdersAsSeen(DOMAIN w.requests, st, j, os)
    BY <1>1 DEF D
  <2> HIDE DEF os
  <2>2. OrdersAsSeen(DOMAIN w.requests, st, k, Eng!ProcessEvent(os, p[k]))
    BY <2>1, OrdersStep
  <2> QED
    BY <1>2, <2>2 DEF D, os
<1>5. {"prices", "requests"} \subseteq DOMAIN h
  BY <1>3 DEF NoHistory
<1>6. PricesAsSeen(D, st, j, h)
  BY <1>1, <1>3, <1>5 DEF PricesAsSeen
<1>7. PricesAsSeen(D, st, k, r.hist)
  <2>1. PricesAsSeen(DOMAIN w.requests, st, j, h)
    BY <1>6 DEF D
  <2>2. PricesAsSeen(DOMAIN w.requests, st, k, TradedIn(h, p[k]))
    BY <2>1, PricesStep
  <2> QED
    BY <1>3, <2>2 DEF D
<1>8. DOMAIN r.hist = DOMAIN NoHistory /\ r.hist.requests = c.requests
  <2>1. DOMAIN TradedIn(h, e) = DOMAIN h /\ TradedIn(h, e)["requests"] = h["requests"]
    BY <1>5, TradedFrame
  <2> QED
    BY <1>1, <1>3, <2>1
<1>9. SameBooks(r, c.ms[k])
  BY <1>2
<1> QED
  BY <1>1, <1>2, <1>4, <1>7, <1>8, <1>9 DEF DrainGood, DrainStep, r, D

(* Once drained, every order is in its place and the money is Later's.     *)
LEMMA BacktestDrains ==
  ASSUME NEW m, Account(m), NEW w, NEW s, VenueInv(w, s),
         NEW h, DOMAIN h = DOMAIN NoHistory, h.prices = w.prices, h.requests = w.requests,
         h.cash = m.cash,
         NEW d, d = FoldLeft(BacktestEvent, [orders |-> w.orders, hp |-> m.hp, ledger |-> m.ledger,
                                             hist |-> h], s.pending)
  PROVE  /\ VenueInv([orders |-> d.orders, prices |-> d.hist.prices, requests |-> d.hist.requests],
                     Sim!DrainEvents(s))
         /\ Sim!DrainEvents(s).pending = <<>> /\ Sim!DrainEvents(s).resting = s.resting
         /\ DOMAIN d.hist = DOMAIN NoHistory /\ DOMAIN d.orders = DOMAIN w.orders
         /\ SameBooks(d, Later(m, s))
<1> DEFINE p == s.pending
           n == Len(p)
           D == DOMAIN w.requests
           base == [orders |-> w.orders, hp |-> m.hp, ledger |-> m.ledger, hist |-> h]
<1>1. /\ p \in Seq(Reports) /\ DOMAIN w.orders = D /\ DOMAIN w.prices \subseteq D
      /\ \A i \in DOMAIN p : p[i].id \in D
  BY DEF VenueInv, VenueBut, SimTyped
<1> HIDE DEF p
<1>2. n \in Nat /\ DOMAIN p = 1 .. n
  BY <1>1
<1>3. PICK st : Views(w, p, st)
  BY <1>1, ViewsExist
<1>4. PICK ms : Banking!Run(ms, FlagsOf(m), m, p, n)
  <2> HIDE DEF n
  <2> QED
    BY <1>2, Banking!FoldSteps
<1>5. /\ ms[0] = m /\ ms[n] = Banked(m, p)
      /\ \A k \in 1 .. n : ms[k] = BankStep(0, ms[k - 1], p[k])
  BY <1>4 DEF Banking!Run, Banked, BankStep
<1> HIDE DEF D
<1>6. "prices" \in DOMAIN h /\ "requests" \in DOMAIN h
  BY DEF NoHistory
<1>7. OrdersAsSeen(D, st, 0, w.orders) /\ PricesAsSeen(D, st, 0, h)
  BY <1>1, <1>3, <1>6, AsSeenFirst DEF D
<1> DEFINE c == [ids |-> D, st |-> st, ms |-> ms, requests |-> h.requests]
<1>8. c.ids = D /\ c.st = st /\ c.ms = ms /\ c.requests = h.requests
  OBVIOUS
<1>9. /\ base.orders = w.orders /\ base.hp = m.hp /\ base.ledger = m.ledger /\ base.hist = h
      /\ DOMAIN base = {"orders", "hp", "ledger", "hist"}
  OBVIOUS
<1> HIDE DEF c, n, base
<1>10. SameBooks(base, m)
  BY <1>9 DEF SameBooks
<1>11. DrainGood(c, 0, base)
  BY <1>5, <1>7, <1>8, <1>9, <1>10 DEF DrainGood
<1>12. \A k \in 1 .. n : \A q : DrainGood(c, k - 1, q) => DrainGood(c, k, DrainStep(c, q, p[k]))
  <2> TAKE k \in 1 .. n
  <2> TAKE q
  <2> HAVE DrainGood(c, k - 1, q)
  <2> DEFINE j == k - 1
  <2>1. /\ p[k].id \in D /\ k \in 1 .. Len(p) /\ j = k - 1 /\ DrainGood(c, j, q)
        /\ c.ms[k] = BankStep(0, c.ms[j], p[k])
    BY <1>1, <1>2, <1>5, <1>8 DEF n
  <2> HIDE DEF j
  <2> QED
    BY <1>1, <1>3, <1>8, <2>1, DrainKeeps DEF D
<1>13. DrainGood(c, n, Draining!Fold(c, base, p))
  BY <1>2, <1>11, <1>12, Draining!FoldInduction
<1>14. DrainGood(c, n, d)
  BY <1>13, DrainIsFold DEF p, base
<1>15. /\ OrdersAsSeen(D, st, n, d.orders) /\ PricesAsSeen(D, st, n, d.hist)
       /\ DOMAIN d.hist = DOMAIN NoHistory /\ d.hist.requests = h.requests
       /\ SameBooks(d, ms[n])
  BY <1>8, <1>14 DEF DrainGood
<1> DEFINE k == d.hist
           x == [orders |-> d.orders, prices |-> k.prices, requests |-> k.requests]
<1>16. x.orders = d.orders /\ x.prices = k.prices /\ x.requests = w.requests
  BY <1>15
<1> HIDE DEF x, k
<1>17. VenueInv(x, Sim!DrainEvents(s)) /\ Sim!DrainEvents(s).pending = <<>>
       /\ Sim!DrainEvents(s).resting = s.resting
  <2>1. PricesAsSeen(DOMAIN w.requests, st, Len(s.pending), k)
    BY <1>15 DEF p, n, D, k
  <2>2. OrdersAsSeen(DOMAIN w.requests, st, Len(s.pending), x.orders)
    BY <1>15, <1>16 DEF p, n, D
  <2> QED
    BY <1>3, <1>16, <2>1, <2>2, VenueDrained DEF p
<1> QED
  BY <1>1, <1>5, <1>15, <1>17 DEF x, k, OrdersAsSeen, Later, p

-----------------------------------------------------------------------------
(* The backtest between two events of the recording.                       *)

(* The exchange's orders in their places, the books balanced, and a flat   *)
(* position is the inventory's.                                            *)
BacktestInv ==
  /\ VenueState
  /\ EngineInv(hp) /\ ~hp.vpin_enabled
  /\ Solvent(ledger, hist.cash)
  /\ Lodged(ledger.position_qty, hp.position_qty, sim.resting)
  /\ DOMAIN sim.resting # {} => hp.has_active_quotes

(* What the hot path answers to an event.                                  *)
Answer(e, r) ==
  /\ EngineInv(r.engine)
  /\ r.engine.position_qty = e.position_qty
  /\ r.engine.vpin_enabled = e.vpin_enabled
  /\ Batch(r.commands)
  /\ \/ r.commands = <<>> /\ r.engine.has_active_quotes = e.has_active_quotes
     \/ r.engine.has_active_quotes /\ (e.has_active_quotes => Cancels(r.commands))

(* No command is an answer.                                                *)
LEMMA EmptyBatch == Batch(<<>>)
<1>1. Pair(<<>>)
  BY CancelPair
<1> QED
  BY <1>1 DEF Batch

(* What the hot path answers to a book update.                             *)
LEMMA BookAnswer ==
  ASSUME NEW e, EngineInv(e), NEW u \in Updates
  PROVE  Answer(e, HP!OnBookUpdate(e, u))
<1> DEFINE r == HP!OnBookUpdate(e, u)
<1>1. /\ EngineInv(r.engine)
      /\ r.engine.position_qty = e.position_qty
      /\ r.engine.vpin_enabled = e.vpin_enabled
      /\ \/ /\ r.commands = <<>>
            /\ r.engine.has_active_quotes = e.has_active_quotes
         \/ /\ r.engine.has_active_quotes
            /\ \E bid \in Int, ask \in Nat :
                 r.commands = HP!QuoteCommands(e, bid, ask)
  BY OnBookKeepsEngine
<1> HIDE DEF r
<1>2. CASE r.commands = <<>> /\ r.engine.has_active_quotes = e.has_active_quotes
  BY <1>1, <1>2, EmptyBatch DEF Answer, r
<1>3. ASSUME r.engine.has_active_quotes,
             NEW bid \in Int, NEW ask \in Nat, r.commands = HP!QuoteCommands(e, bid, ask)
      PROVE  Answer(e, r)
  <2> DEFINE cs == r.commands
  <2>1. /\ Pair(cs)
        /\ e.has_active_quotes => Cancels(cs)
        /\ \A i \in DOMAIN cs : (cs[i].tag = "PLACE" /\ cs[i].side = "Sell") => cs[i].price \in Nat
        /\ \A i, j \in DOMAIN cs :
             (i < j /\ cs[i].tag = "PLACE" /\ cs[j].tag = "PLACE")
               => cs[i].side = "Buy" /\ cs[j].side = "Sell"
    BY <1>3, QuoteCommandsPair
  <2> HIDE DEF cs
  <2>2. Batch(cs)
    BY <2>1 DEF Batch
  <2> QED
    BY <1>1, <1>3, <2>1, <2>2 DEF Answer, cs
<1> QED
  BY <1>1, <1>2, <1>3 DEF r

(* And to a trade.                                                         *)
LEMMA TradeAnswer ==
  ASSUME NEW e, EngineInv(e), ~e.vpin_enabled, NEW t, t.side \in Sides, t.qty \in Nat
  PROVE  Answer(e, HP!OnTrade(e, t))
<1> DEFINE r == HP!OnTrade(e, t)
<1>1. /\ EngineInv(r.engine)
      /\ r.engine.position_qty = e.position_qty
      /\ r.engine.vpin_enabled = e.vpin_enabled
      /\ r.commands = <<>>
      /\ r.engine.has_active_quotes = e.has_active_quotes
  BY OnTradeKeepsEngine, ZenonT(30)
<1> HIDE DEF r
<1> QED
  BY <1>1, EmptyBatch DEF Answer, r

(* A position that is back at zero is the inventory's, and what rests is   *)
(* of the order size.                                                      *)
LEMMA LodgedFlat ==
  ASSUME "backtest" \in Modes, NEW h, NEW resting, Lodged(0, h, resting)
  PROVE  h = 0 /\ Fed(0, h, resting)
<1>1. /\ Lots(resting) /\ h = 0
      /\ \A id \in DOMAIN resting : resting[id].remaining \in Nat /\ resting[id].remaining <= OrderQty
  BY DEF Lodged, Lots, Resting
<1>2. OrderQty \in Nat
  BY QtyBounds
<1>3. Bounded(0, resting, OrderQty)
  BY <1>1, <1>2 DEF Bounded
<1> QED
  BY <1>1, <1>3 DEF Fed

(* What rests is open in the tracker.                                      *)
LEMMA RestingOpen ==
  ASSUME NEW w, NEW s, VenueInv(w, s), s.pending = <<>>
  PROVE  DOMAIN s.resting \subseteq Eng!OpenOrderIds(w.orders)
<1> SUFFICES ASSUME NEW id \in DOMAIN s.resting
             PROVE  id \in Eng!OpenOrderIds(w.orders)
  OBVIOUS
<1>1. id \in DOMAIN w.orders /\ id \in DOMAIN w.requests
  BY DEF VenueInv, VenueBut
<1>2. OrderGood(w.requests[id], s.resting, id, Seen(w, id, <<>>))
  BY <1>1 DEF VenueInv, VenueBut
<1>3. ViewOf(w, id).order.state \in {"Ack", "PartialFill"}
  BY <1>2, SeenNothing DEF OrderGood
<1>4. w.orders[id].state \in {"Ack", "PartialFill"}
  BY <1>3 DEF ViewOf
<1> QED
  BY <1>1, <1>4 DEF Eng!OpenOrderIds, Eng!Terminal

(* No command changes nothing.                                             *)
LEMMA CommandsNone ==
  ASSUME NEW x
  PROVE  FoldLeft(BacktestCommand, x, <<>>) = x
  BY CommandsIsFold, Commanding!FoldEmpty

(* The answer is executed, if the position was flat.                       *)
LEMMA Answered ==
  ASSUME "backtest" \in Modes, NEW m, Account(m), NEW prices, NEW x, Trading1(m, prices, x),
         NEW flat \in BOOLEAN, flat => FedAt(m, x.sim),
         DOMAIN x.sim.resting \subseteq Eng!OpenOrderIds(x.orders),
         NEW e, NEW r, Answer(e, r), m.hp = r.engine,
         DOMAIN x.sim.resting # {} => e.has_active_quotes, EngineInv(e),
         NEW y, y = IF flat THEN FoldLeft(BacktestCommand, x, r.commands) ELSE x
  PROVE  Trading1(m, prices, y) /\ (DOMAIN y.sim.resting # {} => r.engine.has_active_quotes)
<1>1. CASE r.commands = <<>> /\ r.engine.has_active_quotes = e.has_active_quotes
  <2>1. y = x
    BY <1>1, CommandsNone
  <2> QED
    BY <1>1, <2>1
<1>2. CASE r.engine.has_active_quotes /\ (e.has_active_quotes => Cancels(r.commands))
  <2>1. CASE ~flat
    BY <1>2, <2>1
  <2>2. CASE flat
    <3> DEFINE cs == r.commands
    <3>1. Batch(cs) /\ (Cancels(cs) \/ DOMAIN x.sim.resting = {}) /\ FedAt(m, x.sim)
      BY <1>2, <2>2 DEF Answer
    <3>2. y = FoldLeft(BacktestCommand, x, cs)
      BY <2>2
    <3> HIDE DEF cs
    <3> QED
      BY <1>2, <3>1, <3>2, CommandsKept
  <2> QED
    BY <2>1, <2>2
<1> QED
  BY <1>1, <1>2 DEF Answer

-----------------------------------------------------------------------------
(* The books as an event of the recording finds them.                      *)
MoneyNow(r) == [hp |-> r.engine, ledger |-> ledger, cash |-> hist.cash]

(* The money as an event of the recording finds it.                        *)
LEMMA MoneyNowGood ==
  ASSUME "backtest" \in Modes, BacktestInv, NEW r, Answer(hp, r)
  PROVE  LET m == MoneyNow(r)
         IN  /\ Account(m)
             /\ m.hp = r.engine /\ m.ledger = ledger /\ m.cash = hist.cash
             /\ LodgedAt(m, sim)
             /\ ledger.position_qty = 0 => FedAt(m, sim)
<1> DEFINE m == MoneyNow(r)
           p == ledger.position_qty
           h == hp.position_qty
           R == sim.resting
<1>1. m.hp = r.engine /\ m.ledger = ledger /\ m.cash = hist.cash
      /\ DOMAIN m = {"hp", "ledger", "cash"}
  BY DEF MoneyNow
<1> HIDE DEF m
<1>2. Account(m)
  BY <1>1 DEF Account, BacktestInv, Answer
<1>3. Later(m, sim) = m
  BY BankedNothing DEF Later, BacktestInv, VenueState
<1>4. Position(m) = p /\ Inventory(m) = h
  BY <1>1 DEF Position, Inventory, Answer
<1>5. Lodged(p, h, R)
  BY DEF BacktestInv
<1> HIDE DEF p, h, R
<1>6. p = 0 => Fed(p, h, R)
  BY <1>5, LodgedFlat
<1> QED
  BY <1>1, <1>2, <1>3, <1>4, <1>5, <1>6 DEF FedAt, LodgedAt, p, R, m

(* One event: matched, answered if flat, drained.                          *)
LEMMA BacktestStepKeeps ==
  ASSUME "backtest" \in Modes, BacktestInv, NEW fed, NEW r, Answer(hp, r), BacktestStep(fed, r),
         VenueInv(World, fed), DOMAIN fed.resting \subseteq DOMAIN sim.resting,
         LodgedAt(MoneyNow(r), fed), ledger.position_qty = 0 => FedAt(MoneyNow(r), fed)
  PROVE  BacktestInv'
<1> DEFINE m == MoneyNow(r)
           prices == hist.prices
           x == [sim |-> fed, orders |-> orders, next |-> next_local_id, requests |-> hist.requests]
           flat == ledger.position_qty = 0
           y == IF flat THEN FoldLeft(BacktestCommand, x, r.commands) ELSE x
           h == [hist EXCEPT !.requests = y.requests]
           base == [orders |-> y.orders, hp |-> r.engine, ledger |-> ledger, hist |-> h]
           d == FoldLeft(BacktestEvent, base, y.sim.pending)
           w == Venue(y, prices)
           s == y.sim
<1>1. /\ sim' = Sim!DrainEvents(s) /\ next_local_id' = y.next
      /\ orders' = d.orders /\ hp' = d.hp /\ ledger' = d.ledger /\ hist' = d.hist
  BY DEF BacktestStep, Executes
<1>2. /\ Account(m) /\ m.hp = r.engine /\ m.ledger = ledger /\ m.cash = hist.cash
  BY MoneyNowGood
<1>3. /\ x.sim = fed /\ x.orders = orders /\ x.next = next_local_id /\ x.requests = hist.requests
      /\ DOMAIN x = {"sim", "orders", "next", "requests"}
  OBVIOUS
<1>4. /\ VenueInv(World, sim) /\ sim.pending = <<>> /\ IdsBelow(orders, next_local_id)
      /\ DOMAIN hist = DOMAIN NoHistory /\ EngineInv(hp) /\ ~hp.vpin_enabled
      /\ DOMAIN sim.resting # {} => hp.has_active_quotes
  BY DEF BacktestInv, VenueState
<1> HIDE DEF x, m
<1>5. Venue(x, prices) = World
  BY <1>3 DEF Venue, World
<1>6. Trading1(m, prices, x)
  BY <1>3, <1>4, <1>5 DEF Trading1, m
<1>7. DOMAIN x.sim.resting \subseteq Eng!OpenOrderIds(x.orders)
  <2>1. DOMAIN sim.resting \subseteq Eng!OpenOrderIds(World.orders)
    BY <1>4, RestingOpen
  <2> QED
    BY <1>3, <2>1 DEF World
<1>8. Trading1(m, prices, y) /\ (DOMAIN s.resting # {} => r.engine.has_active_quotes)
  <2>1. flat => FedAt(m, x.sim)
    BY <1>3 DEF m
  <2>2. DOMAIN x.sim.resting # {} => hp.has_active_quotes
    BY <1>3, <1>4
  <2> DEFINE b == flat
             z == y
  <2>3. b \in BOOLEAN /\ z = IF b THEN FoldLeft(BacktestCommand, x, r.commands) ELSE x
    OBVIOUS
  <2> HIDE DEF b, z
  <2>4. b => FedAt(m, x.sim)
    BY <2>1 DEF b
  <2> DEFINE q == prices
             e == hp
  <2>5. Answer(e, r) /\ EngineInv(e) /\ (DOMAIN x.sim.resting # {} => e.has_active_quotes)
        /\ Trading1(m, q, x)
    BY <1>4, <1>6, <2>2
  <2> HIDE DEF q, e
  <2>6. Trading1(m, q, z) /\ (DOMAIN z.sim.resting # {} => r.engine.has_active_quotes)
    BY <1>2, <1>7, <2>3, <2>4, <2>5, Answered
  <2> QED
    BY <2>6 DEF z, b, q
<1> HIDE DEF y
<1>9. /\ w.orders = y.orders /\ w.prices = hist.prices /\ w.requests = y.requests
      /\ VenueInv(w, s) /\ IdsBelow(y.orders, y.next) /\ LodgedAt(m, s)
  BY <1>8 DEF Trading1, Venue
<1>10. /\ DOMAIN h = DOMAIN NoHistory /\ h.prices = hist.prices /\ h.requests = y.requests
       /\ h.cash = hist.cash
  BY <1>4 DEF NoHistory
<1> HIDE DEF w, h, s
<1>11. /\ VenueInv([orders |-> d.orders, prices |-> d.hist.prices, requests |-> d.hist.requests],
                   Sim!DrainEvents(s))
       /\ Sim!DrainEvents(s).pending = <<>> /\ Sim!DrainEvents(s).resting = s.resting
       /\ DOMAIN d.hist = DOMAIN NoHistory /\ DOMAIN d.orders = DOMAIN w.orders
       /\ SameBooks(d, Later(m, s))
  <2>1. d = FoldLeft(BacktestEvent, [orders |-> w.orders, hp |-> m.hp, ledger |-> m.ledger,
                                     hist |-> h], s.pending)
    BY <1>2, <1>9 DEF s
  <2> HIDE DEF d
  <2>2. h.prices = w.prices /\ h.requests = w.requests /\ h.cash = m.cash
    BY <1>2, <1>9, <1>10
  <2> QED
    BY <1>2, <1>9, <1>10, <2>1, <2>2, BacktestDrains
<1> HIDE DEF d
<1> DEFINE b == Later(m, s)
<1>12. /\ Account(b) /\ b.hp.has_active_quotes = r.engine.has_active_quotes
       /\ b.hp.vpin_enabled = r.engine.vpin_enabled
  <2>1. s.pending \in Seq(Reports)
    BY <1>9 DEF VenueInv, VenueBut, SimTyped
  <2> QED
    BY <1>2, <2>1, BankedKeeps DEF Later
<1>13. Lodged(Position(b), Inventory(b), s.resting)
  BY <1>9 DEF LodgedAt
<1> HIDE DEF b
<1>14. hp' = b.hp /\ ledger' = b.ledger /\ hist'.cash = b.cash
  BY <1>1, <1>11 DEF SameBooks, b
<1>15. VenueState'
  <2>1. VenueInv(World', sim') /\ sim'.pending = <<>>
    BY <1>1, <1>11 DEF World
  <2>2. IdsBelow(orders', next_local_id')
    BY <1>1, <1>9, <1>11 DEF IdsBelow
  <2>3. DOMAIN hist' = DOMAIN NoHistory
    BY <1>1, <1>11
  <2> QED
    BY <2>1, <2>2, <2>3 DEF VenueState, NoHistory
<1>16. EngineInv(hp') /\ ~hp'.vpin_enabled /\ Solvent(ledger', hist'.cash)
  BY <1>4, <1>12, <1>14 DEF Account, Answer
<1>17. Lodged(ledger'.position_qty, hp'.position_qty, sim'.resting)
  BY <1>1, <1>11, <1>13, <1>14 DEF Position, Inventory
<1>18. DOMAIN sim'.resting # {} => hp'.has_active_quotes
  BY <1>1, <1>8, <1>11, <1>12, <1>14 DEF s
<1> QED
  BY <1>15, <1>16, <1>17, <1>18 DEF BacktestInv

-----------------------------------------------------------------------------
(* A book update of the recording keeps the invariant.                     *)
LEMMA BacktestUpdateKeeps ==
  ASSUME "backtest" \in Modes, BacktestInv, NEW u \in BacktestUpdates, BacktestBookUpdate(u)
  PROVE  BacktestInv'
<1>1. u \in Updates
  BY InputAssumption DEF InputAssumption
<1>2. PICK order \in SetToSeqs(DOMAIN sim.resting) :
        BacktestStep(Sim!OnBookUpdate(sim, u, order), HP!OnBookUpdate(hp, u))
  BY DEF BacktestBookUpdate
<1> DEFINE fed == Sim!OnBookUpdate(sim, u, order)
           r == HP!OnBookUpdate(hp, u)
           m == MoneyNow(r)
           flat == ledger.position_qty = 0
           w == World
           s == sim
           e == hp
<1>3. BacktestStep(fed, r)
  BY <1>2
<1>4. VenueInv(w, s) /\ EngineInv(e) /\ order \in SetToSeqs(DOMAIN s.resting)
  BY <1>2 DEF BacktestInv, VenueState
<1>5. Answer(hp, r)
  <2> HIDE DEF e
  <2>1. Answer(e, HP!OnBookUpdate(e, u))
    BY <1>1, <1>4, BookAnswer
  <2> QED
    BY <2>1 DEF e
<1> HIDE DEF r
<1>6. Account(m) /\ LodgedAt(m, s) /\ (flat => FedAt(m, s))
  BY <1>5, MoneyNowGood
<1> HIDE DEF m
<1>7. /\ VenueInv(w, fed) /\ DOMAIN fed.resting \subseteq DOMAIN s.resting
      /\ flat => FedAt(m, fed)
      /\ LodgedAt(m, fed)
  <2> DEFINE b == flat
  <2>1. b \in BOOLEAN /\ (b => FedAt(m, s))
    BY <1>6
  <2> HIDE DEF b, w, s
  <2>2. /\ VenueInv(w, Sim!OnBookUpdate(s, u, order))
        /\ DOMAIN Sim!OnBookUpdate(s, u, order).resting \subseteq DOMAIN s.resting
        /\ b => FedAt(m, Sim!OnBookUpdate(s, u, order))
        /\ LodgedAt(m, Sim!OnBookUpdate(s, u, order))
    BY <1>1, <1>4, <1>6, <2>1, FedThrough
  <2> QED
    BY <2>2 DEF b, s, w
<1> HIDE DEF fed
<1> QED
  BY <1>3, <1>5, <1>7, BacktestStepKeeps DEF m

(* So does a trade.                                                        *)
LEMMA BacktestTradeKeeps ==
  ASSUME "backtest" \in Modes, BacktestInv, NEW t \in Trades, BacktestTrade(t)
  PROVE  BacktestInv'
<1>1. t.side \in Sides /\ t.qty \in Nat
  BY InputAssumption DEF InputAssumption
<1> DEFINE r == HP!OnTrade(hp, t)
           e == hp
<1>2. BacktestStep(sim, r)
  BY DEF BacktestTrade
<1>3. VenueInv(World, sim) /\ EngineInv(e) /\ ~e.vpin_enabled
  BY DEF BacktestInv, VenueState
<1>4. Answer(hp, r)
  <2> HIDE DEF e
  <2>1. Answer(e, HP!OnTrade(e, t))
    BY <1>1, <1>3, TradeAnswer
  <2> QED
    BY <2>1 DEF e
<1> HIDE DEF r
<1>5. LodgedAt(MoneyNow(r), sim) /\ (ledger.position_qty = 0 => FedAt(MoneyNow(r), sim))
  BY <1>4, MoneyNowGood
<1> QED
  BY <1>2, <1>3, <1>4, <1>5, BacktestStepKeeps

(* It holds at first.                                                      *)
LEMMA BacktestInit ==
  ASSUME Init, Backtest
  PROVE  BacktestInv
<1>1. VenueState
  BY VenueInit
<1>2. EngineInv(hp) /\ ~hp.vpin_enabled /\ hp.position_qty = 0
  <2>1. hp = HP!NewEngine(VpinEnabled /\ mode = "live")
    BY DEF Init
  <2>2. hp = HP!NewEngine(FALSE)
    BY <2>1 DEF Backtest
  <2> QED
    BY <2>2, NewEngineGood DEF HP!NewEngine
<1>3. /\ ledger = [position_qty |-> 0, cost_basis |-> 0, realized_pnl |-> 0, last_flat_pnl |-> 0,
                   losses |-> 0]
      /\ ledger \in Acc!Books /\ hist.cash = 0
  BY DEF Init, Acc!NewLedger, Acc!Books, NoHistory
<1>4. Solvent(ledger, hist.cash)
  BY <1>3 DEF Solvent
<1>5. DOMAIN sim.resting = {} /\ sim.resting \in [DOMAIN sim.resting -> Resting]
  <2>1. sim.resting = [id \in {} |-> 0]
    BY DEF Init, Sim!NewExchange, Sim!NoOrders
  <2> QED
    BY <2>1
<1>6. Lodged(ledger.position_qty, hp.position_qty, sim.resting)
  <2>1. "backtest" \in Modes
    BY DEF Init, Backtest
  <2>2. OrderQty \in Nat
    BY <2>1, QtyBounds
  <2>3. Calm(0, 0, sim.resting)
    BY <1>5, <2>2 DEF Calm
  <2>4. Lodged(0, 0, sim.resting)
    BY <1>5, <2>1, <2>3, EmptyBook
  <2> QED
    BY <1>2, <1>3, <2>4
<1> QED
  BY <1>1, <1>2, <1>4, <1>5, <1>6 DEF BacktestInv

-----------------------------------------------------------------------------
(* The inductive invariant: every mode has its own.                        *)

(* Outside the live loop the market maker, the router and the quotes of    *)
(* the loop are not used, in the harness neither are engine and books.     *)
Unused ==
  /\ MakerInv(mm) /\ mm.position_qty = 0
  /\ DOMAIN router = {}
  /\ DOMAIN quotes = {}

(* The inductive invariant: each mode has its own.                         *)
TradingInv ==
  /\ mode \in Modes
  /\ mode = "live" => QuotingInv /\ LiveInv /\ DOMAIN orders = {}
  /\ mode # "live" => Unused
  /\ mode = "harness" => VenueState /\ EngineInv(hp) /\ ledger \in Acc!Books
  /\ mode = "backtest" => BacktestInv

(* The modes are three.                                                    *)
LEMMA ModesKnown ==
  Modes \subseteq {"live", "backtest", "harness"}
  BY TradingAssumption DEF TradingAssumption

(* It holds at first.                                                      *)
LEMMA TradingInit ==
  ASSUME Init
  PROVE  TradingInv
<1>1. mode \in Modes
  BY DEF Init
<1>2. QuotingInv /\ LiveInv
  BY QuotingInit, LiveInit
<1>3. DOMAIN orders = {} /\ DOMAIN router = {} /\ DOMAIN quotes = {}
  BY DEF Init
<1>4. Unused
  <2>1. mm = Maker!NewMaker /\ MakerInv(mm)
    BY NewMakerGood DEF Init
  <2> QED
    BY <1>3, <2>1 DEF Unused, Maker!NewMaker
<1>5. VenueState
  BY VenueInit
<1>6. EngineInv(hp) /\ ledger \in Acc!Books
  BY <1>2 DEF QuotingInv, LiveInv
<1>7. mode = "backtest" => BacktestInv
  BY BacktestInit DEF Backtest
<1> QED
  BY <1>1, <1>2, <1>3, <1>4, <1>5, <1>6, <1>7 DEF TradingInv

(* Midnight leaves the quotes alone.                                       *)
LEMMA QuotingMidnight ==
  ASSUME QuotingInv, Midnight
  PROVE  QuotingInv'
<1>1. /\ hp' = hp /\ mm' = mm /\ quotes' = quotes /\ next_local_id' = next_local_id
      /\ router' = router /\ sim' = sim
  BY DEF Midnight
<1> QED
  BY <1>1 DEF QuotingInv, QuotesTyped, OnePerSide, OpenQuote

(* Every step of the live loop.                                            *)
LEMMA LiveStepKeeps ==
  ASSUME TradingInv, mode = "live", LiveInv', QuotingInv', mode' = mode, orders' = orders
  PROVE  TradingInv'
  BY DEF TradingInv

(* Every step of the backtest.                                             *)
LEMMA BacktestStepsKeep ==
  ASSUME TradingInv, mode = "backtest", BacktestInv', mode' = mode, mm' = mm, router' = router,
         quotes' = quotes
  PROVE  TradingInv'
  BY DEF TradingInv, Unused

(* Every direct call.                                                      *)
LEMMA HarnessStepsKeep ==
  ASSUME TradingInv, mode = "harness", VenueState', NEW x, HarnessStep(x)
  PROVE  TradingInv'
<1>1. /\ mode' = mode /\ hp' = hp /\ mm' = mm /\ router' = router /\ ledger' = ledger
      /\ quotes' = quotes
  BY DEF HarnessStep
<1> QED
  BY <1>1 DEF TradingInv, Unused

(* Every step keeps it.                                                    *)
LEMMA TradingNext ==
  ASSUME TradingInv, [Next]_vars
  PROVE  TradingInv'
<1>1. CASE \E l \in LiveUpdates : LiveBookUpdate(l.venue, l.update)
  <2>1. PICK l \in LiveUpdates : LiveBookUpdate(l.venue, l.update)
    BY <1>1
  <2>2. mode = "live" /\ mode' = mode /\ orders' = orders
    BY <2>1 DEF LiveBookUpdate
  <2>3. QuotingInv /\ LiveInv
    BY <2>2 DEF TradingInv
  <2>4. QuotingInv'
    BY <2>1, <2>3, QuotingBookUpdate
  <2>5. LiveInv'
    BY <2>1, <2>3, BookUpdateStep
  <2> QED
    BY <2>2, <2>4, <2>5, LiveStepKeeps
<1>2. CASE \E t \in Trades : LiveTrade(t)
  <2>1. PICK t \in Trades : LiveTrade(t)
    BY <1>2
  <2>2. mode = "live" /\ mode' = mode /\ orders' = orders
    BY <2>1 DEF LiveTrade
  <2>3. QuotingInv /\ LiveInv
    BY <2>2 DEF TradingInv
  <2>4. QuotingInv'
    BY <2>1, <2>3, QuotingTrade
  <2>5. LiveInv'
    BY <2>1, <2>3, TradeStep
  <2> QED
    BY <2>2, <2>4, <2>5, LiveStepKeeps
<1>3. CASE \E f \in Fills : QuoteFill(f)
  <2>1. PICK f \in Fills : QuoteFill(f)
    BY <1>3
  <2>2. mode = "live" /\ mode' = mode /\ orders' = orders
    BY <2>1 DEF QuoteFill, GatewayFill
  <2>3. QuotingInv /\ LiveInv
    BY <2>2 DEF TradingInv
  <2>4. QuotingInv'
    BY <2>1, <2>3, QuotingFill
  <2>5. LiveInv'
    BY <2>1, <2>3, FillStep
  <2> QED
    BY <2>2, <2>4, <2>5, LiveStepKeeps
<1>4. CASE Midnight
  <2>1. mode = "live" /\ mode' = mode /\ orders' = orders
    BY <1>4 DEF Midnight
  <2>2. QuotingInv /\ LiveInv
    BY <2>1 DEF TradingInv
  <2>3. QuotingInv'
    BY <1>4, <2>2, QuotingMidnight
  <2>4. LiveInv'
    BY <1>4, <2>2, MidnightStep
  <2> QED
    BY <2>1, <2>3, <2>4, LiveStepKeeps
<1>5. CASE \E u \in BacktestUpdates : BacktestBookUpdate(u)
  <2>1. PICK u \in BacktestUpdates : BacktestBookUpdate(u)
    BY <1>5
  <2>2. /\ mode = "backtest" /\ mode' = mode /\ mm' = mm /\ router' = router /\ quotes' = quotes
    BY <2>1 DEF BacktestBookUpdate, BacktestStep
  <2>3. BacktestInv /\ "backtest" \in Modes
    BY <2>2 DEF TradingInv
  <2>4. BacktestInv'
    BY <2>1, <2>3, BacktestUpdateKeeps
  <2> QED
    BY <2>2, <2>4, BacktestStepsKeep
<1>6. CASE \E t \in Trades : BacktestTrade(t)
  <2>1. PICK t \in Trades : BacktestTrade(t)
    BY <1>6
  <2>2. /\ mode = "backtest" /\ mode' = mode /\ mm' = mm /\ router' = router /\ quotes' = quotes
    BY <2>1 DEF BacktestTrade, BacktestStep
  <2>3. BacktestInv /\ "backtest" \in Modes
    BY <2>2 DEF TradingInv
  <2>4. BacktestInv'
    BY <2>1, <2>3, BacktestTradeKeeps
  <2> QED
    BY <2>2, <2>4, BacktestStepsKeep
<1>7. CASE \E u \in HarnessUpdates : HarnessBookUpdate(u)
  <2>1. PICK u \in HarnessUpdates : HarnessBookUpdate(u)
    BY <1>7
  <2>2. PICK order : HarnessStep(HarnessState(Sim!OnBookUpdate(sim, u, order)))
    BY <2>1 DEF HarnessBookUpdate
  <2>3. mode = "harness" /\ VenueState
    BY <2>1 DEF HarnessBookUpdate, TradingInv
  <2>4. VenueState'
    BY <2>1, <2>3, HarnessUpdateKeeps
  <2> QED
    BY <2>2, <2>3, <2>4, HarnessStepsKeep
<1>8. CASE \E o \in HarnessOrders : HarnessSubmit(o)
  <2>1. PICK o \in HarnessOrders : HarnessSubmit(o)
    BY <1>8
  <2>2. PICK x : HarnessStep(x)
    BY <2>1 DEF HarnessSubmit
  <2>3. mode = "harness" /\ VenueState
    BY <2>1 DEF HarnessSubmit, TradingInv
  <2>4. VenueState'
    BY <2>1, <2>3, HarnessSubmitKeeps
  <2> QED
    BY <2>2, <2>3, <2>4, HarnessStepsKeep
<1>9. CASE \E id \in Eng!OpenOrderIds(orders) : HarnessCancel(id)
  <2>1. PICK id : HarnessCancel(id)
    BY <1>9
  <2>2. PICK x : HarnessStep(x)
    BY <2>1 DEF HarnessCancel
  <2>3. mode = "harness" /\ VenueState
    BY <2>1 DEF HarnessCancel, TradingInv
  <2>4. VenueState'
    BY <2>1, <2>3, HarnessCancelKeeps
  <2> QED
    BY <2>2, <2>3, <2>4, HarnessStepsKeep
<1>10. CASE UNCHANGED vars
  <2>1. /\ mode' = mode /\ hp' = hp /\ mm' = mm /\ book' = book /\ router' = router
        /\ ledger' = ledger /\ orders' = orders /\ next_local_id' = next_local_id
        /\ quotes' = quotes /\ sim' = sim /\ hist' = hist
    BY <1>10 DEF vars
  <2>2. QuotingInv => QuotingInv'
    BY <2>1 DEF QuotingInv, QuotesTyped, OnePerSide, OpenQuote
  <2>3. LiveInv => LiveInv'
    BY <2>1 DEF LiveInv, HistTyped, HoldsPosition, Judged, Balanced, Inventories
  <2>4. VenueState => VenueState'
    BY <2>1 DEF VenueState, World
  <2>5. BacktestInv => BacktestInv'
    BY <2>1, <2>4 DEF BacktestInv
  <2> QED
    BY <2>1, <2>2, <2>3, <2>4, <2>5 DEF TradingInv, Unused
<1> QED
  BY <1>1, <1>2, <1>3, <1>4, <1>5, <1>6, <1>7, <1>8, <1>9, <1>10 DEF Next

(* It always holds.                                                        *)
LEMMA TradingInvariant == Spec => []TradingInv
<1>1. Init => TradingInv
  BY TradingInit
<1>2. TradingInv /\ [Next]_vars => TradingInv'
  BY TradingNext
<1> QED
  BY <1>1, <1>2, PTL DEF Spec

-----------------------------------------------------------------------------
(* The results.                                                            *)

(* The state of the event loop, of the backtest and of the direct calls    *)
(* keeps its types: quotes and orders keep the ids minted for them, the    *)
(* inventories stay within MaxInventory, the flat books within MaxLevels   *)
(* (TypeOK).                                                               *)
THEOREM TradingTyped == Spec => []TypeOK
<1>1. TradingInv => TypeOK
  <2> SUFFICES ASSUME TradingInv
               PROVE  TypeOK
    OBVIOUS
  <2>1. mode \in Modes /\ mode \in {"live", "backtest", "harness"}
    BY ModesKnown DEF TradingInv
  <2>2. EngineInv(hp) /\ MakerInv(mm)
    BY <2>1 DEF TradingInv, QuotingInv, BacktestInv, Unused
  <2>3. {hp.buy_volume, hp.sell_volume, hp.total_volume} \subseteq Nat
    <3>1. hp.window \in Seq(Heard) /\ Flow(hp)
      BY <2>2 DEF EngineInv
    <3> DEFINE e == hp
    <3>2. e.window \in Seq(Heard) /\ Flow(e)
      BY <3>1
    <3> HIDE DEF e
    <3>3. e.buy_volume \in Nat /\ e.sell_volume \in Nat /\ e.total_volume \in Nat
      BY <3>2, FlowNat
    <3> QED
      BY <3>3 DEF e
  <2>4. hp.position_qty \in -MaxInventory .. MaxInventory /\ Len(hp.bids) <= MaxLevels /\ Len(hp.asks) <= MaxLevels
    BY <2>2 DEF EngineInv, FlatSide
  <2>5. mm.position_qty \in Nat /\ mm.last_quote_tick \in 0 .. mm.tick_count
    <3>1. CASE mode = "live"
      <4>1. LiveInv
        BY <3>1 DEF TradingInv
      <4> QED
        BY <2>2, <4>1 DEF LiveInv, Inventories, HistTyped, MakerInv
    <3>2. CASE mode # "live"
      BY <2>2, <3>2 DEF TradingInv, Unused, MakerInv
    <3> QED
      BY <3>1, <3>2
  <2>6. DOMAIN router \subseteq Venues
    BY <2>1 DEF TradingInv, QuotingInv, Unused
  <2>7. ledger \in Acc!Books
    BY <2>1 DEF TradingInv, LiveInv, BacktestInv, Solvent
  <2>8. next_local_id \in Nat \ {0}
    BY <2>1 DEF TradingInv, QuotingInv, QuotesTyped, BacktestInv, VenueState, IdsBelow
  <2>9. sim.pending = <<>> /\ \A id \in DOMAIN sim.resting : sim.resting[id].remaining > 0
    <3>1. CASE mode = "live"
      <4>1. sim.pending = <<>> /\ sim.resting = [id \in {} |-> 0]
        BY <3>1 DEF TradingInv, QuotingInv, Sim!NewExchange, Sim!NoOrders
      <4> QED
        BY <4>1
    <3>2. CASE mode # "live"
      <4>1. VenueState
        BY <2>1, <3>2 DEF TradingInv, BacktestInv
      <4>2. sim.pending = <<>> /\ sim.resting \in [DOMAIN sim.resting -> Resting]
        BY <4>1 DEF VenueState, VenueInv, VenueBut, SimTyped
      <4> QED
        BY <4>2 DEF Resting
    <3> QED
      BY <3>1, <3>2
  <2> QED
    BY <2>1, <2>3, <2>4, <2>5, <2>6, <2>7, <2>8, <2>9 DEF TypeOK
<1> QED
  BY <1>1, TradingInvariant, PTL

(* No inventory, however large, skews a quote across the fair value: the   *)
(* bid of compute_quote is at or below it, the ask at or above it, in C++  *)
(* and for every order of trades, fills and book updates (QuotesPassive;   *)
(* hotpath/src/market_maker.cpp).                                          *)
THEOREM NeverCrossed == Spec => []QuotesPassive
<1>1. TradingInv => QuotesPassive
  <2> SUFFICES ASSUME TradingInv
               PROVE  QuotesPassive
    OBVIOUS
  <2>1. EngineInv(hp)
    BY ModesKnown DEF TradingInv, QuotingInv, BacktestInv
  <2> QED
    BY <2>1 DEF EngineInv, Quoted, Passive, QuotesPassive
<1> QED
  BY <1>1, TradingInvariant, PTL

(* The running buy and sell volumes that record_trade and evict_trade add  *)
(* to and subtract from, in the C++ signal engine and in the Rust market   *)
(* maker, are at all times the sums over the one window of trades both     *)
(* were fed (FlowAgrees).                                                  *)
THEOREM VolumesAreSums == Spec => []FlowAgrees
<1>1. TradingInv => FlowAgrees
  <2> SUFFICES ASSUME TradingInv
               PROVE  FlowAgrees
    OBVIOUS
  <2>1. EngineInv(hp)
    BY ModesKnown DEF TradingInv, QuotingInv, BacktestInv
  <2>2. mode = "live" => MakerInv(mm) /\ mm.window = hp.window
    BY DEF TradingInv, QuotingInv
  <2>3. Flow(hp)
    BY <2>1 DEF EngineInv
  <2>4. mode = "live" => MakerFlow(mm)
    BY <2>2 DEF MakerInv
  <2> QED
    BY <2>2, <2>3, <2>4 DEF Flow, MakerFlow, FlowAgrees, Live
<1> QED
  BY <1>1, TradingInvariant, PTL

(* A set with no two elements has at most one.                             *)
LEMMA AtMostOne ==
  ASSUME NEW S, \A i, j \in S : i = j
  PROVE  Cardinality(S) <= 1
<1>1. CASE S = {}
  BY <1>1, FS_EmptySet
<1>2. CASE S # {}
  <2>1. PICK x : x \in S
    BY <1>2
  <2>2. S = {x}
    BY <2>1
  <2> QED
    BY <2>2, FS_Singleton
<1> QED
  BY <1>1, <1>2

(* After any sequence of requotes at most one bid and one ask of ours are  *)
(* left in the market: in the live loop of execute_commands, where a       *)
(* refused submit still counts, and on the simulated exchange in a         *)
(* backtest, where fills come in between (NoStackedQuotes).                *)
THEOREM OnePair == Spec => []NoStackedQuotes
<1>1. TradingInv => NoStackedQuotes
  <2> SUFFICES ASSUME TradingInv, NEW side \in Sides
               PROVE  /\ Cardinality({ id \in DOMAIN quotes : quotes[id].side = side /\ ~quotes[id].canceled }) <= 1
                      /\ Backtest => Cardinality({ id \in DOMAIN sim.resting : sim.resting[id].side = side }) <= 1
    BY DEF NoStackedQuotes
  <2>1. OnePerSide(quotes)
    <3>1. CASE mode = "live"
      BY <3>1 DEF TradingInv, QuotingInv
    <3>2. CASE mode # "live"
      BY <3>2 DEF TradingInv, Unused, OnePerSide, OpenQuote
    <3> QED
      BY <3>1, <3>2
  <2> DEFINE S == { id \in DOMAIN quotes : quotes[id].side = side /\ ~quotes[id].canceled }
             T == { id \in DOMAIN sim.resting : sim.resting[id].side = side }
  <2>2. \A i, j \in S : i = j
    BY <2>1 DEF OnePerSide, OpenQuote
  <2>3. Backtest => \A i, j \in T : i = j
    BY DEF TradingInv, BacktestInv, Lodged, Lots, Backtest
  <2> HIDE DEF S, T
  <2>4. Cardinality(S) <= 1 /\ (Backtest => Cardinality(T) <= 1)
    BY <2>2, <2>3, AtMostOne
  <2> QED
    BY <2>4 DEF S, T
<1> QED
  BY <1>1, TradingInvariant, PTL

(* The books run_backtest prints balance: at every moment cash received is *)
(* realized profit less fees less the cost basis of what is held, through  *)
(* partial closes, flips and rounding (BacktestBooksBalance).              *)
THEOREM BacktestBooksHold == Spec => []BacktestBooksBalance
<1>1. TradingInv => BacktestBooksBalance
  BY DEF TradingInv, BacktestInv, Solvent, BacktestBooksBalance, Backtest
<1> QED
  BY <1>1, TradingInvariant, PTL

(* When the books of run_backtest are flat the hot path's inventory is     *)
(* zero too, although the one is exact and the other is clamped to         *)
(* MaxInventory: quoting resumes with no phantom inventory                 *)
(* (FlatMeansNoInventory).                                                 *)
THEOREM FlatIsFlat == Spec => []FlatMeansNoInventory
<1>1. TradingInv => FlatMeansNoInventory
  BY DEF TradingInv, BacktestInv, Lodged, FlatMeansNoInventory, Backtest
<1> QED
  BY <1>1, TradingInvariant, PTL

(* A backtest's position is never more than two orders' size, though       *)
(* orders are replaced while older ones may just have been filled          *)
(* (PositionBounded).                                                      *)
THEOREM TwoOrdersAtMost == Spec => []PositionBounded
<1>1. TradingInv => PositionBounded
  <2> SUFFICES ASSUME TradingInv, Backtest
               PROVE  Magnitude(ledger.position_qty) <= 2 * OrderQty
    BY DEF PositionBounded
  <2>1. BacktestInv /\ "backtest" \in Modes
    BY DEF TradingInv, Backtest
  <2>2. OrderQty \in Nat
    BY <2>1, QtyBounds
  <2>3. ledger.position_qty \in -(2 * OrderQty) .. (2 * OrderQty)
    BY <2>1 DEF BacktestInv, Lodged, Bounded
  <2> QED
    BY <2>2, <2>3 DEF Magnitude
<1> QED
  BY <1>1, TradingInvariant, PTL

(* What the tracker knows between two inputs.                              *)
LEMMA OrdersInPlace ==
  ASSUME TradingInv, NEW id \in DOMAIN orders
  PROVE  OrderGood(hist.requests[id], sim.resting, id, ViewOf(World, id))
<1>1. VenueState
  BY ModesKnown DEF TradingInv, BacktestInv
<1>2. id \in DOMAIN World.requests
  BY <1>1 DEF VenueState, VenueInv, VenueBut, World
<1>3. OrderGood(World.requests[id], sim.resting, id, Seen(World, id, <<>>))
  BY <1>1, <1>2 DEF VenueState, VenueInv, VenueBut
<1> QED
  BY <1>3, SeenNothing DEF World

(* What the tracker believes of an order is what the simulated exchange    *)
(* did with it: what rests is open in the tracker with the same quantity   *)
(* left, and what is open rests, the remainder of an order that is no      *)
(* limit order excepted (TrackerMirrorsVenue).                             *)
THEOREM TrackerKnows == Spec => []TrackerMirrorsVenue
<1>1. TradingInv => TrackerMirrorsVenue
  <2> SUFFICES ASSUME TradingInv, NEW id \in DOMAIN orders
               PROVE  LET rests == id \in DOMAIN sim.resting
                          o == hist.requests[id]
                      IN  /\ rests => /\ orders[id].state \in {"Ack", "PartialFill"}
                                      /\ orders[id].remaining_qty = sim.resting[id].remaining
                          /\ (id \in Eng!OpenOrderIds(orders) /\ ~rests) =>
                               /\ o.type # "Limit"
                               /\ o.tif \in {"GTC", "GTD"}
    BY DEF TrackerMirrorsVenue
  <2>1. OrderGood(hist.requests[id], sim.resting, id, ViewOf(World, id))
    BY OrdersInPlace
  <2>2. ViewOf(World, id).order = orders[id]
    BY DEF ViewOf, World
  <2> QED
    BY <2>1, <2>2 DEF OrderGood, Eng!OpenOrderIds
<1> QED
  BY <1>1, TradingInvariant, PTL

(* An order keeps its terms whatever the book held when it came: a FOK     *)
(* fills wholly or not at all, an IOC leaves nothing resting, a limit is   *)
(* never traded through and an order never overfilled (OrderTermsKept;     *)
(* simulator.rs submit_order).                                             *)
THEOREM TermsHold == Spec => []OrderTermsKept
<1>1. TradingInv => OrderTermsKept
  <2> SUFFICES ASSUME TradingInv, NEW id \in DOMAIN orders
               PROVE  LET o == hist.requests[id]
                          traded == IF id \in DOMAIN hist.prices THEN hist.prices[id] ELSE {}
                      IN  /\ o.tif = "FOK" => orders[id].filled_qty \in {0, o.qty}
                          /\ o.tif \in {"IOC", "FOK"} => orders[id].state \in Eng!Terminal
                          /\ o.type \in {"Limit", "StopLimit"} =>
                               \A p \in traded : Accepts(o.side, o.price, p)
    BY DEF OrderTermsKept
  <2>1. OrderGood(hist.requests[id], sim.resting, id, ViewOf(World, id))
    BY OrdersInPlace
  <2>2. /\ ViewOf(World, id).order = orders[id]
        /\ ViewOf(World, id).traded = IF id \in DOMAIN hist.prices THEN hist.prices[id] ELSE {}
    BY DEF ViewOf, World
  <2> QED
    BY <2>1, <2>2 DEF OrderGood, OrderSound, Sim!Rests, Sim!HasLimit
<1> QED
  BY <1>1, TradingInvariant, PTL

-----------------------------------------------------------------------------
(* In the live loop both books are aligned.                                *)
LiveAligned == Live => Aligned(hist, hp, book)

(* Every step keeps them so.                                               *)
LEMMA AlignedNext ==
  ASSUME TradingInv, LiveAligned, [Next]_vars
  PROVE  LiveAligned'
<1> SUFFICES ASSUME Live'
             PROVE  Aligned(hist', hp', book')
  BY DEF LiveAligned
<1>0. mode' = "live"
  BY DEF Live
<1>1. ASSUME mode = "live"
      PROVE  EngineInv(hp) /\ HistTyped(hist) /\ ledger \in Acc!Books /\ Aligned(hist, hp, book)
  BY <1>1 DEF TradingInv, QuotingInv, LiveInv, LiveAligned, Live
<1>2. CASE \E l \in LiveUpdates : LiveBookUpdate(l.venue, l.update)
  <2>1. PICK l \in LiveUpdates : LiveBookUpdate(l.venue, l.update)
    BY <1>2
  <2> DEFINE u == l.update
  <2>2. /\ mode = "live" /\ FromFeed(u)
        /\ hp' = HP!OnBookUpdate(hp, u).engine /\ book' = Book!Apply(book, u)
        /\ hist' = [hist EXCEPT !.fits = Fits(hist, book, u)]
    BY <2>1, InputAssumption DEF LiveBookUpdate, InputAssumption
  <2> HIDE DEF u
  <2>3. hist'.fits = Fits(hist, book, u)
    BY <1>1, <2>2 DEF HistTyped, NoHistory
  <2> QED
    BY <1>1, <2>2, <2>3, UpdateAligns
<1>3. CASE \E t \in Trades : LiveTrade(t)
  <2>1. PICK t \in Trades : LiveTrade(t)
    BY <1>3
  <2>2. /\ mode = "live" /\ t.side \in Sides /\ t.qty \in Nat
        /\ hp' = HP!OnTrade(hp, t).engine /\ book' = book /\ hist' = hist
    BY <2>1, InputAssumption DEF LiveTrade, InputAssumption
  <2>3. hp'.bids = hp.bids /\ hp'.asks = hp.asks
    BY <1>1, <2>2, TradeKeepsBook
  <2> QED
    BY <1>1, <2>2, <2>3 DEF Aligned
<1>4. CASE \E f \in Fills : QuoteFill(f)
  <2>1. PICK f \in Fills : QuoteFill(f)
    BY <1>4
  <2>2. /\ mode = "live" /\ book' = book
        /\ hp' = HP!OnFill(hp, f.side, f.qty)
        /\ hist' = CountNet(CountCash(hist, ledger, f, Acc!LiveUnit), f)
    BY <2>1 DEF QuoteFill, GatewayFill
  <2>3. hp'.bids = hp.bids /\ hp'.asks = hp.asks
    BY <1>1, <2>2, FillKeepsBook
  <2>4. hist'.fits = hist.fits
    BY <1>1, <2>2 DEF HistTyped, NoHistory, CountNet, CountCash
  <2> QED
    BY <1>1, <2>2, <2>3, <2>4 DEF Aligned
<1>5. CASE Midnight
  <2>1. mode = "live" /\ book' = book /\ hp' = hp /\ hist' = CountMidnight(hist)
    BY <1>5 DEF Midnight
  <2>2. hist'.fits = hist.fits
    BY <1>1, <2>1 DEF HistTyped, NoHistory, CountMidnight
  <2> QED
    BY <1>1, <2>1, <2>2 DEF Aligned
<1>6. CASE \E u \in BacktestUpdates : BacktestBookUpdate(u)
  BY <1>0, <1>6 DEF BacktestBookUpdate, BacktestStep
<1>7. CASE \E t \in Trades : BacktestTrade(t)
  BY <1>0, <1>7 DEF BacktestTrade, BacktestStep
<1>8. CASE \E u \in HarnessUpdates : HarnessBookUpdate(u)
  BY <1>0, <1>8 DEF HarnessBookUpdate, HarnessStep
<1>9. CASE \E o \in HarnessOrders : HarnessSubmit(o)
  BY <1>0, <1>9 DEF HarnessSubmit, HarnessStep
<1>10. CASE \E id \in Eng!OpenOrderIds(orders) : HarnessCancel(id)
  BY <1>0, <1>10 DEF HarnessCancel, HarnessStep
<1>11. CASE UNCHANGED vars
  BY <1>0, <1>1, <1>11 DEF vars
<1> QED
  BY <1>2, <1>3, <1>4, <1>5, <1>6, <1>7, <1>8, <1>9, <1>10, <1>11 DEF Next

(* The flat book in C++ (orderbook.cpp, a bounded sorted array) and the    *)
(* BTreeMap book in Rust (book.rs), fed the same snapshots and deltas,     *)
(* agree level by level as long as no side outgrows the array              *)
(* (BooksAgree).                                                           *)
THEOREM BooksStayAligned == Spec => []BooksAgree
<1>1. Init => LiveAligned
  <2>1. SUFFICES ASSUME Init PROVE Aligned(hist, hp, book)
    BY DEF LiveAligned
  <2>2. hp = HP!NewEngine(VpinEnabled /\ mode = "live") /\ book = Book!EmptyBook
    BY <2>1 DEF Init
  <2>3. (VpinEnabled /\ mode = "live") \in BOOLEAN
    OBVIOUS
  <2> QED
    BY <2>2, <2>3, AlignedAtFirst
<1>2. TradingInv /\ LiveAligned /\ [Next]_vars => LiveAligned'
  BY AlignedNext
<1>3. LiveAligned => BooksAgree
  BY DEF LiveAligned, BooksAgree, SideAgrees, Aligned, Agrees, Sorted, Held, Whole
<1> QED
  BY <1>1, <1>2, <1>3, TradingInvariant, PTL DEF Spec
=============================================================================
