------------------------------- MODULE FoldFacts -------------------------------
(***************************************************************************)
(* Folds over sequences and sums over their elements, for any operator.    *)
(*                                                                         *)
(* A loop of the code is a FoldLeft of the community modules.  What such a *)
(* loop preserves is proved by induction, which the library's theorems     *)
(* state with an operator parameter.  Here the operators are constants of  *)
(* the module: a module that proves something of a loop instantiates this  *)
(* one with the loop's body and the predicate its iterations keep.         *)
(*                                                                         *)
(*   Step(c, s, x)   the body: the state after s when the element is x     *)
(*   Good(c, k, s)   what holds of the state s after k elements            *)
(*   Term(c, x)      what an element adds to a sum                         *)
(*                                                                         *)
(* c is a context: whatever else body, predicate or term depend on.        *)
(***************************************************************************)
EXTENDS FiniteSetsExt, Folds, FiniteSetTheorems, WellFoundedInduction, TLAPS

CONSTANTS Step(_, _, _), Good(_, _, _), Term(_, _)

(* The loop: FoldLeft(LAMBDA s, x : Step(c, s, x), base, seq), spelled out *)
(* as SequencesExt defines it.                                             *)
Fold(c, base, seq) ==
  MapThenFoldSet(LAMBDA x, s : Step(c, s, x), base,
                 LAMBDA i : seq[i],
                 LAMBDA S : Max(S),
                 DOMAIN seq)

-----------------------------------------------------------------------------
(* Induction over the naturals, with sets.                                 *)

(* A nonempty set of naturals has a least element.                         *)
LEMMA LeastOne ==
  ASSUME NEW T \in SUBSET Nat, T # {}
  PROVE  \E x \in T : \A y \in T : x <= y
<1> DEFINE R == { p \in Nat \X Nat : p[1] < p[2] }
<1>1. IsWellFoundedOn(R, Nat)
  BY NatLessThanWellFounded DEF OpToRel
<1> HIDE DEF R
<1>2. PICK x \in T : \A y \in T : <<y, x>> \notin R
  BY <1>1, WFMin
<1>3. \A y \in T : ~(y < x)
  BY <1>2 DEF R
<1> QED
  BY <1>3

(* What holds of 0 and of k whenever it holds of k - 1 holds up to n.      *)
LEMMA UpTo ==
  ASSUME NEW n \in Nat, NEW T, 0 \in T, \A k \in 1 .. n : k - 1 \in T => k \in T
  PROVE  \A k \in 0 .. n : k \in T
<1> DEFINE B == { k \in 0 .. n : k \notin T }
<1> SUFFICES ASSUME B # {} PROVE FALSE
  OBVIOUS
<1>1. B \in SUBSET Nat
  OBVIOUS
<1>2. PICK k \in B : \A j \in B : k <= j
  BY <1>1, LeastOne
<1>3. k # 0 /\ k - 1 \in 0 .. n /\ k - 1 \notin B /\ k \in 1 .. n
  BY <1>2
<1> QED
  BY <1>2, <1>3

-----------------------------------------------------------------------------
(* Folds.                                                                  *)

(* The recursion FoldLeft chooses a solution of.                           *)
Folds(it, c, base, seq, S) ==
  it = [s \in SUBSET S |-> IF s = {} THEN base ELSE Step(c, it[s \ {Max(s)}], seq[Max(s)])]

(* FoldLeft takes the elements from the last one down.                     *)
LEMMA MaxTop ==
  ASSUME NEW n \in Nat, NEW s \in SUBSET (1 .. n + 1), n + 1 \in s
  PROVE  Max(s) = n + 1
<1>1. \A y \in s : n + 1 >= y
  OBVIOUS
<1>2. \A x \in s : (\A y \in s : x >= y) => x = n + 1
  OBVIOUS
<1> QED
  BY <1>1, <1>2 DEF Max

(* The recursion has a solution.                                           *)
LEMMA FoldsExist ==
  ASSUME NEW c, NEW base, NEW seq, NEW n \in Nat
  PROVE  \E it : Folds(it, c, base, seq, 1 .. n)
<1> DEFINE T == { m \in 0 .. n : \E it : Folds(it, c, base, seq, 1 .. m) }
<1>1. 0 \in T
  <2> DEFINE it == [s \in SUBSET (1 .. 0) |-> base]
  <2>1. Folds(it, c, base, seq, 1 .. 0)
    BY DEF Folds
  <2> QED
    BY <2>1
<1>2. ASSUME NEW m \in 1 .. n, m - 1 \in T
      PROVE  m \in T
  <2>1. PICK g : Folds(g, c, base, seq, 1 .. m - 1)
    BY <1>2
  <2> DEFINE it == [s \in SUBSET (1 .. m) |-> IF m \in s THEN Step(c, g[s \ {m}], seq[m]) ELSE g[s]]
  <2>2. ASSUME NEW s \in SUBSET (1 .. m)
        PROVE it[s] = IF s = {} THEN base ELSE Step(c, it[s \ {Max(s)}], seq[Max(s)])
    <3>1. CASE m \in s
      <4>1. Max(s) = m
        BY <3>1, MaxTop, m - 1 \in Nat, (m - 1) + 1 = m
      <4>2. s \ {m} \in SUBSET (1 .. m) /\ m \notin s \ {m} /\ s # {}
        BY <3>1
      <4>3. it[s \ {m}] = g[s \ {m}]
        BY <4>2
      <4>4. it[s] = Step(c, g[s \ {m}], seq[m])
        BY <3>1
      <4> QED
        BY <4>1, <4>2, <4>3, <4>4
    <3>2. CASE m \notin s
      <4>1. s \in SUBSET (1 .. m - 1)
        BY <3>2
      <4>2. it[s] = g[s]
        BY <3>2
      <4>3. g[s] = IF s = {} THEN base ELSE Step(c, g[s \ {Max(s)}], seq[Max(s)])
        BY <2>1, <4>1 DEF Folds
      <4>4. m \notin s \ {Max(s)} /\ s \ {Max(s)} \in SUBSET (1 .. m)
        BY <3>2
      <4>5. it[s \ {Max(s)}] = g[s \ {Max(s)}]
        BY <4>4
      <4> QED
        BY <4>2, <4>3, <4>5
    <3> QED
      BY <3>1, <3>2
  <2>3. Folds(it, c, base, seq, 1 .. m)
    BY <2>2 DEF Folds
  <2> QED
    BY <2>3
<1> HIDE DEF T
<1>3. n \in T
  BY <1>1, <1>2, UpTo
<1> QED
  BY <1>3 DEF T

(* The states of the loop, before the first and after every element.       *)
Run(states, c, base, seq, n) ==
  /\ states[0] = base
  /\ \A k \in 1 .. n : states[k] = Step(c, states[k - 1], seq[k])
  /\ states[n] = Fold(c, base, seq)

(* A fold goes through such states.                                        *)
LEMMA FoldSteps ==
  ASSUME NEW c, NEW base, NEW n \in Nat, NEW seq, DOMAIN seq = 1 .. n
  PROVE  \E states : Run(states, c, base, seq, n)
<1> DEFINE it == CHOOSE it : Folds(it, c, base, seq, 1 .. n)
           states == [k \in 0 .. n |-> it[1 .. k]]
<1>1. Folds(it, c, base, seq, 1 .. n)
  BY FoldsExist
<1>2. Fold(c, base, seq) = it[1 .. n]
  BY DEF Fold, MapThenFoldSet, Folds
<1> HIDE DEF it
<1>3. states[0] = base
  <2>1. 1 .. 0 = {} /\ {} \in SUBSET (1 .. n)
    OBVIOUS
  <2>2. it[1 .. 0] = base
    BY <1>1, <2>1 DEF Folds
  <2> QED
    BY <2>2
<1>4. ASSUME NEW k \in 1 .. n
      PROVE  states[k] = Step(c, states[k - 1], seq[k])
  <2>1. 1 .. k \in SUBSET (1 .. n) /\ 1 .. k # {} /\ (1 .. k) \ {k} = 1 .. k - 1
    OBVIOUS
  <2>2. Max(1 .. k) = k
    <3> DEFINE m == k - 1
    <3>1. m \in Nat /\ k = m + 1
      OBVIOUS
    <3>2. 1 .. k \in SUBSET (1 .. m + 1) /\ m + 1 \in 1 .. k
      BY <3>1
    <3> HIDE DEF m
    <3> QED
      BY <3>1, <3>2, MaxTop
  <2>3. it[1 .. k] = Step(c, it[1 .. k - 1], seq[k])
    BY <1>1, <2>1, <2>2 DEF Folds
  <2>4. k \in 0 .. n /\ k - 1 \in 0 .. n
    OBVIOUS
  <2> QED
    BY <2>3, <2>4
<1>5. states[n] = Fold(c, base, seq)
  BY <1>2
<1> HIDE DEF states
<1>6. Run(states, c, base, seq, n)
  BY <1>3, <1>4, <1>5 DEF Run
<1> QED
  BY <1>6

(* What holds of the base and is kept by every element holds of the fold.  *)
THEOREM FoldInduction ==
  ASSUME NEW c, NEW base, NEW n \in Nat, NEW seq, DOMAIN seq = 1 .. n,
         Good(c, 0, base),
         \A k \in 1 .. n : \A s : Good(c, k - 1, s) => Good(c, k, Step(c, s, seq[k]))
  PROVE  Good(c, n, Fold(c, base, seq))
<1>1. PICK states : Run(states, c, base, seq, n)
  BY FoldSteps
<1> DEFINE T == { k \in 0 .. n : Good(c, k, states[k]) }
<1>2. 0 \in T
  BY <1>1 DEF Run
<1>3. \A k \in 1 .. n : k - 1 \in T => k \in T
  BY <1>1 DEF Run
<1>4. n \in T
  <2> HIDE DEF T
  <2> QED
    BY <1>2, <1>3, UpTo
<1> QED
  BY <1>1, <1>4 DEF Run

(* A loop over nothing.                                                    *)
THEOREM FoldEmpty ==
  ASSUME NEW c, NEW base
  PROVE  Fold(c, base, <<>>) = base
<1>1. DOMAIN <<>> = 1 .. 0 /\ 0 \in Nat
  OBVIOUS
<1>2. PICK states : Run(states, c, base, <<>>, 0)
  BY <1>1, FoldSteps
<1> QED
  BY <1>2 DEF Run

(* A loop over one element more is one more iteration.                     *)
THEOREM FoldAppend ==
  ASSUME NEW c, NEW base, NEW seq, NEW n \in Nat, DOMAIN seq = 1 .. n,
         NEW more, DOMAIN more = 1 .. n + 1, \A k \in 1 .. n : more[k] = seq[k]
  PROVE  Fold(c, base, more) = Step(c, Fold(c, base, seq), more[n + 1])
<1>1. PICK f : Run(f, c, base, seq, n)
  BY FoldSteps
<1>0. n + 1 \in Nat
  OBVIOUS
<1>2. PICK g : Run(g, c, base, more, n + 1)
  BY <1>0, FoldSteps
<1> DEFINE T == { k \in 0 .. n : f[k] = g[k] }
<1>3. 0 \in T
  BY <1>1, <1>2 DEF Run
<1>4. ASSUME NEW k \in 1 .. n, k - 1 \in T
      PROVE  k \in T
  <2>1. k \in 1 .. n + 1
    OBVIOUS
  <2> QED
    BY <1>1, <1>2, <1>4, <2>1 DEF Run
<1>5. n \in T
  <2> HIDE DEF T
  <2> QED
    BY <1>3, <1>4, UpTo
<1>6. n + 1 \in 1 .. n + 1 /\ (n + 1) - 1 = n
  OBVIOUS
<1> QED
  BY <1>1, <1>2, <1>5, <1>6 DEF Run
-----------------------------------------------------------------------------
(* Sums.                                                                   *)

Total(c, S) == MapThenSumSet(LAMBDA x : Term(c, x), S)

(* The recursion MapThenSumSet chooses a solution of: the order in which   *)
(* it takes the elements is arbitrary.                                     *)
Sums(it, c, S) ==
  it = [s \in SUBSET S |-> IF s = {} THEN 0
                           ELSE Term(c, CHOOSE x \in s : TRUE) + it[s \ {CHOOSE x \in s : TRUE}]]

(* A sum of which any element may be taken out.                            *)
Additive(g, c, S) ==
  \A s \in SUBSET S :
    /\ g[s] \in Int
    /\ s = {} => g[s] = 0
    /\ \A x \in s : g[s] = Term(c, x) + g[s \ {x}]

(* Such sums exist.                                                        *)
LEMMA AdditiveExists ==
  ASSUME NEW c, NEW S, IsFiniteSet(S), \A x \in S : Term(c, x) \in Int
  PROVE  \E g : Additive(g, c, S)
<1> DEFINE T == { m \in 0 .. Cardinality(S) :
                    \A s \in SUBSET S : Cardinality(s) = m => \E g : Additive(g, c, s) }
<1>1. Cardinality(S) \in Nat
  BY FS_CardinalityType
<1>2. 0 \in T
  <2>1. ASSUME NEW s \in SUBSET S, Cardinality(s) = 0
        PROVE  \E g : Additive(g, c, s)
    <3>1. s = {}
      BY <2>1, FS_Subset, FS_EmptySet
    <3>2. Additive([r \in SUBSET s |-> 0], c, s)
      BY <3>1 DEF Additive
    <3> QED
      BY <3>2
  <2> QED
    BY <1>1, <2>1
<1>3. ASSUME NEW m \in 1 .. Cardinality(S), m - 1 \in T
      PROVE  m \in T
  <2>1. ASSUME NEW s \in SUBSET S, Cardinality(s) = m
        PROVE  \E g : Additive(g, c, s)
    <3>1. IsFiniteSet(s) /\ s # {}
      BY <1>1, <2>1, FS_Subset, FS_EmptySet
    <3>2. PICK a : a \in s
      BY <3>1
    <3>3. s \ {a} \in SUBSET S /\ Cardinality(s \ {a}) = m - 1
      BY <2>1, <3>1, <3>2, FS_RemoveElement
    <3>4. PICK h : Additive(h, c, s \ {a})
      BY <1>3, <3>3
    <3> DEFINE g == [r \in SUBSET s |-> IF a \in r THEN Term(c, a) + h[r \ {a}] ELSE h[r]]
    <3>5. ASSUME NEW r \in SUBSET s
          PROVE  /\ g[r] \in Int
                 /\ r = {} => g[r] = 0
                 /\ \A x \in r : g[r] = Term(c, x) + g[r \ {x}]
      <4>1. CASE a \notin r
        <5>1. r \in SUBSET (s \ {a}) /\ \A x \in r : a \notin r \ {x} /\ r \ {x} \in SUBSET s
          BY <4>1
        <5> QED
          BY <3>4, <4>1, <5>1 DEF Additive
      <4>2. CASE a \in r
        <5>1. r \ {a} \in SUBSET (s \ {a}) /\ a \notin r \ {a} /\ r \ {a} \in SUBSET s
          BY <4>2
        <5>2. g[r] = Term(c, a) + h[r \ {a}] /\ g[r \ {a}] = h[r \ {a}]
          BY <4>2, <5>1
        <5>3. h[r \ {a}] \in Int /\ Term(c, a) \in Int
          BY <3>2, <3>4, <5>1 DEF Additive
        <5>4. ASSUME NEW x \in r
              PROVE  g[r] = Term(c, x) + g[r \ {x}]
          <6>1. CASE x = a
            BY <5>2, <6>1
          <6>2. CASE x # a
            <7>1. /\ r \ {x} \in SUBSET s /\ a \in r \ {x}
                  /\ (r \ {x}) \ {a} = (r \ {a}) \ {x}
                  /\ x \in r \ {a}
              BY <4>2, <6>2
            <7>2. g[r \ {x}] = Term(c, a) + h[(r \ {a}) \ {x}]
              BY <7>1
            <7>3. h[r \ {a}] = Term(c, x) + h[(r \ {a}) \ {x}]
              BY <3>4, <5>1, <7>1 DEF Additive
            <7>4. (r \ {a}) \ {x} \in SUBSET (s \ {a})
              BY <5>1
            <7>5. h[(r \ {a}) \ {x}] \in Int
              BY <3>4, <7>4 DEF Additive
            <7>6. Term(c, x) \in Int
              OBVIOUS
            <7> HIDE DEF g
            <7> QED
              BY <5>2, <5>3, <7>2, <7>3, <7>5, <7>6
          <6> QED
            BY <6>1, <6>2
        <5>5. g[r] \in Int
          BY <5>2, <5>3
        <5> HIDE DEF g
        <5> QED
          BY <4>2, <5>4, <5>5
      <4> QED
        BY <4>1, <4>2
    <3> HIDE DEF g
    <3>6. Additive(g, c, s)
      BY <3>5 DEF Additive
    <3> QED
      BY <3>6
  <2> QED
    BY <1>1, <2>1
<1> HIDE DEF T
<1>4. Cardinality(S) \in T
  BY <1>1, <1>2, <1>3, UpTo
<1> QED
  BY <1>4 DEF T

(* Whatever order the elements are taken in, the sum is the same.          *)
LEMMA SumIs ==
  ASSUME NEW c, NEW S, IsFiniteSet(S), NEW g, Additive(g, c, S)
  PROVE  Total(c, S) = g[S]
<1> DEFINE it == CHOOSE it : Sums(it, c, S)
           T == { m \in 0 .. Cardinality(S) :
                    \A s \in SUBSET S : Cardinality(s) = m => it[s] = g[s] }
<1>1. Sums([s \in SUBSET S |-> g[s]], c, S)
  <2>1. ASSUME NEW s \in SUBSET S
        PROVE  g[s] = IF s = {} THEN 0
                      ELSE Term(c, CHOOSE x \in s : TRUE) + g[s \ {CHOOSE x \in s : TRUE}]
    <3>1. s # {} => (CHOOSE x \in s : TRUE) \in s
      OBVIOUS
    <3> QED
      BY <3>1 DEF Additive
  <2>2. \A s \in SUBSET S : s \ {CHOOSE x \in s : TRUE} \in SUBSET S
    OBVIOUS
  <2> QED
    BY <2>1, <2>2 DEF Sums
<1>2. Sums(it, c, S)
  BY <1>1
<1>3. Total(c, S) = it[S]
  BY DEF Total, MapThenSumSet, MapThenFoldSet, Sums
<1> HIDE DEF it
<1>4. Cardinality(S) \in Nat
  BY FS_CardinalityType
<1>5. 0 \in T
  <2>1. ASSUME NEW s \in SUBSET S, Cardinality(s) = 0
        PROVE  it[s] = g[s]
    <3>1. s = {}
      BY <2>1, FS_Subset, FS_EmptySet
    <3> QED
      BY <1>2, <3>1 DEF Sums, Additive
  <2> QED
    BY <1>4, <2>1
<1>6. ASSUME NEW m \in 1 .. Cardinality(S), m - 1 \in T
      PROVE  m \in T
  <2>1. ASSUME NEW s \in SUBSET S, Cardinality(s) = m
        PROVE  it[s] = g[s]
    <3> DEFINE a == CHOOSE x \in s : TRUE
    <3>1. IsFiniteSet(s) /\ s # {}
      BY <1>4, <2>1, FS_Subset, FS_EmptySet
    <3>2. a \in s
      BY <3>1
    <3>3. it[s] = Term(c, a) + it[s \ {a}]
      BY <1>2, <3>1 DEF Sums
    <3> HIDE DEF a
    <3>4. s \ {a} \in SUBSET S /\ Cardinality(s \ {a}) = m - 1
      BY <2>1, <3>1, <3>2, FS_RemoveElement
    <3>5. it[s \ {a}] = g[s \ {a}]
      BY <1>6, <3>4
    <3>6. g[s] = Term(c, a) + g[s \ {a}]
      BY <3>2 DEF Additive
    <3> QED
      BY <3>3, <3>5, <3>6
  <2> QED
    BY <1>4, <2>1
<1>7. Cardinality(S) \in T
  <2> HIDE DEF T
  <2> QED
    BY <1>4, <1>5, <1>6, UpTo
<1> QED
  BY <1>3, <1>7

(* Nothing sums up to 0; any element may be taken out.                     *)
LEMMA FiniteSumOut ==
  ASSUME NEW c, NEW S, IsFiniteSet(S), \A x \in S : Term(c, x) \in Int
  PROVE  /\ Total(c, S) \in Int
         /\ S = {} => Total(c, S) = 0
         /\ \A x \in S : Total(c, S) = Term(c, x) + Total(c, S \ {x})
<1>1. PICK g : Additive(g, c, S)
  BY AdditiveExists
<1>2. Total(c, S) = g[S]
  BY <1>1, SumIs
<1>3. ASSUME NEW x \in S
      PROVE  Total(c, S) = Term(c, x) + Total(c, S \ {x})
  <2>1. IsFiniteSet(S \ {x}) /\ Additive(g, c, S \ {x})
    BY <1>1, FS_Subset DEF Additive
  <2>2. Total(c, S \ {x}) = g[S \ {x}]
    BY <2>1, SumIs
  <2> QED
    BY <1>1, <1>2, <2>2 DEF Additive
<1> QED
  BY <1>1, <1>2, <1>3 DEF Additive

(* A sum of naturals is a natural, and no less than any of them.           *)
LEMMA FiniteSumNat ==
  ASSUME NEW c, NEW S, IsFiniteSet(S), \A x \in S : Term(c, x) \in Nat
  PROVE  /\ Total(c, S) \in Nat
         /\ \A x \in S : Total(c, S) >= Term(c, x)
<1> DEFINE T == { m \in 0 .. Cardinality(S) :
                    \A s \in SUBSET S : Cardinality(s) = m => Total(c, s) \in Nat }
<1>1. Cardinality(S) \in Nat
  BY FS_CardinalityType
<1>2. 0 \in T
  <2>1. ASSUME NEW s \in SUBSET S, Cardinality(s) = 0
        PROVE  Total(c, s) \in Nat
    <3>1. IsFiniteSet(s) /\ s = {}
      BY <2>1, FS_Subset, FS_EmptySet
    <3> QED
      BY <3>1, FiniteSumOut
  <2> QED
    BY <1>1, <2>1
<1>3. ASSUME NEW m \in 1 .. Cardinality(S), m - 1 \in T
      PROVE  m \in T
  <2>1. ASSUME NEW s \in SUBSET S, Cardinality(s) = m
        PROVE  Total(c, s) \in Nat
    <3>1. IsFiniteSet(s) /\ s # {}
      BY <1>1, <2>1, FS_Subset, FS_EmptySet
    <3>2. PICK a : a \in s
      BY <3>1
    <3>3. s \ {a} \in SUBSET S /\ Cardinality(s \ {a}) = m - 1
      BY <2>1, <3>1, <3>2, FS_RemoveElement
    <3>4. Total(c, s \ {a}) \in Nat
      BY <1>3, <3>3
    <3>5. Total(c, s) = Term(c, a) + Total(c, s \ {a})
      BY <3>1, <3>2, FiniteSumOut
    <3> QED
      BY <3>2, <3>4, <3>5
  <2> QED
    BY <1>1, <2>1
<1>4. \A s \in SUBSET S : Cardinality(s) = Cardinality(S) => Total(c, s) \in Nat
  <2>1. Cardinality(S) \in T
    <3> HIDE DEF T
    <3> QED
      BY <1>1, <1>2, <1>3, UpTo
  <2> QED
    BY <2>1
<1>5. ASSUME NEW x \in S
      PROVE  Total(c, S) >= Term(c, x)
  <2>1. \A s \in SUBSET S : Total(c, s) \in Nat
    <3>1. ASSUME NEW s \in SUBSET S
          PROVE  Total(c, s) \in Nat
      <4>1. Cardinality(s) \in 0 .. Cardinality(S)
        BY <1>1, FS_Subset, FS_CardinalityType
      <4>2. Cardinality(s) \in T
        <5>1. \A k \in 0 .. Cardinality(S) : k \in T
          <6> HIDE DEF T
          <6> QED
            BY <1>1, <1>2, <1>3, UpTo
        <5> QED
          BY <4>1, <5>1
      <4> QED
        BY <4>2
    <3> QED
      BY <3>1
  <2>2. Total(c, S) = Term(c, x) + Total(c, S \ {x})
    BY FiniteSumOut
  <2>3. Total(c, S \ {x}) \in Nat
    BY <2>1
  <2> QED
    BY <2>2, <2>3
<1> QED
  BY <1>4, <1>5

(* Nothing sums up to 0.                                                   *)
THEOREM SumNone ==
  ASSUME NEW c
  PROVE  Total(c, {}) = 0
<1>1. IsFiniteSet({})
  BY FS_EmptySet
<1> QED
  BY <1>1, FiniteSumOut

(* From here on the elements are the numbers from 1 to n, as those of a    *)
(* sequence are.  A sum of naturals is a natural, and no less than any of  *)
(* them.                                                                   *)
THEOREM SumNat ==
  ASSUME NEW c, NEW n \in Nat, \A i \in 1 .. n : Term(c, i) \in Nat
  PROVE  /\ Total(c, 1 .. n) \in Nat
         /\ \A i \in 1 .. n : Total(c, 1 .. n) >= Term(c, i)
<1>1. IsFiniteSet(1 .. n)
  BY FS_Interval
<1> QED
  BY <1>1, FiniteSumNat

(* The last element taken out.                                             *)
THEOREM SumLast ==
  ASSUME NEW c, NEW n \in Nat, \A i \in 1 .. n + 1 : Term(c, i) \in Int
  PROVE  Total(c, 1 .. n + 1) = Term(c, n + 1) + Total(c, 1 .. n)
<1> DEFINE S == 1 .. n + 1
<1>1. IsFiniteSet(S)
  BY FS_Interval
<1>2. n + 1 \in S /\ S \ {n + 1} = 1 .. n
  OBVIOUS
<1> HIDE DEF S
<1>3. Total(c, S) = Term(c, n + 1) + Total(c, S \ {n + 1})
  <2>1. \A i \in S : Term(c, i) \in Int
    BY DEF S
  <2> QED
    BY <1>1, <1>2, <2>1, FiniteSumOut
<1> QED
  BY <1>2, <1>3 DEF S

(* Equal elements, equal sums.                                             *)
THEOREM SumSame ==
  ASSUME NEW c, NEW d, NEW n \in Nat,
         \A i \in 1 .. n : Term(c, i) \in Int, \A i \in 1 .. n : Term(d, i) = Term(c, i)
  PROVE  Total(d, 1 .. n) = Total(c, 1 .. n)
<1> DEFINE S == 1 .. n
<1>1. IsFiniteSet(S)
  BY FS_Interval
<1>2. PICK g : Additive(g, c, S)
  BY <1>1, AdditiveExists
<1>3. Additive(g, d, S)
  BY <1>2 DEF Additive
<1> HIDE DEF S
<1>4. Total(d, S) = Total(c, S)
  BY <1>1, <1>2, <1>3, SumIs
<1> QED
  BY <1>4 DEF S

(* The sum over a sequence without its first element.                      *)
THEOREM SumFirst ==
  ASSUME NEW c, NEW d, NEW n \in Nat,
         \A i \in 1 .. n + 1 : Term(c, i) \in Int,
         \A i \in 1 .. n : Term(d, i) = Term(c, i + 1)
  PROVE  Total(c, 1 .. n + 1) = Term(c, 1) + Total(d, 1 .. n)
<1> DEFINE T == { k \in 0 .. n : Total(c, 1 .. k + 1) = Term(c, 1) + Total(d, 1 .. k) }
<1>1. \A k \in 0 .. n : Total(d, 1 .. k) \in Int
  <2>1. ASSUME NEW k \in 0 .. n
        PROVE  Total(d, 1 .. k) \in Int
    <3> DEFINE S == 1 .. k
    <3>1. IsFiniteSet(S) /\ \A i \in S : Term(d, i) \in Int
      BY FS_Interval
    <3> HIDE DEF S
    <3>2. Total(d, S) \in Int
      BY <3>1, FiniteSumOut
    <3> QED
      BY <3>2 DEF S
  <2> QED
    BY <2>1
<1>2. 0 \in T
  <2> DEFINE S == 1 .. 0
  <2>1. S = {} /\ IsFiniteSet(S)
    BY FS_EmptySet
  <2> HIDE DEF S
  <2>2. Total(d, S) = 0 /\ Total(c, S) = 0
    BY <2>1, FiniteSumOut
  <2>3. Total(c, 1 .. 0 + 1) = Term(c, 0 + 1) + Total(c, S)
    <3>1. 0 \in Nat /\ \A i \in 1 .. 0 + 1 : Term(c, i) \in Int
      OBVIOUS
    <3>2. Total(c, 1 .. 0 + 1) = Term(c, 0 + 1) + Total(c, 1 .. 0)
      BY <3>1, SumLast
    <3> QED
      BY <3>2 DEF S
  <2> QED
    BY <2>2, <2>3 DEF S
<1>3. ASSUME NEW k \in 1 .. n, k - 1 \in T
      PROVE  k \in T
  <2> DEFINE m == k - 1
  <2>1. m \in Nat /\ k = m + 1 /\ m \in 0 .. n
    OBVIOUS
  <2>2. Total(c, 1 .. k + 1) = Term(c, k + 1) + Total(c, 1 .. k)
    BY SumLast
  <2>3. Total(d, 1 .. m + 1) = Term(d, m + 1) + Total(d, 1 .. m)
    <3>1. \A i \in 1 .. m + 1 : Term(d, i) \in Int
      OBVIOUS
    <3> HIDE DEF m
    <3> QED
      BY <2>1, <3>1, SumLast
  <2>4. Term(d, k) = Term(c, k + 1) /\ Term(c, 1) \in Int /\ Term(c, k + 1) \in Int
    OBVIOUS
  <2>5. Total(c, 1 .. m + 1) = Term(c, 1) + Total(d, 1 .. m)
    BY <1>3
  <2>6. Total(d, 1 .. m) \in Int
    BY <1>1, <2>1
  <2> HIDE DEF m
  <2>7. Total(c, 1 .. k + 1) = Term(c, 1) + Total(d, 1 .. k)
    BY <2>1, <2>2, <2>3, <2>4, <2>5, <2>6
  <2> QED
    BY <2>7
<1> HIDE DEF T
<1>4. n \in T
  BY <1>2, <1>3, UpTo
<1> QED
  BY <1>4 DEF T
=============================================================================
