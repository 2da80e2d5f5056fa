-------------------------- MODULE RecipeGateProofs --------------------------
(***************************************************************************)
(* Proofs about the numbers of a recipe: what NumRange.snap returns for    *)
(* any range and any value, that the knob's positions survive, and that    *)
(* what encode_recipe_blob makes of any volumes is what the machine takes. *)
(***************************************************************************)
EXTENDS RecipeGate, FiniteSetTheorems, WellFoundedInduction, TLAPS

IsRange(range) ==
  /\ range.min \in Int /\ range.max \in Int /\ range.step \in Nat \ {0}
  /\ range.min <= range.max /\ (range.max - range.min) % range.step = 0

-----------------------------------------------------------------------------
(* Rounding *)

LEMMA DivMod ==
  ASSUME NEW a \in Nat, NEW b \in Nat \ {0}
  PROVE  a \div b \in Nat /\ a % b \in 0 .. b - 1 /\ a = b * (a \div b) + (a % b)
<1>0. a \in Int /\ b \in Int /\ b > 0
  OBVIOUS
<1>1. a = b * (a \div b) + (a % b)
  BY <1>0, SMTT(30)
<1>2. a \div b \in Int /\ a \div b >= 0
  BY <1>0, SMTT(30)
<1>3. a % b \in 0 .. b - 1
  OBVIOUS
<1> QED BY <1>1, <1>2, <1>3

LEMMA RoundType ==
  ASSUME NEW a \in Int, NEW b \in Nat \ {0}
  PROVE  Round(a, b) \in Int
<1>1. a \div b \in Int
  <2>1. b \in Int /\ b > 0
    OBVIOUS
  <2> QED BY <2>1, SMTT(30)
<1> QED BY <1>1 DEF Round

LEMMA RoundNearest ==
  ASSUME NEW a \in Nat, NEW b \in Nat \ {0}
  PROVE  /\ Round(a, b) \in Nat
         /\ 2 * (b * Round(a, b) - a) <= b /\ 2 * (a - b * Round(a, b)) <= b
<1> DEFINE q == a \div b
           m == a % b
<1>1. q \in Nat /\ m \in 0 .. b - 1 /\ a = b * q + m
  BY DivMod
<1>2. Round(a, b) = IF 2 * m > b \/ (2 * m = b /\ q % 2 = 1) THEN q + 1 ELSE q
  BY DEF Round
<1>3. b * (q + 1) = b * q + b
  BY <1>1
<1> HIDE DEF q, m
<1> QED BY <1>1, <1>2, <1>3

\* A multiple is not rounded, and nothing is rounded past one.
LEMMA RoundMultiple ==
  ASSUME NEW b \in Nat \ {0}, NEW k \in Nat
  PROVE  Round(b * k, b) = k
<1> DEFINE n == Round(b * k, b)
<1>1. b * k \in Nat
  OBVIOUS
<1>2. n \in Nat /\ 2 * (b * n - b * k) <= b /\ 2 * (b * k - b * n) <= b
  BY <1>1, RoundNearest
<1> HIDE DEF n
<1>3. CASE n > k
  <2>1. b * n >= b * k + b
    <3>1. PICK d \in Nat : n = k + 1 + d
      BY <1>2, <1>3, n - k - 1 \in Nat
    <3>2. b * n = b * k + b + b * d
      BY <3>1
    <3>3. b * d >= 0
      OBVIOUS
    <3> QED BY <1>1, <3>2, <3>3
  <2> QED BY <1>1, <1>2, <2>1
<1>4. CASE n < k
  <2>1. b * k >= b * n + b
    <3>1. PICK d \in Nat : k = n + 1 + d
      BY <1>2, <1>4, k - n - 1 \in Nat
    <3>2. b * k = b * n + b + b * d
      BY <1>2, <3>1
    <3>3. b * d >= 0
      OBVIOUS
    <3> QED BY <1>1, <1>2, <3>2, <3>3
  <2> QED BY <1>1, <1>2, <2>1
<1>5. n = k
  BY <1>2, <1>3, <1>4
<1> QED BY <1>5 DEF n

LEMMA RoundBounded ==
  ASSUME NEW a \in Nat, NEW b \in Nat \ {0}, NEW k \in Nat, a <= b * k
  PROVE  Round(a, b) \in 0 .. k
<1> DEFINE n == Round(a, b)
<1>1. n \in Nat /\ 2 * (b * n - a) <= b
  BY RoundNearest
<1> HIDE DEF n
<1>2. ASSUME n > k PROVE FALSE
  <2>1. PICK d \in Nat : n = k + 1 + d
    BY <1>1, <1>2, n - k - 1 \in Nat
  <2>2. b * n = b * k + b + b * d /\ b * d >= 0 /\ b * k \in Nat
    BY <2>1
  <2> QED BY <1>1, <2>2
<1> QED BY <1>1, <1>2 DEF n

-----------------------------------------------------------------------------
(* Snapping *)

LEMMA GridPoints ==
  ASSUME NEW range, IsRange(range)
  PROVE  \E k \in Nat : range.max = range.min + range.step * k
<1> DEFINE a == range.max - range.min
           b == range.step
<1>1. a \in Nat /\ b \in Nat \ {0} /\ a % b = 0
  BY DEF IsRange
<1>2. a \div b \in Nat /\ a = b * (a \div b) + (a % b)
  <2> HIDE DEF a, b
  <2> QED BY <1>1, DivMod
<1>3. b * (a \div b) \in Int
  BY <1>1, <1>2
<1>4. range.max = range.min + b * (a \div b)
  BY <1>1, <1>2, <1>3 DEF IsRange
<1> QED BY <1>2, <1>4

LEMMA ClampInRange ==
  ASSUME NEW range, IsRange(range), NEW v \in Int
  PROVE  /\ Clamp(range, v) \in range.min .. range.max
         /\ InRange(range, v) /\ v # None => Clamp(range, v) = v
<1> QED BY DEF IsRange, Clamp, InRange

\* NumRange.snap: whatever the value, the result is a point of the range's grid
\* within half a step of the value or, beyond an end, of that end; and snapping
\* again changes nothing, so that a recipe built from a built one does not drift.
THEOREM SnapLands ==
  ASSUME NEW range, IsRange(range), NEW v \in Int
  PROVE  /\ Snap(range, v) \in range.min .. range.max
         /\ \E j \in Nat : Snap(range, v) = range.min + range.step * j
         /\ 2 * (Snap(range, v) - Clamp(range, v)) <= range.step
         /\ 2 * (Clamp(range, v) - Snap(range, v)) <= range.step
         /\ Snap(range, Snap(range, v)) = Snap(range, v)
<1> DEFINE b == range.step
           a == Clamp(range, v) - range.min
           j == Round(a, b)
           s == Snap(range, v)
<1>1. PICK k \in Nat : range.max = range.min + range.step * k
  BY GridPoints
<1>2. b \in Nat \ {0} /\ range.min \in Int /\ range.max \in Int /\ b * k \in Nat
  BY DEF IsRange
<1>3. a \in Nat /\ a <= b * k
  BY <1>1, <1>2, ClampInRange
<1>4. j \in 0 .. k /\ 2 * (b * j - a) <= b /\ 2 * (a - b * j) <= b
  BY <1>2, <1>3, RoundBounded, RoundNearest
<1>5. s = range.min + b * j
  BY DEF Snap
<1>6. b * j \in Nat /\ b * j <= b * k
  <2>1. PICK d \in Nat : k = j + d
    BY <1>4, k - j \in Nat
  <2>2. b * k = b * j + b * d /\ b * d \in Nat /\ b * j \in Nat
    BY <1>2, <1>4, <2>1
  <2> QED BY <2>2
<1>7. s \in range.min .. range.max
  BY <1>1, <1>2, <1>5, <1>6
<1>8. Clamp(range, s) = s
  BY <1>2, <1>7 DEF Clamp
<1>9. Snap(range, s) = s
  <2>1. Snap(range, s) = range.min + b * Round(b * j, b)
    BY <1>2, <1>5, <1>6, <1>8 DEF Snap
  <2>2. Round(b * j, b) = j
    <3>1. b \in Nat \ {0} /\ j \in Nat
      BY <1>2, <1>4
    <3> HIDE DEF b, j
    <3> QED BY <3>1, RoundMultiple
  <2> QED BY <1>5, <2>1, <2>2
<1>10. Clamp(range, v) = range.min + a
  BY <1>2, ClampInRange
<1> HIDE DEF a, b, j, s
<1>11. 2 * (s - Clamp(range, v)) <= b /\ 2 * (Clamp(range, v) - s) <= b
  BY <1>2, <1>3, <1>4, <1>5, <1>6, <1>10
<1> QED BY <1>4, <1>5, <1>7, <1>9, <1>11 DEF b, s

-----------------------------------------------------------------------------
(* The tables *)

\* Every entry of FIELDS, the bypass's and the brewer's too, which build does not
\* snap: it is a range that snap may be asked of, and snap keeps its default.
THEOREM FieldsAreRanges ==
  \A f \in DOMAIN Fields : IsRange(Fields[f]) /\ Snap(Fields[f], Fields[f].default) = Fields[f].default
<1>1. ASSUME NEW f \in DOMAIN Fields PROVE IsRange(Fields[f])
  <2>1. /\ IsRange(Fields.grind_size) /\ IsRange(Fields.grinder_speed_rpm)
        /\ IsRange(Fields.pour_count) /\ IsRange(Fields.pour_volume_ml)
        /\ IsRange(Fields.pour_temperature_c) /\ IsRange(Fields.pour_flow_rate)
        /\ IsRange(Fields.pour_pause_s) /\ IsRange(Fields.bypass_volume_ml)
        /\ IsRange(Fields.bypass_temp_c) /\ IsRange(Fields.brewer_volume_ml)
    BY DEF Fields, NumRange, IsRange
  <2> HIDE DEF IsRange
  <2> QED BY <2>1 DEF Fields
<1>2. ASSUME NEW f \in DOMAIN Fields PROVE Snap(Fields[f], Fields[f].default) = Fields[f].default
  BY DEF Fields, NumRange, Snap, Clamp, Round
<1> QED BY <1>1, <1>2

\* knob_to_celsius, brew_temp_display_to_wire and back: every position of the
\* knob, in either unit, is shown again as it was and saved as a temperature
\* the machine knows.
THEOREM KnobIsKept == \A raw \in KnobValues : KnobKept(raw)
<1> SUFFICES ASSUME NEW raw \in KnobValues PROVE KnobKept(raw)
  OBVIOUS
<1>1. raw \in DisplayMin .. DisplayMax \/ raw \in 103 .. 204
  BY DEF KnobValues
<1>2. KnobToCelsius(raw) \in DisplayMin .. DisplayMax
  BY <1>1 DEF KnobToCelsius, Round, DisplayMin, DisplayMax
<1> QED BY <1>2
    DEF KnobKept, DisplayToWire, WireToDisplay, DisplayMin, DisplayMax, RoomTemp, BoilingPoint

-----------------------------------------------------------------------------
(* Induction, stated of a set of numbers. *)

Smaller == {ss \in Nat \X Nat : ss[1] < ss[2]}

LEMMA LeastNumber ==
  ASSUME NEW W \in SUBSET Nat, W # {}
  PROVE  \E x \in W : \A y \in W : x <= y
<1>1. IsWellFoundedOn(Smaller, Nat)
  BY NatLessThanWellFounded DEF OpToRel, Smaller
<1>2. \A x, y \in Nat : <<x, y>> \in Smaller <=> x < y
  BY DEF Smaller
<1>3. PICK x \in W : \A y \in W : ~ (<<y, x>> \in Smaller)
  BY <1>1, WFMin
<1>4. \A y \in W : x <= y
  <2> TAKE y \in W
  <2>1. x \in Nat /\ y \in Nat /\ ~ (<<y, x>> \in Smaller)
    BY <1>3
  <2>2. ~ (y < x)
    BY <1>2, <2>1
  <2> QED BY <2>1, <2>2
<1> QED BY <1>3, <1>4

LEMMA Induction ==
  ASSUME NEW W, 0 \in W, \A n \in Nat : n \in W => n + 1 \in W
  PROVE  \A n \in Nat : n \in W
<1> SUFFICES ASSUME Nat \ W # {} PROVE FALSE
  OBVIOUS
<1>1. PICK x \in Nat \ W : \A y \in Nat \ W : x <= y
  BY LeastNumber
<1>2. x - 1 \in Nat /\ x - 1 < x
  BY <1>1
<1>3. x - 1 \in W
  BY <1>1, <1>2
<1> QED BY <1>1, <1>2, <1>3

\* The same, up to a bound.
LEMMA InductionTo ==
  ASSUME NEW m \in Nat, NEW W, 0 \in W, \A n \in 0 .. m - 1 : n \in W => n + 1 \in W
  PROVE  m \in W /\ \A n \in 0 .. m : n \in W
<1> DEFINE V == W \union {n \in Nat : n > m}
<1>1. \A n \in Nat : n \in V => n + 1 \in V
  OBVIOUS
<1>2. \A n \in Nat : n \in V
  <2>1. 0 \in V
    OBVIOUS
  <2> HIDE DEF V
  <2> QED BY <1>1, <2>1, Induction
<1> QED BY <1>2

-----------------------------------------------------------------------------
(* Sums *)

\* A set of indices has a largest, and so Max chooses one.
LEMMA MaxOf ==
  ASSUME NEW n \in Nat, NEW s \in SUBSET (1 .. n), s # {}
  PROVE  Max(s) \in s /\ \A y \in s : Max(s) >= y
<1> DEFINE W == {n - x : x \in s}
<1>0. \A x \in s : n - x \in Nat
  OBVIOUS
<1>1. W \in SUBSET Nat /\ W # {}
  BY <1>0
<1>2. PICK w \in W : \A y \in W : w <= y
  <2> HIDE DEF W
  <2> QED BY <1>1, LeastNumber
<1>3. PICK x \in s : w = n - x
  OBVIOUS
<1>4. \A y \in s : x >= y
  <2> TAKE y \in s
  <2>1. n - y \in W
    OBVIOUS
  <2>2. n - x <= n - y
    BY <1>2, <1>3, <2>1
  <2> QED BY <2>2
<1> QED BY <1>4 DEF Max

LEMMA MaxOfInterval ==
  ASSUME NEW k \in Nat \ {0}
  PROVE  Max(1 .. k) = k
<1>1. 1 .. k # {} /\ k \in 1 .. k
  OBVIOUS
<1>2. Max(1 .. k) \in 1 .. k /\ \A y \in 1 .. k : Max(1 .. k) >= y
  BY <1>1, MaxOf
<1> QED BY <1>1, <1>2

\* What Total adds up, over a set of indices.
Added(v, g, s) == IF s = {} THEN 0 ELSE g[s \ {Max(s)}] + v[Max(s)]

\* The recursive function of MapThenFoldSet exists.
LEMMA SumExists ==
  ASSUME NEW n \in Nat, NEW v \in [1 .. n -> Int]
  PROVE  \E g \in [SUBSET (1 .. n) -> Int] : g = [s \in SUBSET (1 .. n) |-> Added(v, g, s)]
<1> DEFINE D == SUBSET (1 .. n)
           Upto(g, k) == \A s \in D : Cardinality(s) <= k => g[s] = Added(v, g, s)
           W == {k \in Nat : \E g \in [D -> Int] : Upto(g, k)}
<1>0. \A s \in D : /\ IsFiniteSet(s) /\ Cardinality(s) \in Nat /\ Cardinality(s) <= n
                   /\ Cardinality(s) = 0 <=> s = {}
                   /\ \A x \in s : s \ {x} \in D /\ Cardinality(s \ {x}) = Cardinality(s) - 1
  <2> TAKE s \in D
  <2>1. IsFiniteSet(1 .. n) /\ Cardinality(1 .. n) = n
    BY FS_Interval
  <2>2. s \in SUBSET (1 .. n)
    OBVIOUS
  <2>3. IsFiniteSet(s) /\ Cardinality(s) <= Cardinality(1 .. n)
    BY <2>1, <2>2, FS_Subset
  <2> QED BY <2>1, <2>3, FS_CardinalityType, FS_EmptySet, FS_RemoveElement
<1>1. 0 \in W
  <2> DEFINE g == [s \in D |-> 0]
  <2>1. Upto(g, 0)
    BY <1>0 DEF Added
  <2>2. g \in [D -> Int]
    OBVIOUS
  <2> HIDE DEF g
  <2> QED BY <2>1, <2>2
<1>2. ASSUME NEW k \in Nat, k \in W PROVE k + 1 \in W
  <2>1. PICK g \in [D -> Int] : Upto(g, k)
    BY <1>2
  <2> DEFINE h == [s \in D |-> Added(v, g, s)]
  <2>2. h \in [D -> Int]
    <3>1. \A s \in D : Added(v, g, s) \in Int
      <4> TAKE s \in D
      <4>1. CASE s # {}
        <5>1. Max(s) \in 1 .. n /\ s \ {Max(s)} \in D
          BY <4>1, MaxOf
        <5>2. g[s \ {Max(s)}] \in Int /\ v[Max(s)] \in Int
          BY <5>1
        <5> QED BY <4>1, <5>2 DEF Added
      <4> QED BY <4>1 DEF Added
    <3> QED BY <3>1
  <2>3. Upto(h, k + 1)
    <3> SUFFICES ASSUME NEW s \in D, Cardinality(s) <= k + 1, s # {}
                 PROVE  Added(v, g, s) = Added(v, h, s)
      BY DEF Added
    <3>1. /\ Max(s) \in s /\ s \ {Max(s)} \in D
          /\ Cardinality(s \ {Max(s)}) <= k
      <4>1. Max(s) \in s
        BY MaxOf
      <4>2. s \ {Max(s)} \in D /\ Cardinality(s \ {Max(s)}) = Cardinality(s) - 1
        BY <1>0, <4>1
      <4>3. Cardinality(s) \in Nat
        BY <1>0
      <4> QED BY <4>1, <4>2, <4>3
    <3>2. h[s \ {Max(s)}] = g[s \ {Max(s)}]
      BY <2>1, <3>1
    <3> QED BY <3>2 DEF Added
  <2>4. k + 1 \in Nat
    OBVIOUS
  <2> HIDE DEF h
  <2> QED BY <2>2, <2>3, <2>4
<1>3. n \in W
  <2> HIDE DEF W
  <2> QED BY <1>1, <1>2, Induction
<1>4. PICK g \in [D -> Int] : Upto(g, n)
  BY <1>3
<1>5. \A s \in D : g[s] = Added(v, g, s)
  BY <1>0, <1>4
<1>6. g = [s \in D |-> Added(v, g, s)]
  BY <1>5
<1> QED BY <1>4, <1>6

\* p[k] is the sum of the first k of the numbers v.
IsSums(p, v, n) ==
  /\ p \in [0 .. n -> Int] /\ p[0] = 0
  /\ \A k \in 1 .. n : p[k] = p[k - 1] + v[k]

LEMMA TotalIsSum ==
  ASSUME NEW n \in Nat, NEW v \in [1 .. n -> Int]
  PROVE  \E p : IsSums(p, v, n) /\ Total(v) = p[n]
<1> DEFINE D == SUBSET (1 .. n)
           g == CHOOSE g : g = [s \in D |-> Added(v, g, s)]
           p == [k \in 0 .. n |-> g[1 .. k]]
<1>0. DOMAIN v = 1 .. n
  OBVIOUS
<1>1. Total(v) = g[1 .. n]
  BY <1>0 DEF Total, FoldLeft, MapThenFoldSet, Added
<1>2. g = [s \in D |-> Added(v, g, s)]
  BY SumExists
<1> HIDE DEF g
<1>3. \A k \in 1 .. n : g[1 .. k] = g[1 .. (k - 1)] + v[k]
  <2> TAKE k \in 1 .. n
  <2>1. 1 .. k \in D /\ k \in 1 .. k
    OBVIOUS
  <2>3. (1 .. k) \ {k} = 1 .. (k - 1)
    OBVIOUS
  <2>2. Max(1 .. k) = k
    BY MaxOfInterval
  <2>4. 1 .. k # {}
    BY <2>1
  <2> QED BY <1>2, <2>1, <2>2, <2>3, <2>4 DEF Added
<1>4. g[1 .. 0] = 0
  <2>1. 1 .. 0 = {} /\ {} \in D
    OBVIOUS
  <2> QED BY <1>2, <2>1 DEF Added
<1>5. \A k \in 0 .. n : g[1 .. k] \in Int
  <2> DEFINE W == {k \in 0 .. n : g[1 .. k] \in Int}
  <2>1. 0 \in W
    BY <1>4
  <2>2. \A k \in 0 .. n - 1 : k \in W => k + 1 \in W
    BY <1>3
  <2> HIDE DEF W
  <2>3. \A k \in 0 .. n : k \in W
    BY <2>1, <2>2, InductionTo
  <2> QED BY <2>3 DEF W
<1>6. IsSums(p, v, n)
  BY <1>3, <1>4, <1>5 DEF IsSums
<1> QED BY <1>1, <1>6

\* A sum is linear, keeps order, and is no less than its parts.
LEMMA TotalType ==
  ASSUME NEW n \in Nat, NEW v \in [1 .. n -> Int]
  PROVE  Total(v) \in Int
<1>1. PICK p : IsSums(p, v, n) /\ Total(v) = p[n]
  BY TotalIsSum
<1> QED BY <1>1 DEF IsSums

LEMMA SumStep ==
  ASSUME NEW n \in Nat, NEW v \in [1 .. n -> Int], NEW p, IsSums(p, v, n), NEW k \in 0 .. n - 1
  PROVE  /\ k + 1 \in 0 .. n /\ k + 1 \in 1 .. n
         /\ p[k + 1] = p[k] + v[k + 1] /\ p[k] \in Int /\ v[k + 1] \in Int
<1>1. k + 1 \in 1 .. n /\ (k + 1) - 1 = k /\ k \in 0 .. n /\ k + 1 \in 0 .. n
  OBVIOUS
<1>2. p[k + 1] = p[(k + 1) - 1] + v[k + 1] /\ p[k] \in Int
  BY <1>1 DEF IsSums
<1>3. v[k + 1] \in Int
  BY <1>1
<1> QED BY <1>1, <1>2, <1>3

LEMMA LinearStep ==
  ASSUME NEW a \in Int, NEW b \in Int, NEW p \in Int, NEW q \in Int, NEW x \in Int, NEW y \in Int
  PROVE  (a * p + b * q) + (a * x + b * y) = a * (p + x) + b * (q + y)
<1>1. a * (p + x) = a * p + a * x /\ a * p \in Int /\ a * x \in Int
  OBVIOUS
<1>2. b * (q + y) = b * q + b * y /\ b * q \in Int /\ b * y \in Int
  OBVIOUS
<1> QED BY <1>1, <1>2

Linear(n, a, u, b, v, w) ==
  /\ a \in Int /\ b \in Int
  /\ u \in [1 .. n -> Int] /\ v \in [1 .. n -> Int] /\ w \in [1 .. n -> Int]
  /\ \A i \in 1 .. n : w[i] = a * u[i] + b * v[i]

LEMMA TotalLinear ==
  ASSUME NEW n \in Nat, NEW a, NEW b, NEW u, NEW v, NEW w, Linear(n, a, u, b, v, w)
  PROVE  Total(w) = a * Total(u) + b * Total(v)
<1>0. /\ a \in Int /\ b \in Int
      /\ u \in [1 .. n -> Int] /\ v \in [1 .. n -> Int] /\ w \in [1 .. n -> Int]
      /\ \A i \in 1 .. n : w[i] = a * u[i] + b * v[i]
  BY DEF Linear
<1>1. PICK p : IsSums(p, u, n) /\ Total(u) = p[n]
  BY <1>0, TotalIsSum
<1>2. PICK q : IsSums(q, v, n) /\ Total(v) = q[n]
  BY <1>0, TotalIsSum
<1>3. PICK r : IsSums(r, w, n) /\ Total(w) = r[n]
  BY <1>0, TotalIsSum
<1> DEFINE W == {k \in 0 .. n : r[k] = a * p[k] + b * q[k]}
<1>4. 0 \in W
  BY <1>0, <1>1, <1>2, <1>3 DEF IsSums
<1>5. ASSUME NEW k \in 0 .. n - 1, k \in W PROVE k + 1 \in W
  <2>1. /\ p[k + 1] = p[k] + u[k + 1] /\ p[k] \in Int /\ u[k + 1] \in Int
        /\ q[k + 1] = q[k] + v[k + 1] /\ q[k] \in Int /\ v[k + 1] \in Int
        /\ r[k + 1] = r[k] + w[k + 1] /\ k + 1 \in 0 .. n /\ k + 1 \in 1 .. n
    <3>1. /\ p[k + 1] = p[k] + u[k + 1] /\ p[k] \in Int /\ u[k + 1] \in Int
          /\ k + 1 \in 0 .. n /\ k + 1 \in 1 .. n
      BY <1>0, <1>1, SumStep
    <3>2. q[k + 1] = q[k] + v[k + 1] /\ q[k] \in Int /\ v[k + 1] \in Int
      BY <1>0, <1>2, SumStep
    <3>3. r[k + 1] = r[k] + w[k + 1]
      BY <1>0, <1>3, SumStep
    <3> QED BY <3>1, <3>2, <3>3
  <2>2. w[k + 1] = a * u[k + 1] + b * v[k + 1] /\ r[k] = a * p[k] + b * q[k]
    <3>1. r[k] = a * p[k] + b * q[k]
      BY <1>5
    <3>2. w[k + 1] = a * u[k + 1] + b * v[k + 1]
      <4> DEFINE i == k + 1
      <4>1. i \in 1 .. n
        BY <2>1
      <4> HIDE DEF i
      <4>2. w[i] = a * u[i] + b * v[i]
        BY <1>0, <4>1
      <4> QED BY <4>2 DEF i
    <3> QED BY <3>1, <3>2
  <2>3. (a * p[k] + b * q[k]) + (a * u[k + 1] + b * v[k + 1])
          = a * (p[k] + u[k + 1]) + b * (q[k] + v[k + 1])
    <3>1. a \in Int /\ b \in Int
      BY <1>0
    <3> QED BY ONLY <2>1, <3>1, LinearStep
  <2>4. r[k + 1] = a * p[k + 1] + b * q[k + 1]
    BY ONLY <2>1, <2>2, <2>3
  <2> QED BY <2>1, <2>4
<1>6. n \in W
  <2> HIDE DEF W
  <2> QED BY <1>4, <1>5, InductionTo
<1> QED BY <1>1, <1>2, <1>3, <1>6

IsSum(n, u, v, w) ==
  /\ u \in [1 .. n -> Int] /\ v \in [1 .. n -> Int] /\ w \in [1 .. n -> Int]
  /\ \A i \in 1 .. n : w[i] = u[i] + v[i]

LEMMA TotalSum ==
  ASSUME NEW n \in Nat, NEW u, NEW v, NEW w, IsSum(n, u, v, w)
  PROVE  Total(w) = Total(u) + Total(v)
<1>1. ASSUME NEW a \in Int, a = 1 PROVE Total(w) = a * Total(u) + a * Total(v)
  <2>1. Linear(n, a, u, a, v, w)
    BY <1>1 DEF IsSum, Linear
  <2> QED BY <2>1, TotalLinear
<1>2. Total(u) \in Int /\ Total(v) \in Int
  BY TotalType DEF IsSum
<1>3. Total(w) = 1 * Total(u) + 1 * Total(v)
  BY <1>1
<1> QED BY <1>2, <1>3

LEMMA TotalOrder ==
  ASSUME NEW n \in Nat, NEW u \in [1 .. n -> Int], NEW v \in [1 .. n -> Int],
         \A i \in 1 .. n : u[i] <= v[i]
  PROVE  Total(u) <= Total(v)
<1>1. PICK p : IsSums(p, u, n) /\ Total(u) = p[n]
  BY TotalIsSum
<1>2. PICK q : IsSums(q, v, n) /\ Total(v) = q[n]
  BY TotalIsSum
<1> DEFINE W == {k \in 0 .. n : p[k] <= q[k]}
<1>4. 0 \in W
  BY <1>1, <1>2 DEF IsSums
<1>5. ASSUME NEW k \in 0 .. n - 1, k \in W PROVE k + 1 \in W
  <2>1. /\ p[k + 1] = p[k] + u[k + 1] /\ p[k] \in Int /\ u[k + 1] \in Int
        /\ q[k + 1] = q[k] + v[k + 1] /\ q[k] \in Int /\ v[k + 1] \in Int
        /\ k + 1 \in 0 .. n /\ k + 1 \in 1 .. n
    BY <1>1, <1>2, SumStep
  <2> QED BY <1>5, <2>1
<1>6. n \in W
  <2> HIDE DEF W
  <2> QED BY <1>4, <1>5, InductionTo
<1> QED BY <1>1, <1>2, <1>6

LEMMA TotalZero ==
  ASSUME NEW n \in Nat, NEW v \in [1 .. n -> Int], \A i \in 1 .. n : v[i] = 0
  PROVE  Total(v) = 0
<1>1. Linear(n, 0, v, 0, v, v)
  BY DEF Linear
<1>2. Total(v) = 0 * Total(v) + 0 * Total(v)
  BY <1>1, TotalLinear
<1> QED BY <1>2, TotalType

\* Ones are counted.
LEMMA TotalCounts ==
  ASSUME NEW n \in Nat, NEW C \in SUBSET (1 .. n), NEW v \in [1 .. n -> Int],
         \A i \in 1 .. n : v[i] = IF i \in C THEN 1 ELSE 0
  PROVE  Total(v) = Cardinality(C)
<1>1. PICK p : IsSums(p, v, n) /\ Total(v) = p[n]
  BY TotalIsSum
<1> DEFINE first(k) == C \intersect (1 .. k)
           W == {k \in 0 .. n : p[k] = Cardinality(first(k))}
<1>2. \A k \in 0 .. n : IsFiniteSet(first(k)) /\ Cardinality(first(k)) \in Nat
  <2> TAKE k \in 0 .. n
  <2>1. IsFiniteSet(1 .. k)
    BY FS_Interval
  <2>2. IsFiniteSet(first(k))
    BY <2>1, FS_Intersection
  <2> QED BY <2>2, FS_CardinalityType
<1>3. 0 \in W
  <2>1. first(0) = {}
    OBVIOUS
  <2> QED BY <1>1, <2>1, FS_EmptySet DEF IsSums
<1>4. ASSUME NEW k \in 0 .. n - 1, k \in W PROVE k + 1 \in W
  <2>1. k + 1 \in 1 .. n /\ (k + 1) - 1 = k /\ k \in 0 .. n
    OBVIOUS
  <2>2. p[k + 1] = p[k] + v[k + 1] /\ p[k] = Cardinality(first(k))
    BY <1>1, <1>4, <2>1 DEF IsSums
  <2>3. Cardinality(first(k + 1)) = Cardinality(first(k)) + v[k + 1]
    <3>1. CASE k + 1 \in C
      <4>1. first(k + 1) = first(k) \union {k + 1} /\ k + 1 \notin first(k)
        BY <3>1
      <4> HIDE DEF first
      <4>2. Cardinality(first(k) \union {k + 1}) = Cardinality(first(k)) + 1
        BY <1>2, <2>1, <4>1, FS_AddElement
      <4> QED BY <2>1, <3>1, <4>1, <4>2
    <3>2. CASE k + 1 \notin C
      <4>1. first(k + 1) = first(k)
        BY <3>2
      <4> HIDE DEF first
      <4> QED BY <1>2, <2>1, <3>2, <4>1
    <3> QED BY <3>1, <3>2
  <2> HIDE DEF first
  <2> QED BY <1>2, <2>1, <2>2, <2>3
<1>5. n \in W
  <2> HIDE DEF W
  <2> QED BY <1>3, <1>4, InductionTo
<1>6. first(n) = C
  OBVIOUS
<1> QED BY <1>1, <1>5, <1>6

-----------------------------------------------------------------------------
(* The largest remainders *)

\* What is ahead of i among the numbers f: the larger, and the earlier of equals.
Ahead(f, n, i) == {j \in 1 .. n : f[j] > f[i] \/ (f[j] = f[i] /\ j < i)}

LEMMA AheadFinite ==
  ASSUME NEW n \in Nat, NEW C \in SUBSET (1 .. n)
  PROVE  IsFiniteSet(C) /\ Cardinality(C) \in Nat /\ Cardinality(C) <= n
<1>1. IsFiniteSet(1 .. n) /\ Cardinality(1 .. n) = n
  BY FS_Interval
<1>2. IsFiniteSet(C) /\ Cardinality(C) <= Cardinality(1 .. n)
  BY <1>1, FS_Subset
<1> QED BY <1>1, <1>2, FS_CardinalityType

\* Who is ahead has the smaller rank.
LEMMA AheadIsSmaller ==
  ASSUME NEW n \in Nat, NEW f \in [1 .. n -> Int], NEW i \in 1 .. n, NEW j \in Ahead(f, n, i)
  PROVE  Cardinality(Ahead(f, n, j)) < Cardinality(Ahead(f, n, i))
<1>1. j \in 1 .. n /\ j \notin Ahead(f, n, j)
  BY DEF Ahead
<1>2. Ahead(f, n, j) \union {j} \subseteq Ahead(f, n, i)
  <2> SUFFICES ASSUME NEW m \in Ahead(f, n, j) PROVE m \in Ahead(f, n, i)
    OBVIOUS
  <2>1. m \in 1 .. n /\ f[m] \in Int /\ f[j] \in Int /\ f[i] \in Int
    BY <1>1 DEF Ahead
  <2> QED BY <1>1, <2>1 DEF Ahead
<1>3. /\ Ahead(f, n, j) \in SUBSET (1 .. n) /\ Ahead(f, n, i) \in SUBSET (1 .. n)
  BY DEF Ahead
<1>4. /\ IsFiniteSet(Ahead(f, n, j)) /\ Cardinality(Ahead(f, n, j)) \in Nat
      /\ IsFiniteSet(Ahead(f, n, i)) /\ Cardinality(Ahead(f, n, i)) \in Nat
  BY <1>3, AheadFinite
<1>5. Cardinality(Ahead(f, n, j) \union {j}) = Cardinality(Ahead(f, n, j)) + 1
  BY <1>1, <1>4, FS_AddElement
<1>6. Cardinality(Ahead(f, n, j) \union {j}) <= Cardinality(Ahead(f, n, i))
  BY <1>2, <1>4, FS_Subset
<1> QED BY <1>4, <1>5, <1>6

Rank(f, n) == [i \in 1 .. n |-> Cardinality(Ahead(f, n, i))]

\* The ranks are 0 to n - 1, each once.
LEMMA Ranks ==
  ASSUME NEW n \in Nat, NEW f \in [1 .. n -> Int]
  PROVE  Rank(f, n) \in Bijection(1 .. n, 0 .. n - 1)
<1>1. Rank(f, n) \in [1 .. n -> 0 .. n - 1]
  <2> SUFFICES ASSUME NEW i \in 1 .. n PROVE Cardinality(Ahead(f, n, i)) \in 0 .. n - 1
    BY DEF Rank
  <2>1. Ahead(f, n, i) \in SUBSET (1 .. n) /\ i \notin Ahead(f, n, i)
    BY DEF Ahead
  <2>2. IsFiniteSet(Ahead(f, n, i)) /\ Cardinality(Ahead(f, n, i)) \in Nat
    BY <2>1, AheadFinite
  <2>3. Cardinality(Ahead(f, n, i) \union {i}) = Cardinality(Ahead(f, n, i)) + 1
    BY <2>1, <2>2, FS_AddElement
  <2>4. Ahead(f, n, i) \union {i} \in SUBSET (1 .. n)
    BY <2>1
  <2>5. Cardinality(Ahead(f, n, i) \union {i}) <= n
    BY <2>4, AheadFinite
  <2> QED BY <2>2, <2>3, <2>5
<1>2. \A i, j \in 1 .. n : i # j => Rank(f, n)[i] # Rank(f, n)[j]
  <2> SUFFICES ASSUME NEW i \in 1 .. n, NEW j \in 1 .. n, i # j
               PROVE  Cardinality(Ahead(f, n, i)) # Cardinality(Ahead(f, n, j))
    BY DEF Rank
  <2>1. j \in Ahead(f, n, i) \/ i \in Ahead(f, n, j)
    <3>1. f[i] \in Int /\ f[j] \in Int
      OBVIOUS
    <3> QED BY <3>1 DEF Ahead
  <2>2. /\ Ahead(f, n, i) \in SUBSET (1 .. n) /\ Ahead(f, n, j) \in SUBSET (1 .. n)
    BY DEF Ahead
  <2>3. Cardinality(Ahead(f, n, i)) \in Nat /\ Cardinality(Ahead(f, n, j)) \in Nat
    BY <2>2, AheadFinite
  <2> QED BY <2>1, <2>3, AheadIsSmaller
<1>3. Rank(f, n) \in Injection(1 .. n, 0 .. n - 1)
  BY <1>1, <1>2 DEF Injection, IsInjective
<1>4. /\ IsFiniteSet(0 .. n - 1) /\ Cardinality(0 .. n - 1) = n
      /\ Cardinality(1 .. n) = n
  BY FS_Interval
<1>5. Rank(f, n) \in Surjection(1 .. n, 0 .. n - 1)
  BY <1>3, <1>4, FS_Injection
<1> QED BY <1>3, <1>5 DEF Bijection

\* So k of them are below k.
LEMMA RankedBelow ==
  ASSUME NEW n \in Nat, NEW f \in [1 .. n -> Int], NEW k \in 0 .. n
  PROVE  Cardinality({i \in 1 .. n : Rank(f, n)[i] < k}) = k
<1> DEFINE C == {i \in 1 .. n : Rank(f, n)[i] < k}
           r == [i \in C |-> Rank(f, n)[i]]
<1>0. Rank(f, n) \in Injection(1 .. n, 0 .. n - 1) /\ Rank(f, n) \in Surjection(1 .. n, 0 .. n - 1)
  BY Ranks DEF Bijection
<1>1. Rank(f, n) \in [1 .. n -> 0 .. n - 1] /\ IsInjective(Rank(f, n))
  BY <1>0 DEF Injection
<1>2. \A i, j \in C : i # j => r[i] # r[j]
  BY <1>1 DEF IsInjective
<1>8. r \in [C -> 0 .. k - 1]
  <2> SUFFICES ASSUME NEW i \in C PROVE Rank(f, n)[i] \in 0 .. k - 1
    OBVIOUS
  <2>1. Rank(f, n)[i] \in 0 .. n - 1 /\ Rank(f, n)[i] < k
    BY <1>1
  <2> QED BY <2>1
<1>3. \A m \in 0 .. k - 1 : \E i \in C : r[i] = m
  <2> TAKE m \in 0 .. k - 1
  <2>1. m \in 0 .. n - 1 /\ m < k
    OBVIOUS
  <2>2. PICK i \in 1 .. n : Rank(f, n)[i] = m
    BY <1>0, <2>1 DEF Surjection
  <2> QED BY <2>1, <2>2
<1> HIDE DEF r
<1>4. r \in Bijection(C, 0 .. k - 1)
  BY <1>8, <1>2, <1>3 DEF Bijection, Injection, IsInjective, Surjection
<1>5. IsFiniteSet(C)
  BY AheadFinite
<1>6. Cardinality(0 .. k - 1) = Cardinality(C)
  BY <1>4, <1>5, FS_Bijection DEF ExistsBijection
<1>7. Cardinality(0 .. k - 1) = k
  BY FS_Interval
<1> QED BY <1>6, <1>7

-----------------------------------------------------------------------------
(* Apportion *)

Near(x, y, d) == x - y < d /\ y - x < d

LEMMA OverShare ==
  ASSUME NEW T \in Nat \ {0}, NEW floor \in Nat, NEW left \in Nat, left < T,
         NEW more \in {0, 1}, more = 1 => left > 0,
         NEW x, x = floor + more, NEW y, y = T * floor + left
  PROVE  Near(x * T, y, T)
<1>1. T * floor \in Nat /\ (floor + 1) * T = T * floor + T /\ (floor + 0) * T = T * floor
  OBVIOUS
<1>2. CASE more = 1
  <2>1. x * T - y = T - left
    BY <1>1, <1>2
  <2> QED BY <1>2, <2>1 DEF Near
<1>3. CASE more = 0
  <2>1. x * T - y = - left
    BY <1>1, <1>3
  <2> QED BY <1>3, <2>1 DEF Near
<1> QED BY <1>2, <1>3

LEMMA Between ==
  ASSUME NEW T \in Nat \ {0}, NEW c \in Nat, NEW k \in Int, 0 <= T * k, T * k <= (T - 1) * c
  PROVE  k \in 0 .. c
<1>1. ASSUME k < 0 PROVE FALSE
  <2>1. T * k = -(T * (-k)) /\ T * (-k) > 0
    BY <1>1
  <2> QED BY <2>1
<1>2. ASSUME k > c PROVE FALSE
  <2>1. PICK d \in Nat : k = c + 1 + d
    BY <1>2, k - c - 1 \in Nat
  <2>2. T * k = T * c + T + T * d /\ T * d >= 0 /\ T * c \in Nat
    BY <2>1
  <2>3. (T - 1) * c = T * c - c
    OBVIOUS
  <2> QED BY <2>2, <2>3
<1> QED BY <1>1, <1>2

\* The target is handed out whole, and nobody gets a unit more or less than its
\* share: the largest remainders are remainders.
LEMMA Apportioned ==
  ASSUME NEW n \in Nat, NEW v \in [1 .. n -> Nat], NEW t \in Nat, Total(v) > 0
  PROVE  /\ Apportion(v, t) \in [1 .. n -> Nat]
         /\ Total(Apportion(v, t)) = t
         /\ \A i \in 1 .. n : Near(Apportion(v, t)[i] * Total(v), v[i] * t, Total(v))
<1> DEFINE T == Total(v)
           floor == [i \in 1 .. n |-> (v[i] * t) \div T]
           left == [i \in 1 .. n |-> (v[i] * t) % T]
           k == t - Total(floor)
           B == {i \in 1 .. n : Rank(left, n)[i] < k}
           bump == [i \in 1 .. n |-> IF i \in B THEN 1 ELSE 0]
           C == {i \in 1 .. n : left[i] > 0}
           some == [i \in 1 .. n |-> IF i \in C THEN 1 ELSE 0]
           most == [i \in 1 .. n |-> (T - 1) * some[i]]
<1>1. T \in Nat \ {0}
  BY TotalType
<1>2. Apportion(v, t) = [i \in 1 .. n |-> floor[i] + bump[i]]
  <2>1. \A i \in 1 .. n : Rank(left, n)[i] =
          Cardinality({j \in 1 .. n : (v[j] * t) % T > (v[i] * t) % T
                                        \/ ((v[j] * t) % T = (v[i] * t) % T /\ j < i)})
    <3> TAKE i \in 1 .. n
    <3>1. Ahead(left, n, i) = {j \in 1 .. n : (v[j] * t) % T > (v[i] * t) % T
                                        \/ ((v[j] * t) % T = (v[i] * t) % T /\ j < i)}
      BY DEF Ahead
    <3> QED BY <3>1 DEF Rank
  <2>2. DOMAIN v = 1 .. n
    OBVIOUS
  <2> QED BY <2>1, <2>2 DEF Apportion
<1>3. /\ floor \in [1 .. n -> Nat] /\ left \in [1 .. n -> Nat]
      /\ \A i \in 1 .. n : v[i] * t = T * floor[i] + left[i] /\ left[i] < T
  <2> HIDE DEF T
  <2>1. \A i \in 1 .. n : /\ floor[i] \in Nat /\ left[i] \in 0 .. T - 1
                           /\ v[i] * t = T * floor[i] + left[i]
    <3> TAKE i \in 1 .. n
    <3>1. v[i] * t \in Nat /\ floor[i] = (v[i] * t) \div T /\ left[i] = (v[i] * t) % T
      OBVIOUS
    <3> HIDE DEF floor, left
    <3>2. /\ (v[i] * t) \div T \in Nat /\ (v[i] * t) % T \in 0 .. T - 1
          /\ v[i] * t = T * ((v[i] * t) \div T) + ((v[i] * t) % T)
      BY <1>1, <3>1, DivMod
    <3> QED BY <3>1, <3>2, Zenon
  <2>2. \A i \in 1 .. n : left[i] \in Nat /\ left[i] < T
    <3> HIDE DEF floor, left
    <3> QED BY <1>1, <2>1
  <2>3. (\A i \in 1 .. n : floor[i] \in Nat) => floor \in [1 .. n -> Nat]
    OBVIOUS
  <2>4. (\A i \in 1 .. n : left[i] \in Nat) => left \in [1 .. n -> Nat]
    OBVIOUS
  <2> HIDE DEF floor, left
  <2> QED BY <2>1, <2>2, <2>3, <2>4
<1>4. \A i \in 1 .. n : floor[i] \in Int /\ left[i] \in Int /\ v[i] \in Int
  BY <1>3
<1>5. v \in [1 .. n -> Int] /\ floor \in [1 .. n -> Int] /\ left \in [1 .. n -> Int]
  BY <1>3
<1>6. bump \in [1 .. n -> Int] /\ some \in [1 .. n -> Int] /\ most \in [1 .. n -> Int]
  BY <1>1
<1> HIDE DEF floor, left, T
<1>7. Total(floor) \in Int /\ k \in Int
  BY <1>5, TotalType
<1>8. Total(left) = T * k
  <2>1. \A i \in 1 .. n : left[i] = t * v[i] + (-T) * floor[i]
    <3> TAKE i \in 1 .. n
    <3>1. v[i] * t = T * floor[i] + left[i] /\ floor[i] \in Int /\ left[i] \in Int /\ v[i] \in Int
      BY <1>3, <1>4
    <3>2. (-T) * floor[i] = -(T * floor[i]) /\ t * v[i] = v[i] * t /\ T * floor[i] \in Int
      BY <1>1, <3>1
    <3> QED BY <3>1, <3>2
  <2>2. Total(left) = t * Total(v) + (-T) * Total(floor)
    <3> DEFINE minus == -T
    <3>1. minus \in Int /\ t \in Int
      BY <1>1
    <3>2. \A i \in 1 .. n : left[i] = t * v[i] + minus * floor[i]
      BY <2>1
    <3> HIDE DEF minus
    <3>3. Total(left) = t * Total(v) + minus * Total(floor)
      <4>1. Linear(n, t, v, minus, floor, left)
        BY <1>5, <3>1, <3>2 DEF Linear
      <4> QED BY <4>1, TotalLinear
    <3> QED BY <3>3 DEF minus
  <2>3. Total(v) = T
    BY DEF T
  <2> HIDE DEF k
  <2>4. t * T + (-T) * Total(floor) = T * (t - Total(floor))
    BY <1>1, <1>7
  <2> QED BY <2>2, <2>3, <2>4 DEF k
<1>9. Cardinality(C) \in 0 .. n /\ C \in SUBSET (1 .. n)
  BY AheadFinite
<1>10. k \in 0 .. Cardinality(C)
  <2>1. Total(some) = Cardinality(C)
    BY <1>6, <1>9, TotalCounts
  <2>2. Total(most) = (T - 1) * Total(some)
    <3> DEFINE a == T - 1
    <3>1. a \in Int /\ 0 \in Int
      BY <1>1
    <3>2. \A i \in 1 .. n : some[i] \in Int /\ most[i] = a * some[i] + 0 * some[i]
      BY <1>1
    <3> HIDE DEF most, some, a
    <3>3. Total(most) = a * Total(some) + 0 * Total(some) /\ Total(some) \in Int
      <4>1. Linear(n, a, some, 0, some, most)
        BY <1>6, <3>1, <3>2 DEF Linear
      <4> QED BY <4>1, <1>6, TotalLinear, TotalType
    <3>4. Total(most) = a * Total(some)
      BY <3>1, <3>3
    <3> QED BY <3>4 DEF a
  <2>3. Total(left) <= Total(most)
    <3>1. \A i \in 1 .. n : left[i] <= most[i]
      <4> TAKE i \in 1 .. n
      <4>1. left[i] \in Nat /\ left[i] < T
        BY <1>3
      <4>2. CASE i \in C
        BY <1>1, <4>1, <4>2
      <4>3. CASE i \notin C
        BY <1>1, <4>1, <4>3
      <4> QED BY <4>2, <4>3
    <3> HIDE DEF most
    <3> QED BY <1>5, <1>6, <3>1, TotalOrder
  <2>4. Total(left) >= 0
    <3> DEFINE none == [i \in 1 .. n |-> 0]
    <3>1. none \in [1 .. n -> Int] /\ (\A i \in 1 .. n : none[i] <= left[i])
          /\ \A i \in 1 .. n : none[i] = 0
      BY <1>3
    <3> HIDE DEF none
    <3>2. Total(none) = 0 /\ Total(none) <= Total(left)
      BY <1>5, <3>1, TotalZero, TotalOrder
    <3> QED BY <3>2, <1>5, TotalType
  <2> HIDE DEF k, C, most, some
  <2>5. 0 <= T * k /\ T * k <= (T - 1) * Cardinality(C)
    BY <1>1, <1>7, <1>8, <1>9, <2>1, <2>2, <2>3, <2>4
  <2>6. Cardinality(C) \in Nat
    BY <1>9
  <2> QED BY <1>1, <1>7, <2>5, <2>6, Between, Zenon
<1>11. Total(bump) = k
  <2>1. B \in SUBSET (1 .. n) /\ k \in 0 .. n
    BY <1>9, <1>10
  <2>2. Cardinality(B) = k
    <3> HIDE DEF k
    <3> QED BY <1>5, <2>1, RankedBelow
  <2>3. Total(bump) = Cardinality(B)
    BY <1>6, <2>1, TotalCounts
  <2> QED BY <2>2, <2>3
<1>12. \A i \in B : left[i] > 0
  <2> SUFFICES ASSUME NEW i \in B, ~ (left[i] > 0) PROVE FALSE
    OBVIOUS
  <2>0. i \in 1 .. n /\ left[i] = 0
    BY <1>3
  <2>1. C \subseteq Ahead(left, n, i) /\ Ahead(left, n, i) \in SUBSET (1 .. n)
    BY <2>0 DEF Ahead
  <2>2. IsFiniteSet(Ahead(left, n, i)) /\ Cardinality(Ahead(left, n, i)) \in Nat
    BY <2>1, AheadFinite
  <2>3. Cardinality(C) <= Cardinality(Ahead(left, n, i))
    BY <2>1, <2>2, FS_Subset
  <2>4. Rank(left, n)[i] = Cardinality(Ahead(left, n, i)) /\ Rank(left, n)[i] < k
    BY <2>0 DEF Rank
  <2> HIDE DEF C, k, B
  <2> QED BY <1>9, <1>10, <2>2, <2>3, <2>4
<1>13. Apportion(v, t) \in [1 .. n -> Nat]
  BY <1>2, <1>3
<1>14. Total(Apportion(v, t)) = t
  <2> DEFINE w == Apportion(v, t)
  <2>1. w \in [1 .. n -> Int]
    BY <1>13
  <2>2. \A i \in 1 .. n : w[i] = floor[i] + bump[i]
    BY <1>2
  <2> HIDE DEF w, bump
  <2>3. Total(w) = Total(floor) + Total(bump)
    <3>1. IsSum(n, floor, bump, w)
      BY <1>5, <1>6, <2>1, <2>2 DEF IsSum
    <3> QED BY <3>1, TotalSum
  <2> QED BY <1>7, <1>11, <2>3 DEF w
<1>15. \A i \in 1 .. n : Near(Apportion(v, t)[i] * T, v[i] * t, T)
  <2> TAKE i \in 1 .. n
  <2>1. /\ v[i] * t = T * floor[i] + left[i] /\ left[i] < T
        /\ floor[i] \in Nat /\ left[i] \in Nat
    BY <1>3
  <2>2. Apportion(v, t)[i] = floor[i] + bump[i]
    BY <1>2
  <2>3. bump[i] \in {0, 1} /\ (bump[i] = 1 => left[i] > 0)
    BY <1>12
  <2> HIDE DEF bump, B
  <2> QED BY <1>1, <2>1, <2>2, <2>3, OverShare
<1> QED BY <1>13, <1>14, <1>15 DEF T

-----------------------------------------------------------------------------
(* Float32 *)

LEMMA PowerOfTwo ==
  ASSUME NEW k \in Nat
  PROVE  2 ^ k \in Nat \ {0}
<1>1. IsFiniteSet(1 .. k) /\ Cardinality(1 .. k) = k
  BY FS_Interval
<1>2. IsFiniteSet(SUBSET (1 .. k)) /\ Cardinality(SUBSET (1 .. k)) = 2 ^ k
  BY <1>1, FS_SUBSET
<1>3. SUBSET (1 .. k) # {}
  OBVIOUS
<1> QED BY <1>2, <1>3, FS_CardinalityType, FS_EmptySet

LEMMA PlacesType ==
  ASSUME NEW r \in Int
  PROVE  Places(r) \in 19 .. 27
<1> DEFINE S == {2, 3, 5, 10, 20, 40, 80, 160}
           rank == [t \in S |-> IF t = 2 THEN 1 ELSE IF t = 3 THEN 2 ELSE IF t = 5 THEN 3
                     ELSE IF t = 10 THEN 4 ELSE IF t = 20 THEN 5 ELSE IF t = 40 THEN 6
                     ELSE IF t = 80 THEN 7 ELSE 8]
<1>1. IsFiniteSet(S) /\ Cardinality(S) <= 8
  <2>1. rank \in [S -> 1 .. 8]
    OBVIOUS
  <2>2. \A t, u \in S : rank[t] = rank[u] => t = u
    OBVIOUS
  <2> HIDE DEF S, rank
  <2>3. rank \in Injection(S, 1 .. 8)
    BY <2>1, <2>2 DEF Injection, IsInjective
  <2>4. IsFiniteSet(1 .. 8) /\ Cardinality(1 .. 8) = 8
    <3>1. /\ IsFiniteSet(1 .. 8)
          /\ Cardinality(1 .. 8) = IF 1 > 8 THEN 0 ELSE 8 - 1 + 1
      <4>1. 1 \in Int /\ 8 \in Int
        OBVIOUS
      <4> QED BY <4>1, FS_Interval
    <3> QED BY <3>1
  <2> QED BY <2>3, <2>4, FS_Injection
<1> DEFINE passed == {t \in S : r >= t}
<1>2. Places(r) = 27 - Cardinality(passed)
  BY DEF Places
<1>3. passed \subseteq S
  OBVIOUS
<1> HIDE DEF S, passed
<1>4. IsFiniteSet(passed) /\ Cardinality(passed) <= Cardinality(S)
  BY <1>1, <1>3, FS_Subset
<1>5. Cardinality(passed) \in Nat /\ Cardinality(S) \in Nat
  BY <1>1, <1>4, FS_CardinalityType
<1> QED BY <1>1, <1>2, <1>4, <1>5

LEMMA F32Type ==
  ASSUME NEW n \in Nat
  PROVE  F32(n) \in Nat
<1> DEFINE high == {i \in 24 .. 30 : n >= 2 ^ i}
           unit == 2 ^ Cardinality(high)
<1>1. IsFiniteSet(24 .. 30)
  <2>1. 24 \in Int /\ 30 \in Int
    OBVIOUS
  <2> QED BY <2>1, FS_Interval, Zenon
<1>2. Cardinality(high) \in Nat
  <2>1. high \subseteq 24 .. 30
    OBVIOUS
  <2> HIDE DEF high
  <2> QED BY <1>1, <2>1, FS_Subset, FS_CardinalityType
<1>3. unit \in Nat \ {0}
  BY <1>2, PowerOfTwo
<1>4. F32(n) = unit * Round(n, unit)
  BY DEF F32
<1> HIDE DEF unit
<1>5. Round(n, unit) \in Nat
  BY <1>3, RoundNearest
<1> QED BY <1>3, <1>4, <1>5

LEMMA TruncatedType ==
  ASSUME NEW r \in Nat, NEW dose \in Nat
  PROVE  Truncated(r, dose) \in Nat
<1> DEFINE scale == 2 ^ Places(r)
           parts == Round(r * scale, 10)
<1>1. scale \in Nat \ {0}
  BY PlacesType, PowerOfTwo
<1>2. Truncated(r, dose) = F32(parts * dose) \div scale
  BY DEF Truncated, Product
<1> HIDE DEF scale
<1>3. r * scale \in Nat
  BY <1>1
<1>4. parts \in Nat
  BY <1>3, RoundNearest
<1> HIDE DEF parts
<1>5. F32(parts * dose) \in Nat
  BY <1>4, F32Type
<1> QED BY <1>1, <1>2, <1>5, DivMod

-----------------------------------------------------------------------------
(* The ratio and the volumes of _gate_consistent_volumes *)

LEMMA RoundEitherType ==
  ASSUME NEW a \in Int, NEW b \in Nat \ {0}
  PROVE  RoundEither(a, b) \in Int
<1>1. a \div b \in Int
  <2>1. b \in Int /\ b > 0
    OBVIOUS
  <2> QED BY <2>1, SMTT(30)
<1> QED BY <1>1, RoundType DEF RoundEither

LEMMA MinOf ==
  ASSUME NEW S \in SUBSET Nat, S # {}
  PROVE  Min(S) \in S
<1>1. \E x \in S : \A y \in S : x <= y
  BY LeastNumber
<1> QED BY <1>1 DEF Min

LEMMA RatioByteType ==
  ASSUME NEW volumes, Total(volumes) \in Int, NEW dose \in Nat \ {0}
  PROVE  RatioByte(volumes, dose) \in 1 .. 255
<1> DEFINE r0 == RoundEither(Total(volumes), dose)
           good == {k \in DOMAIN Nearby : Unambiguous(r0 + Nearby[k], dose)}
<1>1. r0 \in Int
  BY RoundEitherType
<1>2. RatioByte(volumes, dose) =
        IF good # {} THEN r0 + Nearby[Min(good)]
        ELSE IF r0 < 1 THEN 1 ELSE IF r0 > 255 THEN 255 ELSE r0
  BY DEF RatioByte
<1>3. good \in SUBSET Nat
  <2>1. DOMAIN Nearby = 1 .. 5
    BY DEF Nearby
  <2> QED BY <2>1
<1>4. \A k \in good : r0 + Nearby[k] \in 1 .. 255
  BY DEF Unambiguous
<1> HIDE DEF r0, good
<1>5. CASE good # {}
  <2>1. Min(good) \in good
    BY <1>3, <1>5, MinOf
  <2> QED BY <1>2, <1>4, <1>5, <2>1
<1>6. CASE good = {}
  BY <1>1, <1>2, <1>6
<1> QED BY <1>5, <1>6

\* A sum is no less than one of its parts.
LEMMA TotalPart ==
  ASSUME NEW n \in Nat, NEW v \in [1 .. n -> Nat], NEW i \in 1 .. n
  PROVE  v[i] <= Total(v)
<1> DEFINE one == [j \in 1 .. n |-> IF j \in {i} THEN 1 ELSE 0]
           part == [j \in 1 .. n |-> IF j = i THEN v[i] ELSE 0]
<1>1. v \in [1 .. n -> Int] /\ one \in [1 .. n -> Int] /\ part \in [1 .. n -> Int]
  OBVIOUS
<1>2. Total(one) = 1
  <2>1. {i} \in SUBSET (1 .. n) /\ \A j \in 1 .. n : one[j] = IF j \in {i} THEN 1 ELSE 0
    OBVIOUS
  <2>2. Cardinality({i}) = 1
    BY FS_Singleton
  <2> HIDE DEF one
  <2> QED BY <1>1, <2>1, <2>2, TotalCounts
<1>3. Linear(n, v[i], one, 0, one, part)
  <2>1. v[i] \in Int /\ \A j \in 1 .. n : part[j] = v[i] * one[j] + 0 * one[j]
    OBVIOUS
  <2> HIDE DEF one, part
  <2> QED BY <1>1, <2>1 DEF Linear
<1>4. \A j \in 1 .. n : part[j] <= v[j]
  OBVIOUS
<1>5. v[i] \in Int
  OBVIOUS
<1> HIDE DEF one, part
<1>6. Total(part) = v[i] * 1 + 0 * 1
  BY <1>2, <1>3, TotalLinear
<1>7. Total(part) <= Total(v)
  BY <1>1, <1>4, TotalOrder
<1> QED BY <1>5, <1>6, <1>7

\* The two cases of the gate.
LEMMA GateOf ==
  ASSUME NEW n \in Nat, NEW v \in [1 .. n -> Nat], NEW dose \in Int
  PROVE  LET gate == GateConsistent(v, dose) IN
         /\ gate.volumes \in [1 .. n -> Nat]
         /\ dose > 0 /\ Total(v) > 0 =>
              /\ gate.ratio \in 1 .. 255
              /\ Total(gate.volumes) = Truncated(gate.ratio, dose)
              /\ \A i \in 1 .. n :
                   Near(gate.volumes[i] * Total(v), v[i] * Total(gate.volumes), Total(v))
         /\ ~ (Total(v) > 0) => \A i \in 1 .. n : gate.volumes[i] = 0
<1> DEFINE gate == GateConsistent(v, dose)
           r == RatioByte(v, dose)
           t == Truncated(r, dose)
<1>0. Total(v) \in Int /\ DOMAIN v = 1 .. n /\ v \in [1 .. n -> Int]
  BY TotalType
<1>1. CASE dose > 0 /\ Total(v) > 0
  <2>1. gate = [volumes |-> Apportion(v, t), ratio |-> r]
    <3>1. ~ (dose <= 0 \/ Total(v) <= 0)
      BY <1>0, <1>1
    <3> QED BY <3>1, Zenon DEF GateConsistent
  <2>2. r \in 1 .. 255
    <3>1. dose \in Nat \ {0}
      BY <1>1
    <3> QED BY <1>0, <3>1, RatioByteType
  <2>3. t \in Nat
    <3> HIDE DEF r
    <3>1. r \in Nat /\ dose \in Nat
      BY <1>1, <2>2
    <3> QED BY <3>1, TruncatedType
  <2> HIDE DEF r, t
  <2>4. /\ Apportion(v, t) \in [1 .. n -> Nat] /\ Total(Apportion(v, t)) = t
        /\ \A i \in 1 .. n : Near(Apportion(v, t)[i] * Total(v), v[i] * t, Total(v))
    BY <1>1, <2>3, Apportioned
  <2>5. gate.volumes = Apportion(v, t) /\ gate.ratio = r
    BY <2>1
  <2> HIDE DEF gate
  <2> QED BY <1>1, <2>2, <2>4, <2>5 DEF t, gate
<1>2. CASE ~ (dose > 0 /\ Total(v) > 0)
  <2>1. gate = [volumes |-> [i \in 1 .. n |-> Round(v[i], 10)], ratio |-> 0]
    <3>1. dose <= 0 \/ Total(v) <= 0
      BY <1>0, <1>2
    <3> QED BY <1>0, <3>1, Zenon DEF GateConsistent
  <2>2. \A i \in 1 .. n : Round(v[i], 10) \in Nat
    <3> TAKE i \in 1 .. n
    <3>1. v[i] \in Nat
      OBVIOUS
    <3> QED BY <3>1 DEF Round
  <2>3. gate.volumes = [i \in 1 .. n |-> Round(v[i], 10)]
    BY <2>1
  <2>4. ASSUME ~ (Total(v) > 0), NEW i \in 1 .. n PROVE Round(v[i], 10) = 0
    <3>1. v[i] <= Total(v) /\ v[i] \in Nat
      BY TotalPart
    <3>2. v[i] = 0
      BY <1>0, <2>4, <3>1
    <3> QED BY <3>2 DEF Round
  <2> HIDE DEF gate
  <2> QED BY <1>2, <2>2, <2>3, <2>4 DEF gate
<1> QED BY <1>1, <1>2

-----------------------------------------------------------------------------
(* The blob *)

\* Nothing of a volume is lost when it is split, and no part is too long.
LEMMA ChunksWhole ==
  ASSUME NEW v \in Nat
  PROVE  /\ Total(Chunks(v)) = v
         /\ \A i \in DOMAIN Chunks(v) : Chunks(v)[i] \in 0 .. 127
<1> DEFINE q == v \div 127
           m == v % 127
           n == IF m = 0 THEN q ELSE q + 1
           c == Chunks(v)
           whole == [i \in 1 .. n |-> IF i \in 1 .. q THEN 1 ELSE 0]
           rest == [i \in 1 .. n |-> IF i \in q + 1 .. n THEN 1 ELSE 0]
<1>0. q \in Nat /\ m \in 0 .. 126 /\ v = 127 * q + m
  BY DivMod
<1>1. CASE v <= 127
  <2>1. c = <<v>> /\ <<v>> \in [1 .. 1 -> Int] /\ <<v>>[1] = v
    BY <1>1 DEF Chunks
  <2>2. PICK p : IsSums(p, c, 1) /\ Total(c) = p[1]
    BY <2>1, 1 \in Nat, TotalIsSum
  <2>3. p[1] = p[1 - 1] + c[1] /\ p[0] = 0 /\ 1 - 1 = 0
    BY <2>2 DEF IsSums
  <2>4. Total(c) = v
    BY <2>1, <2>2, <2>3
  <2>5. \A i \in DOMAIN c : c[i] \in 0 .. 127
    BY <1>1, <2>1
  <2> QED BY <2>4, <2>5
<1>2. CASE v > 127
  <2>0. c = [i \in 1 .. q |-> 127] \o (IF m = 0 THEN <<>> ELSE <<m>>)
    BY <1>2 DEF Chunks
  <2> HIDE DEF q, m
  <2>1. [i \in 1 .. q |-> 127] \in Seq(Int) /\ Len([i \in 1 .. q |-> 127]) = q
    BY <1>0
  <2>2. /\ c \in [1 .. n -> Int]
        /\ \A i \in 1 .. n : c[i] = IF i \in 1 .. q THEN 127 ELSE m
    <3>1. CASE m = 0
      <4>1. c = [i \in 1 .. q |-> 127] \o <<>>
        BY <2>0, <3>1
      <4>2. c = [i \in 1 .. q |-> 127]
        BY <2>1, <4>1
      <4> QED BY <1>0, <3>1, <4>2
    <3>2. CASE m # 0
      <4>1. c = [i \in 1 .. q |-> 127] \o <<m>>
        BY <2>0, <3>2
      <4>2. Len(c) = q + 1 /\ c \in Seq(Int)
            /\ \A i \in 1 .. q + 1 : c[i] = IF i <= q THEN 127 ELSE m
        BY <1>0, <2>1, <4>1
      <4> HIDE DEF c
      <4> QED BY <1>0, <3>2, <4>2
    <3> QED BY <3>1, <3>2
  <2>3. n \in Nat /\ q <= n /\ m * (n - q) = m
    BY <1>0
  <2>4. whole \in [1 .. n -> Int] /\ rest \in [1 .. n -> Int]
    OBVIOUS
  <2>5. Total(whole) = q
    <3>1. 1 .. q \in SUBSET (1 .. n) /\ \A i \in 1 .. n : whole[i] = IF i \in 1 .. q THEN 1 ELSE 0
      BY <1>0, <2>3
    <3>2. Cardinality(1 .. q) = q
      BY <1>0, FS_Interval
    <3> HIDE DEF whole, n
    <3> QED BY <2>3, <2>4, <3>1, <3>2, TotalCounts
  <2>6. Total(rest) = n - q
    <3>1. q + 1 .. n \in SUBSET (1 .. n)
          /\ \A i \in 1 .. n : rest[i] = IF i \in q + 1 .. n THEN 1 ELSE 0
      BY <1>0, <2>3
    <3>2. Cardinality(q + 1 .. n) = n - q
      <4>1. q + 1 \in Int /\ n \in Int /\ (q + 1 > n \/ n - (q + 1) + 1 = n - q)
        BY <1>0, <2>3
      <4>2. q + 1 > n => n - q = 0
        BY <1>0, <2>3
      <4> HIDE DEF n
      <4> QED BY <4>1, <4>2, FS_Interval
    <3> HIDE DEF rest, n
    <3> QED BY <2>3, <2>4, <3>1, <3>2, TotalCounts
  <2> HIDE DEF c
  <2>7. Linear(n, 127, whole, m, rest, c)
    <3>1. 127 \in Int /\ m \in Int
      BY <1>0
    <3>2. \A i \in 1 .. n : c[i] = 127 * whole[i] + m * rest[i]
      <4> TAKE i \in 1 .. n
      <4>1. CASE i \in 1 .. q
        <5>1. whole[i] = 1 /\ rest[i] = 0 /\ c[i] = 127
          BY <1>0, <2>2, <4>1
        <5> QED BY <1>0, <5>1
      <4>2. CASE i \notin 1 .. q
        <5>1. whole[i] = 0 /\ rest[i] = 1 /\ c[i] = m
          BY <1>0, <2>2, <4>2
        <5> QED BY <1>0, <5>1
      <4> QED BY <4>1, <4>2
    <3> HIDE DEF whole, rest
    <3> QED BY <2>2, <2>4, <3>1, <3>2 DEF Linear
  <2>8. Total(c) = 127 * Total(whole) + m * Total(rest)
    <3> HIDE DEF whole, rest, n
    <3> QED BY <2>3, <2>7, TotalLinear
  <2>9. Total(c) = v
    <3> HIDE DEF whole, rest, n
    <3> QED BY <1>0, <2>3, <2>5, <2>6, <2>8
  <2>10. \A i \in DOMAIN c : c[i] \in 0 .. 127
    <3> HIDE DEF n
    <3>1. DOMAIN c = 1 .. n
      BY <2>2
    <3>2. 127 \in 0 .. 127 /\ m \in 0 .. 127
      BY <1>0
    <3> QED BY <2>2, <3>1, <3>2
  <2> QED BY <2>9, <2>10 DEF c
<1> QED BY <1>1, <1>2

\* What encode_recipe_blob asks the gate for.
Asked(pours) == [i \in DOMAIN pours |-> IF pours[i].volume_ml > 0 THEN pours[i].volume_ml ELSE 0]

LEMMA BlobOf ==
  ASSUME NEW n \in Nat, NEW pours, DOMAIN pours = 1 .. n,
         \A i \in 1 .. n : pours[i].volume_ml \in Int,
         NEW dose \in Int, NEW grinder, NEW rpm
  PROVE  LET blob == EncodeBlob(pours, grinder, dose, rpm)
             gate == GateConsistent(Asked(pours), Round(dose, 10))
         IN  /\ blob.ratio = gate.ratio
             /\ DOMAIN blob.steps = 1 .. n
             /\ \A i \in 1 .. n : Poured(blob.steps[i]) = gate.volumes[i]
             /\ [i \in DOMAIN blob.steps |-> Poured(blob.steps[i])] = gate.volumes
             /\ Asked(pours) \in [1 .. n -> Nat] /\ Round(dose, 10) \in Int
<1> DEFINE blob == EncodeBlob(pours, grinder, dose, rpm)
           gate == GateConsistent(Asked(pours), Round(dose, 10))
           steps == [i \in DOMAIN pours |->
                       EncodePour(pours[i], gate.volumes[i], IF i = 1 THEN rpm ELSE 0)]
<1>1. Asked(pours) \in [1 .. n -> Nat]
  BY DEF Asked
<1>2. Round(dose, 10) \in Int
  BY DEF Round
<1>3. gate.volumes \in [1 .. n -> Nat]
  BY <1>1, <1>2, GateOf
<1>4. blob.ratio = gate.ratio /\ blob.steps = steps
  BY DEF EncodeBlob, Asked
<1> HIDE DEF gate, blob
<1>5. \A i \in 1 .. n : Poured(steps[i]) = gate.volumes[i]
  <2> TAKE i \in 1 .. n
  <2>1. steps[i].chunks = Chunks(gate.volumes[i])
    BY DEF EncodePour
  <2>2. gate.volumes[i] \in Nat
    BY <1>3
  <2> HIDE DEF steps
  <2> QED BY <2>1, <2>2, ChunksWhole DEF Poured
<1>6. DOMAIN steps = 1 .. n
  OBVIOUS
<1> HIDE DEF steps
<1>7. [i \in 1 .. n |-> Poured(steps[i])] = gate.volumes
  BY <1>3, <1>5
<1> QED BY <1>1, <1>2, <1>4, <1>5, <1>6, <1>7 DEF gate, blob

-----------------------------------------------------------------------------
(* The length byte *)

LEMMA PowerOrder ==
  ASSUME NEW k \in Nat, NEW m \in Nat, k <= m
  PROVE  2 ^ k <= 2 ^ m
<1>1. /\ IsFiniteSet(1 .. k) /\ Cardinality(1 .. k) = k
      /\ IsFiniteSet(1 .. m) /\ Cardinality(1 .. m) = m
  BY FS_Interval
<1>2. /\ Cardinality(SUBSET (1 .. k)) = 2 ^ k
      /\ IsFiniteSet(SUBSET (1 .. m)) /\ Cardinality(SUBSET (1 .. m)) = 2 ^ m
  BY <1>1, FS_SUBSET
<1>3. SUBSET (1 .. k) \in SUBSET (SUBSET (1 .. m))
  OBVIOUS
<1> QED BY <1>2, <1>3, FS_Subset

\* Float32 keeps a number to a part in 2^17, and never adds more than 2^7.
LEMMA F32Near ==
  ASSUME NEW n \in Nat, NEW p \in Nat, p >= 7
  PROVE  F32(n) \in Nat /\ F32(n) <= n + 2 ^ p
<1> DEFINE high == {i \in 24 .. 30 : n >= 2 ^ i}
           c == Cardinality(high)
           unit == 2 ^ c
           top == 2 ^ p
<1>1. IsFiniteSet(24 .. 30) /\ Cardinality(24 .. 30) = 7
  <2>1. 24 \in Int /\ 30 \in Int
    OBVIOUS
  <2>2. /\ IsFiniteSet(24 .. 30)
        /\ Cardinality(24 .. 30) = IF 24 > 30 THEN 0 ELSE 30 - 24 + 1
    BY <2>1, FS_Interval, Zenon
  <2> QED BY <2>2
<1>2. c \in Nat /\ c <= 7
  <2>1. high \in SUBSET (24 .. 30)
    OBVIOUS
  <2> HIDE DEF high
  <2>2. IsFiniteSet(high) /\ Cardinality(high) <= Cardinality(24 .. 30)
    BY <1>1, <2>1, FS_Subset
  <2> QED BY <1>1, <2>2, FS_CardinalityType
<1>3. F32(n) = unit * Round(n, unit)
  BY DEF F32
<1> HIDE DEF c
<1>4. unit \in Nat \ {0} /\ top \in Nat /\ unit <= top
  BY <1>2, PowerOfTwo, PowerOrder
<1> HIDE DEF unit, top
<1>5. Round(n, unit) \in Nat /\ 2 * (unit * Round(n, unit) - n) <= unit
  BY <1>4, RoundNearest
<1>6. unit * Round(n, unit) \in Nat
  BY <1>4, <1>5
<1>7. unit * Round(n, unit) <= n + top
  BY <1>4, <1>5, <1>6
<1> QED BY <1>3, <1>6, <1>7 DEF top

LEMMA Cancel ==
  ASSUME NEW s \in Nat \ {0}, NEW a \in Int, NEW b \in Int, s * a <= s * b
  PROVE  a <= b
<1> SUFFICES ASSUME a >= b + 1 PROVE FALSE
  OBVIOUS
<1>1. PICK d \in Nat : a = b + 1 + d
  <2>1. a - b - 1 \in Nat /\ a = b + 1 + (a - b - 1)
    OBVIOUS
  <2> QED BY <2>1
<1>2. s * a = s * b + s + s * d
  BY <1>1
<1>3. s * d \in Nat /\ s * b \in Int
  BY <1>1
<1> QED BY <1>2, <1>3

\* The water of a blob, in millilitres: 127 grams at 1:25.5, and the rounding.
MostWater == 3303

LEMMA TruncatedBounded ==
  ASSUME NEW r \in 1 .. 255, NEW dose \in 0 .. 127
  PROVE  Truncated(r, dose) \in 0 .. MostWater
<1> DEFINE p == Places(r)
           scale == 2 ^ p
           parts == Round(r * scale, 10)
           product == F32(parts * dose)
           t == product \div scale
<1>1. p \in Nat /\ p >= 7
  BY PlacesType
<1>2. Truncated(r, dose) = t
  BY DEF Truncated, Product
<1> HIDE DEF p
<1>3. scale \in Nat \ {0}
  BY <1>1, PowerOfTwo
<1>4. r * scale \in Nat
  BY <1>3
<1>5. parts \in Nat /\ 2 * (10 * parts - r * scale) <= 10
  BY <1>4, RoundNearest
<1> HIDE DEF parts
<1>6. parts * dose \in Nat
  BY <1>5
<1>7. product \in Nat /\ product <= parts * dose + scale
  BY <1>1, <1>6, F32Near
<1> HIDE DEF product, scale
<1>8. t \in Nat /\ scale * t <= product
  <2>1. t \in Nat /\ product % scale \in 0 .. scale - 1 /\ product = scale * t + (product % scale)
    BY <1>3, <1>7, DivMod
  <2> HIDE DEF t
  <2>2. scale * t \in Nat
    BY <1>3, <2>1
  <2> QED BY <1>3, <1>7, <2>1, <2>2
<1> HIDE DEF t
<1>9. 10 * (parts * dose) <= scale * (r * dose) + 5 * dose
  <2>1. 10 * parts <= r * scale + 5
    BY <1>4, <1>5
  <2>2. PICK d \in Nat : r * scale + 5 = 10 * parts + d
    <3> DEFINE a == r * scale + 5
               d == a - 10 * parts
    <3>1. a \in Nat /\ 10 * parts <= a
      BY <1>4, <2>1
    <3> HIDE DEF a
    <3>2. d \in Nat /\ a = 10 * parts + d
      BY <1>5, <3>1
    <3> HIDE DEF d
    <3>3. \E e \in Nat : a = 10 * parts + e
      BY <3>2
    <3> QED BY <3>3 DEF a
  <2>3. (r * scale + 5) * dose = (10 * parts + d) * dose
    BY <2>2
  <2>4. (r * scale + 5) * dose = scale * (r * dose) + 5 * dose
    BY <1>3
  <2>5. (10 * parts + d) * dose = 10 * (parts * dose) + d * dose /\ d * dose \in Nat
    BY <1>5, <2>2
  <2>6. scale * (r * dose) \in Nat
    BY <1>3
  <2> QED BY <1>6, <2>3, <2>4, <2>5, <2>6
<1>10. scale * (10 * t) <= scale * (r * dose + 5 * dose + 10)
  <2> DEFINE w == r * dose
  <2>1. w \in Nat
    OBVIOUS
  <2> HIDE DEF w
  <2>2. 5 * dose <= scale * (5 * dose)
    BY <1>3
  <2>3. scale * (w + 5 * dose + 10) = scale * w + scale * (5 * dose) + 10 * scale
    BY <1>3, <2>1
  <2>4. scale * (10 * t) = 10 * (scale * t)
    BY <1>3, <1>8
  <2>5. scale * w \in Nat /\ scale * t \in Nat /\ scale * (5 * dose) \in Nat
    BY <1>3, <1>8, <2>1
  <2>6. 10 * (parts * dose) <= scale * w + 5 * dose
    BY <1>9 DEF w
  <2>7. 10 * (scale * t) <= 10 * (parts * dose) + 10 * scale
    BY <1>3, <1>6, <1>7, <1>8, <2>5
  <2>8. 10 * (scale * t) <= scale * w + scale * (5 * dose) + 10 * scale
    BY <1>3, <1>6, <2>2, <2>5, <2>6, <2>7
  <2> QED BY <2>3, <2>4, <2>8 DEF w
<1>11. 10 * t <= r * dose + 5 * dose + 10
  <2> DEFINE w == r * dose + 5 * dose + 10
  <2>1. w \in Int /\ 10 * t \in Int
    BY <1>8
  <2> HIDE DEF w
  <2>2. scale * (10 * t) <= scale * w
    BY <1>10 DEF w
  <2>3. 10 * t <= w
    BY <1>3, <2>1, <2>2, Cancel
  <2> QED BY <2>3 DEF w
<1>12. r * dose <= 255 * 127 /\ r * dose \in Nat
  <2>1. r * dose <= 255 * dose
    OBVIOUS
  <2> QED BY <2>1
<1>13. t <= MostWater
  BY <1>8, <1>11, <1>12 DEF MostWater
<1> QED BY <1>2, <1>8, <1>13 DEF MostWater

\* A volume is in as many parts as it has started 127 millilitres.
LEMMA ChunkCount ==
  ASSUME NEW v \in Nat
  PROVE  Len(Chunks(v)) \in Nat /\ 127 * Len(Chunks(v)) <= v + 127
<1> DEFINE q == v \div 127
           m == v % 127
           whole == [i \in 1 .. q |-> 127]
<1>0. q \in Nat /\ m \in 0 .. 126 /\ v = 127 * q + m
  BY DivMod
<1>1. CASE v <= 127
  BY <1>1 DEF Chunks
<1>2. CASE v > 127
  <2>1. Chunks(v) = whole \o (IF m = 0 THEN <<>> ELSE <<m>>)
    BY <1>2 DEF Chunks
  <2> HIDE DEF q, m
  <2>2. whole \in Seq(Int) /\ Len(whole) = q
    BY <1>0
  <2> HIDE DEF whole
  <2>3. CASE m = 0
    <3>1. Len(Chunks(v)) = q
      BY <2>1, <2>2, <2>3
    <3> QED BY <1>0, <3>1
  <2>4. CASE m # 0
    <3>1. Chunks(v) = whole \o <<m>> /\ <<m>> \in Seq(Int) /\ Len(<<m>>) = 1
      BY <1>0, <2>1, <2>4
    <3>2. Len(Chunks(v)) = q + 1
      BY <2>2, <3>1
    <3> QED BY <1>0, <2>4, <3>2
  <2> QED BY <2>3, <2>4
<1> QED BY <1>1, <1>2

\* The bytes of n pours with so much water.
LEMMA BytesBounded ==
  ASSUME NEW n \in Nat, NEW v \in [1 .. n -> Nat],
         NEW steps, DOMAIN steps = 1 .. n, \A i \in 1 .. n : steps[i].chunks = Chunks(v[i])
  PROVE  Bytes(steps) \in Nat /\ 127 * Bytes(steps) <= 4 * Total(v) + 1016 * n
<1> DEFINE bytes == [i \in 1 .. n |-> 4 * Len(steps[i].chunks) + 4]
           scaled == [i \in 1 .. n |-> 127 * bytes[i]]
           ones == [i \in 1 .. n |-> IF i \in 1 .. n THEN 1 ELSE 0]
           most == [i \in 1 .. n |-> 4 * v[i] + 1016 * ones[i]]
           zeros == [i \in 1 .. n |-> 0]
<1>1. \A i \in 1 .. n :
        LET l == Len(steps[i].chunks) IN l \in Nat /\ 127 * l <= v[i] + 127 /\ v[i] \in Nat
  BY ChunkCount
<1>2. bytes \in [1 .. n -> Int] /\ v \in [1 .. n -> Int] /\ ones \in [1 .. n -> Int]
      /\ zeros \in [1 .. n -> Int]
  BY <1>1
<1>3. Bytes(steps) = Total(bytes)
  BY DEF Bytes
<1>4. \A i \in 1 .. n : zeros[i] = 0 /\ 0 <= bytes[i] /\ 127 * bytes[i] <= 4 * v[i] + 1016 * ones[i]
  <2> TAKE i \in 1 .. n
  <2> DEFINE l == Len(steps[i].chunks)
  <2>1. l \in Nat /\ 127 * l <= v[i] + 127 /\ v[i] \in Nat
    BY <1>1
  <2>2. bytes[i] = 4 * l + 4 /\ ones[i] = 1 /\ zeros[i] = 0
    OBVIOUS
  <2> HIDE DEF l, bytes, ones, zeros
  <2> QED BY <2>1, <2>2
<1>5. \A i \in 1 .. n : ones[i] = IF i \in 1 .. n THEN 1 ELSE 0
  OBVIOUS
<1>6. \A i \in 1 .. n : scaled[i] = 127 * bytes[i] /\ most[i] = 4 * v[i] + 1016 * ones[i]
  OBVIOUS
<1>7. scaled \in [1 .. n -> Int] /\ most \in [1 .. n -> Int]
  <2> HIDE DEF bytes, ones
  <2>1. \A i \in 1 .. n : 127 * bytes[i] \in Int /\ 4 * v[i] + 1016 * ones[i] \in Int
    BY <1>2
  <2> QED BY <2>1
<1> HIDE DEF bytes, scaled, ones, most, zeros
<1>8. Linear(n, 127, bytes, 0, bytes, scaled) /\ Linear(n, 4, v, 1016, ones, most)
  <2>1. \A i \in 1 .. n : bytes[i] \in Int /\ 127 * bytes[i] = 127 * bytes[i] + 0 * bytes[i]
    BY <1>2
  <2>2. Linear(n, 127, bytes, 0, bytes, scaled)
    BY <1>2, <1>6, <1>7, <2>1 DEF Linear
  <2>3. Linear(n, 4, v, 1016, ones, most)
    BY <1>2, <1>6, <1>7 DEF Linear
  <2> QED BY <2>2, <2>3
<1>9. /\ Total(scaled) = 127 * Total(bytes) + 0 * Total(bytes)
      /\ Total(most) = 4 * Total(v) + 1016 * Total(ones)
  BY <1>8, TotalLinear
<1>10. Total(scaled) <= Total(most) /\ Total(zeros) <= Total(bytes) /\ Total(zeros) = 0
  <2>1. \A i \in 1 .. n : scaled[i] <= most[i]
    BY <1>4, <1>6
  <2>2. \A i \in 1 .. n : zeros[i] <= bytes[i] /\ zeros[i] = 0
    BY <1>4
  <2>3. Total(scaled) <= Total(most)
    BY <1>7, <2>1, TotalOrder
  <2>4. Total(zeros) <= Total(bytes)
    BY <1>2, <2>2, TotalOrder
  <2>5. Total(zeros) = 0
    BY <1>2, <2>2, TotalZero
  <2> QED BY <2>3, <2>4, <2>5
<1>11. Total(ones) = n
  <2>1. 1 .. n \in SUBSET (1 .. n) /\ Cardinality(1 .. n) = n
    BY FS_Interval
  <2>2. Total(ones) = Cardinality(1 .. n)
    BY <1>2, <1>5, <2>1, TotalCounts
  <2> QED BY <2>1, <2>2
<1>12. Total(bytes) \in Int /\ Total(v) \in Int
  BY <1>2, TotalType
<1> QED BY <1>3, <1>9, <1>10, <1>11, <1>12

\* The gate gives no more water than that, for a dose that is known.
LEMMA WaterBounded ==
  ASSUME NEW n \in Nat, NEW asked \in [1 .. n -> Nat], NEW dose \in 1 .. 127
  PROVE  LET v == GateConsistent(asked, dose).volumes
         IN  v \in [1 .. n -> Nat] /\ Total(v) \in 0 .. MostWater
<1> DEFINE gate == GateConsistent(asked, dose)
           v == gate.volumes
<1>1. dose \in Int /\ dose > 0 /\ dose \in 0 .. 127
  OBVIOUS
<1>2. /\ v \in [1 .. n -> Nat]
      /\ Total(asked) > 0 => gate.ratio \in 1 .. 255 /\ Total(v) = Truncated(gate.ratio, dose)
      /\ ~ (Total(asked) > 0) => \A i \in 1 .. n : v[i] = 0
  BY <1>1, GateOf
<1> HIDE DEF v, gate
<1>4. Total(v) \in 0 .. MostWater
  <2>1. CASE Total(asked) > 0
    <3>1. Truncated(gate.ratio, dose) \in 0 .. MostWater
      BY <1>1, <1>2, <2>1, TruncatedBounded
    <3> QED BY <1>2, <2>1, <3>1
  <2>2. CASE ~ (Total(asked) > 0)
    <3>1. v \in [1 .. n -> Int] /\ \A i \in 1 .. n : v[i] = 0
      BY <1>2, <2>2
    <3>2. Total(v) = 0
      BY <3>1, TotalZero
    <3> QED BY <3>2 DEF MostWater
  <2> QED BY <2>1, <2>2
<1> QED BY <1>2, <1>4 DEF v, gate

\* Nine pours of it fit the length byte.
LEMMA OneByte ==
  ASSUME NEW n \in 0 .. 9, NEW water \in 0 .. MostWater, NEW b \in Nat,
         127 * b <= 4 * water + 1016 * n
  PROVE  b % 256 = b
<1>1. water \in Nat /\ water <= 3303 /\ n \in Nat /\ n <= 9
  BY DEF MostWater
<1>2. 127 * b <= 22356
  BY <1>1
<1>3. b \in 0 .. 255
  BY <1>2
<1> QED BY <1>3

LEMMA StepsFit ==
  ASSUME NEW n \in 0 .. 9, NEW v \in [1 .. n -> Nat], Total(v) \in 0 .. MostWater,
         NEW steps, DOMAIN steps = 1 .. n, \A i \in 1 .. n : steps[i].chunks = Chunks(v[i])
  PROVE  Bytes(steps) % 256 = Bytes(steps)
<1> DEFINE b == Bytes(steps)
           water == Total(v)
<1>1. b \in Nat /\ 127 * b <= 4 * water + 1016 * n
  BY BytesBounded
<1>2. water \in 0 .. MostWater
  OBVIOUS
<1> HIDE DEF b, water
<1>3. b % 256 = b
  BY <1>1, <1>2, OneByte
<1> QED BY <1>3 DEF b

\* The pours and the doses, in whole grams, that fit a blob.
FitCounts == 0 .. 9
FitGrams == 1 .. 127

LEMMA BlobLength ==
  ASSUME NEW n \in FitCounts, NEW pours, DOMAIN pours = 1 .. n,
         \A i \in 1 .. n : pours[i].volume_ml \in Int,
         NEW dose, Round(dose, 10) \in FitGrams, NEW grinder, NEW rpm
  PROVE  LET blob == EncodeBlob(pours, grinder, dose, rpm) IN blob.length = Bytes(blob.steps)
<1> DEFINE blob == EncodeBlob(pours, grinder, dose, rpm)
           asked == Asked(pours)
           v == GateConsistent(asked, Round(dose, 10)).volumes
           steps == [i \in DOMAIN pours |-> EncodePour(pours[i], v[i], IF i = 1 THEN rpm ELSE 0)]
<1>1. n \in Nat
  BY DEF FitCounts
<1>2. asked \in [1 .. n -> Nat]
  BY DEF Asked
<1>3. blob.length = Bytes(steps) % 256 /\ blob.steps = steps
  BY DEF EncodeBlob, Asked
<1>4. DOMAIN steps = 1 .. n /\ \A i \in 1 .. n : steps[i].chunks = Chunks(v[i])
  BY DEF EncodePour
<1> HIDE DEF blob, asked, steps
<1>5. v \in [1 .. n -> Nat] /\ Total(v) \in 0 .. MostWater
  BY <1>1, <1>2, WaterBounded, Zenon DEF FitGrams
<1> HIDE DEF v
<1>6. Bytes(steps) % 256 = Bytes(steps)
  BY <1>4, <1>5, StepsFit, Zenon DEF FitCounts
<1> QED BY <1>3, <1>6, Zenon DEF blob

\* No part of a pour is longer than the machine takes, whatever is asked for.
LEMMA BlobInChunks ==
  ASSUME NEW n \in Nat, NEW pours, DOMAIN pours = 1 .. n,
         \A i \in 1 .. n : pours[i].volume_ml \in Int,
         NEW dose \in Int, NEW grinder, NEW rpm
  PROVE  LET blob == EncodeBlob(pours, grinder, dose, rpm)
         IN  \A i \in DOMAIN blob.steps : \A v \in Range(blob.steps[i].chunks) : v \in 0 .. 127
<1> DEFINE blob == EncodeBlob(pours, grinder, dose, rpm)
           asked == Asked(pours)
           v == GateConsistent(asked, Round(dose, 10)).volumes
           steps == [i \in DOMAIN pours |-> EncodePour(pours[i], v[i], IF i = 1 THEN rpm ELSE 0)]
<1>1. asked \in [1 .. n -> Nat]
  BY DEF Asked
<1>2. blob.steps = steps
  BY DEF EncodeBlob, Asked
<1>3. DOMAIN steps = 1 .. n /\ \A i \in 1 .. n : steps[i].chunks = Chunks(v[i])
  BY DEF EncodePour
<1> HIDE DEF blob, asked, steps
<1>4. Round(dose, 10) \in Int
  BY DEF Round
<1>5. v \in [1 .. n -> Nat]
  BY <1>1, <1>4, GateOf, Zenon
<1> HIDE DEF v
<1>6. \A i \in 1 .. n : v[i] \in Nat
  BY <1>5
<1>7. \A i \in 1 .. n : \A u \in Range(steps[i].chunks) : u \in 0 .. 127
  <2> TAKE i \in 1 .. n
  <2> DEFINE c == Chunks(v[i])
  <2>1. steps[i].chunks = c
    BY <1>3
  <2>2. \A j \in DOMAIN c : c[j] \in 0 .. 127
    BY <1>6, ChunksWhole
  <2> HIDE DEF c
  <2>3. \A u \in Range(c) : u \in 0 .. 127
    BY <2>2, Zenon DEF Range
  <2> QED BY <2>1, <2>3, Zenon
<1> QED BY <1>2, <1>3, <1>7 DEF blob
=============================================================================
