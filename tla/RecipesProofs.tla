--------------------------- MODULE RecipesProofs ---------------------------
(***************************************************************************)
(* Proofs about what a host does with a recipe, for any recipes given, any *)
(* weights and any ratios asked for, in any order of building, editing,    *)
(* scaling, saving, loading and sending.                                   *)
(*                                                                         *)
(* The parts: every function takes recipes to recipes (Inv), so that what  *)
(* is sent passes the machine's gate and keeps each pour's share; what     *)
(* returns from the cloud is what was saved, field by field (Returned);    *)
(* what build made is on every grid (Made), so that what is left to        *)
(* complain about cannot be snapped, and building again changes nothing;   *)
(* and, from a bound on a sum of roundings (RestWithin), an edit keeps the *)
(* shape.  No part assumes a valid recipe, but where the property does.    *)
(***************************************************************************)
EXTENDS Recipes, RecipeGateProofs

-----------------------------------------------------------------------------
(* Every recipe is a recipe *)

LEMMA FieldRange ==
  /\ IsRange(Fields.grind_size) /\ IsRange(Fields.grinder_speed_rpm)
  /\ IsRange(Fields.pour_temperature_c) /\ IsRange(Fields.pour_flow_rate)
  /\ IsRange(Fields.pour_pause_s)
<1>1. /\ "grind_size" \in DOMAIN Fields /\ "grinder_speed_rpm" \in DOMAIN Fields
      /\ "pour_temperature_c" \in DOMAIN Fields /\ "pour_flow_rate" \in DOMAIN Fields
      /\ "pour_pause_s" \in DOMAIN Fields
  BY DEF Fields
<1> QED BY <1>1, FieldsAreRanges

LEMMA CupRange ==
  ASSUME NEW cup \in ValidCups
  PROVE  IsRange(CupDose[cup]) /\ CupDose[cup].default \in Int
BY DEF ValidCups, CupDose, NumRange, IsRange

LEMMA SnapType ==
  ASSUME NEW range, IsRange(range), NEW v \in Int
  PROVE  Snap(range, v) \in Int
<1>1. Snap(range, v) \in range.min .. range.max
  BY SnapLands
<1> QED BY <1>1

LEMMA SnapRatioType ==
  ASSUME NEW num \in Int, NEW den \in Nat \ {0}
  PROVE  SnapRatio(num, den) \in Int
<1>1. RatioDenom.min = 50 /\ RatioDenom.max = 250 /\ RatioDenom.step = 5
  BY DEF RatioDenom, NumRange
<1>2. 5 * den \in Nat \ {0} /\ num - 50 * den \in Int
  OBVIOUS
<1>3. Round(num - 50 * den, 5 * den) \in Int
  BY <1>2, RoundType
<1> QED BY <1>1, <1>3 DEF SnapRatio

LEMMA WaterType ==
  ASSUME NEW dose \in Int, NEW ratio \in Int
  PROVE  Water(dose, ratio) \in Int
<1>1. dose * ratio \in Int /\ 10 \in Nat \ {0}
  OBVIOUS
<1> QED BY <1>1, RoundType DEF Water

\* The rounding error goes to the last pour, and then the total is right.
LEMMA DriftWhole ==
  ASSUME NEW n \in Nat \ {0}, NEW v \in [1 .. n -> Int], NEW total \in Int
  PROVE  /\ WithDrift(v, total) \in [1 .. n -> Int]
         /\ \A i \in 1 .. n - 1 : WithDrift(v, total)[i] = v[i]
         /\ WithDrift(v, total)[n] = v[n] + total - Total(v)
         /\ Total(WithDrift(v, total)) = total
<1> DEFINE d == total - Total(v)
           last == [i \in 1 .. n |-> IF i \in {n} THEN 1 ELSE 0]
           w == WithDrift(v, total)
<1>1. Total(v) \in Int /\ d \in Int /\ Len(v) = n /\ n \in 1 .. n
  BY TotalType
<1>2. w = [v EXCEPT ![n] = v[n] + total - Total(v)]
  BY <1>1 DEF WithDrift
<1>3. w \in [1 .. n -> Int] /\ w[n] = v[n] + total - Total(v)
      /\ \A i \in 1 .. n - 1 : w[i] = v[i]
  BY <1>1, <1>2
<1>4. last \in [1 .. n -> Int]
  OBVIOUS
<1>5. Total(last) = 1
  <2>1. {n} \in SUBSET (1 .. n) /\ \A i \in 1 .. n : last[i] = IF i \in {n} THEN 1 ELSE 0
    BY <1>1
  <2>2. Cardinality({n}) = 1
    BY FS_Singleton
  <2> HIDE DEF last
  <2> QED BY <1>4, <2>1, <2>2, TotalCounts
<1>6. Linear(n, 1, v, d, last, w)
  <2>1. \A i \in 1 .. n : w[i] = 1 * v[i] + d * last[i]
    <3> TAKE i \in 1 .. n
    <3>1. CASE i = n
      <4>1. last[i] = 1 /\ w[i] = v[i] + (total - Total(v)) /\ v[i] \in Int
        BY <1>1, <1>3, <3>1
      <4> QED BY <1>1, <4>1
    <3>2. CASE i # n
      <4>1. last[i] = 0 /\ w[i] = v[i] /\ v[i] \in Int
        BY <1>3, <3>2
      <4> HIDE DEF last, w
      <4> QED BY <1>1, <4>1
    <3> QED BY <3>1, <3>2
  <2> HIDE DEF last, w, d
  <2> QED BY <1>1, <1>3, <1>4, <2>1 DEF Linear
<1>7. Total(w) = 1 * Total(v) + d * 1
  <2> HIDE DEF last, w, d
  <2> QED BY <1>5, <1>6, TotalLinear
<1>8. Total(w) = total
  BY <1>1, <1>7
<1> QED BY <1>3, <1>8

LEMMA AutoFillType ==
  ASSUME NEW total \in Int, NEW n \in Nat \ {0}
  PROVE  AutoFill(total, n) \in [1 .. n -> PourRecords]
<1> DEFINE even == [i \in 1 .. n |-> RoundEither(total, n)]
           volumes == WithDrift(even, total)
           heat(i) == Greater(Fields.pour_temperature_c.min, 930 - 10 * i)
<1>1. even \in [1 .. n -> Int]
  BY RoundEitherType
<1> HIDE DEF even
<1>2. volumes \in [1 .. n -> Int]
  BY <1>1, DriftWhole
<1>3. AutoFill(total, n) =
        [i \in 1 .. n |->
          [volume_ml |-> volumes[i], temperature_c |-> heat(i), pattern |-> Spiral,
           flow_rate |-> Fields.pour_flow_rate.default, pause_s |-> 0,
           agitate_before |-> 2, agitate_after |-> 2]]
  BY DEF AutoFill, even
<1>4. /\ \A i \in 1 .. n : heat(i) \in Int
      /\ Spiral \in Int /\ Fields.pour_flow_rate.default \in Int
  BY DEF Greater, Fields, NumRange, Spiral
<1> HIDE DEF volumes, heat
<1> QED BY <1>2, <1>3, <1>4 DEF PourRecords

LEMMA RedistributeType ==
  ASSUME NEW n \in Nat \ {0}, NEW v \in [1 .. n -> Int], NEW total \in Int
  PROVE  /\ Redistribute(v, total) \in [1 .. n -> Int]
         /\ Total(Redistribute(v, total)) = total
<1> DEFINE old == Total(v)
           moved == IF Abs(total - old) <= VolumeTolerance THEN v
                    ELSE IF old > 0 THEN [i \in DOMAIN v |-> RoundEither(v[i] * total, old)]
                    ELSE [i \in DOMAIN v |-> RoundEither(total, Len(v))]
<1>1. Redistribute(v, total) = WithDrift(moved, total)
  BY DEF Redistribute
<1>2. old \in Int /\ Len(v) = n
  BY TotalType
<1>3. moved \in [1 .. n -> Int]
  <2>1. ASSUME old > 0, NEW i \in 1 .. n PROVE RoundEither(v[i] * total, old) \in Int
    <3>1. v[i] * total \in Int /\ old \in Nat \ {0}
      BY <1>2, <2>1
    <3> QED BY <3>1, RoundEitherType
  <2>2. RoundEither(total, Len(v)) \in Int
    BY <1>2, RoundEitherType
  <2>3. CASE Abs(total - old) <= VolumeTolerance
    BY <2>3
  <2>4. CASE ~ (Abs(total - old) <= VolumeTolerance) /\ old > 0
    BY <2>1, <2>4
  <2>5. CASE ~ (Abs(total - old) <= VolumeTolerance) /\ ~ (old > 0)
    BY <2>2, <2>5
  <2> QED BY <2>3, <2>4, <2>5
<1> HIDE DEF moved
<1>4. WithDrift(moved, total) \in [1 .. n -> Int] /\ Total(WithDrift(moved, total)) = total
  BY <1>3, DriftWhole
<1> QED BY <1>1, <1>4

LEMMA SnapOrType ==
  ASSUME NEW range, IsRange(range), NEW v \in Maybe(Int), NEW other \in Int
  PROVE  SnapOr(range, v, other) \in Int
BY SnapType DEF SnapOr, Maybe

LEMMA ResolvePauseType ==
  ASSUME NEW raw \in Maybe(Int), NEW i, NEW volume \in Int, NEW brewDefaults
  PROVE  ResolvePause(raw, i, volume, brewDefaults) \in Int
<1>1. MinPause \in Int
  BY DEF MinPause
<1>2. BloomPause(volume) \in Int
  <2>1. Round(1800 - volume, 30) \in Int
    <3>1. 1800 - volume \in Int /\ 30 \in Nat \ {0}
      OBVIOUS
    <3> QED BY <3>1, RoundType
  <2> QED BY <1>1, <2>1 DEF BloomPause, Greater
<1>3. ASSUME raw # None PROVE Snap(Fields.pour_pause_s, 10 * Round(raw, 10)) \in Int
  <2>1. raw \in Int /\ 10 \in Nat \ {0}
    BY <1>3 DEF Maybe
  <2>2. Round(raw, 10) \in Int
    BY <2>1, RoundType
  <2>3. 10 * Round(raw, 10) \in Int
    BY <2>2
  <2> QED BY <2>3, FieldRange, SnapType
<1> QED BY <1>1, <1>2, <1>3 DEF ResolvePause

Settled(pour, v, w) == [pour EXCEPT !.volume_ml = v, !.pause_s = w]

LEMMA SettledType ==
  ASSUME NEW pour \in PourRecords, NEW v \in Int, NEW w \in Int
  PROVE  Settled(pour, v, w) \in PourRecords /\ Settled(pour, v, w).volume_ml = v
BY DEF PourRecords, Settled

Laid(pour, v, t, f, p, b, a) ==
  [pour EXCEPT !.volume_ml = v, !.temperature_c = t, !.flow_rate = f, !.pattern = p,
               !.agitate_before = b, !.agitate_after = a]

LEMMA LaidType ==
  ASSUME NEW pour \in PourRecords, NEW v \in Int, NEW t \in Int, NEW f \in Int, NEW p \in Int,
         NEW b \in Int, NEW a \in Int
  PROVE  Laid(pour, v, t, f, p, b, a) \in PourRecords /\ Laid(pour, v, t, f, p, b, a).volume_ml = v
<1>1. [pour EXCEPT !.volume_ml = v, !.temperature_c = t, !.flow_rate = f] \in PourRecords
  BY DEF PourRecords
<1>2. ASSUME NEW q \in PourRecords
      PROVE  [q EXCEPT !.pattern = p, !.agitate_before = b, !.agitate_after = a] \in PourRecords
  BY DEF PourRecords
<1>3. Laid(pour, v, t, f, p, b, a).volume_ml = v
  BY DEF PourRecords, Laid
<1> QED BY <1>1, <1>2, <1>3 DEF Laid

LEMMA OverlayType ==
  ASSUME NEW raw \in LoosePours, NEW pour \in PourRecords
  PROVE  /\ Overlay(raw, pour) \in PourRecords
         /\ raw.volume_ml # None => Overlay(raw, pour).volume_ml = raw.volume_ml
<1>1. /\ raw.volume_ml \in Maybe(Int) /\ raw.temperature_c \in Maybe(Int)
      /\ raw.flow_rate \in Maybe(Int) /\ raw.pattern \in Maybe(Int)
  BY DEF LoosePours
<1>2. /\ pour.volume_ml \in Int /\ pour.temperature_c \in Int /\ pour.flow_rate \in Int
      /\ pour.pattern \in Int /\ pour.pause_s \in Int
  BY DEF PourRecords
<1> DEFINE v == PourVolume(raw, pour.volume_ml)
           t == SnapOr(Fields.pour_temperature_c, raw.temperature_c, pour.temperature_c)
           f == SnapOr(Fields.pour_flow_rate, raw.flow_rate, pour.flow_rate)
           p == IF raw.pattern \in ValidPatterns THEN raw.pattern ELSE pour.pattern
           b == IF raw.agitate_before = 1 THEN 1 ELSE 2
           a == IF raw.agitate_after = 1 THEN 1 ELSE 2
<1>3. v \in Int
  BY <1>1, <1>2 DEF PourVolume, OrElse, Maybe
<1>4. t \in Int /\ f \in Int
  BY <1>1, <1>2, FieldRange, SnapOrType
<1>5. p \in Int
  BY <1>1, <1>2 DEF ValidPatterns
<1>6. b \in Int /\ a \in Int
  OBVIOUS
<1>7. Overlay(raw, pour) = Laid(pour, v, t, f, p, b, a)
  BY DEF Overlay, Laid
<1>8. raw.volume_ml # None => v = raw.volume_ml
  BY DEF PourVolume, OrElse
<1> HIDE DEF v, t, f, p, b, a
<1> QED BY <1>3, <1>4, <1>5, <1>6, <1>7, <1>8, LaidType

\* Pours with their volumes.
Measured(pours) == pours # <<>> /\ \A i \in DOMAIN pours : pours[i].volume_ml # None

\* The volumes of what build returns are its total, and those it was given if they
\* are moved to the total.
LEMMA BuildPoursType ==
  ASSUME NEW fields \in LooseRecipes, NEW total \in Int, NEW n \in Nat \ {0},
         fields.pours # <<>> => n = Len(fields.pours), NEW brewDefaults
  PROVE  LET pours == BuildPours(fields, total, n, brewDefaults)
         IN  /\ pours \in [1 .. n -> PourRecords]
             /\ Total(Volumes(pours)) = total
             /\ Measured(fields.pours) => Volumes(pours) = Redistribute(Volumes(fields.pours), total)
<1> DEFINE base == AutoFill(total, n)
           laid == IF fields.pours = <<>> THEN base
                   ELSE [i \in 1 .. n |-> Overlay(fields.pours[i], base[i])]
           volumes == Redistribute(Volumes(laid), total)
           pause(i) == IF fields.pours = <<>> THEN None ELSE fields.pours[i].pause_s
           wait(i) == ResolvePause(pause(i), i, volumes[i], brewDefaults)
           pours == BuildPours(fields, total, n, brewDefaults)
<1>1. fields.pours \in Seq(LoosePours)
  BY DEF LooseRecipes
<1>2. ASSUME fields.pours # <<>>, NEW i \in 1 .. n PROVE fields.pours[i] \in LoosePours
  BY <1>1, <1>2
<1>3. base \in [1 .. n -> PourRecords]
  BY AutoFillType
<1> HIDE DEF base
<1>4. laid \in [1 .. n -> PourRecords]
  <2>1. CASE fields.pours = <<>>
    BY <1>3, <2>1
  <2>2. CASE fields.pours # <<>>
    <3>1. \A i \in 1 .. n : Overlay(fields.pours[i], base[i]) \in PourRecords
      BY <1>2, <1>3, <2>2, OverlayType
    <3> QED BY <2>2, <3>1
  <2> QED BY <2>1, <2>2
<1>5. Measured(fields.pours) => Volumes(laid) = Volumes(fields.pours)
  <2> SUFFICES ASSUME Measured(fields.pours) PROVE Volumes(laid) = Volumes(fields.pours)
    OBVIOUS
  <2>1. fields.pours # <<>> /\ DOMAIN fields.pours = 1 .. n /\ DOMAIN laid = 1 .. n
    BY <1>1, <1>4 DEF Measured
  <2>2. \A i \in 1 .. n : Overlay(fields.pours[i], base[i]).volume_ml = fields.pours[i].volume_ml
    BY <1>2, <1>3, <2>1, OverlayType DEF Measured
  <2>3. \A i \in 1 .. n : laid[i].volume_ml = fields.pours[i].volume_ml
    BY <2>1, <2>2
  <2> HIDE DEF laid
  <2> QED BY <2>1, <2>3 DEF Volumes
<1>6. pours = [i \in 1 .. n |-> Settled(laid[i], volumes[i], wait(i))]
  BY DEF BuildPours, base, Settled
<1> HIDE DEF laid
<1>7. Volumes(laid) \in [1 .. n -> Int]
  BY <1>4 DEF Volumes, PourRecords
<1>8. volumes \in [1 .. n -> Int] /\ Total(volumes) = total
  BY <1>7, RedistributeType
<1> HIDE DEF volumes
<1>9. \A i \in 1 .. n : wait(i) \in Int
  <2> TAKE i \in 1 .. n
  <2>1. pause(i) \in Maybe(Int)
    BY <1>2 DEF LoosePours, Maybe
  <2>2. volumes[i] \in Int
    BY <1>8
  <2> HIDE DEF pause
  <2> QED BY <2>1, <2>2, ResolvePauseType
<1> HIDE DEF wait
<1>10. pours \in [1 .. n -> PourRecords]
  <2>1. \A i \in 1 .. n : Settled(laid[i], volumes[i], wait(i)) \in PourRecords
    BY <1>4, <1>8, <1>9, SettledType
  <2> QED BY <1>6, <2>1
<1>11. Volumes(pours) = volumes
  <2>1. \A i \in 1 .. n : pours[i].volume_ml = volumes[i]
    BY <1>4, <1>6, <1>8, <1>9, SettledType
  <2>2. DOMAIN pours = 1 .. n
    BY <1>10
  <2>3. Volumes(pours) = [i \in 1 .. n |-> volumes[i]]
    BY <2>1, <2>2 DEF Volumes
  <2> QED BY <1>8, <2>3
<1>12. Measured(fields.pours) => Volumes(pours) = Redistribute(Volumes(fields.pours), total)
  BY <1>11, <1>5 DEF volumes
<1> QED BY <1>8, <1>10, <1>11, <1>12

\* What build returns is a recipe, and its water is the dose times the ratio.
LEMMA BuildType ==
  ASSUME NEW fields \in LooseRecipes, NEW brewDefaults
  PROVE  LET r == BuildRecipe(fields, brewDefaults) IN
         /\ r \in RecipeRecords
         /\ r.ratio # Malformed => Total(Volumes(r.pours)) = Water(r.dose_g, r.ratio)
         /\ r.ratio # Malformed /\ Measured(fields.pours) =>
              Volumes(r.pours) = Redistribute(Volumes(fields.pours), Water(r.dose_g, r.ratio))
<1> USE DEF Maybe
<1> DEFINE cup == IF fields.cup_type \in ValidCups THEN fields.cup_type ELSE DefaultCup
           dose == SnapOr(DoseGrid(cup), fields.dose_g, DoseGrid(cup).default)
           grind == SnapOr(Fields.grind_size, fields.grind_size, Fields.grind_size.default)
           rpm == SnapOr(Fields.grinder_speed_rpm, fields.grinder_speed_rpm,
                         Fields.grinder_speed_rpm.default)
           readable == fields.ratio \notin {None, Malformed}
           ratio == IF readable THEN SnapRatio(fields.ratio, 1) ELSE Malformed
           n == IF fields.pours # <<>> THEN Len(fields.pours)
                ELSE Greater(1, OrElse(fields.pour_count, Fields.pour_count.default) \div 10)
           total == Water(dose, ratio)
           pours == IF readable THEN BuildPours(fields, total, n, brewDefaults) ELSE <<>>
           bypass == Truthy(fields.bypass_water_enabled)
           r == BuildRecipe(fields, brewDefaults)
<1>1. r = [name |-> fields.name, dose_g |-> dose, ratio |-> ratio,
       water_ratio |-> IF readable THEN total ELSE None,
       grind_size |-> grind, grinder_size |-> IF readable THEN grind ELSE None,
       grinder_size_enabled |-> 1,
       grinder_speed_rpm |-> rpm, rpm |-> IF readable THEN rpm ELSE None,
       pour_count |-> n, cup_type |-> cup,
       bypass_water_enabled |-> IF bypass THEN 1 ELSE 2,
       bypass_volume_ml |-> IF bypass THEN fields.bypass_volume_ml ELSE None,
       bypass_temp_c |-> IF bypass THEN fields.bypass_temp_c ELSE None,
       pours |-> pours]
  BY DEF BuildRecipe
<1>2. /\ fields.name \in BOOLEAN /\ fields.dose_g \in Maybe(Int)
      /\ fields.ratio \in Maybe(Int) \union {Malformed} /\ fields.grind_size \in Maybe(Int)
      /\ fields.grinder_speed_rpm \in Maybe(Int) /\ fields.pour_count \in Maybe(Int)
      /\ fields.pours \in Seq(LoosePours)
      /\ fields.bypass_volume_ml \in Maybe(Int) /\ fields.bypass_temp_c \in Maybe(Int)
  BY DEF LooseRecipes
<1>3. cup \in ValidCups /\ cup \in Int
  BY DEF ValidCups, DefaultCup
<1> HIDE DEF cup
<1>4. dose \in Int
  <2>1. IsRange(DoseGrid(cup)) /\ DoseGrid(cup).default \in Int
    BY <1>3, CupRange DEF DoseGrid
  <2> QED BY <1>2, <2>1, SnapOrType
<1>5. grind \in Int /\ rpm \in Int
  <2>1. Fields.grind_size.default \in Int /\ Fields.grinder_speed_rpm.default \in Int
    BY DEF Fields, NumRange
  <2> QED BY <1>2, <2>1, FieldRange, SnapOrType
<1>6. n \in Nat \ {0} /\ n \in Int
  <2>1. ASSUME fields.pours # <<>> PROVE Len(fields.pours) \in Nat \ {0}
    BY <1>2, <2>1
  <2>2. OrElse(fields.pour_count, Fields.pour_count.default) \div 10 \in Int
    <3>1. OrElse(fields.pour_count, Fields.pour_count.default) \in Int
      BY <1>2 DEF OrElse, Fields, NumRange
    <3> QED BY <3>1
  <2> QED BY <2>1, <2>2 DEF Greater
<1>7. ASSUME readable
      PROVE  /\ ratio \in Int /\ total \in Int
             /\ pours \in [1 .. n -> PourRecords] /\ Total(Volumes(pours)) = total
             /\ Measured(fields.pours) => Volumes(pours) = Redistribute(Volumes(fields.pours), total)
  <2>1. fields.ratio \in Int /\ 1 \in Nat \ {0}
    BY <1>2, <1>7
  <2>2. ratio \in Int
    BY <1>7, <2>1, SnapRatioType
  <2> HIDE DEF dose, ratio
  <2>3. total \in Int
    BY <1>4, <2>2, WaterType
  <2>4. fields.pours # <<>> => n = Len(fields.pours)
    OBVIOUS
  <2> HIDE DEF total, n
  <2>5. pours = BuildPours(fields, total, n, brewDefaults)
    BY <1>7
  <2>6. /\ BuildPours(fields, total, n, brewDefaults) \in [1 .. n -> PourRecords]
        /\ Total(Volumes(BuildPours(fields, total, n, brewDefaults))) = total
        /\ Measured(fields.pours) => Volumes(BuildPours(fields, total, n, brewDefaults))
                                      = Redistribute(Volumes(fields.pours), total)
    BY <1>6, <2>3, <2>4, BuildPoursType
  <2> QED BY <2>2, <2>3, <2>5, <2>6
<1>8. /\ ratio \in Maybe(Int) \union {Malformed}
      /\ (IF readable THEN total ELSE None) \in Maybe(Int)
      /\ pours \in Seq(PourRecords)
  <2>1. CASE readable
    <3> HIDE DEF total, ratio, n, pours, dose
    <3> QED BY <1>6, <1>7, <2>1
  <2>2. CASE ~ readable
    BY <2>2
  <2> QED BY <2>1, <2>2
<1>9. ASSUME ratio # Malformed PROVE readable
  BY <1>9
<1> HIDE DEF dose, grind, rpm, readable, ratio, n, total, pours, bypass
<1>10. /\ (IF readable THEN grind ELSE None) \in Maybe(Int)
       /\ (IF readable THEN rpm ELSE None) \in Maybe(Int)
       /\ grind \in Maybe(Int) /\ rpm \in Maybe(Int)
       /\ (IF bypass THEN 1 ELSE 2) \in Int /\ 1 \in Int
       /\ (IF bypass THEN fields.bypass_volume_ml ELSE None) \in Maybe(Int)
       /\ (IF bypass THEN fields.bypass_temp_c ELSE None) \in Maybe(Int)
  BY <1>2, <1>5
<1> USE DEF Maybe
<1>11. r \in RecipeRecords
  BY <1>1, <1>2, <1>3, <1>4, <1>6, <1>8, <1>10 DEF RecipeRecords
<1>12. ASSUME r.ratio # Malformed
       PROVE  /\ Total(Volumes(r.pours)) = Water(r.dose_g, r.ratio)
              /\ Measured(fields.pours) =>
                   Volumes(r.pours) = Redistribute(Volumes(fields.pours), Water(r.dose_g, r.ratio))
  <2>1. r.ratio = ratio /\ r.pours = pours /\ r.dose_g = dose
    BY <1>1
  <2> HIDE DEF r
  <2>2. readable
    BY <1>9, <1>12, <2>1
  <2>3. /\ Total(Volumes(pours)) = Water(dose, ratio)
        /\ Measured(fields.pours) =>
             Volumes(pours) = Redistribute(Volumes(fields.pours), Water(dose, ratio))
    BY <1>7, <2>2 DEF total
  <2> QED BY <2>1, <2>3
<1> QED BY <1>11, <1>12

\* A ratio that the validator takes is on the grid, and stays where it is.
LEMMA SnapRatioKeeps ==
  ASSUME NEW q \in Int, RatioOk(q)
  PROVE  SnapRatio(q, 1) = q
<1>1. RatioDenom.min = 50 /\ RatioDenom.max = 250 /\ RatioDenom.step = 5
  BY DEF RatioDenom, NumRange
<1>2. q \in 50 .. 250 /\ q % 5 = 0
  BY <1>1 DEF RatioOk, InRange
<1>3. CASE q \in {50, 250}
  BY <1>1, <1>3 DEF SnapRatio
<1>4. CASE q \notin {50, 250}
  <2>1. PICK k \in Nat : q = 50 + 5 * k
    <3>1. (q - 50) \div 5 \in Nat /\ q - 50 = 5 * ((q - 50) \div 5)
      BY <1>2
    <3>2. q = 50 + 5 * ((q - 50) \div 5)
      BY <1>2, <3>1
    <3> QED BY <3>1, <3>2
  <2>2. SnapRatio(q, 1) = 50 + 5 * Round(5 * k, 5)
    BY <1>1, <1>2, <1>4, <2>1 DEF SnapRatio
  <2>3. Round(5 * k, 5) = k
    BY 5 \in Nat \ {0}, RoundMultiple
  <2> QED BY <2>1, <2>2, <2>3
<1> QED BY <1>3, <1>4

LEMMA GuessType ==
  ASSUME NEW r \in RecipeRecords
  PROVE  /\ GuessRatio(r) \in Int
         /\ RatioOk(r.water_ratio) => GuessRatio(r) = r.water_ratio
<1>1. RatioDenom.min = 50 /\ RatioDenom.max = 250 /\ RatioDenom.step = 5 /\ RatioDenom.default = 160
  BY DEF RatioDenom, NumRange
<1>2. r.water_ratio \in Int \union {None} /\ r.dose_g \in Int
  BY DEF RecipeRecords, Maybe
<1>3. CASE r.water_ratio = None
  BY <1>1, <1>3 DEF GuessRatio, RatioOk, InRange
<1>4. CASE r.water_ratio # None
  <2>1. r.water_ratio \in Int /\ 1 \in Nat \ {0}
    BY <1>2, <1>4
  <2>2. SnapRatio(r.water_ratio, 1) \in Int
    BY <2>1, SnapRatioType
  <2>3. ASSUME r.dose_g > 0 PROVE SnapRatio(10 * r.water_ratio, r.dose_g) \in Int
    <3>1. 10 * r.water_ratio \in Int /\ r.dose_g \in Nat \ {0}
      BY <1>2, <2>1, <2>3
    <3> QED BY <3>1, SnapRatioType
  <2>4. GuessRatio(r) \in Int
    BY <1>1, <1>4, <2>2, <2>3 DEF GuessRatio
  <2>5. ASSUME RatioOk(r.water_ratio) PROVE GuessRatio(r) = r.water_ratio
    <3>1. SnapRatio(r.water_ratio, 1) = r.water_ratio
      BY <2>1, <2>5, SnapRatioKeeps
    <3>2. 50 <= r.water_ratio /\ r.water_ratio <= 250
      BY <1>1, <2>5 DEF RatioOk, InRange
    <3> QED BY <1>1, <1>4, <2>1, <3>1, <3>2 DEF GuessRatio
  <2> QED BY <2>4, <2>5
<1> QED BY <1>3, <1>4

Guessed(r, ratio, grind, rpm) ==
  [r EXCEPT !.ratio = ratio, !.grind_size = grind, !.grinder_speed_rpm = rpm]

\* What normalize_recipe leaves alone, and what it fills in.
LEMMA NormalizeType ==
  ASSUME NEW r \in RecipeRecords
  PROVE  LET m == Normalize(r) IN
         /\ m \in RecipeRecords
         /\ \A f \in {"name", "dose_g", "water_ratio", "grinder_size", "grinder_size_enabled", "rpm",
                      "pour_count", "cup_type", "bypass_water_enabled", "bypass_volume_ml",
                      "bypass_temp_c", "pours"} : m[f] = r[f]
         /\ m.grind_size = OrElse(r.grind_size, r.grinder_size)
         /\ m.grinder_speed_rpm = OrElse(r.grinder_speed_rpm, r.rpm)
         /\ r.ratio = None => m.ratio = GuessRatio(r)
<1> DEFINE ratio == IF r.ratio = None THEN GuessRatio(r)
                    ELSE IF r.ratio = Malformed THEN r.ratio ELSE SnapRatio(r.ratio, 1)
           grind == OrElse(r.grind_size, r.grinder_size)
           rpm == OrElse(r.grinder_speed_rpm, r.rpm)
<1>1. Normalize(r) = Guessed(r, ratio, grind, rpm)
  BY DEF Normalize, Guessed
<1>2. ratio \in Int \union {None} \union {Malformed}
  <2>1. r.ratio \in Int \union {None} \union {Malformed}
    BY DEF RecipeRecords, Maybe
  <2>2. ASSUME r.ratio \in Int PROVE SnapRatio(r.ratio, 1) \in Int
    <3>1. 1 \in Nat \ {0}
      OBVIOUS
    <3> QED BY <2>2, <3>1, SnapRatioType
  <2> QED BY <2>1, <2>2, GuessType
<1>3. grind \in Int \union {None} /\ rpm \in Int \union {None}
  BY DEF RecipeRecords, OrElse, Maybe
<1>4. r.ratio = None => ratio = GuessRatio(r)
  OBVIOUS
<1> HIDE DEF ratio, grind, rpm
<1>5. Guessed(r, ratio, grind, rpm) \in RecipeRecords
  BY <1>2, <1>3 DEF Guessed, RecipeRecords, Maybe
<1>6. /\ Guessed(r, ratio, grind, rpm).ratio = ratio
      /\ Guessed(r, ratio, grind, rpm).grind_size = grind
      /\ Guessed(r, ratio, grind, rpm).grinder_speed_rpm = rpm
  BY DEF Guessed, RecipeRecords
<1>7. \A f \in {"name", "dose_g", "water_ratio", "grinder_size", "grinder_size_enabled", "rpm",
                "pour_count", "cup_type", "bypass_water_enabled", "bypass_volume_ml",
                "bypass_temp_c", "pours"} : Guessed(r, ratio, grind, rpm)[f] = r[f]
  BY DEF Guessed, RecipeRecords
<1> QED BY <1>1, <1>4, <1>5, <1>6, <1>7 DEF grind, rpm

Moved(r, pours, dose, ratio, grind) ==
  [r EXCEPT !.pours = pours, !.dose_g = dose, !.water_ratio = ratio, !.grinder_size = grind]

LEMMA ScaleType ==
  ASSUME NEW r \in RecipeRecords, NEW dose \in Int, NEW ratio \in Int, NEW grind \in Maybe(Int)
  PROVE  LET m == ScaleRecipe(r, dose, ratio, grind) IN
         /\ m \in RecipeRecords /\ m.ratio = r.ratio /\ m.rpm = r.rpm
         /\ m.grinder_speed_rpm = r.grinder_speed_rpm /\ m.dose_g = dose
         /\ DOMAIN m.pours = DOMAIN r.pours
         /\ \A i \in DOMAIN r.pours :
              /\ m.pours[i].volume_ml
                   = ScaledVolume(r.pours[i].volume_ml, Total(Volumes(r.pours)), dose, ratio)
              /\ m.pours[i].temperature_c = r.pours[i].temperature_c
<1> DEFINE current == Total(Volumes(r.pours))
           volume(i) == ScaledVolume(r.pours[i].volume_ml, current, dose, ratio)
           pours == [i \in DOMAIN r.pours |-> [r.pours[i] EXCEPT !.volume_ml = volume(i)]]
           size == OrElse(grind, r.grinder_size)
<1>1. ScaleRecipe(r, dose, ratio, grind) = Moved(r, pours, dose, ratio, size)
  BY DEF ScaleRecipe, Moved
<1>2. r.pours \in Seq(PourRecords)
  BY DEF RecipeRecords
<1>3. PICK n \in Nat : DOMAIN r.pours = 1 .. n
  BY <1>2
<1>4. \A i \in 1 .. n : r.pours[i] \in PourRecords
  BY <1>2, <1>3
<1>5. Volumes(r.pours) \in [1 .. n -> Int]
  BY <1>3, <1>4 DEF Volumes, PourRecords
<1>6. current \in Int
  BY <1>5, TotalType
<1> HIDE DEF current
<1>7. \A i \in 1 .. n : volume(i) \in Int
  <2> TAKE i \in 1 .. n
  <2> DEFINE v == r.pours[i].volume_ml
  <2>1. v \in Int
    BY <1>4 DEF PourRecords
  <2> HIDE DEF v
  <2>2. ASSUME current > 0 PROVE RoundEither(v * dose * ratio, 10 * current) \in Int
    <3>1. v * dose * ratio \in Int /\ 10 * current \in Nat \ {0}
      BY <1>6, <2>1, <2>2
    <3> QED BY <3>1, RoundEitherType
  <2> QED BY <2>2 DEF ScaledVolume, v
<1>8. pours \in [1 .. n -> PourRecords]
  <2> HIDE DEF volume
  <2>1. \A i \in 1 .. n : [r.pours[i] EXCEPT !.volume_ml = volume(i)] \in PourRecords
    BY <1>4, <1>7 DEF PourRecords
  <2> QED BY <1>3, <2>1
<1>9. \A i \in 1 .. n : /\ pours[i].volume_ml = volume(i)
                       /\ pours[i].temperature_c = r.pours[i].temperature_c
  <2> HIDE DEF volume
  <2>1. \A i \in 1 .. n : pours[i] = [r.pours[i] EXCEPT !.volume_ml = volume(i)]
    BY <1>3
  <2>2. \A i \in 1 .. n :
          LET p == [r.pours[i] EXCEPT !.volume_ml = volume(i)]
          IN  p.volume_ml = volume(i) /\ p.temperature_c = r.pours[i].temperature_c
    BY <1>4 DEF PourRecords
  <2> HIDE DEF pours
  <2> QED BY <2>1, <2>2
<1>10. pours \in Seq(PourRecords)
  <2> HIDE DEF pours
  <2> QED BY <1>8
<1>11. size \in Maybe(Int)
  BY DEF OrElse, RecipeRecords, Maybe
<1> HIDE DEF pours, size
<1>12. Moved(r, pours, dose, ratio, size) \in RecipeRecords
  BY <1>10, <1>11 DEF Moved, RecipeRecords, Maybe
<1>13. /\ Moved(r, pours, dose, ratio, size).ratio = r.ratio
       /\ Moved(r, pours, dose, ratio, size).rpm = r.rpm
       /\ Moved(r, pours, dose, ratio, size).grinder_speed_rpm = r.grinder_speed_rpm
       /\ Moved(r, pours, dose, ratio, size).pours = pours
       /\ Moved(r, pours, dose, ratio, size).dose_g = dose
  BY DEF Moved, RecipeRecords
<1> HIDE DEF volume
<1>14. DOMAIN pours = 1 .. n
  BY <1>8
<1> QED BY <1>1, <1>3, <1>12, <1>13, <1>9, <1>14 DEF volume, current

LEMMA FieldsType ==
  ASSUME NEW r \in RecipeRecords, NEW dose \in Int, NEW ratio \in Int, NEW kept \in BOOLEAN
  PROVE  /\ EditorFields(r, dose, ratio, kept) \in LooseRecipes
         /\ EditorFields(r, dose, ratio, kept).ratio = ratio
         /\ EditorFields(r, dose, ratio, kept).pours = r.pours
<1>1. r.pours \in Seq(LoosePours)
  <2>1. r.pours \in Seq(PourRecords)
    BY DEF RecipeRecords
  <2>2. \A i \in 1 .. Len(r.pours) : r.pours[i] \in LoosePours
    <3> TAKE i \in 1 .. Len(r.pours)
    <3>1. r.pours[i] \in PourRecords
      BY <2>1
    <3> HIDE DEF FieldsOf
    <3> QED BY <3>1 DEF PourRecords, LoosePours, Maybe
  <2> QED BY <2>1, <2>2
<1> DEFINE flag == IF kept THEN r.bypass_water_enabled ELSE 0
<1>2. flag \in Maybe(Int)
  BY DEF RecipeRecords, Maybe
<1>3. FieldsOf(r) =
        [name |-> r.name, dose_g |-> r.dose_g, ratio |-> r.ratio,
         grind_size |-> r.grind_size, grinder_speed_rpm |-> r.grinder_speed_rpm,
         cup_type |-> r.cup_type, pour_count |-> 10 * r.pour_count,
         pours |-> r.pours, bypass_water_enabled |-> r.bypass_water_enabled,
         bypass_volume_ml |-> r.bypass_volume_ml, bypass_temp_c |-> r.bypass_temp_c]
  BY Zenon DEF FieldsOf
<1>4. EditorFields(r, dose, ratio, kept) =
        [name |-> r.name, dose_g |-> dose, ratio |-> ratio,
         grind_size |-> r.grind_size, grinder_speed_rpm |-> r.grinder_speed_rpm,
         cup_type |-> r.cup_type, pour_count |-> 10 * r.pour_count,
         pours |-> r.pours, bypass_water_enabled |-> flag,
         bypass_volume_ml |-> r.bypass_volume_ml, bypass_temp_c |-> r.bypass_temp_c]
  <2> DEFINE f == FieldsOf(r)
             g == [f EXCEPT !.dose_g = dose, !.ratio = ratio,
                            !.bypass_water_enabled = IF kept THEN @ ELSE 0]
  <2>1. DOMAIN f = {"name", "dose_g", "ratio", "grind_size", "grinder_speed_rpm", "cup_type",
                    "pour_count", "pours", "bypass_water_enabled", "bypass_volume_ml", "bypass_temp_c"}
    BY <1>3
  <2>2. g = [x \in DOMAIN f |-> IF x = "ratio" THEN ratio ELSE IF x = "dose_g" THEN dose
                               ELSE IF x = "bypass_water_enabled" THEN IF kept THEN f[x] ELSE 0
                               ELSE f[x]]
    BY <2>1
  <2>3. EditorFields(r, dose, ratio, kept) = g
    BY Zenon DEF EditorFields
  <2>4. f.bypass_water_enabled = r.bypass_water_enabled
    BY <1>3
  <2> QED BY <1>3, <2>1, <2>2, <2>3, <2>4
<1> HIDE DEF flag
<1>5. /\ r.name \in BOOLEAN
      /\ r.grind_size \in Maybe(Int) /\ r.grinder_speed_rpm \in Maybe(Int)
      /\ r.cup_type \in Maybe(Int) /\ 10 * r.pour_count \in Maybe(Int)
      /\ r.bypass_volume_ml \in Maybe(Int) /\ r.bypass_temp_c \in Maybe(Int)
      /\ dose \in Maybe(Int) /\ ratio \in Maybe(Int) \union {Malformed}
  BY DEF RecipeRecords, Maybe
<1>6. EditorFields(r, dose, ratio, kept) \in LooseRecipes
  BY <1>1, <1>2, <1>4, <1>5 DEF LooseRecipes
<1> QED BY <1>4, <1>6

LEMMA ValidRatio ==
  ASSUME NEW r, Validate(r) = {}
  PROVE  RatioOk(r.ratio)
<1>1. "ratio" \in DOMAIN Faults(r) /\ Faults(r).ratio = ~ RatioOk(r.ratio)
  BY DEF Faults
<1> HIDE DEF Faults
<1> QED BY <1>1 DEF Validate

-----------------------------------------------------------------------------
(* The invariant *)

\* A recipe that can be read has one grinder speed.
Kept(r) == r \in RecipeRecords /\ (r.ratio # Malformed => r.rpm = r.grinder_speed_rpm)

\* What the cloud keeps of a recipe.
InCloud(body, r) ==
  /\ body.name = r.name /\ body.dose = r.dose_g /\ body.pours = r.pours
  /\ body.cupType = r.cup_type /\ body.isSetGrinderSize = r.grinder_size_enabled
  /\ body.isEnableBypassWater = r.bypass_water_enabled
  /\ body.bypassVolume = IF r.bypass_water_enabled = 1 THEN OrElse(r.bypass_volume_ml, 50) ELSE None
  /\ body.bypassTemp = IF r.bypass_water_enabled = 1 THEN OrElse(r.bypass_temp_c, 850) ELSE None
  /\ body.grinderSize = OrElse(r.grind_size, OrElse(r.grinder_size, 400))
  /\ body.rpm = OrElse(r.grinder_speed_rpm, OrElse(r.rpm, 900))
  /\ body.grandWater = r.ratio

\* What comes back of a recipe: its ratio and grind size are found again, and
\* its pours counted.
Returned(r, s) ==
  /\ r.name = s.name /\ r.dose_g = s.dose_g /\ r.pours = s.pours /\ r.cup_type = s.cup_type
  /\ r.ratio = s.ratio /\ r.pour_count = Len(s.pours)
  /\ r.grinder_size_enabled = s.grinder_size_enabled
  /\ r.bypass_water_enabled = s.bypass_water_enabled
  /\ s.bypass_water_enabled = 1 =>
       /\ r.bypass_volume_ml = OrElse(s.bypass_volume_ml, 50)
       /\ r.bypass_temp_c = OrElse(s.bypass_temp_c, 850)
  /\ r.grinder_size = OrElse(s.grind_size, OrElse(s.grinder_size, 400))
  /\ r.grind_size = r.grinder_size
  /\ r.rpm = OrElse(s.grinder_speed_rpm, OrElse(s.rpm, 900)) /\ r.grinder_speed_rpm = r.rpm

Inv ==
  /\ recipe # None \/ origin # "none" => Kept(recipe)
  /\ recipe # None /\ errors = {} => RatioOk(recipe.ratio)
  /\ cloud # None => Kept(saved) /\ RatioOk(saved.ratio) /\ InCloud(cloud, saved)
  /\ origin = "downloaded" => cloud # None /\ Returned(recipe, saved) /\ errors = Validate(recipe)

LEMMA BuildKept ==
  ASSUME NEW fields \in LooseRecipes, NEW brewDefaults
  PROVE  LET r == BuildRecipe(fields, brewDefaults)
         IN  Kept(r) /\ (BuildErrors(r) = {} => RatioOk(r.ratio))
<1> DEFINE r == BuildRecipe(fields, brewDefaults)
<1>1. r \in RecipeRecords
  BY BuildType
<1>2. r.ratio # Malformed => r.rpm = r.grinder_speed_rpm
  BY DEF BuildRecipe
<1> HIDE DEF r
<1>3. BuildErrors(r) = {} => RatioOk(r.ratio)
  BY ValidRatio DEF BuildErrors
<1> QED BY <1>1, <1>2, <1>3 DEF Kept, r

LEMMA UploadKeeps ==
  ASSUME NEW r \in RecipeRecords, RatioOk(r.ratio)
  PROVE  InCloud(CloudBody(r), r)
<1>1. r.ratio \notin {None, Malformed}
  BY DEF RatioOk, InRange
<1>2. GrandWater(r) = r.ratio
  BY <1>1 DEF GrandWater
<1> QED BY <1>2 DEF InCloud, CloudBody

LEMMA DownloadReturns ==
  ASSUME NEW s, Kept(s), RatioOk(s.ratio), NEW body, InCloud(body, s)
  PROVE  LET r == Normalize(ParseRecipe(body)) IN Kept(r) /\ Returned(r, s)
<1> DEFINE p == ParseRecipe(body)
           r == Normalize(p)
<1>1. s \in RecipeRecords
  BY DEF Kept
<1>2. /\ s.name \in BOOLEAN /\ s.dose_g \in Int /\ s.pours \in Seq(PourRecords)
      /\ s.cup_type \in Int /\ s.grinder_size_enabled \in Int /\ s.bypass_water_enabled \in Int
      /\ s.grind_size \in Maybe(Int) /\ s.grinder_size \in Maybe(Int)
      /\ s.grinder_speed_rpm \in Maybe(Int) /\ s.rpm \in Maybe(Int)
      /\ s.bypass_volume_ml \in Maybe(Int) /\ s.bypass_temp_c \in Maybe(Int)
      /\ s.ratio \in Maybe(Int) \union {Malformed}
  BY <1>1 DEF RecipeRecords
<1>3. s.ratio \in Maybe(Int) /\ Len(s.pours) \in Int
  BY <1>2 DEF RatioOk
<1>4. p \in RecipeRecords
  <2>1. /\ OrElse(s.grind_size, OrElse(s.grinder_size, 400)) \in Maybe(Int)
        /\ OrElse(s.grinder_speed_rpm, OrElse(s.rpm, 900)) \in Maybe(Int)
        /\ (IF s.bypass_water_enabled = 1 THEN OrElse(s.bypass_volume_ml, 50) ELSE None) \in Maybe(Int)
        /\ (IF s.bypass_water_enabled = 1 THEN OrElse(s.bypass_temp_c, 850) ELSE None) \in Maybe(Int)
        /\ None \in Maybe(Int)
    BY <1>2 DEF OrElse, Maybe
  <2>2. /\ body.name \in BOOLEAN /\ body.dose \in Int /\ body.grandWater \in Maybe(Int)
        /\ body.grinderSize \in Maybe(Int) /\ body.isSetGrinderSize \in Int
        /\ body.rpm \in Maybe(Int) /\ Len(body.pours) \in Int /\ body.cupType \in Int
        /\ body.isEnableBypassWater \in Int /\ body.bypassVolume \in Maybe(Int)
        /\ body.bypassTemp \in Maybe(Int) /\ body.pours \in Seq(PourRecords)
    BY <1>2, <1>3, <2>1 DEF InCloud
  <2> QED BY <2>1, <2>2 DEF ParseRecipe, RecipeRecords
<1>5. /\ p.name = s.name /\ p.dose_g = s.dose_g /\ p.pours = s.pours /\ p.cup_type = s.cup_type
      /\ p.ratio = None /\ p.water_ratio = s.ratio /\ p.pour_count = Len(s.pours)
      /\ p.grinder_size_enabled = s.grinder_size_enabled
      /\ p.bypass_water_enabled = s.bypass_water_enabled
      /\ s.bypass_water_enabled = 1 =>
           /\ p.bypass_volume_ml = OrElse(s.bypass_volume_ml, 50)
           /\ p.bypass_temp_c = OrElse(s.bypass_temp_c, 850)
      /\ p.grind_size = None
      /\ p.grinder_size = OrElse(s.grind_size, OrElse(s.grinder_size, 400))
      /\ p.grinder_speed_rpm = None
      /\ p.rpm = OrElse(s.grinder_speed_rpm, OrElse(s.rpm, 900))
  BY DEF ParseRecipe, InCloud
<1> HIDE DEF p
<1>6. /\ r \in RecipeRecords
      /\ \A f \in {"name", "dose_g", "water_ratio", "grinder_size", "grinder_size_enabled", "rpm",
                   "pour_count", "cup_type", "bypass_water_enabled", "bypass_volume_ml",
                   "bypass_temp_c", "pours"} : r[f] = p[f]
      /\ r.grind_size = OrElse(p.grind_size, p.grinder_size)
      /\ r.grinder_speed_rpm = OrElse(p.grinder_speed_rpm, p.rpm)
      /\ r.ratio = GuessRatio(p)
  BY <1>4, <1>5, NormalizeType
<1>7. GuessRatio(p) = s.ratio
  BY <1>4, <1>5, GuessType
<1> HIDE DEF r
<1>8. /\ r.name = p.name /\ r.dose_g = p.dose_g /\ r.pours = p.pours /\ r.cup_type = p.cup_type
      /\ r.pour_count = p.pour_count /\ r.grinder_size_enabled = p.grinder_size_enabled
      /\ r.bypass_water_enabled = p.bypass_water_enabled /\ r.rpm = p.rpm
      /\ r.bypass_volume_ml = p.bypass_volume_ml /\ r.bypass_temp_c = p.bypass_temp_c
      /\ r.grinder_size = p.grinder_size
  BY <1>6
<1>9. r.grind_size = p.grinder_size /\ r.grinder_speed_rpm = p.rpm
  BY <1>5, <1>6 DEF OrElse
<1>10. Returned(r, s)
  BY <1>5, <1>6, <1>7, <1>8, <1>9 DEF Returned
<1>11. Kept(r)
  BY <1>6, <1>8, <1>9 DEF Kept
<1> QED BY <1>10, <1>11 DEF r, p

LEMMA InvInit ==
  Init => Inv
BY DEF Init, Inv

\* One case for each action.
LEMMA InvNext ==
  Inv /\ [Next]_vars => Inv'
<1> SUFFICES ASSUME Inv, [Next]_vars PROVE Inv'
  OBVIOUS
<1>1. ASSUME NEW fields \in LooseFields, NEW brewDefaults \in BOOLEAN, Build(fields, brewDefaults)
      PROVE  Inv'
  <2> DEFINE r == BuildRecipe(fields, brewDefaults)
  <2>1. fields \in LooseRecipes
    BY RecipesAssumption
  <2>2. Kept(r) /\ (BuildErrors(r) = {} => RatioOk(r.ratio))
    BY <2>1, BuildKept
  <2>3. recipe' = r /\ errors' = BuildErrors(r) /\ origin' = "built"
        /\ cloud' = cloud /\ saved' = saved
    BY <1>1 DEF Build, Obtain
  <2> HIDE DEF r
  <2> QED BY <2>2, <2>3 DEF Inv
<1>2. ASSUME NEW r \in Shared, Import(r) PROVE Inv'
  <2> DEFINE m == Normalize(r)
  <2>1. r \in RecipeRecords /\ r.grinder_speed_rpm = None
    BY RecipesAssumption
  <2>2. m \in RecipeRecords /\ m.rpm = r.rpm /\ m.grinder_speed_rpm = OrElse(r.grinder_speed_rpm, r.rpm)
    BY <2>1, NormalizeType
  <2>3. recipe' = m /\ errors' = Validate(m) /\ origin' = "imported"
        /\ cloud' = cloud /\ saved' = saved
    BY <1>2 DEF Import, Obtain
  <2> HIDE DEF m
  <2>4. Kept(m)
    BY <2>1, <2>2 DEF Kept, OrElse
  <2> QED BY <2>3, <2>4, ValidRatio DEF Inv
<1>3. ASSUME NEW dose \in Doses, NEW ratio \in Ratios, NEW kept \in BOOLEAN,
             Edit(dose, ratio, kept)
      PROVE  Inv'
  <2> DEFINE fields == EditorFields(recipe, dose, ratio, kept)
             r == BuildRecipe(fields, TRUE)
  <2>1. recipe \in RecipeRecords /\ dose \in Int /\ ratio \in Int
    BY <1>3, RecipesAssumption DEF Edit, Changes, Inv, Kept
  <2>2. fields \in LooseRecipes
    BY <2>1, FieldsType
  <2>3. recipe' = r /\ errors' = BuildErrors(r) /\ origin' = "edited"
        /\ cloud' = cloud /\ saved' = saved
    BY <1>3 DEF Edit, Changes, Obtain
  <2> HIDE DEF fields
  <2>4. Kept(r) /\ (BuildErrors(r) = {} => RatioOk(r.ratio))
    BY <2>2, BuildKept
  <2> HIDE DEF r
  <2> QED BY <2>3, <2>4 DEF Inv
<1>4. ASSUME NEW dose \in Doses, NEW ratio \in Ratios, NEW grind \in {None, 500},
             Scale(dose, ratio, grind)
      PROVE  Inv'
  <2> DEFINE m == ScaleRecipe(recipe, dose, ratio, grind)
  <2>1. recipe \in RecipeRecords /\ Kept(recipe) /\ dose \in Int /\ ratio \in Int
        /\ grind \in Maybe(Int) /\ recipe # None
    BY <1>4, RecipesAssumption DEF Scale, Changes, Inv, Kept, Maybe
  <2>2. m \in RecipeRecords /\ m.ratio = recipe.ratio /\ m.rpm = recipe.rpm
        /\ m.grinder_speed_rpm = recipe.grinder_speed_rpm
    BY <2>1, ScaleType
  <2>3. recipe' = m /\ errors' = errors /\ origin' = "scaled"
        /\ cloud' = cloud /\ saved' = saved
    BY <1>4 DEF Scale, Changes, Obtain
  <2> HIDE DEF m
  <2>4. Kept(m)
    BY <2>1, <2>2 DEF Kept
  <2> QED BY <2>1, <2>2, <2>3, <2>4 DEF Inv
<1>5. CASE Upload
  <2>1. Kept(recipe) /\ RatioOk(recipe.ratio)
    BY <1>5 DEF Upload, Inv
  <2>2. InCloud(CloudBody(recipe), recipe)
    BY <2>1, UploadKeeps DEF Kept
  <2>3. cloud = None /\ saved' = recipe /\ cloud' = CloudBody(recipe)
        /\ recipe' = recipe /\ errors' = errors /\ origin' = origin
    BY <1>5 DEF Upload
  <2> QED BY <2>1, <2>2, <2>3 DEF Inv
<1>6. CASE Download
  <2> DEFINE r == Normalize(ParseRecipe(cloud))
  <2>1. cloud # None /\ Kept(saved) /\ RatioOk(saved.ratio) /\ InCloud(cloud, saved)
    BY <1>6 DEF Download, Inv
  <2>2. Kept(r) /\ Returned(r, saved)
    BY <2>1, DownloadReturns
  <2>3. recipe' = r /\ errors' = Validate(r) /\ origin' = "downloaded"
        /\ cloud' = cloud /\ saved' = saved
    BY <1>6 DEF Download, Obtain
  <2> HIDE DEF r
  <2> QED BY <2>1, <2>2, <2>3, ValidRatio DEF Inv
<1>7. CASE Send \/ Take \/ UNCHANGED vars
  <2>1. recipe' = recipe /\ errors' = errors /\ origin' = origin /\ cloud' = cloud /\ saved' = saved
    BY <1>7 DEF Send, Take, vars
  <2> QED BY <2>1 DEF Inv
<1> QED BY <1>1, <1>2, <1>3, <1>4, <1>5, <1>6, <1>7 DEF Next

LEMMA Invariant ==
  Spec => []Inv
BY InvInit, InvNext, PTL DEF Spec

-----------------------------------------------------------------------------
(* What the machine takes *)

Taken(f) ==
  f.dose > 0 /\ (\E i \in DOMAIN f.blob.steps : Poured(f.blob.steps[i]) > 0) => GatePasses(f)

\* The pours of a recipe, for the lemmas about sums.
LEMMA PoursOf ==
  ASSUME NEW r \in RecipeRecords
  PROVE  /\ r.dose_g \in Int
         /\ \E n \in Nat : DOMAIN r.pours = 1 .. n /\ \A i \in 1 .. n : r.pours[i].volume_ml \in Int
<1>1. r.pours \in Seq(PourRecords) /\ r.dose_g \in Int
  BY DEF RecipeRecords
<1>2. Len(r.pours) \in Nat /\ DOMAIN r.pours = 1 .. Len(r.pours)
      /\ \A i \in 1 .. Len(r.pours) : r.pours[i] \in PourRecords
  BY <1>1
<1>3. \A i \in 1 .. Len(r.pours) : r.pours[i].volume_ml \in Int
  BY <1>2 DEF PourRecords
<1> QED BY <1>1, <1>2, <1>3

LEMMA SentIsTaken ==
  ASSUME NEW r \in RecipeRecords
  PROVE  Taken(BrewFrames(r))
<1> DEFINE grinder == IF UsesGrinder(r) THEN r.grinder_size \div 10 ELSE 0
           rpm == IF UsesGrinder(r) THEN r.rpm \div 10 ELSE 0
           f == BrewFrames(r)
           blob == EncodeBlob(r.pours, grinder, r.dose_g, rpm)
           asked == Asked(r.pours)
           dose == Round(r.dose_g, 10)
           gate == GateConsistent(asked, dose)
<1>1. f.dose = dose /\ f.blob = blob
  BY DEF BrewFrames, RecipeBlob
<1>2. r.dose_g \in Int
  BY PoursOf
<1>3. PICK n \in Nat : DOMAIN r.pours = 1 .. n /\ \A i \in 1 .. n : r.pours[i].volume_ml \in Int
  BY PoursOf
<1> HIDE DEF grinder, rpm
<1>4. /\ blob.ratio = gate.ratio /\ DOMAIN blob.steps = 1 .. n
      /\ \A i \in 1 .. n : Poured(blob.steps[i]) = gate.volumes[i]
      /\ [i \in DOMAIN blob.steps |-> Poured(blob.steps[i])] = gate.volumes
      /\ asked \in [1 .. n -> Nat] /\ dose \in Int
  BY <1>2, <1>3, BlobOf
<1> HIDE DEF blob, asked, dose
<1>5. /\ gate.volumes \in [1 .. n -> Nat]
      /\ dose > 0 /\ Total(asked) > 0 =>
           gate.ratio \in 1 .. 255 /\ Total(gate.volumes) = Truncated(gate.ratio, dose)
      /\ ~ (Total(asked) > 0) => \A i \in 1 .. n : gate.volumes[i] = 0
  BY <1>4, GateOf
<1> HIDE DEF gate, f
<1> SUFFICES ASSUME f.dose > 0, \E i \in DOMAIN f.blob.steps : Poured(f.blob.steps[i]) > 0
             PROVE  GatePasses(f)
  BY DEF Taken, f
<1>6. Total(asked) > 0
  <2>1. PICK i \in 1 .. n : Poured(blob.steps[i]) > 0
    BY <1>1, <1>4
  <2>2. gate.volumes[i] > 0
    BY <1>4, <2>1
  <2> QED BY <1>5, <2>2
<1>7. gate.ratio \in 1 .. 255 /\ Total(gate.volumes) = Truncated(gate.ratio, dose)
  BY <1>1, <1>5, <1>6
<1>8. f.blob.ratio = gate.ratio /\ DOMAIN f.blob.steps = 1 .. n
      /\ \A i \in 1 .. n : Poured(f.blob.steps[i]) = gate.volumes[i]
  BY <1>1, <1>4
<1>9. [i \in DOMAIN f.blob.steps |-> Poured(f.blob.steps[i])] = gate.volumes
  BY <1>5, <1>8
<1>10. f.blob.ratio > 0
  <2>1. gate.ratio \in 1 .. 255
    BY <1>7
  <2>2. f.blob.ratio = gate.ratio
    BY <1>8
  <2> QED BY <2>1, <2>2
<1>11. Truncated(f.blob.ratio, f.dose) = Total(gate.volumes)
  BY <1>1, <1>7, <1>8
<1> QED BY <1>9, <1>10, <1>11, Zenon DEF GatePasses

\* build_brew_frames and packet_slot_write, after anything a host may do with
\* recipes: the volumes on the wire are the product the firmware computes.
THEOREM RecipesAreTaken ==
  Spec => []MachineTakesIt
<1> DEFINE Sent == frames # None => Taken(frames)
<1>1. Init => Sent
  BY DEF Init
<1>2. Inv /\ Sent /\ [Next]_vars => Sent'
  <2> SUFFICES ASSUME Inv, Sent, [Next]_vars PROVE Sent'
    OBVIOUS
  <2>1. CASE Send
    <3>1. recipe \in RecipeRecords /\ frames' = BrewFrames(recipe)
      BY <2>1 DEF Send, Inv, Kept
    <3> QED BY <3>1, SentIsTaken
  <2>2. CASE ~ Send
    <3>1. frames' = frames
      BY <2>2 DEF Next, vars, Build, Import, Edit, Scale, Changes, Upload, Download, Take
    <3> QED BY <3>1
  <2> QED BY <2>1, <2>2
<1>3. Sent => MachineTakesIt
  BY DEF Taken, MachineTakesIt
<1> QED BY <1>1, <1>2, <1>3, Invariant, PTL DEF Spec

LEMMA SentInShares ==
  ASSUME NEW r \in RecipeRecords, Total(Volumes(r.pours)) > 0, Round(r.dose_g, 10) > 0
  PROVE  LET steps == RecipeBlob(r).steps
             asked == [i \in DOMAIN steps |-> Greater(0, r.pours[i].volume_ml)]
             wire  == Total([i \in DOMAIN steps |-> Poured(steps[i])])
         IN  \A i \in DOMAIN steps :
               Abs(Poured(steps[i]) * Total(asked) - asked[i] * wire) < Total(asked)
<1> DEFINE grinder == IF UsesGrinder(r) THEN r.grinder_size \div 10 ELSE 0
           rpm == IF UsesGrinder(r) THEN r.rpm \div 10 ELSE 0
           blob == EncodeBlob(r.pours, grinder, r.dose_g, rpm)
           asked == Asked(r.pours)
           dose == Round(r.dose_g, 10)
           gate == GateConsistent(asked, dose)
           volumes == Volumes(r.pours)
<1>2. r.dose_g \in Int
  BY PoursOf
<1>3. PICK n \in Nat : DOMAIN r.pours = 1 .. n
                       /\ \A i \in 1 .. n : r.pours[i].volume_ml \in Int
  BY PoursOf
<1>4. RecipeBlob(r) = blob
  BY DEF RecipeBlob
<1> HIDE DEF grinder, rpm
<1>5. /\ DOMAIN blob.steps = 1 .. n
      /\ \A i \in 1 .. n : Poured(blob.steps[i]) = gate.volumes[i]
      /\ [i \in DOMAIN blob.steps |-> Poured(blob.steps[i])] = gate.volumes
      /\ asked \in [1 .. n -> Nat] /\ dose \in Int
  BY <1>2, <1>3, BlobOf
<1>6. asked = [i \in 1 .. n |-> Greater(0, r.pours[i].volume_ml)]
  BY <1>3 DEF Asked, Greater
<1>7. Total(asked) > 0
  <2>1. volumes \in [1 .. n -> Int] /\ asked \in [1 .. n -> Int]
        /\ \A i \in 1 .. n : volumes[i] <= asked[i]
    BY <1>3 DEF Volumes, Asked
  <2> HIDE DEF volumes, asked
  <2>2. Total(volumes) <= Total(asked) /\ Total(volumes) \in Int /\ Total(asked) \in Int
    BY <2>1, TotalOrder, TotalType
  <2>3. Total(volumes) > 0
    BY DEF volumes
  <2> QED BY <2>2, <2>3
<1> HIDE DEF blob, asked, volumes
<1>8. /\ gate.volumes \in [1 .. n -> Nat]
      /\ \A i \in 1 .. n :
           Near(gate.volumes[i] * Total(asked), asked[i] * Total(gate.volumes), Total(asked))
  BY <1>5, <1>7, GateOf
<1> HIDE DEF gate
<1>9. \A i \in 1 .. n :
        Abs(gate.volumes[i] * Total(asked) - asked[i] * Total(gate.volumes)) < Total(asked)
  <2> TAKE i \in 1 .. n
  <2>1. gate.volumes \in [1 .. n -> Int] /\ asked \in [1 .. n -> Int]
    BY <1>5, <1>8
  <2>2. gate.volumes[i] \in Int /\ Total(asked) \in Int /\ asked[i] \in Int /\ Total(gate.volumes) \in Int
    BY <2>1, TotalType
  <2>3. gate.volumes[i] * Total(asked) \in Int /\ asked[i] * Total(gate.volumes) \in Int
    BY <2>2
  <2>4. Near(gate.volumes[i] * Total(asked), asked[i] * Total(gate.volumes), Total(asked))
    BY <1>8
  <2> DEFINE x == gate.volumes[i] * Total(asked)
             y == asked[i] * Total(gate.volumes)
             d == Total(asked)
  <2>5. x \in Int /\ y \in Int /\ d \in Int /\ Near(x, y, d)
    BY <2>2, <2>3, <2>4
  <2> HIDE DEF x, y, d
  <2>6. Abs(x - y) < d
    BY <2>5 DEF Near, Abs
  <2> QED BY <2>6 DEF x, y, d
<1> QED BY <1>4, <1>5, <1>6, <1>9

\* encode_recipe_blob: splitting, rounding and nudging move no pour by a
\* millilitre or more from its share of the water that is sent.
THEOREM SharesAreKept ==
  Spec => []SharesKept
<1>1. Inv => SharesKept
  BY SentInShares DEF Inv, Kept, SharesKept
<1> QED BY <1>1, Invariant, PTL

-----------------------------------------------------------------------------
(* What comes back from the cloud *)

\* What validate_recipe finds, fault by fault.
LEMMA FaultsOf ==
  ASSUME NEW r
  PROVE  /\ DOMAIN Faults(r) = {"name", "dose_g", "ratio", "grind_size", "grinder_speed_rpm", "cup_type",
                                "pour_count", "temperature_c", "flow_rate", "pause_s", "pattern", "pours",
                                "volume_ml", "bypass_volume_ml", "bypass_temp_c"}
         /\ Faults(r).name <=> ~ r.name
         /\ Faults(r).dose_g <=> ~ InRange(DoseRange(r.cup_type), r.dose_g)
         /\ Faults(r).ratio <=> ~ RatioOk(r.ratio)
         /\ Faults(r).grind_size <=> ~ InRange(Fields.grind_size, r.grind_size)
         /\ Faults(r).grinder_speed_rpm <=>
              ~ InRange(Fields.grinder_speed_rpm, r.grinder_speed_rpm)
                \/ r.grinder_speed_rpm % Fields.grinder_speed_rpm.step # 0
         /\ Faults(r).cup_type <=> r.cup_type \notin ValidCups
         /\ Faults(r).pour_count <=>
              ~ InRange(Fields.pour_count, 10 * r.pour_count) \/ Len(r.pours) # r.pour_count
BY DEF Faults

Outside(range, values) == \E v \in values : ~ InRange(range, v)

\* The same of the faults of the pours and of the bypass.
LEMMA PourFaultsOf ==
  ASSUME NEW r
  PROVE  /\ Faults(r).temperature_c <=>
              Outside(Fields.pour_temperature_c, PourValues(r, "temperature_c"))
         /\ Faults(r).flow_rate <=> Outside(Fields.pour_flow_rate, PourValues(r, "flow_rate"))
         /\ Faults(r).pause_s <=> Outside(Fields.pour_pause_s, PourValues(r, "pause_s"))
         /\ Faults(r).pattern <=> ~ (PourValues(r, "pattern") \subseteq ValidPatterns)
         /\ Faults(r).pours <=>
              /\ RatioOk(r.ratio) /\ r.pours # <<>>
              /\ VolumeTolerance < Abs(Total(Volumes(r.pours)) - Water(r.dose_g, r.ratio))
         /\ Faults(r).volume_ml <=>
              /\ RatioOk(r.ratio) /\ r.pours # <<>>
              /\ Outside(Fields.pour_volume_ml, PourValues(r, "volume_ml"))
         /\ Faults(r).bypass_volume_ml <=>
              r.bypass_water_enabled = 1 /\ r.bypass_volume_ml = None
         /\ Faults(r).bypass_temp_c <=>
              r.bypass_water_enabled = 1 /\ r.bypass_temp_c = None
BY Zenon DEF Faults, Outside

\* The fields that validate_recipe reads.
SameToValidate(r, s) ==
  /\ r.name = s.name /\ r.dose_g = s.dose_g /\ r.ratio = s.ratio /\ r.pours = s.pours
  /\ r.cup_type = s.cup_type /\ r.pour_count = s.pour_count /\ r.grind_size = s.grind_size
  /\ r.grinder_speed_rpm = s.grinder_speed_rpm
  /\ r.bypass_water_enabled = s.bypass_water_enabled
  /\ s.bypass_water_enabled = 1 =>
       r.bypass_volume_ml = s.bypass_volume_ml /\ r.bypass_temp_c = s.bypass_temp_c

LEMMA SameFaults ==
  ASSUME NEW r, NEW s, SameToValidate(r, s)
  PROVE  Validate(r) = Validate(s)
<1>1. /\ Faults(r).name <=> Faults(s).name
      /\ Faults(r).dose_g <=> Faults(s).dose_g
      /\ Faults(r).ratio <=> Faults(s).ratio
      /\ Faults(r).grind_size <=> Faults(s).grind_size
      /\ Faults(r).grinder_speed_rpm <=> Faults(s).grinder_speed_rpm
      /\ Faults(r).cup_type <=> Faults(s).cup_type
      /\ Faults(r).pour_count <=> Faults(s).pour_count
  <2>1. /\ r.name = s.name /\ r.dose_g = s.dose_g /\ r.ratio = s.ratio /\ r.pours = s.pours
        /\ r.cup_type = s.cup_type /\ r.pour_count = s.pour_count
        /\ r.grind_size = s.grind_size /\ r.grinder_speed_rpm = s.grinder_speed_rpm
    BY Zenon DEF SameToValidate
  <2>2. Faults(r).name <=> Faults(s).name
    BY <2>1, FaultsOf, Zenon
  <2>3. Faults(r).dose_g <=> Faults(s).dose_g
    BY <2>1, FaultsOf, Zenon
  <2>4. Faults(r).ratio <=> Faults(s).ratio
    BY <2>1, FaultsOf, Zenon
  <2>5. Faults(r).grind_size <=> Faults(s).grind_size
    BY <2>1, FaultsOf, Zenon
  <2>6. Faults(r).grinder_speed_rpm <=> Faults(s).grinder_speed_rpm
    BY <2>1, FaultsOf, Zenon
  <2>7. Faults(r).cup_type <=> Faults(s).cup_type
    BY <2>1, FaultsOf, Zenon
  <2>8. Faults(r).pour_count <=> Faults(s).pour_count
    BY <2>1, FaultsOf, Zenon
  <2> QED BY <2>2, <2>3, <2>4, <2>5, <2>6, <2>7, <2>8
<1>2. /\ PourValues(r, "temperature_c") = PourValues(s, "temperature_c")
      /\ PourValues(r, "flow_rate") = PourValues(s, "flow_rate")
      /\ PourValues(r, "pause_s") = PourValues(s, "pause_s")
      /\ PourValues(r, "pattern") = PourValues(s, "pattern")
      /\ PourValues(r, "volume_ml") = PourValues(s, "volume_ml")
  <2>1. r.pours = s.pours
    BY Zenon DEF SameToValidate
  <2>2. ASSUME NEW k PROVE PourValues(r, k) = PourValues(s, k)
    BY <2>1, Zenon DEF PourValues
  <2> QED BY <2>2, Zenon
<1>3. /\ Faults(r).temperature_c <=> Faults(s).temperature_c
      /\ Faults(r).flow_rate <=> Faults(s).flow_rate
      /\ Faults(r).pause_s <=> Faults(s).pause_s
      /\ Faults(r).pattern <=> Faults(s).pattern
  BY <1>2, PourFaultsOf, Zenon
<1>4. /\ RatioOk(r.ratio) <=> RatioOk(s.ratio)
      /\ r.pours = s.pours
      /\ Water(r.dose_g, r.ratio) = Water(s.dose_g, s.ratio)
  BY Zenon DEF SameToValidate
<1>5. Faults(r).pours <=> Faults(s).pours
  <2>1. Abs(Total(Volumes(r.pours)) - Water(r.dose_g, r.ratio))
          = Abs(Total(Volumes(s.pours)) - Water(s.dose_g, s.ratio))
    BY <1>4, Zenon
  <2> QED BY <1>4, <2>1, PourFaultsOf, Zenon
<1>6. Faults(r).volume_ml <=> Faults(s).volume_ml
  <2>1. PourValues(r, "volume_ml") = PourValues(s, "volume_ml")
    BY <1>2
  <2> QED BY <1>4, <2>1, PourFaultsOf, Zenon
<1>7. /\ Faults(r).bypass_volume_ml <=> Faults(s).bypass_volume_ml
      /\ Faults(r).bypass_temp_c <=> Faults(s).bypass_temp_c
  <2>1. r.bypass_water_enabled = s.bypass_water_enabled
        /\ (s.bypass_water_enabled = 1 =>
              r.bypass_volume_ml = s.bypass_volume_ml /\ r.bypass_temp_c = s.bypass_temp_c)
    BY Zenon DEF SameToValidate
  <2> QED BY <2>1, PourFaultsOf, Zenon
<1> DEFINE fields == DOMAIN Faults(r)
<1>8. DOMAIN Faults(s) = fields
  BY FaultsOf
<1>9. \A f \in fields : Faults(r)[f] <=> Faults(s)[f]
  <2> SUFFICES ASSUME NEW f \in fields PROVE Faults(r)[f] <=> Faults(s)[f]
    OBVIOUS
  <2>1. f \in {"name", "dose_g", "ratio", "grind_size", "grinder_speed_rpm", "cup_type",
               "pour_count", "temperature_c", "flow_rate", "pause_s", "pattern", "pours",
               "volume_ml", "bypass_volume_ml", "bypass_temp_c"}
    BY FaultsOf, Zenon
  <2>2. f \in {"name", "dose_g", "ratio", "grind_size", "grinder_speed_rpm", "cup_type", "pour_count"}
          => (Faults(r)[f] <=> Faults(s)[f])
    BY <1>1, Zenon
  <2>3. f \in {"temperature_c", "flow_rate", "pause_s", "pattern"}
          => (Faults(r)[f] <=> Faults(s)[f])
    BY <1>3, Zenon
  <2>4. f \in {"pours", "volume_ml", "bypass_volume_ml", "bypass_temp_c"}
          => (Faults(r)[f] <=> Faults(s)[f])
    BY <1>5, <1>6, <1>7, Zenon
  <2> QED BY <2>1, <2>2, <2>3, <2>4, Zenon
<1> HIDE DEF fields
<1> QED BY <1>8, <1>9, Zenon DEF Validate, fields

LEMMA ValidPasses ==
  ASSUME NEW s, Validate(s) = {}
  PROVE  /\ s.grind_size # None /\ s.grinder_speed_rpm # None
         /\ Len(s.pours) = s.pour_count
         /\ s.bypass_water_enabled = 1 => s.bypass_volume_ml # None /\ s.bypass_temp_c # None
<1>1. ~ Faults(s).grind_size /\ ~ Faults(s).grinder_speed_rpm /\ ~ Faults(s).pour_count
  BY FaultsOf, Zenon DEF Validate
<1>2. ~ Faults(s).bypass_volume_ml /\ ~ Faults(s).bypass_temp_c
  BY FaultsOf, Zenon DEF Validate
<1> QED BY <1>1, <1>2, FaultsOf, PourFaultsOf, Zenon DEF InRange

\* recipe_to_cloud_body, then _parse_recipe and normalize_for_validation: what
\* comes back is found as valid as what was uploaded, and brews the same.
THEOREM CloudReturns ==
  Spec => []CloudKeepsRecipe
<1>1. Inv => CloudKeepsRecipe
  <2> SUFFICES ASSUME Inv, origin = "downloaded", Validate(saved) = {},
                      saved.grinder_size = saved.grind_size
               PROVE  errors = {} /\ BrewFrames(recipe) = BrewFrames(saved)
    BY DEF CloudKeepsRecipe
  <2>1. Returned(recipe, saved) /\ Kept(saved) /\ RatioOk(saved.ratio) /\ errors = Validate(recipe)
    BY DEF Inv
  <2>2. saved.rpm = saved.grinder_speed_rpm
    BY <2>1 DEF Kept, RatioOk
  <2>3. /\ saved.grind_size # None /\ saved.grinder_speed_rpm # None
        /\ Len(saved.pours) = saved.pour_count
        /\ saved.bypass_water_enabled = 1 =>
             saved.bypass_volume_ml # None /\ saved.bypass_temp_c # None
    BY ValidPasses
  <2>4. SameToValidate(recipe, saved)
    BY <2>1, <2>2, <2>3 DEF Returned, SameToValidate, OrElse
  <2>5. errors = {}
    BY <2>1, <2>4, SameFaults
  <2>6. /\ recipe.grinder_size_enabled = saved.grinder_size_enabled
        /\ recipe.grinder_size = saved.grinder_size /\ recipe.rpm = saved.rpm
        /\ recipe.pours = saved.pours /\ recipe.dose_g = saved.dose_g
    BY <2>1, <2>2, <2>3 DEF Returned, OrElse
  <2>7. UsesGrinder(recipe) <=> UsesGrinder(saved)
    BY <2>6, Zenon DEF UsesGrinder
  <2>8. RecipeBlob(recipe) = RecipeBlob(saved)
    BY <2>6, <2>7, Zenon DEF RecipeBlob
  <2> QED BY <2>5, <2>6, <2>8, Zenon DEF BrewFrames
<1> QED BY <1>1, Invariant, PTL

-----------------------------------------------------------------------------
(* What build returns *)

Settles(range, v) == v \in Int /\ Snap(range, v) = v

LEMMA SnapSettles ==
  ASSUME NEW range, IsRange(range), NEW v \in Int
  PROVE  Settles(range, Snap(range, v))
BY SnapLands, SnapType DEF Settles

LEMMA SettlesIn ==
  ASSUME NEW range, IsRange(range), NEW v, Settles(range, v)
  PROVE  InRange(range, v) /\ \E j \in Nat : v = range.min + range.step * j
<1>1. v \in Int /\ Snap(range, v) = v
  BY DEF Settles
<1>2. v \in range.min .. range.max /\ \E j \in Nat : v = range.min + range.step * j
  BY <1>1, SnapLands
<1>3. v # None
  BY <1>1, RecipesAssumption
<1> QED BY <1>1, <1>2, <1>3 DEF InRange, IsRange

\* A point of the grid settles.
LEMMA GridSettles ==
  ASSUME NEW range, IsRange(range), NEW k \in Nat, range.min + range.step * k <= range.max
  PROVE  Settles(range, range.min + range.step * k)
<1> DEFINE b == range.step
           v == range.min + b * k
<1>1. range.min \in Int /\ range.max \in Int /\ b \in Nat \ {0}
  BY DEF IsRange
<1>2. b * k \in Nat /\ v \in Int /\ range.min <= v /\ v <= range.max /\ v - range.min = b * k
  BY <1>1
<1>3. Round(b * k, b) = k
  <2> HIDE DEF b
  <2> QED BY <1>1, RoundMultiple
<1>4. Clamp(range, v) = v
  BY <1>1, <1>2 DEF Clamp
<1>5. Snap(range, v) = v
  BY <1>2, <1>3, <1>4 DEF Snap
<1> QED BY <1>2, <1>5 DEF Settles

LEMMA SnapOrSettles ==
  ASSUME NEW range, IsRange(range), NEW v \in Maybe(Int), NEW other, Settles(range, other)
  PROVE  Settles(range, SnapOr(range, v, other))
BY SnapSettles DEF SnapOr, Maybe

LEMMA DefaultsSettle ==
  /\ Settles(Fields.grind_size, Fields.grind_size.default)
  /\ Settles(Fields.grinder_speed_rpm, Fields.grinder_speed_rpm.default)
  /\ Settles(Fields.pour_flow_rate, Fields.pour_flow_rate.default)
  /\ \A cup \in ValidCups : Settles(CupDose[cup], CupDose[cup].default)
<1>1. Settles(Fields.grind_size, Fields.grind_size.default)
  BY DEF Settles, Snap, Clamp, Round, Fields, NumRange
<1>2. Settles(Fields.grinder_speed_rpm, Fields.grinder_speed_rpm.default)
  BY DEF Settles, Snap, Clamp, Round, Fields, NumRange
<1>3. Settles(Fields.pour_flow_rate, Fields.pour_flow_rate.default)
  BY DEF Settles, Snap, Clamp, Round, Fields, NumRange
<1>4. ASSUME NEW cup \in ValidCups
      PROVE  Settles(CupDose[cup], CupDose[cup].default)
  <2>1. CASE cup = 1
    BY <2>1 DEF Settles, Snap, Clamp, Round, CupDose, NumRange
  <2>2. CASE cup = 2
    BY <2>2 DEF Settles, Snap, Clamp, Round, CupDose, NumRange
  <2>3. CASE cup = 3
    BY <2>3 DEF Settles, Snap, Clamp, Round, CupDose, NumRange
  <2>4. CASE cup = 4
    BY <2>4 DEF Settles, Snap, Clamp, Round, CupDose, NumRange
  <2> QED BY <2>1, <2>2, <2>3, <2>4 DEF ValidCups
<1> QED BY <1>1, <1>2, <1>3, <1>4

LEMMA SnapRatioLands ==
  ASSUME NEW q \in Int
  PROVE  LET s == SnapRatio(q, 1) IN s \in Int /\ RatioOk(s) /\ SnapRatio(s, 1) = s
<1> DEFINE s == SnapRatio(q, 1)
<1>1. RatioDenom.min = 50 /\ RatioDenom.max = 250 /\ RatioDenom.step = 5
  BY DEF RatioDenom, NumRange
<1>2. s \in 50 .. 250 /\ s % 5 = 0
  <2>1. CASE q <= 50 \/ q >= 250
    BY <1>1, <2>1 DEF SnapRatio
  <2>2. CASE 50 < q /\ q < 250
    <3> DEFINE k == Round(q - 50, 5)
    <3>1. q - 50 \in Nat /\ 5 \in Nat \ {0} /\ 40 \in Nat /\ q - 50 <= 5 * 40
      BY <2>2
    <3>2. k \in 0 .. 40
      BY <3>1, RoundBounded
    <3>3. s = 50 + 5 * k
      BY <1>1, <2>2 DEF SnapRatio
    <3> HIDE DEF k, s
    <3> QED BY <3>2, <3>3
  <2> QED BY <2>1, <2>2
<1> HIDE DEF s
<1>3. s \in Int /\ s # Malformed /\ s # None
  BY <1>2, RecipesAssumption
<1>4. RatioOk(s)
  BY <1>1, <1>2, <1>3 DEF RatioOk, InRange
<1> QED BY <1>3, <1>4, SnapRatioKeeps DEF s

\* A pour as build lays it.
OnGrid(q) ==
  /\ Settles(Fields.pour_temperature_c, q.temperature_c)
  /\ Settles(Fields.pour_flow_rate, q.flow_rate)
  /\ q.pattern \in ValidPatterns
  /\ q.agitate_before \in {1, 2} /\ q.agitate_after \in {1, 2}

PauseSettles(i, volume, pause) ==
  Settles(Fields.pour_pause_s, pause) \/ (i = 1 /\ volume <= 15 /\ pause \in Int /\ pause > 590)

LEMMA AutoFillOnGrid ==
  ASSUME NEW total \in Int, NEW n \in Nat \ {0}, NEW i \in 1 .. n
  PROVE  OnGrid(AutoFill(total, n)[i])
<1> DEFINE heat == Greater(Fields.pour_temperature_c.min, 930 - 10 * i)
           q == AutoFill(total, n)[i]
<1>1. /\ q.temperature_c = heat /\ q.flow_rate = Fields.pour_flow_rate.default
      /\ q.pattern = Spiral /\ q.agitate_before = 2 /\ q.agitate_after = 2
  BY DEF AutoFill
<1> HIDE DEF q
<1>2. Settles(Fields.pour_temperature_c, heat)
  <2> DEFINE range == Fields.pour_temperature_c
  <2>1. range.min = 200 /\ range.max = 980 /\ range.step = 10
    BY DEF Fields, NumRange
  <2>2. PICK k \in 0 .. 72 : heat = 200 + 10 * k
    <3>1. CASE i <= 73
      <4>1. 73 - i \in 0 .. 72 /\ heat = 200 + 10 * (73 - i)
        BY <2>1, <3>1 DEF Greater
      <4> QED BY <4>1
    <3>2. CASE i > 73
      <4>1. heat = 200 + 10 * 0
        BY <2>1, <3>2 DEF Greater
      <4> QED BY <4>1
    <3> QED BY <3>1, <3>2
  <2> HIDE DEF heat
  <2>3. IsRange(range)
    BY FieldRange
  <2>4. k \in Nat /\ range.min + range.step * k <= range.max
    BY <2>1, <2>2
  <2> HIDE DEF range
  <2>5. Settles(range, range.min + range.step * k)
    BY <2>3, <2>4, GridSettles
  <2> QED BY <2>1, <2>2, <2>5 DEF range
<1> HIDE DEF heat
<1>3. Settles(Fields.pour_flow_rate, Fields.pour_flow_rate.default) /\ Spiral \in ValidPatterns
  BY DefaultsSettle DEF Spiral, ValidPatterns
<1>4. OnGrid(q)
  BY <1>1, <1>2, <1>3 DEF OnGrid
<1> QED BY <1>4 DEF q

\* The fields that build lays over a pour, and those it leaves.
LEMMA LaidFields ==
  ASSUME NEW pour \in PourRecords, NEW v, NEW t, NEW f, NEW p, NEW b, NEW a
  PROVE  LET q == Laid(pour, v, t, f, p, b, a) IN
         /\ q.volume_ml = v /\ q.temperature_c = t /\ q.flow_rate = f /\ q.pattern = p
         /\ q.agitate_before = b /\ q.agitate_after = a
<1>1. DOMAIN pour = {"volume_ml", "temperature_c", "flow_rate", "pattern", "pause_s",
                     "agitate_before", "agitate_after"}
  BY DEF PourRecords
<1> QED BY <1>1 DEF Laid

LEMMA OverlayOnGrid ==
  ASSUME NEW raw \in LoosePours, NEW pour \in PourRecords, OnGrid(pour)
  PROVE  OnGrid(Overlay(raw, pour))
<1> DEFINE v == PourVolume(raw, pour.volume_ml)
           t == SnapOr(Fields.pour_temperature_c, raw.temperature_c, pour.temperature_c)
           f == SnapOr(Fields.pour_flow_rate, raw.flow_rate, pour.flow_rate)
           p == IF raw.pattern \in ValidPatterns THEN raw.pattern ELSE pour.pattern
           b == IF raw.agitate_before = 1 THEN 1 ELSE 2
           a == IF raw.agitate_after = 1 THEN 1 ELSE 2
<1>1. Overlay(raw, pour) = Laid(pour, v, t, f, p, b, a)
  BY DEF Overlay, Laid
<1>2. raw.temperature_c \in Maybe(Int) /\ raw.flow_rate \in Maybe(Int)
  BY DEF LoosePours
<1>3. Settles(Fields.pour_temperature_c, t) /\ Settles(Fields.pour_flow_rate, f)
  BY <1>2, FieldRange, SnapOrSettles DEF OnGrid
<1>4. p \in ValidPatterns /\ b \in {1, 2} /\ a \in {1, 2}
  BY DEF OnGrid
<1> HIDE DEF v, t, f, p, b, a
<1> QED BY <1>1, <1>3, <1>4, LaidFields DEF OnGrid

LEMMA SettledOnGrid ==
  ASSUME NEW pour \in PourRecords, OnGrid(pour), NEW v, NEW w
  PROVE  OnGrid(Settled(pour, v, w)) /\ Settled(pour, v, w).pause_s = w
<1>1. /\ Settled(pour, v, w).temperature_c = pour.temperature_c
      /\ Settled(pour, v, w).flow_rate = pour.flow_rate
      /\ Settled(pour, v, w).pattern = pour.pattern
      /\ Settled(pour, v, w).agitate_before = pour.agitate_before
      /\ Settled(pour, v, w).agitate_after = pour.agitate_after
      /\ Settled(pour, v, w).pause_s = w
  BY DEF PourRecords, Settled
<1> QED BY <1>1 DEF OnGrid

\* A pause is on its grid, unless it is that of a first pour with almost no water.
LEMMA PauseOnGrid ==
  ASSUME NEW raw \in Maybe(Int), NEW i, NEW volume \in Int, NEW brewDefaults
  PROVE  PauseSettles(i, volume, ResolvePause(raw, i, volume, brewDefaults))
<1> DEFINE range == Fields.pour_pause_s
           k == Round(1800 - volume, 30)
<1>1. range.min = 0 /\ range.max = 590 /\ range.step = 10 /\ MinPause = 100
  BY DEF Fields, NumRange, MinPause
<1>2. IsRange(range)
  BY FieldRange
<1>3. ASSUME NEW j \in 0 .. 59 PROVE Settles(range, 10 * j)
  <2>1. j \in Nat /\ range.min + range.step * j <= range.max /\ range.min + range.step * j = 10 * j
    BY <1>1
  <2> HIDE DEF range
  <2> QED BY <1>2, <2>1, GridSettles
<1> HIDE DEF range
<1>4. Settles(range, 0) /\ Settles(range, 100)
  <2>1. 0 \in 0 .. 59 /\ 10 \in 0 .. 59 /\ 0 = 10 * 0 /\ 100 = 10 * 10
    OBVIOUS
  <2> QED BY <1>3, <2>1
<1>5. k \in Int /\ (k >= 60 => volume <= 15)
  <2>1. 1800 - volume \in Int /\ 30 \in Nat \ {0}
    OBVIOUS
  <2>2. k \in Int
    BY <2>1, RoundType
  <2>3. ASSUME volume > 15 PROVE k < 60
    BY <2>3 DEF Round
  <2> QED BY <2>2, <2>3
<1> HIDE DEF k
<1>6. PauseSettles(1, volume, BloomPause(volume))
  <2>1. BloomPause(volume) = IF 100 > 10 * k THEN 100 ELSE 10 * k
    BY <1>1 DEF BloomPause, Greater, k
  <2>2. CASE 100 > 10 * k
    BY <1>4, <2>1, <2>2 DEF PauseSettles, range
  <2>3. CASE ~ (100 > 10 * k) /\ k < 60
    <3>1. k \in 0 .. 59
      BY <1>5, <2>3
    <3> QED BY <1>3, <2>1, <2>3, <3>1 DEF PauseSettles, range
  <2>4. CASE ~ (100 > 10 * k) /\ ~ (k < 60)
    <3>1. volume <= 15 /\ 10 * k \in Int /\ 10 * k > 590
      BY <1>5, <2>4
    <3> QED BY <2>1, <2>4, <3>1 DEF PauseSettles
  <2> QED BY <2>2, <2>3, <2>4
<1>7. ASSUME raw # None PROVE Settles(range, Snap(range, 10 * Round(raw, 10)))
  <2>1. raw \in Int /\ 10 \in Nat \ {0}
    BY <1>7 DEF Maybe
  <2>2. Round(raw, 10) \in Int
    BY <2>1, RoundType
  <2>3. 10 * Round(raw, 10) \in Int
    BY <2>2
  <2> QED BY <1>2, <2>3, SnapSettles
<1>8. \/ ResolvePause(raw, i, volume, brewDefaults) \in {0, 100}
      \/ i = 1 /\ ResolvePause(raw, i, volume, brewDefaults) = BloomPause(volume)
      \/ raw # None
         /\ ResolvePause(raw, i, volume, brewDefaults) = Snap(range, 10 * Round(raw, 10))
  BY <1>1, Zenon DEF ResolvePause, range
<1> QED BY <1>4, <1>6, <1>7, <1>8 DEF PauseSettles, range

LEMMA BuildPoursOnGrid ==
  ASSUME NEW fields \in LooseRecipes, NEW total \in Int, NEW n \in Nat \ {0},
         fields.pours # <<>> => n = Len(fields.pours), NEW brewDefaults
  PROVE  LET pours == BuildPours(fields, total, n, brewDefaults)
         IN  \A i \in 1 .. n : /\ OnGrid(pours[i])
                              /\ PauseSettles(i, pours[i].volume_ml, pours[i].pause_s)
<1> DEFINE base == AutoFill(total, n)
           laid == IF fields.pours = <<>> THEN base
                   ELSE [i \in 1 .. n |-> Overlay(fields.pours[i], base[i])]
           volumes == Redistribute(Volumes(laid), total)
           pause(i) == IF fields.pours = <<>> THEN None ELSE fields.pours[i].pause_s
           wait(i) == ResolvePause(pause(i), i, volumes[i], brewDefaults)
           pours == BuildPours(fields, total, n, brewDefaults)
<1>1. fields.pours \in Seq(LoosePours)
  BY DEF LooseRecipes
<1>2. ASSUME fields.pours # <<>>, NEW i \in 1 .. n PROVE fields.pours[i] \in LoosePours
  BY <1>1, <1>2
<1>3. base \in [1 .. n -> PourRecords] /\ \A i \in 1 .. n : OnGrid(base[i])
  BY AutoFillType, AutoFillOnGrid
<1> HIDE DEF base
<1>4. laid \in [1 .. n -> PourRecords] /\ \A i \in 1 .. n : OnGrid(laid[i])
  <2>1. CASE fields.pours = <<>>
    BY <1>3, <2>1
  <2>2. CASE fields.pours # <<>>
    <3>1. \A i \in 1 .. n : /\ Overlay(fields.pours[i], base[i]) \in PourRecords
                            /\ OnGrid(Overlay(fields.pours[i], base[i]))
      BY <1>2, <1>3, <2>2, OverlayType, OverlayOnGrid
    <3> QED BY <2>2, <3>1
  <2> QED BY <2>1, <2>2
<1>5. \A i \in 1 .. n : pours[i] = Settled(laid[i], volumes[i], wait(i))
  BY DEF BuildPours, base, Settled
<1> HIDE DEF laid
<1>6. Volumes(laid) \in [1 .. n -> Int]
  BY <1>4 DEF Volumes, PourRecords
<1>7. volumes \in [1 .. n -> Int]
  BY <1>6, RedistributeType
<1> HIDE DEF volumes, pours
<1>8. \A i \in 1 .. n : wait(i) \in Int /\ PauseSettles(i, volumes[i], wait(i))
  <2> TAKE i \in 1 .. n
  <2>1. pause(i) \in Maybe(Int)
    BY <1>2 DEF LoosePours, Maybe
  <2>2. volumes[i] \in Int
    BY <1>7
  <2> HIDE DEF pause
  <2> QED BY <2>1, <2>2, ResolvePauseType, PauseOnGrid
<1> HIDE DEF wait
<1>9. \A i \in 1 .. n : /\ OnGrid(pours[i])
                        /\ pours[i].volume_ml = volumes[i] /\ pours[i].pause_s = wait(i)
  <2> TAKE i \in 1 .. n
  <2>1. laid[i] \in PourRecords /\ OnGrid(laid[i]) /\ volumes[i] \in Int /\ wait(i) \in Int
    BY <1>4, <1>7, <1>8
  <2>2. /\ OnGrid(Settled(laid[i], volumes[i], wait(i)))
        /\ Settled(laid[i], volumes[i], wait(i)).volume_ml = volumes[i]
        /\ Settled(laid[i], volumes[i], wait(i)).pause_s = wait(i)
    BY <2>1, SettledType, SettledOnGrid
  <2> QED BY <1>5, <2>2
<1>10. \A i \in 1 .. n : OnGrid(pours[i]) /\ PauseSettles(i, pours[i].volume_ml, pours[i].pause_s)
  BY <1>8, <1>9
<1> QED BY <1>10 DEF pours

\* A recipe as build returns it, but for its ratio and pours...
Made(r) ==
  /\ r.cup_type \in ValidCups
  /\ Settles(CupDose[r.cup_type], r.dose_g)
  /\ Settles(Fields.grind_size, r.grind_size)
  /\ Settles(Fields.grinder_speed_rpm, r.grinder_speed_rpm)
  /\ r.grinder_size_enabled = 1
  /\ r.bypass_water_enabled \in {1, 2}
  /\ r.bypass_water_enabled # 1 => r.bypass_volume_ml = None /\ r.bypass_temp_c = None

\* ... and, when its ratio can be read, with them.
Laden(r) ==
  /\ r.ratio \in Int /\ RatioOk(r.ratio)
  /\ r.water_ratio = Water(r.dose_g, r.ratio)
  /\ r.grinder_size = r.grind_size /\ r.rpm = r.grinder_speed_rpm
  /\ r.pour_count \in Nat \ {0}
  /\ r.pours \in [1 .. r.pour_count -> PourRecords]
  /\ Total(Volumes(r.pours)) = Water(r.dose_g, r.ratio)
  /\ \A i \in 1 .. r.pour_count :
       OnGrid(r.pours[i]) /\ PauseSettles(i, r.pours[i].volume_ml, r.pours[i].pause_s)

LEMMA BuildOnGrid ==
  ASSUME NEW fields \in LooseRecipes, NEW brewDefaults
  PROVE  LET r == BuildRecipe(fields, brewDefaults) IN
         /\ Made(r)
         /\ r.ratio # Malformed => Laden(r)
         /\ fields.ratio \in Int => r.ratio # Malformed
<1> USE DEF Maybe
<1> DEFINE cup == IF fields.cup_type \in ValidCups THEN fields.cup_type ELSE DefaultCup
           dose == SnapOr(DoseGrid(cup), fields.dose_g, DoseGrid(cup).default)
           grind == SnapOr(Fields.grind_size, fields.grind_size, Fields.grind_size.default)
           rpm == SnapOr(Fields.grinder_speed_rpm, fields.grinder_speed_rpm,
                         Fields.grinder_speed_rpm.default)
           readable == fields.ratio \notin {None, Malformed}
           ratio == IF readable THEN SnapRatio(fields.ratio, 1) ELSE Malformed
           n == IF fields.pours # <<>> THEN Len(fields.pours)
                ELSE Greater(1, OrElse(fields.pour_count, Fields.pour_count.default) \div 10)
           total == Water(dose, ratio)
           pours == IF readable THEN BuildPours(fields, total, n, brewDefaults) ELSE <<>>
           bypass == Truthy(fields.bypass_water_enabled)
           r == BuildRecipe(fields, brewDefaults)
<1>1. /\ r.dose_g = dose /\ r.ratio = ratio /\ r.cup_type = cup /\ r.pour_count = n
      /\ r.grind_size = grind /\ r.grinder_speed_rpm = rpm /\ r.grinder_size_enabled = 1
      /\ r.pours = pours
      /\ readable => r.water_ratio = total /\ r.grinder_size = grind /\ r.rpm = rpm
  BY DEF BuildRecipe
<1>2. /\ r.bypass_water_enabled = (IF bypass THEN 1 ELSE 2)
      /\ r.bypass_volume_ml = (IF bypass THEN fields.bypass_volume_ml ELSE None)
      /\ r.bypass_temp_c = (IF bypass THEN fields.bypass_temp_c ELSE None)
  BY DEF BuildRecipe
<1>3. /\ fields.dose_g \in Maybe(Int)
      /\ fields.ratio \in Maybe(Int) \union {Malformed} /\ fields.grind_size \in Maybe(Int)
      /\ fields.grinder_speed_rpm \in Maybe(Int) /\ fields.pour_count \in Maybe(Int)
      /\ fields.pours \in Seq(LoosePours)
  BY DEF LooseRecipes
<1>4. cup \in ValidCups
  BY DEF ValidCups, DefaultCup
<1> HIDE DEF cup, r
<1>5. Settles(CupDose[cup], dose)
  <2>1. IsRange(CupDose[cup]) /\ Settles(CupDose[cup], CupDose[cup].default)
    BY <1>4, CupRange, DefaultsSettle
  <2> QED BY <1>3, <2>1, SnapOrSettles DEF DoseGrid
<1>6. Settles(Fields.grind_size, grind) /\ Settles(Fields.grinder_speed_rpm, rpm)
  BY <1>3, FieldRange, DefaultsSettle, SnapOrSettles
<1> HIDE DEF dose, grind, rpm
<1>7. Made(r)
  BY <1>1, <1>2, <1>4, <1>5, <1>6 DEF Made
<1>8. n \in Nat \ {0}
  <2>1. ASSUME fields.pours # <<>> PROVE Len(fields.pours) \in Nat \ {0}
    BY <1>3, <2>1
  <2>2. OrElse(fields.pour_count, Fields.pour_count.default) \div 10 \in Int
    <3>1. OrElse(fields.pour_count, Fields.pour_count.default) \in Int
      BY <1>3 DEF OrElse, Fields, NumRange
    <3> QED BY <3>1
  <2> QED BY <2>1, <2>2 DEF Greater
<1>9. ASSUME readable PROVE Laden(r) /\ r.ratio # Malformed
  <2>1. fields.ratio \in Int
    BY <1>3, <1>9
  <2>2. ratio \in Int /\ RatioOk(ratio)
    BY <1>9, <2>1, SnapRatioLands
  <2>3. dose \in Int
    BY <1>5 DEF Settles
  <2> HIDE DEF ratio
  <2>4. total \in Int
    BY <2>2, <2>3, WaterType
  <2>5. fields.pours # <<>> => n = Len(fields.pours)
    OBVIOUS
  <2> HIDE DEF total, n
  <2>6. pours = BuildPours(fields, total, n, brewDefaults)
    BY <1>9
  <2>7. /\ BuildPours(fields, total, n, brewDefaults) \in [1 .. n -> PourRecords]
        /\ Total(Volumes(BuildPours(fields, total, n, brewDefaults))) = total
    BY <1>8, <2>4, <2>5, BuildPoursType
  <2>8. \A i \in 1 .. n :
          /\ OnGrid(BuildPours(fields, total, n, brewDefaults)[i])
          /\ PauseSettles(i, BuildPours(fields, total, n, brewDefaults)[i].volume_ml,
                          BuildPours(fields, total, n, brewDefaults)[i].pause_s)
    BY <1>8, <2>4, <2>5, BuildPoursOnGrid
  <2> HIDE DEF pours, readable
  <2>9. r.pours = pours /\ r.ratio = ratio /\ r.dose_g = dose /\ r.pour_count = n
        /\ r.water_ratio = total /\ r.grinder_size = grind /\ r.rpm = rpm
        /\ r.grind_size = grind /\ r.grinder_speed_rpm = rpm
    BY <1>1, <1>9
  <2>10. total = Water(dose, ratio)
    BY DEF total
  <2>11. /\ pours \in [1 .. n -> PourRecords] /\ Total(Volumes(pours)) = total
         /\ \A i \in 1 .. n : OnGrid(pours[i]) /\ PauseSettles(i, pours[i].volume_ml, pours[i].pause_s)
    BY <2>6, <2>7, <2>8
  <2>12. Laden(r)
    BY <1>8, <2>2, <2>9, <2>10, <2>11 DEF Laden
  <2> QED BY <2>2, <2>9, <2>12 DEF RatioOk
<1>10. r.ratio # Malformed => readable
  BY <1>1
<1>11. fields.ratio \in Int => readable
  BY RecipesAssumption
<1> HIDE DEF readable
<1> QED BY <1>7, <1>9, <1>10, <1>11 DEF r

\* What build returns stays as it was until it is scaled or replaced.
MadeInv ==
  origin \in {"built", "edited"} =>
    /\ Made(recipe)
    /\ recipe.ratio # Malformed => Laden(recipe)
    /\ errors = BuildErrors(recipe)

LEMMA MadeInvNext ==
  Inv /\ MadeInv /\ [Next]_vars => MadeInv'
<1> SUFFICES ASSUME Inv, MadeInv, [Next]_vars PROVE MadeInv'
  OBVIOUS
<1>1. ASSUME NEW r, Made(r), r.ratio # Malformed => Laden(r),
             recipe' = r, errors' = BuildErrors(r)
      PROVE  MadeInv'
  BY <1>1 DEF MadeInv
<1>2. ASSUME NEW fields \in LooseFields, NEW brewDefaults \in BOOLEAN, Build(fields, brewDefaults)
      PROVE  MadeInv'
  <2> DEFINE r == BuildRecipe(fields, brewDefaults)
  <2>1. fields \in LooseRecipes
    BY RecipesAssumption
  <2>2. Made(r) /\ (r.ratio # Malformed => Laden(r))
    BY <2>1, BuildOnGrid
  <2>3. recipe' = r /\ errors' = BuildErrors(r)
    BY <1>2 DEF Build, Obtain
  <2> HIDE DEF r
  <2> QED BY <1>1, <2>2, <2>3
<1>3. ASSUME NEW dose \in Doses, NEW ratio \in Ratios, NEW kept \in BOOLEAN,
             Edit(dose, ratio, kept)
      PROVE  MadeInv'
  <2> DEFINE fields == EditorFields(recipe, dose, ratio, kept)
             r == BuildRecipe(fields, TRUE)
  <2>1. recipe \in RecipeRecords /\ dose \in Int /\ ratio \in Int
    BY <1>3, RecipesAssumption DEF Edit, Changes, Inv, Kept
  <2>2. fields \in LooseRecipes
    BY <2>1, FieldsType
  <2>3. recipe' = r /\ errors' = BuildErrors(r)
    BY <1>3 DEF Edit, Changes, Obtain
  <2> HIDE DEF fields
  <2>4. Made(r) /\ (r.ratio # Malformed => Laden(r))
    BY <2>2, BuildOnGrid
  <2> HIDE DEF r
  <2> QED BY <1>1, <2>3, <2>4
<1>4. ASSUME NEW r \in Shared, Import(r) PROVE MadeInv'
  BY <1>4 DEF Import, Obtain, MadeInv
<1>5. ASSUME NEW dose \in Doses, NEW ratio \in Ratios, NEW grind \in {None, 500},
             Scale(dose, ratio, grind)
      PROVE  MadeInv'
  BY <1>5 DEF Scale, Obtain, MadeInv
<1>6. CASE Download
  BY <1>6 DEF Download, Obtain, MadeInv
<1>7. CASE Upload \/ Send \/ Take \/ UNCHANGED vars
  <2>1. recipe' = recipe /\ errors' = errors /\ origin' = origin
    BY <1>7 DEF Upload, Send, Take, vars
  <2> QED BY <2>1 DEF MadeInv
<1> QED BY <1>2, <1>3, <1>4, <1>5, <1>6, <1>7 DEF Next

LEMMA MadeInvariant ==
  Spec => []MadeInv
<1>1. Init => MadeInv
  BY DEF Init, MadeInv
<1> QED BY <1>1, Invariant, MadeInvNext, PTL DEF Spec

\* The faults that build leaves: those of its documentation, and an overlong pause
\* of the first pour.
LEMMA MadeFaults ==
  ASSUME NEW r, Made(r), Laden(r)
  PROVE  /\ Validate(r) \subseteq {"name", "pour_count", "volume_ml", "bypass_volume_ml",
                                   "bypass_temp_c", "pause_s"}
         /\ "pause_s" \in Validate(r) => r.pours[1].volume_ml <= 15 /\ r.pours[1].pause_s > 590
<1> DEFINE n == r.pour_count
<1>1. /\ n \in Nat \ {0} /\ r.pours \in [1 .. n -> PourRecords]
      /\ \A i \in 1 .. n :
           OnGrid(r.pours[i]) /\ PauseSettles(i, r.pours[i].volume_ml, r.pours[i].pause_s)
  BY DEF Laden
<1>2. ~ Faults(r).dose_g
  <2>1. r.cup_type \in ValidCups /\ InRange(CupDose[r.cup_type], r.dose_g)
    BY CupRange, SettlesIn DEF Made
  <2> QED BY <2>1, FaultsOf DEF DoseRange
<1>3. ~ Faults(r).ratio
  BY FaultsOf DEF Laden
<1>4. ~ Faults(r).grind_size
  <2>1. InRange(Fields.grind_size, r.grind_size)
    BY FieldRange, SettlesIn DEF Made
  <2> QED BY <2>1, FaultsOf
<1>5. ~ Faults(r).grinder_speed_rpm
  <2> DEFINE range == Fields.grinder_speed_rpm
             v == r.grinder_speed_rpm
  <2>1. InRange(range, v) /\ \E j \in Nat : v = range.min + range.step * j
    BY FieldRange, SettlesIn DEF Made
  <2>2. range.min = 600 /\ range.step = 100
    BY DEF Fields, NumRange
  <2>3. v % range.step = 0
    BY <2>1, <2>2
  <2> QED BY <2>1, <2>3, FaultsOf
<1>6. ~ Faults(r).cup_type
  BY FaultsOf DEF Made
<1>7. ~ Faults(r).temperature_c /\ ~ Faults(r).flow_rate
  <2>1. \A i \in 1 .. n : /\ InRange(Fields.pour_temperature_c, r.pours[i].temperature_c)
                          /\ InRange(Fields.pour_flow_rate, r.pours[i].flow_rate)
    BY <1>1, FieldRange, SettlesIn DEF OnGrid
  <2>2. /\ ~ Outside(Fields.pour_temperature_c, PourValues(r, "temperature_c"))
        /\ ~ Outside(Fields.pour_flow_rate, PourValues(r, "flow_rate"))
    BY <1>1, <2>1 DEF Outside, PourValues
  <2> QED BY <2>2, PourFaultsOf
<1>8. ~ Faults(r).pattern
  <2>1. PourValues(r, "pattern") \subseteq ValidPatterns
    BY <1>1 DEF OnGrid, PourValues
  <2> QED BY <2>1, PourFaultsOf
<1>9. ~ Faults(r).pours
  <2>1. Water(r.dose_g, r.ratio) \in Int /\ Total(Volumes(r.pours)) = Water(r.dose_g, r.ratio)
    <3>1. r.dose_g \in Int /\ r.ratio \in Int
      BY DEF Made, Laden, Settles
    <3> QED BY <3>1, WaterType DEF Laden
  <2>2. Abs(Total(Volumes(r.pours)) - Water(r.dose_g, r.ratio)) = 0
    BY <2>1 DEF Abs
  <2> QED BY <2>2, PourFaultsOf DEF VolumeTolerance
<1>10. ASSUME Faults(r).pause_s PROVE r.pours[1].volume_ml <= 15 /\ r.pours[1].pause_s > 590
  <2>1. Outside(Fields.pour_pause_s, PourValues(r, "pause_s"))
    BY <1>10, PourFaultsOf
  <2>2. PICK i \in 1 .. n : ~ InRange(Fields.pour_pause_s, r.pours[i].pause_s)
    BY <1>1, <2>1 DEF Outside, PourValues
  <2>3. ~ Settles(Fields.pour_pause_s, r.pours[i].pause_s)
    BY <2>2, FieldRange, SettlesIn
  <2> QED BY <1>1, <2>3 DEF PauseSettles
<1>11. \A f \in {"dose_g", "ratio", "grind_size", "grinder_speed_rpm", "cup_type", "temperature_c",
                 "flow_rate", "pattern", "pours"} : ~ Faults(r)[f]
  BY <1>2, <1>3, <1>4, <1>5, <1>6, <1>7, <1>8, <1>9
<1>12. Validate(r) = {f \in DOMAIN Faults(r) : Faults(r)[f]}
  BY DEF Validate
<1>13. "pause_s" \in Validate(r) => Faults(r).pause_s
  BY <1>12
<1>14. \A f \in Validate(r) : f \in {"name", "pour_count", "volume_ml", "bypass_volume_ml",
                                      "bypass_temp_c", "pause_s"}
  BY <1>11, <1>12, FaultsOf
<1> QED BY <1>10, <1>13, <1>14

\* build's "only faults that cannot be snapped away": what validate_recipe finds in
\* the result, whatever build was given.
THEOREM OnlyUnsnappableLeft ==
  Spec => []OnlyUnsnappable
<1>1. MadeInv => OnlyUnsnappable
  <2> SUFFICES ASSUME MadeInv, origin \in {"built", "edited"}
               PROVE  errors \subseteq {"name", "ratio", "pour_count", "volume_ml", "bypass_volume_ml",
                                       "bypass_temp_c"} \union (IF errors # {"ratio"} /\ OverlongBloom
                                                                THEN {"pause_s"} ELSE {})
    BY DEF OnlyUnsnappable
  <2>1. CASE recipe.ratio = Malformed
    BY <2>1 DEF MadeInv, BuildErrors
  <2>2. CASE recipe.ratio # Malformed
    <3>1. /\ errors \subseteq {"name", "pour_count", "volume_ml", "bypass_volume_ml",
                               "bypass_temp_c", "pause_s"}
          /\ "pause_s" \in errors => recipe.pours[1].volume_ml <= 15 /\ recipe.pours[1].pause_s > 590
      BY <2>2, MadeFaults DEF MadeInv, BuildErrors
    <3>2. "pause_s" \in errors => errors # {"ratio"} /\ OverlongBloom
      BY <3>1 DEF OverlongBloom, Fields, NumRange
    <3> HIDE DEF OverlongBloom
    <3> QED BY <3>1, <3>2
  <2> QED BY <2>1, <2>2
<1> QED BY <1>1, MadeInvariant, PTL

LEMMA RedistributeKeeps ==
  ASSUME NEW n \in Nat \ {0}, NEW v \in [1 .. n -> Int]
  PROVE  Redistribute(v, Total(v)) = v
<1> DEFINE t == Total(v)
           w == WithDrift(v, t)
<1>1. t \in Int
  BY TotalType
<1>2. Abs(t - t) <= VolumeTolerance
  BY <1>1 DEF Abs, VolumeTolerance
<1>3. Redistribute(v, t) = w
  BY <1>2 DEF Redistribute
<1> HIDE DEF w
<1>4. /\ w \in [1 .. n -> Int] /\ \A i \in 1 .. n - 1 : w[i] = v[i]
      /\ w[n] = v[n] + t - Total(v)
  BY <1>1, DriftWhole DEF w
<1>5. \A i \in 1 .. n : w[i] = v[i]
  <2> TAKE i \in 1 .. n
  <2>1. CASE i = n
    BY <1>1, <1>4, <2>1
  <2>2. CASE i # n
    BY <1>4, <2>2
  <2> QED BY <2>1, <2>2
<1>6. w = v
  BY <1>4, <1>5
<1> QED BY <1>3, <1>6

LEMMA PauseStays ==
  ASSUME NEW p, Settles(Fields.pour_pause_s, p), p \notin 1 .. MinPause - 1, NEW i, NEW volume
  PROVE  ResolvePause(p, i, volume, TRUE) = p
<1> DEFINE range == Fields.pour_pause_s
<1>1. range.min = 0 /\ range.step = 10 /\ MinPause = 100
  BY DEF Fields, NumRange, MinPause
<1>2. PICK j \in Nat : p = range.min + range.step * j
  BY FieldRange, SettlesIn
<1>3. p = 10 * j /\ p \in Nat /\ p # None
  BY <1>1, <1>2, RecipesAssumption
<1>4. Round(p, 10) = j
  <2>1. 10 \in Nat \ {0}
    OBVIOUS
  <2> QED BY <1>3, <2>1, RoundMultiple
<1>5. ~ (Round(p, 10) > 0 /\ 10 * Round(p, 10) < MinPause)
  BY <1>1, <1>3, <1>4
<1>6. ResolvePause(p, i, volume, TRUE) = Snap(range, 10 * Round(p, 10))
  BY <1>3, <1>5, Zenon DEF ResolvePause
<1>7. 10 * Round(p, 10) = p
  BY <1>3, <1>4
<1> QED BY <1>6, <1>7, Zenon DEF Settles

\* A pour that is on the grid, laid over any other.
LEMMA LaidAgain ==
  ASSUME NEW q \in PourRecords, OnGrid(q), NEW pour \in PourRecords
  PROVE  /\ Overlay(q, pour).volume_ml = q.volume_ml
         /\ Settled(Overlay(q, pour), q.volume_ml, q.pause_s) = q
<1>1. /\ q.volume_ml # None /\ q.temperature_c # None /\ q.flow_rate # None
  BY RecipesAssumption DEF PourRecords
<1>2. /\ PourVolume(q, pour.volume_ml) = q.volume_ml
      /\ SnapOr(Fields.pour_temperature_c, q.temperature_c, pour.temperature_c) = q.temperature_c
      /\ SnapOr(Fields.pour_flow_rate, q.flow_rate, pour.flow_rate) = q.flow_rate
      /\ (IF q.pattern \in ValidPatterns THEN q.pattern ELSE pour.pattern) = q.pattern
      /\ (IF q.agitate_before = 1 THEN 1 ELSE 2) = q.agitate_before
      /\ (IF q.agitate_after = 1 THEN 1 ELSE 2) = q.agitate_after
  BY <1>1 DEF OnGrid, Settles, SnapOr, PourVolume, OrElse
<1> DEFINE l == Laid(pour, q.volume_ml, q.temperature_c, q.flow_rate, q.pattern,
                     q.agitate_before, q.agitate_after)
<1>3. Overlay(q, pour) = l
  BY <1>2, Zenon DEF Overlay, Laid
<1>4. /\ l.volume_ml = q.volume_ml /\ l.temperature_c = q.temperature_c
      /\ l.flow_rate = q.flow_rate /\ l.pattern = q.pattern
      /\ l.agitate_before = q.agitate_before /\ l.agitate_after = q.agitate_after
  BY LaidFields
<1>5. l \in PourRecords
  <2>1. /\ q.volume_ml \in Int /\ q.temperature_c \in Int /\ q.flow_rate \in Int
        /\ q.pattern \in Int /\ q.agitate_before \in Int /\ q.agitate_after \in Int
    BY DEF PourRecords
  <2> QED BY <2>1, LaidType
<1> HIDE DEF l
<1> DEFINE m == Settled(l, q.volume_ml, q.pause_s)
<1>6. m = [x \in DOMAIN l |-> IF x = "pause_s" THEN q.pause_s
                              ELSE IF x = "volume_ml" THEN q.volume_ml ELSE l[x]]
  <2>1. "pause_s" \in DOMAIN l /\ "volume_ml" \in DOMAIN l
    BY <1>5 DEF PourRecords
  <2> QED BY <2>1 DEF Settled
<1>7. DOMAIN l = DOMAIN q
      /\ DOMAIN q = {"volume_ml", "temperature_c", "flow_rate", "pattern", "pause_s",
                     "agitate_before", "agitate_after"}
  BY <1>5 DEF PourRecords
<1>8. q = [x \in DOMAIN q |-> q[x]]
  BY DEF PourRecords
<1>9. \A x \in DOMAIN q : m[x] = q[x]
  BY <1>4, <1>6, <1>7
<1>10. m = q
  <2>1. m = [x \in DOMAIN q |-> m[x]]
    BY <1>6, <1>7
  <2> HIDE DEF m
  <2> QED BY <1>8, <1>9, <2>1
<1> QED BY <1>3, <1>4, <1>10

LEMMA RebuiltPours ==
  ASSUME NEW r \in RecipeRecords, Laden(r), NEW fields, fields.pours = r.pours,
         \A i \in 1 .. r.pour_count :
           /\ Settles(Fields.pour_pause_s, r.pours[i].pause_s)
           /\ r.pours[i].pause_s \notin 1 .. MinPause - 1
  PROVE  BuildPours(fields, Water(r.dose_g, r.ratio), r.pour_count, TRUE) = r.pours
<1> DEFINE n == r.pour_count
           q == r.pours
           total == Water(r.dose_g, r.ratio)
           base == AutoFill(total, n)
           laid == [i \in 1 .. n |-> Overlay(q[i], base[i])]
           v == Volumes(q)
<1>1. /\ n \in Nat \ {0} /\ q \in [1 .. n -> PourRecords] /\ Total(v) = total
      /\ \A i \in 1 .. n : OnGrid(q[i])
  BY DEF Laden
<1>2. total \in Int
  <2>1. r.dose_g \in Int /\ r.ratio \in Int
    BY DEF RecipeRecords, Laden
  <2> QED BY <2>1, WaterType
<1>3. base \in [1 .. n -> PourRecords]
  BY <1>1, <1>2, AutoFillType
<1>4. fields.pours = q /\ q # <<>>
  BY <1>1
<1>5. BuildPours(fields, total, n, TRUE) =
        [i \in 1 .. n |-> Settled(laid[i], Redistribute(Volumes(laid), total)[i],
                                 ResolvePause(q[i].pause_s, i, Redistribute(Volumes(laid), total)[i], TRUE))]
  BY <1>4 DEF BuildPours, Settled
<1> HIDE DEF base, total
<1>6. \A i \in 1 .. n : /\ laid[i].volume_ml = q[i].volume_ml
                        /\ Settled(laid[i], q[i].volume_ml, q[i].pause_s) = q[i]
  BY <1>1, <1>3, LaidAgain
<1>7. Volumes(laid) = v /\ v \in [1 .. n -> Int]
  BY <1>1, <1>6 DEF Volumes, PourRecords
<1> HIDE DEF laid
<1>8. \A i \in 1 .. n : v[i] = q[i].volume_ml
  BY <1>1 DEF Volumes
<1>9. Redistribute(Volumes(laid), total) = v
  BY <1>1, <1>7, RedistributeKeeps
<1>10. \A i \in 1 .. n : ResolvePause(q[i].pause_s, i, v[i], TRUE) = q[i].pause_s
  BY PauseStays
<1> HIDE DEF v
<1>11. BuildPours(fields, total, n, TRUE) = [i \in 1 .. n |-> q[i]]
  BY <1>5, <1>6, <1>8, <1>9, <1>10
<1> QED BY <1>1, <1>11 DEF total

LEMMA SnapOrKeeps ==
  ASSUME NEW range, NEW v, Settles(range, v), NEW other
  PROVE  SnapOr(range, v, other) = v
BY RecipesAssumption DEF SnapOr, Settles

LEMMA Rebuilt ==
  ASSUME NEW r \in RecipeRecords, Made(r), Laden(r),
         \A i \in 1 .. r.pour_count :
           /\ Settles(Fields.pour_pause_s, r.pours[i].pause_s)
           /\ r.pours[i].pause_s \notin 1 .. MinPause - 1
  PROVE  BuildRecipe(FieldsOf(r), TRUE) = [r EXCEPT !.bypass_water_enabled = 1]
<1> DEFINE f == FieldsOf(r)
           n == r.pour_count
           total == Water(r.dose_g, r.ratio)
<1>1. /\ f.name = r.name /\ f.dose_g = r.dose_g /\ f.ratio = r.ratio /\ f.grind_size = r.grind_size
      /\ f.grinder_speed_rpm = r.grinder_speed_rpm /\ f.cup_type = r.cup_type /\ f.pours = r.pours
      /\ f.bypass_volume_ml = r.bypass_volume_ml /\ f.bypass_temp_c = r.bypass_temp_c
  BY Zenon DEF FieldsOf
<1>2. f.bypass_water_enabled = r.bypass_water_enabled
  BY Zenon DEF FieldsOf
<1> HIDE DEF f
<1>3. n \in Nat \ {0} /\ r.pours \in [1 .. n -> PourRecords]
  BY DEF Laden
<1>4. f.pours # <<>> /\ Len(f.pours) = n
  BY <1>1, <1>3
<1>5. r.ratio \in Int /\ SnapRatio(r.ratio, 1) = r.ratio /\ f.ratio \notin {None, Malformed}
  BY <1>1, SnapRatioKeeps, RecipesAssumption DEF Laden
<1>6. /\ f.cup_type \in ValidCups
      /\ SnapOr(DoseGrid(f.cup_type), f.dose_g, DoseGrid(f.cup_type).default) = r.dose_g
      /\ SnapOr(Fields.grind_size, f.grind_size, Fields.grind_size.default) = r.grind_size
      /\ SnapOr(Fields.grinder_speed_rpm, f.grinder_speed_rpm, Fields.grinder_speed_rpm.default)
           = r.grinder_speed_rpm
  BY <1>1, SnapOrKeeps DEF Made, DoseGrid
<1>7. BuildPours(f, total, n, TRUE) = r.pours
  BY <1>1, RebuiltPours
<1>8. Truthy(f.bypass_water_enabled)
  BY <1>2, RecipesAssumption DEF Truthy, Made
<1> DEFINE b == BuildRecipe(f, TRUE)
<1>9. /\ b.name = r.name /\ b.dose_g = r.dose_g /\ b.ratio = r.ratio
      /\ b.water_ratio = total
      /\ b.grind_size = r.grind_size /\ b.grinder_size = r.grind_size /\ b.grinder_size_enabled = 1
      /\ b.grinder_speed_rpm = r.grinder_speed_rpm /\ b.rpm = r.grinder_speed_rpm
      /\ b.pour_count = n /\ b.cup_type = r.cup_type
      /\ b.pours = r.pours
  BY <1>1, <1>4, <1>5, <1>6, <1>7 DEF BuildRecipe
<1>10. /\ b.bypass_water_enabled = 1
       /\ b.bypass_volume_ml = r.bypass_volume_ml
       /\ b.bypass_temp_c = r.bypass_temp_c
  BY <1>1, <1>8, Zenon DEF BuildRecipe
<1>11. /\ r.water_ratio = total /\ r.grinder_size = r.grind_size /\ r.rpm = r.grinder_speed_rpm
       /\ r.grinder_size_enabled = 1
  BY DEF Made, Laden
<1> DEFINE D == {"name", "dose_g", "ratio", "water_ratio", "grind_size", "grinder_size",
                 "grinder_size_enabled", "grinder_speed_rpm", "rpm", "pour_count", "cup_type",
                 "bypass_water_enabled", "bypass_volume_ml", "bypass_temp_c", "pours"}
<1>12. b = [x \in D |-> b[x]]
  BY DEF BuildRecipe
<1>13. r = [x \in D |-> r[x]]
  BY DEF RecipeRecords
<1> HIDE DEF b
<1> DEFINE e == [r EXCEPT !.bypass_water_enabled = 1]
<1>14. e = [x \in D |-> IF x = "bypass_water_enabled" THEN 1 ELSE r[x]]
  BY <1>13
<1>15. \A x \in D : b[x] = IF x = "bypass_water_enabled" THEN 1 ELSE r[x]
  BY <1>9, <1>10, <1>11
<1>16. b = e
  BY <1>12, <1>14, <1>15
<1> QED BY <1>16 DEF b, f

\* build, of the fields an editor reads from a built recipe: opening and saving
\* moves nothing of it but the bypass flag, which the bool() of recipe_build.py:356
\* turns on whether it was 1 or 2.
THEOREM RebuildingKeeps ==
  Spec => []BuildIsStable
<1>1. Inv /\ MadeInv => BuildIsStable
  <2> SUFFICES ASSUME Inv, MadeInv, origin \in {"built", "edited"}, errors = {},
                      ~ \E i \in DOMAIN recipe.pours : recipe.pours[i].pause_s \in 1 .. MinPause - 1
               PROVE  BuildRecipe(FieldsOf(recipe), TRUE)
                        = [recipe EXCEPT !.bypass_water_enabled = 1]
    BY DEF BuildIsStable
  <2>1. recipe \in RecipeRecords /\ Made(recipe) /\ errors = BuildErrors(recipe)
    BY DEF Inv, MadeInv, Kept
  <2>2. recipe.ratio # Malformed /\ Validate(recipe) = {}
    BY <2>1 DEF BuildErrors
  <2>3. Laden(recipe)
    BY <2>2 DEF MadeInv
  <2>4. /\ recipe.pours \in [1 .. recipe.pour_count -> PourRecords]
        /\ \A i \in 1 .. recipe.pour_count :
             PauseSettles(i, recipe.pours[i].volume_ml, recipe.pours[i].pause_s)
    BY <2>3 DEF Laden
  <2>5. ~ Faults(recipe).pause_s
    <3>1. Faults(recipe).pause_s => "pause_s" \in Validate(recipe)
      BY FaultsOf, Zenon DEF Validate
    <3> QED BY <2>2, <3>1
  <2>6. \A i \in 1 .. recipe.pour_count : InRange(Fields.pour_pause_s, recipe.pours[i].pause_s)
    <3>1. ~ Outside(Fields.pour_pause_s, PourValues(recipe, "pause_s"))
      BY <2>5, PourFaultsOf, Zenon
    <3>2. DOMAIN recipe.pours = 1 .. recipe.pour_count
      BY <2>4
    <3> QED BY <3>1, <3>2, Zenon DEF Outside, PourValues
  <2>7. \A i \in 1 .. recipe.pour_count : Settles(Fields.pour_pause_s, recipe.pours[i].pause_s)
    BY <2>4, <2>6 DEF PauseSettles, InRange, Fields, NumRange
  <2>8. \A i \in 1 .. recipe.pour_count : recipe.pours[i].pause_s \notin 1 .. MinPause - 1
    BY <2>4
  <2> QED BY <2>1, <2>3, <2>7, <2>8, Rebuilt
<1> QED BY <1>1, Invariant, MadeInvariant, PTL

-----------------------------------------------------------------------------
(* What an edit keeps *)

LEMMA RoundEitherNearest ==
  ASSUME NEW a \in Nat, NEW b \in Nat \ {0}
  PROVE  /\ RoundEither(a, b) \in Int
         /\ 2 * (b * RoundEither(a, b) - a) <= b /\ 2 * (a - b * RoundEither(a, b)) <= b
<1>1. CASE 2 * (a % b) = b
  <2> DEFINE q == a \div b
             m == a % b
             e == IF tieUp THEN 1 ELSE 0
  <2>1. q \in Nat /\ m \in 0 .. b - 1 /\ a = b * q + m /\ e \in {0, 1}
    BY DivMod
  <2>2. RoundEither(a, b) = q + e /\ 2 * m = b
    BY <1>1, Zenon DEF RoundEither
  <2> HIDE DEF q, m, e
  <2>3. b * (q + 1) = b * q + b /\ b * (q + 0) = b * q /\ b * q \in Int
    BY <2>1
  <2> QED BY <2>1, <2>2, <2>3
<1>2. CASE 2 * (a % b) # b
  <2>1. RoundEither(a, b) = Round(a, b)
    BY <1>2 DEF RoundEither
  <2> QED BY <2>1, RoundNearest
<1> QED BY <1>1, <1>2

\* x is within half of c of y.
Within(x, y, c) == 2 * (x - y) <= c /\ 2 * (y - x) <= c

LEMMA TotalOfSame ==
  ASSUME NEW n \in Nat, NEW c \in Int, NEW v \in [1 .. n -> Int], \A i \in 1 .. n : v[i] = c
  PROVE  Total(v) = c * n
<1> DEFINE one == [i \in 1 .. n |-> 1]
<1>1. one \in [1 .. n -> Int] /\ 1 .. n \in SUBSET (1 .. n)
      /\ \A i \in 1 .. n : one[i] = IF i \in 1 .. n THEN 1 ELSE 0
  OBVIOUS
<1>2. \A i \in 1 .. n : one[i] = 1
  OBVIOUS
<1> HIDE DEF one
<1>3. Total(one) = n
  <2>1. Cardinality(1 .. n) = n
    BY FS_Interval
  <2> QED BY <1>1, <2>1, TotalCounts
<1>4. Linear(n, c, one, 0, one, v)
  <2>1. \A i \in 1 .. n : v[i] = c * one[i] + 0 * one[i]
    BY <1>2
  <2> QED BY <1>1, <2>1 DEF Linear
<1>5. Total(v) = c * Total(one) + 0 * Total(one)
  BY <1>4, TotalLinear
<1> QED BY <1>3, <1>5

LEMMA Minus ==
  ASSUME NEW a \in Int, NEW b \in Int
  PROVE  (-a) * b = -(b * a) /\ b * a \in Int /\ a * b = b * a
OBVIOUS

AllWithin(m, e, c) == \A i \in 1 .. m : Within(e[i], 0, c)

\* What the last of some numbers makes up for when each other is within half of c.
LEMMA RestWithin ==
  ASSUME NEW n \in Nat \ {0}, NEW e \in [1 .. n -> Int], NEW c \in Nat, AllWithin(n - 1, e, c)
  PROVE  Within(Total(e), e[n], n * c)
<1> DEFINE d == -2 * e[n]
           last == [i \in 1 .. n |-> IF i \in {n} THEN 1 ELSE 0]
           rest == [i \in 1 .. n |-> IF i = n THEN 0 ELSE 2 * e[i]]
           most == [i \in 1 .. n |-> c]
           least == [i \in 1 .. n |-> -c]
<1>1. n \in 1 .. n /\ e[n] \in Int /\ d \in Int /\ Total(e) \in Int /\ 2 \in Int
  BY TotalType
<1>2. last \in [1 .. n -> Int] /\ \A i \in 1 .. n : last[i] = IF i = n THEN 1 ELSE 0
  OBVIOUS
<1>3. Total(last) = 1
  <2>1. {n} \in SUBSET (1 .. n) /\ \A i \in 1 .. n : last[i] = IF i \in {n} THEN 1 ELSE 0
    BY <1>1
  <2>2. Cardinality({n}) = 1
    BY FS_Singleton
  <2> HIDE DEF last
  <2> QED BY <1>2, <2>1, <2>2, TotalCounts
<1>4. rest \in [1 .. n -> Int] /\ \A i \in 1 .. n : rest[i] = IF i = n THEN 0 ELSE 2 * e[i]
  OBVIOUS
<1>5. Linear(n, 2, e, d, last, rest)
  <2>1. \A i \in 1 .. n : rest[i] = 2 * e[i] + d * last[i]
    <3> TAKE i \in 1 .. n
    <3>1. CASE i = n
      <4>1. rest[i] = 0 /\ last[i] = 1 /\ d = -2 * e[i] /\ e[i] \in Int
        BY <1>1, <1>2, <1>4, <3>1
      <4> HIDE DEF d, last, rest
      <4> QED BY <4>1
    <3>2. CASE i # n
      <4>1. rest[i] = 2 * e[i] /\ last[i] = 0 /\ e[i] \in Int
        BY <1>2, <1>4, <3>2
      <4> HIDE DEF d, last, rest
      <4> QED BY <1>1, <4>1
    <3> QED BY <3>1, <3>2
  <2> HIDE DEF d, last, rest
  <2> QED BY <1>1, <1>2, <1>4, <2>1 DEF Linear
<1>6. Total(rest) = 2 * Total(e) + d * 1
  <2> HIDE DEF d, last, rest
  <2> QED BY <1>3, <1>5, TotalLinear
<1>7. most \in [1 .. n -> Int] /\ least \in [1 .. n -> Int] /\ c \in Int /\ -c \in Int /\ n \in Nat
      /\ (\A i \in 1 .. n : most[i] = c) /\ \A i \in 1 .. n : least[i] = -c
  OBVIOUS
<1>8. \A i \in 1 .. n : least[i] <= rest[i] /\ rest[i] <= most[i]
  <2> TAKE i \in 1 .. n
  <2>1. CASE i = n
    BY <1>4, <1>7, <2>1
  <2>2. CASE i # n
    <3>1. Within(e[i], 0, c) /\ e[i] \in Int
      BY <2>2 DEF AllWithin
    <3>2. 2 * e[i] <= c /\ -c <= 2 * e[i]
      BY <3>1 DEF Within
    <3>3. rest[i] = 2 * e[i] /\ most[i] = c /\ least[i] = -c
      BY <1>4, <1>7, <2>2
    <3> HIDE DEF most, least, rest
    <3> QED BY <3>2, <3>3
  <2> QED BY <2>1, <2>2
<1> HIDE DEF most, least, rest, last
<1>9. Total(most) = c * n /\ Total(least) = (-c) * n
  BY <1>7, TotalOfSame
<1>10. Total(least) <= Total(rest) /\ Total(rest) <= Total(most)
  BY <1>4, <1>7, <1>8, TotalOrder
<1>11. (-c) * n = -(n * c) /\ c * n = n * c /\ n * c \in Int
  OBVIOUS
<1>12. Total(rest) = 2 * (Total(e) - e[n])
  BY <1>1, <1>6
<1> QED BY <1>1, <1>9, <1>10, <1>11, <1>12 DEF Within

\* redistribute_pours, when it moves the pours.
LEMMA SharedOut ==
  ASSUME NEW n \in Nat \ {0}, NEW v \in [1 .. n -> Nat], NEW t \in Nat,
         ~ (Abs(t - Total(v)) <= VolumeTolerance)
  PROVE  LET w == Redistribute(v, t) IN
         \A i \in 1 .. n :
           Within(w[i] * Total(v), v[i] * t, (IF i = n THEN n ELSE 1) * Total(v))
<1> DEFINE old == Total(v)
           w == Redistribute(v, t)
<1>1. v \in [1 .. n -> Int] /\ t \in Int /\ n \in 1 .. n
  OBVIOUS
<1>2. w \in [1 .. n -> Int] /\ old \in Int
  BY <1>1, RedistributeType, TotalType
<1>3. CASE old > 0
  <2> DEFINE u == [i \in 1 .. n |-> RoundEither(v[i] * t, old)]
             e == [i \in 1 .. n |-> old * u[i] + (-t) * v[i]]
  <2>1. w = WithDrift(u, t)
    BY <1>3 DEF Redistribute
  <2>2. \A i \in 1 .. n : u[i] \in Int /\ Within(old * u[i], v[i] * t, old)
    <3> TAKE i \in 1 .. n
    <3>1. v[i] * t \in Nat /\ old \in Nat \ {0}
      BY <1>2, <1>3
    <3> HIDE DEF old
    <3>2. u[i] = RoundEither(v[i] * t, old)
      OBVIOUS
    <3> DEFINE a == v[i] * t
    <3> HIDE DEF a, u
    <3>3. /\ RoundEither(a, old) \in Int
          /\ 2 * (old * RoundEither(a, old) - a) <= old /\ 2 * (a - old * RoundEither(a, old)) <= old
      BY <3>1, RoundEitherNearest DEF a
    <3> QED BY <3>2, <3>3 DEF Within, a
  <2>3. u \in [1 .. n -> Int]
    <3>1. u = [i \in 1 .. n |-> u[i]]
      OBVIOUS
    <3> HIDE DEF u
    <3> QED BY <2>2, <3>1
  <2> HIDE DEF u, w, old
  <2>4. /\ \A i \in 1 .. n - 1 : w[i] = u[i]
        /\ w[n] = u[n] + t - Total(u) /\ Total(u) \in Int
    <3>1. Total(u) \in Int
      BY <2>3, TotalType
    <3>2. /\ \A i \in 1 .. n - 1 : WithDrift(u, t)[i] = u[i]
          /\ WithDrift(u, t)[n] = u[n] + t - Total(u)
      BY <1>1, <2>3, DriftWhole
    <3> QED BY <2>1, <3>1, <3>2
  <2>5. e \in [1 .. n -> Int] /\ \A i \in 1 .. n : e[i] = old * u[i] + (-t) * v[i]
    BY <1>1, <1>2, <2>3
  <2>11. old \in Int /\ -t \in Int
    BY <1>2
  <2> HIDE DEF e
  <2>6. Linear(n, old, u, -t, v, e)
    BY <1>1, <2>3, <2>5, <2>11, Zenon DEF Linear
  <2>7. Total(e) = old * Total(u) + (-t) * old
    BY <2>6, TotalLinear DEF old
  <2>8. \A i \in 1 .. n : Within(e[i], 0, old)
    <3> TAKE i \in 1 .. n
    <3>1. e[i] = old * u[i] + (-t) * v[i] /\ Within(old * u[i], v[i] * t, old) /\ u[i] \in Int
      BY <2>2, <2>5
    <3>2. (-t) * v[i] = -(v[i] * t) /\ v[i] * t \in Int /\ old * u[i] \in Int
      <4>1. v[i] \in Int
        OBVIOUS
      <4> QED BY <1>1, <1>2, <3>1, <4>1, Minus
    <3> DEFINE x == old * u[i]
               y == v[i] * t
    <3>3. e[i] = x - y /\ x \in Int /\ y \in Int /\ Within(x, y, old)
      BY <3>1, <3>2
    <3> HIDE DEF x, y
    <3> QED BY <1>2, <3>3 DEF Within
  <2>9. Within(Total(e), e[n], n * old)
    <3>1. AllWithin(n - 1, e, old) /\ old \in Nat
      BY <1>2, <1>3, <2>8 DEF AllWithin
    <3> QED BY <2>5, <3>1, RestWithin
  <2>10. \A i \in 1 .. n : Within(w[i] * old, v[i] * t, (IF i = n THEN n ELSE 1) * old)
    <3> TAKE i \in 1 .. n
    <3>1. CASE i # n
      <4>1. w[i] = u[i] /\ Within(old * u[i], v[i] * t, old) /\ u[i] \in Int
        BY <2>2, <2>4, <3>1
      <4>2. w[i] * old = old * u[i] /\ 1 * old = old
        BY <1>2, <4>1
      <4> QED BY <3>1, <4>1, <4>2
    <3>2. CASE i = n
      <4> DEFINE x == w[n] * old
                 y == v[n] * t
                 f == Total(e)
                 g == e[n]
                 z == n * old
      <4>1. x \in Int /\ y \in Int /\ f \in Int /\ g \in Int /\ z \in Int
        BY <1>1, <1>2, <2>5, TotalType
      <4>2. x - y = g - f
        <5> DEFINE uu == u[n]
                   vv == v[n]
                   tu == Total(u)
        <5>1. uu \in Int /\ vv \in Int /\ tu \in Int /\ t \in Int /\ old \in Int
          BY <1>1, <1>2, <2>3, <2>4
        <5>2. x = (uu + t - tu) * old /\ y = vv * t /\ g = old * uu + (-t) * vv
              /\ f = old * tu + (-t) * old
          BY <1>1, <2>4, <2>5, <2>7
        <5> HIDE DEF uu, vv, tu, x, y, f, g
        <5> DEFINE a1 == old * uu
                   a2 == old * t
                   a3 == old * tu
                   a4 == vv * t
        <5>3. a1 \in Int /\ a2 \in Int /\ a3 \in Int /\ a4 \in Int
          BY <5>1
        <5>4. (uu + t - tu) * old = a1 + a2 - a3
          BY <5>1
        <5>5. (-t) * old = -a2 /\ (-t) * vv = -a4
          BY <5>1, Minus
        <5>6. x = a1 + a2 - a3 /\ y = a4 /\ g = a1 + (-a4) /\ f = a3 + (-a2)
          BY <5>2, <5>4, <5>5
        <5> HIDE DEF a1, a2, a3, a4
        <5> QED BY <5>3, <5>6
      <4>3. Within(f, g, z)
        BY <2>9
      <4> HIDE DEF x, y, f, g, z
      <4>4. Within(x, y, z)
        BY <4>1, <4>2, <4>3 DEF Within
      <4> QED BY <3>2, <4>4 DEF x, y, z
    <3> QED BY <3>1, <3>2
  <2> QED BY <2>10 DEF w, old
<1>4. CASE ~ (old > 0)
  <2>1. \A i \in 1 .. n : v[i] <= old
    BY TotalPart
  <2>2. \A i \in 1 .. n : v[i] = 0 /\ old = 0
    BY <1>2, <1>4, <2>1
  <2> HIDE DEF w, old
  <2>3. \A i \in 1 .. n : Within(w[i] * old, v[i] * t, (IF i = n THEN n ELSE 1) * old)
    <3> TAKE i \in 1 .. n
    <3>1. w[i] \in Int /\ v[i] = 0 /\ old = 0
      BY <1>2, <2>2
    <3>2. w[i] * old = 0 /\ v[i] * t = 0 /\ (IF i = n THEN n ELSE 1) * old = 0
      BY <3>1
    <3> QED BY <3>2 DEF Within
  <2> QED BY <2>3 DEF w, old
<1> QED BY <1>3, <1>4

\* A recipe with water in it, and none of it negative.
Watered(r) == r.pours # <<>> /\ \A i \in DOMAIN r.pours : r.pours[i].volume_ml \in Nat

WaterInv == recipe # None /\ errors = {} => Watered(recipe)

\* What EditKeepsShape says of a recipe and what it is edited to.
ShapeKept(f, r) ==
  LET old  == Volumes(f.pours)
      new  == Volumes(r.pours)
      n    == Len(new)
      moved == Abs(Total(new) - Total(old)) > VolumeTolerance
      off(i) == 2 * Abs(new[i] * Total(old) - old[i] * Total(new))
  IN  /\ Total(new) = Water(r.dose_g, r.ratio)
      /\ moved => \A i \in 1 .. n : off(i) <= (IF i = n THEN n ELSE 1) * Total(old)

LEMMA ValidIsWatered ==
  ASSUME NEW r \in RecipeRecords, Validate(r) = {}
  PROVE  Watered(r)
<1>1. ~ Faults(r).pour_count /\ ~ Faults(r).volume_ml
  BY FaultsOf, Zenon DEF Validate
<1>2. InRange(Fields.pour_count, 10 * r.pour_count) /\ Len(r.pours) = r.pour_count
  BY <1>1, FaultsOf
<1>3. r.pour_count \in Int /\ r.pours \in Seq(PourRecords)
  BY DEF RecipeRecords
<1>4. r.pour_count > 0
  BY <1>2, <1>3 DEF InRange, Fields, NumRange
<1>5. r.pours # <<>>
  BY <1>2, <1>3, <1>4
<1>6. RatioOk(r.ratio)
  BY ValidRatio
<1>7. ~ Outside(Fields.pour_volume_ml, PourValues(r, "volume_ml"))
  BY <1>1, <1>5, <1>6, PourFaultsOf, Zenon
<1>8. \A i \in DOMAIN r.pours : InRange(Fields.pour_volume_ml, r.pours[i].volume_ml)
  BY <1>7, Zenon DEF Outside, PourValues
<1>9. \A i \in DOMAIN r.pours : r.pours[i].volume_ml \in Int
  BY PoursOf
<1> QED BY <1>5, <1>8, <1>9 DEF Watered, InRange, Fields, NumRange

LEMMA ScaledIsWatered ==
  ASSUME NEW r \in RecipeRecords, Watered(r), NEW dose \in Nat, NEW ratio \in Nat, NEW grind \in Maybe(Int)
  PROVE  Watered(ScaleRecipe(r, dose, ratio, grind))
<1> DEFINE m == ScaleRecipe(r, dose, ratio, grind)
           current == Total(Volumes(r.pours))
<1>1. /\ m \in RecipeRecords /\ DOMAIN m.pours = DOMAIN r.pours
      /\ \A i \in DOMAIN r.pours :
           m.pours[i].volume_ml = ScaledVolume(r.pours[i].volume_ml, current, dose, ratio)
  BY ScaleType
<1>2. PICK n \in Nat : DOMAIN r.pours = 1 .. n /\ \A i \in 1 .. n : r.pours[i].volume_ml \in Int
  BY PoursOf
<1>3. current \in Int
  <2>1. Volumes(r.pours) \in [1 .. n -> Int]
    BY <1>2 DEF Volumes
  <2> QED BY <2>1, TotalType
<1> HIDE DEF m, current
<1>4. \A i \in DOMAIN r.pours : ScaledVolume(r.pours[i].volume_ml, current, dose, ratio) \in Nat
  <2> TAKE i \in DOMAIN r.pours
  <2> DEFINE v == r.pours[i].volume_ml
  <2>1. v \in Nat
    BY DEF Watered
  <2> HIDE DEF v
  <2>2. ASSUME current > 0 PROVE RoundEither(v * dose * ratio, 10 * current) \in Nat
    <3> DEFINE a == v * dose * ratio
               b == 10 * current
               k == RoundEither(a, b)
    <3>1. a \in Nat /\ b \in Nat \ {0}
      BY <1>3, <2>1, <2>2
    <3> HIDE DEF a, b
    <3>2. k \in Int /\ 2 * (b * k - a) <= b /\ 2 * (a - b * k) <= b
      BY <3>1, RoundEitherNearest
    <3> HIDE DEF k
    <3>3. ASSUME k < 0 PROVE FALSE
      <4>1. PICK j \in Nat : k = -1 - j
        BY <3>2, <3>3, -1 - k \in Nat
      <4>2. b * k = -b - b * j /\ b * j \in Nat
        BY <3>1, <4>1
      <4> QED BY <3>1, <3>2, <4>2
    <3> QED BY <3>2, <3>3 DEF k, a, b
  <2> QED BY <2>2 DEF ScaledVolume, v
<1>5. m.pours # <<>>
  <2>1. DOMAIN r.pours # {}
    <3>1. r.pours \in Seq(PourRecords) /\ r.pours # <<>>
      BY DEF RecipeRecords, Watered
    <3>2. Len(r.pours) \in Nat \ {0} /\ DOMAIN r.pours = 1 .. Len(r.pours)
      BY <3>1
    <3> DEFINE k == Len(r.pours)
    <3> HIDE DEF k
    <3>3. k \in Nat \ {0} /\ DOMAIN r.pours = 1 .. k
      BY <3>2 DEF k
    <3>4. 1 \in 1 .. k
      BY <3>3
    <3> QED BY <3>3, <3>4
  <2>2. DOMAIN <<>> = {}
    OBVIOUS
  <2> QED BY <1>1, <2>1, <2>2
<1> QED BY <1>1, <1>4, <1>5 DEF Watered, m

\* One case for each action that gives a recipe.
LEMMA WaterInvNext ==
  ASSUME Doses \subseteq Nat, Ratios \subseteq Nat
  PROVE  Inv /\ Inv' /\ WaterInv /\ [Next]_vars => WaterInv'
<1> SUFFICES ASSUME Inv, Inv', WaterInv, [Next]_vars PROVE WaterInv'
  OBVIOUS
<1>1. ASSUME NEW r, Kept(r), recipe' = r, errors' \in {Validate(r), BuildErrors(r)}
      PROVE  WaterInv'
  <2>1. errors' = {} => Validate(r) = {}
    BY <1>1 DEF BuildErrors
  <2>2. Validate(r) = {} => Watered(r)
    BY <1>1, ValidIsWatered DEF Kept
  <2> QED BY <1>1, <2>1, <2>2 DEF WaterInv
<1>2. ASSUME NEW fields \in LooseFields, NEW brewDefaults \in BOOLEAN, Build(fields, brewDefaults)
      PROVE  WaterInv'
  BY <1>1, <1>2, BuildKept, RecipesAssumption DEF Build, Obtain
<1>3. ASSUME NEW r \in Shared, Import(r) PROVE WaterInv'
  <2> DEFINE m == Normalize(r)
  <2>1. recipe' = m /\ errors' = Validate(m) /\ origin' = "imported"
    BY <1>3 DEF Import, Obtain
  <2> HIDE DEF m
  <2>2. Kept(m)
    BY <2>1 DEF Inv
  <2> QED BY <1>1, <2>1, <2>2
<1>4. ASSUME NEW dose \in Doses, NEW ratio \in Ratios, NEW kept \in BOOLEAN,
             Edit(dose, ratio, kept)
      PROVE  WaterInv'
  <2> DEFINE r == BuildRecipe(EditorFields(recipe, dose, ratio, kept), TRUE)
  <2>1. recipe' = r /\ errors' = BuildErrors(r) /\ origin' = "edited"
    BY <1>4 DEF Edit, Changes, Obtain
  <2> HIDE DEF r
  <2>2. Kept(r)
    BY <2>1 DEF Inv
  <2> QED BY <1>1, <2>1, <2>2
<1>5. ASSUME NEW dose \in Doses, NEW ratio \in Ratios, NEW grind \in {None, 500},
             Scale(dose, ratio, grind)
      PROVE  WaterInv'
  <2>1. recipe \in RecipeRecords /\ Watered(recipe)
    BY <1>5 DEF Scale, Changes, Inv, Kept, WaterInv
  <2>2. grind \in Maybe(Int) /\ dose \in Nat /\ ratio \in Nat
    BY DEF Maybe
  <2> DEFINE m == ScaleRecipe(recipe, dose, ratio, grind)
  <2>3. Watered(m)
    BY <2>1, <2>2, ScaledIsWatered
  <2>4. recipe' = m
    BY <1>5 DEF Scale, Obtain
  <2> HIDE DEF m
  <2> QED BY <2>3, <2>4 DEF WaterInv
<1>6. CASE Download
  <2> DEFINE r == Normalize(ParseRecipe(cloud))
  <2>1. recipe' = r /\ errors' = Validate(r) /\ origin' = "downloaded"
    BY <1>6 DEF Download, Obtain
  <2> HIDE DEF r
  <2>2. Kept(r)
    BY <2>1 DEF Inv
  <2> QED BY <1>1, <2>1, <2>2
<1>7. CASE Upload \/ Send \/ Take \/ UNCHANGED vars
  <2>1. recipe' = recipe /\ errors' = errors
    BY <1>7 DEF Upload, Send, Take, vars
  <2> QED BY <2>1 DEF WaterInv
<1> QED BY <1>2, <1>3, <1>4, <1>5, <1>6, <1>7 DEF Next

LEMMA EditShapes ==
  ASSUME NEW f \in RecipeRecords, Watered(f), NEW dose \in Int, NEW ratio \in Int,
         NEW kept \in BOOLEAN
  PROVE  ShapeKept(f, BuildRecipe(EditorFields(f, dose, ratio, kept), TRUE))
<1> DEFINE fields == EditorFields(f, dose, ratio, kept)
           r == BuildRecipe(fields, TRUE)
           v == Volumes(f.pours)
           t == Water(r.dose_g, r.ratio)
           w == Volumes(r.pours)
<1>1. fields \in LooseRecipes
  BY FieldsType
<1>2. fields.ratio = ratio /\ fields.pours = f.pours
  BY FieldsType
<1>3. Measured(f.pours)
  BY RecipesAssumption DEF Watered, Measured
<1> HIDE DEF fields
<1>4. /\ r \in RecipeRecords /\ r.ratio # Malformed /\ Made(r) /\ Laden(r)
      /\ Total(w) = t /\ w = Redistribute(v, t)
  BY <1>1, <1>2, <1>3, BuildType, BuildOnGrid
<1> HIDE DEF r
<1>5. t \in Nat
  <2>1. r.dose_g \in Int /\ r.ratio \in Int /\ r.dose_g >= 0 /\ r.ratio >= 0
    <3>1. r.cup_type \in ValidCups /\ InRange(CupDose[r.cup_type], r.dose_g) /\ r.dose_g \in Int
      BY <1>4, CupRange, SettlesIn DEF Made, Settles
    <3>2. \A cup \in ValidCups : CupDose[cup].min \in Nat
      BY DEF ValidCups, CupDose, NumRange
    <3>3. r.dose_g >= 0
      BY <3>1, <3>2 DEF InRange
    <3>4. r.ratio \in Int /\ r.ratio >= 0
      BY <1>4 DEF Laden, RatioOk, InRange, RatioDenom, NumRange
    <3> QED BY <3>1, <3>3, <3>4
  <2>2. r.dose_g * r.ratio \in Nat /\ 10 \in Nat \ {0}
    BY <2>1
  <2> QED BY <2>2, RoundNearest DEF Water
<1>6. PICK n \in Nat \ {0} : v \in [1 .. n -> Nat]
  <2>1. PICK n \in Nat : DOMAIN f.pours = 1 .. n
    BY PoursOf
  <2>2. f.pours \in Seq(PourRecords) /\ f.pours # <<>>
    BY DEF RecipeRecords, Watered
  <2>3. n # 0
    <3>1. Len(f.pours) \in Nat \ {0} /\ DOMAIN f.pours = 1 .. Len(f.pours)
      BY <2>2
    <3> QED BY <2>1, <3>1
  <2>4. v \in [1 .. n -> Nat]
    BY <2>1 DEF Volumes, Watered
  <2> QED BY <2>1, <2>3, <2>4
<1> HIDE DEF v, t, w
<1>7. v \in [1 .. n -> Int] /\ t \in Int
  BY <1>5, <1>6
<1>8. w \in [1 .. n -> Int] /\ Len(w) = n
  BY <1>4, <1>7, RedistributeType
<1>9. Total(v) \in Int
  BY <1>7, TotalType
<1>10. ASSUME Abs(Total(w) - Total(v)) > VolumeTolerance, NEW i \in 1 .. n
       PROVE  2 * Abs(w[i] * Total(v) - v[i] * Total(w)) <= (IF i = n THEN n ELSE 1) * Total(v)
  <2>1. ~ (Abs(t - Total(v)) <= VolumeTolerance)
    BY <1>4, <1>5, <1>9, <1>10 DEF Abs, VolumeTolerance
  <2> DEFINE x == w[i] * Total(v)
             y == v[i] * t
             c == (IF i = n THEN n ELSE 1) * Total(v)
  <2>2. Within(x, y, c)
    BY <1>4, <1>5, <1>6, <2>1, SharedOut
  <2>3. x \in Int /\ y \in Int /\ c \in Int
    <3>1. w[i] \in Int /\ v[i] \in Int /\ (IF i = n THEN n ELSE 1) \in Int
      BY <1>7, <1>8
    <3> QED BY <1>7, <1>9, <3>1
  <2> HIDE DEF x, y, c
  <2>4. 2 * Abs(x - y) <= c
    BY <2>2, <2>3 DEF Within, Abs
  <2> QED BY <1>4, <2>4 DEF x, y, c
<1>11. Total(w) = Water(r.dose_g, r.ratio)
  BY <1>4 DEF t
<1>12. ShapeKept(f, r)
  BY <1>8, <1>10, <1>11 DEF ShapeKept, v, w
<1> QED BY <1>12 DEF r, fields

\* build, of an edited recipe: the water is that of the new dose and ratio, and each
\* pour its share of it.  The weights and ratios a recipe is scaled to, which
\* scale_recipe does not check, are not negative.
THEOREM EditingKeepsShape ==
  ASSUME Doses \subseteq Nat, Ratios \subseteq Nat
  PROVE  Spec => []EditKeepsShape
<1>1. Init => WaterInv /\ EditKeepsShape
  BY DEF Init, WaterInv, EditKeepsShape
<1>2. Inv /\ Inv' /\ WaterInv /\ [Next]_vars => WaterInv'
  BY WaterInvNext
<1>3. Inv /\ WaterInv /\ EditKeepsShape /\ [Next]_vars => EditKeepsShape'
  <2> DEFINE Shape == origin = "edited" => ShapeKept(former, recipe)
  <2> SUFFICES ASSUME Inv, WaterInv, Shape, [Next]_vars PROVE Shape'
    BY DEF EditKeepsShape, ShapeKept
  <2>1. ASSUME NEW dose \in Doses, NEW ratio \in Ratios, NEW kept \in BOOLEAN,
             Edit(dose, ratio, kept)
      PROVE  Shape'
    <3> DEFINE r == BuildRecipe(EditorFields(recipe, dose, ratio, kept), TRUE)
    <3>1. recipe \in RecipeRecords /\ Watered(recipe) /\ dose \in Int /\ ratio \in Int
      BY <2>1, RecipesAssumption DEF Edit, Changes, Inv, Kept, WaterInv
    <3>2. ShapeKept(recipe, r)
      BY <3>1, EditShapes
    <3>3. recipe' = r /\ former' = recipe
      BY <2>1 DEF Edit, Changes, Obtain
    <3> HIDE DEF r
    <3> QED BY <3>2, <3>3
  <2>2. CASE ~ \E dose \in Doses, ratio \in Ratios, kept \in BOOLEAN : Edit(dose, ratio, kept)
    <3>1. origin' # "edited" \/ (origin' = origin /\ former' = former /\ recipe' = recipe)
      BY <2>2 DEF Next, vars, Build, Import, Scale, Changes, Upload, Download, Send, Take, Obtain
    <3> QED BY <3>1
  <2> QED BY <2>1, <2>2
<1> QED BY <1>1, <1>2, <1>3, Invariant, PTL DEF Spec

-----------------------------------------------------------------------------
(* What fits a blob *)

FitDoses == 10 .. 1270
FitTemperatures == 200 .. 980

Fitting(r) ==
  /\ r.dose_g \in FitDoses
  /\ Len(r.pours) \in FitCounts
  /\ \A i \in DOMAIN r.pours : r.pours[i].temperature_c \in FitTemperatures

FitInv == recipe # None /\ errors = {} => Fitting(recipe)

LEMMA FittingFits ==
  ASSUME NEW r \in RecipeRecords, Fitting(r)
  PROVE  LET blob == RecipeBlob(r) IN Encodes(r) /\ blob.length = Bytes(blob.steps)
<1> DEFINE grinder == IF UsesGrinder(r) THEN r.grinder_size \div 10 ELSE 0
           rpm == IF UsesGrinder(r) THEN r.rpm \div 10 ELSE 0
           blob == EncodeBlob(r.pours, grinder, r.dose_g, rpm)
           n == Len(r.pours)
<1>1. RecipeBlob(r) = blob
  BY DEF RecipeBlob
<1> HIDE DEF grinder, rpm
<1>2. r.pours \in Seq(PourRecords)
  BY DEF RecipeRecords
<1>3. n \in FitCounts /\ DOMAIN r.pours = 1 .. n /\ \A i \in 1 .. n : r.pours[i].volume_ml \in Int
  <2>1. DOMAIN r.pours = 1 .. n /\ \A i \in 1 .. n : r.pours[i] \in PourRecords
    BY <1>2
  <2>2. n \in FitCounts
    BY DEF Fitting
  <2> HIDE DEF n
  <2> QED BY <2>1, <2>2 DEF PourRecords
<1>4. Round(r.dose_g, 10) \in FitGrams
  <2>1. \A d \in FitDoses : Round(d, 10) \in FitGrams
    BY DEF Round, FitDoses, FitGrams
  <2> QED BY <2>1 DEF Fitting
<1>5. Encodes(r)
  <2>1. \A t \in FitTemperatures : IntPart(t) \in 0 .. 255
    BY DEF IntPart, FitTemperatures
  <2> QED BY <2>1 DEF Encodes, Fitting
<1> HIDE DEF n
<1>7. blob.length = Bytes(blob.steps)
  <2> DEFINE pours == r.pours
             dose == r.dose_g
  <2>1. n \in FitCounts /\ DOMAIN pours = 1 .. n /\ \A i \in 1 .. n : pours[i].volume_ml \in Int
    BY <1>3
  <2>2. Round(dose, 10) \in FitGrams
    BY <1>4
  <2> HIDE DEF pours, dose
  <2>3. LET b == EncodeBlob(pours, grinder, dose, rpm) IN b.length = Bytes(b.steps)
    BY <2>1, <2>2, BlobLength
  <2> QED BY <2>3 DEF pours, dose
<1> QED BY <1>1, <1>5, <1>7

LEMMA ValidIsFitting ==
  ASSUME NEW r \in RecipeRecords, Validate(r) = {}
  PROVE  Fitting(r)
<1>1. ~ Faults(r).pour_count /\ ~ Faults(r).dose_g /\ ~ Faults(r).temperature_c
  BY FaultsOf, PourFaultsOf, Zenon DEF Validate
<1>2. InRange(Fields.pour_count, 10 * r.pour_count) /\ Len(r.pours) = r.pour_count
  BY <1>1, FaultsOf
<1>3. r.pour_count \in Int /\ r.dose_g \in Int /\ r.pours \in Seq(PourRecords)
  BY DEF RecipeRecords
<1>4. Len(r.pours) \in FitCounts
  <2>1. \A k \in Int : InRange(Fields.pour_count, 10 * k) => k \in FitCounts
    BY DEF InRange, Fields, NumRange, FitCounts
  <2> QED BY <1>2, <1>3, <2>1, Zenon
<1>5. r.dose_g \in FitDoses
  <2> DEFINE range == DoseRange(r.cup_type)
  <2>1. range.min \in Int /\ range.max \in Int /\ 10 <= range.min /\ range.max <= 250
    <3>1. CASE r.cup_type \in ValidCups
      <4>1. r.cup_type \in {1, 2, 3, 4}
        BY <3>1 DEF ValidCups
      <4>2. range = CupDose[r.cup_type]
        BY <3>1 DEF DoseRange
      <4> HIDE DEF range
      <4> QED BY <4>1, <4>2 DEF CupDose, NumRange
    <3>2. CASE r.cup_type \notin ValidCups
      BY <3>2 DEF DoseRange, NumRange
    <3> QED BY <3>1, <3>2
  <2>2. InRange(range, r.dose_g)
    BY <1>1, FaultsOf
  <2> HIDE DEF range
  <2>3. range.min <= r.dose_g /\ r.dose_g <= range.max
    BY <2>2, Zenon DEF InRange
  <2>4. \A lo, hi, d \in Int : 10 <= lo /\ lo <= d /\ d <= hi /\ hi <= 250 => d \in FitDoses
    BY DEF FitDoses
  <2> QED BY <1>3, <2>1, <2>3, <2>4
<1>6. \A i \in DOMAIN r.pours : InRange(Fields.pour_temperature_c, r.pours[i].temperature_c)
  <2>1. ~ Outside(Fields.pour_temperature_c, PourValues(r, "temperature_c"))
    BY <1>1, PourFaultsOf, Zenon
  <2> QED BY <2>1, Zenon DEF Outside, PourValues
<1>7. \A i \in DOMAIN r.pours : r.pours[i].temperature_c \in Int
  <2>1. \A i \in DOMAIN r.pours : r.pours[i] \in PourRecords
    BY <1>3
  <2> QED BY <2>1 DEF PourRecords
<1>8. \A t \in Int : InRange(Fields.pour_temperature_c, t) => t \in FitTemperatures
  BY DEF InRange, Fields, NumRange, FitTemperatures
<1> QED BY <1>4, <1>5, <1>6, <1>7, <1>8, Zenon DEF Fitting

LEMMA ScaledIsFitting ==
  ASSUME NEW r \in RecipeRecords, Fitting(r), NEW dose \in Int, dose \in FitDoses, NEW ratio \in Int,
         NEW grind \in Maybe(Int)
  PROVE  Fitting(ScaleRecipe(r, dose, ratio, grind))
<1> DEFINE m == ScaleRecipe(r, dose, ratio, grind)
<1>1. /\ m \in RecipeRecords /\ DOMAIN m.pours = DOMAIN r.pours /\ m.dose_g = dose
      /\ \A i \in DOMAIN r.pours : m.pours[i].temperature_c = r.pours[i].temperature_c
  <2>1. /\ m \in RecipeRecords /\ DOMAIN m.pours = DOMAIN r.pours /\ m.dose_g = dose
        /\ \A i \in DOMAIN r.pours :
             /\ m.pours[i].volume_ml
                  = ScaledVolume(r.pours[i].volume_ml, Total(Volumes(r.pours)), dose, ratio)
             /\ m.pours[i].temperature_c = r.pours[i].temperature_c
    BY ScaleType
  <2> QED BY <2>1, Zenon
<1> HIDE DEF m
<1>2. Len(m.pours) = Len(r.pours)
  <2>1. m.pours \in Seq(PourRecords) /\ r.pours \in Seq(PourRecords)
    BY <1>1 DEF RecipeRecords
  <2>2. /\ Len(m.pours) \in Nat /\ DOMAIN m.pours = 1 .. Len(m.pours)
        /\ Len(r.pours) \in Nat /\ DOMAIN r.pours = 1 .. Len(r.pours)
    BY <2>1
  <2>3. \A j, k \in Nat : 1 .. j = 1 .. k => j = k
    <3> SUFFICES ASSUME NEW j \in Nat, NEW k \in Nat, 1 .. j = 1 .. k, j < k PROVE FALSE
      OBVIOUS
    <3>1. k \in 1 .. k /\ k \notin 1 .. j
      OBVIOUS
    <3> QED BY <3>1
  <2> QED BY <1>1, <2>2, <2>3, Zenon
<1> QED BY <1>1, <1>2, Zenon DEF Fitting, m

LEMMA FitInvNext ==
  ASSUME Doses \subseteq FitDoses
  PROVE  Inv /\ Inv' /\ FitInv /\ [Next]_vars => FitInv'
<1> SUFFICES ASSUME Inv, Inv', FitInv, [Next]_vars PROVE FitInv'
  OBVIOUS
<1>1. ASSUME NEW r, Kept(r), recipe' = r, errors' \in {Validate(r), BuildErrors(r)}
      PROVE  FitInv'
  <2>1. errors' = {} => Validate(r) = {}
    BY <1>1 DEF BuildErrors
  <2>2. Validate(r) = {} => Fitting(r)
    BY <1>1, ValidIsFitting DEF Kept
  <2> QED BY <1>1, <2>1, <2>2 DEF FitInv
<1>2. ASSUME NEW fields \in LooseFields, NEW brewDefaults \in BOOLEAN, Build(fields, brewDefaults)
      PROVE  FitInv'
  BY <1>1, <1>2, BuildKept, RecipesAssumption DEF Build, Obtain
<1>3. ASSUME NEW r \in Shared, Import(r) PROVE FitInv'
  <2> DEFINE m == Normalize(r)
  <2>1. recipe' = m /\ errors' = Validate(m) /\ origin' = "imported"
    BY <1>3 DEF Import, Obtain
  <2> HIDE DEF m
  <2>2. Kept(m)
    BY <2>1 DEF Inv
  <2> QED BY <1>1, <2>1, <2>2
<1>4. ASSUME NEW dose \in Doses, NEW ratio \in Ratios, NEW kept \in BOOLEAN,
             Edit(dose, ratio, kept)
      PROVE  FitInv'
  <2> DEFINE r == BuildRecipe(EditorFields(recipe, dose, ratio, kept), TRUE)
  <2>1. recipe' = r /\ errors' = BuildErrors(r) /\ origin' = "edited"
    BY <1>4 DEF Edit, Changes, Obtain
  <2> HIDE DEF r
  <2>2. Kept(r)
    BY <2>1 DEF Inv
  <2> QED BY <1>1, <2>1, <2>2
<1>5. ASSUME NEW dose \in Doses, NEW ratio \in Ratios, NEW grind \in {None, 500},
             Scale(dose, ratio, grind)
      PROVE  FitInv'
  <2>1. recipe \in RecipeRecords /\ Fitting(recipe)
    BY <1>5 DEF Scale, Changes, Inv, Kept, FitInv
  <2>2. grind \in Maybe(Int) /\ dose \in Int /\ dose \in FitDoses /\ ratio \in Int
    BY RecipesAssumption DEF Maybe
  <2> DEFINE m == ScaleRecipe(recipe, dose, ratio, grind)
  <2>3. Fitting(m)
    BY <2>1, <2>2, ScaledIsFitting
  <2>4. recipe' = m
    BY <1>5 DEF Scale, Obtain
  <2> HIDE DEF m
  <2> QED BY <2>3, <2>4 DEF FitInv
<1>6. CASE Download
  <2> DEFINE r == Normalize(ParseRecipe(cloud))
  <2>1. recipe' = r /\ errors' = Validate(r) /\ origin' = "downloaded"
    BY <1>6 DEF Download, Obtain
  <2> HIDE DEF r
  <2>2. Kept(r)
    BY <2>1 DEF Inv
  <2> QED BY <1>1, <2>1, <2>2
<1>7. CASE Upload \/ Send \/ Take \/ UNCHANGED vars
  <2>1. recipe' = recipe /\ errors' = errors
    BY <1>7 DEF Upload, Send, Take, vars
  <2> QED BY <2>1 DEF FitInv
<1> QED BY <1>2, <1>3, <1>4, <1>5, <1>6, <1>7 DEF Next

\* No part of a pour of the frames is too long.
InChunks(f) == \A i \in DOMAIN f.blob.steps : \A v \in Range(f.blob.steps[i].chunks) : v \in 0 .. 127

LEMMA SentInChunks ==
  ASSUME NEW r \in RecipeRecords
  PROVE  InChunks(BrewFrames(r))
<1> DEFINE grinder == IF UsesGrinder(r) THEN r.grinder_size \div 10 ELSE 0
           rpm == IF UsesGrinder(r) THEN r.rpm \div 10 ELSE 0
           blob == EncodeBlob(r.pours, grinder, r.dose_g, rpm)
<1>1. BrewFrames(r).blob = blob
  BY DEF BrewFrames, RecipeBlob
<1>2. r.dose_g \in Int
  BY PoursOf
<1>3. PICK n \in Nat : DOMAIN r.pours = 1 .. n /\ \A i \in 1 .. n : r.pours[i].volume_ml \in Int
  BY PoursOf
<1> HIDE DEF grinder, rpm
<1>4. \A i \in DOMAIN blob.steps : \A v \in Range(blob.steps[i].chunks) : v \in 0 .. 127
  BY <1>2, <1>3, BlobInChunks
<1> HIDE DEF blob
<1> QED BY <1>1, <1>4, Zenon DEF InChunks

\* encode_recipe_blob: a recipe without faults, however it was scaled, has a blob
\* whose length byte does not wrap and whose temperatures are bytes, and no blob has a
\* part of a pour above 127 ml.  The doses a recipe is scaled to, which
\* scale_recipe does not check, are from 1 to 127 grams.
THEOREM RecipesFit ==
  ASSUME Doses \subseteq FitDoses
  PROVE  Spec => []BlobFits
<1> DEFINE Sent == frames # None => InChunks(frames)
<1>1. Init => FitInv /\ Sent
  BY DEF Init, FitInv
<1>2. Inv /\ Inv' /\ FitInv /\ [Next]_vars => FitInv'
  BY FitInvNext
<1>3. Inv /\ Sent /\ [Next]_vars => Sent'
  <2> SUFFICES ASSUME Inv, Sent, [Next]_vars PROVE Sent'
    OBVIOUS
  <2>1. CASE Send
    <3>1. recipe \in RecipeRecords /\ frames' = BrewFrames(recipe)
      BY <2>1 DEF Send, Inv, Kept
    <3> QED BY <3>1, SentInChunks
  <2>2. CASE ~ Send
    <3>1. frames' = frames
      BY <2>2 DEF Next, vars, Build, Import, Edit, Scale, Changes, Upload, Download, Take
    <3> QED BY <3>1
  <2> QED BY <2>1, <2>2
<1>4. Inv /\ FitInv /\ Sent => BlobFits
  <2> SUFFICES ASSUME Inv, FitInv, Sent PROVE BlobFits
    OBVIOUS
  <2>1. ASSUME recipe # None, errors = {}
        PROVE  LET blob == RecipeBlob(recipe) IN Encodes(recipe) /\ blob.length = Bytes(blob.steps)
    <3>1. recipe \in RecipeRecords /\ Fitting(recipe)
      BY <2>1 DEF Inv, Kept, FitInv
    <3> QED BY <3>1, FittingFits
  <2> QED BY <2>1, Zenon DEF BlobFits, InChunks
<1> QED BY <1>1, <1>2, <1>3, <1>4, Invariant, PTL DEF Spec
=============================================================================
