----------------------------- MODULE RecipeBuild -----------------------------
(***************************************************************************)
(* The functions a recipe goes through: build from loose fields, normalise *)
(* after a download, validate, scale for one brew, and map to and from the *)
(* cloud.  Wording, names and labels are left out: name is whether there   *)
(* is one, and a cup or a pattern is its number, whatever it was given as. *)
(***************************************************************************)
EXTENDS RecipeGate

CONSTANT Malformed  \* a ratio that is text, and not "1:N"

-----------------------------------------------------------------------------
(* Recipes *)

Maybe(values) == values \union {None}

\* Pour, of models.
PourRecords ==
  [volume_ml : Int, temperature_c : Int, flow_rate : Int, pattern : Int, pause_s : Int,
   agitate_before : Int, agitate_after : Int]

\* Recipe, of models, and what the host adds to it.
RecipeRecords ==
  [name : BOOLEAN, dose_g : Int, ratio : Maybe(Int) \union {Malformed}, water_ratio : Maybe(Int),
   grind_size : Maybe(Int), grinder_size : Maybe(Int), grinder_size_enabled : Int,
   grinder_speed_rpm : Maybe(Int), rpm : Maybe(Int), pour_count : Int, cup_type : Int,
   bypass_water_enabled : Int, bypass_volume_ml : Maybe(Int), bypass_temp_c : Maybe(Int),
   pours : Seq(PourRecords)]

\* What build may be given: any of it may be missing, and a Boolean is 0 or 1.
LoosePours ==
  [volume_ml : Maybe(Int), temperature_c : Maybe(Int), flow_rate : Maybe(Int), pattern : Maybe(Int),
   pause_s : Maybe(Int), agitate_before : Maybe(Int), agitate_after : Maybe(Int)]

LooseRecipes ==
  [name : BOOLEAN, dose_g : Maybe(Int), ratio : Maybe(Int) \union {Malformed},
   grind_size : Maybe(Int), grinder_speed_rpm : Maybe(Int), cup_type : Maybe(Int),
   pour_count : Maybe(Int), pours : Seq(LoosePours), bypass_water_enabled : Maybe(Int),
   bypass_volume_ml : Maybe(Int), bypass_temp_c : Maybe(Int)]

-----------------------------------------------------------------------------
(* Helpers *)

Abs(n) == IF n < 0 THEN -n ELSE n
Greater(m, n) == IF m > n THEN m ELSE n

Volumes(pours) == [i \in DOMAIN pours |-> pours[i].volume_ml]

\* Dose times ratio, to a tenth of a millilitre.
Water(dose, ratio) == Round(dose * ratio, 10)

-----------------------------------------------------------------------------
(* recipe_validate *)

\* num / den is the denominator before it is clamped and put on the grid.
SnapRatio(num, den) ==
  IF num <= RatioDenom.min * den THEN RatioDenom.min
  ELSE IF num >= RatioDenom.max * den THEN RatioDenom.max
  ELSE RatioDenom.min + RatioDenom.step * Round(num - RatioDenom.min * den, RatioDenom.step * den)

\* water_ratio is the denominator or, above 25, the water.
GuessRatio(recipe) ==
  LET water == recipe.water_ratio
      dose  == recipe.dose_g
  IN  IF water = None \/ water <= 0 THEN RatioDenom.default
      ELSE IF water <= RatioDenom.max THEN SnapRatio(water, 1)
      ELSE IF dose > 0 THEN SnapRatio(10 * water, dose)
      ELSE RatioDenom.default

OrElse(v, other) == IF v = None THEN other ELSE v

Normalize(recipe) ==
  [recipe EXCEPT
     !.ratio = IF @ = None THEN GuessRatio(recipe)
               ELSE IF @ = Malformed THEN @ ELSE SnapRatio(@, 1),
     !.grind_size = OrElse(@, recipe.grinder_size),
     !.grinder_speed_rpm = OrElse(@, recipe.rpm)]

\* The widest window over the cups, for a cup that is none of them.
DoseRange(cup) == IF cup \in ValidCups THEN CupDose[cup] ELSE NumRange(10, 250, 5, 0)

RatioOk(ratio) ==
  ratio # Malformed /\ InRange(RatioDenom, ratio) /\ ratio % RatioDenom.step = 0

PourValues(recipe, field) == {recipe.pours[i][field] : i \in DOMAIN recipe.pours}

\* The errors by field, those of the pours without their index.
Faults(recipe) ==
  LET pours   == recipe.pours
      summed  == RatioOk(recipe.ratio) /\ pours # <<>>
      bypass  == recipe.bypass_water_enabled = 1
  IN  [name       |-> ~recipe.name,
       dose_g     |-> ~InRange(DoseRange(recipe.cup_type), recipe.dose_g),
       ratio      |-> ~RatioOk(recipe.ratio),
       grind_size |-> ~InRange(Fields.grind_size, recipe.grind_size),
       grinder_speed_rpm |->
         ~InRange(Fields.grinder_speed_rpm, recipe.grinder_speed_rpm)
           \/ recipe.grinder_speed_rpm % Fields.grinder_speed_rpm.step # 0,
       cup_type   |-> recipe.cup_type \notin ValidCups,
       pour_count |-> ~InRange(Fields.pour_count, 10 * recipe.pour_count)
                        \/ Len(pours) # recipe.pour_count,
       temperature_c |-> \E v \in PourValues(recipe, "temperature_c") :
                          ~InRange(Fields.pour_temperature_c, v),
       flow_rate  |-> \E v \in PourValues(recipe, "flow_rate") : ~InRange(Fields.pour_flow_rate, v),
       pause_s    |-> \E v \in PourValues(recipe, "pause_s") : ~InRange(Fields.pour_pause_s, v),
       pattern    |-> \E v \in PourValues(recipe, "pattern") : v \notin ValidPatterns,
       pours      |-> summed /\ VolumeTolerance <
                        Abs(Total(Volumes(pours)) - Water(recipe.dose_g, recipe.ratio)),
       volume_ml  |-> summed /\
         \E v \in PourValues(recipe, "volume_ml") : ~InRange(Fields.pour_volume_ml, v),
       bypass_volume_ml |-> bypass /\ recipe.bypass_volume_ml = None,
       bypass_temp_c    |-> bypass /\ recipe.bypass_temp_c = None]

Validate(recipe) == LET faults == Faults(recipe) IN {f \in DOMAIN faults : faults[f]}

-----------------------------------------------------------------------------
(* recipe_build *)

\* Faulty variant: the total is what rounding makes it.
NoDrift(volumes, total) == volumes

\* The rounding error goes to the last pour.
WithDrift(volumes, total) ==
  [volumes EXCEPT ![Len(volumes)] = @ + total - Total(volumes)]

\* auto_fill_pours
AutoFill(total, n) ==
  LET volumes == WithDrift([i \in 1 .. n |-> RoundEither(total, n)], total)
  IN  [i \in 1 .. n |->
        [volume_ml |-> volumes[i],
         temperature_c |-> Greater(Fields.pour_temperature_c.min, 930 - 10 * i),
         pattern |-> Spiral, flow_rate |-> Fields.pour_flow_rate.default, pause_s |-> 0,
         agitate_before |-> 2, agitate_after |-> 2]]

\* redistribute_pours
Redistribute(volumes, total) ==
  LET old == Total(volumes)
  IN  WithDrift(
        IF Abs(total - old) <= VolumeTolerance THEN volumes
        ELSE IF old > 0 THEN [i \in DOMAIN volumes |-> RoundEither(volumes[i] * total, old)]
        ELSE [i \in DOMAIN volumes |-> RoundEither(total, Len(volumes))],
        total)

MinPause == 100

\* What completes a minute, at 3 ml/s.
BloomPause(volume) == Greater(MinPause, 10 * Round(1800 - volume, 30))

ResolvePause(raw, i, volume, brewDefaults) ==
  IF raw = None
  THEN IF ~brewDefaults THEN 0 ELSE IF i = 1 THEN BloomPause(volume) ELSE MinPause
  ELSE IF brewDefaults /\ Round(raw, 10) > 0 /\ 10 * Round(raw, 10) < MinPause
       THEN MinPause
       ELSE Snap(Fields.pour_pause_s, 10 * Round(raw, 10))

SnapOr(range, v, other) == IF v = None THEN other ELSE Snap(range, v)

\* Faulty variant: a supplied volume is put on the grid of the volumes.
SnapVolume(raw, other) == SnapOr(Fields.pour_volume_ml, raw.volume_ml, other)

\* The volumes are moved to their total instead.
PourVolume(raw, other) == OrElse(raw.volume_ml, other)

\* A pour but for its pause: what was supplied over what auto_fill_pours gave.
Overlay(raw, pour) ==
  [pour EXCEPT
     !.volume_ml = PourVolume(raw, @),
     !.temperature_c = SnapOr(Fields.pour_temperature_c, raw.temperature_c, @),
     !.flow_rate = SnapOr(Fields.pour_flow_rate, raw.flow_rate, @),
     !.pattern = IF raw.pattern \in ValidPatterns THEN raw.pattern ELSE @,
     !.agitate_before = IF raw.agitate_before = 1 THEN 1 ELSE 2,
     !.agitate_after = IF raw.agitate_after = 1 THEN 1 ELSE 2]

BuildPours(fields, total, n, brewDefaults) ==
  LET base == AutoFill(total, n)
      laid == IF fields.pours = <<>> THEN base
              ELSE [i \in 1 .. n |-> Overlay(fields.pours[i], base[i])]
      volumes == Redistribute(Volumes(laid), total)
      pause(i) == IF fields.pours = <<>> THEN None ELSE fields.pours[i].pause_s
  IN  [i \in 1 .. n |->
        [laid[i] EXCEPT !.volume_ml = volumes[i],
                        !.pause_s = ResolvePause(pause(i), i, volumes[i], brewDefaults)]]

\* Faulty variant: a dose is put on the grid of the default cup.
OmniDose(cup) == CupDose[DefaultCup]

DoseGrid(cup) == CupDose[cup]

\* Python's bool(), of a number or of nothing.
Truthy(v) == v \notin {None, 0}

\* build, up to validate_recipe.  A ratio that cannot be read gives a bare recipe.
BuildRecipe(fields, brewDefaults) ==
  LET cup   == IF fields.cup_type \in ValidCups THEN fields.cup_type ELSE DefaultCup
      dose  == SnapOr(DoseGrid(cup), fields.dose_g, DoseGrid(cup).default)
      grind == SnapOr(Fields.grind_size, fields.grind_size, Fields.grind_size.default)
      rpm   == SnapOr(Fields.grinder_speed_rpm, fields.grinder_speed_rpm,
                      Fields.grinder_speed_rpm.default)
      readable == fields.ratio \notin {None, Malformed}
      ratio == IF readable THEN SnapRatio(fields.ratio, 1) ELSE Malformed
      n     == IF fields.pours # <<>> THEN Len(fields.pours)
               ELSE Greater(1, OrElse(fields.pour_count, Fields.pour_count.default) \div 10)
      total == Water(dose, ratio)
      bypass == Truthy(fields.bypass_water_enabled)
  IN  [name |-> fields.name, dose_g |-> dose, ratio |-> ratio,
       water_ratio |-> IF readable THEN total ELSE None,
       grind_size |-> grind, grinder_size |-> IF readable THEN grind ELSE None,
       grinder_size_enabled |-> 1,
       grinder_speed_rpm |-> rpm, rpm |-> IF readable THEN rpm ELSE None,
       pour_count |-> n, cup_type |-> cup,
       bypass_water_enabled |-> IF bypass THEN 1 ELSE 2,
       bypass_volume_ml |-> IF bypass THEN fields.bypass_volume_ml ELSE None,
       bypass_temp_c |-> IF bypass THEN fields.bypass_temp_c ELSE None,
       pours |-> IF readable THEN BuildPours(fields, total, n, brewDefaults) ELSE <<>>]

BuildErrors(recipe) == IF recipe.ratio = Malformed THEN {"ratio"} ELSE Validate(recipe)

\* The fields an editor reads from a recipe: its flag too, which is 2 when off.
FieldsOf(recipe) ==
  [name |-> recipe.name, dose_g |-> recipe.dose_g, ratio |-> recipe.ratio,
   grind_size |-> recipe.grind_size, grinder_speed_rpm |-> recipe.grinder_speed_rpm,
   cup_type |-> recipe.cup_type, pour_count |-> 10 * recipe.pour_count,
   pours |-> recipe.pours, bypass_water_enabled |-> recipe.bypass_water_enabled,
   bypass_volume_ml |-> recipe.bypass_volume_ml, bypass_temp_c |-> recipe.bypass_temp_c]

-----------------------------------------------------------------------------
(* brew_scale *)

ScaledVolume(v, current, dose, ratio) ==
  IF current > 0 THEN RoundEither(v * dose * ratio, 10 * current) ELSE 0

ScaleRecipe(recipe, dose, ratio, grind) ==
  LET current == Total(Volumes(recipe.pours))
      scaled  == [i \in DOMAIN recipe.pours |->
                   [recipe.pours[i] EXCEPT !.volume_ml = ScaledVolume(@, current, dose, ratio)]]
  IN  [recipe EXCEPT
         !.pours = scaled,
         !.dose_g = dose,
         !.water_ratio = ratio,
         !.grinder_size = OrElse(grind, @)]

-----------------------------------------------------------------------------
(* The cloud's shape of a recipe *)

\* Faulty variant: the water is taken for the denominator.
WaterAsRatio(recipe) == recipe.water_ratio

\* grandWater, the denominator.
GrandWater(recipe) ==
  IF recipe.ratio \notin {None, Malformed} THEN recipe.ratio
  ELSE IF recipe.water_ratio <= 0 THEN 160
  ELSE IF recipe.water_ratio <= 250 \/ recipe.dose_g <= 0 THEN recipe.water_ratio
  ELSE RoundEither(10 * recipe.water_ratio, recipe.dose_g)

\* recipe_to_cloud_body.  A pour has all its values: its defaults are left out.
CloudBody(recipe) ==
  [name |-> recipe.name, dose |-> recipe.dose_g, grandWater |-> GrandWater(recipe),
   grinderSize |-> OrElse(recipe.grind_size, OrElse(recipe.grinder_size, 400)),
   rpm |-> OrElse(recipe.grinder_speed_rpm, OrElse(recipe.rpm, 900)),
   cupType |-> recipe.cup_type, isSetGrinderSize |-> recipe.grinder_size_enabled,
   isEnableBypassWater |-> recipe.bypass_water_enabled,
   bypassVolume |-> IF recipe.bypass_water_enabled = 1 THEN OrElse(recipe.bypass_volume_ml, 50) ELSE None,
   bypassTemp |-> IF recipe.bypass_water_enabled = 1 THEN OrElse(recipe.bypass_temp_c, 850) ELSE None,
   pours |-> recipe.pours]

\* _parse_recipe, of what the server kept: it counts the pours.
ParseRecipe(body) ==
  [name |-> body.name, dose_g |-> body.dose, ratio |-> None, water_ratio |-> body.grandWater,
   grind_size |-> None, grinder_size |-> body.grinderSize,
   grinder_size_enabled |-> body.isSetGrinderSize,
   grinder_speed_rpm |-> None, rpm |-> body.rpm,
   pour_count |-> Len(body.pours), cup_type |-> body.cupType,
   bypass_water_enabled |-> body.isEnableBypassWater,
   bypass_volume_ml |-> body.bypassVolume, bypass_temp_c |-> body.bypassTemp,
   pours |-> body.pours]
=============================================================================
