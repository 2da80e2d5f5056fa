----------------------------- MODULE RecipeGate -----------------------------
(***************************************************************************)
(* The recipe as the machine gets it: encode_recipe_blob, and the check in *)
(* float32 by which the firmware takes a recipe or keeps its last grind    *)
(* size.  Volumes and doses come in tenths and leave in whole units.       *)
(***************************************************************************)
EXTENDS RecipeSpec, Sequences, SequencesExt, FiniteSets

\* Which way a quotient half-way between two values is rounded when it is not
\* exact in binary: it depends on its representation, so either is possible.  One
\* choice stands for all the ties of a behaviour; Python may go either way at each.
VARIABLE tieUp

RoundEither(a, b) ==
  IF 2 * (a % b) = b THEN (a \div b) + (IF tieUp THEN 1 ELSE 0) ELSE Round(a, b)

Total(volumes) == FoldLeft(+, 0, volumes)

-----------------------------------------------------------------------------
(* Float32, for the ratios 1 .. 255 and doses of at most 127 grams: a number *)
(* with k binary places is counted in units of 2^-k.                         *)

\* Binary places of the 24-bit float32 nearest to r / 10.
Places(r) == 27 - Cardinality({t \in {2, 3, 5, 10, 20, 40, 80, 160} : r >= t})

\* n with all but its first 24 bits rounded off.
F32(n) ==
  LET unit == 2 ^ Cardinality({i \in 24 .. 30 : n >= 2 ^ i})
  IN  unit * Round(n, unit)

\* The firmware's ratio * dose, with Places(r) binary places.
Product(r, dose) == F32(Round(r * 2 ^ Places(r), 10) * dose)

Truncated(r, dose) == Product(r, dose) \div 2 ^ Places(r)
Rounded(r, dose) == (Product(r, dose) + 2 ^ (Places(r) - 1)) \div 2 ^ Places(r)

-----------------------------------------------------------------------------
(* _gate_consistent_volumes *)

\* The product is the same integer truncated or rounded.
Unambiguous(r, dose) == r \in 1 .. 255 /\ Truncated(r, dose) = Rounded(r, dose)

\* Where it is looked for: at the ratio itself, then around it.
Nearby == <<0, 1, -1, 2, -2>>

RatioByte(volumes, dose) ==
  LET r0   == RoundEither(Total(volumes), dose)
      good == {k \in DOMAIN Nearby : Unambiguous(r0 + Nearby[k], dose)}
  IN  IF good # {} THEN r0 + Nearby[Min(good)]
      ELSE IF r0 < 1 THEN 1 ELSE IF r0 > 255 THEN 255 ELSE r0

\* Faulty variant: what the floors leave over is not handed out.
Floors(volumes, target) ==
  [i \in DOMAIN volumes |-> (volumes[i] * target) \div Total(volumes)]

\* The target in shares of the volumes, by largest remainder.
Apportion(volumes, target) ==
  LET total    == Total(volumes)
      floor    == [i \in DOMAIN volumes |-> (volumes[i] * target) \div total]
      left(i)  == (volumes[i] * target) % total
      before(i) == {j \in DOMAIN volumes : left(j) > left(i) \/ (left(j) = left(i) /\ j < i)}
  IN  [i \in DOMAIN volumes |->
        floor[i] + (IF Cardinality(before(i)) < target - Total(floor) THEN 1 ELSE 0)]

\* Volumes and ratio byte; plain rounding when dose or water is not known.
GateConsistent(volumes, dose) ==
  IF dose <= 0 \/ Total(volumes) <= 0
  THEN [volumes |-> [i \in DOMAIN volumes |-> Round(volumes[i], 10)], ratio |-> 0]
  ELSE LET r == RatioByte(volumes, dose)
       IN  [volumes |-> Apportion(volumes, Truncated(r, dose)), ratio |-> r]

-----------------------------------------------------------------------------
(* encode_recipe_blob *)

\* Faulty variant: the rest of a volume above a multiple of 127 is left out.
WholeChunks(v) == IF v > 127 THEN [i \in 1 .. v \div 127 |-> 127] ELSE <<v>>

\* Faulty variant: a volume is not split.
OneChunk(v) == <<v>>

\* A volume in parts of at most 127 ml.
Chunks(v) ==
  IF v <= 127 THEN <<v>>
  ELSE [i \in 1 .. v \div 127 |-> 127] \o (IF v % 127 = 0 THEN <<>> ELSE <<v % 127>>)

Vibration(pour) ==
  (IF pour.agitate_before = 1 THEN 1 ELSE 0) + (IF pour.agitate_after = 1 THEN 2 ELSE 0)

\* int() of a number in tenths.
IntPart(t) == IF t < 0 THEN -((-t) \div 10) ELSE t \div 10

EncodePour(pour, volume, rpm) ==
  [chunks |-> Chunks(volume), temperature |-> IntPart(pour.temperature_c),
   pattern |-> IF pour.pattern \in ValidPatterns THEN PatternByte[pour.pattern] ELSE 0,
   vibration |-> Vibration(pour),
   wait |-> (-IntPart(pour.pause_s)) % 256, rpm |-> rpm % 256, flow |-> pour.flow_rate % 256]

\* Four bytes for a chunk and four for the timing of a pour.
Bytes(steps) == Total([i \in DOMAIN steps |-> 4 * Len(steps[i].chunks) + 4])

EncodeBlob(pours, grinder, dose, rpm) ==
  LET asked == [i \in DOMAIN pours |-> IF pours[i].volume_ml > 0 THEN pours[i].volume_ml ELSE 0]
      gate  == GateConsistent(asked, Round(dose, 10))
      steps == [i \in DOMAIN pours |->
                  EncodePour(pours[i], gate.volumes[i], IF i = 1 THEN rpm ELSE 0)]
  IN  [length |-> Bytes(steps) % 256, steps |-> steps,
       grinder |-> IF grinder > 80 THEN 80 ELSE grinder, ratio |-> gate.ratio]

\* The grinder is off, size 0, unless the recipe enables it and gives a size.
UsesGrinder(recipe) == recipe.grinder_size_enabled = 1 /\ recipe.grinder_size >= 10

\* What build_brew_frames and packet_slot_write put into the frame of the recipe.
RecipeBlob(recipe) ==
  EncodeBlob(recipe.pours,
             IF UsesGrinder(recipe) THEN recipe.grinder_size \div 10 ELSE 0,
             recipe.dose_g,
             IF UsesGrinder(recipe) THEN recipe.rpm \div 10 ELSE 0)

\* bytes() refuses a recipe with a temperature that is no byte; the other values
\* are masked, or bounded.
Encodes(recipe) == \A i \in DOMAIN recipe.pours : IntPart(recipe.pours[i].temperature_c) \in 0 .. 255

\* The frames of a brew: the dose of 8102 and the recipe of 8001 or 8004.
BrewFrames(recipe) == [dose |-> Round(recipe.dose_g, 10), blob |-> RecipeBlob(recipe)]

-----------------------------------------------------------------------------
(* External: the firmware *)

Poured(step) == Total(step.chunks)

\* It takes a recipe whose water is the product of its ratio and the dose.
GatePasses(frames) ==
  /\ frames.blob.ratio > 0
  /\ Truncated(frames.blob.ratio, frames.dose) =
       Total([i \in DOMAIN frames.blob.steps |-> Poured(frames.blob.steps[i])])
=============================================================================
