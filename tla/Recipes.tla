------------------------------ MODULE Recipes ------------------------------
(***************************************************************************)
(* What a host does with one recipe: it builds or imports it, edits it,    *)
(* keeps it in the cloud, scales it for one brew, and sends it to the      *)
(* machine, in any order.                                                  *)
(***************************************************************************)
EXTENDS RecipeBuild

CONSTANTS
  LooseFields,  \* what build may be given
  Shared,       \* what RecipeDetail may hold, as _parse_recipe returns it
  Doses,        \* the doses and ratios a recipe is edited or scaled to
  Ratios,
  MaxEdits      \* bound: edits and scalings of one recipe

\* _parse_recipe returns neither the grind size nor the speed of an editor.
ASSUME RecipesAssumption ==
  /\ None \notin Int /\ Malformed \notin Int
  /\ LooseFields \subseteq LooseRecipes
  /\ \A r \in Shared : r \in RecipeRecords /\ r.grind_size = None /\ r.grinder_speed_rpm = None
  /\ Doses \subseteq Int /\ Ratios \subseteq Int

VARIABLES
  recipe,   \* the host's recipe, None before there is one
  errors,   \* what validate_recipe found in it, when it was last asked
  origin,   \* where the recipe comes from
  edits,    \* edits and scalings so far
  former,   \* history: the recipe before its last edit or scaling
  cloud,    \* external: the recipe in the cloud, None while it has none
  saved,    \* history: the recipe it was uploaded from
  frames,   \* the frames sent to the machine, None while none are
  target    \* external: the grind size the machine is set to, None at first

vars == <<tieUp, recipe, errors, origin, edits, former, cloud, saved, frames, target>>

Origins == {"none", "built", "imported", "edited", "scaled", "downloaded"}

Init ==
  /\ tieUp \in BOOLEAN
  /\ recipe = None
  /\ errors = {}
  /\ origin = "none"
  /\ edits = 0
  /\ former = None
  /\ cloud = None
  /\ saved = None
  /\ frames = None
  /\ target = None

Obtain(r, faults, from) ==
  /\ recipe' = r
  /\ errors' = faults
  /\ origin' = from

Build(fields, brewDefaults) ==
  /\ origin = "none"
  /\ LET r == BuildRecipe(fields, brewDefaults) IN Obtain(r, BuildErrors(r), "built")
  /\ UNCHANGED <<tieUp, edits, former, cloud, saved, frames, target>>

\* A shared recipe, normalised before it is validated.
Import(r) ==
  /\ origin = "none"
  /\ Obtain(Normalize(r), Validate(Normalize(r)), "imported")
  /\ UNCHANGED <<tieUp, edits, former, cloud, saved, frames, target>>

Changes ==
  /\ recipe # None /\ errors = {}
  /\ edits < MaxEdits
  /\ edits' = edits + 1
  /\ former' = recipe
  /\ UNCHANGED <<tieUp, cloud, saved, frames, target>>

\* What an editor hands back of a recipe: another dose and ratio, its pours, and
\* its bypass flag as it was read, or turned off.
EditorFields(r, dose, ratio, kept) ==
  [FieldsOf(r) EXCEPT !.dose_g = dose, !.ratio = ratio,
                      !.bypass_water_enabled = IF kept THEN @ ELSE 0]

Edit(dose, ratio, kept) ==
  /\ Changes
  /\ LET r == BuildRecipe(EditorFields(recipe, dose, ratio, kept), TRUE)
     IN  Obtain(r, BuildErrors(r), "edited")

\* The result of scale_recipe is not validated.
Scale(dose, ratio, grind) ==
  /\ Changes
  /\ origin # "scaled"
  /\ Obtain(ScaleRecipe(recipe, dose, ratio, grind), errors, "scaled")

Upload ==
  /\ recipe # None /\ errors = {} /\ cloud = None
  /\ cloud' = CloudBody(recipe)
  /\ saved' = recipe
  /\ UNCHANGED <<tieUp, recipe, errors, origin, edits, former, frames, target>>

Download ==
  /\ cloud # None /\ origin # "downloaded"
  /\ LET r == Normalize(ParseRecipe(cloud)) IN Obtain(r, Validate(r), "downloaded")
  /\ UNCHANGED <<tieUp, edits, former, cloud, saved, frames, target>>

\* The frames of a brew or of a slot, of any recipe that has pours and can be
\* encoded: sending does not validate.
Send ==
  /\ recipe # None /\ recipe.pours # <<>> /\ frames = None
  /\ Encodes(recipe)
  /\ frames' = BrewFrames(recipe)
  /\ UNCHANGED <<tieUp, recipe, errors, origin, edits, former, cloud, saved, target>>

\* External: the machine keeps its grind size unless the recipe is consistent.
Take ==
  /\ frames # None /\ target = None
  /\ GatePasses(frames)
  /\ target' = frames.blob.grinder
  /\ UNCHANGED <<tieUp, recipe, errors, origin, edits, former, cloud, saved, frames>>

Next ==
  \/ \E fields \in LooseFields, brewDefaults \in BOOLEAN : Build(fields, brewDefaults)
  \/ \E r \in Shared : Import(r)
  \/ \E dose \in Doses, ratio \in Ratios :
       \/ \E kept \in BOOLEAN : Edit(dose, ratio, kept)
       \/ \E grind \in {None, 500} : Scale(dose, ratio, grind)
  \/ Upload
  \/ Download
  \/ Send
  \/ Take

Spec == Init /\ [][Next]_vars

-----------------------------------------------------------------------------
(* Properties *)

\* Whatever recipe is sent with a dose and water, the machine's float32 check
\* takes it, so it never grinds at the size of an earlier recipe.
MachineTakesIt ==
  frames # None /\ frames.dose > 0 /\ (\E i \in DOMAIN frames.blob.steps :
    Poured(frames.blob.steps[i]) > 0) => GatePasses(frames)

\* No part of a pour that is sent is longer than the machine takes.  And a recipe
\* without faults can be sent at any time, whatever it was scaled to: its
\* temperatures are bytes, and its length byte, which is masked, is its length.
BlobFits ==
  /\ frames # None =>
       \A i \in DOMAIN frames.blob.steps :
         \A v \in Range(frames.blob.steps[i].chunks) : v \in 0 .. 127
  /\ recipe # None /\ errors = {} =>
       LET blob == RecipeBlob(recipe)
       IN  Encodes(recipe) /\ blob.length = Bytes(blob.steps)

\* Whatever is split, rounded and nudged, each pour on the wire is within a
\* millilitre of its share of the water on the wire.
SharesKept ==
  origin # "none" /\ recipe.pours # <<>> /\ Total(Volumes(recipe.pours)) > 0 =>
    LET steps == RecipeBlob(recipe).steps
        asked == [i \in DOMAIN steps |-> Greater(0, recipe.pours[i].volume_ml)]
        wire  == Total([i \in DOMAIN steps |-> Poured(steps[i])])
    IN  Round(recipe.dose_g, 10) > 0 =>
          \A i \in DOMAIN steps :
            Abs(Poured(steps[i]) * Total(asked) - asked[i] * wire) < Total(asked)

\* A pause for the first pour that nobody asked for, with almost no water in the
\* pour, is 60 seconds or more: longer than the machine takes.
OverlongBloom ==
  recipe.pours[1].volume_ml <= 15 /\ recipe.pours[1].pause_s > Fields.pour_pause_s.max

\* "Only faults that cannot be snapped away" are left in what build returns.
OnlyUnsnappable ==
  origin \in {"built", "edited"} =>
    errors \subseteq {"name", "ratio", "pour_count", "volume_ml", "bypass_volume_ml",
                      "bypass_temp_c"} \union (IF errors # {"ratio"} /\ OverlongBloom
                                               THEN {"pause_s"} ELSE {})

\* A recipe that was built is what it would be built to from its own fields, but
\* for pauses under the ten seconds that build prefers, and for the bypass: it is
\* on whatever it was, the 2 of the API that means off being true to bool().
BuildIsStable ==
  origin \in {"built", "edited"} /\ errors = {} =>
    \/ BuildRecipe(FieldsOf(recipe), TRUE) = [recipe EXCEPT !.bypass_water_enabled = 1]
    \/ \E i \in DOMAIN recipe.pours : recipe.pours[i].pause_s \in 1 .. MinPause - 1

\* An edit keeps the shape of a recipe: a pour is within the rounding of its
\* share of the new total, the last one within that of all of them.
EditKeepsShape ==
  origin = "edited" =>
    LET old  == Volumes(former.pours)
        new  == Volumes(recipe.pours)
        n    == Len(new)
        moved == Abs(Total(new) - Total(old)) > VolumeTolerance
        off(i) == 2 * Abs(new[i] * Total(old) - old[i] * Total(new))
    IN  /\ Total(new) = Water(recipe.dose_g, recipe.ratio)
        /\ moved => \A i \in 1 .. n : off(i) <= (IF i = n THEN n ELSE 1) * Total(old)

\* What comes back from the cloud is valid if what was uploaded is, and brews
\* the same, byte for byte; but for a recipe scaled to another grind size (see
\* SavedAsScaled).
CloudKeepsRecipe ==
  origin = "downloaded" /\ Validate(saved) = {} /\ saved.grinder_size = saved.grind_size =>
    errors = {} /\ BrewFrames(recipe) = BrewFrames(saved)

\* A recipe scaled "for a 'save as new recipe'" is saved with its own ratio and
\* grind size.
SavedAsScaled ==
  cloud # None =>
    Abs(Total(Volumes(cloud.pours)) - Water(cloud.dose, cloud.grandWater)) <= VolumeTolerance
=============================================================================
