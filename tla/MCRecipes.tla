----------------------------- MODULE MCRecipes -----------------------------
(* Recipes at the ends of their ranges, off the grids, and between them. *)
EXTENDS Recipes, TLC

Pour(volume) ==
  [volume_ml |-> volume, temperature_c |-> None, flow_rate |-> None, pattern |-> None,
   pause_s |-> None, agitate_before |-> None, agitate_after |-> None]

Base ==
  [name |-> TRUE, dose_g |-> 180, ratio |-> 160, grind_size |-> None, grinder_speed_rpm |-> None,
   cup_type |-> None, pour_count |-> None, pours |-> <<>>, bypass_water_enabled |-> None,
   bypass_volume_ml |-> None, bypass_temp_c |-> None]

PourSets ==
  {<<Pour(900), Pour(3000)>>, <<Pour(0), Pour(2880)>>, <<Pour(10), Pour(1375), Pour(1333)>>,
   <<Pour(-100), Pour(50)>>, <<Pour(2400), Pour(475)>>, <<Pour(None), Pour(700), Pour(None)>>,
   <<[Pour(800) EXCEPT !.temperature_c = 1004, !.flow_rate = 29, !.pattern = 7, !.pause_s = 34],
     [Pour(800) EXCEPT !.temperature_c = 935, !.pause_s = 700, !.agitate_before = 1, !.pattern = 3]>>,
   [i \in 1 .. 10 |-> Pour(333)], [i \in 1 .. 9 |-> Pour(2000)]}

MCLooseFields ==
  {[Base EXCEPT !.cup_type = cup, !.dose_g = dose, !.ratio = ratio] :
     cup \in {None, 1, 3, 4, 7}, dose \in {None, 12, 25, 172, 3000},
     ratio \in {None, Malformed, 40, 163, 165, 250}}
  \union {[Base EXCEPT !.pours = pours, !.ratio = ratio, !.bypass_water_enabled = bypass[1],
                       !.bypass_volume_ml = bypass[2], !.bypass_temp_c = 850] :
            pours \in PourSets, ratio \in {155, 160}, bypass \in {<<0, None>>, <<1, 305>>, <<2, None>>}}
  \union {[Base EXCEPT !.name = FALSE, !.grind_size = 805, !.grinder_speed_rpm = rpm, !.pour_count = n] :
            rpm \in {650, 1300}, n \in {-5, 25, 70, 120}}

SharedPour(volume) ==
  [volume_ml |-> volume, temperature_c |-> 930, flow_rate |-> 32, pattern |-> 3, pause_s |-> 300,
   agitate_before |-> 2, agitate_after |-> 1]

MCShared ==
  {[name |-> TRUE, dose_g |-> dose, ratio |-> ratio, water_ratio |-> water,
    grind_size |-> None, grinder_size |-> 450, grinder_size_enabled |-> grinder,
    grinder_speed_rpm |-> None, rpm |-> 900, pour_count |-> 2, cup_type |-> 2,
    bypass_water_enabled |-> bypass, bypass_volume_ml |-> None, bypass_temp_c |-> None,
    pours |-> <<SharedPour(volume), SharedPour(1500)>>] :
     dose \in {150, 175}, ratio \in {None, Malformed, 162}, water \in {160, 162, 2400},
     grinder \in {1, 2}, bypass \in {1, 2}, volume \in {900, 1300}}
=============================================================================
