----------------------------- MODULE RecipeSpec -----------------------------
(***************************************************************************)
(* The tables of spec and the operations on them.  A number is counted in  *)
(* tenths of its unit, so that 16.5 is 165: no table has a finer grid.     *)
(***************************************************************************)
EXTENDS Integers

CONSTANT None  \* no value, or one that is not a number

\* Python's round() of a/b, to the even neighbour at a tie; b is positive.
Round(a, b) ==
  LET q == a \div b
      r == 2 * (a % b)
  IN  IF r > b \/ (r = b /\ q % 2 = 1) THEN q + 1 ELSE q

-----------------------------------------------------------------------------
(* NumRange *)

NumRange(min, max, step, default) ==
  [min |-> min, max |-> max, step |-> step, default |-> default]

InRange(range, v) == v # None /\ range.min <= v /\ v <= range.max

Clamp(range, v) ==
  IF v < range.min THEN range.min ELSE IF v > range.max THEN range.max ELSE v

Snap(range, v) ==
  range.min + range.step * Round(Clamp(range, v) - range.min, range.step)

-----------------------------------------------------------------------------
(* The tables *)

ValidPatterns == 1 .. 3
PatternByte == <<0, 2, 1>>
Spiral == 2

ValidCups == 1 .. 4
CupDose == <<NumRange(150, 150, 5, 150), NumRange(50, 180, 5, 180),
             NumRange(50, 250, 5, 180), NumRange(10, 50, 5, 30)>>
DefaultCup == 2

RatioDenom == NumRange(50, 250, 5, 160)

Fields ==
  [grind_size         |-> NumRange(10, 800, 10, 400),
   grinder_speed_rpm  |-> NumRange(600, 1200, 100, 900),
   pour_count         |-> NumRange(10, 90, 10, 30),
   pour_volume_ml     |-> NumRange(0, 2400, 10, 600),
   pour_temperature_c |-> NumRange(200, 980, 10, 920),
   pour_flow_rate     |-> NumRange(30, 35, 1, 30),
   pour_pause_s       |-> NumRange(0, 590, 10, 0),
   bypass_volume_ml   |-> NumRange(50, 1000, 10, 300),
   bypass_temp_c      |-> NumRange(200, 980, 10, 920),
   brewer_volume_ml   |-> NumRange(300, 5000, 10, 1250)]

VolumeTolerance == 5

-----------------------------------------------------------------------------
(* The brewer's temperature, in whole degrees: as its knob reports it, as it *)
(* is displayed (39 and 96 being RT and BP), and on the wire (20 and 98).    *)

RoomTemp == 20
BoilingPoint == 98
DisplayMin == 39
DisplayMax == 96

\* The knob's value is in the unit of the machine's display.
KnobToCelsius(raw) ==
  IF raw \in DisplayMin .. DisplayMax THEN raw
  ELSE IF raw \in 103 .. 204 THEN Round(10 * (raw - 32), 18) ELSE None

DisplayToWire(d) ==
  IF d <= DisplayMin THEN RoomTemp ELSE IF d >= DisplayMax THEN BoilingPoint ELSE d

WireToDisplay(w) ==
  IF w <= RoomTemp THEN DisplayMin ELSE IF w >= BoilingPoint THEN DisplayMax ELSE w

\* What becomes of a position of the knob that is shown, saved and shown again.
KnobKept(raw) ==
  LET d == KnobToCelsius(raw) IN
    /\ d \in DisplayMin .. DisplayMax
    /\ WireToDisplay(DisplayToWire(d)) = d
    /\ DisplayToWire(d) \in {RoomTemp, BoilingPoint} \union (40 .. 95)

\* The positions in either unit.
KnobValues == (DisplayMin .. DisplayMax) \union (103 .. 204)
=============================================================================
