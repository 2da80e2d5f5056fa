---------------------------- MODULE GatedTransfer ----------------------------
(***************************************************************************)
(* What an ACK-gated flash promises its caller as long as no answer comes  *)
(* after its timer: the receiver is given the next block only when every   *)
(* block before it was reported, a block is reported only when the         *)
(* receiver has it, and a flash has succeeded with the last report, never  *)
(* before.  Nothing is promised once an answer was late.                   *)
(***************************************************************************)
EXTENDS Naturals

CONSTANT Blocks

VARIABLES
  kept,     \* how many blocks the receiver has of the image it takes
  told,     \* how many the progress callback was told of
  outcome,  \* how the last flash ended, "none" while one runs
  timely    \* no answer was late

vars == <<kept, told, outcome, timely>>

Init ==
  /\ kept = 0
  /\ told = 0
  /\ outcome = "none"
  /\ timely = TRUE

\* A flash begins with its first block, whatever came of the one before.
Begin ==
  /\ told' = 0
  /\ outcome' = "none"
  /\ UNCHANGED kept

\* The receiver begins a new image, before any block of it is reported.
Open ==
  /\ told = 0
  /\ kept' = 0
  /\ UNCHANGED <<told, outcome>>

\* It is never more than one block ahead of what was reported.
Store ==
  /\ outcome = "none"
  /\ kept = told
  /\ kept < Blocks
  /\ kept' = kept + 1
  /\ UNCHANGED <<told, outcome>>

\* Each report is of a block it has; the last one is the success of the flash.
Report ==
  /\ outcome = "none"
  /\ told < kept
  /\ told' = told + 1
  /\ outcome' = IF told + 1 = Blocks THEN "ok" ELSE "none"
  /\ UNCHANGED kept

\* An exception, after any number of reports but the last.
Fail ==
  /\ outcome = "none"
  /\ told < Blocks
  /\ outcome' \in {"failed", "raised"}
  /\ UNCHANGED <<kept, told>>

Next ==
  \/ timely /\ timely' /\ (Begin \/ Open \/ Store \/ Report \/ Fail)
  \/ ~ timely'

Spec == Init /\ [][Next]_vars
=============================================================================
