------------------------- MODULE SendConfirmRefines -------------------------
(***************************************************************************)
(* The send-and-confirm layer implements BrewContract.  The machine holds  *)
(* the steps a call has accepted, and the current one once it took a copy  *)
(* of it.                                                                  *)
(***************************************************************************)
EXTENDS SendConfirm

StepCount == [t \in Calls |-> Len(Script[t])]

Held == [t \in Calls |->
  IF step[t] <= Len(Script[t]) /\ taken[CodeOf(Slot(t))] > 0 THEN step[t] ELSE step[t] - 1]

Accepted == [t \in Calls |-> step[t] - 1]

\* How an outcome reads to the caller.
Reported(o) ==
  CASE o = None   -> "open"
    [] o = "sent" -> "sent"
    [] OTHER      -> "stopped"

Status == [t \in Calls |-> Reported(outcome[t])]

Contract == INSTANCE BrewContract
  WITH Steps <- StepCount, held <- Held, accepted <- Accepted, status <- Status

\* The calls on one link keep BrewContract: in order, one step at a time, and
\* reported as sent only when the machine took every step.
KeepsContract == Contract!Spec

\* The refinement needs each command of each call to be told from the others
\* by its code, the only thing a reply carries.
DistinctCodes ==
  \A s1, s2 \in Slots : CodeOf(s1) = CodeOf(s2) => s1 = s2
=============================================================================
