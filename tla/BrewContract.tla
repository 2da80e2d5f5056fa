---------------------------- MODULE BrewContract ----------------------------
(***************************************************************************)
(* What brew() and send_command() promise their caller: the machine gets   *)
(* the steps of a call one at a time and in order, a step counts as        *)
(* accepted only when the machine holds it, the call is reported as sent   *)
(* only when the machine holds every step, and a call that stopped leaves  *)
(* at most the step it stopped at to be taken late.                        *)
(***************************************************************************)
EXTENDS Naturals

CONSTANTS Calls, Steps   \* Steps[t]: the number of commands of call t

VARIABLES
  held,      \* held[t]: how many steps of t the machine holds
  accepted,  \* accepted[t]: how many of them t was told about
  status     \* status[t]: "open", "sent" or "stopped"

vars == <<held, accepted, status>>

Init ==
  /\ held = [t \in Calls |-> 0]
  /\ accepted = [t \in Calls |-> 0]
  /\ status = [t \in Calls |-> "open"]

\* The machine takes the step after the accepted ones, and no other.
Take(t) ==
  /\ held[t] = accepted[t]
  /\ held[t] < Steps[t]
  /\ held' = [held EXCEPT ![t] = @ + 1]
  /\ UNCHANGED <<accepted, status>>

\* The call learns of a step the machine holds.
Confirm(t) ==
  /\ status[t] = "open"
  /\ accepted[t] < held[t]
  /\ accepted' = [accepted EXCEPT ![t] = @ + 1]
  /\ UNCHANGED <<held, status>>

Report(t) ==
  /\ status[t] = "open"
  /\ accepted[t] = Steps[t]
  /\ status' = [status EXCEPT ![t] = "sent"]
  /\ UNCHANGED <<held, accepted>>

\* Refused, unanswered, or the link is gone.
Stop(t) ==
  /\ status[t] = "open"
  /\ status' = [status EXCEPT ![t] = "stopped"]
  /\ UNCHANGED <<held, accepted>>

\* A one-shot command returns with its confirmation.
ConfirmAndReport(t) ==
  /\ status[t] = "open"
  /\ accepted[t] < held[t]
  /\ accepted[t] + 1 = Steps[t]
  /\ accepted' = [accepted EXCEPT ![t] = @ + 1]
  /\ status' = [status EXCEPT ![t] = "sent"]
  /\ UNCHANGED held

Next ==
  \E t \in Calls : Take(t) \/ Confirm(t) \/ Report(t) \/ Stop(t) \/ ConfirmAndReport(t)

Spec == Init /\ [][Next]_vars
=============================================================================
