--------------------------- MODULE MCModeListener ---------------------------
(* An instance of ModeListener: two sessions at most, a stop() and a brew. *)
EXTENDS ModeListener, TLC

CONSTANTS k1, c1

\* The recipe is the step that matters.
PrepareCut == <<"recipe">>

BrewKind == c1 :> "brew"
=============================================================================
