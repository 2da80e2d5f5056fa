--------------------------- MODULE MCSendConfirm ---------------------------
(* Instances of SendConfirm: a brew, and a brew with a one-shot command. *)
EXTENDS SendConfirmRefines, TLC

CONSTANTS b, s,                                          \* the calls
          handshake, bypass, cup, recipe, execute, tare  \* command codes

\* A brew alone: the five frames of build_brew_frames.
BrewScript   == b :> <<handshake, bypass, cup, recipe, execute>>
BrewAttempts == b :> 2

\* Both on one connection, the brew cut to the two steps that must not swap.
BothScript   == (b :> <<recipe, execute>>) @@ (s :> <<tare>>)
BothAttempts == (b :> 2) @@ (s :> 2)
=============================================================================
