-------------------------- MODULE MCCloudSession --------------------------
(* Two changes and a list at once over one token. *)
EXTENDS CloudSession
CONSTANTS c1, c2, l1

\* One change on each list; or both on the created list, where room for one is
\* left and the recipe of the first does not parse.
SomeLayouts == {<<{c2}, {}>>, <<{}, {c1}>>}
=============================================================================
