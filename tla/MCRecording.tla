---------------------------- MODULE MCRecording ----------------------------
(* A trusted and an untrusted source, two namespaces, and three contents:   *)
(* the middle one agrees with the first and is on the topic of the third.   *)
EXTENDS Recording

CONSTANTS t, u, n1, n2, east, near_east, north, k1, k2

TwoSources == {t, u}
OneTrusted == {t}
ThreeTexts == {east, near_east, north}
Directions == (east :> <<13, 0>>) @@ (near_east :> <<12, 5>>) @@ (north :> <<5, 12>>)
Symmetry == Permutations({n1, n2}) \cup Permutations({k1, k2})
=============================================================================
