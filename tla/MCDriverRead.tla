---------------------------- MODULE MCDriverRead ----------------------------
(* DriverRead for TLC: one tag with two values, in a group with two names.  *)
(* A tag with the attribute "read" is sent in every report, as a static one *)
(* is, and carries no mark; it is left out here.                            *)
EXTENDS DriverRead, TLC

CONSTANTS a, g1, g2, v1, v2

OneTag    == {a}
TwoNames  == {g1, g2}
TwoValues == {v1, v2}
NoTags_   == {}
NoPairs   == {}
MCAttrs   == {"subscribe", "static", "write"}

Alike == Permutations(TwoNames) \cup Permutations(TwoValues)
=============================================================================
