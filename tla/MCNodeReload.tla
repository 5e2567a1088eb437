---------------------------- MODULE MCNodeReload ----------------------------
(* NodeReload for TLC: one row whose plugin is registered and one whose     *)
(* plugin is not.                                                           *)
EXTENDS NodeReload

CONSTANTS n1, n2

OneRow      == {n1}
MixedRows   == {n1, n2}
Skipped     == {n2}
NoneSkipped == {}
=============================================================================
