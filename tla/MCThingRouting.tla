--------------------------- MODULE MCThingRouting ---------------------------
(* ThingRouting for TLC: a self driver, two drivers that can both be the    *)
(* first to use the list of apps, an app before and an app behind a driver  *)
(* whose plugin is missing.                                                 *)
EXTENDS ThingRouting

CONSTANTS s1, d1, d2, dx, a1, a2

SixRows    == <<s1, d1, a1, d2, dx, a2>>
TwoDrivers == {d1, d2, dx}
TwoApps    == {a1, a2}
Missing    == {dx}
=============================================================================
