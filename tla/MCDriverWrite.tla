--------------------------- MODULE MCDriverWrite ---------------------------
(***************************************************************************)
(* DriverWrite with two valid tags and one that is rejected; lists that    *)
(* are cut at a bad name, at a repeated one and at one that exists; a      *)
(* single write and two writes of several tags.                            *)
(***************************************************************************)
EXTENDS DriverWrite

CONSTANTS t1, t2, bad, r1, r2, r3

MCTags    == {t1, t2, bad}
MCInvalid == {bad}
MCLists   == {<<t1>>, <<t2, t1>>, <<t1, bad, t2>>, <<t2, t2>>}
MCReqs    == {r1, r2, r3}
MCSingle  == {r1}
MCWants   == (r1 :> {t1}) @@ (r2 :> {t1}) @@ (r3 :> {t1, t2})
=============================================================================
