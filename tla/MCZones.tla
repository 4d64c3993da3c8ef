------------------------------ MODULE MCZones ------------------------------
(* Zones for TLC: names of zones are interchangeable. *)
EXTENDS Zones, TLC

SmallClosure == {<<2, 2, 2>>}

ZoneSymmetry == Permutations(ZoneIds)
=============================================================================
