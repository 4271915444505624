---------------------------- MODULE MCZoneDetails ----------------------------
(***************************************************************************)
(* Two members, one who notes and one who arranges, and one zone: with the *)
(* portals of a shape, or a rest, which has those its members put.         *)
(***************************************************************************)
EXTENDS ZoneDetails

CONSTANTS alice, bob

MCMembers == {alice, bob}
MCNoters == {bob}
MCArrangers == {alice}
MCShapes == {"c", "rest"}
MCMaxTimes == [green |-> 1]
MCTyped == {1}
MCKnown == {"count"}
MCSwitches == {"p1"}
MCSpots == {<<6000, 1000>>}
=============================================================================
