------------------------------- MODULE MCLocEng -------------------------------
(***************************************************************************)
(* Two modes and both recurrences, and every kind of position that takes a *)
(* way of its own through the handler of positions.                        *)
(***************************************************************************)
EXTENDS LocEng

TwoModes == {"standalone", "ms_based"}
Both == {"single", "periodic"}
AllKinds == {"fix", "network", "intermediate", "coarse", "failure"}
TwoData == {"ephemeris", "almanac"}
AllOrOne == {TwoData, {"ephemeris"}}
=============================================================================
