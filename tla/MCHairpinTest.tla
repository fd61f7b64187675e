---------------------------- MODULE MCHairpinTest ----------------------------
EXTENDS HairpinTest

(* No packet, a single chunk that is not full, and several chunks of which *)
(* the last is not full.                                                   *)
MCPacketCounts == {0, 1, 3, 5}
===============================================================================
