------------------------------- MODULE MCMeasure -------------------------------
EXTENDS Measure

(* Two lengths, so that a row could be another's.                          *)
MCPacketSizes == <<64, 72>>

(* A sleep, and the two times that raise an exception.                     *)
MCTimes == {-1, 0, 1}

(* A sleep long enough for a window.                                       *)
MCLongTime == {2}

(* A pipe that a log line and the windows fill, and one that holds all.    *)
MCPipeSizes == {3, 7}
===============================================================================
