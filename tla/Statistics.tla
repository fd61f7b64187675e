------------------------------ MODULE Statistics ------------------------------
(***************************************************************************)
(* The statistics of common_stats.c that the main core of read and         *)
(* generate prints: a window per port every next_stats_delay while the     *)
(* workers run, and the totals at the end.  The NIC counts on meanwhile,   *)
(* also between the reading of a counter and the printing of its window.   *)
(*                                                                         *)
(* The actions are those of the main core between two lines of output;     *)
(* where a line goes is left to the module that extends this one.          *)
(***************************************************************************)
EXTENDS Integers

CONSTANTS NbPorts,           \* what RTE_ETH_FOREACH_DEV goes through
          next_stats_delay,
          MaxPackets         \* bound on what a port counts

(* The arrays of the measurement have ten entries (max_ports).             *)
ASSUME StatisticsAssumption ==
    /\ NbPorts \in 1 .. 10
    /\ next_stats_delay \in Nat \ {0} /\ MaxPackets \in Nat

VARIABLES pc,                \* where the application's main() is
          now,               \* gettimeofday
          nic,               \* packets each port has counted
          next_stats_time, pre_packets,
          portid,            \* of the loops over the ports
          current,           \* current_packets of print_stats
          packets,           \* sum of print_simple_stats
          reported           \* history: sum of the windows printed per port

measurement == <<next_stats_time, pre_packets, portid, current, packets, reported>>
statistics  == <<pc, now, nic, measurement>>

Ports == 0 .. NbPorts - 1
NoPackets == [port \in Ports |-> 0]

StatisticsInit ==
    /\ pc = "none" /\ now = 1
    /\ nic = NoPackets /\ next_stats_time = 0 /\ pre_packets = NoPackets
    /\ portid = 0 /\ current = 0 /\ packets = 0
    /\ reported = NoPackets

(* A new process: time counts from its start, its ports from zero.         *)
time_variables_init ==
    /\ now' = 1
    /\ nic' = NoPackets /\ next_stats_time' = 0 /\ pre_packets' = NoPackets
    /\ portid' = 0 /\ current' = 0 /\ packets' = 0
    /\ reported' = NoPackets
-------------------------------------------------------------------------------
(* Nothing is due yet: back to the test of the main loop.                  *)
Due == next_stats_time < now

gather_stats ==
    /\ pc' = IF Due THEN "read" ELSE "loop"
    /\ next_stats_time' = IF Due THEN now + next_stats_delay ELSE next_stats_time
    /\ portid' = 0
    /\ UNCHANGED <<now, nic, pre_packets, current, packets, reported>>

ReadPort ==
    /\ pc = "read"
    /\ current' = nic[portid]
    /\ pc' = "print"
    /\ UNCHANGED <<now, nic, next_stats_time, pre_packets, portid, packets, reported>>

(* packets_per_window, and the next port.                                  *)
PrintPortReadsAgain ==
    /\ pc = "print"
    /\ reported' = [reported EXCEPT ![portid] = @ + (current - pre_packets[portid])]
    /\ pre_packets' = [pre_packets EXCEPT ![portid] = nic[portid]]
    /\ pc' = IF portid + 1 < NbPorts THEN "read" ELSE "loop"
    /\ portid' = IF portid + 1 < NbPorts THEN portid + 1 ELSE 0
    /\ UNCHANGED <<now, nic, next_stats_time, current, packets>>

PrintPort ==
    /\ pc = "print"
    /\ reported' = [reported EXCEPT ![portid] = @ + (current - pre_packets[portid])]
    /\ pre_packets' = [pre_packets EXCEPT ![portid] = current]
    /\ pc' = IF portid + 1 < NbPorts THEN "read" ELSE "loop"
    /\ portid' = IF portid + 1 < NbPorts THEN portid + 1 ELSE 0
    /\ UNCHANGED <<now, nic, next_stats_time, current, packets>>

print_stats_total ==
    /\ pc = "totals"
    /\ pc' = "sum"
    /\ UNCHANGED <<now, nic, measurement>>

(* print_simple_stats reads port after port; nobody stops the NIC.         *)
SumPort ==
    /\ pc = "sum"
    /\ packets' = packets + nic[portid]
    /\ pc' = IF portid + 1 < NbPorts THEN "sum" ELSE "last"
    /\ portid' = IF portid + 1 < NbPorts THEN portid + 1 ELSE 0
    /\ UNCHANGED <<now, nic, next_stats_time, pre_packets, current, reported>>

PrintLastLine ==
    /\ pc = "last"
    /\ pc' = "cleanup"
    /\ UNCHANGED <<now, nic, measurement>>
-------------------------------------------------------------------------------
(* The ports are up and count.                                             *)
Running == pc \in {"loop", "read", "print", "totals", "sum", "last"}

Count(port) ==
    /\ Running /\ nic[port] < MaxPackets
    /\ nic' = [nic EXCEPT ![port] = @ + 1]
    /\ UNCHANGED <<pc, now, measurement>>

StatisticsTypeOK ==
    /\ now \in Nat /\ next_stats_time \in Nat
    /\ nic \in [Ports -> 0 .. MaxPackets]
    /\ pre_packets \in [Ports -> Nat] /\ reported \in [Ports -> Int]
    /\ portid \in Ports /\ current \in Nat /\ packets \in Nat

(* The windows printed for a port add up to what it had counted at its     *)
(* last window, whatever it counts while they are printed: no packet is in *)
(* two windows, none between two, and none in a window before it came.     *)
WindowsAddUp ==
    \A port \in Ports :
        /\ reported[port] = pre_packets[port]
        /\ pre_packets[port] <= nic[port]
===============================================================================
