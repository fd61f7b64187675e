------------------------------ MODULE MCPcapFiles ------------------------------
EXTENDS PcapFiles

(* Three queues of one port for two workers, as WorkerJobs hands them out. *)
MCLcores == {0, 1}
MCJobs == [l \in MCLcores |-> [start_index |-> IF l = 0 THEN 0 ELSE 2,
                               end_index   |-> IF l = 0 THEN 2 ELSE 3]]

(* A threshold of 1, or none with the default of 1 in its place;           *)
(* transmission on all queues or on one alone; the default prefix, or one  *)
(* behind which both numbers just fit.                                     *)
MCSetup(prefix, check, queue) ==
    [queues_per_port |-> 3, jobs |-> MCJobs, prefix_length |-> prefix,
     check_packet_th |-> check, max_packets_per_queue |-> 1, transmit_queue |-> queue]

MCSetups == {MCSetup(8, TRUE, 1), MCSetup(35, FALSE, NoSingle)}
===============================================================================
