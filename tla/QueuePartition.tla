---------------------------- MODULE QueuePartition ----------------------------
(***************************************************************************)
(* What the examples expect of the job distribution in                     *)
(* apps/common/common_dpdk.c: every DMA queue is handed to one worker      *)
(* lcore at most, it is never taken back or passed on, and nobody but its  *)
(* owner ever polls it.  A DPDK queue may be polled by one lcore at a time *)
(* (the burst functions take no lock), so this is the contract that makes  *)
(* the lock-free worker loops correct.                                     *)
(*                                                                         *)
(* WorkerJobs implements this module.                                      *)
(***************************************************************************)
EXTENDS Integers

CONSTANTS Lcores,      \* the worker lcores
          QueueIds     \* global queue numbers, 0 .. ports * queues_per_port - 1

Nobody  == -1          \* owner of a queue that was not handed out
NoQueue == -1          \* what an lcore polls while it is between two rounds

VARIABLES owner,       \* owner[q]: the lcore that queue q was handed to
          polling      \* polling[l]: the queue lcore l is polling

pvars == <<owner, polling>>

Init == /\ owner = [q \in QueueIds |-> Nobody]
        /\ polling = [l \in Lcores |-> NoQueue]

(* An lcore that has no job yet receives one: a non-empty set of free      *)
(* queues.                                                                 *)
Give(l) ==
    /\ \A q \in QueueIds : owner[q] # l
    /\ \E job \in SUBSET {q \in QueueIds : owner[q] = Nobody} :
         /\ job # {}
         /\ owner' = [q \in QueueIds |-> IF q \in job THEN l ELSE owner[q]]
    /\ UNCHANGED polling

Poll(l) ==
    /\ \E q \in QueueIds : /\ owner[q] = l
                           /\ polling' = [polling EXCEPT ![l] = q]
    /\ UNCHANGED owner

Rest(l) == /\ polling' = [polling EXCEPT ![l] = NoQueue]
           /\ UNCHANGED owner

Next == \E l \in Lcores : Give(l) \/ Poll(l) \/ Rest(l)

Spec == Init /\ [][Next]_pvars
===============================================================================
