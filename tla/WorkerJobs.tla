------------------------------ MODULE WorkerJobs ------------------------------
(***************************************************************************)
(* The distribution of DMA queues over worker lcores                       *)
(* (apps/common/common_dpdk.c: workers_job_init, workers_job_assign), the  *)
(* launch loop every example's main() drives it with, and the worker loop  *)
(* of apps/read that lives off the result.                                 *)
(*                                                                         *)
(* Main hands out ranges of global queue numbers one lcore after the other *)
(* and launches each lcore at once, so the first workers already poll      *)
(* while main is still computing the ranges of the last ones.              *)
(***************************************************************************)
EXTENDS Integers

CONSTANTS WorkerCores, \* get_worker_cores_cnt(): all lcores but the main one
          Settings     \* the (ports, queues_per_port) pairs the command line may give

ASSUME WorkerCoresAssumption == WorkerCores \in Nat \ {0}
ASSUME SettingsAssumption ==
    Settings \subseteq [ports : Nat, queues_per_port : Nat]

Lcores == 0 .. WorkerCores - 1    \* the worker lcores, in RTE_LCORE_FOREACH_WORKER order

VARIABLES dpdk,        \* struct dpdk_settings: ports and queues_per_port
          workers_d,   \* static struct worker_job_data_t
          i,           \* main's index into lcore_args
          lcore_args,  \* main's array of struct lcore_arguments
          lcore_state, \* what EAL knows of each worker lcore
          index,       \* each worker's loop variable, NotPolling at the loop head
          main,        \* main's place in the launch sequence
          stop         \* __stop, set by the signal handler

dist == <<workers_d, i, lcore_args>>
vars == <<dpdk, dist, lcore_state, index, main, stop>>

NotPolling == -1

(* Stack garbage: no assignment ever writes this record, and no queue has  *)
(* its numbers.                                                            *)
Garbage == [worker_id |-> -1, start_index |-> -1, end_index |-> 0]

TotalQueues == dpdk.queues_per_port * dpdk.ports
Queues      == 0 .. TotalQueues - 1

get_queues_per_lcore == TotalQueues \div WorkerCores
get_remaining_queues == TotalQueues % WorkerCores

PortOf(q)  == q \div dpdk.queues_per_port
QueueOf(q) == q % dpdk.queues_per_port
-------------------------------------------------------------------------------
Init ==
    /\ dpdk \in Settings
    /\ workers_d = [worker_id |-> 0, start_index |-> 0, end_index |-> 0,
                    queues_per_lcore |-> 0, remaining_queues |-> 0]
    /\ i = 0
    /\ lcore_args = [l \in Lcores |-> Garbage]
    /\ lcore_state = [l \in Lcores |-> "WAIT"]
    /\ index = [l \in Lcores |-> NotPolling]
    /\ main = "init"
    /\ stop = FALSE

workers_job_init ==
    /\ main = "init"
    /\ workers_d' = [worker_id |-> 0, start_index |-> 0, end_index |-> 0,
                     queues_per_lcore |-> get_queues_per_lcore,
                     remaining_queues |-> get_remaining_queues]
    /\ main' = "assign"
    /\ UNCHANGED <<dpdk, i, lcore_args, lcore_state, index, stop>>

(* The argument slot main passes for its i-th worker: &lcore_args[i].      *)
SharedArgsSlot(l) == 0
ArgsSlot(l) == l

(* The number of queues the next worker is given: the first                *)
(* remaining_queues workers take one more than the others.                 *)
ShareOfWholeOnly == workers_d.queues_per_lcore
ShareLessRemainder == workers_d.queues_per_lcore - workers_d.remaining_queues
ShareRestToLast == IF workers_d.worker_id = WorkerCores - 1
                   THEN workers_d.queues_per_lcore + workers_d.remaining_queues
                   ELSE workers_d.queues_per_lcore
Share == IF workers_d.worker_id < workers_d.remaining_queues
         THEN workers_d.queues_per_lcore + 1
         ELSE workers_d.queues_per_lcore

(* One turn of the loop over the worker lcores up to the launch.  When     *)
(* there is no queue left, worker_id is not advanced and the lcore is      *)
(* never launched.                                                         *)
workers_job_assign ==
    /\ main = "assign"
    /\ i < WorkerCores
    /\ LET end_index == workers_d.end_index + Share
       IN IF end_index = workers_d.start_index
          THEN /\ workers_d' = [workers_d EXCEPT !.end_index = end_index]
               /\ i' = i + 1
               /\ UNCHANGED <<lcore_args, main>>
          ELSE /\ lcore_args' = [lcore_args EXCEPT ![ArgsSlot(i)] =
                     [worker_id   |-> workers_d.worker_id,
                      start_index |-> workers_d.start_index,
                      end_index   |-> end_index]]
               /\ workers_d' = [workers_d EXCEPT !.end_index = end_index,
                                                 !.start_index = end_index,
                                                 !.worker_id = @ + 1]
               /\ main' = "launch"
               /\ UNCHANGED i
    /\ UNCHANGED <<dpdk, lcore_state, index, stop>>

rte_eal_remote_launch ==
    /\ main = "launch"
    /\ lcore_state' = [lcore_state EXCEPT ![i] = "RUNNING"]
    /\ i' = i + 1
    /\ main' = "assign"
    /\ UNCHANGED <<dpdk, workers_d, lcore_args, index, stop>>

LaunchDone ==
    /\ main = "assign"
    /\ i = WorkerCores
    /\ main' = "launched"
    /\ UNCHANGED <<dpdk, dist, lcore_state, index, stop>>

(* rte_eal_mp_wait_lcore(): main goes on once no worker runs.              *)
WaitForLcores ==
    /\ main = "launched"
    /\ \A l \in Lcores : lcore_state[l] # "RUNNING"
    /\ main' = "joined"
    /\ UNCHANGED <<dpdk, dist, lcore_state, index, stop>>
-------------------------------------------------------------------------------
Args(l) == lcore_args[ArgsSlot(l)]

(* The head of the worker's while loop: leave on __stop, else start a      *)
(* round over the queues of its own range.                                 *)
RoundStart(l) ==
    /\ lcore_state[l] = "RUNNING"
    /\ index[l] = NotPolling
    /\ IF stop
       THEN /\ lcore_state' = [lcore_state EXCEPT ![l] = "FINISHED"]
            /\ UNCHANGED index
       ELSE /\ Args(l).start_index < Args(l).end_index
            /\ index' = [index EXCEPT ![l] = Args(l).start_index]
            /\ UNCHANGED lcore_state
    /\ UNCHANGED <<dpdk, dist, main, stop>>

(* The burst on the queue ends and the for loop moves on; both bounds are  *)
(* read from *lcore_args every time.                                       *)
NextIndexInclusive(l) == IF index[l] + 1 <= Args(l).end_index THEN index[l] + 1
                                                              ELSE NotPolling
NextIndexLeavesRound(l) == NotPolling
NextIndex(l) == IF index[l] + 1 < Args(l).end_index THEN index[l] + 1
                                                    ELSE NotPolling

RoundNext(l) ==
    /\ lcore_state[l] = "RUNNING"
    /\ index[l] # NotPolling
    /\ index' = [index EXCEPT ![l] = NextIndex(l)]
    /\ UNCHANGED <<dpdk, dist, lcore_state, main, stop>>

handle_sig ==
    /\ stop' = TRUE
    /\ UNCHANGED <<dpdk, dist, lcore_state, index, main>>
-------------------------------------------------------------------------------
MainStep == \/ workers_job_init
            \/ workers_job_assign
            \/ rte_eal_remote_launch
            \/ LaunchDone
            \/ WaitForLcores

Worker(l) == RoundStart(l) \/ RoundNext(l)

Next == MainStep \/ (\E l \in Lcores : Worker(l)) \/ handle_sig

(* Every lcore is a thread pinned to a core of its own, so each keeps      *)
(* running; nothing obliges the operator to send a signal.                 *)
Fairness == WF_vars(MainStep) /\ \A l \in Lcores : WF_vars(Worker(l))

Spec == Init /\ [][Next]_vars
FairSpec == Spec /\ Fairness
-------------------------------------------------------------------------------
Launched(l)  == lcore_state[l] # "WAIT"
RangeOf(l)   == Args(l).start_index .. Args(l).end_index - 1
AllAssigned  == main \in {"launched", "joined"}

(* The type invariant of the distribution and of the workers' cursors.     *)
TypeOK ==
    /\ dpdk \in Settings
    /\ workers_d \in [worker_id : Nat, start_index : Nat, end_index : Nat,
                      queues_per_lcore : Nat, remaining_queues : Nat]
    /\ i \in 0 .. WorkerCores
    /\ lcore_args \in [Lcores -> [worker_id : Int, start_index : Int, end_index : Int]]
    /\ lcore_state \in [Lcores -> {"WAIT", "RUNNING", "FINISHED"}]
    /\ index \in [Lcores -> Int]
    /\ main \in {"init", "assign", "launch", "launched", "joined"}
    /\ stop \in BOOLEAN

(* No two lcores are ever inside a burst on the same queue of the same     *)
(* port: the worker loops take no lock (read.c:50-55 and its siblings).    *)
QueuesExclusive ==
    \A l, m \in Lcores :
        l # m /\ index[l] # NotPolling /\ index[m] # NotPolling
          => <<PortOf(index[l]), QueueOf(index[l])>> # <<PortOf(index[m]), QueueOf(index[m])>>

(* A burst is only ever issued on a queue that device_setup configured: a  *)
(* port below dpdk.ports and a queue below queues_per_port.                *)
PollsExistingQueue ==
    \A l \in Lcores : index[l] # NotPolling =>
        PortOf(index[l]) \in 0 .. dpdk.ports - 1
          /\ QueueOf(index[l]) \in 0 .. dpdk.queues_per_port - 1

(* Once main has been through all lcores, no queue was left without a      *)
(* worker, although lcores are skipped when queues run out.                *)
AllQueuesServed ==
    AllAssigned => \A q \in Queues : \E l \in Lcores : Launched(l) /\ q \in RangeOf(l)

(* The work is spread evenly: two lcores' shares differ by one queue at    *)
(* most, an lcore that was not launched counting as zero.                  *)
Load(l) == IF Launched(l) THEN Args(l).end_index - Args(l).start_index ELSE 0

BalancedLoad == AllAssigned => \A l, m \in Lcores : Load(l) <= Load(m) + 1

(* "Each lcore needs to have its own instance of lcore_arguments otherwise *)
(* race condition may occure" (read.c:161): what a running worker reads    *)
(* through its pointer never changes under it.                             *)
ArgsStable ==
    [][\A l \in Lcores : Launched(l) => Args(l)' = Args(l)]_vars

(* The distribution and the polling implement QueuePartition.              *)
QueueIds == UNION {0 .. s.ports * s.queues_per_port - 1 : s \in Settings}

OwnerOf(q) == IF \E l \in Lcores : Launched(l) /\ q \in RangeOf(l)
              THEN CHOOSE l \in Lcores : Launched(l) /\ q \in RangeOf(l)
              ELSE -1

Partition == INSTANCE QueuePartition
               WITH owner <- [q \in QueueIds |-> OwnerOf(q)], polling <- index

ImplementsPartition == Partition!Spec

(* While nobody asks for a stop, every queue is polled again and again: no *)
(* queue is starved by the others of its lcore.                            *)
PolledOrStopped(q) == q \in Queues /\ ~stop => \E l \in Lcores : index[l] = q

EveryQueuePolled == \A q \in QueueIds : []<>PolledOrStopped(q)
===============================================================================
