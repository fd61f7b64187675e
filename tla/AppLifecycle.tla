----------------------------- MODULE AppLifecycle -----------------------------
(***************************************************************************)
(* The life of one example process: init(), the signal handlers, the mbuf  *)
(* pool, device_setup() port by port, the launch of the workers            *)
(* (WorkerJobs), main's statistics loop, the wait for the workers and the  *)
(* two ways out, each with every failure branch of the code.               *)
(*                                                                         *)
(* The examples share this skeleton; a record per application holds what   *)
(* their main() functions do differently.  Only hairpin, which shares next *)
(* to nothing of it, is left out (see HairpinTest).                        *)
(***************************************************************************)
EXTENDS Integers

CONSTANTS WorkerCores, Settings,
          Apps         \* the applications under consideration

(* What the main() functions differ in.                                    *)
AppKinds == [rx : BOOLEAN, tx : BOOLEAN,  \* the directions that are set up
             launches : BOOLEAN,      \* lcores do the work, not main itself
             stats : BOOLEAN,         \* main gathers statistics until the stop flag is set
             measures : BOOLEAN,      \* there are statistics arrays
             early : BOOLEAN,         \* the work may end without the stop flag
             own_setup : BOOLEAN,     \* main sets up one port itself
             bonds : BOOLEAN,         \* bonding: one bonded port, set up without a look at results
             filler : BOOLEAN,        \* table_filler: the work is to create flow rules
             mark_set : BOOLEAN,      \* flagging: a record of marks is created
             checks_length : BOOLEAN, \* a packet length is checked
             frees_without_pool : BOOLEAN]  \* and the arrays freed if there is no pool

ASSUME JobsAssumption ==
    /\ WorkerCores \in Nat \ {0}
    /\ Settings \subseteq [ports : Nat, queues_per_port : Nat]

(* What goes together: an application that sets up its port itself keeps   *)
(* no statistics, and the one with a record of marks works in main on such *)
(* a port.                                                                 *)
ASSUME AppsAssumption ==
    /\ Apps \subseteq AppKinds
    /\ \A a \in Apps : /\ a.own_setup => ~ a.measures
                       /\ a.mark_set => a.own_setup /\ ~ a.launches

read == [rx |-> TRUE, tx |-> FALSE, launches |-> TRUE, stats |-> TRUE, measures |-> TRUE,
         early |-> FALSE, own_setup |-> FALSE, bonds |-> FALSE, filler |-> FALSE, mark_set |-> FALSE,
         checks_length |-> FALSE, frees_without_pool |-> TRUE]
loopback == [read EXCEPT !.tx = TRUE]
generate == [read EXCEPT !.rx = FALSE, !.tx = TRUE, !.early = TRUE, !.checks_length = TRUE]
receive  == [read EXCEPT !.stats = FALSE, !.early = TRUE, !.frees_without_pool = FALSE]
transmit == [receive EXCEPT !.rx = FALSE, !.tx = TRUE]
bonding  == [loopback EXCEPT !.bonds = TRUE]
metadata_viewer  == [read EXCEPT !.launches = FALSE, !.stats = FALSE]
minimal_read     == [metadata_viewer EXCEPT !.measures = FALSE, !.own_setup = TRUE,
                                            !.frees_without_pool = FALSE]
minimal_generate == [minimal_read EXCEPT !.rx = FALSE, !.tx = TRUE, !.early = TRUE]
basic            == minimal_read
flagging         == [minimal_read EXCEPT !.mark_set = TRUE]
table_filler     == [minimal_read EXCEPT !.own_setup = FALSE, !.filler = TRUE, !.early = TRUE]

VARIABLES dpdk, workers_d, i, lcore_args, lcore_state, index, main, stop

Jobs == INSTANCE WorkerJobs

VARIABLES app,         \* the application that runs
          pc,          \* where its main() is
          handlers,    \* SIGINT and SIGTERM are caught
          pool,        \* the mbuf pool exists
          eal,         \* the EAL: "up" until rte_eal_cleanup
          dev,         \* each port as the driver knows it
          queues,      \* the queues that are set up: <<port, queue, direction>>
          port_id, queue_id,  \* device_setup's loop variables
          measurement, \* the three arrays of struct measurement_settings
          ignored      \* history: bonding's setup failed somewhere and went on

jvars == <<dpdk, workers_d, i, lcore_args, lcore_state, index, main, stop>>
devs  == <<eal, dev, queues, port_id, queue_id, ignored>>
vars  == <<jvars, app, pc, handlers, pool, devs, measurement>>

PortIds == 0 .. dpdk.ports - 1
Arrays  == {"pre_bytes", "pre_packets", "pre_time"}
-------------------------------------------------------------------------------
Init ==
    /\ Jobs!Init
    /\ app \in Apps
    /\ app.own_setup \/ app.bonds => dpdk.ports = 1
    /\ pc = "init"
    /\ handlers = FALSE
    /\ pool = FALSE
    /\ eal = "up"
    /\ dev = [p \in PortIds |-> "off"]
    /\ queues = {}
    /\ port_id = 0
    /\ queue_id = 0
    /\ ignored = FALSE
    /\ measurement = [a \in Arrays |-> "garbage"]

At(here, there) == pc = here /\ pc' = there

(* init() returns ERROR_DONT_CLEANUP: rte_eal_init, the options or the     *)
(* number of worker cores is at fault.  main leaves through rte_exit.      *)
InitFails ==
    /\ At("init", "exited")
    /\ UNCHANGED <<jvars, app, handlers, pool, devs, measurement>>

(* time_variables_init: three allocations in this order; the first failure *)
(* returns at once, and the pointers behind it keep what the stack held.   *)
MallocOrder == <<"pre_bytes", "pre_packets", "pre_time">>

AfterMallocs(n) ==      \* n allocations succeed, the next one, if any, fails
    [a \in Arrays |->
        IF \E k \in 1 .. n : MallocOrder[k] = a THEN "heap"
        ELSE IF n < 3 /\ MallocOrder[n + 1] = a THEN "null"
        ELSE measurement[a]]

TimeVariablesUnchecked ==
    /\ pc = "init" /\ app.measures
    /\ \E n \in 0 .. 3 : measurement' = AfterMallocs(n)
    /\ pc' = "signals"
    /\ UNCHANGED <<jvars, app, handlers, pool, devs>>

time_variables_init ==
    /\ pc = "init" /\ app.measures
    /\ \E n \in 0 .. 3 :
         /\ measurement' = AfterMallocs(n)
         /\ pc' = IF n = 3 THEN "signals" ELSE "failed_free"
    /\ UNCHANGED <<jvars, app, handlers, pool, devs>>

NothingToMeasure ==
    /\ At("init", "signals")
    /\ ~ app.measures
    /\ UNCHANGED <<jvars, app, handlers, pool, devs, measurement>>

(* generate refuses packets longer than an mbuf before it does anything    *)
(* else.                                                                   *)
PacketTooLong ==
    /\ At("signals", "failed_free")
    /\ app.checks_length
    /\ UNCHANGED <<jvars, app, handlers, pool, devs, measurement>>

RegisterHandlers ==
    /\ At("signals", "pool")
    /\ handlers' = TRUE
    /\ UNCHANGED <<jvars, app, pool, devs, measurement>>

PoolCreated ==
    /\ At("pool", "port")
    /\ pool' = TRUE
    /\ UNCHANGED <<jvars, app, handlers, devs, measurement>>

PoolFails ==
    /\ pc = "pool"
    /\ pc' = IF app.frees_without_pool THEN "failed_free" ELSE "exited"
    /\ UNCHANGED <<jvars, app, handlers, pool, devs, measurement>>
-------------------------------------------------------------------------------
(* device_setup: the ports one after the other; whatever fails, the ports  *)
(* before it stay started.  An application that sets up its port itself    *)
(* leaves at once through rte_exit.                                        *)
SetupFailed == IF app.own_setup THEN "exited" ELSE "failed_cleanup"

HasPort == port_id < dpdk.ports /\ ~ app.bonds
HasQueue == queue_id < dpdk.queues_per_port

Directions == (IF app.rx THEN {"rx"} ELSE {}) \cup (IF app.tx THEN {"tx"} ELSE {})

SetupDone ==
    /\ At("port", "jobs")
    /\ ~ HasPort /\ ~ app.bonds
    /\ UNCHANGED <<jvars, app, handlers, pool, devs, measurement>>

(* rte_eth_dev_info_get, the check of max_tx_queues, and port_init.        *)
PortConfigured ==
    /\ At("port", "queue")
    /\ HasPort
    /\ dev' = [dev EXCEPT ![port_id] = "configured"]
    /\ queue_id' = 0
    /\ UNCHANGED <<jvars, app, handlers, pool, eal, queues, port_id, measurement, ignored>>

PortFailsLeaveStarted ==
    /\ At("port", "failed_free")
    /\ HasPort
    /\ UNCHANGED <<jvars, app, handlers, pool, devs, measurement>>

PortFails ==
    /\ At("port", SetupFailed)
    /\ HasPort
    /\ UNCHANGED <<jvars, app, handlers, pool, devs, measurement>>

QueueSetUp ==
    /\ pc = "queue"
    /\ HasQueue
    /\ queues' = queues \cup {<<port_id, queue_id, d>> : d \in Directions}
    /\ queue_id' = queue_id + 1
    /\ UNCHANGED <<jvars, app, pc, handlers, pool, eal, dev, port_id, measurement, ignored>>

(* The receive side comes first; it stays set up when the transmit side    *)
(* fails.                                                                  *)
QueueFails ==
    /\ At("queue", SetupFailed)
    /\ HasQueue
    /\ \E done \in {{}, IF app.rx /\ app.tx THEN {"rx"} ELSE {}} :
         queues' = queues \cup {<<port_id, queue_id, d>> : d \in done}
    /\ UNCHANGED <<jvars, app, handlers, pool, eal, dev, port_id, queue_id, measurement, ignored>>

PortStarted ==
    /\ At("queue", "port")
    /\ ~ HasQueue
    /\ dev' = [dev EXCEPT ![port_id] = "started"]
    /\ port_id' = port_id + 1
    /\ UNCHANGED <<jvars, app, handlers, pool, eal, queues, queue_id, measurement, ignored>>

PortStartFails ==
    /\ At("queue", SetupFailed)
    /\ ~ HasQueue
    /\ UNCHANGED <<jvars, app, handlers, pool, devs, measurement>>

(* setup_bonded_port: fewer than two ports, or a bonded port that cannot   *)
(* be made of them, end the process; what rte_eth_dev_configure, the queue *)
(* setups and rte_eth_dev_start return is not looked at.                   *)
BondFails ==
    /\ pc \in {"pool", "port"} /\ pc' = "exited"
    /\ app.bonds
    /\ UNCHANGED <<jvars, app, handlers, pool, devs, measurement>>

AllQueues == PortIds \X (0 .. dpdk.queues_per_port - 1) \X Directions

BondedPort ==
    /\ At("port", "jobs")
    /\ app.bonds
    /\ \E state \in {"off", "configured", "started"} : dev' = [p \in PortIds |-> state]
    /\ queues' \in SUBSET AllQueues
    /\ ignored' = (dev'[0] # "started" \/ queues' # AllQueues)
    /\ UNCHANGED <<jvars, app, handlers, pool, eal, port_id, queue_id, measurement>>

device_setup == \/ BondFails \/ BondedPort
                \/ SetupDone \/ PortConfigured \/ PortFails \/ QueueSetUp
                \/ QueueFails \/ PortStarted \/ PortStartFails
-------------------------------------------------------------------------------
LaunchWorkers ==
    /\ pc = "jobs" /\ app.launches
    /\ \/ Jobs!workers_job_init
       \/ Jobs!workers_job_assign
       \/ Jobs!rte_eal_remote_launch
    /\ UNCHANGED <<app, pc, handlers, pool, devs, measurement>>

(* After the launch loop: receive and transmit go straight to the wait.    *)
EnterLoopAlways ==
    /\ pc = "jobs" /\ app.launches
    /\ Jobs!LaunchDone
    /\ pc' = "stats_loop"
    /\ UNCHANGED <<app, handlers, pool, devs, measurement>>

EnterLoopClearStop ==
    /\ pc = "jobs" /\ app.launches /\ main = "assign" /\ i = WorkerCores
    /\ main' = "launched"
    /\ stop' = FALSE
    /\ pc' = IF app.stats THEN "stats_loop" ELSE "wait"
    /\ UNCHANGED <<dpdk, workers_d, i, lcore_args, lcore_state, index,
                   app, handlers, pool, devs, measurement>>

EnterLoop ==
    /\ pc = "jobs" /\ app.launches
    /\ Jobs!LaunchDone
    /\ pc' = IF app.stats THEN "stats_loop" ELSE "wait"
    /\ UNCHANGED <<app, handlers, pool, devs, measurement>>

(* while (!stop_loop()) gather_stats(): main only reads until the flag is  *)
(* set.                                                                    *)
LeaveLoop ==
    /\ At("stats_loop", "wait")
    /\ stop
    /\ UNCHANGED <<jvars, app, handlers, pool, devs, measurement>>

WaitForStopOnly ==
    /\ At("wait", "final_stats")
    /\ stop
    /\ UNCHANGED <<jvars, app, handlers, pool, devs, measurement>>

WaitForWorkers ==
    /\ At("wait", "final_stats")
    /\ Jobs!WaitForLcores
    /\ UNCHANGED <<app, handlers, pool, devs, measurement>>

(* The other examples do the work in main itself; flagging first creates   *)
(* its record of marks.                                                    *)
SetCreateFails ==
    /\ At("jobs", "exited")
    /\ app.mark_set
    /\ dev' = [dev EXCEPT ![0] = "stopped"]
    /\ UNCHANGED <<jvars, app, handlers, pool, eal, queues, port_id, queue_id, measurement, ignored>>

EnterMainLoop ==
    /\ At("jobs", "main_loop")
    /\ ~ app.launches
    /\ UNCHANGED <<jvars, app, handlers, pool, devs, measurement>>

LeaveMainLoop ==
    /\ At("main_loop", "final_stats")
    /\ stop
    /\ UNCHANGED <<jvars, app, handlers, pool, devs, measurement>>

(* minimal_generate is out of mbufs; table_filler has created its rules or *)
(* one could not be created.                                               *)
MainLoopEnds ==
    /\ At("main_loop", "final_stats")
    /\ app.early
    /\ UNCHANGED <<jvars, app, handlers, pool, devs, measurement>>

(* table_filler knows two of the six keys the command line may name.       *)
UnsupportedKey ==
    /\ At("main_loop", "failed_cleanup")
    /\ app.filler
    /\ UNCHANGED <<jvars, app, handlers, pool, devs, measurement>>

(* cleanup(dpdk.ports): every requested port, started or not, is stopped   *)
(* (rte_eth_dev_stop leaves a port alone that does not run), then the EAL  *)
(* goes down.                                                              *)
cleanup ==
    /\ pc \in {"final_stats", "failed_cleanup"}
    /\ pc' = CASE ~ app.measures -> "exited"
               [] app.measures /\ pc = "final_stats" -> "free"
               [] app.measures /\ pc = "failed_cleanup" -> "failed_free"
    /\ dev' = [p \in PortIds |-> IF dev[p] = "started" THEN "stopped" ELSE dev[p]]
    /\ eal' = "cleaned"
    /\ UNCHANGED <<jvars, app, handlers, pool, queues, port_id, queue_id, measurement, ignored>>

cleanup_measurement ==
    /\ pc \in {"free", "failed_free"}
    /\ pc' = "exited"
    /\ measurement' = [a \in Arrays |-> "freed"]
    /\ UNCHANGED <<jvars, app, handlers, pool, devs>>
-------------------------------------------------------------------------------
Worker(l) ==
    /\ Jobs!Worker(l)
    /\ UNCHANGED <<app, pc, handlers, pool, devs, measurement>>

(* A worker of generate, receive or transmit gives up: no mbuf, no file,   *)
(* end of the capture, threshold reached.  Nobody looks at what it         *)
(* returns.                                                                *)
WorkerReturns(l) ==
    /\ app.early
    /\ lcore_state[l] = "RUNNING"
    /\ lcore_state' = [lcore_state EXCEPT ![l] = "FINISHED"]
    /\ index' = [index EXCEPT ![l] = Jobs!NotPolling]
    /\ UNCHANGED <<dpdk, workers_d, i, lcore_args, main, stop,
                   app, pc, handlers, pool, devs, measurement>>

Alive == pc \notin {"exited", "killed"}

handle_sig ==
    /\ Alive
    /\ handlers
    /\ Jobs!handle_sig
    /\ UNCHANGED <<app, pc, handlers, pool, devs, measurement>>

(* Before the handlers are registered a signal ends the process.           *)
KilledBySignal ==
    /\ Alive
    /\ ~ handlers
    /\ pc' = "killed"
    /\ UNCHANGED <<jvars, app, handlers, pool, devs, measurement>>
-------------------------------------------------------------------------------
Main == \/ InitFails \/ time_variables_init \/ NothingToMeasure \/ PacketTooLong
        \/ RegisterHandlers \/ PoolCreated \/ PoolFails \/ device_setup
        \/ LaunchWorkers \/ EnterLoop \/ LeaveLoop \/ WaitForWorkers
        \/ SetCreateFails \/ EnterMainLoop \/ LeaveMainLoop
        \/ cleanup \/ cleanup_measurement

Lcores == Jobs!Lcores

Next == \/ Main
        \/ MainLoopEnds
        \/ UnsupportedKey
        \/ \E l \in Lcores : Worker(l) \/ WorkerReturns(l)
        \/ handle_sig
        \/ KilledBySignal

Spec == Init /\ [][Next]_vars

(* Main and every launched worker run on cores of their own.  Work that    *)
(* may end early need not, so WorkerReturns and MainLoopEnds are not fair. *)
FairSpec == Spec /\ WF_vars(Main) /\ \A l \in Lcores : WF_vars(Worker(l))
-------------------------------------------------------------------------------
Running(l) == lcore_state[l] = "RUNNING"

TypeOK ==
    /\ Jobs!TypeOK
    /\ app \in Apps
    /\ pc \in {"init", "signals", "pool", "port", "queue", "jobs", "stats_loop", "wait",
               "main_loop", "final_stats", "free", "failed_cleanup", "failed_free", "exited", "killed"}
    /\ handlers \in BOOLEAN /\ pool \in BOOLEAN
    /\ eal \in {"up", "cleaned"}
    /\ dev \in [PortIds -> {"off", "configured", "started", "stopped"}]
    /\ queues \subseteq PortIds \X (0 .. dpdk.queues_per_port - 1) \X {"rx", "tx"}
    /\ port_id \in 0 .. dpdk.ports
    /\ queue_id \in 0 .. dpdk.queues_per_port
    /\ measurement \in [Arrays -> {"garbage", "null", "heap", "freed"}]
    /\ ignored \in BOOLEAN

(* Packets are polled only while the device runs: the EAL is up, the pool  *)
(* exists, all ports are started, and each queue of a worker's range, or   *)
(* every queue if main does the work, is set up in each direction the      *)
(* application uses.  This is what the order of main (device_setup,        *)
(* launch, rte_eal_mp_wait_lcore, cleanup) is for; bonding has it as far   *)
(* as nothing failed that it did not look at.                              *)
Polled == (UNION {Jobs!RangeOf(l) : l \in {m \in Lcores : Running(m)}})
            \cup (IF pc = "main_loop" THEN Jobs!Queues ELSE {})

WorkersHaveDevice ==
    /\ TypeOK
    /\ (pc = "main_loop" \/ \E l \in Lcores : Running(l)) =>
           /\ eal = "up" /\ pool
           /\ ignored \/ \A p \in PortIds : dev[p] = "started"
           /\ ignored \/ \A q \in Polled, d \in Directions :
                             <<Jobs!PortOf(q), Jobs!QueueOf(q), d>> \in queues

(* Whenever main reads statistics, in the loop and once more at the end,   *)
(* the ports still run and the three arrays are there.                     *)
StatsReadable ==
    pc \in {"stats_loop", "final_stats"} =>
        /\ eal = "up" /\ (ignored \/ \A p \in PortIds : dev[p] = "started")
        /\ app.measures => \A a \in Arrays : measurement[a] = "heap"

(* Every way out of a process that got as far as its devices leaves no     *)
(* port started, no statistics array allocated and no worker running, also *)
(* when device_setup failed halfway.  (When bonding's port cannot be made, *)
(* rte_exit leaves the arrays to the end of the process.)                  *)
NothingLeftBehind ==
    pc = "exited" /\ pool =>
        /\ \A p \in PortIds : dev[p] # "started"
        /\ (app.bonds /\ eal = "up") \/ \A a \in Arrays : measurement[a] # "heap"
        /\ \A l \in Lcores : ~ Running(l)

(* A caught signal ends the process, whenever it arrives: before the       *)
(* workers are launched, while they poll, or while main already waits.     *)
StopEnds == stop ~> pc = "exited"

(* receive and transmit end by themselves once every worker has returned.  *)
WorkersDone == main = "launched" /\ \A l \in Lcores : ~ Running(l)
EndsWithWorkers == WorkersDone /\ ~ app.stats ~> pc = "exited"
===============================================================================
