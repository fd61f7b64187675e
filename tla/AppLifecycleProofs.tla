-------------------------- MODULE AppLifecycleProofs --------------------------
(***************************************************************************)
(* Proofs about AppLifecycle, for any number of worker cores, any ports    *)
(* and queues, and any applications that the record AppKinds describes:    *)
(* workers and main only use a device that is set up, and no way out of    *)
(* main leaves anything behind.                                            *)
(*                                                                         *)
(* The argument: main's place says how far the setup is and whether        *)
(* workers may run; what each worker polls is known from the invariant of  *)
(* WorkerJobs, which the other steps of main leave alone.                  *)
(***************************************************************************)
EXTENDS AppLifecycle, TLAPS

JP == INSTANCE WorkerJobsProofs

(* main uses the devices, or is about to.                                  *)
Working == {"jobs", "stats_loop", "wait", "main_loop", "final_stats"}

(* Where main of the launch sequence is, by where main() is.               *)
LaunchInv ==
    /\ main # "init" => app.launches /\ pc \in {"jobs", "stats_loop", "wait", "final_stats", "free", "exited"}
    /\ main \in {"assign", "launch"} => pc = "jobs"
    /\ main = "launched" => pc \in {"stats_loop", "wait"}
    /\ main = "joined" => pc # "jobs" /\ \A l \in Lcores : ~ Running(l)
    /\ pc = "main_loop" => ~ app.launches
    /\ pc \notin {"init", "signals", "failed_free", "exited", "killed"} => handlers

(* How far the setup of the ports is.                                      *)
SetUp(p) == \A q \in 0 .. dpdk.queues_per_port - 1, d \in Directions : <<p, q, d>> \in queues

DeviceInv ==
    /\ app.own_setup \/ app.bonds => dpdk.ports = 1
    /\ pc \in {"init", "signals", "pool", "port", "queue"} \cup Working => eal = "up"
    /\ pc \in {"port", "queue"} \cup Working => pool
    /\ pc \in {"init", "signals", "pool"} => ~ pool /\ port_id = 0
    /\ pc \in {"init", "signals", "pool", "port"} =>
           /\ app.bonds => port_id = 0
           /\ \A p \in PortIds : p >= port_id => dev[p] = "off"
    /\ pc = "queue" =>
           /\ port_id < dpdk.ports /\ ~ app.bonds
           /\ dev[port_id] = "configured"
           /\ \A p \in PortIds : p > port_id => dev[p] = "off"
           /\ \A q \in 0 .. queue_id - 1, d \in Directions : <<port_id, q, d>> \in queues
    /\ pc \in {"port", "queue"} =>
           \A p \in PortIds : p < port_id => dev[p] = "started" /\ SetUp(p)
    /\ pc \in Working => ignored \/ \A p \in PortIds : dev[p] = "started" /\ SetUp(p)
    /\ pc \in {"free", "failed_free", "exited"} => \A p \in PortIds : dev[p] # "started"

(* What became of the statistics arrays.                                   *)
MeasurementInv ==
    /\ app.measures /\ pc \in {"signals", "pool", "port", "queue", "failed_cleanup", "free"} \cup Working
           => \A a \in Arrays : measurement[a] = "heap"
    /\ ~ app.measures => \A a \in Arrays : measurement[a] # "heap"
    /\ pc = "exited" /\ pool => (app.bonds /\ eal = "up") \/ \A a \in Arrays : measurement[a] # "heap"

IInv == TypeOK /\ JP!IInv /\ LaunchInv /\ DeviceInv /\ MeasurementInv
-------------------------------------------------------------------------------
(* What AppLifecycle knows as Jobs is what the proofs of WorkerJobs speak  *)
(* of.                                                                     *)
LEMMA SameLcores ==
    /\ Lcores = JP!Lcores /\ Jobs!Lcores = JP!Lcores
    /\ \A l \in Lcores : Jobs!Args(l) = JP!Args(l) /\ Jobs!RangeOf(l) = JP!RangeOf(l)
    /\ Jobs!Queues = JP!Queues
    /\ \A q : Jobs!PortOf(q) = JP!PortOf(q) /\ Jobs!QueueOf(q) = JP!QueueOf(q)
    /\ Jobs!NotPolling = JP!NotPolling
  BY DEF Lcores, Jobs!Lcores, JP!Lcores, Jobs!Args, JP!Args, Jobs!ArgsSlot, JP!ArgsSlot,
         Jobs!RangeOf, JP!RangeOf, Jobs!Queues, JP!Queues, Jobs!TotalQueues, JP!TotalQueues,
         Jobs!PortOf, JP!PortOf, Jobs!QueueOf, JP!QueueOf, Jobs!NotPolling, JP!NotPolling

LEMMA SameType == Jobs!TypeOK <=> JP!TypeOK
  BY SameLcores DEF Jobs!TypeOK, JP!TypeOK

LEMMA SameTypeAfter == Jobs!TypeOK' <=> JP!TypeOK'
  BY SameType, PTL

LEMMA SameInit == Jobs!Init => JP!Init
  BY SameLcores DEF Jobs!Init, JP!Init, Jobs!Garbage, JP!Garbage

(* Each step of the launch sequence and of the workers is one of           *)
(* WorkerJobs.                                                             *)
LEMMA SameSteps ==
    /\ Jobs!workers_job_init => JP!Next
    /\ Jobs!workers_job_assign => JP!Next
    /\ Jobs!rte_eal_remote_launch => JP!Next
    /\ Jobs!LaunchDone => JP!Next
    /\ Jobs!WaitForLcores => JP!Next
    /\ \A l \in Lcores : Jobs!Worker(l) => JP!Next
    /\ Jobs!handle_sig => JP!Next
<1> USE SameLcores DEF JP!Next, JP!MainStep, Jobs!dist, JP!dist
<1>1. Jobs!workers_job_init => JP!Next
  BY DEF Jobs!workers_job_init, JP!workers_job_init, Jobs!get_queues_per_lcore, JP!get_queues_per_lcore,
         Jobs!get_remaining_queues, JP!get_remaining_queues, Jobs!TotalQueues, JP!TotalQueues
<1>2. Jobs!workers_job_assign => JP!Next
  <2>1. Jobs!Share = JP!Share
    BY DEF Jobs!Share, JP!Share
  <2> QED
    BY <2>1 DEF Jobs!workers_job_assign, JP!workers_job_assign, Jobs!ArgsSlot, JP!ArgsSlot
<1>3. Jobs!rte_eal_remote_launch => JP!Next
  BY DEF Jobs!rte_eal_remote_launch, JP!rte_eal_remote_launch
<1>4. Jobs!LaunchDone => JP!Next
  BY DEF Jobs!LaunchDone, JP!LaunchDone
<1>5. Jobs!WaitForLcores => JP!Next
  BY DEF Jobs!WaitForLcores, JP!WaitForLcores
<1>6. ASSUME NEW l \in Lcores, Jobs!Worker(l) PROVE JP!Next
  <2>1. Jobs!NextIndex(l) = JP!NextIndex(l)
    BY DEF Jobs!NextIndex, JP!NextIndex
  <2>2. Jobs!RoundStart(l) => JP!RoundStart(l)
    BY DEF Jobs!RoundStart, JP!RoundStart
  <2>3. Jobs!RoundNext(l) => JP!RoundNext(l)
    BY <2>1 DEF Jobs!RoundNext, JP!RoundNext
  <2> QED
    BY <1>6, <2>2, <2>3 DEF Jobs!Worker, JP!Worker
<1>7. Jobs!handle_sig => JP!Next
  BY DEF Jobs!handle_sig, JP!handle_sig
<1> QED
  BY <1>1, <1>2, <1>3, <1>4, <1>5, <1>6, <1>7
-------------------------------------------------------------------------------
(* A worker that returns early leaves what the others were given alone.    *)
LEMMA ReturnKeepsJobs ==
    ASSUME JP!IInv, NEW l \in Lcores, WorkerReturns(l)
    PROVE  JP!IInv'
<1>1. /\ lcore_state[l] = "RUNNING"
      /\ lcore_state' = [lcore_state EXCEPT ![l] = "FINISHED"]
      /\ index' = [index EXCEPT ![l] = JP!NotPolling]
      /\ UNCHANGED <<dpdk, workers_d, i, lcore_args, main, stop>>
  BY SameLcores DEF WorkerReturns
<1>2. JP!TypeOK /\ JP!MainInv /\ JP!LcoresInv /\ JP!CoverInv /\ JP!IndexInv
  BY DEF JP!IInv
<1>3. l \in JP!Lcores
  BY SameLcores
<1>4. JP!TypeOK'
  BY <1>1, <1>2, <1>3 DEF JP!TypeOK, JP!NotPolling
<1>5. /\ JP!Handled' = JP!Handled
      /\ \A k : JP!Prefix(k)' = JP!Prefix(k) /\ JP!HasShare(k)' = JP!HasShare(k)
      /\ JP!get_queues_per_lcore' = JP!get_queues_per_lcore
      /\ JP!get_remaining_queues' = JP!get_remaining_queues
  BY <1>1 DEF JP!Handled, JP!HasShare, JP!Prefix, JP!get_queues_per_lcore, JP!get_remaining_queues, JP!TotalQueues,
              JP!Shares, JP!Least
<1>6. JP!MainInv'
  BY <1>1, <1>2, <1>5 DEF JP!MainInv, JP!Least
<1>7. \A m \in JP!Lcores : JP!Launched(m)' <=> JP!Launched(m)
  BY <1>1, <1>2, <1>3 DEF JP!Launched, JP!TypeOK
<1>8. JP!LcoresInv'
  BY <1>1, <1>2, <1>5, <1>7 DEF JP!LcoresInv
<1>9. JP!CoverInv'
  BY <1>1, <1>2, <1>5 DEF JP!CoverInv
<1>10. JP!IndexInv'
  BY <1>1, <1>2, <1>3, <1>5 DEF JP!IndexInv, JP!TypeOK
<1> QED
  BY <1>4, <1>6, <1>8, <1>9, <1>10 DEF JP!IInv

(* What the actions of AppLifecycle do to the variables of WorkerJobs.     *)
LEMMA JobsStep ==
    ASSUME IInv, [Next]_vars
    PROVE  JP!IInv' /\ dpdk' = dpdk /\ app' = app
<1>1. ASSUME UNCHANGED jvars PROVE JP!IInv'
  <2>1. UNCHANGED JP!vars
    BY <1>1 DEF jvars, JP!vars, JP!dist
  <2> QED
    BY <2>1, JP!InvStep, JobsAssumption DEF IInv
<1>2. JP!Next => JP!IInv'
  BY JP!InvStep, JobsAssumption DEF IInv
<1>3. CASE /\ UNCHANGED <<jvars, app>>
  BY <1>1, <1>3 DEF jvars
<1>4. CASE LaunchWorkers \/ EnterLoop \/ WaitForWorkers \/ handle_sig
  <2>1. JP!Next /\ app' = app
    BY <1>4, SameSteps DEF LaunchWorkers, EnterLoop, WaitForWorkers, handle_sig
  <2>2. dpdk' = dpdk
    BY <1>4 DEF LaunchWorkers, EnterLoop, WaitForWorkers, handle_sig, Jobs!workers_job_init,
                Jobs!workers_job_assign, Jobs!rte_eal_remote_launch, Jobs!LaunchDone,
                Jobs!WaitForLcores, Jobs!handle_sig
  <2> QED
    BY <1>2, <2>1, <2>2
<1>5. ASSUME NEW l \in Lcores, Worker(l)
      PROVE  JP!IInv' /\ dpdk' = dpdk /\ app' = app
  <2>1. JP!Next /\ app' = app
    BY <1>5, SameSteps DEF Worker
  <2>2. dpdk' = dpdk
    BY <1>5 DEF Worker, Jobs!Worker, Jobs!RoundStart, Jobs!RoundNext
  <2> QED
    BY <1>2, <2>1, <2>2
<1>6. ASSUME NEW l \in Lcores, WorkerReturns(l)
      PROVE  JP!IInv' /\ dpdk' = dpdk /\ app' = app
  <2>1. JP!IInv'
    BY <1>6, ReturnKeepsJobs DEF IInv
  <2> QED
    BY <1>6, <2>1 DEF WorkerReturns
<1>7. CASE \/ InitFails \/ time_variables_init \/ NothingToMeasure \/ PacketTooLong
           \/ RegisterHandlers \/ PoolCreated \/ PoolFails \/ device_setup
           \/ LeaveLoop \/ SetCreateFails \/ EnterMainLoop \/ LeaveMainLoop
           \/ cleanup \/ cleanup_measurement \/ MainLoopEnds \/ UnsupportedKey \/ KilledBySignal
           \/ UNCHANGED vars
  <2> UNCHANGED <<jvars, app>>
    BY <1>7 DEF InitFails, time_variables_init, NothingToMeasure, PacketTooLong,
         RegisterHandlers, PoolCreated, PoolFails, device_setup, BondFails, BondedPort, SetupDone,
         PortConfigured, PortFails, QueueSetUp, QueueFails, PortStarted, PortStartFails,
         LeaveLoop, SetCreateFails, EnterMainLoop, LeaveMainLoop,
         cleanup, cleanup_measurement, MainLoopEnds, UnsupportedKey, KilledBySignal, vars
  <2> QED
    BY <1>3
<1> QED
  BY <1>4, <1>5, <1>6, <1>7 DEF Next, Main

(* A worker runs only while main is at the launch, in its loop or waiting. *)
LEMMA RunningFacts ==
    ASSUME JP!IInv, LaunchInv, NEW l \in Lcores, Running(l)
    PROVE  pc \in {"jobs", "stats_loop", "wait"} /\ main # "init" /\ app.launches
<1>1. JP!Launched(l)
  BY DEF Running, JP!Launched
<1>2. main # "init" /\ main \in {"assign", "launch", "launched", "joined"}
  BY <1>1, SameLcores DEF JP!IInv, JP!LcoresInv, JP!TypeOK
<1> QED
  BY <1>2 DEF LaunchInv
-------------------------------------------------------------------------------
(* The settings are natural numbers, the fields of the application are     *)
(* Boolean.                                                                *)
LEMMA Constants ==
    ASSUME JP!IInv, app \in Apps
    PROVE  /\ dpdk.ports \in Nat /\ dpdk.queues_per_port \in Nat
           /\ app.rx \in BOOLEAN /\ app.tx \in BOOLEAN /\ app.bonds \in BOOLEAN
           /\ app.measures \in BOOLEAN /\ app.own_setup \in BOOLEAN /\ app.launches \in BOOLEAN
           /\ app.mark_set \in BOOLEAN /\ app.stats \in BOOLEAN
           /\ app.own_setup => ~ app.measures
           /\ app.mark_set => app.own_setup /\ ~ app.launches
           /\ PortIds = 0 .. dpdk.ports - 1 /\ Directions \subseteq {"rx", "tx"}
<1>1. dpdk \in [ports : Nat, queues_per_port : Nat]
  BY JobsAssumption DEF JP!IInv, JP!TypeOK
<1>2. app \in AppKinds
  BY AppsAssumption
<1> QED
  BY <1>1, <1>2, AppsAssumption DEF AppKinds, PortIds, Directions

LEMMA InvInit == Init => IInv
<1> SUFFICES ASSUME Init PROVE IInv
  OBVIOUS
<1>1. JP!IInv /\ app \in Apps
  BY SameInit, JP!InvInit, JobsAssumption DEF Init
<1>2. Jobs!TypeOK
  BY <1>1, SameType DEF JP!IInv
<1>3. main = "init"
  BY DEF Init, Jobs!Init
<1>4. TypeOK
  <2>1. 0 \in 0 .. dpdk.ports /\ 0 \in 0 .. dpdk.queues_per_port
    BY <1>1, Constants
  <2>2. dev \in [PortIds -> {"off", "configured", "started", "stopped"}]
    BY DEF Init
  <2>3. measurement \in [Arrays -> {"garbage", "null", "heap", "freed"}]
    BY DEF Init
  <2>4. port_id \in 0 .. dpdk.ports /\ queue_id \in 0 .. dpdk.queues_per_port
    BY <2>1 DEF Init
  <2> QED
    BY <1>1, <1>2, <2>2, <2>3, <2>4 DEF Init, TypeOK
<1>5. LaunchInv
  BY <1>3 DEF Init, LaunchInv
<1>6. DeviceInv
  BY <1>1, Constants DEF Init, DeviceInv, Working
<1>7. MeasurementInv
  BY DEF Init, MeasurementInv, Working, Arrays
<1> QED
  BY <1>1, <1>4, <1>5, <1>6, <1>7 DEF IInv
-------------------------------------------------------------------------------
(* What device_setup works on: each port's state and each queue's          *)
(* coordinates have their types after a step.                              *)
DevicesOK ==
    /\ eal \in {"up", "cleaned"} /\ ignored \in BOOLEAN
    /\ dev \in [PortIds -> {"off", "configured", "started", "stopped"}]
    /\ queues \subseteq PortIds \X (0 .. dpdk.queues_per_port - 1) \X {"rx", "tx"}
    /\ port_id \in 0 .. dpdk.ports
    /\ queue_id \in 0 .. dpdk.queues_per_port

LEMMA DevicesStep ==
    ASSUME IInv, [Next]_vars, dpdk' = dpdk, app' = app
    PROVE  DevicesOK'
<1>0. /\ DevicesOK /\ PortIds' = PortIds /\ DeviceInv /\ Directions \subseteq {"rx", "tx"}
      /\ dpdk.ports \in Nat /\ dpdk.queues_per_port \in Nat /\ PortIds = 0 .. dpdk.ports - 1
  BY Constants DEF IInv, TypeOK, DevicesOK, PortIds
<1> USE <1>0 DEF DevicesOK
<1>1. CASE UNCHANGED devs
  BY <1>1 DEF devs
<1>2. CASE PortConfigured
  <2>1. 0 \in 0 .. dpdk.queues_per_port
    OBVIOUS
  <2> QED
    BY <1>2, <2>1 DEF PortConfigured
<1>3. CASE QueueSetUp
  <2>1. port_id \in PortIds /\ queue_id \in 0 .. dpdk.queues_per_port - 1
        /\ queue_id' \in 0 .. dpdk.queues_per_port
    BY <1>3 DEF QueueSetUp, HasQueue, DeviceInv
  <2>2. {<<port_id, queue_id, d>> : d \in Directions}
           \subseteq PortIds \X (0 .. dpdk.queues_per_port - 1) \X {"rx", "tx"}
    BY <2>1
  <2> QED
    BY <1>3, <2>1, <2>2 DEF QueueSetUp
<1>4. CASE QueueFails
  <2>1. port_id \in PortIds /\ queue_id \in 0 .. dpdk.queues_per_port - 1
    BY <1>4 DEF QueueFails, At, HasQueue, DeviceInv
  <2>2. \A done \in {{}, IF app.rx /\ app.tx THEN {"rx"} ELSE {}} :
           {<<port_id, queue_id, d>> : d \in done}
              \subseteq PortIds \X (0 .. dpdk.queues_per_port - 1) \X {"rx", "tx"}
    BY <2>1
  <2> QED
    BY <1>4, <2>2 DEF QueueFails
<1>5. CASE PortStarted
  <2>1. port_id + 1 \in 0 .. dpdk.ports
    BY <1>5 DEF PortStarted, At, DeviceInv
  <2> QED
    BY <1>5, <2>1 DEF PortStarted
<1>6. CASE BondedPort
  <2>1. dev' \in [PortIds -> {"off", "configured", "started", "stopped"}]
    BY <1>6 DEF BondedPort
  <2>2. AllQueues \subseteq PortIds \X (0 .. dpdk.queues_per_port - 1) \X {"rx", "tx"}
    BY DEF AllQueues
  <2> QED
    BY <1>6, <2>1, <2>2 DEF BondedPort
<1>7. CASE SetCreateFails
  BY <1>7 DEF SetCreateFails
<1>8. CASE cleanup
  <2>1. /\ dev' = [p \in PortIds |-> IF dev[p] = "started" THEN "stopped" ELSE dev[p]]
        /\ eal' = "cleaned" /\ UNCHANGED <<queues, port_id, queue_id, ignored>>
    BY <1>8 DEF cleanup
  <2> QED
    BY <2>1
<1>9. CASE InitFails \/ time_variables_init \/ NothingToMeasure \/ PacketTooLong \/ RegisterHandlers
           \/ PoolCreated \/ PoolFails \/ BondFails \/ SetupDone \/ PortFails \/ PortStartFails
  BY <1>1, <1>9 DEF InitFails, time_variables_init, NothingToMeasure, PacketTooLong, RegisterHandlers,
                    PoolCreated, PoolFails, BondFails, SetupDone, PortFails, PortStartFails
<1>10. CASE LaunchWorkers \/ EnterLoop \/ LeaveLoop \/ WaitForWorkers \/ EnterMainLoop \/ LeaveMainLoop
           \/ cleanup_measurement \/ MainLoopEnds \/ UnsupportedKey \/ handle_sig \/ KilledBySignal
           \/ UNCHANGED vars
  BY <1>1, <1>10 DEF LaunchWorkers, EnterLoop, LeaveLoop, WaitForWorkers, EnterMainLoop, LeaveMainLoop,
                     cleanup_measurement, MainLoopEnds, UnsupportedKey, handle_sig, KilledBySignal, vars
<1>11. ASSUME NEW l \in Lcores, Worker(l) \/ WorkerReturns(l) PROVE DevicesOK'
  BY <1>1, <1>11 DEF Worker, WorkerReturns
<1> QED
  BY <1>2, <1>3, <1>4, <1>5, <1>6, <1>7, <1>8, <1>9, <1>10, <1>11 DEF Next, Main, device_setup
-------------------------------------------------------------------------------
(* Where cleanup leaves main.                                              *)
LEMMA CleanupFacts ==
    ASSUME cleanup, app.measures \in BOOLEAN
    PROVE  /\ pc \in {"final_stats", "failed_cleanup"}
           /\ pc' = IF ~ app.measures THEN "exited"
                    ELSE IF pc = "final_stats" THEN "free" ELSE "failed_free"
           /\ dev' = [p \in PortIds |-> IF dev[p] = "started" THEN "stopped" ELSE dev[p]]
           /\ UNCHANGED <<jvars, app, handlers, pool, queues, measurement>>
  BY Zenon DEF cleanup

LEMMA TypeStep ==
    ASSUME IInv, [Next]_vars, JP!IInv', dpdk' = dpdk, app' = app
    PROVE  TypeOK'
<1>1. Jobs!TypeOK'
  BY SameTypeAfter DEF JP!IInv
<1>2. DevicesOK'
  BY DevicesStep
<1>3. measurement' \in [Arrays -> {"garbage", "null", "heap", "freed"}]
  <2>0. measurement \in [Arrays -> {"garbage", "null", "heap", "freed"}]
    BY DEF IInv, TypeOK
  <2>1. CASE time_variables_init
    <3>1. \A n : AfterMallocs(n) \in [Arrays -> {"garbage", "null", "heap", "freed"}]
      BY <2>0, Zenon DEF AfterMallocs
    <3> QED
      BY <2>1, <3>1 DEF time_variables_init
  <2>2. CASE cleanup_measurement
    BY <2>2 DEF cleanup_measurement
  <2>3. CASE UNCHANGED measurement
    BY <2>0, <2>3
  <2>4. CASE \/ InitFails \/ NothingToMeasure \/ PacketTooLong \/ RegisterHandlers
             \/ PoolCreated \/ PoolFails \/ device_setup \/ LaunchWorkers \/ EnterLoop \/ LeaveLoop
             \/ WaitForWorkers \/ SetCreateFails \/ EnterMainLoop \/ LeaveMainLoop \/ cleanup
             \/ MainLoopEnds \/ UnsupportedKey \/ handle_sig \/ KilledBySignal \/ UNCHANGED vars
             \/ \E l \in Lcores : Worker(l) \/ WorkerReturns(l)
    <3> UNCHANGED measurement
      BY <2>4, Zenon DEF InitFails, NothingToMeasure, PacketTooLong, RegisterHandlers,
         PoolCreated, PoolFails, device_setup, BondFails, BondedPort, SetupDone,
         PortConfigured, PortFails, QueueSetUp, QueueFails, PortStarted, PortStartFails,
         LaunchWorkers, EnterLoop, LeaveLoop, WaitForWorkers, SetCreateFails, EnterMainLoop, LeaveMainLoop,
         cleanup, MainLoopEnds, UnsupportedKey, handle_sig, KilledBySignal, vars, Worker, WorkerReturns
    <3> QED
      BY <2>3
  <2> QED
    BY <2>1, <2>2, <2>4, Zenon DEF Next, Main
<1>4. /\ pc' \in {"init", "signals", "pool", "port", "queue", "jobs", "stats_loop", "wait",
                  "main_loop", "final_stats", "free", "failed_cleanup", "failed_free", "exited", "killed"}
      /\ handlers' \in BOOLEAN /\ pool' \in BOOLEAN
  <2>0. TypeOK /\ app.measures \in BOOLEAN
    BY Constants DEF IInv, TypeOK
  <2> USE <2>0 DEF TypeOK, At
  <2>1. CASE InitFails \/ time_variables_init \/ NothingToMeasure \/ PacketTooLong \/ RegisterHandlers
             \/ PoolCreated \/ PoolFails
    BY <2>1 DEF InitFails, time_variables_init, NothingToMeasure, PacketTooLong, RegisterHandlers,
                PoolCreated, PoolFails
  <2>2. CASE device_setup
    BY <2>2 DEF device_setup, BondFails, BondedPort, SetupDone, SetupFailed,
         PortConfigured, PortFails, QueueSetUp, QueueFails, PortStarted, PortStartFails
  <2>3. CASE LaunchWorkers \/ EnterLoop \/ LeaveLoop \/ WaitForWorkers \/ SetCreateFails
             \/ EnterMainLoop \/ LeaveMainLoop \/ MainLoopEnds \/ UnsupportedKey
    BY <2>3 DEF LaunchWorkers, EnterLoop, LeaveLoop, WaitForWorkers, SetCreateFails, EnterMainLoop, LeaveMainLoop,
                MainLoopEnds, UnsupportedKey
  <2>4. CASE cleanup
    BY <2>4, CleanupFacts
  <2>5. CASE cleanup_measurement \/ handle_sig \/ KilledBySignal \/ UNCHANGED vars
             \/ \E l \in Lcores : Worker(l) \/ WorkerReturns(l)
    BY <2>5 DEF cleanup_measurement, handle_sig, KilledBySignal, vars, Worker, WorkerReturns
  <2> QED
    BY <2>1, <2>2, <2>3, <2>4, <2>5 DEF Next, Main
<1> QED
  BY <1>1, <1>2, <1>3, <1>4 DEF IInv, TypeOK, DevicesOK
-------------------------------------------------------------------------------
LEMMA LaunchStep ==
    ASSUME IInv, [Next]_vars, JP!IInv', dpdk' = dpdk, app' = app
    PROVE  LaunchInv'
<1>0. /\ TypeOK /\ JP!IInv /\ LaunchInv
      /\ app.measures \in BOOLEAN /\ app.launches \in BOOLEAN /\ app.stats \in BOOLEAN
      /\ app.mark_set => ~ app.launches
      /\ main \in {"init", "assign", "launch", "launched", "joined"}
  BY Constants DEF IInv, TypeOK, JP!IInv, JP!TypeOK
<1>1. ASSUME UNCHANGED jvars,
             main # "init" => pc' \in {"jobs", "stats_loop", "wait", "final_stats", "free", "exited"},
             main \in {"assign", "launch"} => pc' = "jobs",
             main = "launched" => pc' \in {"stats_loop", "wait"},
             main = "joined" => pc' # "jobs",
             pc' = "main_loop" => ~ app.launches,
             pc' \notin {"init", "signals", "failed_free", "exited", "killed"} => handlers'
      PROVE  LaunchInv'
  BY <1>0, <1>1 DEF LaunchInv, jvars, Running
<1>2. CASE InitFails \/ time_variables_init \/ NothingToMeasure \/ PacketTooLong \/ RegisterHandlers
           \/ PoolCreated \/ PoolFails
  <2> USE DEF InitFails, time_variables_init, NothingToMeasure, PacketTooLong, RegisterHandlers,
              PoolCreated, PoolFails, At
  <2>1. main = "init"
    BY <1>0, <1>2 DEF LaunchInv
  <2>2. pc \in {"init", "signals", "pool"} /\ UNCHANGED jvars /\ pc' \in {"signals", "pool", "port", "failed_free", "exited"}
    BY <1>2
  <2>3. pc' \in {"pool", "port"} => handlers'
    BY <1>0, <1>2 DEF LaunchInv
  <2> QED
    BY <1>1, <2>1, <2>2, <2>3
<1>3. CASE device_setup
  <2>1. /\ pc \in {"pool", "port", "queue"} /\ UNCHANGED jvars /\ handlers' = handlers
        /\ pc' \in {"port", "queue", "jobs", "failed_cleanup", "exited"}
    BY <1>3 DEF device_setup, BondFails, BondedPort, SetupDone, SetupFailed, At,
         PortConfigured, PortFails, QueueSetUp, QueueFails, PortStarted, PortStartFails
  <2>2. main = "init" /\ handlers
    BY <1>0, <2>1 DEF LaunchInv
  <2> QED
    BY <1>1, <2>1, <2>2
<1>4. CASE LaunchWorkers
  <2>1. main' \in {"init", "assign", "launch"} /\ pc = "jobs" /\ pc' = "jobs" /\ app.launches
        /\ handlers' = handlers
    BY <1>4 DEF LaunchWorkers, Jobs!workers_job_init, Jobs!workers_job_assign, Jobs!rte_eal_remote_launch
  <2> QED
    BY <1>0, <2>1 DEF LaunchInv
<1>5. CASE EnterLoop
  <2>1. main' = "launched" /\ pc = "jobs" /\ pc' \in {"stats_loop", "wait"} /\ app.launches
        /\ handlers' = handlers
    BY <1>5 DEF EnterLoop, Jobs!LaunchDone
  <2> QED
    BY <1>0, <2>1 DEF LaunchInv
<1>6. CASE LeaveLoop
  BY <1>0, <1>1, <1>6 DEF LeaveLoop, At, LaunchInv
<1>7. CASE WaitForWorkers
  <2>1. /\ main = "launched" /\ main' = "joined" /\ pc = "wait" /\ pc' = "final_stats"
        /\ handlers' = handlers
        /\ \A l \in Lcores : ~ Running(l)'
    BY <1>7 DEF WaitForWorkers, At, Jobs!WaitForLcores, Running, Lcores
  <2> QED
    BY <1>0, <2>1 DEF LaunchInv
<1>8. CASE SetCreateFails \/ EnterMainLoop \/ LeaveMainLoop \/ MainLoopEnds \/ UnsupportedKey
  <2>1. /\ UNCHANGED jvars /\ handlers' = handlers /\ ~ app.launches
        /\ pc \in {"jobs", "main_loop"} /\ pc' \in {"exited", "main_loop", "final_stats", "failed_cleanup"}
    BY <1>0, <1>8 DEF SetCreateFails, EnterMainLoop, LeaveMainLoop, MainLoopEnds, UnsupportedKey, At, LaunchInv
  <2>2. main = "init" /\ handlers
    BY <1>0, <2>1 DEF LaunchInv
  <2> QED
    BY <1>1, <2>1, <2>2
<1>9. CASE cleanup
  <2>1. /\ pc \in {"final_stats", "failed_cleanup"} /\ pc' \in {"free", "failed_free", "exited"}
        /\ pc' = "failed_free" => pc = "failed_cleanup"
        /\ UNCHANGED <<jvars, handlers>>
    BY <1>0, <1>9, CleanupFacts
  <2>2. main \in {"init", "joined"} /\ (pc = "failed_cleanup" => main = "init") /\ handlers
    BY <1>0, <2>1 DEF LaunchInv
  <2> QED
    BY <1>1, <2>1, <2>2
<1>10. CASE cleanup_measurement
  <2>1. pc \in {"free", "failed_free"} /\ pc' = "exited" /\ UNCHANGED <<jvars, handlers>>
    BY <1>10 DEF cleanup_measurement
  <2>2. main \in {"init", "joined"}
    BY <1>0, <2>1 DEF LaunchInv
  <2> QED
    BY <1>1, <2>1, <2>2
<1>11. CASE KilledBySignal
  <2>1. /\ ~ handlers /\ pc \in {"init", "signals", "failed_free"} /\ pc' = "killed" /\ UNCHANGED jvars
    BY <1>0, <1>11 DEF KilledBySignal, Alive, LaunchInv
  <2>2. main = "init"
    BY <1>0, <2>1 DEF LaunchInv
  <2> QED
    BY <1>1, <2>1, <2>2
<1>12. CASE UNCHANGED vars
  BY <1>0, <1>1, <1>12 DEF vars, LaunchInv
<1>13. CASE handle_sig
  BY <1>0, <1>13 DEF handle_sig, Jobs!handle_sig, Jobs!dist, LaunchInv, Running
<1>14. ASSUME NEW l \in Lcores, Worker(l) \/ WorkerReturns(l) PROVE LaunchInv'
  <2>1. lcore_state[l] = "RUNNING" /\ main' = main /\ UNCHANGED <<pc, handlers>>
    BY <1>14 DEF Worker, WorkerReturns, Jobs!Worker, Jobs!RoundStart, Jobs!RoundNext
  <2>2. main # "joined"
    BY <1>0, <2>1 DEF LaunchInv, Running
  <2> QED
    BY <1>0, <2>1, <2>2 DEF LaunchInv
<1> QED
  BY <1>2, <1>3, <1>4, <1>5, <1>6, <1>7, <1>8, <1>9, <1>10, <1>11, <1>12, <1>13, <1>14 DEF Next, Main
-------------------------------------------------------------------------------
(* A step that leaves the devices alone moves main as follows.             *)
LEMMA QuietDevices ==
    ASSUME DeviceInv, UNCHANGED <<dpdk, app, pool, devs>>,
           pc' \in {"init", "signals", "pool", "port", "queue"} \cup Working => pc' = pc,
           pc' \in {"free", "failed_free", "exited"} /\ pc' # pc => \A p \in PortIds : dev[p] # "started"
    PROVE  DeviceInv'
  BY DEF DeviceInv, devs, PortIds, SetUp, Directions, Working

LEMMA DeviceStep ==
    ASSUME IInv, [Next]_vars, dpdk' = dpdk, app' = app
    PROVE  DeviceInv'
<1>0. /\ DeviceInv /\ LaunchInv /\ DevicesOK /\ TypeOK
      /\ PortIds = 0 .. dpdk.ports - 1 /\ PortIds' = PortIds /\ Directions' = Directions
      /\ dpdk.ports \in Nat /\ dpdk.queues_per_port \in Nat
      /\ app.bonds \in BOOLEAN /\ app.own_setup \in BOOLEAN /\ app.measures \in BOOLEAN
      /\ app.mark_set => app.own_setup
  BY Constants DEF IInv, TypeOK, DevicesOK, PortIds, Directions
<1>1. CASE InitFails \/ time_variables_init \/ NothingToMeasure \/ PacketTooLong \/ RegisterHandlers
           \/ PoolFails
  <2>1. /\ pc \in {"init", "signals", "pool"} /\ UNCHANGED <<pool, devs>>
        /\ pc' \in {"signals", "pool", "failed_free", "exited"}
    BY <1>1 DEF InitFails, time_variables_init, NothingToMeasure, PacketTooLong, RegisterHandlers, PoolFails, At
  <2>2. \A p \in PortIds : dev[p] = "off"
    BY <1>0, <2>1 DEF DeviceInv
  <2> QED
    BY <1>0, <2>1, <2>2 DEF DeviceInv, devs, Working
<1>2. CASE PoolCreated
  <2>1. pc = "pool" /\ pc' = "port" /\ pool' = TRUE /\ UNCHANGED devs
    BY <1>2 DEF PoolCreated, At
  <2>2. \A p \in PortIds : ~ (p < port_id)
    BY <1>0, <2>1 DEF DeviceInv
  <2> QED
    BY <1>0, <2>1, <2>2 DEF DeviceInv, devs, Working
<1>3. CASE BondFails
  <2>1. pc \in {"pool", "port"} /\ pc' = "exited" /\ app.bonds /\ UNCHANGED <<pool, devs>>
    BY <1>3 DEF BondFails
  <2>2. \A p \in PortIds : dev[p] = "off"
    BY <1>0, <2>1 DEF DeviceInv
  <2> QED
    BY <1>0, <2>1, <2>2, QuietDevices DEF Working
<1>4. CASE BondedPort
  <2>1. /\ pc = "port" /\ pc' = "jobs" /\ app.bonds /\ UNCHANGED <<pool, eal, port_id, queue_id>>
        /\ ignored' = (dev'[0] # "started" \/ queues' # AllQueues)
        /\ \E state \in {"off", "configured", "started"} : dev' = [p \in PortIds |-> state]
    BY <1>4 DEF BondedPort, At
  <2>2. ASSUME ~ ignored', NEW p \in PortIds
        PROVE  dev'[p] = "started" /\ SetUp(p)'
    <3>1. dev'[0] = "started" /\ queues' = AllQueues
      BY <2>1, <2>2
    <3>2. p = 0
      BY <1>0, <2>1 DEF DeviceInv
    <3>3. \A q \in 0 .. dpdk.queues_per_port - 1, d \in Directions : <<p, q, d>> \in AllQueues
      BY DEF AllQueues
    <3> QED
      BY <1>0, <3>1, <3>2, <3>3 DEF SetUp
  <2> QED
    BY <1>0, <2>1, <2>2 DEF DeviceInv, Working
<1>5. CASE SetupDone
  <2>1. pc = "port" /\ pc' = "jobs" /\ ~ HasPort /\ ~ app.bonds /\ UNCHANGED <<pool, devs>>
    BY <1>5 DEF SetupDone, At
  <2>2. port_id = dpdk.ports
    BY <1>0, <2>1 DEF HasPort, DevicesOK
  <2>3. \A p \in PortIds : p < port_id
    BY <1>0, <2>2
  <2>4. \A p \in PortIds : dev[p] = "started" /\ SetUp(p)
    BY <1>0, <2>1, <2>3 DEF DeviceInv
  <2>5. \A p \in PortIds : dev'[p] = "started" /\ SetUp(p)'
    BY <1>0, <2>1, <2>4 DEF devs, SetUp
  <2> QED
    BY <1>0, <2>1, <2>5 DEF DeviceInv, devs, Working
<1>6. CASE PortConfigured
  <2>1. /\ pc = "port" /\ pc' = "queue" /\ HasPort /\ dev' = [dev EXCEPT ![port_id] = "configured"]
        /\ queue_id' = 0 /\ UNCHANGED <<pool, eal, queues, port_id, ignored>>
    BY <1>6 DEF PortConfigured, At
  <2>2. port_id \in PortIds /\ port_id < dpdk.ports /\ ~ app.bonds
    BY <1>0, <2>1 DEF HasPort, DevicesOK
  <2>3. \A p \in PortIds : p < port_id => dev'[p] = "started" /\ SetUp(p)'
    BY <1>0, <2>1, <2>2 DEF DeviceInv, DevicesOK, SetUp
  <2>4. dev'[port_id] = "configured" /\ \A p \in PortIds : p > port_id => dev'[p] = "off"
    <3>1. \A p \in PortIds : p > port_id => dev[p] = "off"
      BY <1>0, <2>1, <2>2 DEF DeviceInv
    <3>2. dev'[port_id] = "configured" /\ \A p \in PortIds : p # port_id => dev'[p] = dev[p]
      BY <1>0, <2>1, <2>2 DEF DevicesOK
    <3> QED
      BY <1>0, <2>2, <3>1, <3>2
  <2> QED
    BY <1>0, <2>1, <2>2, <2>3, <2>4 DEF DeviceInv, Working
<1>7. CASE PortFails \/ PortStartFails
  <2>1. /\ pc \in {"port", "queue"} /\ UNCHANGED <<pool, devs>> /\ pc' = SetupFailed
        /\ pc = "port" => port_id < dpdk.ports
    BY <1>7 DEF PortFails, PortStartFails, At, HasPort
  <2>2. ASSUME app.own_setup PROVE \A p \in PortIds : dev[p] # "started"
    <3>1. port_id = 0 /\ \A p \in PortIds : p = 0
      BY <1>0, <2>1, <2>2 DEF DeviceInv, DevicesOK
    <3> QED
      BY <1>0, <2>1, <3>1 DEF DeviceInv
  <2> QED
    BY <1>0, <2>1, <2>2, QuietDevices DEF SetupFailed, Working
<1>8. CASE QueueSetUp
  <2>1. /\ pc = "queue" /\ pc' = "queue" /\ queue_id' = queue_id + 1 /\ UNCHANGED <<pool, eal, dev, port_id, ignored>>
        /\ queues' = queues \cup {<<port_id, queue_id, d>> : d \in Directions}
    BY <1>8 DEF QueueSetUp
  <2>2. \A p \in PortIds : p < port_id => dev'[p] = "started" /\ SetUp(p)'
    BY <1>0, <2>1 DEF DeviceInv, SetUp
  <2>3. ASSUME NEW q \in 0 .. queue_id' - 1, NEW d \in Directions PROVE <<port_id, q, d>> \in queues'
    <3>1. CASE q = queue_id
      BY <2>1, <3>1
    <3>2. CASE q # queue_id
      <4>1. q \in 0 .. queue_id - 1
        BY <1>0, <2>1, <3>2 DEF DevicesOK
      <4> QED
        BY <1>0, <2>1, <4>1 DEF DeviceInv
    <3> QED
      BY <3>1, <3>2
  <2> QED
    BY <1>0, <2>1, <2>2, <2>3 DEF DeviceInv, Working
<1>9. CASE QueueFails
  <2>1. /\ pc = "queue" /\ pc' = SetupFailed /\ UNCHANGED <<pool, eal, dev, port_id, ignored>>
    BY <1>9 DEF QueueFails, At
  <2>2. ASSUME app.own_setup PROVE \A p \in PortIds : dev[p] # "started"
    <3>1. port_id = 0 /\ \A p \in PortIds : p = 0
      BY <1>0, <2>1, <2>2 DEF DeviceInv, DevicesOK
    <3> QED
      BY <1>0, <2>1, <3>1 DEF DeviceInv
  <2> QED
    BY <1>0, <2>1, <2>2 DEF DeviceInv, SetupFailed, Working
<1>10. CASE PortStarted
  <2>1. /\ pc = "queue" /\ pc' = "port" /\ ~ HasQueue /\ dev' = [dev EXCEPT ![port_id] = "started"]
        /\ port_id' = port_id + 1 /\ UNCHANGED <<pool, eal, queues, queue_id, ignored>>
    BY <1>10 DEF PortStarted, At
  <2>2. port_id \in PortIds /\ ~ app.bonds /\ queue_id = dpdk.queues_per_port
    BY <1>0, <2>1 DEF DeviceInv, DevicesOK, HasQueue
  <2>3. SetUp(port_id)
    BY <1>0, <2>1, <2>2 DEF DeviceInv, SetUp
  <2>4. \A p \in PortIds : p < port_id' => dev'[p] = "started" /\ SetUp(p)'
    <3> SUFFICES ASSUME NEW p \in PortIds, p < port_id' PROVE dev'[p] = "started" /\ SetUp(p)'
      OBVIOUS
    <3>1. CASE p = port_id
      <4>1. SetUp(p)'
        BY <1>0, <2>1, <2>3, <3>1 DEF SetUp
      <4> QED
        BY <1>0, <2>1, <2>2, <3>1, <4>1 DEF DevicesOK
    <3>2. CASE p # port_id
      <4>1. p < port_id
        BY <1>0, <2>1, <2>2, <3>2
      <4>2. dev[p] = "started" /\ SetUp(p)
        BY <1>0, <2>1, <4>1 DEF DeviceInv
      <4> QED
        BY <1>0, <2>1, <2>2, <3>2, <4>2 DEF DevicesOK, SetUp
    <3> QED
      BY <3>1, <3>2
  <2>5. \A p \in PortIds : p >= port_id' => dev'[p] = "off"
    <3>1. \A p \in PortIds : p > port_id => dev[p] = "off"
      BY <1>0, <2>1 DEF DeviceInv
    <3> QED
      BY <1>0, <2>1, <2>2, <3>1 DEF DevicesOK
  <2> QED
    BY <1>0, <2>1, <2>2, <2>4, <2>5 DEF DeviceInv, Working
<1>11. CASE SetCreateFails
  <2>1. /\ pc = "jobs" /\ pc' = "exited" /\ app.mark_set /\ dev' = [dev EXCEPT ![0] = "stopped"]
        /\ UNCHANGED <<pool, eal, ignored>>
    BY <1>11 DEF SetCreateFails, At
  <2>2. \A p \in PortIds : p = 0
    BY <1>0, <2>1 DEF DeviceInv
  <2>3. \A p \in PortIds : dev'[p] # "started"
    BY <1>0, <2>1, <2>2 DEF DevicesOK
  <2> QED
    BY <1>0, <2>1, <2>3 DEF DeviceInv, Working
<1>12. CASE LaunchWorkers \/ EnterLoop \/ LeaveLoop \/ WaitForWorkers \/ EnterMainLoop \/ LeaveMainLoop
            \/ MainLoopEnds
  <2>1. pc \in Working /\ pc' \in Working /\ UNCHANGED <<pool, devs>>
    BY <1>12 DEF LaunchWorkers, EnterLoop, LeaveLoop, WaitForWorkers, EnterMainLoop, LeaveMainLoop,
                 MainLoopEnds, At, Working
  <2> QED
    BY <1>0, <2>1 DEF DeviceInv, devs, SetUp, Working
<1>13. CASE UnsupportedKey \/ KilledBySignal
  BY <1>0, <1>13, QuietDevices DEF UnsupportedKey, KilledBySignal, At, Working
<1>14. CASE cleanup
  <2>1. /\ pc' \in {"free", "failed_free", "exited"} /\ pool' = pool
        /\ dev' = [p \in PortIds |-> IF dev[p] = "started" THEN "stopped" ELSE dev[p]]
    BY <1>0, <1>14, CleanupFacts
  <2>2. \A p \in PortIds : dev'[p] # "started"
    BY <2>1
  <2> QED
    BY <1>0, <2>1, <2>2 DEF DeviceInv, Working
<1>15. CASE cleanup_measurement
  <2>1. pc \in {"free", "failed_free"} /\ pc' = "exited" /\ UNCHANGED <<pool, devs>>
    BY <1>15 DEF cleanup_measurement
  <2>2. \A p \in PortIds : dev[p] # "started"
    BY <1>0, <2>1 DEF DeviceInv
  <2> QED
    BY <1>0, <2>1, <2>2, QuietDevices DEF Working
<1>16. CASE handle_sig \/ UNCHANGED vars \/ \E l \in Lcores : Worker(l) \/ WorkerReturns(l)
  <2>1. pc' = pc /\ UNCHANGED <<pool, devs>>
    BY <1>16 DEF handle_sig, vars, Worker, WorkerReturns
  <2> QED
    BY <1>0, <2>1, QuietDevices
<1> QED
  BY <1>1, <1>2, <1>3, <1>4, <1>5, <1>6, <1>7, <1>8, <1>9, <1>10, <1>11, <1>12, <1>13, <1>14, <1>15, <1>16
     DEF Next, Main, device_setup
-------------------------------------------------------------------------------
LEMMA MeasurementStep ==
    ASSUME IInv, [Next]_vars, dpdk' = dpdk, app' = app
    PROVE  MeasurementInv'
<1>0. /\ DeviceInv /\ MeasurementInv /\ TypeOK
      /\ app.bonds \in BOOLEAN /\ app.own_setup \in BOOLEAN /\ app.measures \in BOOLEAN
      /\ app.mark_set => app.own_setup
      /\ app.own_setup => ~ app.measures
  BY Constants DEF IInv, TypeOK
<1> DEFINE Kept == {"signals", "pool", "port", "queue", "failed_cleanup", "free"} \cup Working
<1>1. ASSUME UNCHANGED measurement, pc' \in Kept => pc \in Kept,
             pc' = "exited" /\ pool' => \/ app.bonds /\ eal' = "up"
                                        \/ ~ app.measures
                                        \/ pc = "exited" /\ UNCHANGED <<pool, eal>>
      PROVE  MeasurementInv'
  BY <1>0, <1>1 DEF MeasurementInv
<1>2. CASE time_variables_init
  <2>1. PICK n \in 0 .. 3 : /\ measurement' = AfterMallocs(n)
                            /\ pc' = IF n = 3 THEN "signals" ELSE "failed_free"
    BY <1>2 DEF time_variables_init
  <2>2. ASSUME n = 3 PROVE \A a \in Arrays : AfterMallocs(n)[a] = "heap"
    <3>1. \A a \in Arrays : \E k \in 1 .. n : MallocOrder[k] = a
      <4>1. 1 \in 1 .. n /\ 2 \in 1 .. n /\ 3 \in 1 .. n
        BY <2>2
      <4>2. MallocOrder[1] = "pre_bytes" /\ MallocOrder[2] = "pre_packets" /\ MallocOrder[3] = "pre_time"
        BY DEF MallocOrder
      <4> QED
        BY <4>1, <4>2 DEF Arrays
    <3> QED
      BY <3>1 DEF AfterMallocs
  <2>3. app.measures /\ pc' \in {"signals", "failed_free"} /\ (pc' = "signals" => n = 3)
    BY <1>2, <2>1 DEF time_variables_init
  <2>4. pc' = "signals" => \A a \in Arrays : measurement'[a] = "heap"
    BY <2>1, <2>2, <2>3
  <2> QED
    BY <2>3, <2>4 DEF MeasurementInv, Working
<1>3. CASE cleanup_measurement
  <2>1. pc' = "exited" /\ \A a \in Arrays : measurement'[a] # "heap"
    BY <1>3 DEF cleanup_measurement
  <2> QED
    BY <2>1 DEF MeasurementInv, Working
<1>4. CASE NothingToMeasure
  BY <1>0, <1>4 DEF NothingToMeasure, At, MeasurementInv
<1>5. CASE InitFails \/ PacketTooLong \/ RegisterHandlers \/ PoolFails
  <2>1. /\ pc \in {"init", "signals", "pool"} /\ UNCHANGED <<pool, measurement>>
        /\ pc' \in {"pool", "failed_free", "exited"} /\ (pc' = "pool" => pc = "signals")
    BY <1>5 DEF InitFails, PacketTooLong, RegisterHandlers, PoolFails, At
  <2>2. ~ pool'
    BY <1>0, <2>1 DEF DeviceInv
  <2> QED
    BY <1>1, <2>1, <2>2 DEF Working
<1>6. CASE PoolCreated
  BY <1>1, <1>6 DEF PoolCreated, At, Working
<1>7. CASE BondFails
  <2>1. pc \in {"pool", "port"} /\ pc' = "exited" /\ app.bonds /\ UNCHANGED <<eal, measurement>>
    BY <1>7 DEF BondFails, devs
  <2>2. eal = "up"
    BY <1>0, <2>1 DEF DeviceInv
  <2> QED
    BY <1>1, <2>1, <2>2 DEF Working
<1>8. CASE \/ BondedPort \/ SetupDone \/ PortConfigured \/ PortFails \/ QueueSetUp
           \/ QueueFails \/ PortStarted \/ PortStartFails
  <2>1. /\ pc \in {"port", "queue"} /\ UNCHANGED measurement
        /\ pc' \in {"jobs", "port", "queue"} \/ pc' = SetupFailed
    BY <1>8 DEF BondedPort, SetupDone, PortConfigured, PortFails, QueueSetUp, QueueFails, PortStarted,
                PortStartFails, At
  <2>2. pc' = "exited" => app.own_setup
    BY <2>1 DEF SetupFailed
  <2>3. pc' = "exited" => ~ app.measures
    BY <1>0, <2>2
  <2>4. pc \in Kept
    BY <2>1
  <2> QED
    BY <1>1, <2>1, <2>3, <2>4
<1>9. CASE SetCreateFails
  <2>1. pc = "jobs" /\ pc' = "exited" /\ app.mark_set /\ UNCHANGED measurement
    BY <1>9 DEF SetCreateFails, At
  <2>2. ~ app.measures
    BY <1>0, <2>1
  <2>3. pc \in Kept
    BY <2>1 DEF Working
  <2> QED
    BY <1>1, <2>1, <2>2, <2>3
<1>10. CASE LaunchWorkers \/ EnterLoop \/ LeaveLoop \/ WaitForWorkers \/ EnterMainLoop \/ LeaveMainLoop
            \/ MainLoopEnds \/ UnsupportedKey
  <2>1. pc \in Working /\ pc' \in Working \cup {"failed_cleanup"} /\ UNCHANGED measurement
    BY <1>10 DEF LaunchWorkers, EnterLoop, LeaveLoop, WaitForWorkers, EnterMainLoop, LeaveMainLoop,
                 MainLoopEnds, UnsupportedKey, At, Working
  <2> QED
    BY <1>1, <2>1 DEF Working
<1>11. CASE cleanup
  <2>1. /\ pc \in {"final_stats", "failed_cleanup"} /\ UNCHANGED measurement
        /\ pc' = IF ~ app.measures THEN "exited"
                 ELSE IF pc = "final_stats" THEN "free" ELSE "failed_free"
    BY <1>0, <1>11, CleanupFacts
  <2> QED
    BY <1>0, <1>1, <2>1 DEF Working
<1>12. CASE KilledBySignal
  BY <1>1, <1>12 DEF KilledBySignal, Working
<1>13. CASE handle_sig \/ UNCHANGED vars \/ \E l \in Lcores : Worker(l) \/ WorkerReturns(l)
  <2>1. UNCHANGED <<pc, pool, eal, measurement>>
    BY <1>13 DEF handle_sig, vars, devs, Worker, WorkerReturns
  <2> QED
    BY <1>1, <2>1
<1> QED
  BY <1>2, <1>3, <1>4, <1>5, <1>6, <1>7, <1>8, <1>9, <1>10, <1>11, <1>12, <1>13
     DEF Next, Main, device_setup

LEMMA InvStep == IInv /\ [Next]_vars => IInv'
<1> SUFFICES ASSUME IInv, [Next]_vars PROVE IInv'
  OBVIOUS
<1>1. JP!IInv' /\ dpdk' = dpdk /\ app' = app
  BY JobsStep
<1> QED
  BY <1>1, TypeStep, LaunchStep, DeviceStep, MeasurementStep DEF IInv

(* The inductive invariant: where main is says what is set up, and the     *)
(* workers keep the invariant of WorkerJobs.                               *)
THEOREM Invariance == Spec => []IInv
  BY InvInit, InvStep, PTL DEF Spec
-------------------------------------------------------------------------------
(* What anyone polls are queues of the setting.                            *)
LEMMA PolledExists ==
    ASSUME IInv, NEW q \in Polled
    PROVE  /\ Jobs!PortOf(q) \in PortIds
           /\ Jobs!QueueOf(q) \in 0 .. dpdk.queues_per_port - 1
<1>1. /\ JP!IInv /\ dpdk.ports \in Nat /\ dpdk.queues_per_port \in Nat
      /\ PortIds = 0 .. dpdk.ports - 1
  BY Constants DEF IInv, TypeOK
<1>2. q \in JP!Queues
  <2>1. CASE q \in Jobs!Queues
    BY <2>1, SameLcores
  <2>2. CASE \E l \in Lcores : Running(l) /\ q \in Jobs!RangeOf(l)
    <3>1. PICK l \in Lcores : Running(l) /\ q \in Jobs!RangeOf(l)
      BY <2>2
    <3>2. l \in JP!Lcores /\ JP!Launched(l) /\ q \in JP!RangeOf(l)
      BY <3>1, SameLcores DEF Running, JP!Launched
    <3>3. JP!RangeOf(l) = JP!Prefix(l) .. JP!Prefix(l + 1) - 1
      BY <1>1, <3>2, JP!OwnsShare, JobsAssumption
    <3>4. /\ JP!Prefix(l) \in Nat /\ JP!Prefix(l + 1) \in Nat
          /\ JP!Prefix(l + 1) <= JP!TotalQueues /\ JP!TotalQueues \in Nat
      BY <1>1, <3>2, JP!LcoreFacts, JobsAssumption
    <3> QED
      BY <3>2, <3>3, <3>4 DEF JP!Queues
  <2> QED
    BY <2>1, <2>2 DEF Polled
<1>3. q \in 0 .. dpdk.queues_per_port * dpdk.ports - 1
  BY <1>2 DEF JP!Queues, JP!TotalQueues
<1>4. /\ q \div dpdk.queues_per_port \in 0 .. dpdk.ports - 1
      /\ q % dpdk.queues_per_port \in 0 .. dpdk.queues_per_port - 1
  BY <1>1, <1>3, JP!PortAndQueue, JobsAssumption
<1> QED
  BY <1>1, <1>4 DEF Jobs!PortOf, Jobs!QueueOf

(* Packets are polled only while the EAL is up, the pool is there, all     *)
(* ports are started and all polled queues set up in each direction.       *)
THEOREM DeviceOutlivesWorkers == Spec => []WorkersHaveDevice
<1>1. IInv => WorkersHaveDevice
  <2> SUFFICES ASSUME IInv PROVE WorkersHaveDevice
    OBVIOUS
  <2>1. TypeOK /\ DeviceInv /\ LaunchInv /\ JP!IInv
    BY DEF IInv
  <2>2. ASSUME pc = "main_loop" \/ \E l \in Lcores : Running(l)
        PROVE  pc \in Working
    BY <2>1, <2>2, RunningFacts DEF Working
  <2>3. ASSUME pc \in Working, ~ ignored, NEW q \in Polled, NEW d \in Directions
        PROVE  <<Jobs!PortOf(q), Jobs!QueueOf(q), d>> \in queues
    <3>1. Jobs!PortOf(q) \in PortIds /\ Jobs!QueueOf(q) \in 0 .. dpdk.queues_per_port - 1
      BY PolledExists
    <3>2. SetUp(Jobs!PortOf(q))
      BY <2>1, <2>3, <3>1 DEF DeviceInv
    <3> QED
      BY <3>1, <3>2 DEF SetUp
  <2> QED
    BY <2>1, <2>2, <2>3 DEF WorkersHaveDevice, DeviceInv
<1> QED
  BY <1>1, Invariance, PTL

(* Main reads statistics of running ports into arrays that exist.          *)
THEOREM StatisticsReadable == Spec => []StatsReadable
<1>1. IInv => StatsReadable
  BY DEF IInv, DeviceInv, MeasurementInv, StatsReadable, Working
<1> QED
  BY <1>1, Invariance, PTL

(* No way out of a process that got as far as its devices leaves a port    *)
(* started, an array allocated or a worker running.                        *)
THEOREM NothingLeft == Spec => []NothingLeftBehind
<1>1. IInv => NothingLeftBehind
  BY RunningFacts DEF IInv, DeviceInv, MeasurementInv, NothingLeftBehind
<1> QED
  BY <1>1, Invariance, PTL
===============================================================================
