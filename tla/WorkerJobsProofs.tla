--------------------------- MODULE WorkerJobsProofs ---------------------------
(***************************************************************************)
(* Proofs about WorkerJobs, for every number of worker cores and every     *)
(* ports / queues-per-port setting.                                        *)
(*                                                                         *)
(* The argument: after k lcores, workers_job_assign has handed out exactly *)
(* the queues below Prefix(k), and lcore k's share is Prefix(k) up to      *)
(* Prefix(k + 1) - 1.  Prefix is monotone, so shares are disjoint, and     *)
(* Prefix(WorkerCores) is the number of queues, so nothing is left over.   *)
(***************************************************************************)
EXTENDS WorkerJobs, TLAPS

Least(a, b) == IF a <= b THEN a ELSE b

(* The queues that go to the first k lcores when n are due to each and the *)
(* first r take one more.                                                  *)
Shares(n, r, k) == k * n + Least(k, r)

Prefix(k) == Shares(get_queues_per_lcore, get_remaining_queues, k)

(* The lcores main is done with, the one it is about to launch included.   *)
Handled == IF main = "launch" THEN i + 1 ELSE i
-------------------------------------------------------------------------------
(* One lcore more takes n queues, and one more if it is among the first r. *)
LEMMA SharesStep ==
    ASSUME NEW n \in Nat, NEW r \in Nat, NEW k \in Nat
    PROVE  /\ Shares(n, r, k) \in Nat
           /\ Shares(n, r, k + 1) = Shares(n, r, k) + (IF k < r THEN n + 1 ELSE n)
<1>1. k * n \in Nat /\ (k + 1) * n = k * n + n
  OBVIOUS
<1>2. QED
  BY <1>1 DEF Shares, Least

(* More lcores never have fewer queues.                                    *)
LEMMA SharesMonotone ==
    ASSUME NEW n \in Nat, NEW r \in Nat, NEW a \in Nat, NEW b \in Nat, a <= b
    PROVE  Shares(n, r, a) <= Shares(n, r, b)
<1>1. PICK d \in Nat : b = a + d
  <2>1. b - a \in Nat /\ b = a + (b - a)
    OBVIOUS
  <2>2. QED
    BY <2>1
<1>2. a * n \in Nat /\ d * n \in Nat /\ (a + d) * n = a * n + d * n
  OBVIOUS
<1>3. a * n <= b * n
  BY <1>1, <1>2
<1>4. Least(a, r) <= Least(b, r)
  BY DEF Least
<1>5. QED
  BY <1>1, <1>2, <1>3, <1>4 DEF Shares, Least

(* All lcores together have all the queues.                                *)
LEMMA SharesTotal ==
    ASSUME NEW t \in Nat, NEW w \in Nat \ {0}
    PROVE  /\ t \div w \in Nat
           /\ t % w \in 0 .. w - 1
           /\ Shares(t \div w, t % w, w) = t
<1>1. t \div w \in Nat /\ t % w \in 0 .. w - 1 /\ t = w * (t \div w) + (t % w)
  OBVIOUS
<1>2. QED
  BY <1>1 DEF Shares, Least

(* A queue number is its port and its queue on that port: read.c:51-52     *)
(* never maps two numbers to the same pair, nor any to a port or queue     *)
(* that is not configured.                                                 *)
LEMMA PortAndQueue ==
    ASSUME NEW p \in Nat, NEW n \in Nat, NEW q \in 0 .. n * p - 1
    PROVE  /\ q \div n \in 0 .. p - 1
           /\ q % n \in 0 .. n - 1
           /\ q = n * (q \div n) + (q % n)
<1>1. n \in Nat \ {0}
  BY SMT
<1>2. q = n * (q \div n) + (q % n) /\ q % n \in 0 .. n - 1 /\ q \div n \in Nat
  BY <1>1
<1>3. q \div n <= p - 1
  <2>1. SUFFICES ASSUME q \div n >= p PROVE FALSE
    BY <1>2
  <2>2. PICK d \in Nat : q \div n = p + d
    BY <1>2, <2>1
  <2>3. n * (p + d) = n * p + n * d /\ n * d \in Nat
    OBVIOUS
  <2>4. QED
    BY <1>2, <2>2, <2>3
<1>4. QED
  BY <1>2, <1>3
-------------------------------------------------------------------------------
(* What main has computed so far.                                          *)
MainInv ==
    /\ main = "init" => i = 0
    /\ main = "launch" => i < WorkerCores
    /\ main \in {"launched", "joined"} => i = WorkerCores
    /\ main # "init" =>
         /\ workers_d.queues_per_lcore = get_queues_per_lcore
         /\ workers_d.remaining_queues = get_remaining_queues
         /\ workers_d.start_index = Prefix(Handled)
         /\ workers_d.end_index = Prefix(Handled)
         /\ workers_d.worker_id = IF get_queues_per_lcore > 0
                                  THEN Handled
                                  ELSE Least(Handled, get_remaining_queues)

(* What the lcores were given: lcore l has the queues from Prefix(l) to    *)
(* Prefix(l + 1) - 1, and runs only if there are any.                      *)
HasShare(l) == Prefix(l) < Prefix(l + 1)

LcoresInv ==
    /\ \A l \in Lcores :
         l < Handled /\ main # "init" /\ HasShare(l)
           => /\ lcore_args[l].start_index = Prefix(l)
              /\ lcore_args[l].end_index = Prefix(l + 1)
    /\ \A l \in Lcores : Launched(l) <=> main # "init" /\ l < i /\ HasShare(l)
    /\ main = "launch" => HasShare(i)

(* Every queue below Prefix(Handled) went to some lcore.                   *)
CoverInv ==
    main # "init" =>
        \A q \in 0 .. Prefix(Handled) - 1 :
            \E l \in Lcores : l < Handled /\ Prefix(l) <= q /\ q < Prefix(l + 1)

(* A polling worker runs, and is inside its own share.                     *)
IndexInv ==
    \A l \in Lcores : index[l] # NotPolling =>
        /\ lcore_state[l] = "RUNNING"
        /\ Prefix(l) <= index[l]
        /\ index[l] < Prefix(l + 1)

IInv == TypeOK /\ MainInv /\ LcoresInv /\ CoverInv /\ IndexInv
-------------------------------------------------------------------------------
(* The settings and the number of queues are natural numbers.              *)
LEMMA TotalQueuesNat ==
    ASSUME TypeOK
    PROVE  dpdk.ports \in Nat /\ dpdk.queues_per_port \in Nat /\ TotalQueues \in Nat
<1>1. dpdk \in [ports : Nat, queues_per_port : Nat]
  BY SettingsAssumption DEF TypeOK
<1>2. \A a, b \in Nat : a * b \in Nat
  OBVIOUS
<1>3. QED
  BY <1>1, <1>2 DEF TotalQueues

(* The lemmas on Shares, for the current setting.                          *)
LEMMA PrefixFacts ==
    ASSUME TypeOK
    PROVE  /\ get_queues_per_lcore \in Nat
           /\ get_remaining_queues \in Nat
           /\ Prefix(0) = 0
           /\ Prefix(WorkerCores) = TotalQueues
           /\ \A k \in Nat : Prefix(k) \in Nat
           /\ \A k \in Nat : Prefix(k + 1) = Prefix(k) +
                 (IF k < get_remaining_queues THEN get_queues_per_lcore + 1
                                              ELSE get_queues_per_lcore)
           /\ \A a, b \in Nat : a <= b => Prefix(a) <= Prefix(b)
<1>1. TotalQueues \in Nat /\ WorkerCores \in Nat \ {0}
  BY TotalQueuesNat, WorkerCoresAssumption
<1>2. /\ get_queues_per_lcore \in Nat
      /\ get_remaining_queues \in Nat
      /\ Prefix(WorkerCores) = TotalQueues
  <2>1. /\ TotalQueues \div WorkerCores \in Nat
        /\ TotalQueues % WorkerCores \in 0 .. WorkerCores - 1
        /\ Shares(TotalQueues \div WorkerCores, TotalQueues % WorkerCores, WorkerCores)
             = TotalQueues
    BY <1>1, SharesTotal
  <2>2. TotalQueues % WorkerCores \in Nat
    BY <1>1, <2>1
  <2>3. QED
    BY <2>1, <2>2 DEF get_queues_per_lcore, get_remaining_queues, Prefix
<1>3. Prefix(0) = 0
  BY <1>2 DEF Prefix, Shares, Least
<1>4. \A k \in Nat : /\ Prefix(k) \in Nat
                      /\ Prefix(k + 1) = Prefix(k) +
                           (IF k < get_remaining_queues THEN get_queues_per_lcore + 1
                                                        ELSE get_queues_per_lcore)
  BY <1>2, SharesStep DEF Prefix
<1>5. \A a, b \in Nat : a <= b => Prefix(a) <= Prefix(b)
  BY <1>2, SharesMonotone DEF Prefix
<1>6. QED
  BY <1>2, <1>3, <1>4, <1>5

(* The setting never changes, and with it neither does any share.          *)
LEMMA PrefixStable ==
    ASSUME dpdk' = dpdk
    PROVE  /\ TotalQueues' = TotalQueues
           /\ get_queues_per_lcore' = get_queues_per_lcore
           /\ get_remaining_queues' = get_remaining_queues
           /\ \A k : Prefix(k)' = Prefix(k)
           /\ \A k : HasShare(k)' <=> HasShare(k)
BY DEF TotalQueues, get_queues_per_lcore, get_remaining_queues, Prefix, Shares, HasShare

(* dpdk and what is computed from it never change.                         *)
LEMMA DpdkStable ==
    ASSUME [Next]_vars
    PROVE  dpdk' = dpdk
BY DEF Next, vars, MainStep, Worker, workers_job_init, workers_job_assign,
       rte_eal_remote_launch, LaunchDone, WaitForLcores, RoundStart, RoundNext, handle_sig
-------------------------------------------------------------------------------
(* TypeOK is not inductive alone: the lcore being launched must exist.     *)
TypeInv == TypeOK /\ (main = "launch" => i < WorkerCores)

(* The types hold before workers_job_init.                                 *)
LEMMA InitType == Init => TypeInv
<1> SUFFICES ASSUME Init PROVE TypeInv
  OBVIOUS
<1> USE WorkerCoresAssumption DEF Init
<1>1. Garbage \in [worker_id : Int, start_index : Int, end_index : Int]
  BY DEF Garbage
<1>2. lcore_args \in [Lcores -> [worker_id : Int, start_index : Int, end_index : Int]]
  BY <1>1
<1>3. workers_d \in [worker_id : Nat, start_index : Nat, end_index : Nat,
                     queues_per_lcore : Nat, remaining_queues : Nat]
  BY DEF Init
<1>4. index \in [Lcores -> Int]
  BY DEF NotPolling
<1>5. lcore_state \in [Lcores -> {"WAIT", "RUNNING", "FINISHED"}]
  OBVIOUS
<1>6. dpdk \in Settings /\ i \in 0 .. WorkerCores /\ main = "init"
  BY SMT
<1>7. stop \in BOOLEAN
  BY Zenon
<1>8. QED
  BY <1>2, <1>3, <1>4, <1>5, <1>6, <1>7 DEF TypeInv, TypeOK

(* The share of the next worker is a number of queues.                     *)
LEMMA ShareNat == TypeOK => Share \in Nat
BY DEF TypeOK, Share

(* Every step of main, of a worker and of the signal handler keeps them.   *)
LEMMA TypeStep == TypeInv /\ [Next]_vars => TypeInv'
<1> SUFFICES ASSUME TypeInv, [Next]_vars PROVE TypeInv'
  OBVIOUS
<1> USE DEF TypeInv
<1>0. dpdk' \in Settings /\ WorkerCores \in Nat \ {0}
  BY DpdkStable, WorkerCoresAssumption DEF TypeOK
<1>1. CASE workers_job_init
  <2>1. get_queues_per_lcore \in Nat /\ get_remaining_queues \in Nat
    BY PrefixFacts
  <2>2. QED
    BY <1>0, <1>1, <2>1 DEF workers_job_init, TypeOK
<1>2. CASE workers_job_assign
  <2>1. Share \in Nat
    BY ShareNat
  <2>2. /\ workers_d.end_index + Share \in Nat
        /\ workers_d.worker_id + 1 \in Nat
        /\ i + 1 \in 0 .. WorkerCores
    BY <1>0, <1>2, <2>1 DEF TypeOK, workers_job_assign
  <2>3. CASE workers_d.end_index + Share = workers_d.start_index
    BY <1>0, <1>2, <2>2, <2>3 DEF TypeOK, workers_job_assign
  <2>4. CASE workers_d.end_index + Share # workers_d.start_index
    <3>1. lcore_args' \in [Lcores -> [worker_id : Int, start_index : Int, end_index : Int]]
      BY <1>2, <2>2, <2>4 DEF TypeOK, workers_job_assign
    <3>2. workers_d' \in [worker_id : Nat, start_index : Nat, end_index : Nat,
                          queues_per_lcore : Nat, remaining_queues : Nat]
      BY <1>2, <2>2, <2>4 DEF TypeOK, workers_job_assign
    <3>3. QED
      BY <1>0, <1>2, <2>4, <3>1, <3>2 DEF TypeOK, workers_job_assign
  <2>5. QED
    BY <2>3, <2>4
<1>3. CASE rte_eal_remote_launch
  <2>1. i + 1 \in 0 .. WorkerCores
    BY <1>0, <1>3 DEF TypeOK, rte_eal_remote_launch
  <2>2. QED
    BY <1>0, <1>3, <2>1 DEF TypeOK, rte_eal_remote_launch
<1>4. CASE LaunchDone
  BY <1>0, <1>4 DEF TypeOK, LaunchDone, dist
<1>5. CASE WaitForLcores
  BY <1>0, <1>5 DEF TypeOK, WaitForLcores, dist
<1>6. ASSUME NEW l \in Lcores, RoundStart(l)
      PROVE  TypeInv'
  BY <1>0, <1>6 DEF TypeOK, RoundStart, Args, ArgsSlot, dist
<1>7. ASSUME NEW l \in Lcores, RoundNext(l)
      PROVE  TypeInv'
  <2>1. NextIndex(l) \in Int
    BY DEF NextIndex, TypeOK, NotPolling
  <2>2. QED
    BY <1>0, <1>7, <2>1 DEF TypeOK, RoundNext, dist
<1>8. CASE handle_sig
  BY <1>0, <1>8 DEF TypeOK, handle_sig, dist
<1>9. CASE UNCHANGED vars
  BY <1>9 DEF TypeOK, vars, dist
<1>10. QED
  BY <1>1, <1>2, <1>3, <1>4, <1>5, <1>6, <1>7, <1>8, <1>9
     DEF Next, MainStep, Worker

(* Every variable keeps its type, whatever the number of worker cores and  *)
(* the ports and queues asked for on the command line.                     *)
THEOREM TypeCorrect == Spec => []TypeOK
<1>1. TypeInv => TypeOK
  BY DEF TypeInv
<1>2. QED
  BY <1>1, InitType, TypeStep, PTL DEF Spec
-------------------------------------------------------------------------------
(* The inductive invariant holds before anything is handed out.            *)
LEMMA InvInit == Init => IInv
<1> SUFFICES ASSUME Init PROVE IInv
  OBVIOUS
<1>1. TypeOK
  BY InitType DEF TypeInv
<1>2. main = "init" /\ i = 0
  BY DEF Init
<1>3. \A l \in Lcores : lcore_state[l] = "WAIT" /\ index[l] = NotPolling
  BY DEF Init
<1>4. QED
  BY <1>1, <1>2, <1>3 DEF IInv, MainInv, LcoresInv, CoverInv, IndexInv, Launched

(* workers_job_assign moves end_index by exactly the next lcore's share,   *)
(* also once worker_id has stopped counting.                               *)
LEMMA AssignedShare ==
    ASSUME IInv, workers_job_assign
    PROVE  workers_d.end_index + Share = Prefix(i + 1)
<1>1. main = "assign" /\ i \in Nat
  BY DEF workers_job_assign, IInv, TypeOK
<1>2. /\ get_queues_per_lcore \in Nat
      /\ get_remaining_queues \in Nat
      /\ Prefix(i) \in Nat
      /\ Prefix(i + 1) = Prefix(i) +
           (IF i < get_remaining_queues THEN get_queues_per_lcore + 1
                                        ELSE get_queues_per_lcore)
  BY <1>1, PrefixFacts DEF IInv
<1>3. /\ workers_d.end_index = Prefix(i)
      /\ workers_d.queues_per_lcore = get_queues_per_lcore
      /\ workers_d.remaining_queues = get_remaining_queues
      /\ workers_d.worker_id < get_remaining_queues <=> i < get_remaining_queues
  BY <1>1, <1>2 DEF IInv, MainInv, Handled, Least
<1>4. QED
  BY <1>1, <1>2, <1>3 DEF Share

(* The steps of main keep workers_d at the end of the prefix handed out.   *)
LEMMA MainStepInv ==
    ASSUME IInv, [Next]_vars
    PROVE  MainInv'
<1>0. /\ dpdk' = dpdk /\ TypeOK /\ i \in Nat /\ WorkerCores \in Nat \ {0}
      /\ i <= WorkerCores
  BY DpdkStable, WorkerCoresAssumption DEF IInv, TypeOK
<1>1. /\ get_queues_per_lcore' = get_queues_per_lcore
      /\ get_remaining_queues' = get_remaining_queues
      /\ \A k : Prefix(k)' = Prefix(k)
  BY <1>0, PrefixStable
<1>2. /\ get_queues_per_lcore \in Nat /\ get_remaining_queues \in Nat
      /\ Prefix(0) = 0 /\ Prefix(i) \in Nat /\ Prefix(i + 1) \in Nat
  <2>1. i + 1 \in Nat
    BY <1>0
  <2>2. QED
    BY <1>0, <2>1, PrefixFacts
<1>3. CASE workers_job_init
  <2>1. i' = 0 /\ main' = "assign" /\ Handled' = 0
    BY <1>3 DEF workers_job_init, IInv, MainInv, Handled
  <2>2. /\ Prefix(Handled)' = 0
        /\ Least(0, get_remaining_queues) = 0
    BY <1>1, <1>2, <2>1 DEF Least
  <2>3. QED
    BY <1>1, <1>3, <2>1, <2>2 DEF workers_job_init, MainInv
<1>4. CASE workers_job_assign
  <2>1. workers_d.end_index + Share = Prefix(i + 1)
    BY <1>4, AssignedShare
  <2>2. /\ main = "assign" /\ i < WorkerCores /\ Handled = i
        /\ Handled' = i + 1
    BY <1>4 DEF workers_job_assign, Handled
  <2>3. Prefix(Handled)' = Prefix(i + 1)
    BY <1>1, <2>2
  <2>4. /\ workers_d.start_index = Prefix(i)
        /\ workers_d.queues_per_lcore = get_queues_per_lcore
        /\ workers_d.remaining_queues = get_remaining_queues
        /\ workers_d.worker_id = IF get_queues_per_lcore > 0
                                 THEN i ELSE Least(i, get_remaining_queues)
    BY <2>2 DEF IInv, MainInv
  <2>5. Prefix(i + 1) = Prefix(i) +
           (IF i < get_remaining_queues THEN get_queues_per_lcore + 1
                                        ELSE get_queues_per_lcore)
    BY <1>0, PrefixFacts
  <2>6. workers_d \in [worker_id : Nat, start_index : Nat, end_index : Nat,
                       queues_per_lcore : Nat, remaining_queues : Nat]
    BY <1>0 DEF TypeOK
  <2>7. CASE Prefix(i + 1) = workers_d.start_index
    <3>1. get_queues_per_lcore = 0 /\ ~ (i < get_remaining_queues)
      BY <1>0, <1>2, <2>4, <2>5, <2>7
    <3>2. Least(i + 1, get_remaining_queues) = Least(i, get_remaining_queues)
      BY <1>0, <1>2, <3>1 DEF Least
    <3>3. workers_d' = [workers_d EXCEPT !.end_index = Prefix(i + 1)]
          /\ i' = i + 1 /\ main' = "assign"
      BY <1>4, <2>1, <2>2, <2>7 DEF workers_job_assign
    <3>4. QED
      BY <1>0, <1>1, <2>2, <2>3, <2>4, <2>6, <2>7, <3>1, <3>2, <3>3 DEF MainInv
  <2>8. CASE Prefix(i + 1) # workers_d.start_index
    <3>1. /\ workers_d'.end_index = Prefix(i + 1)
          /\ workers_d'.start_index = Prefix(i + 1)
          /\ workers_d'.worker_id = workers_d.worker_id + 1
          /\ workers_d'.queues_per_lcore = workers_d.queues_per_lcore
          /\ workers_d'.remaining_queues = workers_d.remaining_queues
      BY <1>4, <2>1, <2>6, <2>8 DEF workers_job_assign
    <3>2. i' = i /\ main' = "launch"
      BY <1>4, <2>1, <2>8 DEF workers_job_assign
    <3>3. get_queues_per_lcore = 0 => i < get_remaining_queues
      BY <1>0, <1>2, <2>4, <2>5, <2>8
    <3>4. workers_d'.worker_id = IF get_queues_per_lcore > 0
                                 THEN i + 1 ELSE Least(i + 1, get_remaining_queues)
      BY <1>0, <1>2, <2>4, <3>1, <3>3 DEF Least
    <3>5. QED
      BY <1>1, <2>2, <2>3, <2>4, <3>1, <3>2, <3>4 DEF MainInv
  <2>9. QED
    BY <2>7, <2>8
<1>5. CASE rte_eal_remote_launch
  <2>1. Handled' = Handled /\ i' <= WorkerCores /\ main # "init"
    BY <1>0, <1>5 DEF rte_eal_remote_launch, Handled, IInv, MainInv
  <2>2. Prefix(Handled)' = Prefix(Handled)
    BY <1>1, <2>1
  <2>3. QED
    BY <1>1, <1>5, <2>1, <2>2 DEF rte_eal_remote_launch, MainInv, IInv
<1>6. CASE LaunchDone \/ WaitForLcores
  <2>1. Handled' = Handled /\ main # "init" /\ main' # "launch" /\ main' # "init"
        /\ i' = WorkerCores /\ workers_d' = workers_d
    BY <1>6 DEF LaunchDone, WaitForLcores, Handled, IInv, MainInv, dist
  <2>2. Prefix(Handled)' = Prefix(Handled)
    BY <1>1, <2>1
  <2>3. QED
    BY <1>1, <2>1, <2>2 DEF MainInv, IInv
<1>7. ASSUME i' = i, main' = main, workers_d' = workers_d
      PROVE  MainInv'
  <2>1. Handled' = Handled
    BY <1>7 DEF Handled
  <2>2. Prefix(Handled)' = Prefix(Handled)
    BY <1>1, <2>1
  <2>3. QED
    BY <1>1, <1>7, <2>1, <2>2 DEF MainInv, IInv
<1>8. QED
  BY <1>3, <1>4, <1>5, <1>6, <1>7
     DEF Next, MainStep, Worker, RoundStart, RoundNext, handle_sig, vars, dist
(* A step of main writes the range of the lcore it is at and of no other.  *)
LEMMA LcoresStepInv ==
    ASSUME IInv, [Next]_vars
    PROVE  LcoresInv'
<1>0. /\ dpdk' = dpdk /\ TypeOK /\ i \in Nat /\ WorkerCores \in Nat \ {0}
      /\ Lcores \subseteq Nat
  BY DpdkStable, WorkerCoresAssumption DEF IInv, TypeOK, Lcores
<1>1. /\ \A k : Prefix(k)' = Prefix(k)
      /\ \A k : HasShare(k)' <=> HasShare(k)
  BY <1>0, PrefixStable
<1>2. CASE workers_job_init
  <2>1. i' = 0 /\ main = "init" /\ main' = "assign" /\ Handled' = 0
        /\ lcore_state' = lcore_state
    BY <1>2 DEF workers_job_init, IInv, MainInv, Handled
  <2>2. \A l \in Lcores : ~ (l < 0)
    BY <1>0
  <2>3. QED
    BY <2>1, <2>2 DEF LcoresInv, IInv, Launched
<1>3. CASE workers_job_assign
  <2>1. /\ main = "assign" /\ i < WorkerCores /\ Handled = i /\ Handled' = i + 1
        /\ lcore_state' = lcore_state /\ i \in Lcores
    BY <1>0, <1>3 DEF workers_job_assign, Handled, Lcores
  <2>2. workers_d.end_index + Share = Prefix(i + 1)
    BY <1>3, AssignedShare
  <2>3. workers_d.start_index = Prefix(i)
    BY <2>1 DEF IInv, MainInv
  <2>4. Prefix(i) \in Nat /\ Prefix(i + 1) \in Nat /\ Prefix(i) <= Prefix(i + 1)
    <3>1. i + 1 \in Nat /\ i <= i + 1
      BY <1>0
    <3>2. QED
      BY <1>0, <3>1, PrefixFacts
  <2>5. \A l \in Lcores : l < i + 1 <=> l < i \/ l = i
    BY <1>0
  <2>6. CASE Prefix(i + 1) = workers_d.start_index
    <3>1. lcore_args' = lcore_args /\ i' = i + 1 /\ main' = "assign"
      BY <1>3, <2>1, <2>2, <2>6 DEF workers_job_assign
    <3>2. ~ HasShare(i)
      BY <2>3, <2>4, <2>6 DEF HasShare
    <3>3. QED
      BY <1>1, <2>1, <2>5, <3>1, <3>2 DEF LcoresInv, IInv, Launched
  <2>7. CASE Prefix(i + 1) # workers_d.start_index
    <3>1. /\ lcore_args' = [lcore_args EXCEPT ![i] =
                [worker_id   |-> workers_d.worker_id,
                 start_index |-> workers_d.start_index,
                 end_index   |-> Prefix(i + 1)]]
          /\ i' = i /\ main' = "launch"
      BY <1>3, <2>1, <2>2, <2>7 DEF workers_job_assign, ArgsSlot
    <3>2. HasShare(i)
      BY <2>3, <2>4, <2>7 DEF HasShare
    <3>3. /\ lcore_args'[i].start_index = Prefix(i)
          /\ lcore_args'[i].end_index = Prefix(i + 1)
          /\ \A l \in Lcores : l # i => lcore_args'[l] = lcore_args[l]
      BY <1>0, <2>1, <2>3, <3>1 DEF TypeOK
    <3>4. QED
      BY <1>1, <2>1, <2>5, <3>1, <3>2, <3>3 DEF LcoresInv, IInv, Launched
  <2>8. QED
    BY <2>6, <2>7
<1>4. CASE rte_eal_remote_launch
  <2>1. /\ main = "launch" /\ main' = "assign" /\ i' = i + 1 /\ i < WorkerCores
        /\ Handled = i + 1 /\ Handled' = i + 1 /\ lcore_args' = lcore_args
        /\ lcore_state' = [lcore_state EXCEPT ![i] = "RUNNING"]
    BY <1>4 DEF rte_eal_remote_launch, Handled, IInv, MainInv
  <2>2. i \in Lcores /\ HasShare(i)
    BY <1>0, <2>1 DEF Lcores, IInv, LcoresInv
  <2>3. \A l \in Lcores : Launched(l)' <=> l = i \/ Launched(l)
    BY <1>0, <2>1, <2>2 DEF TypeOK, Launched
  <2>4. \A l \in Lcores : l < i + 1 <=> l < i \/ l = i
    BY <1>0
  <2>5. QED
    BY <1>1, <2>1, <2>2, <2>3, <2>4 DEF LcoresInv, IInv
<1>5. ASSUME i' = i, lcore_args' = lcore_args, main # "init", main # "launch",
             main' # "init", main' # "launch",
             \A l \in Lcores : Launched(l)' <=> Launched(l)
      PROVE  LcoresInv'
  BY <1>1, <1>5 DEF LcoresInv, IInv, Handled
<1>6. ASSUME i' = i, lcore_args' = lcore_args, main' = main,
             \A l \in Lcores : Launched(l)' <=> Launched(l)
      PROVE  LcoresInv'
  BY <1>1, <1>6 DEF LcoresInv, IInv, Handled
<1>7. CASE LaunchDone \/ WaitForLcores
  BY <1>5, <1>7 DEF LaunchDone, WaitForLcores, dist, Launched
<1>8. ASSUME NEW m \in Lcores, RoundStart(m)
      PROVE  LcoresInv'
  <2>1. \A l \in Lcores : Launched(l)' <=> Launched(l)
    BY <1>0, <1>8 DEF RoundStart, Launched, TypeOK
  <2>2. QED
    BY <1>6, <1>8, <2>1 DEF RoundStart, dist
<1>9. CASE handle_sig \/ UNCHANGED vars \/ \E m \in Lcores : RoundNext(m)
  BY <1>6, <1>9 DEF handle_sig, vars, RoundNext, dist, Launched
<1>10. QED
  BY <1>2, <1>3, <1>4, <1>7, <1>8, <1>9 DEF Next, MainStep, Worker

(* An lcore is passed over only if its share is empty.                     *)
LEMMA CoverStepInv ==
    ASSUME IInv, [Next]_vars
    PROVE  CoverInv'
<1>0. /\ dpdk' = dpdk /\ TypeOK /\ i \in Nat /\ WorkerCores \in Nat \ {0}
      /\ Lcores \subseteq Nat
  BY DpdkStable, WorkerCoresAssumption DEF IInv, TypeOK, Lcores
<1>1. \A k : Prefix(k)' = Prefix(k)
  BY <1>0, PrefixStable
<1>2. CASE workers_job_init
  <2>1. Handled' = 0 /\ Prefix(0) = 0
    BY <1>0, <1>2, PrefixFacts DEF workers_job_init, IInv, MainInv, Handled
  <2>2. Prefix(Handled)' = 0
    BY <1>1, <2>1
  <2>3. 0 .. 0 - 1 = {}
    BY SMT
  <2>4. QED
    BY <2>2, <2>3 DEF CoverInv
<1>3. CASE workers_job_assign
  <2>1. /\ main = "assign" /\ main' # "init" /\ i \in Lcores
        /\ Handled = i /\ Handled' = i + 1
    BY <1>0, <1>3 DEF workers_job_assign, Handled, Lcores
  <2>2. Prefix(Handled)' = Prefix(i + 1)
    BY <1>1, <2>1
  <2>3. Prefix(i) \in Nat /\ Prefix(i + 1) \in Nat
    <3>1. i + 1 \in Nat
      BY <1>0
    <3>2. QED
      BY <1>0, <3>1, PrefixFacts
  <2>4. SUFFICES ASSUME NEW q \in 0 .. Prefix(i + 1) - 1
                 PROVE  \E l \in Lcores : l < i + 1 /\ Prefix(l) <= q /\ q < Prefix(l + 1)
    BY <1>1, <2>1, <2>2 DEF CoverInv
  <2>5. CASE q < Prefix(i)
    <3>1. q \in 0 .. Prefix(i) - 1
      BY <2>3, <2>5
    <3>2. PICK l \in Lcores : l < i /\ Prefix(l) <= q /\ q < Prefix(l + 1)
      BY <2>1, <3>1 DEF CoverInv, IInv
    <3>3. QED
      BY <1>0, <3>2
  <2>6. CASE Prefix(i) <= q
    BY <1>0, <2>1, <2>3, <2>6
  <2>7. QED
    BY <2>3, <2>5, <2>6
<1>4. CASE rte_eal_remote_launch
  <2>1. Handled' = Handled /\ main # "init" /\ main' # "init"
    BY <1>4 DEF rte_eal_remote_launch, Handled
  <2>2. Prefix(Handled)' = Prefix(Handled)
    BY <1>1, <2>1
  <2>3. QED
    BY <1>1, <2>1, <2>2 DEF CoverInv, IInv
<1>5. ASSUME Handled' = Handled, main' = "init" => main = "init",
             main = "init" => main' = "init"
      PROVE  CoverInv'
  <2>1. Prefix(Handled)' = Prefix(Handled)
    BY <1>1, <1>5
  <2>2. QED
    BY <1>1, <1>5, <2>1 DEF CoverInv, IInv
<1>6. QED
  BY <1>2, <1>3, <1>4, <1>5
     DEF Next, MainStep, Worker, LaunchDone, WaitForLcores, RoundStart, RoundNext,
         handle_sig, vars, dist, Handled

(* A worker's loop variable stays in its range until it leaves the round.  *)
LEMMA IndexStepInv ==
    ASSUME IInv, [Next]_vars
    PROVE  IndexInv'
<1>0. dpdk' = dpdk /\ TypeOK
  BY DpdkStable DEF IInv
<1>1. \A k : Prefix(k)' = Prefix(k)
  BY <1>0, PrefixStable
<1>2. \A m \in Lcores : Launched(m) =>
         /\ HasShare(m)
         /\ Args(m).start_index = Prefix(m)
         /\ Args(m).end_index = Prefix(m + 1)
  <2>1. \A m \in Lcores : m < i => m < Handled
    BY <1>0, WorkerCoresAssumption DEF Handled, TypeOK, Lcores
  <2>2. QED
    BY <2>1 DEF IInv, LcoresInv, Args, ArgsSlot
<1>3. \A m \in Lcores : m + 1 \in Nat /\ Prefix(m) \in Nat /\ Prefix(m + 1) \in Nat
  <2>1. \A m \in Lcores : m \in Nat /\ m + 1 \in Nat
    BY WorkerCoresAssumption DEF Lcores
  <2>2. QED
    BY <1>0, <2>1, PrefixFacts
<1>4. ASSUME NEW m \in Lcores, RoundStart(m)
      PROVE  IndexInv'
  <2>1. CASE stop
    <3>1. /\ index' = index
          /\ \A l \in Lcores : l # m => lcore_state'[l] = lcore_state[l]
      BY <1>0, <1>4, <2>1 DEF RoundStart, TypeOK
    <3>2. index[m] = NotPolling
      BY <1>4 DEF RoundStart
    <3>3. QED
      BY <1>1, <3>1, <3>2 DEF IndexInv, IInv
  <2>2. CASE ~ stop
    <3>1. /\ lcore_state' = lcore_state
          /\ lcore_state[m] = "RUNNING"
          /\ index' = [index EXCEPT ![m] = Args(m).start_index]
      BY <1>4, <2>2 DEF RoundStart
    <3>2. HasShare(m) /\ Args(m).start_index = Prefix(m)
      BY <1>2, <3>1 DEF Launched
    <3>3. index'[m] = Prefix(m) /\ \A l \in Lcores : l # m => index'[l] = index[l]
      BY <1>0, <3>1, <3>2 DEF TypeOK
    <3>4. QED
      BY <1>1, <1>3, <3>1, <3>2, <3>3 DEF IndexInv, IInv, HasShare
  <2>3. QED
    BY <2>1, <2>2
<1>5. ASSUME NEW m \in Lcores, RoundNext(m)
      PROVE  IndexInv'
  <2>1. /\ lcore_state' = lcore_state
        /\ lcore_state[m] = "RUNNING"
        /\ index[m] # NotPolling
        /\ index' = [index EXCEPT ![m] = NextIndex(m)]
    BY <1>5 DEF RoundNext
  <2>2. Args(m).end_index = Prefix(m + 1)
    BY <1>2, <2>1 DEF Launched
  <2>3. index'[m] = NextIndex(m) /\ \A l \in Lcores : l # m => index'[l] = index[l]
    BY <1>0, <2>1 DEF TypeOK
  <2>4. index[m] \in Int /\ Prefix(m) <= index[m]
    BY <1>0, <2>1 DEF TypeOK, IndexInv, IInv
  <2>5. NextIndex(m) # NotPolling =>
            Prefix(m) <= NextIndex(m) /\ NextIndex(m) < Prefix(m + 1)
    BY <1>3, <2>2, <2>4 DEF NextIndex
  <2>6. QED
    BY <1>1, <2>1, <2>3, <2>5 DEF IndexInv, IInv
<1>6. CASE rte_eal_remote_launch
  <2>1. index' = index /\ \A l \in Lcores :
           lcore_state[l] = "RUNNING" => lcore_state'[l] = "RUNNING"
    BY <1>0, <1>6 DEF rte_eal_remote_launch, TypeOK
  <2>2. QED
    BY <1>1, <2>1 DEF IndexInv, IInv
<1>7. ASSUME UNCHANGED <<index, lcore_state>>
      PROVE  IndexInv'
  BY <1>1, <1>7 DEF IndexInv, IInv
<1>8. QED
  BY <1>4, <1>5, <1>6, <1>7
     DEF Next, MainStep, Worker, workers_job_init, workers_job_assign, LaunchDone,
         WaitForLcores, handle_sig, vars, dist

(* Every step keeps the inductive invariant.                               *)
LEMMA InvStep == IInv /\ [Next]_vars => IInv'
<1> SUFFICES ASSUME IInv, [Next]_vars PROVE IInv'
  OBVIOUS
<1>1. TypeOK'
  <2>1. TypeInv
    BY DEF IInv, MainInv, TypeInv
  <2>2. QED
    BY <2>1, TypeStep DEF TypeInv
<1>2. QED
  BY <1>1, MainStepInv, LcoresStepInv, CoverStepInv, IndexStepInv DEF IInv

THEOREM Invariance == Spec => []IInv
BY InvInit, InvStep, PTL DEF Spec
-------------------------------------------------------------------------------
(* A polling worker's index is a queue of the current setting.             *)
LEMMA PolledIsQueue ==
    ASSUME IInv, NEW l \in Lcores, index[l] # NotPolling
    PROVE  index[l] \in Queues
<1>1. /\ l \in Nat /\ l + 1 \in Nat /\ WorkerCores \in Nat /\ l + 1 <= WorkerCores
      /\ index[l] \in Int /\ Prefix(l) <= index[l] /\ index[l] < Prefix(l + 1)
  BY WorkerCoresAssumption DEF Lcores, IInv, TypeOK, IndexInv
<1>2. /\ Prefix(l) \in Nat /\ Prefix(l + 1) \in Nat
      /\ Prefix(l + 1) <= Prefix(WorkerCores) /\ Prefix(WorkerCores) = TotalQueues
  BY <1>1, PrefixFacts DEF IInv
<1>3. TotalQueues \in Nat
  BY TotalQueuesNat DEF IInv
<1>4. QED
  BY <1>1, <1>2, <1>3 DEF Queues

(* The queue and port a worker computes from its index exist.              *)
THEOREM PollsExisting == Spec => []PollsExistingQueue
<1>1. IInv => PollsExistingQueue
  <2>1. SUFFICES ASSUME IInv, NEW l \in Lcores, index[l] # NotPolling
                 PROVE  /\ PortOf(index[l]) \in 0 .. dpdk.ports - 1
                        /\ QueueOf(index[l]) \in 0 .. dpdk.queues_per_port - 1
    BY DEF PollsExistingQueue
  <2>2. index[l] \in 0 .. dpdk.queues_per_port * dpdk.ports - 1
    BY <2>1, PolledIsQueue DEF Queues, TotalQueues
  <2>3. dpdk.ports \in Nat /\ dpdk.queues_per_port \in Nat
    BY <2>1, TotalQueuesNat DEF IInv
  <2>4. QED
    BY <2>2, <2>3, PortAndQueue DEF PortOf, QueueOf
<1>2. QED
  BY <1>1, Invariance, PTL

(* No queue of any port is ever polled by two lcores at once.              *)
THEOREM Exclusive == Spec => []QueuesExclusive
<1>1. ASSUME IInv, NEW l \in Lcores, NEW m \in Lcores, l < m,
             index[l] # NotPolling, index[m] # NotPolling
      PROVE  index[l] < index[m]
  <2>1. /\ l + 1 \in Nat /\ m \in Nat /\ l + 1 <= m
        /\ index[l] \in Int /\ index[m] \in Int
        /\ index[l] < Prefix(l + 1) /\ Prefix(m) <= index[m]
    BY <1>1, WorkerCoresAssumption DEF Lcores, IInv, TypeOK, IndexInv
  <2>2. Prefix(l + 1) \in Nat /\ Prefix(m) \in Nat /\ Prefix(l + 1) <= Prefix(m)
    BY <1>1, <2>1, PrefixFacts DEF IInv
  <2>3. QED
    BY <2>1, <2>2
<1>2. IInv => QueuesExclusive
  <2>1. SUFFICES ASSUME IInv, NEW l \in Lcores, NEW m \in Lcores, l # m,
                        index[l] # NotPolling, index[m] # NotPolling,
                        PortOf(index[l]) = PortOf(index[m]),
                        QueueOf(index[l]) = QueueOf(index[m])
                 PROVE  FALSE
    BY DEF QueuesExclusive
  <2>2. dpdk.ports \in Nat /\ dpdk.queues_per_port \in Nat
    BY <2>1, TotalQueuesNat DEF IInv
  <2>3. /\ index[l] \in 0 .. dpdk.queues_per_port * dpdk.ports - 1
        /\ index[m] \in 0 .. dpdk.queues_per_port * dpdk.ports - 1
    BY <2>1, PolledIsQueue DEF Queues, TotalQueues
  <2>4. /\ index[l] = dpdk.queues_per_port * PortOf(index[l]) + QueueOf(index[l])
        /\ index[m] = dpdk.queues_per_port * PortOf(index[m]) + QueueOf(index[m])
    BY <2>2, <2>3, PortAndQueue DEF PortOf, QueueOf
  <2>5. index[l] = index[m]
    BY <2>1, <2>4
  <2>6. l < m \/ m < l
    BY <2>1, WorkerCoresAssumption DEF Lcores
  <2>7. index[l] < index[m] \/ index[m] < index[l]
    BY <1>1, <2>1, <2>6
  <2>8. QED
    BY <2>3, <2>5, <2>7
<1>3. QED
  BY <1>2, Invariance, PTL

(* The range of a launched lcore.                                          *)
LEMMA LaunchedRange ==
    ASSUME IInv, AllAssigned, NEW l \in Lcores
    PROVE  /\ Launched(l) <=> HasShare(l)
           /\ Launched(l) => /\ Args(l).start_index = Prefix(l)
                             /\ Args(l).end_index = Prefix(l + 1)
<1>1. main \notin {"init", "launch"} /\ i = WorkerCores /\ Handled = i /\ l < i
  BY WorkerCoresAssumption DEF AllAssigned, IInv, MainInv, Handled, Lcores
<1>2. QED
  BY <1>1 DEF IInv, LcoresInv, Args, ArgsSlot

(* Every queue has its worker once main has launched the last one.         *)
THEOREM NoQueueLeftOut == Spec => []AllQueuesServed
<1>1. IInv => AllQueuesServed
  <2>1. SUFFICES ASSUME IInv, AllAssigned, NEW q \in Queues
                 PROVE  \E l \in Lcores : Launched(l) /\ q \in RangeOf(l)
    BY DEF AllQueuesServed
  <2>2. main # "init" /\ Handled = WorkerCores /\ Prefix(WorkerCores) = TotalQueues
    BY <2>1, PrefixFacts DEF AllAssigned, IInv, MainInv, Handled
  <2>3. PICK l \in Lcores : Prefix(l) <= q /\ q < Prefix(l + 1)
    BY <2>1, <2>2 DEF IInv, CoverInv, Queues
  <2>4. Prefix(l) \in Nat /\ Prefix(l + 1) \in Nat /\ q \in Nat
    <3>1. l \in Nat /\ l + 1 \in Nat
      BY WorkerCoresAssumption DEF Lcores
    <3>2. q \in Nat
      BY <2>1, TotalQueuesNat DEF Queues, IInv
    <3>3. QED
      BY <2>1, <3>1, <3>2, PrefixFacts DEF IInv
  <2>5. Launched(l) /\ Args(l).start_index = Prefix(l) /\ Args(l).end_index = Prefix(l + 1)
    BY <2>1, <2>3, <2>4, LaunchedRange DEF HasShare
  <2>6. QED
    BY <2>3, <2>4, <2>5 DEF RangeOf
<1>2. QED
  BY <1>1, Invariance, PTL

(* No two lcores' shares differ by more than one queue.                    *)
THEOREM Balanced == Spec => []BalancedLoad
<1>1. IInv => BalancedLoad
  <2>1. SUFFICES ASSUME IInv, AllAssigned, NEW l \in Lcores, NEW m \in Lcores
                 PROVE  Load(l) <= Load(m) + 1
    BY DEF BalancedLoad
  <2>2. ASSUME NEW k \in Lcores
        PROVE  Load(k) \in get_queues_per_lcore .. get_queues_per_lcore + 1
    <3>1. /\ k \in Nat /\ get_queues_per_lcore \in Nat
          /\ Prefix(k) \in Nat /\ Prefix(k + 1) \in Nat
          /\ Prefix(k + 1) = Prefix(k) +
                (IF k < get_remaining_queues THEN get_queues_per_lcore + 1
                                             ELSE get_queues_per_lcore)
      <4>1. k \in Nat /\ k + 1 \in Nat
        BY WorkerCoresAssumption DEF Lcores
      <4>2. QED
        BY <2>1, <4>1, PrefixFacts DEF IInv
    <3>2. Load(k) = IF HasShare(k) THEN Prefix(k + 1) - Prefix(k) ELSE 0
      BY <2>1, LaunchedRange DEF Load
    <3>3. QED
      BY <3>1, <3>2 DEF HasShare
  <2>3. get_queues_per_lcore \in Nat
    BY <2>1, PrefixFacts DEF IInv
  <2>4. QED
    BY <2>2, <2>3
<1>2. QED
  BY <1>1, Invariance, PTL

(* What a running worker reads through its argument pointer never changes: *)
(* main writes only the slot of an lcore it has not launched yet.          *)
THEOREM ArgumentsStable == Spec => ArgsStable
<1>1. ASSUME IInv, [Next]_vars
      PROVE  [\A l \in Lcores : Launched(l) => Args(l)' = Args(l)]_vars
  <2>1. SUFFICES ASSUME NEW l \in Lcores, Launched(l)
                 PROVE  lcore_args'[l] = lcore_args[l]
    BY DEF Args, ArgsSlot
  <2>2. CASE workers_job_assign
    <3>1. l # i
      <4>1. l < i
        BY <1>1, <2>1 DEF IInv, LcoresInv
      <4>2. QED
        BY <1>1, <4>1 DEF IInv, TypeOK
    <3>2. QED
      BY <1>1, <2>1, <2>2, <3>1 DEF workers_job_assign, ArgsSlot, IInv, TypeOK
  <2>3. CASE UNCHANGED lcore_args
    BY <2>3
  <2>4. QED
    BY <1>1, <2>2, <2>3
       DEF Next, MainStep, Worker, workers_job_init, rte_eal_remote_launch, LaunchDone,
           WaitForLcores, RoundStart, RoundNext, handle_sig, vars, dist
<1>2. QED
  BY <1>1, Invariance, PTL DEF Spec, ArgsStable
-------------------------------------------------------------------------------
(* The refinement: launching an lcore gives it its range, a worker's round *)
(* polls, everything else stutters.                                        *)
Owns(l, q) == Launched(l) /\ q \in RangeOf(l)

(* A launched lcore owns its share, the part between two prefixes.         *)
LEMMA OwnsShare ==
    ASSUME IInv, NEW l \in Lcores, Launched(l)
    PROVE  /\ HasShare(l) /\ RangeOf(l) = Prefix(l) .. Prefix(l + 1) - 1
           /\ Args(l).start_index = Prefix(l) /\ Args(l).end_index = Prefix(l + 1)
<1>1. l < i /\ main # "init" /\ HasShare(l)
  BY DEF IInv, LcoresInv
<1>2. l < Handled
  BY <1>1, WorkerCoresAssumption DEF Handled, IInv, TypeOK, Lcores
<1>3. QED
  BY <1>1, <1>2 DEF IInv, LcoresInv, RangeOf, Args, ArgsSlot

(* The prefixes that bound an lcore's share are numbers of queues.         *)
LEMMA LcoreFacts ==
    ASSUME IInv, NEW l \in Lcores
    PROVE  /\ l \in Nat /\ l + 1 \in Nat /\ l # -1
           /\ Prefix(l) \in Nat /\ Prefix(l + 1) \in Nat
           /\ Prefix(l + 1) <= TotalQueues /\ TotalQueues \in Nat
<1>1. l \in Nat /\ l + 1 \in Nat /\ WorkerCores \in Nat /\ l + 1 <= WorkerCores
  BY WorkerCoresAssumption DEF Lcores
<1>2. QED
  BY <1>1, PrefixFacts, TotalQueuesNat DEF IInv

(* A queue has one owner at most.                                          *)
LEMMA OneOwner ==
    ASSUME IInv, NEW l \in Lcores, NEW m \in Lcores, NEW q, Owns(l, q), Owns(m, q)
    PROVE  l = m
<1>1. ASSUME NEW a \in Lcores, NEW b \in Lcores, a < b, Owns(a, q), Owns(b, q)
      PROVE  FALSE
  <2>1. q \in Prefix(a) .. Prefix(a + 1) - 1 /\ q \in Prefix(b) .. Prefix(b + 1) - 1
    BY <1>1, OwnsShare DEF Owns
  <2>2. a + 1 <= b /\ Prefix(a + 1) <= Prefix(b)
    <3>1. a + 1 \in Nat /\ b \in Nat /\ a + 1 <= b
      BY <1>1, WorkerCoresAssumption DEF Lcores
    <3>2. QED
      BY <3>1, PrefixFacts DEF IInv
  <2>3. QED
    BY <1>1, <2>1, <2>2, LcoreFacts
<1>2. l < m \/ m < l \/ l = m
  BY LcoreFacts
<1>3. QED
  BY <1>1, <1>2

(* OwnerOf names the lcore that owns a queue, or nobody.                   *)
LEMMA OwnerMeaning ==
    ASSUME IInv, NEW q
    PROVE  /\ \A l \in Lcores : Owns(l, q) => OwnerOf(q) = l
           /\ \A l \in Lcores : OwnerOf(q) = l => Owns(l, q)
           /\ (\A l \in Lcores : ~ Owns(l, q)) => OwnerOf(q) = -1
<1>1. OwnerOf(q) = IF \E l \in Lcores : Owns(l, q)
                   THEN CHOOSE l \in Lcores : Owns(l, q)
                   ELSE -1
  BY DEF OwnerOf, Owns
<1>2. ASSUME NEW l \in Lcores, Owns(l, q)
      PROVE  OwnerOf(q) = l
  <2>1. OwnerOf(q) \in Lcores /\ Owns(OwnerOf(q), q)
    BY <1>1, <1>2
  <2>2. QED
    BY <1>2, <2>1, OneOwner
<1>3. ASSUME NEW l \in Lcores, OwnerOf(q) = l
      PROVE  Owns(l, q)
  <2>1. l # -1
    BY LcoreFacts
  <2>2. QED
    BY <1>1, <1>3, <2>1
<1>4. QED
  BY <1>1, <1>2, <1>3

(* What an lcore owns is a queue of the current setting.                   *)
LEMMA OwnedIsQueueId ==
    ASSUME IInv, NEW l \in Lcores, NEW q \in Prefix(l) .. Prefix(l + 1) - 1
    PROVE  q \in QueueIds
<1>1. q \in 0 .. TotalQueues - 1
  BY LcoreFacts
<1>2. dpdk \in Settings /\ TotalQueues = dpdk.ports * dpdk.queues_per_port
  <2>1. \A a, b \in Nat : a * b = b * a
    OBVIOUS
  <2>2. QED
    BY <2>1, TotalQueuesNat DEF IInv, TypeOK, TotalQueues
<1>3. QED
  BY <1>1, <1>2 DEF QueueIds

(* Initially no queue has an owner and nobody polls.                       *)
LEMMA InitRefines == Init => Partition!Init
<1> SUFFICES ASSUME Init PROVE Partition!Init
  OBVIOUS
<1>1. \A q \in QueueIds : OwnerOf(q) = -1
  BY DEF Init, OwnerOf, Launched
<1>2. index = [l \in Lcores |-> -1]
  BY DEF Init, NotPolling
<1>3. QED
  BY <1>1, <1>2 DEF Partition!Init, Partition!Nobody, Partition!NoQueue

(* The launch of an lcore hands it a non-empty set of free queues.         *)
LEMMA LaunchGives ==
    ASSUME IInv, IInv', rte_eal_remote_launch
    PROVE  Partition!Give(i)
<1>1. /\ main = "launch" /\ lcore_args' = lcore_args /\ index' = index /\ i \in Lcores
      /\ lcore_state' = [lcore_state EXCEPT ![i] = "RUNNING"] /\ HasShare(i)
      /\ ~ Launched(i) /\ i < Handled
  BY WorkerCoresAssumption
     DEF rte_eal_remote_launch, IInv, MainInv, LcoresInv, TypeOK, Lcores, Handled
<1>2. RangeOf(i) = Prefix(i) .. Prefix(i + 1) - 1
  BY <1>1 DEF IInv, LcoresInv, RangeOf, Args, ArgsSlot
<1>3. \A l \in Lcores : RangeOf(l)' = RangeOf(l)
  BY <1>1 DEF RangeOf, Args, ArgsSlot
<1>4. \A l \in Lcores : Launched(l)' <=> l = i \/ Launched(l)
  BY <1>1 DEF IInv, TypeOK, Launched
<1>5. \A l \in Lcores, q \in QueueIds :
         Owns(l, q)' <=> Owns(l, q) \/ (l = i /\ q \in RangeOf(i))
  BY <1>1, <1>3, <1>4 DEF Owns
<1>6. RangeOf(i) \subseteq QueueIds /\ RangeOf(i) # {}
  <2>1. RangeOf(i) \subseteq QueueIds
    BY <1>1, <1>2, OwnedIsQueueId
  <2>2. Prefix(i) \in RangeOf(i)
    BY <1>1, <1>2, LcoreFacts DEF HasShare
  <2>3. QED
    BY <2>1, <2>2
<1>7. \A q \in QueueIds : OwnerOf(q) # i
  BY <1>1, OwnerMeaning DEF Owns
<1>8. ASSUME NEW q \in RangeOf(i), NEW l \in Lcores, Owns(l, q)
      PROVE  FALSE
  <2>1. l < i /\ l + 1 \in Nat /\ i \in Nat /\ l + 1 <= i
    BY <1>8, WorkerCoresAssumption DEF IInv, LcoresInv, TypeOK, Owns, Lcores
  <2>2. Prefix(l + 1) <= Prefix(i)
    BY <2>1, PrefixFacts DEF IInv
  <2>3. q \in Prefix(l) .. Prefix(l + 1) - 1
    BY <1>8, OwnsShare DEF Owns
  <2>4. q \in Prefix(i) .. Prefix(i + 1) - 1
    BY <1>2
  <2>5. QED
    BY <1>1, <2>2, <2>3, <2>4, LcoreFacts
<1>9. \A q \in RangeOf(i) : OwnerOf(q) = -1
  BY <1>8, OwnerMeaning
<1>10. ASSUME NEW q \in QueueIds
       PROVE  OwnerOf(q)' = IF q \in RangeOf(i) THEN i ELSE OwnerOf(q)
  <2>1. OwnerOf(q)' = IF \E l \in Lcores : Owns(l, q)'
                      THEN CHOOSE l \in Lcores : Owns(l, q)'
                      ELSE -1
    BY DEF OwnerOf, Owns
  <2>2. CASE q \in RangeOf(i)
    <3>1. \A l \in Lcores : Owns(l, q)' <=> l = i
      BY <1>1, <1>5, <1>8, <2>2
    <3>2. QED
      BY <1>1, <2>1, <2>2, <3>1
  <2>3. CASE q \notin RangeOf(i)
    <3>1. \A l \in Lcores : Owns(l, q)' <=> Owns(l, q)
      BY <1>5, <2>3
    <3>2. OwnerOf(q) = IF \E l \in Lcores : Owns(l, q)
                       THEN CHOOSE l \in Lcores : Owns(l, q)
                       ELSE -1
      BY DEF OwnerOf, Owns
    <3>3. QED
      BY <2>1, <2>3, <3>1, <3>2
  <2>4. QED
    BY <2>2, <2>3
<1>11. QED
  BY <1>1, <1>6, <1>7, <1>9, <1>10 DEF Partition!Give, Partition!Nobody

(* A step that leaves the launched lcores and their arguments alone leaves *)
(* the owners alone.                                                       *)
LEMMA OwnersStable ==
    ASSUME \A l \in Lcores : /\ Launched(l)' <=> Launched(l)
                             /\ Launched(l) => RangeOf(l)' = RangeOf(l)
    PROVE  [q \in QueueIds |-> OwnerOf(q)]' = [q \in QueueIds |-> OwnerOf(q)]
<1>1. ASSUME NEW q \in QueueIds PROVE OwnerOf(q)' = OwnerOf(q)
  <2>1. \A l \in Lcores : Owns(l, q)' <=> Owns(l, q)
    BY DEF Owns
  <2>2. (CHOOSE l \in Lcores : Owns(l, q)') = (CHOOSE l \in Lcores : Owns(l, q))
    BY <2>1
  <2>3. QED
    BY <2>1, <2>2 DEF OwnerOf, Owns
<1>2. QED
  BY <1>1

(* Every step gives, polls, rests, or leaves owners and polling alone.     *)
LEMMA StepRefines ==
    ASSUME IInv, IInv', [Next]_vars
    PROVE  [Partition!Next]_(Partition!pvars)
<1>0. TypeOK
  BY DEF IInv
<1>1. CASE rte_eal_remote_launch
  <2>1. i \in Lcores
    BY <1>1, WorkerCoresAssumption DEF rte_eal_remote_launch, IInv, MainInv, TypeOK, Lcores
  <2>2. QED
    BY <1>1, <2>1, LaunchGives DEF Partition!Next
<1>2. CASE workers_job_assign
  <2>1. \A l \in Lcores : Launched(l) => lcore_args'[l] = lcore_args[l]
    <3>1. \A l \in Lcores : Launched(l) => l # i
      BY <1>0, WorkerCoresAssumption DEF IInv, LcoresInv, TypeOK, Lcores
    <3>2. QED
      BY <1>0, <1>2, <3>1 DEF workers_job_assign, ArgsSlot, TypeOK
  <2>2. index' = index /\ lcore_state' = lcore_state
    BY <1>2 DEF workers_job_assign
  <2>3. QED
    BY <2>1, <2>2, OwnersStable DEF Launched, RangeOf, Args, ArgsSlot, Partition!pvars
<1>3. ASSUME lcore_args' = lcore_args,
             \A l \in Lcores : Launched(l)' <=> Launched(l)
      PROVE  [q \in QueueIds |-> OwnerOf(q)]' = [q \in QueueIds |-> OwnerOf(q)]
  BY <1>3, OwnersStable DEF RangeOf, Args, ArgsSlot
<1>4. CASE workers_job_init \/ LaunchDone \/ WaitForLcores \/ handle_sig \/ UNCHANGED vars
  <2>1. lcore_args' = lcore_args /\ lcore_state' = lcore_state /\ index' = index
    BY <1>4 DEF workers_job_init, LaunchDone, WaitForLcores, handle_sig, vars, dist
  <2>2. QED
    BY <1>3, <2>1 DEF Launched, Partition!pvars
<1>5. ASSUME NEW l \in Lcores, RoundStart(l)
      PROVE  [Partition!Next]_(Partition!pvars)
  <2>1. lcore_args' = lcore_args /\ \A m \in Lcores : Launched(m)' <=> Launched(m)
    BY <1>0, <1>5 DEF RoundStart, dist, Launched, TypeOK
  <2>2. CASE stop
    BY <1>3, <1>5, <2>1, <2>2 DEF RoundStart, Partition!pvars
  <2>3. CASE ~ stop
    <3>1. index' = [index EXCEPT ![l] = Args(l).start_index] /\ Launched(l)
      BY <1>5, <2>3 DEF RoundStart, Launched
    <3>2. /\ Args(l).start_index = Prefix(l) /\ Prefix(l) \in RangeOf(l)
          /\ Prefix(l) \in QueueIds
      <4>1. Prefix(l) \in Prefix(l) .. Prefix(l + 1) - 1
        BY <3>1, LcoreFacts, OwnsShare DEF HasShare
      <4>2. QED
        BY <3>1, <4>1, OwnsShare, OwnedIsQueueId
    <3>3. OwnerOf(Prefix(l)) = l
      BY <3>1, <3>2, OwnerMeaning DEF Owns
    <3>4. Partition!Poll(l)
      BY <1>3, <2>1, <3>1, <3>2, <3>3 DEF Partition!Poll
    <3>5. QED
      BY <3>4 DEF Partition!Next
  <2>4. QED
    BY <2>2, <2>3
<1>6. ASSUME NEW l \in Lcores, RoundNext(l)
      PROVE  [Partition!Next]_(Partition!pvars)
  <2>1. /\ lcore_args' = lcore_args /\ Launched(l)
        /\ \A m \in Lcores : Launched(m)' <=> Launched(m)
        /\ index' = [index EXCEPT ![l] = NextIndex(l)]
        /\ index[l] # NotPolling
    BY <1>6 DEF RoundNext, dist, Launched
  <2>2. CASE NextIndex(l) = NotPolling
    <3>1. Partition!Rest(l)
      BY <1>3, <2>1, <2>2 DEF Partition!Rest, Partition!NoQueue, NotPolling
    <3>2. QED
      BY <3>1 DEF Partition!Next
  <2>3. CASE NextIndex(l) # NotPolling
    <3>1. NextIndex(l) \in Prefix(l) .. Prefix(l + 1) - 1
      <4>1. index[l] \in Int /\ Prefix(l) <= index[l]
        BY <1>0, <2>1 DEF IInv, IndexInv, TypeOK
      <4>2. Args(l).end_index = Prefix(l + 1)
        BY <2>1, OwnsShare
      <4>3. QED
        BY <2>3, <4>1, <4>2, LcoreFacts DEF NextIndex
    <3>2. NextIndex(l) \in QueueIds /\ Owns(l, NextIndex(l))
      BY <2>1, <3>1, OwnsShare, OwnedIsQueueId DEF Owns
    <3>3. OwnerOf(NextIndex(l)) = l
      BY <3>2, OwnerMeaning
    <3>4. Partition!Poll(l)
      BY <1>3, <2>1, <3>2, <3>3 DEF Partition!Poll
    <3>5. QED
      BY <3>4 DEF Partition!Next
  <2>4. QED
    BY <2>2, <2>3
<1>7. QED
  BY <1>1, <1>2, <1>4, <1>5, <1>6 DEF Next, MainStep, Worker

(* The distribution and the worker loops implement QueuePartition.         *)
THEOREM Refinement == Spec => ImplementsPartition
<1>1. Init => Partition!Init
  BY InitRefines
<1>2. IInv /\ IInv' /\ [Next]_vars => [Partition!Next]_(Partition!pvars)
  BY StepRefines
<1>3. QED
  BY <1>1, <1>2, Invariance, PTL DEF Spec, ImplementsPartition, Partition!Spec
===============================================================================
