----------------------------- MODULE MeasureProofs -----------------------------
(***************************************************************************)
(* Proofs about Measure, for any number of ports and packet sizes, any     *)
(* pipe, any duration and any number of interrupts: what the windows of a  *)
(* child's statistics add up to, what the driver leaves behind, and what   *)
(* it writes down.                                                         *)
(*                                                                         *)
(* StatInv is about the child only, CleanInv about the driver only.        *)
(* RowInv, for the rows, is about both: which phases of the child go with  *)
(* which of the driver, what the last line of the pipe is, and how the sum *)
(* that the child takes port after port compares to what the ports had     *)
(* counted at the SIGINT.                                                  *)
(***************************************************************************)
EXTENDS Measure, SequenceTheorems, FiniteSets, FiniteSetTheorems, WellFoundedInduction, TLAPS

(* Between the reading of a counter and the printing of its window, what   *)
(* was read lies between the last window's end and the counter.            *)
StatInv ==
    /\ StatisticsTypeOK
    /\ WindowsAddUp
    /\ pc = "print" => pre_packets[portid] <= current /\ current <= nic[portid]

(* A step that leaves the statistics alone and starts no window.           *)
Quiet == UNCHANGED <<nic, pre_packets, portid, current, packets, reported>>
             /\ now' \in Nat /\ next_stats_time' \in Nat
             /\ (pc' = "print" => pc = "print")

LEMMA QuietStep == StatInv /\ Quiet => StatInv'
  BY DEF StatInv, Quiet, StatisticsTypeOK, WindowsAddUp

LEMMA PortsFacts == 0 \in Ports /\ \A p \in Ports : p \in Nat /\ (p + 1 < NbPorts => p + 1 \in Ports)
  BY StatisticsAssumption DEF Ports
-------------------------------------------------------------------------------
(* gather_stats, and a port's window: the actions of Statistics.           *)
LEMMA GatherStep == StatInv /\ gather_stats => StatInv'
  BY PortsFacts, StatisticsAssumption
     DEF StatInv, gather_stats, Due, StatisticsTypeOK, WindowsAddUp

LEMMA ReadPortStep == StatInv /\ ReadPort => StatInv'
  BY StatisticsAssumption DEF StatInv, ReadPort, StatisticsTypeOK, WindowsAddUp

LEMMA PrintPortStep == StatInv /\ PrintPort => StatInv'
<1> SUFFICES ASSUME StatInv, PrintPort PROVE StatInv'
  OBVIOUS
<1> USE DEF StatInv, PrintPort, StatisticsTypeOK, WindowsAddUp
<1>1. /\ pre_packets' \in [Ports -> Nat] /\ reported' \in [Ports -> Int]
      /\ \A p \in Ports : p # portid => /\ pre_packets'[p] = pre_packets[p]
                                        /\ reported'[p] = reported[p]
      /\ pre_packets'[portid] = current
      /\ reported'[portid] = reported[portid] + (current - pre_packets[portid])
  OBVIOUS
<1>2. StatisticsTypeOK'
  BY <1>1, PortsFacts
<1>3. WindowsAddUp'
  <2> SUFFICES ASSUME NEW p \in Ports
               PROVE  reported'[p] = pre_packets'[p] /\ pre_packets'[p] <= nic'[p]
    OBVIOUS
  <2>1. CASE p = portid
    BY <1>1, <2>1, StatisticsAssumption
  <2>2. CASE p # portid
    BY <1>1, <2>2
  <2> QED
    BY <2>1, <2>2
<1> QED
  BY <1>2, <1>3

LEMMA SumPortStep == StatInv /\ SumPort => StatInv'
  BY PortsFacts, StatisticsAssumption DEF StatInv, SumPort, StatisticsTypeOK, WindowsAddUp

LEMMA CountStep == ASSUME NEW port \in Ports PROVE StatInv /\ Count(port) => StatInv'
<1> SUFFICES ASSUME StatInv, Count(port) PROVE StatInv'
  OBVIOUS
<1> USE DEF StatInv, Count, measurement, StatisticsTypeOK, WindowsAddUp
<1>1. /\ nic' \in [Ports -> 0 .. MaxPackets]
      /\ \A p \in Ports : nic[p] <= nic'[p]
  BY StatisticsAssumption
<1> QED
  BY <1>1, StatisticsAssumption

LEMMA NewProcess == time_variables_init /\ pc' = "init" => StatInv'
  BY PortsFacts, StatisticsAssumption
     DEF time_variables_init, StatInv, NoPackets, StatisticsTypeOK, WindowsAddUp
-------------------------------------------------------------------------------
LEMMA ChildStep == StatInv /\ Child => StatInv'
<1> SUFFICES ASSUME StatInv, Child PROVE StatInv'
  OBVIOUS
<1> USE DEF child, statistics, measurement
<1>0. now \in Nat /\ next_stats_time \in Nat
  BY DEF StatInv, StatisticsTypeOK
<1>1. CASE EalLog \/ HandlersInstalled \/ DeviceUp \/ ChildFails \/ SigPipe \/ ChildReturns
  <2> Quiet
    BY <1>0, <1>1 DEF EalLog, HandlersInstalled, DeviceUp, ChildFails, SigPipe, ChildReturns, Quiet
  <2> QED
    BY QuietStep
<1>2. CASE MainLoop
  <2>1. CASE gather_stats
    BY <2>1, GatherStep
  <2>2. CASE ~ gather_stats
    <3> Quiet
      BY <1>0, <1>2, <2>2 DEF MainLoop, Quiet
    <3> QED
      BY QuietStep
  <2> QED
    BY <2>1, <2>2
<1>3. CASE ReadCounter
  BY <1>3, ReadPortStep, SumPortStep DEF ReadCounter
<1>4. CASE PrintLine
  <2>1. CASE PrintPort
    BY <2>1, PrintPortStep
  <2>2. CASE print_stats_total \/ PrintLastLine
    <3> Quiet
      BY <1>0, <2>2 DEF print_stats_total, PrintLastLine, Quiet
    <3> QED
      BY QuietStep
  <2> QED
    BY <1>4, <2>1, <2>2 DEF PrintLine
<1> QED
  BY <1>1, <1>2, <1>3, <1>4 DEF Child

LEMMA DriverStep == StatInv /\ Driver => StatInv'
<1> SUFFICES ASSUME StatInv, Driver PROVE StatInv'
  OBVIOUS
<1> USE DEF child, statistics, measurement
<1>0. now \in Nat /\ next_stats_time \in Nat
  BY DEF StatInv, StatisticsTypeOK
<1>1. CASE Popen
  BY <1>1, NewProcess DEF Popen
<1>2. CASE StopChild \/ DelSignal
  <2> Quiet
    BY <1>0, <1>2 DEF StopChild, DelSignal, Sigint, Quiet
  <2> QED
    BY QuietStep
<1>3. CASE \/ prepare \/ StartGenerator \/ wait_for_process \/ StopGenerator \/ write_stats
           \/ NotANumber \/ PrepareFails \/ PopenFails \/ SleepFails \/ DivisionByZero
           \/ AllMeasured \/ delete_hugepages \/ DeleteFails \/ DelMux
  <2> Quiet
    BY <1>0, <1>3 DEF prepare, StartGenerator, wait_for_process, StopGenerator, write_stats,
                NotANumber, PrepareFails, PopenFails, SleepFails, DivisionByZero, Raises,
                AllMeasured, delete_hugepages, DeleteFails, DelMux, Quiet
  <2> QED
    BY QuietStep
<1> QED
  BY <1>1, <1>2, <1>3 DEF Driver

LEMMA StatInductive == (Init => StatInv) /\ (StatInv /\ [Next]_vars => StatInv')
<1>1. Init => StatInv
  BY PortsFacts, StatisticsAssumption
     DEF Init, StatisticsInit, StatInv, NoPackets, StatisticsTypeOK, WindowsAddUp
<1>2. StatInv /\ [Next]_vars => StatInv'
  <2> SUFFICES ASSUME StatInv, [Next]_vars PROVE StatInv'
    OBVIOUS
  <2> USE DEF child, statistics, measurement
  <2>0. now \in Nat /\ next_stats_time \in Nat
    BY DEF StatInv, StatisticsTypeOK
  <2>1. CASE Driver
    BY <2>1, DriverStep
  <2>2. CASE Child
    BY <2>2, ChildStep
  <2>3. CASE Tick
    <3> Quiet
      BY <2>0, <2>3 DEF Tick, Quiet
    <3> QED
      BY QuietStep
  <2>4. CASE Interrupt
    <3> Quiet
      BY <2>0, <2>4 DEF Interrupt, Sigint, Quiet
    <3> QED
      BY QuietStep
  <2>5. ASSUME NEW port \in Ports, Packet(port) PROVE StatInv'
    BY <2>5, CountStep DEF Packet
  <2>6. CASE UNCHANGED vars
    <3> Quiet
      BY <2>0, <2>6 DEF vars, Quiet
    <3> QED
      BY QuietStep
  <2> QED
    BY <2>1, <2>2, <2>3, <2>4, <2>5, <2>6 DEF Next
<1> QED
  BY <1>1, <1>2

(* No packet is in two windows of a port or between two of them, however   *)
(* the NIC counts while they are printed.                                  *)
THEOREM Windowed == Spec => []WindowsAddUp
<1>1. StatInv => WindowsAddUp
  BY DEF StatInv
<1> QED
  BY <1>1, StatInductive, PTL DEF Spec
-------------------------------------------------------------------------------
(* Where the driver is tells what it still has to undo: the mux and the    *)
(* hugepages until its cleanup is past them, the generator while it        *)
(* measures.  Every round of the loop adds a row.                          *)
CleanInv ==
    /\ cutShort \in BOOLEAN /\ interrupts \in Nat /\ measured \in Nat
    /\ \E S : rows \in Seq(S)
    /\ Len(rows) = measured
    /\ mode # "rx" => mux = 0 /\ ~ gen.enabled
    /\ driver = "del_mux" => ~ hugepages
    /\ driver = "ended" /\ ~ cutShort => mux = 0 /\ ~ hugepages
    /\ gen.enabled => \/ interrupts > 0 \/ aborted \in {"spawn", "measure"}
                      \/ driver \in {"spawn", "measure", "wait", "collect"}
    /\ driver \in Cleaning \cup {"ended"} /\ interrupts = 0 /\ aborted = "no"
           => measured = Len(PacketSizes)
    /\ driver \notin Cleaning \cup {"ended"} => aborted = "no"

LEMMA AppendAny ==
    ASSUME NEW s, \E S : s \in Seq(S), NEW e
    PROVE  (\E S : Append(s, e) \in Seq(S)) /\ Len(Append(s, e)) = Len(s) + 1
<1>1. PICK S : s \in Seq(S)
  OBVIOUS
<1> DEFINE S2 == S \cup {e}
<1>2. s \in Seq(S2)
  BY <1>1
<1>3. Append(s, e) \in Seq(S2) /\ Len(Append(s, e)) = Len(s) + 1
  BY <1>2
<1> QED
  BY <1>3

(* However the driver ends, unless an interrupt or a missing command hits  *)
(* the cleanup itself, the mux and the hugepages are as before, and the    *)
(* generator is off unless there was an interrupt or a failed start or     *)
(* sleep.  No row is missing without an interrupt or an exception.         *)
THEOREM Clean == Spec => []CleanEnd
<1> USE DEF ends, run, device, child, Cleaning
<1>1. Init => CleanInv
  <2> SUFFICES ASSUME Init PROVE CleanInv
    OBVIOUS
  <2>1. rows \in Seq({}) /\ Len(rows) = 0
    BY DEF Init
  <2> QED
    BY <2>1 DEF Init, CleanInv
<1>2. CleanInv /\ [Next]_vars => CleanInv'
  <2> SUFFICES ASSUME CleanInv, [Next]_vars PROVE CleanInv'
    OBVIOUS
  <2> USE DEF CleanInv
  <2>1. CASE prepare
    BY <2>1 DEF prepare, DriverOnly
  <2>2. CASE StartGenerator
    BY <2>2 DEF StartGenerator, DriverOnly
  <2>3. CASE Popen \/ StopChild \/ wait_for_process
    BY <2>3 DEF Popen, StopChild, wait_for_process, DriverOnly
  <2>4. CASE StopGenerator
    BY <2>4 DEF StopGenerator, DriverOnly
  <2>5. CASE write_stats
    <3>1. (\E S : rows' \in Seq(S)) /\ Len(rows') = Len(rows) + 1
      BY <2>5, AppendAny DEF write_stats
    <3> QED
      BY <2>5, <3>1 DEF write_stats, DriverOnly
  <2>6. CASE AllMeasured
    BY <2>6 DEF AllMeasured, DriverOnly
  <2>13. ASSUME NEW where \in {"prepare", "spawn", "measure", "parse"}, Raises(where)
         PROVE  CleanInv'
    BY <2>13 DEF Raises
  <2>14. CASE PrepareFails \/ PopenFails \/ SleepFails \/ NotANumber \/ DivisionByZero
    BY <2>13, <2>14 DEF PrepareFails, PopenFails, SleepFails, NotANumber, DivisionByZero
  <2>15. CASE DeleteFails
    BY <2>15 DEF DeleteFails
  <2>7. CASE DelSignal \/ delete_hugepages
    BY <2>7 DEF DelSignal, delete_hugepages, DriverOnly
  <2>8. CASE DelMux
    BY <2>8 DEF DelMux, RestoreMux, DriverOnly
  <2>9. CASE Interrupt
    <3> USE <2>9 DEF Interrupt
    <3>1. /\ UNCHANGED <<mode, measured, gen, mux, hugepages, rows, aborted>>
          /\ interrupts' = interrupts + 1
      OBVIOUS
    <3>2. interrupts' \in Nat /\ interrupts' > 0
      BY <3>1
    <3>3. CASE driver \in Cleaning
      <4>1. driver' = "ended" /\ cutShort' = TRUE
        BY <3>3
      <4> QED
        BY <3>1, <3>2, <4>1
    <3>4. CASE driver \notin Cleaning
      <4>1. driver' = "del_signal" /\ cutShort' = cutShort
        BY <3>4
      <4> QED
        BY <3>1, <3>2, <4>1
    <3> QED
      BY <3>3, <3>4
  <2>10. CASE Child
    BY <2>10 DEF Child, EalLog, HandlersInstalled, DeviceUp, ChildFails, MainLoop, ReadCounter,
                 PrintLine, SigPipe, ChildReturns, ChildOnly
  <2>11. CASE Tick \/ \E port \in Ports : Packet(port)
    BY <2>11 DEF Tick, Packet, ChildOnly
  <2>12. CASE UNCHANGED vars
    BY <2>12 DEF vars
  <2> QED
    BY <2>1, <2>2, <2>3, <2>4, <2>5, <2>6, <2>7, <2>8, <2>9, <2>10, <2>11, <2>12,
       <2>14, <2>15 DEF Next, Driver
<1>3. CleanInv => CleanEnd
  BY DEF CleanInv, CleanEnd
<1> QED
  BY <1>1, <1>2, <1>3, PTL DEF Spec
-------------------------------------------------------------------------------
(* The sum over a finite set of the community modules is a recursion over  *)
(* its subsets.  That there is one such recursion, and only one, follows   *)
(* from the smallest subset for which it would not be so.                  *)
Pick(s) == CHOOSE x \in s : TRUE

Sums(g, f, S) ==
    g = [s \in SUBSET S |-> IF s = {} THEN 0 ELSE f[Pick(s)] + g[s \ {Pick(s)}]]

LEMMA SumIsRecursion ==
    ASSUME NEW f, NEW S
    PROVE  SumFunctionOnSet(f, S) = (CHOOSE g : Sums(g, f, S))[S]
  BY DEF SumFunctionOnSet, FoldFunctionOnSet, MapThenFoldSet, Sums, Pick

LEMMA SmallestSubset ==
    ASSUME NEW S, IsFiniteSet(S), NEW T \in SUBSET (SUBSET S), T # {}
    PROVE  \E t \in T : \A u \in T : u \subseteq t => u = t
<1> DEFINE R == StrictSubsetOrdering(S)
<1>1. IsWellFoundedOn(R, SUBSET S)
  BY FS_StrictSubsetOrderingWellFounded, FS_FiniteSubsetsOfFinite
<1> HIDE DEF R
<1>2. PICK t \in T : \A u \in T : ~ (<<u, t>> \in R)
  BY <1>1, WFMin
<1>3. ASSUME NEW u \in T, u \subseteq t, u # t
      PROVE  FALSE
  BY <1>2, <1>3 DEF R, StrictSubsetOrdering
<1>4. QED
  BY <1>3

LEMMA Picked == ASSUME NEW s, s # {} PROVE Pick(s) \in s
  BY DEF Pick

LEMMA SumsUnique ==
    ASSUME NEW f, NEW S, IsFiniteSet(S), NEW T \in SUBSET S,
           NEW g, Sums(g, f, S), NEW h, Sums(h, f, T)
    PROVE  g[T] = h[T]
<1> DEFINE Bad == {t \in SUBSET T : g[t] # h[t]}
<1>1. ASSUME Bad # {}
      PROVE  FALSE
  <2>1. PICK t \in Bad : \A u \in Bad : u \subseteq t => u = t
    <3>1. Bad \in SUBSET (SUBSET S)
      OBVIOUS
    <3> HIDE DEF Bad
    <3>2. QED
      BY <1>1, <3>1, SmallestSubset
  <2>2. t \in SUBSET T /\ t \in SUBSET S /\ g[t] # h[t]
    OBVIOUS
  <2>3. /\ g[t] = IF t = {} THEN 0 ELSE f[Pick(t)] + g[t \ {Pick(t)}]
        /\ h[t] = IF t = {} THEN 0 ELSE f[Pick(t)] + h[t \ {Pick(t)}]
    BY <2>2 DEF Sums
  <2>4. t # {} /\ g[t \ {Pick(t)}] # h[t \ {Pick(t)}]
    BY <2>2, <2>3
  <2>5. Pick(t) \in t
    BY <2>4, Picked
  <2>6. t \ {Pick(t)} \in Bad
    BY <2>2, <2>4
  <2>7. QED
    BY <2>1, <2>5, <2>6
<1>2. QED
  BY <1>1

LEMMA SumsExist ==
    ASSUME NEW f, NEW S, IsFiniteSet(S)
    PROVE  \E g : Sums(g, f, S)
<1> DEFINE Bad == {t \in SUBSET S : ~ \E g : Sums(g, f, t)}
<1>1. ASSUME Bad # {}
      PROVE  FALSE
  <2>1. PICK t \in Bad : \A u \in Bad : u \subseteq t => u = t
    <3>1. Bad \in SUBSET (SUBSET S)
      OBVIOUS
    <3> HIDE DEF Bad
    <3>2. QED
      BY <1>1, <3>1, SmallestSubset
  <2> DEFINE G(u) == CHOOSE g : Sums(g, f, u)
             h == [u \in SUBSET t |-> IF u = {} THEN 0
                                      ELSE f[Pick(u)] + G(u \ {Pick(u)})[u \ {Pick(u)}]]
  <2>2. ASSUME NEW u \in SUBSET t, u # t
        PROVE  Sums(G(u), f, u) /\ IsFiniteSet(u)
    <3>1. \E g : Sums(g, f, u)
      BY <2>1, <2>2
    <3>2. IsFiniteSet(u)
      BY FS_Subset
    <3>3. QED
      BY <3>1, <3>2
  <2> HIDE DEF G
  <2>3. ASSUME NEW u \in SUBSET t, u # t
        PROVE  h[u] = G(u)[u]
    <3>1. G(u)[u] = IF u = {} THEN 0 ELSE f[Pick(u)] + G(u)[u \ {Pick(u)}]
      BY <2>2, <2>3 DEF Sums
    <3>2. CASE u # {}
      <4> DEFINE v == u \ {Pick(u)}
      <4>1. v \in SUBSET u /\ v \in SUBSET t /\ v # t
        BY <2>3
      <4>2. G(u)[v] = G(v)[v]
        BY <2>2, <2>3, <4>1, SumsUnique
      <4>3. QED
        BY <3>1, <3>2, <4>2
    <3>3. CASE u = {}
      BY <3>1, <3>3
    <3>4. QED
      BY <3>2, <3>3
  <2>4. ASSUME NEW u \in SUBSET t, u # {}
        PROVE  h[u] = f[Pick(u)] + h[u \ {Pick(u)}]
    <3>1. Pick(u) \in u
      BY <2>4, Picked
    <3>2. u \ {Pick(u)} \in SUBSET t /\ u \ {Pick(u)} # t
      BY <3>1
    <3>3. h[u \ {Pick(u)}] = G(u \ {Pick(u)})[u \ {Pick(u)}]
      BY <2>3, <3>2
    <3>4. h[u] = f[Pick(u)] + G(u \ {Pick(u)})[u \ {Pick(u)}]
      BY <2>4
    <3>5. QED
      BY <3>3, <3>4
  <2>5. h[{}] = 0 /\ h = [u \in SUBSET t |-> h[u]]
    OBVIOUS
  <2> HIDE DEF h
  <2>6. Sums(h, f, t)
    <3> DEFINE k == [u \in SUBSET t |-> IF u = {} THEN 0 ELSE f[Pick(u)] + h[u \ {Pick(u)}]]
    <3>1. \A u \in SUBSET t : h[u] = k[u]
      BY <2>4, <2>5
    <3>2. k = [u \in SUBSET t |-> k[u]]
      OBVIOUS
    <3> HIDE DEF k
    <3>3. h = k
      BY <2>5, <3>1, <3>2
    <3>4. QED
      BY <3>3 DEF k, Sums
  <2>7. QED
    BY <2>1, <2>6
<1>2. QED
  BY <1>1

(* So a sum is what one expects: zero of nothing, and any element and the  *)
(* sum of the others.                                                      *)
LEMMA SumEmpty == ASSUME NEW f PROVE SumFunctionOnSet(f, {}) = 0
<1> DEFINE g == CHOOSE g : Sums(g, f, {})
<1>1. Sums(g, f, {})
  BY SumsExist, FS_EmptySet
<1> HIDE DEF g
<1>2. g[{}] = 0
  BY <1>1 DEF Sums
<1>3. QED
  BY <1>2, SumIsRecursion DEF g

LEMMA SumPick ==
    ASSUME NEW f, NEW S, IsFiniteSet(S), S # {}
    PROVE  SumFunctionOnSet(f, S) = f[Pick(S)] + SumFunctionOnSet(f, S \ {Pick(S)})
<1> DEFINE T == S \ {Pick(S)}
           G(u) == CHOOSE g : Sums(g, f, u)
<1>1. IsFiniteSet(T) /\ T \in SUBSET S
  BY FS_Subset
<1>2. Sums(G(S), f, S) /\ Sums(G(T), f, T)
  <2> HIDE DEF T
  <2>1. QED
    BY <1>1, SumsExist
<1>3. SumFunctionOnSet(f, S) = G(S)[S] /\ SumFunctionOnSet(f, T) = G(T)[T]
  BY SumIsRecursion
<1> HIDE DEF G
<1>4. G(S)[T] = G(T)[T]
  BY <1>1, <1>2, SumsUnique
<1>5. G(S)[S] = f[Pick(S)] + G(S)[T]
  BY <1>2 DEF Sums
<1>6. QED
  BY <1>3, <1>4, <1>5

LEMMA SumIsNat ==
    ASSUME NEW f, NEW S, IsFiniteSet(S), \A x \in S : f[x] \in Nat
    PROVE  SumFunctionOnSet(f, S) \in Nat
<1> DEFINE Bad == {t \in SUBSET S : SumFunctionOnSet(f, t) \notin Nat}
<1>1. ASSUME Bad # {}
      PROVE  FALSE
  <2>1. PICK t \in Bad : \A u \in Bad : u \subseteq t => u = t
    <3>1. Bad \in SUBSET (SUBSET S)
      OBVIOUS
    <3> HIDE DEF Bad
    <3>2. QED
      BY <1>1, <3>1, SmallestSubset
  <2>2. t # {} /\ t \in SUBSET S /\ IsFiniteSet(t)
    <3>1. t \in SUBSET S /\ SumFunctionOnSet(f, t) \notin Nat
      OBVIOUS
    <3>2. t # {}
      BY <3>1, SumEmpty
    <3>3. IsFiniteSet(t)
      BY <3>1, FS_Subset
    <3>4. QED
      BY <3>1, <3>2, <3>3
  <2>3. Pick(t) \in t /\ f[Pick(t)] \in Nat
    BY <2>2, Picked
  <2>4. SumFunctionOnSet(f, t) = f[Pick(t)] + SumFunctionOnSet(f, t \ {Pick(t)})
    BY <2>2, SumPick
  <2>5. SumFunctionOnSet(f, t \ {Pick(t)}) \in Nat
    BY <2>1, <2>2, <2>3
  <2>6. QED
    BY <2>3, <2>4, <2>5
<1>2. QED
  BY <1>1

LEMMA SumAdds ==
    ASSUME NEW f, NEW S, IsFiniteSet(S), \A x \in S : f[x] \in Nat, NEW y \in S
    PROVE  SumFunctionOnSet(f, S) = f[y] + SumFunctionOnSet(f, S \ {y})
<1> DEFINE Sum(t) == SumFunctionOnSet(f, t)
           Bad == {t \in SUBSET S : \E x \in t : Sum(t) # f[x] + Sum(t \ {x})}
<1>1. ASSUME Bad # {}
      PROVE  FALSE
  <2>1. PICK t \in Bad : \A u \in Bad : u \subseteq t => u = t
    <3>1. Bad \in SUBSET (SUBSET S)
      OBVIOUS
    <3> HIDE DEF Bad
    <3>2. QED
      BY <1>1, <3>1, SmallestSubset
  <2>2. PICK x \in t : Sum(t) # f[x] + Sum(t \ {x})
    OBVIOUS
  <2>3. t # {} /\ t \in SUBSET S /\ IsFiniteSet(t) /\ IsFiniteSet(t \ {x})
    BY FS_Subset
  <2> DEFINE c == Pick(t)
  <2>4. c \in t /\ Sum(t) = f[c] + Sum(t \ {c})
    BY <2>3, Picked, SumPick
  <2>5. \A u \in SUBSET t : u # t => \A z \in u : Sum(u) = f[z] + Sum(u \ {z})
    BY <2>1, <2>3
  <2>6. \A u \in SUBSET t : Sum(u) \in Nat
    <3>1. ASSUME NEW u \in SUBSET t
          PROVE  IsFiniteSet(u) /\ \A z \in u : f[z] \in Nat
      BY <2>3, FS_Subset
    <3>2. QED
      BY <3>1, SumIsNat
  <2>7. f[c] \in Nat /\ f[x] \in Nat
    BY <2>3, <2>4
  <2> HIDE DEF c, Sum, Bad
  <2>8. c # x
    BY <2>2, <2>4
  <2>9. Sum(t \ {c}) = f[x] + Sum((t \ {c}) \ {x})
    BY <2>4, <2>5, <2>8
  <2>10. Sum(t \ {x}) = f[c] + Sum((t \ {x}) \ {c})
    BY <2>4, <2>5, <2>8
  <2>11. (t \ {c}) \ {x} = (t \ {x}) \ {c}
    OBVIOUS
  <2>12. Sum((t \ {x}) \ {c}) \in Nat
    BY <2>6
  <2>13. QED
    BY <2>2, <2>4, <2>7, <2>9, <2>10, <2>11, <2>12
<1>2. QED
  BY <1>1
-------------------------------------------------------------------------------
(* The phases of the driver and of the child: no child runs while the      *)
(* driver is between two measurements or reads the result of one; the      *)
(* child does not come to its totals before the driver stops it; its last  *)
(* line is the last thing it does.                                         *)
Measuring == {"measure", "wait", "collect", "parse"}

Phase ==
    /\ driver \in {"prepare", "next", "spawn", "collect", "parse"} => ~ Alive
    /\ driver = "spawn" \/ driver \in Measuring \/ Alive => measured < Len(PacketSizes)
    /\ driver = "measure" => ~ stop /\ pc \notin {"totals", "sum", "last", "cleanup"}
    /\ pc \in {"init", "setup", "loop", "totals"} => portid = 0
    /\ pc \in {"init", "setup", "loop", "read", "print", "totals"} => packets = 0
    /\ answered \subseteq 1 .. measured + 1
    /\ measured + 1 \in answered
           => pc \in {"cleanup", "ended"} /\ driver \notin {"prepare", "next", "spawn", "measure"}

(* The measurement that is running: its packets have its length, and its   *)
(* output ends in a last line if the child printed one, and only then.     *)
LastLine == pipe[Len(pipe)]

Current ==
    /\ mode = "rx" /\ (driver = "spawn" \/ driver \in Measuring)
           => gen.frame_length = Length(Size)
    /\ driver \in Measuring =>
         /\ lengths \subseteq {Length(Size)}
         /\ IF measured + 1 \in answered
            THEN pipe # <<>> /\ LastLine.kind = "last" /\ LastLine.lengths \subseteq {Length(Size)}
            ELSE pipe # <<>> => LastLine.kind # "last"

(* From the SIGINT on, the ports have counted no less than at the SIGINT,  *)
(* and the sum that the child takes port after port is no less than the    *)
(* sum of what they had counted.                                           *)
Summing ==
    driver \in {"wait", "collect", "parse"} =>
        \E snap \in [Ports -> 0 .. MaxPackets] :
            /\ atStop = SumFunctionOnSet(snap, Ports)
            /\ \A port \in Ports : snap[port] <= nic[port]
            /\ pc = "sum" => packets >= SumFunctionOnSet(snap, 0 .. portid - 1)
            /\ pc = "last" => packets >= atStop
            /\ measured + 1 \in answered => LastLine.packets >= atStop

(* The rows that are written.                                              *)
Written ==
    /\ Len(rows) = measured
    /\ \A k \in 1 .. measured :
         /\ rows[k].size = PacketSizes[k]
         /\ rows[k].result.lengths \subseteq {Length(PacketSizes[k])}
         /\ IF k \in answered THEN rows[k].result.packets >= rows[k].atStop
                              ELSE rows[k].result = NoResult

Sequences == (\E S : pipe \in Seq(S)) /\ (\E S : rows \in Seq(S))

RowInv == TypeOK /\ Sequences /\ Phase /\ Current /\ Summing /\ Written

LEMMA Sizes ==
    /\ PacketSizes \in Seq(Nat) /\ Len(PacketSizes) \in Nat
    /\ PipeSizes \subseteq Nat /\ MaxInterrupts \in Nat
  BY MeasureAssumption

(* The sum that the driver takes when it stops the child, and the one that *)
(* the child takes port after port.                                        *)
LEMMA SumOfPorts ==
    ASSUME NEW f \in [Ports -> 0 .. MaxPackets]
    PROVE  /\ SumFunction(f) = SumFunctionOnSet(f, Ports) /\ SumFunction(f) \in Nat
           /\ \A n \in Ports : /\ SumFunctionOnSet(f, 0 .. n - 1) \in Nat
                               /\ SumFunctionOnSet(f, 0 .. n)
                                    = f[n] + SumFunctionOnSet(f, 0 .. n - 1)
<1>1. NbPorts \in Nat /\ MaxPackets \in Nat /\ \A n \in Ports : n \in Nat /\ f[n] \in Nat
  BY StatisticsAssumption DEF Ports
<1>2. SumFunction(f) = SumFunctionOnSet(f, Ports)
  BY DEF SumFunction
<1>3. IsFiniteSet(Ports)
  BY <1>1, FS_Interval DEF Ports
<1>4. SumFunction(f) \in Nat
  BY <1>1, <1>2, <1>3, SumIsNat
<1>5. ASSUME NEW n \in Ports
      PROVE  /\ SumFunctionOnSet(f, 0 .. n - 1) \in Nat
             /\ SumFunctionOnSet(f, 0 .. n) = f[n] + SumFunctionOnSet(f, 0 .. n - 1)
  <2>1. 0 .. n \subseteq Ports /\ n \in 0 .. n /\ (0 .. n) \ {n} = 0 .. n - 1
    BY <1>1 DEF Ports
  <2>2. IsFiniteSet(0 .. n) /\ IsFiniteSet(0 .. n - 1)
    BY <1>1, FS_Interval
  <2>3. \A x \in 0 .. n : f[x] \in Nat
    BY <1>1, <2>1
  <2>4. SumFunctionOnSet(f, 0 .. n) = f[n] + SumFunctionOnSet(f, (0 .. n) \ {n})
    <3>1. PICK S : S = 0 .. n
      OBVIOUS
    <3>2. SumFunctionOnSet(f, S) = f[n] + SumFunctionOnSet(f, S \ {n})
      BY <2>1, <2>2, <2>3, <3>1, SumAdds
    <3>3. QED
      BY <3>1, <3>2
  <2>5. SumFunctionOnSet(f, 0 .. n - 1) \in Nat
    <3>1. \A x \in 0 .. n - 1 : f[x] \in Nat
      BY <1>1, <2>1, <2>3
    <3>2. QED
      BY <2>2, <3>1, SumIsNat
  <2>6. QED
    BY <2>1, <2>4, <2>5
<1>6. QED
  BY <1>2, <1>4, <1>5

LEMMA OutputKeeps ==
    ASSUME Sequences, TypeOK, NEW line, Output(line)
    PROVE  /\ \E S : pipe' \in Seq(S)
           /\ Len(pipe') <= PipeSize /\ pipe' # <<>> /\ pipe'[Len(pipe')] = line
<1>1. PICK S : pipe \in Seq(S)
  BY DEF Sequences
<1>2. PICK S2 : pipe \in Seq(S2) /\ line \in S2
  <2>1. pipe \in Seq(S \cup {line}) /\ line \in S \cup {line}
    BY <1>1
  <2>2. QED
    BY <2>1
<1>3. pipe' = Append(pipe, line) /\ ~ (Len(pipe) >= PipeSize)
  BY DEF Output, PipeFull
<1>4. PipeSize \in Nat /\ Len(pipe) \in Nat
  BY <1>1, Sizes DEF TypeOK
<1>5. /\ Append(pipe, line) \in Seq(S2) /\ Len(Append(pipe, line)) = Len(pipe) + 1
      /\ Append(pipe, line)[Len(pipe) + 1] = line
  BY <1>2
<1>6. QED
  BY <1>3, <1>4, <1>5

LEMMA PhaseChild == RowInv /\ Child => Phase'
<1> SUFFICES ASSUME RowInv, Child PROVE Phase'
  OBVIOUS
<1> USE DEF ChildOnly, run, device, child, ends, statistics, measurement, Alive, Measuring
<1>1. Phase /\ measured \in Nat /\ portid \in Nat
  BY PortsFacts DEF RowInv, TypeOK, StatisticsTypeOK
<1>2. CASE EalLog
  BY <1>1, <1>2 DEF EalLog, Phase
<1>3. CASE HandlersInstalled \/ DeviceUp
  <2>1. /\ pc \in {"init", "setup"} /\ pc' \in {"setup", "loop"}
        /\ UNCHANGED <<driver, measured, stop, answered, portid, packets>>
    BY <1>3 DEF HandlersInstalled, DeviceUp
  <2>2. QED
    BY <1>1, <2>1 DEF Phase
<1>4. CASE MainLoop
  BY <1>1, <1>4 DEF MainLoop, gather_stats, Phase
<1>5. CASE ReadCounter
  BY <1>1, <1>5 DEF ReadCounter, ReadPort, SumPort, Phase
<1>6. CASE PrintLine
  <2>1. CASE PrintPort /\ UNCHANGED answered
    BY <1>1, <1>6, <2>1 DEF PrintLine, PrintPort, Phase
  <2>2. CASE print_stats_total /\ UNCHANGED answered
    BY <1>1, <1>6, <2>2 DEF PrintLine, print_stats_total, Phase
  <2>3. CASE PrintLastLine /\ answered' = answered \cup {measured + 1}
    BY <1>1, <1>6, <2>3 DEF PrintLine, PrintLastLine, Phase
  <2>4. QED
    BY <1>6, <2>1, <2>2, <2>3 DEF PrintLine
<1>7. CASE ChildFails \/ SigPipe \/ ChildReturns
  <2>1. pc' = "ended" /\ UNCHANGED <<driver, measured, stop, answered>>
    BY <1>7 DEF ChildFails, SigPipe, ChildReturns
  <2>2. Alive
    BY <1>7 DEF ChildFails, SigPipe, ChildReturns, Printing
  <2>3. QED
    BY <1>1, <2>1, <2>2 DEF Phase
<1>8. QED
  BY <1>2, <1>3, <1>4, <1>5, <1>6, <1>7 DEF Child

LEMMA PhaseOther == RowInv /\ (Tick \/ \E port \in Ports : Packet(port)) => Phase'
<1> SUFFICES ASSUME RowInv, Tick \/ \E port \in Ports : Packet(port) PROVE Phase'
  OBVIOUS
<1>1. UNCHANGED <<driver, measured, pc, stop, portid, packets, answered>>
  BY DEF Tick, Packet, Count, ChildOnly, measurement
<1>2. QED
  BY <1>1 DEF RowInv, Phase, Alive

LEMMA PhaseDriver == RowInv /\ (Driver \/ Interrupt) => Phase'
<1> SUFFICES ASSUME RowInv, Driver \/ Interrupt PROVE Phase'
  OBVIOUS
<1> USE DEF DriverOnly, run, device, child, ends, statistics, measurement, Alive, Measuring,
            Cleaning, Phase
<1>1. Phase /\ measured \in 0 .. Len(PacketSizes) /\ Len(PacketSizes) \in Nat
  BY Sizes DEF RowInv, TypeOK
<1>2. CASE \/ prepare \/ AllMeasured \/ PrepareFails \/ PopenFails \/ SleepFails
           \/ NotANumber \/ DivisionByZero
  BY <1>1, <1>2 DEF prepare, AllMeasured, PrepareFails, PopenFails, SleepFails, NotANumber,
       DivisionByZero, Raises
<1>3. CASE StartGenerator
  BY <1>1, <1>3 DEF StartGenerator
<1>4. CASE Popen
  BY <1>1, <1>4 DEF Popen, time_variables_init
<1>5. CASE StopChild
  BY <1>1, <1>5 DEF StopChild, Sigint
<1>6. CASE wait_for_process \/ StopGenerator
  BY <1>1, <1>6 DEF wait_for_process, StopGenerator
<1>7. CASE write_stats
  BY <1>1, <1>7 DEF write_stats
<1>8. CASE DelSignal \/ delete_hugepages \/ DeleteFails \/ DelMux
  BY <1>1, <1>8 DEF DelSignal, delete_hugepages, DeleteFails, DelMux, Sigint
<1>9. CASE Interrupt
  BY <1>1, <1>9 DEF Interrupt, Sigint
<1>10. QED
  BY <1>2, <1>3, <1>4, <1>5, <1>6, <1>7, <1>8, <1>9 DEF Driver

(* What the child, the NIC and the time leave alone.                       *)
LEMMA ChildFrame ==
    ASSUME Child \/ Tick \/ \E port \in Ports : Packet(port)
    PROVE  UNCHANGED <<mode, Time, PipeSize, driver, measured, gen, mux, hugepages, atStop, rows,
                       interrupts, aborted, cutShort>>
  BY DEF Child, EalLog, HandlersInstalled, DeviceUp, ChildFails, MainLoop, ReadCounter, PrintLine,
         SigPipe, ChildReturns, Tick, Packet, ChildOnly, run, device, ends

LEMMA Types == RowInv /\ StatInv' /\ Next => TypeOK' /\ Sequences'
<1> SUFFICES ASSUME RowInv, StatInv', Next PROVE TypeOK' /\ Sequences'
  OBVIOUS
<1>1. /\ TypeOK /\ Sequences /\ Phase
      /\ measured \in 0 .. Len(PacketSizes) /\ Len(PacketSizes) \in Nat
  BY Sizes DEF RowInv, TypeOK
<1>2. StatisticsTypeOK'
  BY DEF StatInv
<1>3. CASE Child \/ Tick \/ \E port \in Ports : Packet(port)
  <2>1. UNCHANGED <<mode, Time, PipeSize, driver, measured, gen, mux, hugepages, atStop, rows,
                    interrupts, aborted, cutShort>>
    BY <1>3, ChildFrame
  <2>2. /\ pc' \in {"none", "init", "setup", "loop", "read", "print", "totals", "sum", "last",
                    "cleanup", "ended"}
        /\ stop' \in BOOLEAN
    BY <1>1, <1>3
       DEF Child, EalLog, HandlersInstalled, DeviceUp, ChildFails, MainLoop, gather_stats,
           ReadCounter, ReadPort, SumPort, PrintLine, PrintPort, print_stats_total, PrintLastLine,
           SigPipe, ChildReturns, Tick, Packet, Count, child, statistics, TypeOK
  <2>3. answered' \subseteq 1 .. Len(PacketSizes)
    <3>1. \/ answered' = answered
          \/ pc = "last" /\ answered' = answered \cup {measured + 1}
      BY <1>3 DEF Child, EalLog, HandlersInstalled, DeviceUp, ChildFails, MainLoop,
           ReadCounter, PrintLine, PrintLastLine, SigPipe, ChildReturns, Tick, Packet, child
    <3>2. pc = "last" => measured + 1 \in 1 .. Len(PacketSizes)
      BY <1>1 DEF Phase, Alive
    <3>3. answered \subseteq 1 .. Len(PacketSizes)
      BY <1>1 DEF TypeOK
    <3>4. QED
      BY <3>1, <3>2, <3>3
  <2>4. (\E S : pipe' \in Seq(S)) /\ Len(pipe') <= PipeSize
    <3>1. \/ pipe' = pipe
          \/ \E line : Output(line)
      BY <1>3 DEF Child, EalLog, HandlersInstalled, DeviceUp, ChildFails, MainLoop,
           ReadCounter, PrintLine, SigPipe, ChildReturns, Tick, Packet, Silent
    <3>2. CASE pipe' = pipe
      BY <1>1, <3>2 DEF Sequences, TypeOK
    <3>3. CASE \E line : Output(line)
      BY <1>1, <3>3, OutputKeeps
    <3>4. QED
      BY <3>1, <3>2, <3>3
  <2>5. (\E S : rows' \in Seq(S)) /\ PipeSize' = PipeSize
    BY <1>1, <2>1 DEF Sequences
  <2>6. QED
    BY <1>1, <1>2, <2>1, <2>2, <2>3, <2>4, <2>5 DEF TypeOK, Sequences
<1>4. CASE Driver \/ Interrupt
  <2>1. UNCHANGED <<mode, Time, PipeSize, answered>>
    BY <1>4 DEF Driver, prepare, PrepareFails, StartGenerator, Popen, PopenFails, SleepFails,
         StopChild, wait_for_process, StopGenerator, write_stats, NotANumber, DivisionByZero,
         Raises, AllMeasured, DelSignal, delete_hugepages, DeleteFails, DelMux,
         Interrupt, DriverOnly, run, child
  <2>2. (\E S : pipe' \in Seq(S)) /\ Len(pipe') <= PipeSize
    <3>1. pipe' = pipe \/ pipe' = <<>>
      BY <1>4 DEF Driver, prepare, PrepareFails, StartGenerator, Popen, PopenFails, SleepFails,
           StopChild, wait_for_process, StopGenerator, write_stats, NotANumber, DivisionByZero,
           Raises, AllMeasured, DelSignal, delete_hugepages, DeleteFails,
           DelMux, Interrupt, DriverOnly
    <3>2. CASE pipe' = <<>>
      <4>1. pipe' \in Seq({}) /\ Len(pipe') = 0
        BY <3>2
      <4>2. PipeSize \in Nat
        BY <1>1, Sizes DEF TypeOK
      <4>3. QED
        BY <4>1, <4>2
    <3>3. CASE pipe' = pipe
      BY <1>1, <3>3 DEF Sequences, TypeOK
    <3>4. QED
      BY <3>1, <3>2, <3>3
  <2>3. /\ pc' \in {"none", "init", "setup", "loop", "read", "print", "totals", "sum", "last",
                    "cleanup", "ended"}
        /\ stop' \in BOOLEAN
    BY <1>1, <1>4 DEF Driver, prepare, PrepareFails, StartGenerator, Popen, PopenFails, SleepFails,
         StopChild, wait_for_process, StopGenerator, write_stats, NotANumber, DivisionByZero,
         Raises, AllMeasured, DelSignal, delete_hugepages, DeleteFails, DelMux,
         Interrupt, Sigint, child, statistics, TypeOK
  <2>4. /\ driver' \in {"prepare", "next", "spawn", "measure", "wait", "collect", "parse", "ended"}
                          \cup Cleaning
        /\ gen'.enabled \in BOOLEAN /\ mux' \in {0, 1} /\ hugepages' \in BOOLEAN
    <3>1. driver' \in {"prepare", "next", "spawn", "measure", "wait", "collect", "parse", "ended"}
                         \cup Cleaning
      BY <1>1, <1>4 DEF Driver, prepare, PrepareFails, StartGenerator, Popen, PopenFails, SleepFails,
           StopChild, wait_for_process, StopGenerator, write_stats, NotANumber, DivisionByZero,
           Raises, AllMeasured, DelSignal, delete_hugepages, DeleteFails,
           DelMux, Interrupt, Cleaning, TypeOK
    <3>2. gen' = gen \/ gen'.enabled = TRUE \/ gen'.enabled = FALSE
      BY <1>4 DEF Driver, prepare, PrepareFails, StartGenerator, Popen, PopenFails, SleepFails,
           StopChild, wait_for_process, StopGenerator, write_stats, NotANumber, DivisionByZero,
           Raises, AllMeasured, DelSignal, delete_hugepages, DeleteFails,
           DelMux, Interrupt, device
    <3>3. mux' \in {mux, 0, 1} /\ hugepages' \in {hugepages, TRUE, FALSE}
      BY <1>4 DEF Driver, prepare, PrepareFails, StartGenerator, Popen, PopenFails, SleepFails,
           StopChild, wait_for_process, StopGenerator, write_stats, NotANumber, DivisionByZero,
           Raises, AllMeasured, DelSignal, delete_hugepages, DeleteFails,
           DelMux, RestoreMux, Interrupt, device
    <3>4. QED
      BY <1>1, <3>1, <3>2, <3>3 DEF TypeOK
  <2>5. atStop' \in Nat
    <3>1. atStop' = atStop \/ atStop' = SumFunction(nic)
      BY <1>4 DEF Driver, prepare, PrepareFails, StartGenerator, Popen, PopenFails, SleepFails,
           StopChild, wait_for_process, StopGenerator, write_stats, NotANumber, DivisionByZero,
           Raises, AllMeasured, DelSignal, delete_hugepages, DeleteFails,
           DelMux, Interrupt
    <3>2. SumFunction(nic) \in Nat
      BY <1>1, SumOfPorts DEF TypeOK, StatisticsTypeOK
    <3>3. QED
      BY <1>1, <3>1, <3>2 DEF TypeOK
  <2>6. /\ measured' \in 0 .. Len(PacketSizes)
        /\ \E S : rows' \in Seq(S)
    <3>1. \/ measured' = measured /\ rows' = rows
          \/ driver = "parse" /\ write_stats
      BY <1>4 DEF Driver, prepare, PrepareFails, StartGenerator, Popen, PopenFails, SleepFails,
           StopChild, wait_for_process, StopGenerator, write_stats, NotANumber, DivisionByZero,
           Raises, AllMeasured, DelSignal, delete_hugepages, DeleteFails,
           DelMux, Interrupt
    <3>2. CASE driver = "parse" /\ write_stats
      <4>1. measured < Len(PacketSizes)
        BY <1>1, <3>2 DEF Phase, Measuring
      <4>2. measured' = measured + 1 /\ \E row : rows' = Append(rows, row)
        BY <3>2 DEF write_stats
      <4>3. \E S : rows' \in Seq(S)
        BY <1>1, <4>2, AppendAny DEF Sequences
      <4>4. QED
        BY <1>1, <4>1, <4>2, <4>3
    <3>3. QED
      BY <1>1, <3>1, <3>2 DEF Sequences
  <2>7. /\ interrupts' \in 0 .. MaxInterrupts /\ cutShort' \in BOOLEAN
        /\ aborted' \in {"no", "prepare", "spawn", "measure", "parse"}
    <3>1. /\ interrupts \in 0 .. MaxInterrupts /\ MaxInterrupts \in Nat
          /\ aborted \in {"no", "prepare", "spawn", "measure", "parse"} /\ cutShort \in BOOLEAN
      BY <1>1, Sizes DEF TypeOK
    <3>2. CASE Interrupt
      BY <3>1, <3>2 DEF Interrupt
    <3>3. CASE Driver
      <4>1. interrupts' = interrupts /\ cutShort' \in {cutShort, TRUE}
        BY <3>3 DEF Driver, prepare, PrepareFails, StartGenerator, Popen, PopenFails, SleepFails,
           StopChild, wait_for_process, StopGenerator, write_stats, NotANumber, DivisionByZero,
           Raises, AllMeasured, DelSignal, delete_hugepages, DeleteFails,
           DelMux, DriverOnly, ends
      <4>2. aborted' \in {aborted, "prepare", "spawn", "measure", "parse"}
        BY <3>3 DEF Driver, prepare, PrepareFails, StartGenerator, Popen, PopenFails, SleepFails,
           StopChild, wait_for_process, StopGenerator, write_stats, NotANumber, DivisionByZero,
           Raises, AllMeasured, DelSignal, delete_hugepages, DeleteFails,
           DelMux, DriverOnly, ends
      <4>3. QED
        BY <3>1, <4>1, <4>2
    <3>4. QED
      BY <1>4, <3>2, <3>3
  <2>8. QED
    BY <1>1, <1>2, <2>1, <2>2, <2>3, <2>4, <2>5, <2>6, <2>7 DEF TypeOK, Sequences
<1>5. QED
  BY <1>3, <1>4 DEF Next

(* What is printed, and what is counted.                                   *)
LEMMA OutputCases ==
    ASSUME RowInv, Child \/ Tick \/ \E port \in Ports : Packet(port)
    PROVE  \/ pipe' = pipe /\ answered' = answered
           \/ /\ answered' = answered /\ pc \notin {"cleanup", "ended"}
              /\ \E line : Output(line) /\ line.kind # "last"
           \/ /\ pc = "last" /\ answered' = answered \cup {measured + 1}
              /\ Output([kind |-> "last", packets |-> packets, lengths |-> lengths])
<1>1. CASE EalLog
  <2>1. [kind |-> "log"].kind # "last"
    OBVIOUS
  <2>2. QED
    BY <1>1, <2>1 DEF EalLog, child
<1>2. CASE PrintLine
  <2>1. [kind |-> "window"].kind # "last" /\ [kind |-> "totals"].kind # "last"
    OBVIOUS
  <2>2. CASE PrintPort /\ Output([kind |-> "window"]) /\ UNCHANGED answered
    BY <2>1, <2>2 DEF PrintPort
  <2>3. CASE print_stats_total /\ Output([kind |-> "totals"]) /\ UNCHANGED answered
    BY <2>1, <2>3 DEF print_stats_total
  <2>4. QED
    BY <1>2, <2>2, <2>3 DEF PrintLine, PrintLastLine
<1>3. CASE \/ HandlersInstalled \/ DeviceUp \/ ChildFails \/ MainLoop \/ ReadCounter \/ SigPipe
           \/ ChildReturns \/ Tick \/ \E port \in Ports : Packet(port)
  BY <1>3 DEF HandlersInstalled, DeviceUp, ChildFails, MainLoop, ReadCounter, SigPipe, ChildReturns,
       Tick, Packet, Silent
<1>4. QED
  BY <1>1, <1>2, <1>3 DEF Child

LEMMA Counted ==
    ASSUME Child \/ Tick \/ \E port \in Ports : Packet(port)
    PROVE  \/ lengths' = lengths
           \/ lengths' = lengths \cup {IF mode = "rx" THEN gen.frame_length ELSE Length(Size)}
  BY DEF Child, EalLog, HandlersInstalled, DeviceUp, ChildFails, MainLoop, ReadCounter, PrintLine,
         SigPipe, ChildReturns, Tick, Packet, child

LEMMA CurrentChild ==
    ASSUME RowInv, Child \/ Tick \/ \E port \in Ports : Packet(port)
    PROVE  Current'
<1>1. TypeOK /\ Sequences /\ Phase /\ Current
  BY DEF RowInv
<1>2. /\ mode' = mode /\ driver' = driver /\ measured' = measured /\ gen' = gen
      /\ Length(Size)' = Length(Size)
  BY ChildFrame DEF Length, Size
<1>3. mode = "rx" /\ (driver = "spawn" \/ driver \in Measuring) => gen.frame_length = Length(Size)
  BY <1>1 DEF Current
<1> SUFFICES ASSUME driver \in Measuring
             PROVE  /\ lengths' \subseteq {Length(Size)}
                    /\ IF measured + 1 \in answered'
                       THEN /\ pipe' # <<>> /\ LastLine'.kind = "last"
                            /\ LastLine'.lengths \subseteq {Length(Size)}
                       ELSE pipe' # <<>> => LastLine'.kind # "last"
  <2> HIDE DEF Measuring
  <2>1. QED
    BY <1>2, <1>3 DEF Current
<1>4. /\ lengths \subseteq {Length(Size)}
      /\ IF measured + 1 \in answered
         THEN pipe # <<>> /\ LastLine.kind = "last" /\ LastLine.lengths \subseteq {Length(Size)}
         ELSE pipe # <<>> => LastLine.kind # "last"
  BY <1>1 DEF Current
<1>5. lengths' \subseteq {Length(Size)}
  BY <1>3, <1>4, Counted
<1>6. CASE pipe' = pipe /\ answered' = answered
  BY <1>4, <1>5, <1>6 DEF LastLine
<1>7. CASE /\ answered' = answered /\ pc \notin {"cleanup", "ended"}
           /\ \E line : Output(line) /\ line.kind # "last"
  <2>1. measured + 1 \notin answered
    BY <1>1, <1>7 DEF Phase
  <2>2. pipe' # <<>> /\ LastLine'.kind # "last"
    BY <1>1, <1>7, OutputKeeps DEF LastLine
  <2>3. QED
    BY <1>5, <1>7, <2>1, <2>2
<1>8. CASE /\ pc = "last" /\ answered' = answered \cup {measured + 1}
           /\ Output([kind |-> "last", packets |-> packets, lengths |-> lengths])
  <2>1. /\ pipe' # <<>>
        /\ LastLine' = [kind |-> "last", packets |-> packets, lengths |-> lengths]
    BY <1>1, <1>8, OutputKeeps DEF LastLine
  <2>2. LastLine'.kind = "last" /\ LastLine'.lengths = lengths
    BY <2>1
  <2>3. QED
    BY <1>4, <1>5, <1>8, <2>1, <2>2
<1>9. QED
  BY <1>6, <1>7, <1>8, OutputCases

(* Only these steps of the driver lead to where a measurement runs.        *)
LEMMA DriverMeasures ==
    ASSUME Driver \/ Interrupt, driver' = "spawn" \/ driver' \in Measuring
    PROVE  StartGenerator \/ Popen \/ StopChild \/ wait_for_process \/ StopGenerator
<1>1. CASE Interrupt
  BY <1>1 DEF Interrupt, Cleaning, Measuring
<1>2. CASE \/ prepare \/ write_stats \/ NotANumber \/ PrepareFails \/ PopenFails \/ SleepFails
           \/ DivisionByZero \/ AllMeasured \/ DelSignal \/ delete_hugepages \/ DeleteFails
           \/ DelMux
  BY <1>2 DEF prepare, write_stats, NotANumber, PrepareFails, PopenFails, SleepFails,
       DivisionByZero, Raises, AllMeasured, DelSignal, delete_hugepages, DeleteFails, DelMux,
       Measuring
<1>3. QED
  BY <1>1, <1>2 DEF Driver

LEMMA CurrentDriver ==
    ASSUME RowInv, Driver \/ Interrupt
    PROVE  Current'
<1>1. Phase /\ Current
  BY DEF RowInv
<1>2. CASE ~ (driver' = "spawn" \/ driver' \in Measuring)
  BY <1>2 DEF Current, Measuring
<1>3. CASE StartGenerator
  <2>1. /\ driver' = "spawn" /\ mode' = mode /\ Length(Size)' = Length(Size)
        /\ mode = "rx" => gen'.frame_length = Length(Size)
    BY <1>3 DEF StartGenerator, DriverOnly, run, Length, Size
  <2>2. QED
    BY <2>1 DEF Current, Measuring
<1>4. CASE Popen
  <2>1. /\ driver = "spawn" /\ driver' = "measure" /\ lengths' = {} /\ pipe' = <<>>
        /\ UNCHANGED <<mode, gen, measured, answered>> /\ Length(Size)' = Length(Size)
    BY <1>4 DEF Popen, DriverOnly, run, device, Length, Size
  <2>2. measured + 1 \notin answered
    BY <1>1, <2>1 DEF Phase
  <2>3. QED
    BY <1>1, <2>1, <2>2 DEF Current, Measuring
<1>5. CASE StopChild \/ wait_for_process \/ StopGenerator
  <2>1. /\ driver \in Measuring /\ driver' \in Measuring
        /\ UNCHANGED <<mode, measured, answered, lengths, pipe>>
        /\ Length(Size)' = Length(Size) /\ LastLine' = LastLine
        /\ gen'.frame_length = gen.frame_length
    BY <1>5 DEF StopChild, wait_for_process, StopGenerator, DriverOnly, run, child, device, Length,
         Size, Measuring, LastLine
  <2>2. QED
    BY <1>1, <2>1 DEF Current
<1>6. QED
  BY <1>2, <1>3, <1>4, <1>5, DriverMeasures

LEMMA WrittenStep == RowInv /\ Next => Written'
<1> SUFFICES ASSUME RowInv, Next PROVE Written'
  OBVIOUS
<1>1. TypeOK /\ Sequences /\ Phase /\ Current /\ Summing /\ Written
  BY DEF RowInv
<1>2. measured \in Nat /\ Len(rows) = measured
  BY <1>1 DEF TypeOK, Written
<1>3. ASSUME rows' = rows, measured' = measured, mode' = mode,
             answered' = answered \/ answered' = answered \cup {measured + 1}
      PROVE  Written'
  <2>1. \A k \in 1 .. measured : k \in answered' <=> k \in answered
    BY <1>2, <1>3
  <2>2. QED
    BY <1>1, <1>3, <2>1 DEF Written, Length
<1>4. CASE Child \/ Tick \/ \E port \in Ports : Packet(port)
  BY <1>3, <1>4, ChildFrame, OutputCases
<1>5. CASE write_stats
  <2> DEFINE row == [size |-> Size, atStop |-> atStop, result |-> get_bytes]
  <2>1. /\ rows' = Append(rows, row) /\ measured' = measured + 1 /\ driver = "parse"
        /\ answered' = answered /\ mode' = mode
    BY <1>5 DEF write_stats, DriverOnly, run, child
  <2>2. row.size = Size /\ row.atStop = atStop /\ row.result = get_bytes
    OBVIOUS
  <2> HIDE DEF row
  <2>3. PICK S : rows \in Seq(S)
    BY <1>1 DEF Sequences
  <2>4. /\ Len(rows') = measured + 1 /\ rows'[measured + 1] = row
        /\ \A k \in 1 .. measured : rows'[k] = rows[k]
    <3>1. rows \in Seq(S \cup {row}) /\ row \in S \cup {row}
      BY <2>3
    <3> DEFINE T == S \cup {row}
    <3> HIDE DEF T
    <3>2. rows \in Seq(T) /\ row \in T
      BY <3>1 DEF T
    <3>3. QED
      BY <1>2, <2>1, <3>2
  <2>5. /\ get_bytes.lengths \subseteq {Length(Size)}
        /\ IF measured + 1 \in answered THEN get_bytes.packets >= atStop
                                        ELSE get_bytes = NoResult
    <3>1. IF measured + 1 \in answered
          THEN /\ pipe # <<>> /\ LastLine.kind = "last"
               /\ LastLine.lengths \subseteq {Length(Size)} /\ LastLine.packets >= atStop
          ELSE pipe # <<>> => LastLine.kind # "last"
      BY <1>1, <2>1 DEF Current, Summing, Measuring
    <3>2. CASE measured + 1 \in answered
      <4>1. get_bytes = [packets |-> LastLine.packets, lengths |-> LastLine.lengths]
        BY <3>1, <3>2 DEF get_bytes, LastLine
      <4>2. QED
        BY <3>1, <3>2, <4>1
    <3>3. CASE measured + 1 \notin answered
      <4>1. get_bytes = NoResult
        BY <3>1, <3>3 DEF get_bytes, LastLine
      <4>2. QED
        BY <3>3, <4>1 DEF NoResult
    <3>4. QED
      BY <3>2, <3>3
  <2>6. ASSUME NEW k \in 1 .. measured + 1
        PROVE  /\ rows'[k].size = PacketSizes[k]
               /\ rows'[k].result.lengths \subseteq {Length(PacketSizes[k])}
               /\ IF k \in answered THEN rows'[k].result.packets >= rows'[k].atStop
                                    ELSE rows'[k].result = NoResult
    <3>1. CASE k = measured + 1
      BY <2>2, <2>4, <2>5, <3>1 DEF Size
    <3>2. CASE k # measured + 1
      <4>1. k \in 1 .. measured
        BY <1>2, <3>2
      <4>2. QED
        BY <1>1, <2>4, <4>1 DEF Written
    <3>3. QED
      BY <3>1, <3>2
  <2>7. QED
    BY <2>1, <2>4, <2>6 DEF Written, Length
<1>6. CASE (Driver \/ Interrupt) /\ ~ write_stats
  <2>1. UNCHANGED <<rows, measured, answered, mode>>
    BY <1>6 DEF Driver, prepare, PrepareFails, StartGenerator, Popen, PopenFails, SleepFails,
           StopChild, wait_for_process, StopGenerator, write_stats, NotANumber, DivisionByZero,
           Raises, AllMeasured, DelSignal, delete_hugepages, DeleteFails,
           DelMux, Interrupt, DriverOnly, run, child
  <2>2. QED
    BY <1>3, <2>1
<1>7. QED
  BY <1>4, <1>5, <1>6 DEF Next

(* Nobody counts backwards, and no packet is counted before its time.      *)
LEMMA CountsGrow ==
    ASSUME TypeOK, Child \/ Tick \/ \E port \in Ports : Packet(port)
    PROVE  \A port \in Ports : nic[port] <= nic'[port] /\ nic'[port] \in Int
<1>1. \A port \in Ports : nic[port] \in Int
  BY StatisticsAssumption DEF TypeOK, StatisticsTypeOK
<1>2. CASE nic' = nic
  BY <1>1, <1>2
<1>3. ASSUME NEW port \in Ports, nic' = [nic EXCEPT ![port] = @ + 1]
      PROVE  \A other \in Ports : nic[other] <= nic'[other] /\ nic'[other] \in Int
  <2>1. \A other \in Ports : nic'[other] = IF other = port THEN nic[port] + 1 ELSE nic[other]
    BY <1>3 DEF TypeOK, StatisticsTypeOK
  <2>2. QED
    BY <1>1, <2>1
<1>4. nic' = nic \/ \E port \in Ports : nic' = [nic EXCEPT ![port] = @ + 1]
  BY DEF Child, EalLog, HandlersInstalled, DeviceUp, ChildFails, MainLoop, gather_stats,
         ReadCounter, ReadPort, SumPort, PrintLine, PrintPort, print_stats_total, PrintLastLine,
         SigPipe, ChildReturns, Tick, Packet, Count, child, statistics
<1>5. QED
  BY <1>2, <1>3, <1>4

(* How the child comes to its sum and past it.                             *)
LEMMA Totals ==
    ASSUME RowInv, Child \/ Tick \/ \E port \in Ports : Packet(port)
    PROVE  \/ pc' \notin {"sum", "last"}
           \/ pc' = pc /\ packets' = packets /\ portid' = portid
           \/ pc = "totals" /\ pc' = "sum" /\ packets' = 0 /\ portid' = 0
           \/ /\ pc = "sum" /\ packets' = packets + nic[portid]
              /\ IF portid + 1 < NbPorts THEN pc' = "sum" /\ portid' = portid + 1
                                         ELSE pc' = "last"
<1>1. Phase
  BY DEF RowInv
<1>2. CASE EalLog \/ HandlersInstalled \/ DeviceUp \/ ChildFails \/ SigPipe \/ ChildReturns \/ Tick
  BY <1>2 DEF EalLog, HandlersInstalled, DeviceUp, ChildFails, SigPipe, ChildReturns, Tick, child,
       statistics, measurement
<1>3. CASE MainLoop
  BY <1>3 DEF MainLoop, gather_stats
<1>4. CASE ReadCounter
  BY <1>4 DEF ReadCounter, ReadPort, SumPort
<1>5. CASE PrintLine
  BY <1>1, <1>5 DEF PrintLine, PrintPort, print_stats_total, PrintLastLine, Phase, measurement
<1>6. CASE \E port \in Ports : Packet(port)
  BY <1>6 DEF Packet, Count, measurement
<1>7. QED
  BY <1>2, <1>3, <1>4, <1>5, <1>6 DEF Child

LEMMA SummingChild ==
    ASSUME RowInv, Child \/ Tick \/ \E port \in Ports : Packet(port)
    PROVE  Summing'
<1>1. TypeOK /\ Sequences /\ Phase /\ Current /\ Summing
  BY DEF RowInv
<1>2. driver' = driver /\ measured' = measured /\ atStop' = atStop
  BY ChildFrame
<1> SUFFICES ASSUME driver \in {"wait", "collect", "parse"}
             PROVE  Summing'
  BY <1>2 DEF Summing
<1>3. PICK snap \in [Ports -> 0 .. MaxPackets] :
         /\ atStop = SumFunctionOnSet(snap, Ports)
         /\ \A port \in Ports : snap[port] <= nic[port]
         /\ pc = "sum" => packets >= SumFunctionOnSet(snap, 0 .. portid - 1)
         /\ pc = "last" => packets >= atStop
         /\ measured + 1 \in answered => LastLine.packets >= atStop
  BY <1>1 DEF Summing
<1>4. /\ portid \in Ports /\ packets \in Nat /\ atStop \in Nat /\ measured \in Nat
      /\ \A port \in Ports : snap[port] \in Nat /\ nic[port] \in Nat /\ port \in Nat
  <2>1. portid \in Ports /\ packets \in Nat /\ atStop \in Nat /\ measured \in Nat
    BY <1>1 DEF TypeOK, StatisticsTypeOK
  <2>2. nic \in [Ports -> 0 .. MaxPackets] /\ MaxPackets \in Nat
    BY <1>1, StatisticsAssumption DEF TypeOK, StatisticsTypeOK
  <2>3. QED
    BY <2>1, <2>2, PortsFacts
<1>5. \A port \in Ports : snap[port] <= nic'[port]
  <2>1. ASSUME NEW port \in Ports
        PROVE  snap[port] <= nic'[port]
    <3>1. nic[port] <= nic'[port] /\ nic'[port] \in Int
      BY <1>1, CountsGrow
    <3>2. QED
      BY <1>3, <1>4, <3>1
  <2>2. QED
    BY <2>1
<1>6. /\ pc' = "sum" => packets' >= SumFunctionOnSet(snap, 0 .. portid' - 1)
      /\ pc' = "last" => packets' >= atStop
  <2>1. /\ SumFunctionOnSet(snap, 0 .. portid - 1) \in Nat
        /\ SumFunctionOnSet(snap, 0 .. portid)
             = snap[portid] + SumFunctionOnSet(snap, 0 .. portid - 1)
    BY <1>4, SumOfPorts
  <2>2. CASE pc' = pc /\ packets' = packets /\ portid' = portid
    BY <1>3, <2>2
  <2>3. CASE pc = "totals" /\ pc' = "sum" /\ packets' = 0 /\ portid' = 0
    <3>1. 0 .. portid' - 1 = {}
      BY <2>3
    <3>2. QED
      BY <2>3, <3>1, SumEmpty
  <2>4. CASE /\ pc = "sum" /\ packets' = packets + nic[portid]
             /\ IF portid + 1 < NbPorts THEN pc' = "sum" /\ portid' = portid + 1
                                        ELSE pc' = "last"
    <3>1. packets' >= SumFunctionOnSet(snap, 0 .. portid)
      BY <1>3, <1>4, <2>1, <2>4
    <3>2. CASE portid + 1 < NbPorts
      <4>1. 0 .. portid' - 1 = 0 .. portid
        BY <1>4, <2>4, <3>2
      <4>2. QED
        BY <2>4, <3>1, <3>2, <4>1
    <3>3. CASE ~ (portid + 1 < NbPorts)
      <4>1. 0 .. portid = Ports
        BY <1>4, <3>3, StatisticsAssumption DEF Ports
      <4>2. QED
        BY <1>3, <2>4, <3>1, <3>3, <4>1
    <3>4. QED
      BY <3>2, <3>3
  <2>5. QED
    BY <2>2, <2>3, <2>4, Totals
<1>7. measured + 1 \in answered' => LastLine'.packets >= atStop
  <2>1. CASE pipe' = pipe /\ answered' = answered
    BY <1>3, <2>1 DEF LastLine
  <2>2. CASE answered' = answered /\ pc \notin {"cleanup", "ended"}
    BY <1>1, <2>2 DEF Phase
  <2>3. CASE /\ pc = "last"
             /\ Output([kind |-> "last", packets |-> packets, lengths |-> lengths])
    <3>1. LastLine' = [kind |-> "last", packets |-> packets, lengths |-> lengths]
      BY <1>1, <2>3, OutputKeeps DEF LastLine
    <3>2. LastLine'.packets = packets
      BY <3>1
    <3>3. QED
      BY <1>3, <2>3, <3>2
  <2>4. QED
    BY <2>1, <2>2, <2>3, OutputCases
<1>8. QED
  BY <1>2, <1>3, <1>5, <1>6, <1>7 DEF Summing

LEMMA SummingDriver ==
    ASSUME RowInv, Driver \/ Interrupt
    PROVE  Summing'
<1>1. TypeOK /\ Phase /\ Summing
  BY DEF RowInv
<1>2. CASE driver' \notin {"wait", "collect", "parse"}
  BY <1>2 DEF Summing
<1>3. CASE StartGenerator \/ Popen
  <2>1. driver' \notin {"wait", "collect", "parse"}
    BY <1>3 DEF StartGenerator, Popen
  <2>2. QED
    BY <2>1 DEF Summing
<1>4. CASE StopChild
  <2>1. /\ driver = "measure" /\ atStop' = SumFunction(nic) /\ pc' \in {pc, "ended"}
        /\ UNCHANGED <<nic, answered, measured>>
    BY <1>4 DEF StopChild, Sigint
  <2>2. pc' \notin {"sum", "last"} /\ measured + 1 \notin answered
    BY <1>1, <2>1 DEF Phase
  <2>3. nic \in [Ports -> 0 .. MaxPackets] /\ \A port \in Ports : nic[port] <= nic[port]
    BY <1>1, StatisticsAssumption DEF TypeOK, StatisticsTypeOK
  <2>4. SumFunction(nic) = SumFunctionOnSet(nic, Ports)
    BY <2>3, SumOfPorts
  <2>5. QED
    BY <2>1, <2>2, <2>3, <2>4 DEF Summing
<1>5. CASE wait_for_process \/ StopGenerator
  <2>1. /\ driver \in {"wait", "collect", "parse"} /\ LastLine' = LastLine
        /\ UNCHANGED <<pc, nic, packets, portid, atStop, answered, measured>>
    BY <1>5 DEF wait_for_process, StopGenerator, child, statistics, measurement, LastLine
  <2>2. QED
    BY <1>1, <2>1 DEF Summing
<1>6. QED
  BY <1>2, <1>3, <1>4, <1>5, DriverMeasures DEF Measuring
-------------------------------------------------------------------------------
LEMMA RowsInductive == (Init => RowInv) /\ (StatInv /\ RowInv /\ [Next]_vars => RowInv')
<1>1. Init => RowInv
  <2> SUFFICES ASSUME Init PROVE RowInv
    OBVIOUS
  <2>1. StatisticsTypeOK
    BY StatInductive DEF StatInv
  <2>2. /\ pipe = <<>> /\ rows = <<>> /\ Len(pipe) = 0 /\ Len(rows) = 0
        /\ pipe \in Seq({}) /\ rows \in Seq({}) /\ DOMAIN rows = {}
    BY DEF Init
  <2>3. PipeSize \in Nat
    BY Sizes DEF Init
  <2>4. gen.enabled = FALSE
    BY DEF Init
  <2>5. TypeOK
    <3>1. /\ measured = 0 /\ Len(pipe) = 0 /\ answered = {} /\ atStop = 0 /\ interrupts = 0
          /\ pc = "none" /\ driver = "prepare" /\ stop = FALSE /\ mux = 0 /\ hugepages = FALSE
          /\ aborted = "no" /\ cutShort = FALSE
      BY <2>2 DEF Init, StatisticsInit
    <3>2. mode \in {"rx", "tx"} /\ Time \in Times /\ PipeSize \in PipeSizes
      BY DEF Init
    <3>3. /\ measured \in 0 .. Len(PacketSizes) /\ interrupts \in 0 .. MaxInterrupts
          /\ Len(pipe) <= PipeSize
      BY <2>3, <3>1, Sizes
    <3>4. QED
      BY <2>1, <2>4, <3>1, <3>2, <3>3 DEF TypeOK
  <2>6. Sequences
    BY <2>2 DEF Sequences
  <2>7. Phase
    BY DEF Init, StatisticsInit, Phase, Alive, Measuring
  <2>8. Current /\ Summing /\ Written
    BY <2>2 DEF Init, Current, Summing, Written, Measuring
  <2>9. QED
    BY <2>5, <2>6, <2>7, <2>8 DEF RowInv
<1>2. StatInv /\ RowInv /\ [Next]_vars => RowInv'
  <2> SUFFICES ASSUME StatInv, RowInv, [Next]_vars PROVE RowInv'
    OBVIOUS
  <2>1. CASE Next
    <3>1. StatInv'
      BY StatInductive
    <3>2. TypeOK' /\ Sequences' /\ Written'
      BY <2>1, <3>1, Types, WrittenStep
    <3>3. Phase' /\ Current' /\ Summing'
      BY <2>1, PhaseChild, PhaseOther, PhaseDriver, CurrentChild, CurrentDriver, SummingChild,
         SummingDriver DEF Next
    <3>4. QED
      BY <3>2, <3>3 DEF RowInv
  <2>2. CASE UNCHANGED vars
    <3> USE <2>2 DEF vars, run, child, device, ends, statistics, measurement
    <3>1. TypeOK' /\ Sequences'
      BY DEF RowInv, TypeOK, StatisticsTypeOK, Sequences
    <3>2. Phase' /\ Current'
      BY DEF RowInv, Phase, Current, Alive, LastLine, Length, Size
    <3>3. Summing' /\ Written'
      BY DEF RowInv, Summing, Written, LastLine, Length
    <3>4. QED
      BY <3>1, <3>2, <3>3 DEF RowInv
  <2>3. QED
    BY <2>1, <2>2
<1>3. QED
  BY <1>1, <1>2

(* The CSV file says the truth: a row per packet size, in order, with the  *)
(* packets of that size only and no fewer than had come when the sleep was *)
(* over, and zeros only where the child never printed its last line.       *)
THEOREM Rows == Spec => []RowsTruthful
<1>1. RowInv => RowsTruthful
  <2> SUFFICES ASSUME RowInv PROVE RowsTruthful
    OBVIOUS
  <2>1. DOMAIN rows = 1 .. measured
    BY DEF RowInv, Sequences, Written
  <2>2. QED
    BY <2>1 DEF RowInv, Written, RowsTruthful
<1>2. Init => StatInv /\ RowInv
  BY StatInductive, RowsInductive
<1>3. (StatInv /\ RowInv) /\ [Next]_vars => (StatInv /\ RowInv)'
  BY StatInductive, RowsInductive
<1>4. QED
  BY <1>1, <1>2, <1>3, PTL DEF Spec
===============================================================================
