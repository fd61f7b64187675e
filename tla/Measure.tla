-------------------------------- MODULE Measure --------------------------------
(***************************************************************************)
(* The measurement driver (apps/measure: measure.py, Mode, RXMode, TXMode) *)
(* and the application it measures.  For each packet length the driver     *)
(* starts read or generate as a child process, sleeps, sends it SIGINT,    *)
(* waits for its end, and takes the result from the last line of its       *)
(* output, which goes through a pipe of bounded size that the driver does  *)
(* not read while it waits.  For read, the generator in the NIC is the     *)
(* source of the packets.  The child's statistics are module Statistics.   *)
(*                                                                         *)
(* The user may press Ctrl-C at any time, also a second time while the     *)
(* driver cleans up.                                                       *)
(***************************************************************************)
EXTENDS Statistics, Sequences, Functions

CONSTANTS PacketSizes,   \* packet_sizes: a sequence
          Times,         \* how long the child is left running: the -t of a user
          PipeSizes,     \* lines of output that the pipe (and the child's buffer) hold
          MaxInterrupts  \* how often the user presses Ctrl-C

ASSUME MeasureAssumption ==
    /\ PacketSizes \in Seq(Nat) /\ Times \subseteq Int
    /\ PipeSizes \subseteq Nat \ {0} /\ MaxInterrupts \in Nat

VARIABLES mode, Time, PipeSize,
          driver,        \* where the driver is
          measured,      \* packet sizes measured so far
          stop,          \* the child's __stop
          pipe,          \* the child's output, line by line
          gen,           \* the generator in the NIC: on or off, length of its packets
          mux,           \* l2r.mux_generator: the ports are fed by the generator
          hugepages,
          lengths,       \* history: lengths of the packets that the child counted
          atStop,        \* history: packets counted when SIGINT was sent
          answered,      \* history: measurements whose child printed its last line
          rows,          \* the CSV file
          interrupts,
          aborted,       \* history: where the driver was when an exception ended it
          cutShort       \* history: an interrupt or an exception hit __del__

ends   == <<interrupts, aborted, cutShort>>
run    == <<mode, Time, PipeSize>>
device == <<gen, mux, hugepages>>
child  == <<statistics, stop, lengths, answered>>
vars   == <<run, driver, measured, child, pipe, device, atStop, rows, ends>>

Size   == PacketSizes[measured + 1]
Length(size) == IF mode = "rx" THEN size - 4 ELSE size

Cleaning == {"del_signal", "del_hugepages", "del_mux"}

Lines == {"log", "window", "totals"}

Init ==
    /\ StatisticsInit
    /\ mode \in {"rx", "tx"} /\ Time \in Times /\ PipeSize \in PipeSizes
    /\ driver = "prepare" /\ measured = 0
    /\ stop = FALSE /\ pipe = <<>>
    /\ gen = [enabled |-> FALSE, frame_length |-> 0] /\ mux = 0 /\ hugepages = FALSE
    /\ lengths = {} /\ atStop = 0 /\ answered = {}
    /\ rows = <<>> /\ interrupts = 0 /\ aborted = "no" /\ cutShort = FALSE
-------------------------------------------------------------------------------
(* The child.  A line is printed when the pipe has room; a driver that is  *)
(* gone has closed it, and SIGPIPE ends the child.                         *)
Closed   == driver = "ended"
PipeFull == Len(pipe) >= PipeSize

Output(line) ==
    /\ ~ Closed /\ ~ PipeFull
    /\ pipe' = Append(pipe, line)

Printing == pc \in {"print", "totals", "last"}

Silent == UNCHANGED pipe

ChildOnly == UNCHANGED <<run, driver, measured, device, atStop, rows, ends>>

(* rte_eal_init logs, then main sets up its statistics and the handlers.   *)
EalLog ==
    /\ pc = "init" /\ pipe = <<>> /\ Output([kind |-> "log"])
    /\ UNCHANGED <<child>> /\ ChildOnly

HandlersInstalled ==
    /\ pc = "init"
    /\ pc' = "setup" /\ Silent
    /\ UNCHANGED <<now, nic, measurement, stop, lengths, answered>> /\ ChildOnly

DeviceUp ==
    /\ pc = "setup"
    /\ pc' = "loop" /\ Silent
    /\ UNCHANGED <<now, nic, measurement, stop, lengths, answered>> /\ ChildOnly

ChildFails ==
    /\ pc \in {"init", "setup"}
    /\ pc' = "ended" /\ Silent
    /\ UNCHANGED <<now, nic, measurement, stop, lengths, answered>> /\ ChildOnly

(* while (!stop_loop()) gather_stats(); then the workers have ended, too.  *)
MainLoop ==
    /\ pc = "loop"
    /\ \/ ~ stop /\ gather_stats
       \/ stop /\ pc' = "totals" /\ UNCHANGED <<now, nic, measurement>>
    /\ Silent /\ UNCHANGED <<stop, lengths, answered>> /\ ChildOnly

ReadCounter ==
    /\ ReadPort \/ SumPort
    /\ Silent /\ UNCHANGED <<stop, lengths, answered>> /\ ChildOnly

PrintLine ==
    /\ \/ PrintPort /\ Output([kind |-> "window"]) /\ UNCHANGED answered
       \/ print_stats_total /\ Output([kind |-> "totals"]) /\ UNCHANGED answered
       \/ /\ PrintLastLine
          /\ Output([kind |-> "last", packets |-> packets, lengths |-> lengths])
          /\ answered' = answered \cup {measured + 1}
    /\ UNCHANGED <<stop, lengths>> /\ ChildOnly

SigPipe ==
    /\ Printing /\ Closed
    /\ pc' = "ended" /\ Silent
    /\ UNCHANGED <<now, nic, measurement, stop, lengths, answered>> /\ ChildOnly

ChildReturns ==
    /\ pc = "cleanup"
    /\ pc' = "ended" /\ Silent
    /\ UNCHANGED <<now, nic, measurement, stop, lengths, answered>> /\ ChildOnly

Child == \/ EalLog \/ HandlersInstalled \/ DeviceUp \/ ChildFails \/ MainLoop
         \/ ReadCounter \/ PrintLine \/ SigPipe \/ ChildReturns

(* SIGINT: the handler's stop flag, the end before there is a handler.     *)
Alive == pc \notin {"none", "ended"}

SigintForgotten == UNCHANGED <<pc, stop>>
Sigint ==
    /\ pc'   = IF pc = "init" THEN "ended" ELSE pc
    /\ stop' = IF Alive THEN TRUE ELSE stop
-------------------------------------------------------------------------------
(* What comes from the NIC: the generator's packets for read, the child's  *)
(* own for generate.                                                       *)
Source == mode = "tx" \/ (gen.enabled /\ mux = 1)

Packet(port) ==
    /\ Source /\ Count(port)
    /\ lengths' = lengths \cup {IF mode = "rx" THEN gen.frame_length ELSE Length(Size)}
    /\ Silent /\ UNCHANGED <<stop, answered>> /\ ChildOnly

(* The driver's sleep is exact; afterwards time only matters to a window   *)
(* that may just have become due.                                          *)
SleepEnd == Time + 1

Tick ==
    /\ \/ driver = "measure" /\ now < SleepEnd
       \/ driver = "wait" /\ now <= SleepEnd
    /\ now' = now + 1
    /\ UNCHANGED <<pc, nic, measurement, stop, lengths, answered, pipe>> /\ ChildOnly
-------------------------------------------------------------------------------
(* The driver.  An exception that nobody catches takes it to __del__.      *)
DriverOnly == UNCHANGED <<run, ends>>

Raises(where) ==
    /\ driver = where
    /\ aborted' = where
    /\ driver' = "del_signal"
    /\ UNCHANGED <<run, measured, child, pipe, device, atStop, rows, interrupts, cutShort>>

prepare ==
    /\ driver = "prepare"
    /\ hugepages' = TRUE
    /\ mux' = IF mode = "rx" THEN 1 ELSE mux
    /\ driver' = "next"
    /\ UNCHANGED <<measured, child, pipe, gen, atStop, rows>> /\ DriverOnly

(* nfb-eth or dpdk-hugepages.py is not there; the mux is still as it was.  *)
PrepareFails == Raises("prepare")

(* Set the generator's length and start it, for read.                      *)
StartGenerator ==
    /\ driver = "next" /\ measured < Len(PacketSizes)
    /\ gen' = IF mode = "rx" THEN [enabled |-> TRUE, frame_length |-> Length(Size)] ELSE gen
    /\ driver' = "spawn"
    /\ UNCHANGED <<measured, child, pipe, mux, hugepages, atStop, rows>> /\ DriverOnly

Popen ==
    /\ driver = "spawn"
    /\ pc' = "init" /\ stop' = FALSE /\ pipe' = <<>> /\ lengths' = {}
    /\ time_variables_init
    /\ driver' = "measure"
    /\ UNCHANGED <<measured, device, atStop, rows, answered>> /\ DriverOnly

(* The application cannot be started: the generator runs already.          *)
PopenFails == Raises("spawn")

(* time.sleep takes no negative time; the child runs already as well.      *)
SleepFails == Time < 0 /\ Raises("measure")

(* The sleep is over: SIGINT.                                              *)
StopChild ==
    /\ driver = "measure" /\ Time >= 0 /\ now >= SleepEnd
    /\ Sigint
    /\ atStop' = SumFunction(nic)
    /\ driver' = "wait"
    /\ UNCHANGED <<measured, now, nic, measurement, lengths, answered, pipe, device, rows>> /\ DriverOnly

(* poll() until the child has ended; only then is the output read.         *)
wait_for_process ==
    /\ driver = "wait" /\ pc = "ended"
    /\ driver' = "collect"
    /\ UNCHANGED <<measured, child, pipe, device, atStop, rows>> /\ DriverOnly

StopGenerator ==
    /\ driver = "collect"
    /\ gen' = IF mode = "rx" THEN [enabled |-> FALSE, frame_length |-> gen.frame_length] ELSE gen
    /\ driver' = "parse"
    /\ UNCHANGED <<measured, child, pipe, mux, hugepages, atStop, rows>> /\ DriverOnly

(* get_bytes: two numbers from the last line, zeros if there are not two.  *)
NoResult == [packets |-> 0, lengths |-> {}]

get_bytesFirstLine ==
    IF pipe # <<>> /\ pipe[1].kind = "last"
    THEN [packets |-> pipe[1].packets, lengths |-> pipe[1].lengths]
    ELSE NoResult

get_bytes ==
    IF pipe # <<>> /\ pipe[Len(pipe)].kind = "last"
    THEN [packets |-> pipe[Len(pipe)].packets, lengths |-> pipe[Len(pipe)].lengths]
    ELSE NoResult

write_stats ==
    /\ driver = "parse" /\ Time # 0
    /\ rows' = Append(rows, [size |-> Size, atStop |-> atStop, result |-> get_bytes])
    /\ measured' = measured + 1
    /\ driver' = "next"
    /\ UNCHANGED <<child, pipe, device, atStop>> /\ DriverOnly

(* A log line with a colon is no number: int() raises.                     *)
NotANumber ==
    /\ pipe # <<>> /\ pipe[Len(pipe)].kind = "log"
    /\ Raises("parse")

(* get_speed divides by the time.                                          *)
DivisionByZero == Time = 0 /\ Raises("parse")

AllMeasured ==
    /\ driver = "next" /\ measured = Len(PacketSizes)
    /\ driver' = "del_signal"
    /\ UNCHANGED <<measured, child, pipe, device, atStop, rows>> /\ DriverOnly
-------------------------------------------------------------------------------
(* __del__: SIGINT to a child that still runs, the hugepages, the mux.     *)
DelSignal ==
    /\ driver = "del_signal"
    /\ Sigint
    /\ driver' = "del_hugepages"
    /\ UNCHANGED <<measured, now, nic, measurement, lengths, answered, pipe, device, atStop, rows>> /\ DriverOnly

delete_hugepages ==
    /\ driver = "del_hugepages"
    /\ hugepages' = FALSE
    /\ driver' = IF mode = "rx" THEN "del_mux" ELSE "ended"
    /\ UNCHANGED <<measured, child, pipe, gen, mux, atStop, rows>> /\ DriverOnly

(* Without dpdk-hugepages.py the exception ends __del__, as Ctrl-C does.   *)
DeleteFails ==
    /\ driver = "del_hugepages"
    /\ cutShort' = TRUE
    /\ driver' = "ended"
    /\ UNCHANGED <<run, measured, child, pipe, device, atStop, rows, interrupts, aborted>>

(* g.enabled is set, which is not the generator's gen.enabled.             *)
RestoreMuxLeft == UNCHANGED mux
RestoreMux == mux' = 0

DelMux ==
    /\ driver = "del_mux"
    /\ RestoreMux
    /\ driver' = "ended"
    /\ UNCHANGED <<measured, child, pipe, gen, hugepages, atStop, rows>> /\ DriverOnly

(* Ctrl-C reaches the driver and, from a terminal, the child as well.  An  *)
(* exception inside __del__ ends it.                                       *)
Interrupt ==
    /\ interrupts < MaxInterrupts /\ driver # "ended"
    /\ interrupts' = interrupts + 1
    /\ cutShort' = (cutShort \/ driver \in Cleaning)
    /\ driver' = IF driver \in Cleaning THEN "ended" ELSE "del_signal"
    /\ Sigint \/ UNCHANGED <<pc, stop>>
    /\ UNCHANGED <<run, measured, now, nic, measurement, lengths, answered, pipe, device,
                   atStop, rows, aborted>>

Driver == \/ prepare \/ PrepareFails \/ StartGenerator \/ Popen \/ PopenFails
          \/ SleepFails \/ StopChild \/ wait_for_process \/ StopGenerator
          \/ write_stats \/ NotANumber \/ DivisionByZero \/ AllMeasured
          \/ DelSignal \/ delete_hugepages \/ DeleteFails \/ DelMux

Next == Driver \/ Child \/ Tick \/ Interrupt \/ \E port \in Ports : Packet(port)

Spec == Init /\ [][Next]_vars

(* Driver and child are processes that run, and time passes.               *)
FairSpec == Spec /\ WF_vars(Driver) /\ WF_vars(Child) /\ WF_vars(Tick)
-------------------------------------------------------------------------------
TypeOK ==
    /\ StatisticsTypeOK
    /\ mode \in {"rx", "tx"} /\ Time \in Times /\ PipeSize \in PipeSizes
    /\ pc \in {"none", "init", "setup", "loop", "read", "print", "totals", "sum", "last",
              "cleanup", "ended"}
    /\ driver \in {"prepare", "next", "spawn", "measure", "wait", "collect", "parse", "ended"}
                 \cup Cleaning
    /\ measured \in 0 .. Len(PacketSizes)
    /\ stop \in BOOLEAN /\ Len(pipe) <= PipeSize
    /\ gen.enabled \in BOOLEAN /\ mux \in {0, 1} /\ hugepages \in BOOLEAN
    /\ atStop \in Nat /\ answered \subseteq 1 .. Len(PacketSizes)
    /\ interrupts \in 0 .. MaxInterrupts /\ cutShort \in BOOLEAN
    /\ aborted \in {"no", "prepare", "spawn", "measure", "parse"}

(* The CSV file has a row per packet size, in order.  A row covers every   *)
(* packet counted until the end of its sleep and only packets of its       *)
(* length; it is zero only if the child never printed its last line        *)
(* (because it failed, or got SIGINT before it had its handlers).          *)
RowsTruthful ==
    /\ TypeOK
    /\ \A k \in DOMAIN rows :
         /\ rows[k].size = PacketSizes[k]
         /\ rows[k].result.lengths \subseteq {Length(PacketSizes[k])}
         /\ IF k \in answered THEN rows[k].result.packets >= rows[k].atStop
                              ELSE rows[k].result = NoResult

(* However the driver ends, unless a Ctrl-C or a missing command hits the  *)
(* cleanup itself, the ports are no longer fed by the generator and the    *)
(* hugepages are gone.  The generator itself only stays on after a Ctrl-C  *)
(* or when the child could not be started or waited for.  No row is        *)
(* missing without a Ctrl-C or an exception.                               *)
CleanEnd ==
    driver = "ended" /\ ~ cutShort =>
        /\ mux = 0 /\ ~ hugepages
        /\ gen.enabled => interrupts > 0 \/ aborted \in {"spawn", "measure"}
        /\ interrupts = 0 /\ aborted = "no" => Len(rows) = Len(PacketSizes)

(* The driver's wait ends, or the child's output is more than the pipe     *)
(* holds: then child and driver wait for each other for ever.  That cannot *)
(* happen with a pipe for the windows of the sleep, the totals, the last   *)
(* line and a log line.  No child outlives a driver whose cleanup runs to  *)
(* its end.                                                                *)
Stuck == Printing /\ PipeFull

Windows == 1 + (Time + 1) \div (next_stats_delay + 1)

WaitEnds ==
    /\ (driver = "wait") ~> (driver # "wait" \/ Stuck)
    /\ (driver = "wait" /\ PipeSize >= NbPorts * Windows + 3) ~> (driver # "wait")
    /\ (driver = "ended" /\ ~ cutShort) ~> (pc \in {"none", "ended"})

(* "The tool measures the throughput using Read and Generate applications  *)
(* and produces a CSV output file for analysis" (measure/README.md:2):     *)
(* without an interrupt and an exception, every size gets its row.         *)
ProducesCsv == <>(interrupts > 0 \/ aborted # "no" \/ Len(rows) = Len(PacketSizes))
===============================================================================
