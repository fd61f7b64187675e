------------------------------- MODULE PcapFiles -------------------------------
(***************************************************************************)
(* Captures: the workers of receive write one PCAP file each               *)
(* (apps/receive/receive.c, apps/common/common_pcap.c), and later the      *)
(* workers of transmit all read one of these files and replay it           *)
(* (apps/transmit/transmit.c).                                             *)
(*                                                                         *)
(* A file is a sequence of units: the PCAP header, and for each packet its *)
(* header and its data.  Any write may fail and leave a part of a unit     *)
(* behind.                                                                 *)
(***************************************************************************)
EXTENDS Integers, Sequences, FiniteSets, SequencesExt

CONSTANTS Lcores,      \* the launched workers
          Setups,      \* their jobs and the settings of the two applications
          BurstSize,
          MaxPackets   \* bound on the packets the NIC delivers to receive

(* The job of an lcore is the range of queues that WorkerJobs gives it.    *)
Jobs == [Lcores -> [start_index : Nat, end_index : Nat]]

NoSingle == -1         \* transmit_single is not set

(* The characters that file_name holds; a prefix of as many is accepted.   *)
NameLength == 49

ASSUME PcapAssumption ==
    /\ Setups \subseteq [queues_per_port : Nat \ {0}, jobs : Jobs,
                         prefix_length : 0 .. NameLength, check_packet_th : BOOLEAN, max_packets_per_queue : Int,
                         transmit_queue : Nat \cup {NoSingle}]
    /\ BurstSize \in Nat \ {0} /\ MaxPackets \in Nat /\ IsFiniteSet(Lcores)

(* Of a job, as WorkerJobs shows: a launched lcore has a queue, and none    *)
(* that another one has.                                                   *)
ASSUME JobsAssumption ==
    \A s \in Setups, l \in Lcores :
        /\ s.jobs[l].start_index < s.jobs[l].end_index
        /\ \A m \in Lcores : l # m => \/ s.jobs[l].end_index <= s.jobs[m].start_index
                                      \/ s.jobs[m].end_index <= s.jobs[l].start_index

VARIABLES setup,
          running,          \* the application: "receive", then "transmit"
          stop,             \* its __stop
          pc,               \* where each worker is
          index,            \* its loop variable
          file,             \* the contents of each file, by name
          bufs,             \* receive: the packets of the burst still to be saved
          current_packets,  \* and the number counted against the threshold
          received,         \* history: the packets each worker received, in order
          broken,           \* history: the files on which a write failed
          pcap_file,        \* transmit: the capture it replays
          offset,           \* how far the worker has read it
          packet,           \* the packet it is sending
          something_send,
          offered           \* history: what was handed to the NIC, per queue

rvars == <<file, bufs, current_packets, received, broken>>
tvars == <<pcap_file, offset, packet, something_send, offered>>
vars  == <<setup, running, stop, pc, index, rvars, tvars>>

Job(l)   == setup.jobs[l]
Queues   == UNION {Job(l).start_index .. Job(l).end_index - 1 : l \in Lcores}
QueueIds == UNION {s.jobs[l].start_index .. s.jobs[l].end_index - 1 :
                       s \in Setups, l \in Lcores}

(* The numbers in the name.  snprintf cuts it to the length of file_name,   *)
(* so of a number there is what the prefix and the text before it leave    *)
(* room for: the first digits, or nothing.                                 *)
Port(l)       == Job(l).start_index \div setup.queues_per_port
FirstQueue(l) == Job(l).start_index % setup.queues_per_port
LastQueue(l)  == (Job(l).end_index - 1) % setup.queues_per_port

Digits(n) == 1 + Cardinality({k \in 1 .. 9 : 10 ^ k <= n})
Printed(n, room) == IF Digits(n) <= room THEN <<n>>
                    ELSE IF room <= 0 THEN <<>>
                    ELSE <<n \div 10 ^ (Digits(n) - room)>>

PortRoom     == NameLength - setup.prefix_length - Len("_port")
FirstRoom(l) == PortRoom - Digits(Port(l)) - Len("_queues")
LastRoom(l)  == FirstRoom(l) - Digits(FirstQueue(l)) - Len("_")

FileNameOfPort(l) == <<Printed(Port(l), PortRoom)>>
FileName(l) == <<Printed(Port(l), PortRoom), Printed(FirstQueue(l), FirstRoom(l)),
                 Printed(LastQueue(l), LastRoom(l))>>
Names == {FileName(l) : l \in Lcores}

(* The prefix is short enough for the port and the first queue of each.    *)
NumbersFit ==
    \A l \in Lcores : /\ Digits(Port(l)) <= PortRoom
                      /\ Digits(FirstQueue(l)) <= FirstRoom(l)

Nothing   == <<>>
Hdr       == [unit |-> "pcap header", packet |-> Nothing]
Part      == [unit |-> "part", packet |-> Nothing]
Header(p) == [unit |-> "header", packet |-> p]
Data(p)   == [unit |-> "data", packet |-> p]
Packets   == QueueIds \X (1 .. MaxPackets)
Units     == {Hdr, Part} \cup {Header(p) : p \in Packets} \cup {Data(p) : p \in Packets}
-------------------------------------------------------------------------------
Init ==
    /\ setup \in Setups
    /\ running = "receive"
    /\ stop = FALSE
    /\ pc = [l \in Lcores |-> "open"]
    /\ index = [l \in Lcores |-> 0]
    /\ file = [n \in Names |-> <<>>]
    /\ bufs = [l \in Lcores |-> <<>>]
    /\ current_packets = [l \in Lcores |-> 0]
    /\ received = [l \in Lcores |-> <<>>]
    /\ broken = {}
    /\ pcap_file = <<>>
    /\ offset = [l \in Lcores |-> 0]
    /\ packet = [l \in Lcores |-> <<>>]
    /\ something_send = [l \in Lcores |-> FALSE]
    /\ offered = [q \in Queues |-> <<>>]

Goto(l, here, there) == pc[l] = here /\ pc' = [pc EXCEPT ![l] = there]
Same == UNCHANGED <<setup, running, stop>>

(* fopen(file_name, "wb") and the PCAP header.                             *)
FopenFails(l) ==
    /\ Goto(l, "open", "failed")
    /\ Same /\ UNCHANGED <<index, rvars, tvars>>

prepare_pcap_file(l) ==
    /\ \/ /\ Goto(l, "open", "head")
          /\ file' = [file EXCEPT ![FileName(l)] = <<Hdr>>]
          /\ UNCHANGED broken
       \/ /\ Goto(l, "open", "failed")
          /\ \E rest \in {<<>>, <<Part>>} : file' = [file EXCEPT ![FileName(l)] = rest]
          /\ broken' = broken \cup {FileName(l)}
    /\ Same /\ UNCHANGED <<index, bufs, current_packets, received, tvars>>

(* The head of the while loop.  current_packets only moves when there is a *)
(* threshold.                                                              *)
WrapUpNever(l) == stop \/ current_packets[l] = setup.max_packets_per_queue + 1
WrapUp(l) == stop \/ current_packets[l] = setup.max_packets_per_queue

LoopHead(l) ==
    /\ \/ WrapUp(l) /\ Goto(l, "head", "done") /\ UNCHANGED index
       \/ /\ ~ WrapUp(l) /\ Goto(l, "head", "rx")
          /\ index' = [index EXCEPT ![l] = Job(l).start_index]
    /\ Same /\ UNCHANGED <<rvars, tvars>>

(* fclose writes out what stdio still holds; nobody looks whether it can.  *)
CloseFails(l) ==
    /\ WrapUp(l) /\ Goto(l, "head", "done")
    /\ \E n \in 0 .. Len(file[FileName(l)]) - 1, rest \in {<<>>, <<Part>>} :
          file' = [file EXCEPT ![FileName(l)] = SubSeq(@, 1, n) \o rest]
    /\ broken' = broken \cup {FileName(l)}
    /\ Same /\ UNCHANGED <<index, bufs, current_packets, received, tvars>>

(* rte_eth_rx_burst on the current queue.                                  *)
Delivered == {d \in Lcores \X (1 .. MaxPackets) : d[2] <= Len(received[d[1]])}

Receive(l) ==
    /\ Goto(l, "rx", "save")
    /\ \E n \in 0 .. BurstSize :
         /\ Cardinality(Delivered) + n <= MaxPackets
         /\ bufs' = [bufs EXCEPT ![l] = [k \in 1 .. n |-> <<index[l], Len(received[l]) + k>>]]
         /\ received' = [received EXCEPT ![l] = @ \o bufs'[l]]
    /\ Same /\ UNCHANGED <<index, file, current_packets, broken, tvars>>

(* Each FILE has its own place in the file, which is not its end when      *)
(* another worker has opened the same name and one of them written to it:  *)
(* then a write replaces any piece behind the PCAP header, and leaves      *)
(* parts or a hole at its ends.                                            *)
Misplaced(l) ==
    \E m \in Lcores \ {l} :
        /\ FileName(m) = FileName(l)
        /\ pc[m] \notin {"open", "failed"} \/ FileName(l) \in broken
        /\ received[m] # <<>> \/ Len(received[l]) > Len(bufs[l])

Ragged(units) == {units, <<Part>> \o units, units \o <<Part>>, <<Part>> \o units \o <<Part>>}

Over(old, units) ==
    {old \o units} \cup
    {SubSeq(old, 1, i) \o piece \o SubSeq(old, j, Len(old)) :
        i \in 1 .. Len(old), j \in 2 .. Len(old) + 1, piece \in Ragged(units)}

Write(l, units) ==
    \E content \in IF Misplaced(l) THEN Over(file[FileName(l)], units)
                                ELSE {file[FileName(l)] \o units} :
        file' = [file EXCEPT ![FileName(l)] = content]

ThresholdReached(l) ==
    setup.check_packet_th /\ current_packets[l] = setup.max_packets_per_queue

(* save_packet: past the threshold nothing is written; below, the packet   *)
(* counts before it is written, and stays counted when a write fails.      *)
save_packet(l) ==
    /\ pc[l] = "save" /\ bufs[l] # <<>>
    /\ bufs' = [bufs EXCEPT ![l] = Tail(@)]
    /\ IF ThresholdReached(l) THEN UNCHANGED <<file, current_packets, broken>>
       ELSE /\ current_packets' = [current_packets EXCEPT
                   ![l] = IF setup.check_packet_th THEN @ + 1 ELSE @]
            /\ LET p == bufs[l][1]
               IN \/ Write(l, <<Header(p), Data(p)>>) /\ UNCHANGED broken
                  \/ /\ \E units \in {<<>>, <<Part>>, <<Header(p)>>, <<Header(p), Part>>} :
                           Write(l, units)
                     /\ broken' = broken \cup {FileName(l)}
    /\ Same /\ UNCHANGED <<pc, index, received, tvars>>

NextQueue(l) ==
    /\ bufs[l] = <<>>
    /\ \/ /\ index[l] + 1 < Job(l).end_index /\ Goto(l, "save", "rx")
          /\ index' = [index EXCEPT ![l] = @ + 1]
       \/ /\ index[l] + 1 >= Job(l).end_index /\ Goto(l, "save", "head")
          /\ UNCHANGED index
    /\ Same /\ UNCHANGED <<rvars, tvars>>

Ended == {"done", "failed"}

Receiver(l) == FopenFails(l) \/ prepare_pcap_file(l) \/ LoopHead(l) \/ CloseFails(l)
                 \/ Receive(l) \/ save_packet(l) \/ NextQueue(l)
-------------------------------------------------------------------------------
(* Later, when receive is gone with its counters, transmit is started on   *)
(* one of the files.                                                       *)
StartTransmit ==
    /\ running = "receive" /\ \A l \in Lcores : pc[l] \in Ended
    /\ running' = "transmit" /\ stop' = FALSE
    /\ pcap_file' \in Names
    /\ pc' = [l \in Lcores |-> "open_capture"]
    /\ index' = [l \in Lcores |-> 0]
    /\ current_packets' = [l \in Lcores |-> 0]
    /\ received' = [l \in Lcores |-> <<>>]
    /\ UNCHANGED <<setup, file, bufs, broken, offset, packet, something_send, offered>>

Capture   == file[pcap_file]
Rest(l)   == SubSeq(Capture, offset[l] + 1, Len(Capture))

OpenCapture(l) ==
    /\ \/ /\ Goto(l, "open_capture", "read") /\ Capture # <<>> /\ Capture[1] = Hdr
          /\ offset' = [offset EXCEPT ![l] = 1]
       \/ /\ Goto(l, "open_capture", "failed")
          /\ UNCHANGED offset
    /\ Same /\ UNCHANGED <<index, rvars, pcap_file, packet, something_send, offered>>

(* Out of the loop: the stop flag, or no complete packet header is left.   *)
EndOfCapture(l) ==
    /\ Goto(l, "read", "done")
    /\ stop \/ Rest(l) \in {<<>>, <<Part>>}
    /\ Same /\ UNCHANGED <<index, rvars, tvars>>

(* A read error, a header that claims too much, no memory, or no data.     *)
ReadFails(l) ==
    /\ Goto(l, "read", "failed")
    /\ ~ stop
    /\ Same /\ UNCHANGED <<index, rvars, tvars>>

WholeRecord(l) ==
    /\ Len(Rest(l)) >= 2
    /\ \E p \in Packets : Rest(l)[1] = Header(p) /\ Rest(l)[2] = Data(p)

(* Behind a part of a record everything is out of step: what is taken for  *)
(* a packet is garbage and ends anywhere.                                  *)
Garbage == <<"garbage">>

ReadPacketLeavesData(l) ==
    /\ Goto(l, "read", "send") /\ ~ stop
    /\ Rest(l) # <<>>
    /\ packet' = [packet EXCEPT ![l] = Rest(l)[1].packet]
    /\ offset' = [offset EXCEPT ![l] = @ + 1]
    /\ index' = [index EXCEPT ![l] = Job(l).start_index]
    /\ something_send' = [something_send EXCEPT ![l] = FALSE]
    /\ Same /\ UNCHANGED <<rvars, pcap_file, offered>>

ReadPacket(l) ==
    /\ Goto(l, "read", "send") /\ ~ stop
    /\ \/ /\ WholeRecord(l)
          /\ packet' = [packet EXCEPT ![l] = Rest(l)[1].packet]
          /\ offset' = [offset EXCEPT ![l] = @ + 2]
       \/ /\ ~ WholeRecord(l) /\ Len(Rest(l)) >= 2 /\ Tail(Rest(l)) # <<Part>>
          /\ packet' = [packet EXCEPT ![l] = Garbage]
          /\ \E there \in offset[l] + 1 .. Len(Capture) :
                offset' = [offset EXCEPT ![l] = there]
    /\ index' = [index EXCEPT ![l] = Job(l).start_index]
    /\ something_send' = [something_send EXCEPT ![l] = FALSE]
    /\ Same /\ UNCHANGED <<rvars, pcap_file, offered>>

(* The packet on each queue of the range, or on transmit_queue alone.      *)
Skipped(q) == setup.transmit_queue \notin {NoSingle, q}

SkipQueue(l) ==
    /\ pc[l] = "send" /\ index[l] < Job(l).end_index /\ Skipped(index[l])
    /\ index' = [index EXCEPT ![l] = @ + 1]
    /\ Same /\ UNCHANGED <<pc, rvars, tvars>>

SendPacket(l) ==
    /\ pc[l] = "send" /\ index[l] < Job(l).end_index /\ ~ Skipped(index[l])
    /\ offered' = [offered EXCEPT ![index[l]] = Append(@, packet[l])]
    /\ index' = [index EXCEPT ![l] = @ + 1]
    /\ something_send' = [something_send EXCEPT ![l] = TRUE]
    /\ Same /\ UNCHANGED <<pc, rvars, pcap_file, offset, packet>>

AllocFails(l) ==
    /\ Goto(l, "send", "failed")
    /\ index[l] < Job(l).end_index /\ ~ Skipped(index[l])
    /\ something_send' = [something_send EXCEPT ![l] = TRUE]
    /\ Same /\ UNCHANGED <<index, rvars, pcap_file, offset, packet, offered>>

PacketSent(l) ==
    /\ Goto(l, "send", IF something_send[l] THEN "read" ELSE "done")
    /\ index[l] = Job(l).end_index
    /\ Same /\ UNCHANGED <<index, rvars, tvars>>

Sender(l) == OpenCapture(l) \/ EndOfCapture(l) \/ ReadFails(l) \/ ReadPacket(l)
               \/ SkipQueue(l) \/ SendPacket(l) \/ AllocFails(l) \/ PacketSent(l)
-------------------------------------------------------------------------------
handle_sig ==
    /\ stop' = TRUE
    /\ UNCHANGED <<setup, running, pc, index, rvars, tvars>>

Worker(l) == Receiver(l) \/ Sender(l)

Next == (\E l \in Lcores : Worker(l)) \/ StartTransmit \/ handle_sig

Spec == Init /\ [][Next]_vars

(* Each worker runs on a core of its own.                                  *)
FairSpec == Spec /\ \A l \in Lcores : WF_vars(Worker(l))
-------------------------------------------------------------------------------
TypeOK ==
    /\ setup \in Setups /\ running \in {"receive", "transmit"} /\ stop \in BOOLEAN
    /\ pc \in [Lcores -> {"open", "head", "rx", "save", "open_capture", "read", "send"}
                           \cup Ended]
    /\ index \in [Lcores -> Nat]
    /\ \A n \in Names : file[n] \in Seq(Units)
    /\ \A l \in Lcores : /\ {bufs[l], received[l]} \subseteq Seq(Packets)
                         /\ current_packets[l] \in 0 .. MaxPackets
                         /\ offset[l] \in Nat
    /\ broken \subseteq Names
    /\ something_send \in [Lcores -> BOOLEAN]
    /\ \A q \in Queues : offered[q] \in Seq(Packets \cup {Garbage})

(* What a worker has saved so far: every packet it is done with, in the    *)
(* order of reception over all its queues, up to the threshold.            *)
Handled(l) == SubSeq(received[l], 1, Len(received[l]) - Len(bufs[l]))
Saved(l)   == IF setup.check_packet_th /\ setup.max_packets_per_queue >= 0
              THEN SubSeq(Handled(l), 1, Min({Len(Handled(l)), setup.max_packets_per_queue}))
              ELSE Handled(l)
Records(ps) == [k \in 1 .. 2 * Len(ps) |->
                   IF k % 2 = 1 THEN Header(ps[(k + 1) \div 2]) ELSE Data(ps[k \div 2])]

(* The file that a worker opened, and on which no write failed, is the     *)
(* header and exactly these packets: no other worker's, none twice, none   *)
(* out of order, none beyond the threshold.                                *)
FileFaithful(l) ==
    pc[l] \notin {"open", "failed"} /\ file[FileName(l)] # <<>> /\ FileName(l) \notin broken
        => file[FileName(l)] = <<Hdr>> \o Records(Saved(l))

(* So it is for every prefix that leaves the name room for its numbers.    *)
(* For a longer one it is not, although -f accepts up to 49 characters.    *)
CaptureFaithful ==
    /\ TypeOK
    /\ running = "receive" /\ NumbersFit => \A l \in Lcores : FileFaithful(l)

(* With -t a worker ends once its packets are counted: it finishes the     *)
(* round and waits for no further packet.                                  *)
Full(l) == running = "receive" /\ pc[l] \in {"head", "rx", "save"} /\ ThresholdReached(l)
ThresholdEnds == \A l \in Lcores : Full(l) ~> pc[l] \notin {"head", "rx", "save"}

(* Of a sound capture, every queue is offered the packets in their order,  *)
(* from the first on, without a gap or a repetition and without garbage,   *)
(* whatever goes wrong in transmit; and all of them, when the worker was   *)
(* neither stopped nor out of memory.                                      *)
PacketsOf(capture) == [k \in 1 .. (Len(capture) - 1) \div 2 |-> capture[2 * k].packet]

Replaying == running = "transmit" /\ NumbersFit /\ pcap_file \notin broken /\ Capture # <<>>

ReplayFaithful ==
    Replaying =>
        /\ \A q \in Queues : IsPrefix(offered[q], PacketsOf(Capture))
        /\ stop \/ \A l \in Lcores : pc[l] = "done" =>
               \A q \in Job(l).start_index .. Job(l).end_index - 1 :
                   ~ Skipped(q) => offered[q] = PacketsOf(Capture)
===============================================================================
