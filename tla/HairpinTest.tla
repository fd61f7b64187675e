----------------------------- MODULE HairpinTest -----------------------------
(***************************************************************************)
(* The automatic test of the hairpin example (apps/flow/hairpin/hairpin.c):*)
(* lcore_main sends numbered packets in chunks into a port that loops them *)
(* back, the NIC forwards the odd ones in hardware and hands the even ones *)
(* to software, and the test compares what it reads with what it sent.     *)
(*                                                                         *)
(* The NIC may be slow, lose packets or split them wrongly: that is what   *)
(* the test is there to find out.  setup_ports ignores what most of its    *)
(* calls return: the test also runs on ports that are not started or not   *)
(* bound to each other.                                                    *)
(***************************************************************************)
EXTENDS Integers, Sequences, FiniteSets, SequencesExt

CONSTANTS PacketCounts,  \* packets_to_send
          BurstSize,     \* burst_size
          MaxRetries,    \* 1000 in the code
          Modulus        \* of a uint16_t: 2^16 in the code

(* packets_to_send is a uint16_t, burst_size always its default of 32.     *)
ASSUME HairpinAssumption ==
    /\ Modulus \in Nat \ {0} /\ MaxRetries \in Nat
    /\ PacketCounts \subseteq 0 .. Modulus - 1 /\ BurstSize \in 1 .. Modulus - 1

VARIABLES packets_to_send,
          pc,            \* where lcore_main is
          i,             \* number of the first packet of the chunk
          temp_bufs,     \* the chunk: packet numbers
          sent, retries,
          expected_sw, expected_hp, sent_total,
          sw_received, error_leaked,
          timeout,       \* timeout_ticks have passed
          started, bound,  \* the ports run; their hairpin queues are connected
          where,         \* where each packet is
          verdict        \* what the test prints

chunk    == <<i, temp_bufs, sent, retries>>
expected == <<expected_sw, expected_hp, sent_total>>
result   == <<sw_received, error_leaked, verdict>>
ports    == <<started, bound>>
vars     == <<packets_to_send, pc, chunk, expected, result, timeout, ports, where>>

Packets == 0 .. packets_to_send - 1
Even(p) == p % 2 = 0
Places  == {"unborn", "chunk", "freed", "wire", "lost", "hairpin", "sw", "read"}

Init ==
    /\ packets_to_send \in PacketCounts
    /\ pc = "setup"
    /\ started = FALSE /\ bound = FALSE
    /\ i = 0 /\ temp_bufs = <<>> /\ sent = 0 /\ retries = 0
    /\ expected_sw = 0 /\ expected_hp = 0 /\ sent_total = 0
    /\ sw_received = 0 /\ error_leaked = 0
    /\ timeout = FALSE
    /\ where = [p \in Packets |-> "unborn"]
    /\ verdict = "none"
-------------------------------------------------------------------------------
(* EAL, options, number of ports, mempool, rte_eth_dev_configure and the   *)
(* flow rules end the process when they fail.                              *)
SetupFails ==
    /\ pc = "setup"
    /\ pc' = "exited"
    /\ UNCHANGED <<packets_to_send, chunk, expected, result, timeout, ports, where>>

(* Queues, rte_eth_dev_start and rte_eth_hairpin_bind may fail unnoticed;  *)
(* only ports that run can be bound.                                       *)
setup_ports ==
    /\ pc = "setup"
    /\ pc' = "generate"
    /\ started' \in BOOLEAN /\ bound' \in BOOLEAN /\ (bound' => started')
    /\ UNCHANGED <<packets_to_send, chunk, expected, result, timeout, where>>
-------------------------------------------------------------------------------
Moved(ps, place) == [p \in Packets |-> IF p \in ps THEN place ELSE where[p]]

(* The casts of both operands of RTE_MIN to 16 bits change nothing.        *)
chunk_size == Min({BurstSize, packets_to_send - i})

Chunk == [j \in 1 .. chunk_size |-> i + j - 1]

(* The next chunk: an even packet per even number, an odd one per odd.     *)
Generate ==
    /\ pc = "generate" /\ i < packets_to_send
    /\ temp_bufs' = Chunk
    /\ expected_sw' = expected_sw + Cardinality({p \in Range(Chunk) : Even(p)})
    /\ expected_hp' = expected_hp + Cardinality({p \in Range(Chunk) : ~ Even(p)})
    /\ where' = Moved(Range(Chunk), "chunk")
    /\ sent' = 0 /\ retries' = 0
    /\ pc' = "send"
    /\ UNCHANGED <<packets_to_send, ports, i, sent_total, result, timeout>>

(* generate_ipv4_pkt exits the process when the pool is empty.             *)
PoolEmpty ==
    /\ pc = "generate" /\ i < packets_to_send /\ chunk_size > 0
    /\ pc' = "exited"
    /\ UNCHANGED <<packets_to_send, ports, chunk, expected, result, timeout, where>>

(* rte_eth_tx_burst on what is left of the chunk; a short burst counts as  *)
(* a retry.                                                                *)
Remaining == SubSeq(temp_bufs, sent + 1, Len(temp_bufs))

TryAgain == sent < Len(temp_bufs) /\ retries < MaxRetries

Send ==
    /\ pc = "send" /\ TryAgain
    /\ \E nb_tx \in (IF started THEN 0 .. Len(Remaining) ELSE {0}) :
         /\ where' = Moved(Range(SubSeq(Remaining, 1, nb_tx)), "wire")
         /\ sent' = (sent + nb_tx) % Modulus
         /\ retries' = IF nb_tx < Len(Remaining) THEN retries + 1 ELSE retries
    /\ UNCHANGED <<packets_to_send, ports, pc, i, temp_bufs, expected, result, timeout>>

(* The rest of the chunk is freed and no longer expected.                  *)
ChunkDoneStillExpected ==
    /\ pc = "send" /\ ~ TryAgain
    /\ where' = Moved(Range(Remaining), "freed")
    /\ sent_total' = (sent_total + sent) % Modulus
    /\ i' = i + BurstSize
    /\ temp_bufs' = <<>> /\ sent' = 0 /\ retries' = 0
    /\ pc' = "generate"
    /\ UNCHANGED <<packets_to_send, ports, expected_sw, expected_hp, result, timeout>>

ChunkDone ==
    /\ pc = "send" /\ ~ TryAgain
    /\ where' = Moved(Range(Remaining), "freed")
    /\ expected_sw' = expected_sw - Cardinality({p \in Range(Remaining) : Even(p)})
    /\ expected_hp' = expected_hp - Cardinality({p \in Range(Remaining) : ~ Even(p)})
    /\ sent_total' = (sent_total + sent) % Modulus
    /\ i' = i + BurstSize
    /\ temp_bufs' = <<>> /\ sent' = 0 /\ retries' = 0
    /\ pc' = "generate"
    /\ UNCHANGED <<packets_to_send, ports, result, timeout>>

AllSent ==
    /\ pc = "generate" /\ i >= packets_to_send
    /\ pc' = "receive"
    /\ UNCHANGED <<packets_to_send, ports, chunk, expected, result, timeout, where>>
-------------------------------------------------------------------------------
KeepReadingForever == sw_received < expected_sw
KeepReading == sw_received < expected_sw /\ ~ timeout

(* A round over the queues: some of the packets that wait are read,        *)
(* counted by their last address bit and freed.                            *)
InSw == {p \in Packets : where[p] = "sw"}

CountsByAddress(read) ==
    /\ sw_received' = sw_received + Cardinality({p \in read : Even(p)})
    /\ error_leaked' = error_leaked + Cardinality({p \in read : ~ Even(p)})

ReceiveRound ==
    /\ pc = "receive" /\ KeepReading
    /\ \E read \in SUBSET InSw :
         /\ Cardinality(read) <= BurstSize
         /\ CountsByAddress(read)
         /\ where' = Moved(read, "read")
    /\ UNCHANGED <<packets_to_send, ports, pc, chunk, expected, timeout, verdict>>

PassIfNoneLeaked == error_leaked = 0
PassOfAllSent == sw_received = sent_total /\ error_leaked = 0
Pass == sw_received = expected_sw /\ error_leaked = 0

Verdict ==
    /\ pc = "receive" /\ ~ KeepReading
    /\ verdict' = IF Pass THEN "PASSED" ELSE "FAILED"
    /\ pc' = "cleanup"
    /\ UNCHANGED <<packets_to_send, ports, chunk, expected, sw_received, error_leaked, timeout, where>>

(* Both unbind calls and cleanup(2).                                       *)
Cleanup ==
    /\ pc = "cleanup"
    /\ started' = FALSE /\ bound' = FALSE
    /\ pc' = "done"
    /\ UNCHANGED <<packets_to_send, chunk, expected, result, timeout, where>>

(* Two seconds after the receive loop was entered.                         *)
ClockTick ==
    /\ pc = "receive"
    /\ timeout' = TRUE
    /\ UNCHANGED <<packets_to_send, ports, pc, chunk, expected, result, where>>
-------------------------------------------------------------------------------
(* The port loops a packet back, and the two flow rules choose its way.    *)
RouteOf(p) == IF Even(p) THEN "sw" ELSE "hairpin"

Arrive(place) ==
    /\ \E p \in Packets : /\ where[p] = "wire"
                          /\ place = RouteOf(p)
                          /\ place = "hairpin" => bound
                          /\ where' = Moved({p}, place)
    /\ UNCHANGED <<packets_to_send, ports, pc, chunk, expected, result, timeout>>

Lose ==
    /\ \E p \in Packets : where[p] = "wire" /\ where' = Moved({p}, "lost")
    /\ UNCHANGED <<packets_to_send, ports, pc, chunk, expected, result, timeout>>

(* The rules do not do what they should.                                   *)
SplitWrongly ==
    /\ \E p \in Packets, place \in {"sw", "hairpin"} :
         /\ where[p] = "wire" /\ place # RouteOf(p)
         /\ place = "hairpin" => bound
         /\ where' = Moved({p}, place)
    /\ UNCHANGED <<packets_to_send, ports, pc, chunk, expected, result, timeout>>

Main == \/ SetupFails \/ setup_ports
        \/ Generate \/ PoolEmpty \/ Send \/ ChunkDone \/ AllSent
        \/ ReceiveRound \/ Verdict \/ Cleanup

Next == \/ Main \/ ClockTick
        \/ \E place \in {"sw", "hairpin"} : Arrive(place)
        \/ Lose \/ SplitWrongly

Spec == Init /\ [][Next]_vars

(* Main runs and time passes; the NIC owes nothing.                        *)
FairSpec == Spec /\ WF_vars(Main) /\ WF_vars(ClockTick)
-------------------------------------------------------------------------------
TypeOK ==
    /\ packets_to_send \in PacketCounts
    /\ pc \in {"setup", "generate", "send", "receive", "cleanup", "done", "exited"}
    /\ i \in Nat /\ temp_bufs \in Seq(Packets)
    /\ sent \in 0 .. Len(temp_bufs) /\ retries \in 0 .. MaxRetries
    /\ {expected_sw, expected_hp, sw_received, error_leaked} \subseteq 0 .. packets_to_send
    /\ sent_total \in 0 .. Modulus - 1
    /\ {timeout, started, bound} \subseteq BOOLEAN
    /\ where \in [Packets -> Places]
    /\ verdict \in {"none", "PASSED", "FAILED"}

OnNic  == {p \in Packets : where[p] \notin {"unborn", "chunk", "freed"}}

(* Between two chunks the counters stand for exactly the packets the NIC   *)
(* has taken, whatever was left unsent and however the retries went, and   *)
(* no mbuf of the test stays behind in temp_bufs.                          *)
ExpectedIsSent ==
    /\ TypeOK
    /\ pc \notin {"send", "exited"} =>
           /\ expected_sw = Cardinality({p \in OnNic : Even(p)})
           /\ expected_hp = Cardinality({p \in OnNic : ~ Even(p)})
           /\ sent_total = (expected_sw + expected_hp) % Modulus
           /\ \A p \in Packets : where[p] # "chunk"

(* PASSED is only printed when every even packet the NIC took came back to *)
(* software and no odd packet was read there.                              *)
PassedMeansAllRead ==
    verdict = "PASSED" =>
        \A p \in OnNic : IF Even(p) THEN where[p] = "read" ELSE where[p] # "read"

(* A NIC that loses nothing, splits as told and is done within two seconds *)
(* is never failed.                                                        *)
Healthy == /\ \A p \in Packets : where[p] # "lost"
           /\ \A p \in Packets : where[p] \in {"sw", "hairpin", "read"} =>
                                    (Even(p) <=> where[p] # "hairpin")
HealthyPasses == Healthy /\ ~ timeout => verdict # "FAILED"

(* The test ends, even if the NIC stops taking or returning packets.       *)
TestEnds == <>(pc \in {"done", "exited"})

(* "TEST PASSED: Hairpin split is working!" (hairpin.c:263): when this is  *)
(* printed, no odd packet is in software's queues.                         *)
PassedMeansSplit ==
    [][verdict' = "PASSED" => \A p \in Packets : ~ Even(p) => where[p] \notin {"sw", "read"}]_verdict
===============================================================================
