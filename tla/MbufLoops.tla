------------------------------ MODULE MbufLoops ------------------------------
(***************************************************************************)
(* Who owns which mbuf: the worker loops of read, receive, generate,       *)
(* transmit, bonding and loopback, the mbuf pool they share and the        *)
(* descriptor rings of their queues.                                       *)
(*                                                                         *)
(* Each worker serves a queue of its own (WorkerJobs).  The workers meet   *)
(* in the pool, and in generate also in the create_packet flag of the      *)
(* settings they all point to.  The pool, the rings and the NIC are DPDK's *)
(* and are modelled as the loops use them.                                 *)
(***************************************************************************)
EXTENDS Integers, Sequences, FiniteSets, SequencesExt

CONSTANTS Lcores,       \* the launched workers
          Setups,       \* the applications with their DPDK settings
          CacheSize,    \* what an lcore's mempool cache may hold back from the others
          NbTxModulus   \* nb_tx is a uint16_t: 2^16 in the code

AppNames == {"read", "receive", "generate", "transmit", "bonding", "loopback"}

ASSUME LoopsAssumption ==
    /\ Lcores \subseteq Nat /\ IsFiniteSet(Lcores)
    /\ Setups \subseteq [app : AppNames, mempool_size : Nat,
                         descriptors : Nat \ {0}, burst_size : Nat \ {0}]
    /\ CacheSize \in Nat /\ NbTxModulus \in Nat \ {0}
    \* burst_size is a uint16_t, as nb_tx is.
    /\ \A s \in Setups : s.burst_size < NbTxModulus
    \* Setting up a receive queue fails when its ring cannot be filled.
    /\ \A s \in Setups, l \in Lcores :
         s.app \in {"read", "receive", "bonding", "loopback"}
             => (l + 1) * s.descriptors <= s.mempool_size

VARIABLES setup,          \* the application that runs, and its settings
          free,           \* the mbufs in the pool
          rx_ring,        \* rx_ring[l]: the mbufs posted for reception
          tx_ring,        \* tx_ring[l]: the mbufs being sent, oldest first
          bufs,           \* the worker's array of mbuf pointers
          nb_tx,          \* how many of them it counts as sent
          pc,             \* where the worker is in its loop
          create_packet,  \* generate: app_settings->create_packet
          new_packet,     \* generate: the worker's template packet
          stop            \* __stop

mem   == <<free, rx_ring, tx_ring>>
pkt   == <<create_packet, new_packet>>
vars  == <<setup, mem, bufs, nb_tx, pc, pkt, stop>>

app         == setup.app
Descriptors == setup.descriptors  \* the length of every ring
BurstSize   == setup.burst_size
Mbufs       == 1 .. setup.mempool_size

Sends    == app \in {"generate", "transmit", "bonding"}
Receives == app \in {"read", "receive", "bonding", "loopback"}

(* transmit allocates and sends one packet at a time.                      *)
Burst == IF app = "transmit" THEN 1 ELSE BurstSize

(* Some n members of S.  Which mbufs the pool or the NIC hands out, and in *)
(* which order, makes no difference to the loops.                          *)
AnyOf(S, n) == CHOOSE s \in [1 .. n -> S] : IsInjective(s)
-------------------------------------------------------------------------------
(* device_setup posted a full receive ring on every queue.                 *)
Posted(l) == l * Descriptors + 1 .. (l + 1) * Descriptors

Init ==
    /\ setup \in Setups
    /\ rx_ring = [l \in Lcores |-> IF Receives THEN Posted(l) ELSE {}]
    /\ free = Mbufs \ UNION {rx_ring[l] : l \in Lcores}
    /\ tx_ring = [l \in Lcores |-> <<>>]
    /\ bufs = [l \in Lcores |-> <<>>]
    /\ nb_tx = [l \in Lcores |-> 0]
    /\ pc = [l \in Lcores |-> IF app = "generate" THEN "start" ELSE "head"]
    /\ create_packet \in IF app = "generate" THEN BOOLEAN ELSE {FALSE}
    /\ new_packet = [l \in Lcores |-> "garbage"]
    /\ stop = FALSE

Goto(l, here, there) == pc[l] = here /\ pc' = [pc EXCEPT ![l] = there]

(* generate, before the loop: a template of the worker's own.  The flag is *)
(* everybody's.                                                            *)
StartKeepsFlag(l) ==
    /\ Goto(l, "start", "head")
    /\ new_packet' = IF ~ create_packet THEN new_packet
                     ELSE [new_packet EXCEPT ![l] = "null"]
    /\ UNCHANGED <<setup, mem, bufs, nb_tx, create_packet, stop>>

Start(l) ==
    /\ Goto(l, "start", "head")
    /\ \/ /\ ~ create_packet
          /\ UNCHANGED pkt
       \/ /\ create_packet
          /\ new_packet' = [new_packet EXCEPT ![l] = "heap"]
          /\ UNCHANGED create_packet
       \/ /\ create_packet
          /\ new_packet' = [new_packet EXCEPT ![l] = "null"]
          /\ create_packet' = FALSE
    /\ UNCHANGED <<setup, mem, bufs, nb_tx, stop>>

(* The head of the while loop.  receive and transmit have more reasons to  *)
(* leave: the packet threshold, the end of the capture.                    *)
LoopHead(l) ==
    /\ ~ stop
    /\ Goto(l, "head", IF Sends THEN "alloc" ELSE "rx")
    /\ UNCHANGED <<setup, mem, bufs, nb_tx, pkt, stop>>

Leave(l) ==
    /\ stop \/ app \in {"receive", "transmit"}
    /\ Goto(l, "head", "done")
    /\ new_packet' = IF create_packet THEN [new_packet EXCEPT ![l] = "freed"]
                                      ELSE new_packet
    /\ UNCHANGED <<setup, mem, bufs, nb_tx, create_packet, stop>>
-------------------------------------------------------------------------------
(* rte_pktmbuf_alloc_bulk: all or nothing.  What the other lcores' caches  *)
(* hold is out of reach, so the call may fail with mbufs left.             *)
OutOfReach == CacheSize * (Cardinality(Lcores) - 1)

Alloc(l) ==
    /\ Goto(l, "alloc", IF app = "generate" THEN "fill" ELSE "tx")
    /\ Cardinality(free) >= Burst
    /\ bufs' = [bufs EXCEPT ![l] = AnyOf(free, Burst)]
    /\ free' = free \ Range(bufs'[l])
    /\ nb_tx' = [nb_tx EXCEPT ![l] = 0]
    /\ UNCHANGED <<setup, rx_ring, tx_ring, pkt, stop>>

(* generate and transmit return, bonding goes on without sending.          *)
AllocFails(l) ==
    /\ Goto(l, "alloc", IF app = "bonding" THEN "rx" ELSE "failed")
    /\ Cardinality(free) < Burst + OutOfReach
    /\ UNCHANGED <<setup, mem, bufs, nb_tx, pkt, stop>>

(* The payload: the template if the flag still says there is one.          *)
Fill(l) ==
    /\ Goto(l, "fill", "tx")
    /\ UNCHANGED <<setup, mem, bufs, nb_tx, pkt, stop>>

(* rte_eth_tx_burst takes as many as it likes and has descriptors for, of  *)
(* those the caller points to: here always from the start of the array.    *)
TxBurst(l, n) ==
    /\ n <= Min({Len(bufs[l]), Descriptors - Len(tx_ring[l])})
    /\ tx_ring' = [tx_ring EXCEPT ![l] = @ \o SubSeq(bufs[l], 1, n)]

Send(l) ==
    /\ Goto(l, "tx", "free_unsent")
    /\ \E n \in 0 .. Burst : /\ TxBurst(l, n)
                             /\ nb_tx' = [nb_tx EXCEPT ![l] = n]
    /\ UNCHANGED <<setup, free, rx_ring, bufs, pkt, stop>>

(* The mbufs that rte_eth_tx_burst left to the worker.                     *)
UnsentFromStart(l) == SubSeq(bufs[l], 1, Len(bufs[l]) - nb_tx[l])
UnsentButOne(l)    == SubSeq(bufs[l], nb_tx[l] + 2, Len(bufs[l]))
Unsent(l)          == SubSeq(bufs[l], nb_tx[l] + 1, Len(bufs[l]))

FreeUnsent(l) ==
    /\ Goto(l, "free_unsent", IF app = "bonding" THEN "rx" ELSE "head")
    /\ free' = free \cup Range(Unsent(l))
    /\ bufs' = [bufs EXCEPT ![l] = <<>>]
    /\ nb_tx' = [nb_tx EXCEPT ![l] = 0]
    /\ UNCHANGED <<setup, rx_ring, tx_ring, pkt, stop>>
-------------------------------------------------------------------------------
(* rte_eth_rx_burst: some of the posted mbufs, and the driver posts new    *)
(* ones as far as the pool has any.                                        *)
Receive(l) ==
    /\ Goto(l, "rx", IF app = "loopback" THEN "send_back" ELSE "free_received")
    /\ \E n \in 0 .. Min({BurstSize, Cardinality(rx_ring[l])}) :
         LET got    == AnyOf(rx_ring[l], n)
             left   == rx_ring[l] \ Range(got)
             refill == Range(AnyOf(free, Min({Cardinality(free),
                                               Descriptors - Cardinality(left)})))
         IN /\ bufs' = [bufs EXCEPT ![l] = got]
            /\ \E posted \in {{}, refill} :
                 /\ rx_ring' = [rx_ring EXCEPT ![l] = left \cup posted]
                 /\ free' = free \ posted
    /\ nb_tx' = [nb_tx EXCEPT ![l] = 0]
    /\ UNCHANGED <<setup, tx_ring, pkt, stop>>

FreeReceived(l) ==
    /\ Goto(l, "free_received", "head")
    /\ free' = free \cup Range(bufs[l])
    /\ bufs' = [bufs EXCEPT ![l] = <<>>]
    /\ UNCHANGED <<setup, rx_ring, tx_ring, nb_tx, pkt, stop>>

(* loopback: while (nb_rx != nb_tx && !stop_loop()).  Every retry points   *)
(* at the whole array again.                                               *)
RetryIgnoresStop(l) == Len(bufs[l]) # nb_tx[l]
Retry(l) == Len(bufs[l]) # nb_tx[l] /\ ~ stop

SendBack(l) ==
    /\ pc[l] = "send_back"
    /\ Retry(l)
    /\ \E n \in 0 .. BurstSize :
         /\ TxBurst(l, n)
         /\ nb_tx' = [nb_tx EXCEPT ![l] = (@ + n) % NbTxModulus]
    /\ UNCHANGED <<setup, free, rx_ring, bufs, pc, pkt, stop>>

SentBack(l) ==
    /\ Goto(l, "send_back", "head")
    /\ ~ Retry(l)
    /\ bufs' = [bufs EXCEPT ![l] = <<>>]
    /\ nb_tx' = [nb_tx EXCEPT ![l] = 0]
    /\ UNCHANGED <<setup, mem, pkt, stop>>
-------------------------------------------------------------------------------
(* The NIC has sent the oldest packet and the driver frees its mbuf.       *)
Complete(l) ==
    /\ tx_ring[l] # <<>>
    /\ tx_ring' = [tx_ring EXCEPT ![l] = Tail(@)]
    /\ free' = free \cup {tx_ring[l][1]}
    /\ UNCHANGED <<setup, rx_ring, bufs, nb_tx, pc, pkt, stop>>

handle_sig ==
    /\ stop' = TRUE
    /\ UNCHANGED <<setup, mem, bufs, nb_tx, pc, pkt>>

Worker(l) == \/ Start(l) \/ LoopHead(l) \/ Leave(l)
             \/ Alloc(l) \/ AllocFails(l) \/ Fill(l) \/ Send(l) \/ FreeUnsent(l)
             \/ Receive(l) \/ FreeReceived(l) \/ SendBack(l) \/ SentBack(l)

Next == (\E l \in Lcores : Worker(l) \/ Complete(l)) \/ handle_sig

Spec == Init /\ [][Next]_vars

(* The workers run on cores of their own; the NIC may stop sending and     *)
(* nobody has to send a signal.                                            *)
FairSpec == Spec /\ \A l \in Lcores : WF_vars(Worker(l))
-------------------------------------------------------------------------------
Ended == {"done", "failed"}

TypeOK ==
    /\ setup \in Setups
    /\ free \subseteq Mbufs
    /\ \A l \in Lcores :
         /\ rx_ring[l] \subseteq Mbufs /\ Cardinality(rx_ring[l]) <= Descriptors
         /\ Range(tx_ring[l]) \subseteq Mbufs /\ Len(tx_ring[l]) <= Descriptors
         /\ Range(bufs[l]) \subseteq Mbufs /\ Len(bufs[l]) <= BurstSize
         /\ nb_tx[l] \in 0 .. NbTxModulus - 1
    /\ pc \in [Lcores -> {"start", "head", "alloc", "fill", "tx", "free_unsent", "rx",
                          "free_received", "send_back"} \cup Ended]
    /\ create_packet \in BOOLEAN /\ stop \in BOOLEAN
    /\ new_packet \in [Lcores -> {"garbage", "null", "heap", "freed"}]

Held(l)   == {bufs[l][k] : k \in nb_tx[l] + 1 .. Len(bufs[l])}
Places    == {<<"pool", -1>>} \cup ({"rx", "tx", "held"} \X Lcores)
Holds(pl) == CASE pl[1] = "pool" -> free
               [] pl[1] = "rx"   -> rx_ring[pl[2]]
               [] pl[1] = "tx"   -> Range(tx_ring[pl[2]])
               [] pl[1] = "held" -> Held(pl[2])

(* No mbuf is in two hands: the pool, a receive ring, a transmit ring (and *)
(* there only once) or an array of a worker that still has to release it.  *)
(* Two places would mean a double free, or a packet overwritten while the  *)
(* NIC sends it.  loopback is left out: see SendsBackOnce.                 *)
SingleOwner ==
    app # "loopback" =>
    /\ \A p, r \in Places : p # r => Holds(p) \cap Holds(r) = {}
    /\ \A l \in Lcores : IsInjective(tx_ring[l])

(* No mbuf is lost on any path through the loops: partial bursts, failed   *)
(* allocations, the stop flag.  loopback is left out: it drops what it has *)
(* not sent back when the flag is set.                                     *)
NothingLost == app # "loopback" => UNION {Holds(p) : p \in Places} = Mbufs

(* With a pool as large as the formula above set_default_dpdk_setts asks   *)
(* for (common_args.c:44-48), no generator ever runs out of mbufs,         *)
(* however slowly the NIC sends and however the workers interleave.        *)
OptimalMempoolSize == Cardinality(Lcores) * (2 * Descriptors + BurstSize + CacheSize)

PoolSuffices ==
    /\ TypeOK
    /\ setup.mempool_size >= OptimalMempoolSize => \A l \in Lcores : pc[l] # "failed"

(* As long as the flag is set, every worker in its loop has its template:  *)
(* nobody copies from, or at the end frees, a pointer that another         *)
(* worker's failed malloc should have taken out of use.                    *)
TemplateBehindFlag ==
    app = "generate" /\ create_packet =>
        \A l \in Lcores : pc[l] \notin Ended \cup {"start"} => new_packet[l] = "heap"

(* After the signal every worker ends, even if the NIC never sends another *)
(* packet.                                                                 *)
StopEndsWorkers == stop ~> \A l \in Lcores : pc[l] \in Ended

(* "Send burst of TX packets back where it came from" (loopback.c:69):     *)
(* what was received once is not on its way back twice.                    *)
SendsBackOnce == \A l \in Lcores : IsInjective(tx_ring[l])
===============================================================================
