------------------------------ MODULE CommandLine ------------------------------
(***************************************************************************)
(* How the applications turn their command line into settings: the         *)
(* defaults (set_default_dpdk_setts and each parse_custom_args), the       *)
(* getopt_long loop that applies option after option, the application's    *)
(* own options before the common ones of common_args.c, and the checks     *)
(* that main() and init() make when all options are in.                    *)
(*                                                                         *)
(* An option is its letter and what atoi or sscanf make of its argument:   *)
(* a number n, and for transmit's port,queue a second number q (NoNumber   *)
(* if it is missing).  For a file name n is its length.                    *)
(***************************************************************************)
EXTENDS Integers, Sequences

CONSTANTS CommandLines,  \* per application, the command lines it is given
          LcoreCount,    \* rte_lcore_count()
          UintModulus,   \* of unsigned: 2^32 in the code
          LongModulus    \* of uint64_t: 2^64 in the code

Applications == {"read", "loopback", "generate", "receive", "transmit", "bonding",
                 "metadata_viewer", "table_filler", "hairpin", "flagging"}

Arguments == [opt : STRING, n : Int, q : Int]

ASSUME CommandLineAssumption ==
    /\ DOMAIN CommandLines = Applications /\ LcoreCount \in Nat \ {0}
    /\ \A a \in Applications : CommandLines[a] \subseteq Seq(Arguments)
    /\ UintModulus \in Nat \ {0} /\ LongModulus \in Nat \ {0}

NoNumber == -1

VARIABLES app, given,    \* the application and its whole command line
          args,          \* what getopt_long has not returned yet
          settings,      \* struct application_settings, dpdk_settings included
          outcome        \* parsing, or how it ended

command == <<app, given, args, settings, outcome>>

Override(f, g) == [x \in DOMAIN f |-> IF x \in DOMAIN g THEN g[x] ELSE f[x]]
Union(f, g)    == [x \in DOMAIN f \cup DOMAIN g |-> IF x \in DOMAIN g THEN g[x] ELSE f[x]]

(* What a field of each width makes of a number: a negative one becomes    *)
(* a huge one.  int fields keep theirs.                                    *)
U16(n) == n % 65536
U32(n) == n % UintModulus
U64(n) == n % LongModulus
-------------------------------------------------------------------------------
(* The size of the pool, from the default settings: common_args.c counts   *)
(* on 32 queues, whatever is asked for later.                              *)
Max2(a, b) == IF a < b THEN b ELSE a

PoolFor(ports, queues, descriptors, burst, cache) ==
    Max2(ports * queues * descriptors + ports * LcoreCount * burst
           + ports * queues * descriptors + LcoreCount * cache, 8196)

queue_cnt_for_mempoolAsDefault == 1
queue_cnt_for_mempool == 32

set_default_dpdk_setts ==
    [mempool_cache_size |-> 512, burst_size |-> 32, descriptors |-> 1024,
     mbuf_size |-> 1518, ports |-> 1, queues_per_port |-> 1,
     mempool_size |-> PoolFor(1, queue_cnt_for_mempool, 1024, 32, 512)]

(* Each parse_custom_args: the defaults that it sets, and what the cases   *)
(* of its switch assign.                                                   *)
NextStats(n) == [next_stats_delay_ms |-> U64(n * 1000)]

ReadDefaults     == [next_stats_delay_ms |-> 5000, disable_rss |-> FALSE]
ReadCases(n)     == [t |-> NextStats(n), r |-> [disable_rss |-> TRUE]]

LoopbackDefaults == [next_stats_delay_ms |-> 5000]
LoopbackCases(n) == [t |-> NextStats(n)]

GenerateDefaults == [next_stats_delay_ms |-> 5000, packet_length |-> 512, create_packet |-> FALSE]
GenerateCases(n) == [t |-> NextStats(n), l |-> [packet_length |-> U16(n)],
                     r |-> [create_packet |-> TRUE]]

ReceiveDefaults  == [max_packets_per_queue |-> 1, check_packet_th |-> FALSE,
                     file_prefix |-> 8, frequency |-> 5, dump_packets |-> FALSE]
ReceiveCases(n)  == [t |-> [max_packets_per_queue |-> n, check_packet_th |-> TRUE],
                     f |-> [file_prefix |-> n],
                     x |-> [frequency |-> n, dump_packets |-> TRUE]]

TransmitDefaults == [pcap_file |-> 9, transmit_port |-> U16(-1), transmit_queue |-> U32(-1),
                     transmit_single |-> FALSE]
TransmitCases(n, q) ==
    [f |-> [pcap_file |-> n],
     i |-> [transmit_port |-> U16(n), transmit_queue |-> U32(q), transmit_single |-> TRUE]]

BondingDefaults  == [next_stats_delay_ms |-> 5000]
BondingCases(n)  == [t |-> NextStats(n)]

ViewerDefaults   == [enable_flow |-> FALSE]
ViewerCases      == [e |-> [enable_flow |-> TRUE]]

FillerDefaults   == [group |-> 0, key |-> 0, rules |-> 0, gen_rand |-> TRUE,
                     failure_exit |-> FALSE, next_stats_delay_ms |-> 1000]
FillerCases(n)   == [g |-> [group |-> U32(n)], k |-> [key |-> U32(n)], n |-> [rules |-> U64(n)],
                     i |-> [gen_rand |-> FALSE], e |-> [failure_exit |-> TRUE],
                     t |-> [next_stats_delay_ms |-> U64(n)]]

HairpinDefaults  == [next_stats_delay_ms |-> 5000, nb_std_queues |-> 1, nb_hp_queues |-> 1,
                     nb_desc |-> 1024, packets_to_send |-> 64]
HairpinCases(n)  == [s |-> [nb_std_queues |-> U16(n)], q |-> [nb_hp_queues |-> U16(n)],
                     d |-> [nb_desc |-> U16(n)], p |-> [packets_to_send |-> U16(n)],
                     t |-> NextStats(n)]

FlaggingDefaults == [use_mark |-> FALSE, q_id |-> 0, rx_queues |-> 1, port_id |-> 0, debug |-> FALSE]
FlaggingCases(n) == [m |-> [use_mark |-> TRUE], i |-> [q_id |-> U32(n)], q |-> [rx_queues |-> U32(n)],
                     p |-> [port_id |-> U16(n)], d |-> [debug |-> TRUE]]

AppDefaults ==
    [read |-> ReadDefaults, loopback |-> LoopbackDefaults, generate |-> GenerateDefaults,
     receive |-> ReceiveDefaults, transmit |-> TransmitDefaults, bonding |-> BondingDefaults,
     metadata_viewer |-> ViewerDefaults, table_filler |-> FillerDefaults,
     hairpin |-> HairpinDefaults, flagging |-> FlaggingDefaults]

AppCases(n, q) ==
    [read |-> ReadCases(n), loopback |-> LoopbackCases(n), generate |-> GenerateCases(n),
     receive |-> ReceiveCases(n), transmit |-> TransmitCases(n, q), bonding |-> BondingCases(n),
     metadata_viewer |-> ViewerCases, table_filler |-> FillerCases(n),
     hairpin |-> HairpinCases(n), flagging |-> FlaggingCases(n)]
-------------------------------------------------------------------------------
(* flagging has no dpdk_settings.                                          *)
Defaults(a) ==
    IF a = "flagging" THEN AppDefaults[a] ELSE Union(set_default_dpdk_setts, AppDefaults[a])

Init ==
    /\ app \in Applications
    /\ given \in CommandLines[app] /\ args = given
    /\ settings = Defaults(app)
    /\ outcome = "parsing"
-------------------------------------------------------------------------------
(* parse_dpdk_args.                                                        *)
DpdkCasesFallThrough(n) ==
    [m |-> [mempool_size |-> U64(n)], c |-> [mempool_cache_size |-> U64(n)],
     b |-> [burst_size |-> U64(n)], d |-> [descriptors |-> U64(n), mbuf_size |-> U64(n)],
     s |-> [mbuf_size |-> U64(n)], p |-> [ports |-> U16(n)], q |-> [queues_per_port |-> U32(n)]]
DpdkCases(n) ==
    [m |-> [mempool_size |-> U64(n)], c |-> [mempool_cache_size |-> U64(n)],
     b |-> [burst_size |-> U64(n)], d |-> [descriptors |-> U64(n)],
     s |-> [mbuf_size |-> U64(n)], p |-> [ports |-> U16(n)], q |-> [queues_per_port |-> U32(n)]]

TakesDpdkArgs(a) == a \notin {"hairpin", "flagging"}

IsAppArg(a, arg)  == arg.opt \in DOMAIN AppCases(arg.n, arg.q)[a]
is_dpdk_arg(a, arg) == TakesDpdkArgs(a) /\ arg.opt \in DOMAIN DpdkCases(arg.n)

Assigned(a, arg) ==
    IF IsAppArg(a, arg) THEN AppCases(arg.n, arg.q)[a][arg.opt] ELSE DpdkCases(arg.n)[arg.opt]

(* A file name that does not fit, a queue without a port.                  *)
BadArgument(a, arg) ==
    \/ a = "receive"  /\ arg.opt = "f" /\ arg.n + 1 > 50
    \/ a = "transmit" /\ arg.opt = "f" /\ arg.n + 1 > 100
    \/ a = "transmit" /\ arg.opt = "i" /\ arg.q = NoNumber
-------------------------------------------------------------------------------
(* One turn of the getopt_long loop.                                       *)
Option ==
    /\ outcome = "parsing" /\ args # <<>>
    /\ IsAppArg(app, Head(args)) \/ is_dpdk_arg(app, Head(args))
    /\ ~ BadArgument(app, Head(args))
    /\ settings' = Override(settings, Assigned(app, Head(args)))
    /\ args' = Tail(args)
    /\ UNCHANGED <<app, given, outcome>>

(* rte_exit or a negative result, which init passes on.                    *)
RejectOption ==
    /\ outcome = "parsing" /\ args # <<>>
    /\ Head(args).opt # "h"
    /\ \/ ~ IsAppArg(app, Head(args)) /\ ~ is_dpdk_arg(app, Head(args))
       \/ BadArgument(app, Head(args))
    /\ outcome' = "rejected"
    /\ UNCHANGED <<app, given, args, settings>>

Help ==
    /\ outcome = "parsing" /\ args # <<>>
    /\ Head(args).opt = "h"
    /\ outcome' = IF app = "flagging" THEN "rejected" ELSE "help"
    /\ UNCHANGED <<app, given, args, settings>>

(* The checks that follow: at the end of transmit's parse_custom_args, in  *)
(* table_filler's init, in the main() of generate and of flagging.         *)
PortTooHighInclusive == settings.transmit_port > settings.ports
PortTooHigh == settings.transmit_port > settings.ports - 1

Refused ==
    \/ app = "transmit"     /\ settings.transmit_single /\ PortTooHigh
    \/ app = "table_filler" /\ settings.key > 5
    \/ app = "generate"     /\ settings.packet_length > settings.mbuf_size
    \/ app = "flagging"     /\ settings.q_id > settings.rx_queues

(* bonding has one logical port and a pool of its own size.                *)
Sanitized ==
    IF app = "bonding" THEN [ports |-> 1, mempool_size |-> 524287] ELSE <<>>

EndOfOptions ==
    /\ outcome = "parsing" /\ args = <<>>
    /\ settings' = Override(settings, Sanitized)
    /\ outcome' = IF Refused THEN "rejected" ELSE "accepted"
    /\ UNCHANGED <<app, given, args>>

Parse == Option \/ RejectOption \/ Help \/ EndOfOptions
-------------------------------------------------------------------------------
CommandTypeOK ==
    /\ app \in Applications /\ given \in CommandLines[app]
    /\ \E n \in 0 .. Len(given) : args = SubSeq(given, n + 1, Len(given))
    /\ DOMAIN settings = DOMAIN Defaults(app)
    /\ outcome \in {"parsing", "accepted", "rejected", "help"}

Named(letter) == {k \in DOMAIN given : given[k].opt = letter}

LastOf(ks) == CHOOSE k \in ks : \A j \in ks : j <= k

(* Settings by the option that the help texts name for each.  bonding      *)
(* sets two of the common ones itself.                                     *)
CommonOptions ==
    [mempool_size |-> "m", mempool_cache_size |-> "c", burst_size |-> "b", descriptors |-> "d",
     mbuf_size |-> "s", ports |-> "p", queues_per_port |-> "q"]

OwnOptions ==
    [read            |-> [next_stats_delay_ms |-> "t", disable_rss |-> "r"],
     loopback        |-> [next_stats_delay_ms |-> "t"],
     generate        |-> [next_stats_delay_ms |-> "t", packet_length |-> "l", create_packet |-> "r"],
     receive         |-> [max_packets_per_queue |-> "t", check_packet_th |-> "t",
                          file_prefix |-> "f", frequency |-> "x", dump_packets |-> "x"],
     transmit        |-> [pcap_file |-> "f", transmit_port |-> "i", transmit_queue |-> "i",
                          transmit_single |-> "i"],
     bonding         |-> [next_stats_delay_ms |-> "t"],
     metadata_viewer |-> [enable_flow |-> "e"],
     table_filler    |-> [group |-> "g", key |-> "k", rules |-> "n", gen_rand |-> "i",
                          failure_exit |-> "e", next_stats_delay_ms |-> "t"],
     hairpin         |-> [nb_std_queues |-> "s", nb_hp_queues |-> "q", nb_desc |-> "d",
                          packets_to_send |-> "p", next_stats_delay_ms |-> "t"],
     flagging        |-> [use_mark |-> "m", rx_queues |-> "q", q_id |-> "i", port_id |-> "p",
                          debug |-> "d"]]

Without(f, S) == [x \in DOMAIN f \ S |-> f[x]]

OptionOf(a) ==
    IF ~ TakesDpdkArgs(a) THEN OwnOptions[a]
    ELSE IF a = "bonding"
         THEN Union(Without(CommonOptions, {"ports", "mempool_size"}), OwnOptions[a])
         ELSE Union(CommonOptions, OwnOptions[a])

(* The defaults that the help texts state (the name of a file by its       *)
(* length: 'test.pcap' has 9 characters).  The help of receive states      *)
(* another prefix than the code sets: 'output/packet' (receive/argparse.c  *)
(* :92), of 13 characters, instead of 'received' (:37).                    *)
HelpOfCommon == [mempool_cache_size |-> 512, burst_size |-> 32, descriptors |-> 1024,
                 mbuf_size |-> 1518, ports |-> 1, queues_per_port |-> 1]
HelpOfFiller == [group |-> 0, key |-> 0, rules |-> 0, gen_rand |-> TRUE, failure_exit |-> FALSE,
                 next_stats_delay_ms |-> 1000]
HelpOf ==
    [read         |-> [next_stats_delay_ms |-> 5000],
     loopback     |-> [next_stats_delay_ms |-> 5000],
     generate     |-> [next_stats_delay_ms |-> 5000, packet_length |-> 512],
     receive      |-> [check_packet_th |-> FALSE, file_prefix |-> 13, dump_packets |-> FALSE],
     transmit     |-> [pcap_file |-> 9],
     bonding      |-> [next_stats_delay_ms |-> 5000],
     table_filler |-> HelpOfFiller,
     hairpin      |-> [nb_std_queues |-> 1, nb_hp_queues |-> 1, nb_desc |-> 1024,
                       packets_to_send |-> 64, next_stats_delay_ms |-> 5000]]
Misstated == {<<"receive", "file_prefix">>}

HelpDefaults(a) ==
    LET own == IF a \in DOMAIN HelpOf THEN HelpOf[a] ELSE [f \in {} |-> 0]
    IN  IF TakesDpdkArgs(a) THEN Union(HelpOfCommon, own) ELSE own

(* Every setting of every application has the value of the last option     *)
(* that its help text names, whatever other options stand before, between  *)
(* and after, and if there is none the default that the code sets: no      *)
(* option reaches a setting behind another one's name.  And that default   *)
(* is the one its help text states, but for receive's file prefix.         *)
SettingsAsGiven ==
    outcome = "accepted" =>
        /\ \A field \in DOMAIN OptionOf(app) :
              LET ks == Named(OptionOf(app)[field])
              IN  settings[field] = IF ks = {} THEN Defaults(app)[field]
                                    ELSE Assigned(app, given[LastOf(ks)])[field]
        /\ \A field \in DOMAIN HelpDefaults(app) \cap DOMAIN OptionOf(app) :
              Named(OptionOf(app)[field]) = {} /\ <<app, field>> \notin Misstated
              => settings[field] = HelpDefaults(app)[field]

(* In whatever order options came, the checks hold of the settings that    *)
(* are used: transmit's single port is one of the ports, generate's        *)
(* packet_length is no more than mbuf_size (of the 16 bits that the room   *)
(* of an mbuf has in DPDK nothing is said), receive's file prefix is       *)
(* shorter than its array.                                                 *)
AcceptedIsConsistent ==
    outcome = "accepted" =>
        /\ (app = "transmit" /\ settings.transmit_single)
               => settings.transmit_port < settings.ports
        /\ app = "generate" => settings.packet_length <= settings.mbuf_size
        /\ app = "receive"  => settings.file_prefix < 50

(* mempool_size is computed before the options are known.  It still        *)
(* suffices for what is asked for later, by the formula in the comment of  *)
(* common_args.c, as long as that is one port with 32 queues at most and   *)
(* rings, bursts and caches as by default.                                 *)
WithinDefaults ==
    /\ settings.ports = 1 /\ settings.queues_per_port \in 0 .. 32
    /\ settings.descriptors \in 0 .. 1024 /\ settings.burst_size \in 0 .. 32
    /\ settings.mempool_cache_size \in 0 .. 512

PoolCoversRings ==
    (outcome = "accepted" /\ TakesDpdkArgs(app) /\ Named("m") = {} /\ WithinDefaults)
    => settings.mempool_size >=
           PoolFor(settings.ports, settings.queues_per_port, settings.descriptors,
                   settings.burst_size, settings.mempool_cache_size)
===============================================================================
