--------------------------- MODULE TableFillerProofs ---------------------------
(***************************************************************************)
(* Proofs about TableFiller and the command line it extends, for any       *)
(* command lines of any application, any number of lcores, any table in    *)
(* the NIC, any width of ipc and any refusals.                             *)
(*                                                                         *)
(* First the table: what main() reports as inserted is what the NIC holds, *)
(* because the settings no longer change once the loop runs and the        *)
(* addresses in the table are those below ipc until ipc comes round.       *)
(*                                                                         *)
(* Then the parsers (CommandInv): as many options as were read, each field *)
(* of the settings holds what the last of its own option gave it, or the   *)
(* application's default; the two values main() computes itself follow.    *)
(***************************************************************************)
EXTENDS TableFiller, FiniteSetTheorems, SequenceTheorems, TLAPS

(* The settings are complete, and those that count rules are numbers.      *)
SettingsInv ==
    /\ DOMAIN settings = DOMAIN Defaults(app)
    /\ app = "table_filler" => settings.rules \in Int

(* What the table holds, by where main() is.                               *)
TableInv ==
    /\ IsFiniteSet(table)
    /\ filler # "start" => app = "table_filler" /\ outcome = "accepted"
    /\ filler = "start" => table = {} /\ rules_inserted = 0
    /\ filler \in {"loop", "flush"} =>
           /\ Cardinality(table) = rules_inserted
           /\ settings.rules > 0 => rules_inserted <= settings.rules
           /\ ~ Supported => table = {}
           /\ ~ settings.gen_rand /\ ~ wrapped =>
                  \A a \in table : a > 0 /\ (ipc > 0 => a < ipc)
    /\ filler \in {"ended", "exited"} => table = {} \/ flushFailed

IInv == TypeOK /\ SettingsInv /\ TableInv
-------------------------------------------------------------------------------
(* Counting up: the next address, or round to zero.                        *)
LEMMA NextIpc ==
    ASSUME NEW k \in Addresses
    PROVE  (k + 1) % Modulus = IF k + 1 = Modulus THEN 0 ELSE k + 1
  BY TableFillerAssumption DEF Addresses

LEMMA FirstIpc == 1 % Modulus \in Addresses
  BY TableFillerAssumption DEF Addresses
-------------------------------------------------------------------------------
(* An option of the table filler leaves the number of rules a number.      *)
LEMMA RulesNumber ==
    ASSUME NEW arg \in Arguments,
           IsAppArg("table_filler", arg) \/ is_dpdk_arg("table_filler", arg),
           "rules" \in DOMAIN Assigned("table_filler", arg)
    PROVE  Assigned("table_filler", arg)["rules"] \in Int
<1>0. arg.n \in Int /\ arg.opt \in STRING /\ U64(arg.n) \in Int
  BY CommandLineAssumption DEF Arguments, U64
<1>1. AppCases(arg.n, arg.q)["table_filler"] = FillerCases(arg.n)
  BY DEF AppCases
<1>2. CASE IsAppArg("table_filler", arg)
  <2>1. arg.opt \in {"g", "k", "n", "i", "e", "t"}
    BY <1>1, <1>2 DEF IsAppArg, FillerCases
  <2>2. Assigned("table_filler", arg) = FillerCases(arg.n)[arg.opt]
    BY <1>1, <1>2 DEF Assigned
  <2> QED
    BY <1>0, <2>1, <2>2 DEF FillerCases
<1>3. CASE ~ IsAppArg("table_filler", arg)
  <2>1. arg.opt \in {"m", "c", "b", "d", "s", "p", "q"}
    BY <1>3 DEF is_dpdk_arg, DpdkCases
  <2>2. Assigned("table_filler", arg) = DpdkCases(arg.n)[arg.opt]
    BY <1>3 DEF Assigned
  <2> QED
    BY <2>1, <2>2 DEF DpdkCases
<1> QED
  BY <1>2, <1>3

LEMMA DefaultRules == "rules" \in DOMAIN Defaults("table_filler") /\ Defaults("table_filler")["rules"] = 0
<1>1. AppDefaults["table_filler"] = FillerDefaults
  BY DEF AppDefaults
<1>2. "rules" \in DOMAIN FillerDefaults /\ FillerDefaults["rules"] = 0
  BY DEF FillerDefaults
<1>3. Defaults("table_filler") = Union(set_default_dpdk_setts, FillerDefaults)
  BY <1>1 DEF Defaults
<1> QED
  BY <1>2, <1>3 DEF Union

LEMMA OverrideKeeps ==
    ASSUME NEW f, NEW g
    PROVE  /\ DOMAIN Override(f, g) = DOMAIN f
           /\ \A x \in DOMAIN f : Override(f, g)[x] = IF x \in DOMAIN g THEN g[x] ELSE f[x]
  BY DEF Override

LEMMA Suffix ==
    ASSUME NEW S, NEW s \in Seq(S), NEW n \in 0 .. Len(s)
    PROVE  /\ SubSeq(s, n + 1, Len(s)) \in Seq(S)
           /\ SubSeq(s, n + 1, Len(s)) # <<>> =>
                  /\ n + 1 \in 0 .. Len(s)
                  /\ Tail(SubSeq(s, n + 1, Len(s))) = SubSeq(s, (n + 1) + 1, Len(s))
<1>0. Len(s) \in Nat /\ n + 1 \in Int /\ \A j \in n + 1 .. Len(s) : s[j] \in S
  OBVIOUS
<1>1. SubSeq(s, n + 1, Len(s)) \in Seq(S)
  BY <1>0, SubSeqProperties
<1>2. CASE n = Len(s)
  <2> SubSeq(s, n + 1, Len(s)) = <<>>
    BY <1>0, <1>2, SubSeqEmpty
  <2> QED
    BY <1>1
<1>3. CASE n < Len(s)
  <2>1. n + 1 \in 1 .. Len(s) /\ Len(s) \in n + 1 .. Len(s)
    BY <1>0, <1>3
  <2> QED
    BY <1>1, <2>1, HeadTailOfSubSeq
<1> QED
  BY <1>0, <1>2, <1>3
-------------------------------------------------------------------------------
(* Parsing: one argument after the other, from the front.                  *)
LEMMA ParseCommand ==
    ASSUME CommandTypeOK, SettingsInv, Parse
    PROVE  CommandTypeOK' /\ SettingsInv' /\ outcome = "parsing"
<1> USE DEF CommandTypeOK, SettingsInv
<1>1. given \in Seq(Arguments) /\ app \in Applications
  BY CommandLineAssumption
<1>2. PICK n \in 0 .. Len(given) : args = SubSeq(given, n + 1, Len(given))
  OBVIOUS
<1>3. args \in Seq(Arguments)
  BY <1>1, <1>2, Suffix
<1>4. CASE Option
  <2>1. args # <<>> /\ Head(args) \in Arguments
    BY <1>3, <1>4, HeadTailProperties DEF Option
  <2>2. n + 1 \in 0 .. Len(given) /\ Tail(args) = SubSeq(given, (n + 1) + 1, Len(given))
    BY <1>1, <1>2, <2>1, Suffix
  <2>3. DOMAIN settings' = DOMAIN settings
    BY <1>4, OverrideKeeps DEF Option
  <2>4. ASSUME app = "table_filler" PROVE settings'["rules"] \in Int
    <3>1. "rules" \in DOMAIN settings
      BY <2>4, DefaultRules
    <3>2. settings'["rules"] = IF "rules" \in DOMAIN Assigned(app, Head(args))
                               THEN Assigned(app, Head(args))["rules"] ELSE settings["rules"]
      BY <1>4, <3>1, OverrideKeeps DEF Option
    <3> QED
      BY <1>4, <2>1, <2>4, <3>2, RulesNumber DEF Option
  <2> QED
    BY <1>4, <2>2, <2>3, <2>4 DEF Option
<1>5. CASE RejectOption \/ Help
  BY <1>5 DEF RejectOption, Help
<1>6. CASE EndOfOptions
  <2>1. DOMAIN settings' = DOMAIN settings
    BY <1>6, OverrideKeeps DEF EndOfOptions
  <2>2. ASSUME app = "table_filler" PROVE settings'["rules"] = settings["rules"]
    <3>1. "rules" \in DOMAIN settings
      BY <2>2, DefaultRules
    <3>2. Sanitized = <<>> /\ DOMAIN <<>> = {}
      BY <2>2 DEF Sanitized
    <3> QED
      BY <1>6, <3>1, <3>2, OverrideKeeps DEF EndOfOptions
  <2> QED
    BY <1>6, <2>1, <2>2 DEF EndOfOptions
<1> QED
  BY <1>4, <1>5, <1>6 DEF Parse
-------------------------------------------------------------------------------
(* The actions of the filler leave the command alone.                      *)
LEMMA SameCommand ==
    CommandTypeOK /\ SettingsInv /\ UNCHANGED command => CommandTypeOK' /\ SettingsInv'
  BY DEF CommandTypeOK, SettingsInv, command, Named

(* A new address: counted up or at random, it keeps ipc and the addresses  *)
(* below it in order.                                                      *)
LEMMA NextAddressFacts ==
    ASSUME TypeOK, NEW address, NextAddress(address)
    PROVE  /\ address \in Addresses /\ ipc' \in Addresses /\ wrapped' \in BOOLEAN
           /\ ~ settings.gen_rand /\ ~ wrapped' =>
                  /\ ~ wrapped /\ address = ipc /\ ipc > 0
                  /\ ipc' > 0 => ipc' = ipc + 1
<1> USE DEF NextAddress
<1>0. ipc \in Addresses /\ wrapped \in BOOLEAN
  BY DEF TypeOK
<1>1. CASE settings.gen_rand
  BY <1>0, <1>1
<1>2. CASE ~ settings.gen_rand
  <2>1. address = ipc /\ ipc' = (ipc + 1) % Modulus /\ wrapped' = (wrapped \/ ipc = 0)
    BY <1>2
  <2>2. wrapped' \in BOOLEAN /\ (~ wrapped' => ~ wrapped /\ ipc # 0)
    BY <1>0, <2>1
  <2>3. ipc' = (IF ipc + 1 = Modulus THEN 0 ELSE ipc + 1)
    BY <1>0, <2>1, NextIpc
  <2> HIDE DEF NextAddress
  <2> QED
    BY <1>0, <1>2, <2>1, <2>2, <2>3, TableFillerAssumption DEF Addresses
<1> QED
  BY <1>1, <1>2

LEMMA InsertedStep == ASSUME IInv, Inserted PROVE TableInv' /\ TypeOK'
<1> USE DEF IInv, TableInv, counters, command
<1>1. CommandTypeOK' /\ UNCHANGED settings
  BY SameCommand DEF Inserted, TypeOK
<1>2. PICK address \in Addresses :
          /\ NextAddress(address) /\ Fits(address)
          /\ table' = table \cup {address}
  BY DEF Inserted
<1>3. TypeOK'
  BY <1>1, <1>2, NextAddressFacts DEF Inserted, TypeOK
<1>4. IsFiniteSet(table') /\ Cardinality(table') = Cardinality(table) + 1
  BY <1>2, FS_AddElement DEF Fits
<1>5. Cardinality(table') = rules_inserted'
  BY <1>4 DEF Inserted
<1>6. settings.rules > 0 => rules_inserted' <= settings.rules
  BY DEF Inserted, MoreRules, TypeOK, SettingsInv
<1>7. ~ settings.gen_rand /\ ~ wrapped' => \A a \in table' : a > 0 /\ (ipc' > 0 => a < ipc')
  <2> SUFFICES ASSUME ~ settings.gen_rand, ~ wrapped', NEW a \in table'
               PROVE  a > 0 /\ (ipc' > 0 => a < ipc')
    OBVIOUS
  <2>1. ~ wrapped /\ address = ipc /\ ipc > 0 /\ (ipc' > 0 => ipc' = ipc + 1)
    BY <1>2, NextAddressFacts
  <2>2. ipc \in Int /\ a \in Int
    BY <1>3, TableFillerAssumption DEF TypeOK, Addresses
  <2>3. a = ipc \/ (a > 0 /\ a < ipc)
    BY <1>2, <2>1 DEF Inserted
  <2> QED
    BY <2>1, <2>2, <2>3
<1>8. UNCHANGED <<app, outcome, settings, filler, flushFailed>> /\ filler = "loop" /\ Supported'
  BY <1>1 DEF Inserted, Supported
<1> QED
  BY <1>3, <1>4, <1>5, <1>6, <1>7, <1>8

LEMMA FailedStep == ASSUME IInv, Failed PROVE TableInv' /\ TypeOK'
<1> USE DEF IInv, TableInv, counters, command
<1>1. CommandTypeOK' /\ UNCHANGED settings
  BY SameCommand DEF Failed, TypeOK
<1>2. PICK address \in Addresses : NextAddress(address)
  BY DEF Failed
<1>3. /\ UNCHANGED <<app, outcome, capacity, stop, rules_inserted, table, flushFailed>>
      /\ filler = "loop" /\ filler' \in {"loop", "flush"}
  BY DEF Failed, AfterFailure
<1>4. faults' \in 0 .. MaxFaults /\ rules_failed' \in 0 .. MaxFailed
  BY TableFillerAssumption DEF Failed, TypeOK
<1>5. TypeOK'
  BY <1>1, <1>2, <1>3, <1>4, NextAddressFacts DEF TypeOK
<1>6. ~ settings.gen_rand /\ ~ wrapped' => \A a \in table' : a > 0 /\ (ipc' > 0 => a < ipc')
  <2> SUFFICES ASSUME ~ settings.gen_rand, ~ wrapped', NEW a \in table
               PROVE  a > 0 /\ (ipc' > 0 => a < ipc')
    BY <1>3
  <2>1. ~ wrapped /\ ipc > 0 /\ (ipc' > 0 => ipc' = ipc + 1)
    BY <1>2, NextAddressFacts
  <2>2. ipc \in Int /\ a \in Int
    BY TableFillerAssumption DEF TypeOK, Addresses
  <2>3. a > 0 /\ a < ipc
    BY <1>3, <2>1
  <2> QED
    BY <2>1, <2>2, <2>3
<1> QED
  BY <1>1, <1>3, <1>5, <1>6 DEF Supported
-------------------------------------------------------------------------------
LEMMA Inductive == ASSUME IInv, [Next]_vars PROVE IInv'
<1> USE DEF IInv, counters
<1>0. CommandTypeOK
  BY DEF TypeOK
<1>1. CASE ParseStep
  <2>1. CommandTypeOK' /\ SettingsInv' /\ outcome = "parsing"
    BY <1>0, <1>1, ParseCommand DEF ParseStep
  <2>2. filler = "start" /\ UNCHANGED <<capacity, filler, stop, counters, table, flushFailed>>
    BY <1>1, <2>1 DEF ParseStep, TableInv
  <2>3. TypeOK'
    BY <2>1, <2>2 DEF TypeOK
  <2>4. TableInv'
    BY <2>2 DEF TableInv
  <2> QED
    BY <2>1, <2>3, <2>4
<1>2. CASE Inserted
  <2>1. TableInv' /\ TypeOK'
    BY <1>2, InsertedStep
  <2> QED
    BY <1>0, <1>2, <2>1, SameCommand DEF Inserted
<1>3. CASE Failed
  <2>1. TableInv' /\ TypeOK'
    BY <1>3, FailedStep
  <2> QED
    BY <1>0, <1>3, <2>1, SameCommand DEF Failed
<1>4. CASE SetUp \/ UnsupportedKey \/ LeaveLoop \/ handle_sig
  <2>0. UNCHANGED <<command, capacity, counters, table, flushFailed>>
    BY <1>4 DEF SetUp, UnsupportedKey, LeaveLoop, handle_sig
  <2>1. CommandTypeOK' /\ SettingsInv'
    BY <1>0, <2>0, SameCommand
  <2>2. TypeOK'
    BY <1>4, <2>0, <2>1 DEF SetUp, UnsupportedKey, LeaveLoop, handle_sig, TypeOK
  <2>3. ASSUME SetUp PROVE TableInv'
    BY <2>0, <2>3, FS_EmptySet DEF SetUp, TableInv, command, Supported, SettingsInv
  <2>4. ASSUME UnsupportedKey PROVE TableInv'
    BY <2>0, <2>4 DEF UnsupportedKey, TableInv, command
  <2>5. ASSUME LeaveLoop PROVE TableInv'
    BY <2>0, <2>5 DEF LeaveLoop, TableInv, command, Supported
  <2>6. ASSUME handle_sig PROVE TableInv'
    BY <2>0, <2>6 DEF handle_sig, TableInv, command, Supported
  <2> QED
    BY <1>4, <2>1, <2>2, <2>3, <2>4, <2>5, <2>6
<1>5. CASE destroy_all_flow_rules
  <2>1. CommandTypeOK' /\ SettingsInv'
    BY <1>0, <1>5, SameCommand DEF destroy_all_flow_rules
  <2>2. TypeOK'
    BY <1>5, <2>1 DEF destroy_all_flow_rules, TypeOK
  <2>3. TableInv'
    BY <1>5, FS_EmptySet DEF destroy_all_flow_rules, TableInv, command
  <2> QED
    BY <2>1, <2>2, <2>3
<1>6. CASE UNCHANGED vars
  <2>1. CommandTypeOK' /\ SettingsInv'
    BY <1>0, <1>6, SameCommand DEF vars
  <2>2. TypeOK'
    BY <1>6, <2>1 DEF vars, TypeOK
  <2>3. TableInv'
    BY <1>6 DEF vars, command, TableInv, Supported
  <2> QED
    BY <2>1, <2>2, <2>3
<1> QED
  BY <1>1, <1>2, <1>3, <1>4, <1>5, <1>6 DEF Next, Main

(* What main() prints as inserted is what the NIC holds, for any table,    *)
(* any refusals and any width of ipc; after the end nothing stays in the   *)
(* NIC unless the flush failed.                                            *)
THEOREM Counted == Spec => []RulesCounted
<1>1. FillerInit => IInv
  <2> SUFFICES ASSUME FillerInit PROVE IInv
    OBVIOUS
  <2>1. given \in Seq(Arguments)
    BY CommandLineAssumption DEF FillerInit, Init
  <2>2. 0 \in 0 .. Len(given) /\ args = SubSeq(given, 0 + 1, Len(given))
    BY <2>1, SubSeqFull DEF FillerInit, Init
  <2>3. CommandTypeOK
    BY <2>2 DEF FillerInit, Init, CommandTypeOK
  <2>4. SettingsInv
    BY DefaultRules DEF FillerInit, Init, SettingsInv
  <2>5. ipc \in Addresses
    BY FirstIpc DEF FillerInit
  <2>6. TypeOK
    <3>1. rules_inserted = 0 /\ rules_failed = 0 /\ faults = 0 /\ table = {}
      BY DEF FillerInit
    <3>2. rules_inserted \in Nat /\ rules_failed \in 0 .. MaxFailed /\ faults \in 0 .. MaxFaults
      BY <3>1, TableFillerAssumption
    <3>3. /\ capacity \in Capacities /\ filler = "start"
          /\ stop = FALSE /\ wrapped = FALSE /\ flushFailed = FALSE
      BY DEF FillerInit
    <3> QED
      BY <2>3, <2>5, <3>1, <3>2, <3>3 DEF TypeOK
  <2> QED
    BY <2>4, <2>6, FS_EmptySet DEF FillerInit, IInv, TableInv
<1>2. IInv /\ [Next]_vars => IInv'
  BY Inductive
<1>3. IInv => RulesCounted
  <2> SUFFICES ASSUME IInv PROVE RulesCounted
    OBVIOUS
  <2>1. filler \in {"loop", "flush"} /\ ~ settings.gen_rand /\ ~ wrapped => ipc \notin table
    BY TableFillerAssumption DEF IInv, TableInv, TypeOK, Addresses
  <2> QED
    BY <2>1 DEF IInv, TableInv, RulesCounted
<1> QED
  BY <1>1, <1>2, <1>3, PTL DEF Spec
-------------------------------------------------------------------------------
(* The command line, of every application.  First what an option assigns:  *)
(* the common ones, and those of each application.                         *)
LEMMA DpdkAssigns ==
    ASSUME NEW a, NEW arg \in Arguments, ~ IsAppArg(a, arg), is_dpdk_arg(a, arg)
    PROVE  /\ TakesDpdkArgs(a)
           /\ \/ arg.opt = "m" /\ Assigned(a, arg) = [mempool_size |-> U64(arg.n)]
              \/ arg.opt = "c" /\ Assigned(a, arg) = [mempool_cache_size |-> U64(arg.n)]
              \/ arg.opt = "b" /\ Assigned(a, arg) = [burst_size |-> U64(arg.n)]
              \/ arg.opt = "d" /\ Assigned(a, arg) = [descriptors |-> U64(arg.n)]
              \/ arg.opt = "s" /\ Assigned(a, arg) = [mbuf_size |-> U64(arg.n)]
              \/ arg.opt = "p" /\ Assigned(a, arg) = [ports |-> U16(arg.n)]
              \/ arg.opt = "q" /\ Assigned(a, arg) = [queues_per_port |-> U32(arg.n)]
<1>1. TakesDpdkArgs(a) /\ arg.opt \in {"m", "c", "b", "d", "s", "p", "q"}
  BY DEF is_dpdk_arg, DpdkCases
<1>2. Assigned(a, arg) = DpdkCases(arg.n)[arg.opt]
  BY DEF Assigned
<1> QED
  BY <1>1, <1>2 DEF DpdkCases

LEMMA ReadAssigns ==
    ASSUME NEW arg \in Arguments, IsAppArg("read", arg)
    PROVE  \/ arg.opt = "t" /\ Assigned("read", arg) = NextStats(arg.n)
           \/ arg.opt = "r" /\ Assigned("read", arg) = [disable_rss |-> TRUE]
<1>1. AppCases(arg.n, arg.q)["read"] = ReadCases(arg.n)
  BY DEF AppCases
<1>2. arg.opt \in {"t", "r"} /\ Assigned("read", arg) = ReadCases(arg.n)[arg.opt]
  BY <1>1 DEF IsAppArg, Assigned, ReadCases
<1> QED
  BY <1>2 DEF ReadCases

LEMMA LoopbackAssigns ==
    ASSUME NEW arg \in Arguments, IsAppArg("loopback", arg)
    PROVE  \/ arg.opt = "t" /\ Assigned("loopback", arg) = NextStats(arg.n)
<1>1. AppCases(arg.n, arg.q)["loopback"] = LoopbackCases(arg.n)
  BY DEF AppCases
<1>2. arg.opt \in {"t"} /\ Assigned("loopback", arg) = LoopbackCases(arg.n)[arg.opt]
  BY <1>1 DEF IsAppArg, Assigned, LoopbackCases
<1> QED
  BY <1>2 DEF LoopbackCases

LEMMA GenerateAssigns ==
    ASSUME NEW arg \in Arguments, IsAppArg("generate", arg)
    PROVE  \/ arg.opt = "t" /\ Assigned("generate", arg) = NextStats(arg.n)
           \/ arg.opt = "l" /\ Assigned("generate", arg) = [packet_length |-> U16(arg.n)]
           \/ arg.opt = "r" /\ Assigned("generate", arg) = [create_packet |-> TRUE]
<1>1. AppCases(arg.n, arg.q)["generate"] = GenerateCases(arg.n)
  BY DEF AppCases
<1>2. arg.opt \in {"t", "l", "r"} /\ Assigned("generate", arg) = GenerateCases(arg.n)[arg.opt]
  BY <1>1 DEF IsAppArg, Assigned, GenerateCases
<1> QED
  BY <1>2 DEF GenerateCases

LEMMA ReceiveAssigns ==
    ASSUME NEW arg \in Arguments, IsAppArg("receive", arg)
    PROVE  \/ arg.opt = "t" /\ Assigned("receive", arg) = [max_packets_per_queue |-> arg.n, check_packet_th |-> TRUE]
           \/ arg.opt = "f" /\ Assigned("receive", arg) = [file_prefix |-> arg.n]
           \/ arg.opt = "x" /\ Assigned("receive", arg) = [frequency |-> arg.n, dump_packets |-> TRUE]
<1>1. AppCases(arg.n, arg.q)["receive"] = ReceiveCases(arg.n)
  BY DEF AppCases
<1>2. arg.opt \in {"t", "f", "x"} /\ Assigned("receive", arg) = ReceiveCases(arg.n)[arg.opt]
  BY <1>1 DEF IsAppArg, Assigned, ReceiveCases
<1> QED
  BY <1>2 DEF ReceiveCases

LEMMA TransmitAssigns ==
    ASSUME NEW arg \in Arguments, IsAppArg("transmit", arg)
    PROVE  \/ arg.opt = "f" /\ Assigned("transmit", arg) = [pcap_file |-> arg.n]
           \/ arg.opt = "i" /\ Assigned("transmit", arg) = [transmit_port |-> U16(arg.n), transmit_queue |-> U32(arg.q), transmit_single |-> TRUE]
<1>1. AppCases(arg.n, arg.q)["transmit"] = TransmitCases(arg.n, arg.q)
  BY DEF AppCases
<1>2. arg.opt \in {"f", "i"} /\ Assigned("transmit", arg) = TransmitCases(arg.n, arg.q)[arg.opt]
  BY <1>1 DEF IsAppArg, Assigned, TransmitCases
<1> QED
  BY <1>2 DEF TransmitCases

LEMMA BondingAssigns ==
    ASSUME NEW arg \in Arguments, IsAppArg("bonding", arg)
    PROVE  \/ arg.opt = "t" /\ Assigned("bonding", arg) = NextStats(arg.n)
<1>1. AppCases(arg.n, arg.q)["bonding"] = BondingCases(arg.n)
  BY DEF AppCases
<1>2. arg.opt \in {"t"} /\ Assigned("bonding", arg) = BondingCases(arg.n)[arg.opt]
  BY <1>1 DEF IsAppArg, Assigned, BondingCases
<1> QED
  BY <1>2 DEF BondingCases

LEMMA MetadataViewerAssigns ==
    ASSUME NEW arg \in Arguments, IsAppArg("metadata_viewer", arg)
    PROVE  \/ arg.opt = "e" /\ Assigned("metadata_viewer", arg) = [enable_flow |-> TRUE]
<1>1. AppCases(arg.n, arg.q)["metadata_viewer"] = ViewerCases
  BY DEF AppCases
<1>2. arg.opt \in {"e"} /\ Assigned("metadata_viewer", arg) = ViewerCases[arg.opt]
  BY <1>1 DEF IsAppArg, Assigned, ViewerCases
<1> QED
  BY <1>2 DEF ViewerCases

LEMMA TableFillerAssigns ==
    ASSUME NEW arg \in Arguments, IsAppArg("table_filler", arg)
    PROVE  \/ arg.opt = "g" /\ Assigned("table_filler", arg) = [group |-> U32(arg.n)]
           \/ arg.opt = "k" /\ Assigned("table_filler", arg) = [key |-> U32(arg.n)]
           \/ arg.opt = "n" /\ Assigned("table_filler", arg) = [rules |-> U64(arg.n)]
           \/ arg.opt = "i" /\ Assigned("table_filler", arg) = [gen_rand |-> FALSE]
           \/ arg.opt = "e" /\ Assigned("table_filler", arg) = [failure_exit |-> TRUE]
           \/ arg.opt = "t" /\ Assigned("table_filler", arg) = [next_stats_delay_ms |-> U64(arg.n)]
<1>1. AppCases(arg.n, arg.q)["table_filler"] = FillerCases(arg.n)
  BY DEF AppCases
<1>2. arg.opt \in {"g", "k", "n", "i", "e", "t"} /\ Assigned("table_filler", arg) = FillerCases(arg.n)[arg.opt]
  BY <1>1 DEF IsAppArg, Assigned, FillerCases
<1> QED
  BY <1>2 DEF FillerCases

LEMMA HairpinAssigns ==
    ASSUME NEW arg \in Arguments, IsAppArg("hairpin", arg)
    PROVE  \/ arg.opt = "s" /\ Assigned("hairpin", arg) = [nb_std_queues |-> U16(arg.n)]
           \/ arg.opt = "q" /\ Assigned("hairpin", arg) = [nb_hp_queues |-> U16(arg.n)]
           \/ arg.opt = "d" /\ Assigned("hairpin", arg) = [nb_desc |-> U16(arg.n)]
           \/ arg.opt = "p" /\ Assigned("hairpin", arg) = [packets_to_send |-> U16(arg.n)]
           \/ arg.opt = "t" /\ Assigned("hairpin", arg) = NextStats(arg.n)
<1>1. AppCases(arg.n, arg.q)["hairpin"] = HairpinCases(arg.n)
  BY DEF AppCases
<1>2. arg.opt \in {"s", "q", "d", "p", "t"} /\ Assigned("hairpin", arg) = HairpinCases(arg.n)[arg.opt]
  BY <1>1 DEF IsAppArg, Assigned, HairpinCases
<1> QED
  BY <1>2 DEF HairpinCases

LEMMA FlaggingAssigns ==
    ASSUME NEW arg \in Arguments, IsAppArg("flagging", arg)
    PROVE  \/ arg.opt = "m" /\ Assigned("flagging", arg) = [use_mark |-> TRUE]
           \/ arg.opt = "i" /\ Assigned("flagging", arg) = [q_id |-> U32(arg.n)]
           \/ arg.opt = "q" /\ Assigned("flagging", arg) = [rx_queues |-> U32(arg.n)]
           \/ arg.opt = "p" /\ Assigned("flagging", arg) = [port_id |-> U16(arg.n)]
           \/ arg.opt = "d" /\ Assigned("flagging", arg) = [debug |-> TRUE]
<1>1. AppCases(arg.n, arg.q)["flagging"] = FlaggingCases(arg.n)
  BY DEF AppCases
<1>2. arg.opt \in {"m", "i", "q", "p", "d"} /\ Assigned("flagging", arg) = FlaggingCases(arg.n)[arg.opt]
  BY <1>1 DEF IsAppArg, Assigned, FlaggingCases
<1> QED
  BY <1>2 DEF FlaggingCases

-------------------------------------------------------------------------------
(* Which letter sets a setting, as the help texts say.                     *)
LEMMA CommonIs ==
    ASSUME NEW f \in DOMAIN CommonOptions
    PROVE  \/ f = "mempool_size" /\ CommonOptions[f] = "m"
           \/ f = "mempool_cache_size" /\ CommonOptions[f] = "c"
           \/ f = "burst_size" /\ CommonOptions[f] = "b"
           \/ f = "descriptors" /\ CommonOptions[f] = "d"
           \/ f = "mbuf_size" /\ CommonOptions[f] = "s"
           \/ f = "ports" /\ CommonOptions[f] = "p"
           \/ f = "queues_per_port" /\ CommonOptions[f] = "q"
  BY DEF CommonOptions

LEMMA UnionIs ==
    ASSUME NEW f, NEW g, NEW x \in DOMAIN Union(f, g)
    PROVE  \/ x \in DOMAIN g /\ Union(f, g)[x] = g[x]
           \/ x \in DOMAIN f /\ Union(f, g)[x] = f[x]
  BY DEF Union

(* An option reaches a setting if and only if the help text names it.      *)
ReachesItsOwn(a, arg) ==
    \A f \in DOMAIN OptionOf(a) : f \in DOMAIN Assigned(a, arg) <=> arg.opt = OptionOf(a)[f]

Taken(a, arg) == IsAppArg(a, arg) \/ is_dpdk_arg(a, arg)

LEMMA OptionIs ==
    ASSUME NEW a \in Applications, NEW f \in DOMAIN OptionOf(a)
    PROVE  \/ f \in DOMAIN OwnOptions[a] /\ OptionOf(a)[f] = OwnOptions[a][f]
           \/ /\ TakesDpdkArgs(a) /\ f \in DOMAIN CommonOptions
              /\ OptionOf(a)[f] = CommonOptions[f]
              /\ a = "bonding" => f \notin {"ports", "mempool_size"}
<1>1. CASE ~ TakesDpdkArgs(a)
  BY <1>1 DEF OptionOf
<1>2. CASE TakesDpdkArgs(a) /\ a # "bonding"
  <2>1. OptionOf(a) = Union(CommonOptions, OwnOptions[a])
    BY <1>2 DEF OptionOf
  <2> QED
    BY <1>2, <2>1, UnionIs
<1>3. CASE TakesDpdkArgs(a) /\ a = "bonding"
  <2> DEFINE own == OwnOptions[a]
             rest == Without(CommonOptions, {"ports", "mempool_size"})
  <2>1. OptionOf(a) = Union(rest, own)
    BY <1>3 DEF OptionOf
  <2>2. \A x \in DOMAIN rest : /\ x \in DOMAIN CommonOptions /\ rest[x] = CommonOptions[x]
                              /\ x \notin {"ports", "mempool_size"}
    BY DEF Without
  <2> HIDE DEF own, rest
  <2>3. \/ f \in DOMAIN own /\ OptionOf(a)[f] = own[f]
        \/ f \in DOMAIN rest /\ OptionOf(a)[f] = rest[f]
    BY <2>1, UnionIs
  <2> QED
    BY <1>3, <2>2, <2>3 DEF own
<1> QED
  BY <1>1, <1>2, <1>3

LEMMA ReadOwn ==
    ASSUME NEW f \in DOMAIN OwnOptions["read"]
    PROVE  \/ f = "next_stats_delay_ms" /\ OwnOptions["read"][f] = "t"
           \/ f = "disable_rss" /\ OwnOptions["read"][f] = "r"
<1>1. OwnOptions["read"] = [next_stats_delay_ms |-> "t", disable_rss |-> "r"]
  BY DEF OwnOptions
<1> QED
  BY <1>1

LEMMA ReadReaches ==
    ASSUME NEW arg \in Arguments, Taken("read", arg)
    PROVE  ReachesItsOwn("read", arg)
<1> SUFFICES ASSUME NEW f \in DOMAIN OptionOf("read")
             PROVE  f \in DOMAIN Assigned("read", arg) <=> arg.opt = OptionOf("read")[f]
  BY DEF ReachesItsOwn
<1>1. CASE IsAppArg("read", arg)
  BY <1>1, OptionIs, CommonIs, ReadOwn, ReadAssigns DEF Applications, NextStats
<1>2. CASE ~ IsAppArg("read", arg)
  BY <1>2, OptionIs, CommonIs, ReadOwn, DpdkAssigns DEF Applications, Taken
<1> QED
  BY <1>1, <1>2

LEMMA LoopbackOwn ==
    ASSUME NEW f \in DOMAIN OwnOptions["loopback"]
    PROVE  \/ f = "next_stats_delay_ms" /\ OwnOptions["loopback"][f] = "t"
<1>1. OwnOptions["loopback"] = [next_stats_delay_ms |-> "t"]
  BY DEF OwnOptions
<1> QED
  BY <1>1

LEMMA LoopbackReaches ==
    ASSUME NEW arg \in Arguments, Taken("loopback", arg)
    PROVE  ReachesItsOwn("loopback", arg)
<1> SUFFICES ASSUME NEW f \in DOMAIN OptionOf("loopback")
             PROVE  f \in DOMAIN Assigned("loopback", arg) <=> arg.opt = OptionOf("loopback")[f]
  BY DEF ReachesItsOwn
<1>1. CASE IsAppArg("loopback", arg)
  BY <1>1, OptionIs, CommonIs, LoopbackOwn, LoopbackAssigns DEF Applications, NextStats
<1>2. CASE ~ IsAppArg("loopback", arg)
  BY <1>2, OptionIs, CommonIs, LoopbackOwn, DpdkAssigns DEF Applications, Taken
<1> QED
  BY <1>1, <1>2

LEMMA GenerateOwn ==
    ASSUME NEW f \in DOMAIN OwnOptions["generate"]
    PROVE  \/ f = "next_stats_delay_ms" /\ OwnOptions["generate"][f] = "t"
           \/ f = "packet_length" /\ OwnOptions["generate"][f] = "l"
           \/ f = "create_packet" /\ OwnOptions["generate"][f] = "r"
<1>1. OwnOptions["generate"] = [next_stats_delay_ms |-> "t", packet_length |-> "l", create_packet |-> "r"]
  BY DEF OwnOptions
<1> QED
  BY <1>1

LEMMA GenerateReaches ==
    ASSUME NEW arg \in Arguments, Taken("generate", arg)
    PROVE  ReachesItsOwn("generate", arg)
<1> SUFFICES ASSUME NEW f \in DOMAIN OptionOf("generate")
             PROVE  f \in DOMAIN Assigned("generate", arg) <=> arg.opt = OptionOf("generate")[f]
  BY DEF ReachesItsOwn
<1>1. CASE IsAppArg("generate", arg)
  BY <1>1, OptionIs, CommonIs, GenerateOwn, GenerateAssigns DEF Applications, NextStats
<1>2. CASE ~ IsAppArg("generate", arg)
  BY <1>2, OptionIs, CommonIs, GenerateOwn, DpdkAssigns DEF Applications, Taken
<1> QED
  BY <1>1, <1>2

LEMMA ReceiveOwn ==
    ASSUME NEW f \in DOMAIN OwnOptions["receive"]
    PROVE  \/ f = "max_packets_per_queue" /\ OwnOptions["receive"][f] = "t"
           \/ f = "check_packet_th" /\ OwnOptions["receive"][f] = "t"
           \/ f = "file_prefix" /\ OwnOptions["receive"][f] = "f"
           \/ f = "frequency" /\ OwnOptions["receive"][f] = "x"
           \/ f = "dump_packets" /\ OwnOptions["receive"][f] = "x"
<1>1. OwnOptions["receive"] = [max_packets_per_queue |-> "t", check_packet_th |-> "t", file_prefix |-> "f", frequency |-> "x", dump_packets |-> "x"]
  BY DEF OwnOptions
<1> QED
  BY <1>1

LEMMA ReceiveReaches ==
    ASSUME NEW arg \in Arguments, Taken("receive", arg)
    PROVE  ReachesItsOwn("receive", arg)
<1> SUFFICES ASSUME NEW f \in DOMAIN OptionOf("receive")
             PROVE  f \in DOMAIN Assigned("receive", arg) <=> arg.opt = OptionOf("receive")[f]
  BY DEF ReachesItsOwn
<1>1. CASE IsAppArg("receive", arg)
  BY <1>1, OptionIs, CommonIs, ReceiveOwn, ReceiveAssigns DEF Applications, NextStats
<1>2. CASE ~ IsAppArg("receive", arg)
  BY <1>2, OptionIs, CommonIs, ReceiveOwn, DpdkAssigns DEF Applications, Taken
<1> QED
  BY <1>1, <1>2

LEMMA TransmitOwn ==
    ASSUME NEW f \in DOMAIN OwnOptions["transmit"]
    PROVE  \/ f = "pcap_file" /\ OwnOptions["transmit"][f] = "f"
           \/ f = "transmit_port" /\ OwnOptions["transmit"][f] = "i"
           \/ f = "transmit_queue" /\ OwnOptions["transmit"][f] = "i"
           \/ f = "transmit_single" /\ OwnOptions["transmit"][f] = "i"
<1>1. OwnOptions["transmit"] = [pcap_file |-> "f", transmit_port |-> "i", transmit_queue |-> "i", transmit_single |-> "i"]
  BY DEF OwnOptions
<1> QED
  BY <1>1

LEMMA TransmitReaches ==
    ASSUME NEW arg \in Arguments, Taken("transmit", arg)
    PROVE  ReachesItsOwn("transmit", arg)
<1> SUFFICES ASSUME NEW f \in DOMAIN OptionOf("transmit")
             PROVE  f \in DOMAIN Assigned("transmit", arg) <=> arg.opt = OptionOf("transmit")[f]
  BY DEF ReachesItsOwn
<1>1. CASE IsAppArg("transmit", arg)
  BY <1>1, OptionIs, CommonIs, TransmitOwn, TransmitAssigns DEF Applications, NextStats
<1>2. CASE ~ IsAppArg("transmit", arg)
  BY <1>2, OptionIs, CommonIs, TransmitOwn, DpdkAssigns DEF Applications, Taken
<1> QED
  BY <1>1, <1>2

LEMMA MetadataViewerOwn ==
    ASSUME NEW f \in DOMAIN OwnOptions["metadata_viewer"]
    PROVE  \/ f = "enable_flow" /\ OwnOptions["metadata_viewer"][f] = "e"
<1>1. OwnOptions["metadata_viewer"] = [enable_flow |-> "e"]
  BY DEF OwnOptions
<1> QED
  BY <1>1

LEMMA MetadataViewerReaches ==
    ASSUME NEW arg \in Arguments, Taken("metadata_viewer", arg)
    PROVE  ReachesItsOwn("metadata_viewer", arg)
<1> SUFFICES ASSUME NEW f \in DOMAIN OptionOf("metadata_viewer")
             PROVE  f \in DOMAIN Assigned("metadata_viewer", arg) <=> arg.opt = OptionOf("metadata_viewer")[f]
  BY DEF ReachesItsOwn
<1>1. CASE IsAppArg("metadata_viewer", arg)
  BY <1>1, OptionIs, CommonIs, MetadataViewerOwn, MetadataViewerAssigns DEF Applications, NextStats
<1>2. CASE ~ IsAppArg("metadata_viewer", arg)
  BY <1>2, OptionIs, CommonIs, MetadataViewerOwn, DpdkAssigns DEF Applications, Taken
<1> QED
  BY <1>1, <1>2

LEMMA TableFillerOwn ==
    ASSUME NEW f \in DOMAIN OwnOptions["table_filler"]
    PROVE  \/ f = "group" /\ OwnOptions["table_filler"][f] = "g"
           \/ f = "key" /\ OwnOptions["table_filler"][f] = "k"
           \/ f = "rules" /\ OwnOptions["table_filler"][f] = "n"
           \/ f = "gen_rand" /\ OwnOptions["table_filler"][f] = "i"
           \/ f = "failure_exit" /\ OwnOptions["table_filler"][f] = "e"
           \/ f = "next_stats_delay_ms" /\ OwnOptions["table_filler"][f] = "t"
<1>1. OwnOptions["table_filler"] = [group |-> "g", key |-> "k", rules |-> "n", gen_rand |-> "i", failure_exit |-> "e", next_stats_delay_ms |-> "t"]
  BY DEF OwnOptions
<1> QED
  BY <1>1

LEMMA TableFillerReaches ==
    ASSUME NEW arg \in Arguments, Taken("table_filler", arg)
    PROVE  ReachesItsOwn("table_filler", arg)
<1> SUFFICES ASSUME NEW f \in DOMAIN OptionOf("table_filler")
             PROVE  f \in DOMAIN Assigned("table_filler", arg) <=> arg.opt = OptionOf("table_filler")[f]
  BY DEF ReachesItsOwn
<1>1. CASE IsAppArg("table_filler", arg)
  BY <1>1, OptionIs, CommonIs, TableFillerOwn, TableFillerAssigns DEF Applications, NextStats
<1>2. CASE ~ IsAppArg("table_filler", arg)
  BY <1>2, OptionIs, CommonIs, TableFillerOwn, DpdkAssigns DEF Applications, Taken
<1> QED
  BY <1>1, <1>2

LEMMA BondingOwn ==
    ASSUME NEW f \in DOMAIN OwnOptions["bonding"]
    PROVE  \/ f = "next_stats_delay_ms" /\ OwnOptions["bonding"][f] = "t"
<1>1. OwnOptions["bonding"] = [next_stats_delay_ms |-> "t"]
  BY DEF OwnOptions
<1> QED
  BY <1>1

LEMMA BondingReaches ==
    ASSUME NEW arg \in Arguments, Taken("bonding", arg)
    PROVE  ReachesItsOwn("bonding", arg)
<1> SUFFICES ASSUME NEW f \in DOMAIN OptionOf("bonding")
             PROVE  f \in DOMAIN Assigned("bonding", arg) <=> arg.opt = OptionOf("bonding")[f]
  BY DEF ReachesItsOwn
<1>1. CASE IsAppArg("bonding", arg)
  BY <1>1, OptionIs, CommonIs, BondingOwn, BondingAssigns DEF Applications, NextStats
<1>2. CASE ~ IsAppArg("bonding", arg)
  BY <1>2, OptionIs, CommonIs, BondingOwn, DpdkAssigns DEF Applications, Taken
<1> QED
  BY <1>1, <1>2

LEMMA HairpinOwn ==
    ASSUME NEW f \in DOMAIN OwnOptions["hairpin"]
    PROVE  \/ f = "nb_std_queues" /\ OwnOptions["hairpin"][f] = "s"
           \/ f = "nb_hp_queues" /\ OwnOptions["hairpin"][f] = "q"
           \/ f = "nb_desc" /\ OwnOptions["hairpin"][f] = "d"
           \/ f = "packets_to_send" /\ OwnOptions["hairpin"][f] = "p"
           \/ f = "next_stats_delay_ms" /\ OwnOptions["hairpin"][f] = "t"
<1>1. OwnOptions["hairpin"] = [nb_std_queues |-> "s", nb_hp_queues |-> "q", nb_desc |-> "d", packets_to_send |-> "p", next_stats_delay_ms |-> "t"]
  BY DEF OwnOptions
<1> QED
  BY <1>1

LEMMA HairpinReaches ==
    ASSUME NEW arg \in Arguments, Taken("hairpin", arg)
    PROVE  ReachesItsOwn("hairpin", arg)
<1> SUFFICES ASSUME NEW f \in DOMAIN OptionOf("hairpin")
             PROVE  f \in DOMAIN Assigned("hairpin", arg) <=> arg.opt = OptionOf("hairpin")[f]
  BY DEF ReachesItsOwn
<1>1. IsAppArg("hairpin", arg)
  BY DEF Taken, is_dpdk_arg, TakesDpdkArgs
<1> QED
  BY <1>1, OptionIs, HairpinOwn, HairpinAssigns DEF Applications, TakesDpdkArgs, NextStats

LEMMA FlaggingOwn ==
    ASSUME NEW f \in DOMAIN OwnOptions["flagging"]
    PROVE  \/ f = "use_mark" /\ OwnOptions["flagging"][f] = "m"
           \/ f = "rx_queues" /\ OwnOptions["flagging"][f] = "q"
           \/ f = "q_id" /\ OwnOptions["flagging"][f] = "i"
           \/ f = "port_id" /\ OwnOptions["flagging"][f] = "p"
           \/ f = "debug" /\ OwnOptions["flagging"][f] = "d"
<1>1. OwnOptions["flagging"] = [use_mark |-> "m", rx_queues |-> "q", q_id |-> "i", port_id |-> "p", debug |-> "d"]
  BY DEF OwnOptions
<1> QED
  BY <1>1

LEMMA FlaggingReaches ==
    ASSUME NEW arg \in Arguments, Taken("flagging", arg)
    PROVE  ReachesItsOwn("flagging", arg)
<1> SUFFICES ASSUME NEW f \in DOMAIN OptionOf("flagging")
             PROVE  f \in DOMAIN Assigned("flagging", arg) <=> arg.opt = OptionOf("flagging")[f]
  BY DEF ReachesItsOwn
<1>1. IsAppArg("flagging", arg)
  BY DEF Taken, is_dpdk_arg, TakesDpdkArgs
<1> QED
  BY <1>1, OptionIs, FlaggingOwn, FlaggingAssigns DEF Applications, TakesDpdkArgs, NextStats

LEMMA Reaches ==
    ASSUME NEW a \in Applications, NEW arg \in Arguments, Taken(a, arg)
    PROVE  ReachesItsOwn(a, arg)
  BY ReadReaches, LoopbackReaches, GenerateReaches, ReceiveReaches, TransmitReaches,
     MetadataViewerReaches, TableFillerReaches, BondingReaches, HairpinReaches, FlaggingReaches DEF Applications

LEMMA OptionsAreSettings ==
    ASSUME NEW a \in Applications
    PROVE  DOMAIN OptionOf(a) \subseteq DOMAIN Defaults(a)
<1>1. DOMAIN CommonOptions \subseteq DOMAIN set_default_dpdk_setts
  BY DEF CommonOptions, set_default_dpdk_setts
<1>2. DOMAIN OwnOptions[a] \subseteq DOMAIN AppDefaults[a]
  <2>1. CASE a = "read"
    <3>1. AppDefaults["read"] = ReadDefaults
      BY DEF AppDefaults
    <3> QED
      BY <2>1, <3>1, ReadOwn DEF ReadDefaults
  <2>2. CASE a = "loopback"
    <3>1. AppDefaults["loopback"] = LoopbackDefaults
      BY DEF AppDefaults
    <3> QED
      BY <2>2, <3>1, LoopbackOwn DEF LoopbackDefaults
  <2>3. CASE a = "generate"
    <3>1. AppDefaults["generate"] = GenerateDefaults
      BY DEF AppDefaults
    <3> QED
      BY <2>3, <3>1, GenerateOwn DEF GenerateDefaults
  <2>4. CASE a = "receive"
    <3>1. AppDefaults["receive"] = ReceiveDefaults
      BY DEF AppDefaults
    <3> QED
      BY <2>4, <3>1, ReceiveOwn DEF ReceiveDefaults
  <2>5. CASE a = "transmit"
    <3>1. AppDefaults["transmit"] = TransmitDefaults
      BY DEF AppDefaults
    <3> QED
      BY <2>5, <3>1, TransmitOwn DEF TransmitDefaults
  <2>6. CASE a = "metadata_viewer"
    <3>1. AppDefaults["metadata_viewer"] = ViewerDefaults
      BY DEF AppDefaults
    <3> QED
      BY <2>6, <3>1, MetadataViewerOwn DEF ViewerDefaults
  <2>7. CASE a = "table_filler"
    <3>1. AppDefaults["table_filler"] = FillerDefaults
      BY DEF AppDefaults
    <3> QED
      BY <2>7, <3>1, TableFillerOwn DEF FillerDefaults
  <2>8. CASE a = "bonding"
    <3>1. AppDefaults["bonding"] = BondingDefaults
      BY DEF AppDefaults
    <3> QED
      BY <2>8, <3>1, BondingOwn DEF BondingDefaults
  <2>9. CASE a = "hairpin"
    <3>1. AppDefaults["hairpin"] = HairpinDefaults
      BY DEF AppDefaults
    <3> QED
      BY <2>9, <3>1, HairpinOwn DEF HairpinDefaults
  <2>10. CASE a = "flagging"
    <3>1. AppDefaults["flagging"] = FlaggingDefaults
      BY DEF AppDefaults
    <3> QED
      BY <2>10, <3>1, FlaggingOwn DEF FlaggingDefaults
  <2> QED
    BY <2>1, <2>2, <2>3, <2>4, <2>5, <2>6, <2>7, <2>8, <2>9, <2>10 DEF Applications
<1>3. Defaults(a) = IF a = "flagging" THEN AppDefaults[a] ELSE Union(set_default_dpdk_setts, AppDefaults[a])
  BY DEF Defaults
<1>4. TakesDpdkArgs(a) => a # "flagging"
  BY DEF TakesDpdkArgs
<1> QED
  BY <1>1, <1>2, <1>3, <1>4, OptionIs DEF Union

(* The settings that the checks and the size of the pool are about.        *)
Numbers == {"mempool_size", "mempool_cache_size", "burst_size", "descriptors", "mbuf_size",
            "ports", "queues_per_port", "transmit_port", "packet_length", "file_prefix"}

LEMMA WidthsNumber ==
    ASSUME NEW n \in Int
    PROVE  U16(n) \in Int /\ U32(n) \in Int /\ U64(n) \in Int
<1>1. U16(n) \in Int
  BY DEF U16
<1>2. U32(n) \in Int
  BY CommandLineAssumption DEF U32
<1>3. U64(n) \in Int
  BY CommandLineAssumption DEF U64
<1> QED
  BY <1>1, <1>2, <1>3

LEMMA AssignsNumbers ==
    ASSUME NEW a \in Applications, NEW arg \in Arguments, Taken(a, arg)
    PROVE  \A f \in Numbers \cap DOMAIN Assigned(a, arg) : Assigned(a, arg)[f] \in Int
<1>1. arg.n \in Int /\ U16(arg.n) \in Int /\ U32(arg.n) \in Int /\ U64(arg.n) \in Int
  BY WidthsNumber DEF Arguments
<1>2. CASE ~ IsAppArg(a, arg)
  BY <1>1, <1>2, DpdkAssigns DEF Taken, Numbers
<1>3. CASE IsAppArg(a, arg)
  <2>1. CASE a \in {"read", "loopback", "bonding", "metadata_viewer"}
    BY <1>3, <2>1, ReadAssigns, LoopbackAssigns, BondingAssigns, MetadataViewerAssigns DEF Numbers, NextStats
  <2>2. CASE a = "generate"
    BY <1>1, <1>3, <2>2, GenerateAssigns DEF Numbers, NextStats
  <2>3. CASE a = "receive"
    BY <1>1, <1>3, <2>3, ReceiveAssigns DEF Numbers
  <2>4. CASE a = "transmit"
    BY <1>1, <1>3, <2>4, TransmitAssigns DEF Numbers
  <2>5. CASE a = "table_filler"
    BY <1>3, <2>5, TableFillerAssigns DEF Numbers
  <2>6. CASE a = "hairpin"
    BY <1>3, <2>6, HairpinAssigns DEF Numbers, NextStats
  <2>7. CASE a = "flagging"
    BY <1>3, <2>7, FlaggingAssigns DEF Numbers
  <2> QED
    BY <2>1, <2>2, <2>3, <2>4, <2>5, <2>6, <2>7 DEF Applications
<1> QED
  BY <1>2, <1>3

LEMMA PoolNumber == ASSUME NEW p \in Int, NEW q \in Int, NEW d \in Int, NEW b \in Int, NEW c \in Int
                    PROVE  PoolFor(p, q, d, b, c) \in Int
  BY CommandLineAssumption DEF PoolFor, Max2

LEMMA DefaultNumbers ==
    ASSUME NEW a \in Applications
    PROVE  /\ \A f \in Numbers \cap DOMAIN Defaults(a) : Defaults(a)[f] \in Int
           /\ "file_prefix" \in DOMAIN Defaults("receive") /\ Defaults("receive")["file_prefix"] = 8
<1>1. \A f \in DOMAIN set_default_dpdk_setts : set_default_dpdk_setts[f] \in Int
  <2>1. PoolFor(1, 32, 1024, 32, 512) \in Int
    BY PoolNumber
  <2> QED
    BY <2>1 DEF set_default_dpdk_setts, queue_cnt_for_mempool
<1>2. U16(-1) \in Int
  BY WidthsNumber
<1>3. \A f \in Numbers \cap DOMAIN AppDefaults[a] : AppDefaults[a][f] \in Int
  <2>1. CASE a \in {"read", "loopback", "bonding", "metadata_viewer", "table_filler", "hairpin", "flagging"}
    BY <2>1 DEF Numbers, AppDefaults, ReadDefaults, LoopbackDefaults, BondingDefaults, ViewerDefaults,
                FillerDefaults, HairpinDefaults, FlaggingDefaults
  <2>2. CASE a \in {"generate", "receive", "transmit"}
    BY <1>2, <2>2 DEF Numbers, AppDefaults, GenerateDefaults, ReceiveDefaults, TransmitDefaults
  <2> QED
    BY <2>1, <2>2 DEF Applications
<1>4. Defaults("receive")["file_prefix"] = 8 /\ "file_prefix" \in DOMAIN Defaults("receive")
  <2>1. AppDefaults["receive"] = ReceiveDefaults
    BY DEF AppDefaults
  <2>2. "file_prefix" \in DOMAIN ReceiveDefaults /\ ReceiveDefaults["file_prefix"] = 8
    BY DEF ReceiveDefaults
  <2> QED
    BY <2>1, <2>2 DEF Defaults, Union
<1> QED
  BY <1>1, <1>3, <1>4, UnionIs DEF Defaults

-------------------------------------------------------------------------------
(* Parsing, for every application.  What is done of the command line, and  *)
(* the value that a setting then has: the last option's, or the default.   *)
Done == Len(given) - Len(args)

SoFar(letter) == {k \in 1 .. Done : given[k].opt = letter}

Value(field, ks) == IF ks = {} THEN Defaults(app)[field]
                               ELSE Assigned(app, given[LastOf(ks)])[field]

FieldsInv == \A f \in DOMAIN OptionOf(app) : settings[f] = Value(f, SoFar(OptionOf(app)[f]))

NumbersInv ==
    /\ \A f \in Numbers \cap DOMAIN settings : settings[f] \in Int
    /\ app = "receive" => settings["file_prefix"] < 50

(* The checks held of the settings as they still are.                      *)
ChecksInv ==
    outcome = "accepted" =>
        /\ args = <<>>
        /\ app = "transmit" /\ settings.transmit_single => settings.transmit_port < settings.ports
        /\ app = "generate" => settings.packet_length <= settings.mbuf_size
        /\ app = "bonding"  => settings.mempool_size = 524287

CommandInv == CommandTypeOK /\ DOMAIN settings = DOMAIN Defaults(app)
                /\ FieldsInv /\ NumbersInv /\ ChecksInv

LEMMA LastIs ==
    ASSUME NEW ks, NEW m \in ks, ks \subseteq Int, \A j \in ks : j <= m
    PROVE  LastOf(ks) = m
<1>1. LastOf(ks) \in ks /\ \A j \in ks : j <= LastOf(ks)
  <2>1. \E k \in ks : \A j \in ks : j <= k
    OBVIOUS
  <2> QED
    BY <2>1 DEF LastOf
<1> DEFINE last == LastOf(ks)
<1> HIDE DEF last
<1>2. last \in Int /\ m \in Int /\ m <= last /\ last <= m
  BY <1>1 DEF last
<1>3. last = m
  BY <1>2
<1> QED
  BY <1>3 DEF last

(* Where parsing is: between the arguments done and those to come.         *)
LEMMA Progress ==
    ASSUME CommandTypeOK
    PROVE  /\ app \in Applications /\ given \in Seq(Arguments) /\ args \in Seq(Arguments)
           /\ Done \in 0 .. Len(given)
           /\ args # <<>> => /\ Done + 1 \in 1 .. Len(given) /\ Head(args) = given[Done + 1]
                             /\ Head(args) \in Arguments /\ Len(Tail(args)) = Len(args) - 1
           /\ args = <<>> => Done = Len(given)
<1>1. app \in Applications /\ given \in Seq(Arguments)
  BY CommandLineAssumption DEF CommandTypeOK
<1>2. PICK n \in 0 .. Len(given) : args = SubSeq(given, n + 1, Len(given))
  BY DEF CommandTypeOK
<1>3. Len(given) \in Nat /\ \A i \in n + 1 .. Len(given) : given[i] \in Arguments
  BY <1>1, <1>2
<1>4. args \in Seq(Arguments) /\ Len(args) = IF n + 1 <= Len(given) THEN Len(given) - n ELSE 0
  BY <1>2, <1>3, SubSeqProperties
<1>5. Done = n /\ Done \in 0 .. Len(given)
  BY <1>2, <1>3, <1>4 DEF Done
<1>6. ASSUME args # <<>>
      PROVE  /\ Done + 1 \in 1 .. Len(given) /\ Head(args) = given[Done + 1]
             /\ Head(args) \in Arguments /\ Len(Tail(args)) = Len(args) - 1
  <2>1. n + 1 \in 1 .. Len(given) /\ Len(given) \in n + 1 .. Len(given)
    BY <1>2, <1>3, <1>4, <1>6
  <2>2. Head(args) = given[n + 1]
    BY <1>1, <1>2, <2>1, HeadTailOfSubSeq
  <2> QED
    BY <1>4, <1>5, <1>6, <2>1, <2>2, HeadTailProperties
<1>7. args = <<>> => Done = Len(given)
  BY <1>3 DEF Done
<1> QED
  BY <1>1, <1>4, <1>5, <1>6, <1>7

(* One more option: it becomes the last of its letter and of no other, and *)
(* it sets what is set by that letter and nothing else that is named.      *)
LEMMA OptionStep ==
    ASSUME CommandInv, Option
    PROVE  CommandInv'
<1>1. /\ args # <<>> /\ Taken(app, Head(args)) /\ ~ BadArgument(app, Head(args))
      /\ settings' = Override(settings, Assigned(app, Head(args)))
      /\ args' = Tail(args) /\ UNCHANGED <<app, given, outcome>> /\ outcome = "parsing"
  BY DEF Option, Taken
<1>2. CommandTypeOK /\ DOMAIN settings = DOMAIN Defaults(app) /\ FieldsInv /\ NumbersInv
  BY DEF CommandInv
<1> DEFINE n == Done
           arg == Head(args)
<1>3. /\ app \in Applications /\ given \in Seq(Arguments) /\ args \in Seq(Arguments)
      /\ n \in 0 .. Len(given) /\ n + 1 \in 1 .. Len(given)
      /\ arg = given[n + 1] /\ arg \in Arguments /\ Len(Tail(args)) = Len(args) - 1
  BY <1>1, <1>2, Progress
<1>4. Done' = n + 1
  BY <1>1, <1>3 DEF Done
<1>5. /\ DOMAIN settings' = DOMAIN settings
      /\ \A f \in DOMAIN settings : settings'[f] = IF f \in DOMAIN Assigned(app, arg)
                                                   THEN Assigned(app, arg)[f] ELSE settings[f]
  BY <1>1, OverrideKeeps
<1>6. CommandTypeOK'
  <2>1. PICK m \in 0 .. Len(given) : args = SubSeq(given, m + 1, Len(given))
    BY <1>2 DEF CommandTypeOK
  <2>2. m + 1 \in 0 .. Len(given) /\ Tail(args) = SubSeq(given, (m + 1) + 1, Len(given))
    BY <1>1, <1>3, <2>1, Suffix
  <2> QED
    BY <1>1, <1>2, <1>5, <2>2 DEF CommandTypeOK
<1>7. FieldsInv'
  <2> SUFFICES ASSUME NEW f \in DOMAIN OptionOf(app)
               PROVE  settings'[f] = Value(f, SoFar(OptionOf(app)[f]))'
    BY <1>1 DEF FieldsInv
  <2> DEFINE letter == OptionOf(app)[f]
             ks == SoFar(letter)
             later == {k \in 1 .. n + 1 : given[k].opt = letter}
  <2>1. SoFar(letter)' = later
    BY <1>1, <1>4 DEF SoFar
  <2>2. settings[f] = Value(f, ks)
    BY <1>2 DEF FieldsInv
  <2>3. f \in DOMAIN Assigned(app, arg) <=> arg.opt = letter
    BY <1>1, <1>3, Reaches DEF ReachesItsOwn
  <2>4. f \in DOMAIN settings
    BY <1>2, <1>3, OptionsAreSettings
  <2>5. ks = {k \in 1 .. n : given[k].opt = letter} /\ n \in Nat
    BY <1>3 DEF SoFar
  <2>6. Value(f, SoFar(letter))' = Value(f, later)
    BY <1>1, <2>1 DEF Value
  <2>7. CASE arg.opt = letter
    <3>1. settings'[f] = Assigned(app, arg)[f]
      BY <1>5, <2>3, <2>4, <2>7
    <3>2. n + 1 \in later /\ later \subseteq Int /\ \A j \in later : j <= n + 1
      BY <1>3, <2>5, <2>7
    <3>3. LastOf(later) = n + 1
      BY <3>2, LastIs
    <3> QED
      BY <1>3, <2>6, <3>1, <3>2, <3>3 DEF Value
  <2>8. CASE arg.opt # letter
    <3>1. settings'[f] = settings[f]
      BY <1>5, <2>3, <2>4, <2>8
    <3>2. \A k \in 1 .. n + 1 : k \in 1 .. n \/ k = n + 1
      BY <2>5
    <3>3. \A k \in 1 .. n : k \in 1 .. n + 1
      BY <2>5
    <3>4. later = ks
      BY <1>3, <2>5, <2>8, <3>2, <3>3
    <3> QED
      BY <2>2, <2>6, <3>1, <3>4
  <2> QED
    BY <1>1, <2>7, <2>8
<1>8. NumbersInv'
  <2>1. \A f \in Numbers \cap DOMAIN settings' : settings'[f] \in Int
    BY <1>1, <1>2, <1>3, <1>5, AssignsNumbers DEF NumbersInv
  <2>2. ASSUME app = "receive" PROVE settings'["file_prefix"] < 50
    <3>1. "file_prefix" \in DOMAIN settings
      BY <1>2, <2>2, DefaultNumbers DEF Applications
    <3>2. "file_prefix" \in DOMAIN OptionOf("receive") /\ OptionOf("receive")["file_prefix"] = "f"
      <4>1. OptionOf("receive") = Union(CommonOptions, OwnOptions["receive"])
        BY DEF OptionOf, TakesDpdkArgs
      <4>2. "file_prefix" \in DOMAIN OwnOptions["receive"] /\ OwnOptions["receive"]["file_prefix"] = "f"
        BY DEF OwnOptions
      <4> QED
        BY <4>1, <4>2 DEF Union
    <3>3. ASSUME "file_prefix" \in DOMAIN Assigned(app, arg)
          PROVE  Assigned(app, arg)["file_prefix"] < 50
      <4>1. arg.opt = "f"
        BY <1>1, <1>3, <2>2, <3>2, <3>3, Reaches DEF ReachesItsOwn
      <4>2. arg.n \in Int /\ arg.n + 1 <= 50
        BY <1>1, <1>3, <2>2, <4>1 DEF BadArgument, Arguments
      <4>3. IsAppArg("receive", arg)
        BY <4>1 DEF IsAppArg, AppCases, ReceiveCases
      <4>4. Assigned("receive", arg) = [file_prefix |-> arg.n]
        BY <1>3, <4>1, <4>3, ReceiveAssigns
      <4> QED
        BY <2>2, <4>2, <4>4
    <3> QED
      BY <1>2, <1>5, <2>2, <3>1, <3>3 DEF NumbersInv
  <2> QED
    BY <1>1, <2>1, <2>2 DEF NumbersInv
<1>9. ChecksInv'
  BY <1>1 DEF ChecksInv
<1> QED
  BY <1>1, <1>2, <1>5, <1>6, <1>7, <1>8, <1>9 DEF CommandInv

LEMMA CheckedSettings ==
    /\ {"transmit_port", "transmit_single", "ports"} \subseteq DOMAIN Defaults("transmit")
    /\ {"packet_length", "mbuf_size"} \subseteq DOMAIN Defaults("generate")
    /\ "mempool_size" \in DOMAIN Defaults("bonding")
<1>1. /\ AppDefaults["transmit"] = TransmitDefaults
      /\ AppDefaults["generate"] = GenerateDefaults
      /\ AppDefaults["bonding"] = BondingDefaults
  BY DEF AppDefaults
<1>2. \A a \in {"transmit", "generate", "bonding"} :
         DOMAIN Defaults(a) = DOMAIN set_default_dpdk_setts \cup DOMAIN AppDefaults[a]
  BY DEF Defaults, Union
<1> QED
  BY <1>1, <1>2 DEF set_default_dpdk_setts, TransmitDefaults, GenerateDefaults

(* The last step: the checks, and bonding's own port and pool.             *)
LEMMA EndStep ==
    ASSUME CommandInv, EndOfOptions
    PROVE  CommandInv'
<1>1. /\ args = <<>> /\ outcome = "parsing" /\ UNCHANGED <<app, given, args>>
      /\ settings' = Override(settings, Sanitized)
      /\ outcome' = IF Refused THEN "rejected" ELSE "accepted"
  BY DEF EndOfOptions
<1>2. /\ CommandTypeOK /\ DOMAIN settings = DOMAIN Defaults(app) /\ FieldsInv /\ NumbersInv
      /\ app \in Applications
  BY Progress DEF CommandInv
<1>3. /\ DOMAIN settings' = DOMAIN settings
      /\ \A f \in DOMAIN settings : settings'[f] = IF f \in DOMAIN Sanitized THEN Sanitized[f] ELSE settings[f]
  BY <1>1, OverrideKeeps
<1>4. /\ app # "bonding" => \A f \in DOMAIN settings : settings'[f] = settings[f]
      /\ app = "bonding" => /\ DOMAIN Sanitized = {"ports", "mempool_size"}
                            /\ Sanitized["mempool_size"] = 524287 /\ Sanitized["ports"] = 1
  <2>1. CASE app = "bonding"
    BY <2>1 DEF Sanitized
  <2>2. CASE app # "bonding"
    <3>1. Sanitized = <<>> /\ DOMAIN <<>> = {}
      BY <2>2 DEF Sanitized
    <3> QED
      BY <1>3, <2>2, <3>1
  <2> QED
    BY <2>1, <2>2
<1>5. CommandTypeOK'
  BY <1>1, <1>2, <1>3 DEF CommandTypeOK
<1>6. FieldsInv'
  <2> SUFFICES ASSUME NEW f \in DOMAIN OptionOf(app)
               PROVE  settings'[f] = Value(f, SoFar(OptionOf(app)[f]))'
    BY <1>1 DEF FieldsInv
  <2>1. Value(f, SoFar(OptionOf(app)[f]))' = Value(f, SoFar(OptionOf(app)[f]))
    BY <1>1 DEF Value, SoFar, Done
  <2>2. settings[f] = Value(f, SoFar(OptionOf(app)[f])) /\ f \in DOMAIN settings
    BY <1>2, OptionsAreSettings DEF FieldsInv
  <2>3. app = "bonding" => f \notin {"ports", "mempool_size"}
    <3>1. app = "bonding" => f \in DOMAIN OwnOptions["bonding"] \/ f \notin {"ports", "mempool_size"}
      BY OptionIs DEF Applications
    <3> QED
      BY <3>1, BondingOwn
  <2> QED
    BY <1>3, <1>4, <2>1, <2>2, <2>3
<1>7. NumbersInv'
  <2>1. \A f \in Numbers \cap DOMAIN settings' : settings'[f] \in Int
    BY <1>2, <1>3, <1>4 DEF NumbersInv
  <2>2. app = "receive" => settings'["file_prefix"] = settings["file_prefix"]
    BY <1>2, <1>4, DefaultNumbers
  <2> QED
    BY <1>1, <1>2, <2>1, <2>2 DEF NumbersInv
<1>8. ChecksInv'
  <2> SUFFICES ASSUME ~ Refused
               PROVE  /\ app = "transmit" /\ settings'.transmit_single
                            => settings'.transmit_port < settings'.ports
                      /\ app = "generate" => settings'.packet_length <= settings'.mbuf_size
                      /\ app = "bonding"  => settings'.mempool_size = 524287
    BY <1>1 DEF ChecksInv
  <2>1. ASSUME app = "transmit", settings'.transmit_single
        PROVE  settings'.transmit_port < settings'.ports
    <3>1. {"transmit_port", "transmit_single", "ports"} \subseteq DOMAIN settings
      BY <1>2, <2>1, CheckedSettings
    <3>2. settings.transmit_port \in Int /\ settings.ports \in Int
      BY <1>2, <3>1 DEF NumbersInv, Numbers
    <3>3. settings.transmit_single
      BY <1>4, <2>1, <3>1
    <3>4. ~ (settings.transmit_port > settings.ports - 1)
      BY <2>1, <3>3 DEF Refused, PortTooHigh
    <3> QED
      BY <1>4, <2>1, <3>1, <3>2, <3>4
  <2>2. ASSUME app = "generate" PROVE settings'.packet_length <= settings'.mbuf_size
    <3>1. {"packet_length", "mbuf_size"} \subseteq DOMAIN settings
      BY <1>2, <2>2, CheckedSettings
    <3>2. settings.packet_length \in Int /\ settings.mbuf_size \in Int
      BY <1>2, <3>1 DEF NumbersInv, Numbers
    <3>3. ~ (settings.packet_length > settings.mbuf_size)
      BY <2>2 DEF Refused
    <3> QED
      BY <1>4, <2>2, <3>1, <3>2, <3>3
  <2>3. ASSUME app = "bonding" PROVE settings'.mempool_size = 524287
    BY <1>2, <1>3, <1>4, <2>3, CheckedSettings
  <2> QED
    BY <2>1, <2>2, <2>3
<1> QED
  BY <1>1, <1>2, <1>3, <1>5, <1>6, <1>7, <1>8 DEF CommandInv

LEMMA CommandKept ==
    ASSUME CommandInv, UNCHANGED <<app, given, args, settings>>,
           outcome' = outcome \/ outcome' \in {"rejected", "help"}
    PROVE  CommandInv'
<1>1. CommandTypeOK'
  BY DEF CommandInv, CommandTypeOK
<1>2. Done' = Done
  BY DEF Done
<1>3. FieldsInv'
  <2> SUFFICES ASSUME NEW f \in DOMAIN OptionOf(app)
               PROVE  settings[f] = Value(f, SoFar(OptionOf(app)[f]))'
    BY DEF FieldsInv
  <2>1. Value(f, SoFar(OptionOf(app)[f]))' = Value(f, SoFar(OptionOf(app)[f]))
    BY <1>2 DEF Value, SoFar
  <2> QED
    BY <2>1 DEF CommandInv, FieldsInv
<1>4. NumbersInv'
  BY DEF CommandInv, NumbersInv
<1>5. ChecksInv'
  BY DEF CommandInv, ChecksInv
<1> QED
  BY <1>1, <1>3, <1>4, <1>5 DEF CommandInv

LEMMA CommandStep ==
    ASSUME CommandInv, [Next]_vars
    PROVE  CommandInv'
<1>1. CASE Option
  BY <1>1, OptionStep
<1>2. CASE EndOfOptions
  BY <1>2, EndStep
<1>3. CASE RejectOption \/ Help
  <2>1. UNCHANGED <<app, given, args, settings>> /\ outcome' \in {"rejected", "help"}
    BY <1>3 DEF RejectOption, Help
  <2> QED
    BY <2>1, CommandKept
<1>4. CASE UNCHANGED command
  BY <1>4, CommandKept DEF command
<1>5. Parse \/ UNCHANGED command
  BY DEF Next, Main, ParseStep, SetUp, UnsupportedKey, Inserted, Failed, LeaveLoop,
         destroy_all_flow_rules, handle_sig, vars
<1> QED
  BY <1>1, <1>2, <1>3, <1>4, <1>5 DEF Parse

LEMMA CommandInit == FillerInit => CommandInv
<1> SUFFICES ASSUME FillerInit PROVE CommandInv
  OBVIOUS
<1>1. app \in Applications /\ given \in Seq(Arguments) /\ args = given
      /\ settings = Defaults(app) /\ outcome = "parsing"
  BY CommandLineAssumption DEF FillerInit, Init
<1>2. 0 \in 0 .. Len(given) /\ args = SubSeq(given, 0 + 1, Len(given))
  BY <1>1, SubSeqFull
<1>3. CommandTypeOK
  BY <1>1, <1>2 DEF FillerInit, Init, CommandTypeOK
<1>4. FieldsInv
  <2>1. 1 .. Done = {}
    BY <1>1 DEF Done
  <2> QED
    BY <1>1, <2>1 DEF FieldsInv, Value, SoFar
<1>5. NumbersInv
  BY <1>1, DefaultNumbers DEF NumbersInv
<1>6. ChecksInv
  BY <1>1 DEF ChecksInv
<1> QED
  BY <1>1, <1>3, <1>4, <1>5, <1>6 DEF CommandInv

(* The inductive invariant of parsing, for any command lines of any        *)
(* application.                                                            *)
THEOREM Parsing == Spec => []CommandInv
<1>1. CommandInv /\ [Next]_vars => CommandInv'
  BY CommandStep
<1> QED
  BY <1>1, CommandInit, PTL DEF Spec

(* What the help texts state as defaults, the code sets.                   *)
LEMMA CommonHelp ==
    ASSUME NEW f \in DOMAIN HelpOfCommon
    PROVE  f \in DOMAIN set_default_dpdk_setts /\ set_default_dpdk_setts[f] = HelpOfCommon[f]
  BY DEF HelpOfCommon, set_default_dpdk_setts

OwnHelpIsSet(a) ==
    /\ \A f \in DOMAIN HelpOf[a] : <<a, f>> \notin Misstated =>
          f \in DOMAIN AppDefaults[a] /\ AppDefaults[a][f] = HelpOf[a][f]
    /\ DOMAIN AppDefaults[a] \cap DOMAIN HelpOfCommon = {}

LEMMA OwnHelp ==
    ASSUME NEW a \in DOMAIN HelpOf
    PROVE  OwnHelpIsSet(a)
<1>1. DOMAIN HelpOf = {"read", "loopback", "generate", "receive", "transmit", "bonding",
                       "table_filler", "hairpin"}
  BY DEF HelpOf
<1>2. CASE a \in {"read", "loopback", "bonding"}
  <2>1. HelpOf[a] = [next_stats_delay_ms |-> 5000]
    BY <1>2 DEF HelpOf
  <2>2. CASE a = "read"
    <3>1. AppDefaults[a] = ReadDefaults
      BY <2>2 DEF AppDefaults
    <3> QED
      BY <2>1, <3>1 DEF OwnHelpIsSet, HelpOfCommon, ReadDefaults
  <2>3. CASE a = "loopback"
    <3>1. AppDefaults[a] = LoopbackDefaults
      BY <2>3 DEF AppDefaults
    <3> QED
      BY <2>1, <3>1 DEF OwnHelpIsSet, HelpOfCommon, LoopbackDefaults
  <2>4. CASE a = "bonding"
    <3>1. AppDefaults[a] = BondingDefaults
      BY <2>4 DEF AppDefaults
    <3> QED
      BY <2>1, <3>1 DEF OwnHelpIsSet, HelpOfCommon, BondingDefaults
  <2> QED
    BY <1>2, <2>2, <2>3, <2>4
<1>3. CASE a = "generate"
  <2>1. AppDefaults[a] = GenerateDefaults
    BY <1>3 DEF AppDefaults
  <2>2. HelpOf[a] = [next_stats_delay_ms |-> 5000, packet_length |-> 512]
    BY <1>3 DEF HelpOf
  <2> QED
    BY <2>1, <2>2 DEF OwnHelpIsSet, HelpOfCommon, GenerateDefaults
<1>4. CASE a = "receive"
  <2>1. AppDefaults[a] = ReceiveDefaults
    BY <1>4 DEF AppDefaults
  <2>2. HelpOf[a] = [check_packet_th |-> FALSE, file_prefix |-> 13, dump_packets |-> FALSE]
    BY <1>4 DEF HelpOf
  <2>3. ASSUME NEW f \in DOMAIN HelpOf[a], f = "file_prefix"
        PROVE  <<a, f>> \in Misstated
    <3>1. <<"receive", "file_prefix">> \in Misstated
      BY DEF Misstated
    <3> QED
      BY <1>4, <2>3, <3>1
  <2>4. \A f \in DOMAIN HelpOf[a] :
          f # "file_prefix" => f \in DOMAIN AppDefaults[a] /\ AppDefaults[a][f] = HelpOf[a][f]
    <3>1. \A f \in DOMAIN HelpOf[a] : f # "file_prefix" => f \in {"check_packet_th", "dump_packets"}
      BY <2>2
    <3>2. /\ "check_packet_th" \in DOMAIN AppDefaults[a] /\ "dump_packets" \in DOMAIN AppDefaults[a]
          /\ AppDefaults[a]["check_packet_th"] = FALSE /\ AppDefaults[a]["dump_packets"] = FALSE
      BY <2>1 DEF ReceiveDefaults
    <3>3. HelpOf[a]["check_packet_th"] = FALSE /\ HelpOf[a]["dump_packets"] = FALSE
      BY <2>2
    <3> QED
      BY <3>1, <3>2, <3>3
  <2>5. DOMAIN AppDefaults[a] \cap DOMAIN HelpOfCommon = {}
    BY <2>1 DEF HelpOfCommon, ReceiveDefaults
  <2> QED
    BY <2>3, <2>4, <2>5 DEF OwnHelpIsSet
<1>5. CASE a = "transmit"
  <2>1. AppDefaults[a] = TransmitDefaults
    BY <1>5 DEF AppDefaults
  <2>2. HelpOf[a] = [pcap_file |-> 9]
    BY <1>5 DEF HelpOf
  <2> QED
    BY <2>1, <2>2 DEF OwnHelpIsSet, HelpOfCommon, TransmitDefaults
<1>6. CASE a = "table_filler"
  <2>1. AppDefaults[a] = FillerDefaults
    BY <1>6 DEF AppDefaults
  <2>2. HelpOf[a] = HelpOfFiller
    BY <1>6 DEF HelpOf
  <2> QED
    BY <2>1, <2>2 DEF OwnHelpIsSet, HelpOfCommon, FillerDefaults, HelpOfFiller
<1>7. CASE a = "hairpin"
  <2>1. AppDefaults[a] = HairpinDefaults
    BY <1>7 DEF AppDefaults
  <2>2. HelpOf[a] = [nb_std_queues |-> 1, nb_hp_queues |-> 1, nb_desc |-> 1024,
                     packets_to_send |-> 64, next_stats_delay_ms |-> 5000]
    BY <1>7 DEF HelpOf
  <2> QED
    BY <2>1, <2>2 DEF OwnHelpIsSet, HelpOfCommon, HairpinDefaults
<1> QED
  BY <1>1, <1>2, <1>3, <1>4, <1>5, <1>6, <1>7

LEMMA HelpIsSet ==
    ASSUME NEW a \in Applications, NEW f \in DOMAIN HelpDefaults(a), <<a, f>> \notin Misstated
    PROVE  Defaults(a)[f] = HelpDefaults(a)[f]
<1> DEFINE own == IF a \in DOMAIN HelpOf THEN HelpOf[a] ELSE [x \in {} |-> 0]
<1>1. DOMAIN HelpOf = {"read", "loopback", "generate", "receive", "transmit", "bonding",
                       "table_filler", "hairpin"}
  BY DEF HelpOf
<1>2. a = "flagging" => DOMAIN HelpDefaults(a) = {}
  BY <1>1 DEF HelpDefaults, TakesDpdkArgs
<1>3. Defaults(a) = Union(set_default_dpdk_setts, AppDefaults[a])
  BY <1>2 DEF Defaults
<1>4. \A x \in DOMAIN own : <<a, x>> \notin Misstated =>
        x \in DOMAIN AppDefaults[a] /\ AppDefaults[a][x] = own[x]
  BY OwnHelp DEF OwnHelpIsSet
<1>5. DOMAIN AppDefaults[a] \cap DOMAIN HelpOfCommon = {}
  <2>1. CASE a \in DOMAIN HelpOf
    BY <2>1, OwnHelp DEF OwnHelpIsSet
  <2>2. CASE a = "metadata_viewer"
    <3>1. AppDefaults[a] = ViewerDefaults
      BY <2>2 DEF AppDefaults
    <3> QED
      BY <3>1 DEF HelpOfCommon, ViewerDefaults
  <2> QED
    BY <1>1, <1>2, <2>1, <2>2 DEF Applications
<1>6. CASE TakesDpdkArgs(a)
  <2>1. HelpDefaults(a) = Union(HelpOfCommon, own)
    BY <1>6 DEF HelpDefaults
  <2> HIDE DEF own
  <2>2. CASE f \in DOMAIN own
    BY <1>3, <1>4, <2>1, <2>2 DEF Union
  <2>3. CASE f \notin DOMAIN own
    <3>1. f \in DOMAIN HelpOfCommon /\ HelpDefaults(a)[f] = HelpOfCommon[f]
      BY <2>1, <2>3 DEF Union
    <3> QED
      BY <1>3, <1>5, <3>1, CommonHelp DEF Union
  <2> QED
    BY <2>2, <2>3
<1>7. CASE ~ TakesDpdkArgs(a)
  <2>1. HelpDefaults(a) = own
    BY <1>7 DEF HelpDefaults
  <2> HIDE DEF own
  <2> QED
    BY <1>3, <1>4, <2>1 DEF Union
<1> QED
  BY <1>6, <1>7

(* A setting has the value of the last option that is named for it, or its *)
(* default, which is the one of its help text but for receive's prefix,    *)
(* whatever stands before, between and after.                              *)
THEOREM AsGiven == Spec => []SettingsAsGiven
<1>1. CommandInv => SettingsAsGiven
  <2> SUFFICES ASSUME CommandInv, outcome = "accepted"
               PROVE  SettingsAsGiven
    BY DEF SettingsAsGiven
  <2>1. ASSUME NEW f \in DOMAIN OptionOf(app)
        PROVE  settings[f] = IF Named(OptionOf(app)[f]) = {} THEN Defaults(app)[f]
                             ELSE Assigned(app, given[LastOf(Named(OptionOf(app)[f]))])[f]
    <3>1. given \in Seq(Arguments) /\ Done = Len(given)
      BY Progress DEF CommandInv, ChecksInv
    <3>2. SoFar(OptionOf(app)[f]) = Named(OptionOf(app)[f])
      BY <3>1 DEF SoFar, Named
    <3> QED
      BY <3>2 DEF CommandInv, FieldsInv, Value
  <2>2. ASSUME NEW f \in DOMAIN HelpDefaults(app) \cap DOMAIN OptionOf(app),
               Named(OptionOf(app)[f]) = {}, <<app, f>> \notin Misstated
        PROVE  settings[f] = HelpDefaults(app)[f]
    <3>1. app \in Applications
      BY DEF CommandInv, CommandTypeOK
    <3> QED
      BY <2>1, <2>2, <3>1, HelpIsSet
  <2> QED
    BY <2>1, <2>2 DEF SettingsAsGiven
<1> QED
  BY <1>1, Parsing, PTL

(* The checks hold of the settings that are used: nothing changes them     *)
(* after they were checked.                                                *)
THEOREM Consistent == Spec => []AcceptedIsConsistent
<1>1. CommandInv => AcceptedIsConsistent
  BY DEF CommandInv, NumbersInv, ChecksInv, AcceptedIsConsistent
<1> QED
  BY <1>1, Parsing, PTL

LEMMA Products ==
    ASSUME NEW a \in Nat, NEW b \in Nat, NEW c \in Nat, NEW d \in Nat, a <= c, b <= d
    PROVE  a * b \in Nat /\ a * b <= c * d
<1>1. a * b <= c * b
  BY SMT
<1>2. c * b <= c * d
  BY SMT
<1> QED
  BY <1>1, <1>2

(* What is asked for later, within the defaults, needs no more than the     *)
(* pool computed before the options were known, nor than bonding's own.     *)
LEMMA NeedBounded ==
    ASSUME LcoreCount <= 843, WithinDefaults
    PROVE  LET need == PoolFor(1, settings.queues_per_port, settings.descriptors,
                               settings.burst_size, settings.mempool_cache_size)
           IN  need \in Int /\ need <= PoolFor(1, 32, 1024, 32, 512) /\ need <= 524287
<1> DEFINE L == LcoreCount
<1>1. PICK q, d, b, c : /\ q = settings.queues_per_port /\ d = settings.descriptors
                        /\ b = settings.burst_size /\ c = settings.mempool_cache_size
  OBVIOUS
<1> DEFINE qd == q * d
           Lb == L * b
           Lc == L * c
<1>2. q \in 0 .. 32 /\ d \in 0 .. 1024 /\ b \in 0 .. 32 /\ c \in 0 .. 512
  BY <1>1 DEF WithinDefaults
<1>3. L \in Nat /\ L <= 843
  BY CommandLineAssumption
<1>4. qd \in Nat /\ qd <= 32 * 1024
  BY <1>2, Products
<1>5. Lb \in Nat /\ Lb <= L * 32 /\ Lc \in Nat /\ Lc <= L * 512
  BY <1>2, <1>3, Products
<1>6. PoolFor(1, q, d, b, c) = Max2(qd + Lb + qd + Lc, 8196)
  BY <1>2, <1>3 DEF PoolFor
<1>7. PoolFor(1, 32, 1024, 32, 512) = Max2(32 * 1024 + L * 32 + 32 * 1024 + L * 512, 8196)
  BY <1>3 DEF PoolFor
<1> HIDE DEF qd, Lb, Lc, L
<1>8. /\ Max2(qd + Lb + qd + Lc, 8196) \in Int
      /\ Max2(qd + Lb + qd + Lc, 8196) <= Max2(32 * 1024 + L * 32 + 32 * 1024 + L * 512, 8196)
      /\ Max2(qd + Lb + qd + Lc, 8196) <= 524287
  BY <1>3, <1>4, <1>5 DEF Max2
<1>9. /\ PoolFor(1, q, d, b, c) \in Int
      /\ PoolFor(1, q, d, b, c) <= PoolFor(1, 32, 1024, 32, 512)
      /\ PoolFor(1, q, d, b, c) <= 524287
  BY <1>6, <1>7, <1>8
<1> QED
  BY <1>1, <1>9

(* The pool computed before the options are known suffices for every use   *)
(* within the defaults.  bonding's own pool does so for up to 843 lcores;  *)
(* DPDK is built for 128 unless told otherwise.                            *)
THEOREM PoolCovers ==
    ASSUME LcoreCount <= 843
    PROVE  Spec => []PoolCoversRings
<1>1. CommandInv => PoolCoversRings
  <2> SUFFICES ASSUME CommandInv, outcome = "accepted", TakesDpdkArgs(app), Named("m") = {}, WithinDefaults
               PROVE  settings.mempool_size >=
                        PoolFor(1, settings.queues_per_port, settings.descriptors,
                                settings.burst_size, settings.mempool_cache_size)
    BY DEF PoolCoversRings, WithinDefaults
  <2> DEFINE need == PoolFor(1, settings.queues_per_port, settings.descriptors,
                             settings.burst_size, settings.mempool_cache_size)
  <2> DEFINE most == PoolFor(1, 32, 1024, 32, 512)
  <2>1. need \in Int /\ need <= most /\ need <= 524287
    BY NeedBounded, SMT
  <2> HIDE DEF need, most
  <2>2. app = "bonding" => settings.mempool_size = 524287
    BY DEF CommandInv, ChecksInv
  <2>3. ASSUME app # "bonding" PROVE settings.mempool_size = most
    <3>1. /\ "mempool_size" \in DOMAIN OptionOf(app) /\ OptionOf(app)["mempool_size"] = "m"
      <4>1. app \in Applications /\ app \notin {"hairpin", "flagging", "bonding"}
        BY <2>3, Progress DEF CommandInv, TakesDpdkArgs
      <4>2. "mempool_size" \notin DOMAIN OwnOptions[app]
        BY <4>1, ReadOwn, LoopbackOwn, GenerateOwn, ReceiveOwn, TransmitOwn, MetadataViewerOwn,
           TableFillerOwn DEF Applications
      <4>3. "mempool_size" \in DOMAIN CommonOptions /\ CommonOptions["mempool_size"] = "m"
        BY DEF CommonOptions
      <4>4. OptionOf(app) = Union(CommonOptions, OwnOptions[app])
        BY <4>1 DEF OptionOf, TakesDpdkArgs
      <4> QED
        BY <4>2, <4>3, <4>4 DEF Union
    <3>2. given \in Seq(Arguments) /\ Done = Len(given)
      BY Progress DEF CommandInv, ChecksInv
    <3>3. SoFar("m") = {}
      BY <3>2 DEF SoFar, Named
    <3>4. settings["mempool_size"] = Defaults(app)["mempool_size"]
      BY <3>1, <3>3 DEF CommandInv, FieldsInv, Value
    <3>5. Defaults(app)["mempool_size"] = set_default_dpdk_setts["mempool_size"]
      <4>1. app \in Applications /\ app \notin {"hairpin", "flagging"}
        BY Progress DEF CommandInv, TakesDpdkArgs
      <4>2. "mempool_size" \notin DOMAIN AppDefaults[app]
        BY <4>1 DEF Applications, AppDefaults, ReadDefaults, LoopbackDefaults, GenerateDefaults, ReceiveDefaults,
                    TransmitDefaults, BondingDefaults, ViewerDefaults, FillerDefaults
      <4>3. "mempool_size" \in DOMAIN set_default_dpdk_setts
        BY DEF set_default_dpdk_setts
      <4> QED
        BY <4>1, <4>2, <4>3 DEF Defaults, Union
    <3>6. set_default_dpdk_setts["mempool_size"] = PoolFor(1, 32, 1024, 32, 512)
      BY DEF set_default_dpdk_setts, queue_cnt_for_mempool
    <3> QED
      BY <3>4, <3>5, <3>6 DEF most
  <2>4. most \in Int
    BY PoolNumber DEF most
  <2>5. settings.mempool_size >= need
    BY <2>1, <2>2, <2>3, <2>4, SMT
  <2> QED
    BY <2>5 DEF need
<1> QED
  BY <1>1, Parsing, PTL
===============================================================================
