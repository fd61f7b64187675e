------------------------------ MODULE TableFiller ------------------------------
(***************************************************************************)
(* apps/table_filler: after its command line is parsed, main() inserts     *)
(* flow rules into the NIC until it has as many as asked for, the first    *)
(* one fails (with failure_exit) or a signal comes; then it flushes them.  *)
(* A rule is its source address, counted up by ipc or drawn at random.     *)
(*                                                                         *)
(* The NIC's table holds a bounded number of rules, refuses an address     *)
(* that is in it, and may refuse others for reasons of its own.            *)
(***************************************************************************)
EXTENDS CommandLine, FiniteSets

CONSTANTS Capacities,  \* rules that the NIC's table holds
          Modulus,     \* of the unsigned ipc: 2^32 in the code
          MaxFaults,   \* refusals for other reasons
          MaxFailed    \* bound: rules_failed counts no further

ASSUME TableFillerAssumption ==
    /\ Capacities \subseteq Nat /\ Modulus \in Nat \ {0}
    /\ MaxFaults \in Nat /\ MaxFailed \in Nat

VARIABLES capacity,
          filler,          \* where main() is
          stop,            \* __stop
          ipc,
          rules_inserted, rules_failed,
          table,           \* addresses of the rules in the NIC
          faults,
          wrapped,         \* history: ipc has come round
          flushFailed      \* history: the flush failed, which nobody checks

counters == <<ipc, rules_inserted, rules_failed, faults, wrapped>>
vars     == <<command, capacity, filler, stop, counters, table, flushFailed>>

Addresses == 0 .. Modulus - 1

FillerInit ==
    /\ Init
    /\ capacity \in Capacities
    /\ filler = "start" /\ stop = FALSE
    /\ ipc = 1 % Modulus /\ rules_inserted = 0 /\ rules_failed = 0
    /\ table = {} /\ faults = 0 /\ wrapped = FALSE /\ flushFailed = FALSE

ParseStep == Parse /\ UNCHANGED <<capacity, filler, stop, counters, table, flushFailed>>
-------------------------------------------------------------------------------
(* Pool and device; a failure ends the process.                            *)
SetUp ==
    /\ filler = "start" /\ app = "table_filler" /\ outcome = "accepted"
    /\ filler' \in {"loop", "exited"}
    /\ UNCHANGED <<command, capacity, stop, counters, table, flushFailed>>

MoreRules == ~ stop /\ (settings.rules = 0 \/ rules_inserted < settings.rules)

(* create_rule_key1 and create_rule_key3 differ in the pattern only.       *)
Supported == settings.key \in {1, 3}

UnsupportedKey ==
    /\ filler = "loop" /\ MoreRules /\ ~ Supported
    /\ filler' = "exited"
    /\ UNCHANGED <<command, capacity, stop, counters, table, flushFailed>>

(* gen_rand ? rand() : ipc++, whether the rule is accepted or not.         *)
NextAddressSwapped(address) ==
    IF ~ settings.gen_rand THEN address \in Addresses /\ UNCHANGED <<ipc, wrapped>>
    ELSE /\ address = ipc
         /\ ipc' = (ipc + 1) % Modulus
         /\ wrapped' = (wrapped \/ ipc = 0)
NextAddress(address) ==
    IF settings.gen_rand THEN address \in Addresses /\ UNCHANGED <<ipc, wrapped>>
    ELSE /\ address = ipc
         /\ ipc' = (ipc + 1) % Modulus
         /\ wrapped' = (wrapped \/ ipc = 0)

Fits(address) == address \notin table /\ Cardinality(table) < capacity

Inserted ==
    /\ filler = "loop" /\ MoreRules /\ Supported
    /\ \E address \in Addresses :
         /\ NextAddress(address) /\ Fits(address)
         /\ table' = table \cup {address}
    /\ rules_inserted' = rules_inserted + 1
    /\ UNCHANGED <<command, capacity, filler, stop, rules_failed, faults, flushFailed>>

AfterFailureGoOn == UNCHANGED filler
AfterFailure == filler' = IF settings.failure_exit THEN "flush" ELSE filler

Failed ==
    /\ filler = "loop" /\ MoreRules /\ Supported
    /\ \E address \in Addresses :
         /\ NextAddress(address)
         /\ \/ ~ Fits(address) /\ UNCHANGED faults
            \/ faults < MaxFaults /\ faults' = faults + 1
    /\ rules_failed' = IF rules_failed < MaxFailed THEN rules_failed + 1 ELSE rules_failed
    /\ AfterFailure
    /\ UNCHANGED <<command, capacity, stop, rules_inserted, table, flushFailed>>

LeaveLoop ==
    /\ filler = "loop" /\ ~ MoreRules
    /\ filler' = "flush"
    /\ UNCHANGED <<command, capacity, stop, counters, table, flushFailed>>

(* rte_flow_flush; main ignores what destroy_all_flow_rules returns.       *)
destroy_all_flow_rules ==
    /\ filler = "flush"
    /\ \/ table' = {} /\ UNCHANGED flushFailed
       \/ flushFailed' = TRUE /\ UNCHANGED table
    /\ filler' = "ended"
    /\ UNCHANGED <<command, capacity, stop, counters>>

handle_sig ==
    /\ app = "table_filler" /\ outcome = "accepted" /\ filler \in {"start", "loop"}
    /\ stop' = TRUE
    /\ UNCHANGED <<command, capacity, filler, counters, table, flushFailed>>

Main == \/ ParseStep \/ SetUp \/ UnsupportedKey \/ Inserted \/ Failed \/ LeaveLoop
        \/ destroy_all_flow_rules

Next == Main \/ handle_sig

Spec == FillerInit /\ [][Next]_vars

(* The process runs; nobody has to send a signal.                          *)
FairSpec == Spec /\ WF_vars(Main)
-------------------------------------------------------------------------------
TypeOK ==
    /\ CommandTypeOK
    /\ capacity \in Capacities
    /\ filler \in {"start", "loop", "flush", "ended", "exited"}
    /\ stop \in BOOLEAN /\ wrapped \in BOOLEAN /\ flushFailed \in BOOLEAN
    /\ ipc \in Addresses /\ table \subseteq Addresses
    /\ rules_inserted \in Nat /\ rules_failed \in 0 .. MaxFailed /\ faults \in 0 .. MaxFaults

(* What is printed as inserted is what is in the NIC's table, never more   *)
(* than was asked for, and counted addresses are new until ipc wraps,      *)
(* whatever failed in between; after the end no rule stays behind unless   *)
(* the flush itself failed.                                                *)
RulesCounted ==
    /\ TypeOK
    /\ filler \in {"loop", "flush"} =>
           /\ Cardinality(table) = rules_inserted
           /\ settings.rules > 0 => rules_inserted <= settings.rules
           /\ ~ settings.gen_rand /\ ~ wrapped => ipc \notin table
    /\ filler \in {"ended", "exited"} => table = {} \/ flushFailed

(* Filling ends after a signal; with failure_exit, whatever the NIC holds; *)
(* and without it if the NIC can hold what was asked for.  (Otherwise      *)
(* every further rule fails and the loop only ends with a signal.)         *)
Enough == ~ settings.gen_rand /\ settings.rules \in 1 .. capacity

FillEnds ==
    (filler = "loop" /\ (stop \/ settings.failure_exit \/ Enough)) ~> (filler \in {"ended", "exited"})
===============================================================================
