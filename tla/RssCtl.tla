-------------------------------- MODULE RssCtl --------------------------------
(***************************************************************************)
(* The RSS configuration tool (tools/rss_configuration/rss_ctl.py).  The   *)
(* hash key, the redirection table (RETA) and the other settings of each   *)
(* channel are reached through a window: one write selects channel and     *)
(* offset, a second access reads or writes the value.  One run at a time:  *)
(* nothing in the tool keeps others out, and runs that overlap would use   *)
(* each other's selection.                                                 *)
(*                                                                         *)
(* A run of the tool is its command line, turned into the accesses that it *)
(* makes; it may be cut off between any two register accesses.             *)
(***************************************************************************)
EXTENDS Integers, Sequences, SequencesExt

CONSTANTS Tools,      \* the runs of the tool
          Commands,   \* their command lines
          channels,   \* number of channels, from the status register
          reta_size,
          KeyWords,   \* words of the hash key: key_size / 4
          WordModulus,\* of a key word: 2^32 in the code
          RowLength,  \* entries of the table in a printed row: 8 in the code
          InputBits   \* _RSS_INPUT_BIT_INDEX: the bits that have a name

(* What a command line asks for: None where an option is not given.        *)
None == -1
All  == -2            \* ifc: all

Confs == [ifc : Nat \cup {All}, hash_type : {1, 2}, hash_key : Nat \ {0},
          input_conf : Nat, queue_min : Nat \cup {None}, queue_max : Nat \cup {None}]
Lines == [rss_conf : SUBSET Confs, reta_rst : SUBSET [ifc : Nat, value : Nat],
          reta_edit : SUBSET [ifc : Nat, idx : Nat, queue : Nat], dump : BOOLEAN]

ASSUME RssCtlAssumption ==
    /\ Commands \subseteq Lines
    /\ \A c \in Commands : \A set \in {c.rss_conf, c.reta_rst, c.reta_edit} :
           \A a, b \in set : a = b
    /\ \A c \in Commands : \A e \in c.reta_rst \cup c.reta_edit : e.ifc < channels
    /\ \A c \in Commands : \A e \in c.reta_edit : e.idx < reta_size
    /\ {channels, reta_size, KeyWords} \subseteq Nat /\ {WordModulus, RowLength} \subseteq Nat \ {0}
    /\ InputBits \subseteq Nat

VARIABLES regs,       \* what the device holds, by slot
          chan_off,   \* the selected channel and offset
          command,    \* command[t]: the command line of run t
          todo,       \* the accesses that it still has to make
          pc,         \* where it is
          seen,       \* what its dump has read
          last        \* history: the run that was started last

rssVars == <<regs, chan_off, command, todo, pc, seen, last>>

Channels == 0 .. channels - 1

Slot(reg, channel, offset) == <<reg, channel, offset>>
Slots == ({"func", "input"} \X Channels \X {0}) \cup ({"key"} \X Channels \X (0 .. KeyWords - 1))
           \cup ({"reta"} \X Channels \X (0 .. reta_size - 1))

WriteTo(reg, channel, offset, value) == [slot |-> Slot(reg, channel, offset), value |-> value]
ReadOf(slot) == [slot |-> slot, value |-> None]
-------------------------------------------------------------------------------
(* A word shifted left by i words is multiplied with this.                 *)
Shift[i \in 0 .. KeyWords] == IF i = 0 THEN 1 ELSE Shift[i - 1] * WordModulus

(* set_hash_key: the little-endian words of the key; what does not fit is  *)
(* cut off.  get_hash_key puts them together again.                        *)
KeyWord(key, i) == (key \div Shift[i]) % WordModulus

set_hash_key(channel, key) ==
    [k \in 1 .. KeyWords |-> WriteTo("key", channel, k - 1, KeyWord(key, k - 1))]

reta_reset(channel, value) ==
    [k \in 1 .. reta_size |-> WriteTo("reta", channel, k - 1, value)]

(* reta_auto: the queues of the range in turn; without a range it only     *)
(* complains.                                                              *)
NextQueue(queue, conf) == IF queue + 1 > conf.queue_max THEN conf.queue_min ELSE queue + 1

RetaQueue(conf) ==
    LET queue[i \in 0 .. reta_size - 1] ==
            IF i = 0 THEN conf.queue_min ELSE NextQueue(queue[i - 1], conf)
    IN  queue

reta_auto(channel, conf) ==
    IF None \in {conf.queue_min, conf.queue_max} THEN <<>>
    ELSE [k \in 1 .. reta_size |-> WriteTo("reta", channel, k - 1, RetaQueue(conf)[k - 1])]

ConfigureChannel(channel, conf) ==
    <<WriteTo("func", channel, 0, conf.hash_type)>> \o set_hash_key(channel, conf.hash_key)
      \o <<WriteTo("input", channel, 0, conf.input_conf)>>
      \o reta_reset(channel, 0) \o reta_auto(channel, conf)

ChannelList(conf) == IF conf.ifc = All THEN [k \in 1 .. channels |-> k - 1] ELSE <<conf.ifc>>

BadIfc(line) == \E conf \in line.rss_conf : conf.ifc # All /\ conf.ifc >= channels

configure(conf) ==
    FlattenSeq([j \in 1 .. Len(ChannelList(conf)) |->
                   ConfigureChannel(ChannelList(conf)[j], conf)])

(* dump_conf, and the order in which main() serves the options.            *)
Dumps(line) == line.dump \/ line.rss_conf \cup line.reta_rst \cup line.reta_edit = {}

DumpChannel(channel) ==
    <<ReadOf(Slot("func", channel, 0))>>
      \o [k \in 1 .. KeyWords |-> ReadOf(Slot("key", channel, k - 1))]
      \o <<ReadOf(Slot("input", channel, 0))>>
      \o [k \in 1 .. reta_size |-> ReadOf(Slot("reta", channel, k - 1))]

dump_conf == FlattenSeq([k \in 1 .. channels |-> DumpChannel(k - 1)])

(* What is printed of a value that was read.  print_reta_table prints full *)
(* rows only, get_input_conf the names of the bits that have one.          *)
Printed == {s \in Slots : s[1] = "reta" => s[3] < RowLength * (reta_size \div RowLength)}

HashType(value) == IF value = 1 THEN "toeplitz" ELSE IF value = 2 THEN "simple_xor" ELSE "unknown"

InputNames(value) == {bit \in InputBits : (value \div 2^bit) % 2 = 1}

AsPrinted(slot, value) ==
    IF slot[1] = "func" THEN HashType(value)
    ELSE IF slot[1] = "input" THEN InputNames(value) ELSE value

The(option) == CHOOSE o \in option : TRUE

Configured(line) == IF line.rss_conf = {} THEN <<>> ELSE configure(The(line.rss_conf))

Reset(line) ==
    IF line.reta_rst = {} THEN <<>>
    ELSE reta_reset(The(line.reta_rst).ifc, The(line.reta_rst).value)

reta_edit_item(line) ==
    IF line.reta_edit = {} THEN <<>>
    ELSE <<WriteTo("reta", The(line.reta_edit).ifc, The(line.reta_edit).idx,
                   The(line.reta_edit).queue)>>

Dumped(line) == IF Dumps(line) THEN dump_conf ELSE <<>>

AccessesEditFirst(line) ==
    reta_edit_item(line) \o Configured(line) \o Reset(line) \o Dumped(line)

Accesses(line) ==
    Configured(line) \o Reset(line) \o reta_edit_item(line) \o Dumped(line)
-------------------------------------------------------------------------------
RssInit ==
    /\ regs = [s \in Slots |-> 0]
    /\ chan_off = <<0, 0>>
    /\ command \in [Tools -> Commands]
    /\ todo = [t \in Tools |-> <<>>]
    /\ pc = [t \in Tools |-> "waiting"]
    /\ seen = [t \in Tools |-> {}]
    /\ last = None

Running == {t \in Tools : pc[t] \in {"select", "access"}}

(* The device cannot be opened, the configuration file is unusable, or it  *)
(* names a channel that is not there: the tool ends before it writes.      *)
Start(t) ==
    /\ pc[t] = "waiting" /\ Running = {}
    /\ \/ /\ pc' = [pc EXCEPT ![t] = "failed"]
          /\ UNCHANGED <<todo, last>>
       \/ /\ ~ BadIfc(command[t])
          /\ pc' = [pc EXCEPT ![t] = "select"]
          /\ todo' = [todo EXCEPT ![t] = Accesses(command[t])]
          /\ last' = t
    /\ UNCHANGED <<regs, chan_off, command, seen>>

Wanted(t) == todo[t][1].slot

(* set_reg_chan_off: one 32-bit write for both.                            *)
SelectOnlyNewChannel(t) ==
    /\ pc[t] = "select" /\ todo[t] # <<>>
    /\ chan_off' = IF chan_off[1] = Wanted(t)[2] /\ todo[t][1].value = None THEN chan_off
                   ELSE <<Wanted(t)[2], Wanted(t)[3]>>
    /\ pc' = [pc EXCEPT ![t] = "access"]
    /\ UNCHANGED <<regs, command, todo, seen, last>>

set_reg_chan_off(t) ==
    /\ pc[t] = "select" /\ todo[t] # <<>>
    /\ chan_off' = <<Wanted(t)[2], Wanted(t)[3]>>
    /\ pc' = [pc EXCEPT ![t] = "access"]
    /\ UNCHANGED <<regs, command, todo, seen, last>>

(* The second access goes where the register points.  The settings without *)
(* an offset ignore it, and an offset beyond a memory hits nothing.        *)
Selected(t) == Slot(Wanted(t)[1], chan_off[1],
                    IF Wanted(t)[1] \in {"func", "input"} THEN 0 ELSE chan_off[2])

Access(t) ==
    /\ pc[t] = "access"
    /\ \/ /\ todo[t][1].value # None
          /\ regs' = [s \in Slots |-> IF s = Selected(t) THEN todo[t][1].value ELSE regs[s]]
          /\ UNCHANGED seen
       \/ /\ todo[t][1].value = None
          /\ seen' = [seen EXCEPT ![t] = @ \cup {<<Wanted(t),
                         IF Selected(t) \in Slots THEN regs[Selected(t)] ELSE 0>>}]
          /\ UNCHANGED regs
    /\ todo' = [todo EXCEPT ![t] = Tail(@)]
    /\ pc' = [pc EXCEPT ![t] = "select"]
    /\ UNCHANGED <<chan_off, command, last>>

Finish(t) ==
    /\ pc[t] = "select" /\ todo[t] = <<>>
    /\ pc' = [pc EXCEPT ![t] = "finished"]
    /\ UNCHANGED <<regs, chan_off, command, todo, seen, last>>

(* An access raises an exception, or the operator interrupts the tool.     *)
CutOff(t) ==
    /\ t \in Running
    /\ pc' = [pc EXCEPT ![t] = "failed"]
    /\ todo' = [todo EXCEPT ![t] = <<>>]
    /\ UNCHANGED <<regs, chan_off, command, seen, last>>

RssNext == \E t \in Tools : \/ Start(t) \/ set_reg_chan_off(t) \/ Access(t)
                            \/ Finish(t) \/ CutOff(t)

RssSpec == RssInit /\ [][RssNext]_rssVars
-------------------------------------------------------------------------------
(* The queues that the command lines name, and the 0 of a reset.           *)
QueuesOf(line) ==
    (UNION {{conf.queue_min} \cup (conf.queue_min .. conf.queue_max) : conf \in line.rss_conf})
      \cup {r.value : r \in line.reta_rst} \cup {e.queue : e \in line.reta_edit}

QueuesNamed == {0} \cup UNION {QueuesOf(line) : line \in Commands}

RssTypeOK ==
    /\ DOMAIN regs = Slots
    /\ \A s \in Slots :
         /\ s[1] = "func" => regs[s] \in {0, 1, 2}
         /\ s[1] = "key"  => regs[s] \in 0 .. WordModulus - 1
         /\ s[1] = "reta" => regs[s] \in QueuesNamed \ {None}
    /\ chan_off \in Nat \X Nat
    /\ command \in [Tools -> Commands]
    /\ pc \in [Tools -> {"waiting", "select", "access", "finished", "failed"}]
    /\ last \in Tools \cup {None}

(* A run that was not cut off and was the last one leaves what was asked   *)
(* for: the edit over the reset over the configuration, the table filled   *)
(* with the queues of the range in turn, and the low words of the key, no  *)
(* matter what earlier runs left behind, finished or not.                  *)
RoundRobin(conf, i) ==
    IF None \in {conf.queue_min, conf.queue_max} THEN 0
    ELSE IF conf.queue_min > conf.queue_max THEN conf.queue_min
    ELSE conf.queue_min + (i % (conf.queue_max - conf.queue_min + 1))

Covers(conf, channel) == conf.ifc \in {All, channel}

RetaAsked(line, channel, i) ==
    IF \E e \in line.reta_edit : e.ifc = channel /\ e.idx = i
    THEN {e.queue : e \in line.reta_edit}
    ELSE IF \E r \in line.reta_rst : r.ifc = channel THEN {r.value : r \in line.reta_rst}
    ELSE {RoundRobin(conf, i) : conf \in {c \in line.rss_conf : Covers(c, channel)}}

(* get_hash_key.                                                           *)
HashKey(channel) ==
    LET sum[n \in 0 .. KeyWords] ==
            IF n = 0 THEN 0
            ELSE sum[n - 1] + regs[Slot("key", channel, n - 1)] * Shift[n - 1]
    IN  sum[KeyWords]

ConfigurationApplied ==
    /\ RssTypeOK
    /\ \A t \in Tools : pc[t] = "finished" /\ last = t =>
         \A ch \in Channels :
           /\ \A i \in 0 .. reta_size - 1 :
                RetaAsked(command[t], ch, i) \subseteq {regs[Slot("reta", ch, i)]}
           /\ \A conf \in command[t].rss_conf : Covers(conf, ch) =>
                /\ HashKey(ch) = conf.hash_key % Shift[KeyWords]
                /\ regs[Slot("func", ch, 0)] = conf.hash_type
                /\ regs[Slot("input", ch, 0)] = conf.input_conf

(* What the dump of a run has printed, as far as it has come.              *)
Shown(t) == {<<read[1], AsPrinted(read[1], read[2])>> : read \in {r \in seen[t] : r[1] \in Printed}}

(* Every setting of every channel that a dump prints is the one that the   *)
(* device holds, whatever was selected before, and none of them is left    *)
(* out.  What a dump does not print are the entries of a last row that is  *)
(* not full (Printed).                                                     *)
DumpTruthful ==
    \A t \in Tools : pc[t] = "finished" /\ last = t /\ Dumps(command[t]) =>
        Shown(t) = {<<s, AsPrinted(s, regs[s])>> : s \in Printed}

===============================================================================
