------------------------------- MODULE MarkSet -------------------------------
(***************************************************************************)
(* The flagging example's record of marks (apps/flow/flagging/set.c): an   *)
(* array of (mark_id, pkt_cnt) that grows by realloc, filled by the burst  *)
(* loop of flagging.c.  malloc and realloc hand out memory with arbitrary  *)
(* contents, and set_add searches all of it, in use or not.                *)
(***************************************************************************)
EXTENDS Integers, Sequences, FiniteSets, SequencesExt

CONSTANTS Marks,          \* what the NIC may report in hash.fdir.hi, a uint32_t
          MarkIdModulus,  \* mark_id is a uint16_t: 2^16 in the code
          PktCntModulus,  \* and so is pkt_cnt
          InitialSize,    \* initial_set_size: 10 in the code
          AddedSpace,     \* added_space: 5 in the code
          BurstSize,      \* burst_size: 64 in the code
          MaxPackets      \* bound on the packets a behaviour receives

ASSUME MarkSetAssumption ==
    /\ Marks \subseteq Nat /\ MaxPackets \in Nat
    /\ {MarkIdModulus, PktCntModulus, InitialSize, AddedSpace, BurstSize} \subseteq Nat \ {0}

VARIABLES mark_stat,    \* the max_size slots
          current_size, \* how many of them are in use
          flag,         \* viewer_stats.flag
          bufs,         \* the packets of the burst that are still to be counted
          heap,         \* what fresh memory contains: "zeroes" or "anything"
          received,     \* packets received so far, against the bound
          counted,      \* history, per mark_id: the packets that set_add accepted,
          arrived,      \*   those that were received,
          dropped       \*   and those of bursts left when the set could not grow

vars == <<mark_stat, current_size, flag, bufs, heap, received, counted, arrived, dropped>>

max_size == Len(mark_stat)

Plain   == -1           \* no RTE_MBUF_F_RX_FDIR: the packet matched no rule
Flagged == -2           \* RTE_MBUF_F_RX_FDIR alone: it has a flag and no mark
Packets == Marks \cup {Plain, Flagged}

MarkId(mark) == mark % MarkIdModulus
MarkIds      == {MarkId(mark) : mark \in Marks} \cup {0}

(* The packets of a burst that have an id.                                 *)
WithId(burst, id) == Cardinality({k \in DOMAIN burst : burst[k] \in Marks /\ MarkId(burst[k]) = id})

(* n slots of fresh memory.  Nothing reads the pkt_cnt of a fresh slot     *)
(* before set_add overwrites it.                                           *)
Fresh(n) == [1 .. n -> [mark_id : IF heap = "zeroes" THEN {0} ELSE MarkIds, pkt_cnt : {0}]]
-------------------------------------------------------------------------------
(* set_create.                                                             *)
Init ==
    /\ heap \in {"zeroes", "anything"}
    /\ mark_stat \in Fresh(InitialSize)
    /\ current_size = 0
    /\ flag = 0
    /\ bufs = <<>>
    /\ received = 0
    /\ counted = [id \in MarkIds |-> 0]
    /\ arrived = [id \in MarkIds |-> 0]
    /\ dropped = [id \in MarkIds |-> 0]

ReceiveBurst ==
    /\ bufs = <<>>
    /\ \E n \in 1 .. BurstSize :
         /\ received + n <= MaxPackets
         /\ bufs' \in [1 .. n -> Packets]
         /\ received' = received + n
    /\ arrived' = [id \in MarkIds |-> arrived[id] + WithId(bufs', id)]
    /\ UNCHANGED <<mark_stat, current_size, flag, heap, counted, dropped>>

CountPlain ==
    /\ bufs # <<>> /\ Head(bufs) = Plain
    /\ bufs' = Tail(bufs)
    /\ UNCHANGED <<mark_stat, current_size, flag, heap, received, counted, arrived, dropped>>

count_flag ==
    /\ bufs # <<>> /\ Head(bufs) = Flagged
    /\ bufs' = Tail(bufs)
    /\ flag' = flag + 1
    /\ UNCHANGED <<mark_stat, current_size, heap, received, counted, arrived, dropped>>

(* The slots set_add takes for a record of the id.                         *)
MatchesUnlessLast(id) == {k \in 1 .. max_size - 1 : mark_stat[k].mark_id = id}
Matches(id) == {k \in 1 .. max_size : mark_stat[k].mark_id = id}

Counting(mark) ==
    /\ bufs # <<>> /\ Head(bufs) = mark
    /\ bufs' = Tail(bufs)
    /\ counted' = [counted EXCEPT ![MarkId(mark)] = @ + 1]
    /\ UNCHANGED <<flag, heap, received, arrived, dropped>>

AddToMatch(mark) ==
    /\ Counting(mark)
    /\ Matches(MarkId(mark)) # {}
    /\ mark_stat' = [mark_stat EXCEPT ![Min(Matches(MarkId(mark)))].pkt_cnt =
                                          (@ + 1) % PktCntModulus]
    /\ UNCHANGED current_size

NewRecordAdds(slots, id) ==
    [slots EXCEPT ![current_size + 1] = [mark_id |-> id,
                                         pkt_cnt |-> (slots[current_size + 1].pkt_cnt + 1)
                                                        % PktCntModulus]]
NewRecordEmpty(slots, id) ==
    [slots EXCEPT ![current_size + 1] = [mark_id |-> id, pkt_cnt |-> 0]]
NewRecord(slots, id) ==
    [slots EXCEPT ![current_size + 1] = [mark_id |-> id, pkt_cnt |-> 1 % PktCntModulus]]

AddRecord(mark) ==
    /\ Counting(mark)
    /\ Matches(MarkId(mark)) = {}
    /\ current_size < max_size
    /\ mark_stat' = NewRecord(mark_stat, MarkId(mark))
    /\ current_size' = current_size + 1

(* set_add_stat_space: realloc keeps the old slots and does not clear the  *)
(* new ones.                                                               *)
GrowOverLast(mark) ==
    /\ Counting(mark)
    /\ Matches(MarkId(mark)) = {}
    /\ current_size = max_size
    /\ \E fresh \in Fresh(AddedSpace) :
         mark_stat' = [mark_stat EXCEPT ![max_size] = [mark_id |-> MarkId(mark), pkt_cnt |-> 1]]
                        \o fresh
    /\ UNCHANGED current_size

AddRecordGrown(mark) ==
    /\ Counting(mark)
    /\ Matches(MarkId(mark)) = {}
    /\ current_size = max_size
    /\ \E fresh \in Fresh(AddedSpace) :
         mark_stat' = NewRecord(mark_stat \o fresh, MarkId(mark))
    /\ current_size' = current_size + 1

(* realloc fails: the packet is not counted and the loop over the burst is *)
(* left, with the packets behind it neither counted nor freed.             *)
GrowFails ==
    /\ bufs # <<>> /\ Head(bufs) \in Marks
    /\ Matches(MarkId(Head(bufs))) = {}
    /\ current_size = max_size
    /\ bufs' = <<>>
    /\ dropped' = [id \in MarkIds |-> dropped[id] + WithId(bufs, id)]
    /\ UNCHANGED <<mark_stat, current_size, flag, heap, received, counted, arrived>>

set_add(mark) == AddToMatch(mark) \/ AddRecord(mark) \/ AddRecordGrown(mark)

Next == \/ ReceiveBurst \/ CountPlain \/ count_flag
        \/ \E mark \in Marks : set_add(mark)
        \/ GrowFails

Spec == Init /\ [][Next]_vars
-------------------------------------------------------------------------------
InUse == 1 .. current_size

TypeOK ==
    /\ mark_stat \in Seq([mark_id : MarkIds, pkt_cnt : 0 .. PktCntModulus - 1])
    /\ current_size \in 0 .. max_size
    /\ flag \in 0 .. MaxPackets
    /\ bufs \in Seq(Packets)
    /\ heap \in {"zeroes", "anything"}
    /\ received \in 0 .. MaxPackets
    /\ counted \in [MarkIds -> 0 .. MaxPackets]
    /\ arrived \in [MarkIds -> Nat] /\ dropped \in [MarkIds -> Nat]

(* print_set names no mark twice, however often the array grew.            *)
DistinctIds ==
    \A j, k \in InUse : j # k => mark_stat[j].mark_id # mark_stat[k].mark_id

(* Whatever the memory held before, a record never claims packets that did *)
(* not arrive.                                                             *)
NeverOvercounts ==
    /\ TypeOK
    /\ \A k \in InUse : mark_stat[k].pkt_cnt <= counted[mark_stat[k].mark_id]

(* When fresh memory happens to be zeroed, every mark but 0 is recorded    *)
(* with the number of its packets that arrived and have had their turn,    *)
(* short of those that a failed growth dropped, and modulo the width of    *)
(* pkt_cnt.  An id 0 finds a slot that is not in use, which nobody prints. *)
(* The total, which set.h:2 promises, it is only below that width.         *)
Recorded(id) ==
    IF \E k \in InUse : mark_stat[k].mark_id = id
    THEN mark_stat[CHOOSE k \in InUse : mark_stat[k].mark_id = id].pkt_cnt
    ELSE 0

TotalsOnZeroedHeap ==
    heap = "zeroes" =>
        \A id \in MarkIds \ {0} :
            Recorded(id) = (arrived[id] - WithId(bufs, id) - dropped[id]) % PktCntModulus

(* A mark keeps its record and its place in what print_set prints.         *)
RecordsKept ==
    [][\A k \in InUse : k <= current_size' /\ mark_stat'[k].mark_id = mark_stat[k].mark_id]_vars

===============================================================================
