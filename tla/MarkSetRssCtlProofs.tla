------------------------- MODULE MarkSetRssCtlProofs -------------------------
(***************************************************************************)
(* Proofs about the two tables that one process at a time works on: the    *)
(* record of marks (MarkSet), for every set of marks, every width of the   *)
(* ids and counters, every initial size and growth, and every content of   *)
(* the memory; and the RSS tables (RssCtl), for every number of channels,  *)
(* every size of the tables, every key and every set of command lines.     *)
(*                                                                         *)
(* MarkSet: a record is made only when no slot at all, in use or not,      *)
(* has its id, so it differs from every record made before.  Whatever else *)
(* set_add does leaves the ids of the slots alone, and growing only        *)
(* appends.  So the packets of an id are counted in one slot from the one  *)
(* that makes its record on; only a slot that is not in use can take some  *)
(* of them away, and in zeroed memory such a slot has the id 0.            *)
(*                                                                         *)
(* RssCtl: what a command line asks for is the last write that it makes to *)
(* a slot, and remains so while the writes before it are made; from then   *)
(* on the slot holds it.  A dump reads only after the last write, so what  *)
(* it has read does not change.                                            *)
(***************************************************************************)
EXTENDS MarkSet, RssCtl, FiniteSetTheorems, FunctionTheorems, WellFoundedInduction, TLAPS

(* A set of numbers has a smallest.                                        *)
LEMMA SmallestNumber ==
    ASSUME NEW S, S \subseteq Nat, S # {}
    PROVE  \E x \in S : \A y \in S : x <= y
<1> DEFINE R == OpToRel(<, Nat)
<1>1. \E x \in S : \A y \in S : ~ (<<y, x>> \in R)
  <2>1. IsWellFoundedOn(R, Nat)
    BY NatLessThanWellFounded
  <2> HIDE DEF R
  <2>2. QED
    BY <2>1, WFMin
<1>2. PICK x \in S : \A y \in S : ~ (<<y, x>> \in R)
  BY <1>1
<1>3. \A y \in S : ~ (y < x)
  BY <1>2 DEF OpToRel
<1>4. QED
  BY <1>3

(* So what holds of 0, and of a number when it holds of the one before,    *)
(* holds of all up to n.                                                   *)
LEMMA UpTo ==
    ASSUME NEW n \in Nat, NEW S, 0 \in S, \A i \in 1 .. n : i - 1 \in S => i \in S
    PROVE  \A i \in 0 .. n : i \in S
<1> DEFINE Bad == {i \in 0 .. n : i \notin S}
<1>1. ASSUME Bad # {}
      PROVE  FALSE
  <2>1. PICK i \in Bad : \A j \in Bad : i <= j
    <3>1. Bad \subseteq Nat
      OBVIOUS
    <3> HIDE DEF Bad
    <3>2. QED
      BY <1>1, <3>1, SmallestNumber
  <2>2. i \in 1 .. n /\ i - 1 \in 0 .. n /\ ~ (i <= i - 1)
    OBVIOUS
  <2>3. i - 1 \in S
    BY <2>1, <2>2
  <2>4. QED
    BY <2>2, <2>3
<1>2. QED
  BY <1>1
-------------------------------------------------------------------------------
(* Quotient and remainder, and that they are the only ones.                *)
LEMMA Division ==
    ASSUME NEW a \in Nat, NEW n \in Nat \ {0}
    PROVE  a \div n \in Nat /\ a % n \in 0 .. n - 1 /\ a = (a \div n) * n + (a % n)
  OBVIOUS

(* A multiple of n other than 0 is at least n away from 0.                 *)
LEMMA ProductGap ==
    ASSUME NEW x \in Int, x # 0, NEW n \in Nat
    PROVE  x * n >= n \/ x * n <= 0 - n
<1>1. CASE x >= 1
  <2>1. x * n = n + (x - 1) * n /\ (x - 1) * n \in Int
    OBVIOUS
  <2>2. (x - 1) * n >= 0
    <3>1. x - 1 \in Nat
      BY <1>1
    <3>2. QED
      BY <3>1
  <2>3. QED
    BY <2>1, <2>2
<1>2. CASE x <= 0 - 1
  <2> DEFINE y == 0 - x
  <2>1. y \in Int /\ y >= 1 /\ x = 0 - y
    BY <1>2
  <2> HIDE DEF y
  <2>2. y - 1 \in Nat
    BY <2>1
  <2>3. (y - 1) * n >= 0 /\ (y - 1) * n \in Int
    BY <2>2
  <2>4. x * n = 0 - n - (y - 1) * n
    BY <2>1
  <2>5. x * n \in Int
    OBVIOUS
  <2>6. QED
    BY <2>3, <2>4, <2>5
<1>3. QED
  BY <1>1, <1>2

LEMMA Difference ==
    ASSUME NEW x \in Int, NEW y \in Int, NEW n \in Int
    PROVE  (x - y) * n = x * n - y * n
  OBVIOUS

(* A number has one quotient and one remainder.                            *)
LEMMA Divided ==
    ASSUME NEW n \in Nat \ {0}, NEW a \in Nat, NEW q \in Int, NEW r \in 0 .. n - 1,
           a = q * n + r
    PROVE  a \div n = q /\ a % n = r
<1> DEFINE d == a \div n
           m == a % n
<1>1. d \in Nat /\ m \in 0 .. n - 1 /\ a = d * n + m
  BY Division, Zenon
<1> HIDE DEF d, m
<1>2. (d - q) * n = r - m
  <2>1. (d - q) * n = d * n - q * n
    <3>1. d \in Int /\ q \in Int /\ n \in Int
      BY <1>1
    <3>2. QED
      BY <3>1, Difference, Zenon
  <2>2. d * n \in Int /\ q * n \in Int
    BY <1>1
  <2>3. QED
    BY <1>1, <2>1, <2>2
<1>3. d - q = 0
  <2>1. CASE d - q # 0
    <3>1. (d - q) * n >= n \/ (d - q) * n <= 0 - n
      BY <1>1, <2>1, ProductGap
    <3>2. QED
      BY <1>1, <1>2, <3>1
  <2>2. QED
    BY <2>1
<1>4. d = q /\ m = r
  BY <1>1, <1>2, <1>3
<1>5. QED
  BY <1>4 DEF d, m

(* Counting modulo n.                                                      *)
LEMMA NextRemainder ==
    ASSUME NEW n \in Nat \ {0}, NEW a \in Nat
    PROVE  (a + 1) % n = IF (a % n) + 1 = n THEN 0 ELSE (a % n) + 1
<1> DEFINE d == a \div n
           m == a % n
<1>1. d \in Nat /\ m \in 0 .. n - 1 /\ a = d * n + m
  BY Division
<1> HIDE DEF d, m
<1>2. d * n \in Int /\ (d + 1) * n \in Int /\ (d + 1) * n = d * n + n
  BY <1>1
<1>3. CASE m + 1 = n
  <2>1. a + 1 = (d + 1) * n + 0
    BY <1>1, <1>2, <1>3
  <2>2. (a + 1) % n = 0
    BY <1>1, <2>1, Divided
  <2>3. QED
    BY <1>3, <2>2 DEF m
<1>4. CASE m + 1 # n
  <2> DEFINE b == a + 1
             y == m + 1
  <2>1. b \in Nat /\ y \in 0 .. n - 1 /\ b = d * n + y
    BY <1>1, <1>2, <1>4
  <2> HIDE DEF b, y
  <2>2. b % n = y
    BY <1>1, <2>1, Divided
  <2>3. QED
    BY <1>4, <2>2 DEF m, b, y
<1>5. QED
  BY <1>3, <1>4
-------------------------------------------------------------------------------
(* A slot of the record of marks, as the widths of its fields allow it.    *)
MarkSlot == [mark_id : MarkIds, pkt_cnt : 0 .. PktCntModulus - 1]

(* A packet was counted at most once, and those in bufs not yet.           *)
Bounded ==
    /\ flag + Len(bufs) <= received
    /\ \A id \in MarkIds : counted[id] + Len(bufs) <= received

(* What arrived with an id is counted, dropped, or waits in bufs.          *)
Accounted == \A id \in MarkIds : arrived[id] = counted[id] + dropped[id] + WithId(bufs, id)

TypeInv == TypeOK /\ Bounded /\ Accounted

IInv == TypeInv /\ DistinctIds

(* Taking the first packet off a burst takes it off those with its id.     *)
HasId(burst, id) == {k \in DOMAIN burst : burst[k] \in Marks /\ MarkId(burst[k]) = id}

LEMMA WithIdCount ==
    ASSUME NEW burst \in Seq(Packets), NEW id
    PROVE  /\ WithId(burst, id) = Cardinality(HasId(burst, id))
           /\ IsFiniteSet(HasId(burst, id)) /\ WithId(burst, id) \in Nat
<1>1. WithId(burst, id) = Cardinality(HasId(burst, id))
  BY DEF WithId, HasId
<1>2. Len(burst) \in Nat /\ HasId(burst, id) \subseteq 1 .. Len(burst)
  BY DEF HasId
<1>3. IsFiniteSet(1 .. Len(burst))
  BY <1>2, FS_Interval
<1>4. IsFiniteSet(HasId(burst, id))
  BY <1>2, <1>3, FS_Subset
<1>5. QED
  BY <1>1, <1>4, FS_CardinalityType

LEMMA WithIdTail ==
    ASSUME NEW burst \in Seq(Packets), burst # <<>>, NEW id
    PROVE  WithId(Tail(burst), id) =
             IF Head(burst) \in Marks /\ MarkId(Head(burst)) = id
             THEN WithId(burst, id) - 1 ELSE WithId(burst, id)
<1> DEFINE later == HasId(burst, id) \ {1}
           tail == HasId(Tail(burst), id)
           f == [k \in tail |-> k + 1]
<1>1. /\ Len(burst) \in Nat \ {0} /\ Tail(burst) \in Seq(Packets)
      /\ Len(Tail(burst)) = Len(burst) - 1 /\ Head(burst) = burst[1]
      /\ \A k \in 1 .. Len(burst) - 1 : Tail(burst)[k] = burst[k + 1]
  OBVIOUS
<1>2. tail \subseteq 1 .. Len(burst) - 1 /\ later \subseteq 2 .. Len(burst)
  BY <1>1 DEF HasId
<1>3. \A k \in 1 .. Len(burst) - 1 : k \in tail <=> k + 1 \in later
  BY <1>1 DEF HasId
<1> HIDE DEF later, tail
<1>4. f \in Bijection(tail, later)
  <2>1. f \in [tail -> later]
    BY <1>1, <1>2, <1>3
  <2>2. \A a, b \in tail : f[a] = f[b] => a = b
    BY <1>1, <1>2
  <2>3. \A b \in later : \E a \in tail : f[a] = b
    <3>1. ASSUME NEW b \in later
          PROVE  b - 1 \in tail /\ f[b - 1] = b
      BY <1>1, <1>2, <1>3
    <3>2. QED
      BY <3>1
  <2> HIDE DEF f
  <2>4. QED
    BY <2>1, <2>2, <2>3, Fun_IsBij
<1>5. /\ IsFiniteSet(tail) /\ Cardinality(tail) = WithId(Tail(burst), id)
      /\ IsFiniteSet(HasId(burst, id)) /\ Cardinality(HasId(burst, id)) = WithId(burst, id)
      /\ WithId(burst, id) \in Nat
  BY <1>1, WithIdCount DEF tail
<1>6. Cardinality(tail) = Cardinality(later)
  <2>1. ExistsBijection(tail, later)
    BY <1>4 DEF ExistsBijection
  <2>2. QED
    BY <1>5, <2>1, FS_Bijection
<1>7. Cardinality(later) = IF 1 \in HasId(burst, id) THEN WithId(burst, id) - 1 ELSE WithId(burst, id)
  BY <1>5, FS_RemoveElement DEF later
<1>8. 1 \in HasId(burst, id) <=> Head(burst) \in Marks /\ MarkId(Head(burst)) = id
  BY <1>1 DEF HasId
<1>9. QED
  BY <1>5, <1>6, <1>7, <1>8

(* Fresh memory is a sequence of slots.                                    *)
LEMMA FreshSlots ==
    ASSUME NEW n \in Nat, NEW fresh \in Fresh(n)
    PROVE  /\ fresh \in Seq(MarkSlot) /\ Len(fresh) = n
           /\ heap = "zeroes" => \A k \in 1 .. n : fresh[k].mark_id = 0
<1>1. PktCntModulus \in Nat \ {0}
  BY MarkSetAssumption
<1>2. {0} \subseteq MarkIds /\ {0} \subseteq 0 .. PktCntModulus - 1
  BY <1>1 DEF MarkIds
<1>3. fresh \in [1 .. n -> MarkSlot]
  BY <1>2 DEF Fresh, MarkSlot
<1>4. heap = "zeroes" => fresh \in [1 .. n -> [mark_id : {0}, pkt_cnt : {0}]]
  BY DEF Fresh
<1>5. QED
  BY <1>3, <1>4

(* A new record overwrites the first slot that is not in use, and only it. *)
LEMMA NewRecordSlots ==
    ASSUME NEW slots \in Seq(MarkSlot), NEW mark \in Marks, current_size \in Nat,
           current_size < Len(slots)
    PROVE  LET new == NewRecord(slots, MarkId(mark)) IN
           /\ new \in Seq(MarkSlot) /\ Len(new) = Len(slots)
           /\ new[current_size + 1].mark_id = MarkId(mark)
           /\ new[current_size + 1].pkt_cnt = 1 % PktCntModulus
           /\ \A k \in 1 .. Len(slots) : k # current_size + 1 => new[k] = slots[k]
<1> DEFINE r == [mark_id |-> MarkId(mark), pkt_cnt |-> (1 % PktCntModulus)]
<1>1. r \in MarkSlot
  <2>1. PktCntModulus \in Nat \ {0}
    BY MarkSetAssumption
  <2>2. (1 % PktCntModulus) \in 0 .. PktCntModulus - 1
    BY <2>1
  <2>3. MarkId(mark) \in MarkIds
    BY DEF MarkIds
  <2>4. QED
    BY <2>2, <2>3 DEF MarkSlot
<1>2. NewRecord(slots, MarkId(mark)) = [slots EXCEPT ![current_size + 1] = r]
  BY DEF NewRecord
<1> HIDE DEF r
<1>3. current_size + 1 \in 1 .. Len(slots)
  OBVIOUS
<1>4. /\ [slots EXCEPT ![current_size + 1] = r] \in Seq(MarkSlot)
      /\ Len([slots EXCEPT ![current_size + 1] = r]) = Len(slots)
  BY <1>1, <1>3
<1>5. [slots EXCEPT ![current_size + 1] = r][current_size + 1] = r
  BY <1>3
<1>6. \A k \in 1 .. Len(slots) : k # current_size + 1 =>
        [slots EXCEPT ![current_size + 1] = r][k] = slots[k]
  BY <1>3
<1>7. r.mark_id = MarkId(mark) /\ r.pkt_cnt = (1 % PktCntModulus)
  BY DEF r
<1>8. QED
  BY <1>2, <1>4, <1>5, <1>6, <1>7

(* Growing keeps the slots that are there.                                 *)
LEMMA Grown ==
    ASSUME mark_stat \in Seq(MarkSlot), NEW fresh \in Fresh(AddedSpace)
    PROVE  /\ mark_stat \o fresh \in Seq(MarkSlot)
           /\ Len(mark_stat \o fresh) > max_size
           /\ \A k \in 1 .. max_size : (mark_stat \o fresh)[k] = mark_stat[k]
           /\ \A k \in max_size + 1 .. Len(mark_stat \o fresh) :
                heap = "zeroes" => (mark_stat \o fresh)[k].mark_id = 0
<1>1. AddedSpace \in Nat \ {0}
  BY MarkSetAssumption
<1>2. /\ fresh \in Seq(MarkSlot) /\ Len(fresh) = AddedSpace
      /\ heap = "zeroes" => \A k \in 1 .. AddedSpace : fresh[k].mark_id = 0
  BY <1>1, FreshSlots
<1>3. QED
  BY <1>1, <1>2 DEF max_size
-------------------------------------------------------------------------------
(* The slot that the search of set_add stops at is one that has the id.    *)
LEMMA Smallest ==
    ASSUME NEW S, S \subseteq Nat, S # {}
    PROVE  Min(S) \in S
<1>1. \E x \in S : \A y \in S : x <= y
  BY SmallestNumber
<1>2. QED
  BY <1>1 DEF Min

(* A packet whose id some slot has: that slot's counter, and nothing else. *)
Found(id) ==
    /\ mark_stat' \in Seq(MarkSlot) /\ Len(mark_stat') = Len(mark_stat)
    /\ current_size' = current_size
    /\ \E m \in 1 .. Len(mark_stat) :
         /\ mark_stat[m].mark_id = id
         /\ mark_stat'[m].mark_id = id
         /\ mark_stat'[m].pkt_cnt = (mark_stat[m].pkt_cnt + 1) % PktCntModulus
         /\ \A k \in 1 .. Len(mark_stat) : k # m => mark_stat'[k] = mark_stat[k]

(* A packet whose id no slot has: a record of its own behind those in use, *)
(* and what is behind that comes from before or from the heap.             *)
Made(id) ==
    /\ mark_stat' \in Seq(MarkSlot)
    /\ current_size' = current_size + 1 /\ current_size' <= Len(mark_stat')
    /\ \A k \in 1 .. Len(mark_stat) : mark_stat[k].mark_id # id
    /\ mark_stat'[current_size + 1].mark_id = id
    /\ mark_stat'[current_size + 1].pkt_cnt = 1 % PktCntModulus
    /\ \A k \in InUse : mark_stat'[k] = mark_stat[k]
    /\ \A k \in current_size + 2 .. Len(mark_stat') :
         \/ k \in 1 .. Len(mark_stat) /\ mark_stat'[k] = mark_stat[k]
         \/ heap = "zeroes" => mark_stat'[k].mark_id = 0

LEMMA FoundStep ==
    ASSUME TypeOK, NEW mark \in Marks, AddToMatch(mark)
    PROVE  Found(MarkId(mark))
<1> DEFINE m == Min(Matches(MarkId(mark)))
<1>1. mark_stat \in Seq(MarkSlot) /\ Len(mark_stat) \in Nat
  BY DEF TypeOK, MarkSlot
<1>2. m \in 1 .. Len(mark_stat) /\ mark_stat[m].mark_id = MarkId(mark)
  <2>1. Matches(MarkId(mark)) \subseteq Nat /\ Matches(MarkId(mark)) # {}
    BY <1>1 DEF Matches, max_size, AddToMatch
  <2>2. m \in Matches(MarkId(mark))
    BY <2>1, Smallest
  <2>3. QED
    BY <2>2 DEF Matches, max_size
<1>3. /\ mark_stat' = [mark_stat EXCEPT ![m].pkt_cnt = (@ + 1) % PktCntModulus]
      /\ current_size' = current_size
  BY DEF AddToMatch
<1> HIDE DEF m
<1>4. mark_stat[m] \in MarkSlot
  BY <1>1, <1>2
<1> DEFINE c == (mark_stat[m].pkt_cnt + 1) % PktCntModulus
           r == [mark_stat[m] EXCEPT !.pkt_cnt = c]
<1>5. mark_stat' = [mark_stat EXCEPT ![m] = r]
  BY <1>3
<1>6. r \in MarkSlot /\ r.mark_id = MarkId(mark) /\ r.pkt_cnt = c
  <2>1. c \in 0 .. PktCntModulus - 1
    BY <1>4, MarkSetAssumption DEF MarkSlot
  <2> HIDE DEF c
  <2>2. r \in MarkSlot /\ r.mark_id = mark_stat[m].mark_id /\ r.pkt_cnt = c
    BY <1>4, <2>1 DEF MarkSlot
  <2>3. QED
    BY <1>2, <2>2
<1> HIDE DEF r
<1>7. /\ mark_stat'[m] = r /\ Len(mark_stat') = Len(mark_stat) /\ mark_stat' \in Seq(MarkSlot)
      /\ \A k \in 1 .. Len(mark_stat) : k # m => mark_stat'[k] = mark_stat[k]
  BY <1>1, <1>2, <1>5, <1>6
<1>8. QED
  BY <1>2, <1>3, <1>6, <1>7 DEF Found

LEMMA MadeStep ==
    ASSUME TypeOK, NEW mark \in Marks, AddRecord(mark) \/ AddRecordGrown(mark)
    PROVE  Made(MarkId(mark))
<1>1. /\ mark_stat \in Seq(MarkSlot) /\ Len(mark_stat) \in Nat
      /\ current_size \in Nat /\ current_size <= Len(mark_stat)
  BY DEF TypeOK, MarkSlot, max_size
<1>2. \A k \in 1 .. Len(mark_stat) : mark_stat[k].mark_id # MarkId(mark)
  BY DEF AddRecord, AddRecordGrown, Matches, max_size
<1>3. PICK slots \in Seq(MarkSlot) :
         /\ current_size < Len(slots)
         /\ \A k \in InUse : slots[k] = mark_stat[k]
         /\ \A k \in current_size + 1 .. Len(slots) :
              \/ k \in 1 .. Len(mark_stat) /\ slots[k] = mark_stat[k]
              \/ heap = "zeroes" => slots[k].mark_id = 0
         /\ mark_stat' = NewRecord(slots, MarkId(mark))
         /\ current_size' = current_size + 1
  <2>1. CASE AddRecord(mark)
    BY <1>1, <2>1 DEF AddRecord, max_size
  <2>2. CASE AddRecordGrown(mark)
    <3>1. PICK fresh \in Fresh(AddedSpace) :
             mark_stat' = NewRecord(mark_stat \o fresh, MarkId(mark))
      BY <2>2 DEF AddRecordGrown
    <3> DEFINE grown == mark_stat \o fresh
    <3>2. /\ grown \in Seq(MarkSlot) /\ Len(grown) > Len(mark_stat) /\ Len(grown) \in Nat
          /\ \A k \in 1 .. Len(mark_stat) : grown[k] = mark_stat[k]
          /\ \A k \in Len(mark_stat) + 1 .. Len(grown) :
               heap = "zeroes" => grown[k].mark_id = 0
      BY <1>1, Grown DEF max_size
    <3>3. current_size' = current_size + 1 /\ current_size = Len(mark_stat)
      BY <2>2 DEF AddRecordGrown, max_size
    <3>4. mark_stat' = NewRecord(grown, MarkId(mark))
      BY <3>1
    <3> HIDE DEF grown
    <3>5. \A k \in InUse : grown[k] = mark_stat[k]
      BY <3>2, <3>3 DEF InUse
    <3>6. QED
      BY <1>1, <3>2, <3>3, <3>4, <3>5
  <2>3. QED
    BY <2>1, <2>2
<1> DEFINE new == NewRecord(slots, MarkId(mark))
<1>4. /\ new \in Seq(MarkSlot) /\ Len(new) = Len(slots)
      /\ new[current_size + 1].mark_id = MarkId(mark)
      /\ new[current_size + 1].pkt_cnt = 1 % PktCntModulus
      /\ \A k \in 1 .. Len(slots) : k # current_size + 1 => new[k] = slots[k]
  BY <1>1, <1>3, NewRecordSlots
<1>5. mark_stat' = new /\ Len(slots) \in Nat
  BY <1>3
<1> HIDE DEF new
<1>6. \A k \in InUse : mark_stat'[k] = mark_stat[k]
  <2>1. \A k \in InUse : k \in 1 .. Len(slots) /\ k # current_size + 1
    BY <1>1, <1>3, <1>5 DEF InUse
  <2>2. QED
    BY <1>3, <1>4, <1>5, <2>1
<1>7. ASSUME NEW k \in current_size + 2 .. Len(mark_stat')
      PROVE  \/ k \in 1 .. Len(mark_stat) /\ mark_stat'[k] = mark_stat[k]
             \/ heap = "zeroes" => mark_stat'[k].mark_id = 0
  <2>1. k \in current_size + 1 .. Len(slots) /\ k # current_size + 1 /\ k \in 1 .. Len(slots)
    BY <1>1, <1>4, <1>5
  <2>2. QED
    BY <1>3, <1>4, <1>5, <2>1
<1>8. mark_stat' \in Seq(MarkSlot) /\ current_size + 1 <= Len(mark_stat')
  BY <1>1, <1>3, <1>4, <1>5
<1>9. QED
  BY <1>2, <1>3, <1>4, <1>5, <1>6, <1>7, <1>8 DEF Made

(* Either way the slots in use keep their ids, and one more may be in use, *)
(* with an id that no slot had.                                            *)
SlotsStep ==
    /\ mark_stat' \in Seq(MarkSlot)
    /\ \A k \in InUse : mark_stat'[k].mark_id = mark_stat[k].mark_id
    /\ \/ current_size' = current_size /\ Len(mark_stat') = Len(mark_stat)
       \/ /\ current_size' = current_size + 1 /\ current_size' <= Len(mark_stat')
          /\ \A k \in InUse : mark_stat'[current_size + 1].mark_id # mark_stat[k].mark_id

LEMMA AddSlots ==
    ASSUME TypeOK, NEW mark \in Marks, set_add(mark)
    PROVE  SlotsStep
<1>1. \A k \in InUse : k \in 1 .. Len(mark_stat)
  BY DEF TypeOK, InUse, max_size
<1>2. Found(MarkId(mark)) \/ Made(MarkId(mark))
  BY FoundStep, MadeStep DEF set_add
<1>3. CASE Found(MarkId(mark))
  BY <1>1, <1>3 DEF Found, SlotsStep
<1>4. CASE Made(MarkId(mark))
  BY <1>1, <1>4 DEF Made, SlotsStep
<1>5. QED
  BY <1>2, <1>3, <1>4
-------------------------------------------------------------------------------
(* Init gives every variable its type.                                     *)
LEMMA InitType == Init => TypeInv
<1> SUFFICES ASSUME Init PROVE TypeInv
  OBVIOUS
<1>1. mark_stat \in Seq(MarkSlot) /\ Len(mark_stat) = InitialSize
  BY FreshSlots, MarkSetAssumption DEF Init
<1>2. Accounted
  <2>1. \A id \in MarkIds : WithId(<<>>, id) = 0
    <3>1. \A id : HasId(<<>>, id) = {}
      BY DEF HasId
    <3>2. QED
      BY <3>1, FS_EmptySet DEF WithId, HasId
  <2>2. QED
    BY <2>1 DEF Init, Accounted
<1>3. QED
  BY <1>1, <1>2, MarkSetAssumption DEF Init, TypeInv, TypeOK, Bounded, MarkSlot, max_size

(* Every step of the burst loop keeps the types, and does to the slots     *)
(* what SlotsStep says.                                                    *)
LEMMA Step == TypeInv /\ [Next]_vars => TypeInv' /\ SlotsStep
<1> SUFFICES ASSUME TypeInv, [Next]_vars PROVE TypeInv' /\ SlotsStep
  OBVIOUS
<1>0. /\ mark_stat \in Seq(MarkSlot) /\ Len(mark_stat) \in Nat /\ current_size \in Nat
      /\ current_size <= Len(mark_stat)
      /\ bufs \in Seq(Packets) /\ Len(bufs) \in Nat /\ flag \in Nat /\ received \in Nat
      /\ MaxPackets \in Nat
  BY MarkSetAssumption DEF TypeInv, TypeOK, MarkSlot, max_size
<1>1. ASSUME mark_stat' = mark_stat, current_size' = current_size
      PROVE  SlotsStep
  BY <1>0, <1>1 DEF SlotsStep
<1>2. ASSUME SlotsStep, heap' = heap,
             bufs' \in Seq(Packets), received' \in 0 .. MaxPackets, flag' \in Nat,
             flag' + Len(bufs') <= received',
             counted' \in [MarkIds -> Nat],
             arrived' \in [MarkIds -> Nat], dropped' \in [MarkIds -> Nat], Accounted',
             \A id \in MarkIds : counted'[id] + Len(bufs') <= received'
      PROVE  TypeInv' /\ SlotsStep
  <2>1. mark_stat' \in Seq(MarkSlot) /\ current_size' \in 0 .. Len(mark_stat')
    BY <1>0, <1>2 DEF SlotsStep
  <2>2. Len(bufs') \in Nat
    BY <1>2
  <2>3. flag' \in 0 .. MaxPackets
    BY <1>0, <1>2, <2>2
  <2>4. counted' \in [MarkIds -> 0 .. MaxPackets]
    <3>1. \A id \in MarkIds : counted'[id] \in 0 .. MaxPackets
      BY <1>0, <1>2, <2>2
    <3>2. QED
      BY <1>2, <3>1
  <2>5. heap' \in {"zeroes", "anything"}
    BY <1>2 DEF TypeInv, TypeOK
  <2>6. TypeOK'
    BY <1>2, <2>1, <2>3, <2>4, <2>5 DEF TypeOK, MarkSlot, max_size
  <2>7. QED
    BY <1>2, <2>6 DEF TypeInv, Bounded
<1>3. counted \in [MarkIds -> Nat] /\ \A id \in MarkIds : counted[id] + Len(bufs) <= received
  BY DEF TypeInv, TypeOK, Bounded
<1>13. /\ arrived \in [MarkIds -> Nat] /\ dropped \in [MarkIds -> Nat] /\ Accounted
       /\ \A id \in MarkIds : WithId(bufs, id) \in Nat
  BY <1>0, WithIdCount DEF TypeInv, TypeOK
<1>4. flag + Len(bufs) <= received /\ received \in 0 .. MaxPackets
  BY DEF TypeInv, TypeOK, Bounded
<1>5. bufs # <<>> => Tail(bufs) \in Seq(Packets) /\ Len(Tail(bufs)) = Len(bufs) - 1
  BY <1>0
<1>14. \A id \in MarkIds : WithId(<<>>, id) = 0
  <2>1. \A id : HasId(<<>>, id) = {}
    BY DEF HasId
  <2>2. QED
    BY <2>1, FS_EmptySet DEF WithId, HasId
(* A packet without a mark changes nothing in the accounts.                *)
<1>15. ASSUME bufs # <<>>, Head(bufs) \notin Marks, bufs' = Tail(bufs),
              UNCHANGED <<counted, arrived, dropped>>
       PROVE  Accounted'
  <2>1. \A id \in MarkIds : WithId(bufs', id) = WithId(bufs, id)
    BY <1>0, <1>15, WithIdTail
  <2>2. QED
    BY <1>13, <1>15, <2>1 DEF Accounted
<1>16. Plain \notin Marks /\ Flagged \notin Marks
  BY MarkSetAssumption DEF Plain, Flagged
<1>6. CASE ReceiveBurst
  <2>1. PICK n \in 1 .. BurstSize : /\ received + n <= MaxPackets
                                    /\ bufs' \in [1 .. n -> Packets]
                                    /\ received' = received + n
                                    /\ arrived' = [id \in MarkIds |-> arrived[id] + WithId(bufs', id)]
    BY <1>6 DEF ReceiveBurst
  <2>2. n \in Nat
    BY MarkSetAssumption
  <2>3. bufs' \in Seq(Packets) /\ Len(bufs') = n /\ Len(bufs) = 0
    BY <1>6, <2>1, <2>2 DEF ReceiveBurst
  <2>4. SlotsStep /\ heap' = heap /\ flag' = flag /\ counted' = counted
    BY <1>1, <1>6 DEF ReceiveBurst
  <2>5. \A id \in MarkIds : counted'[id] + Len(bufs') <= received'
    BY <1>0, <1>3, <2>1, <2>2, <2>3, <2>4
  <2>6. received' \in 0 .. MaxPackets /\ flag' + Len(bufs') <= received'
    BY <1>0, <1>4, <2>1, <2>2, <2>3, <2>4
  <2>7. \A id \in MarkIds : WithId(bufs', id) \in Nat /\ WithId(bufs, id) = 0
    BY <1>6, <1>14, <2>3, WithIdCount DEF ReceiveBurst
  <2>8. arrived' \in [MarkIds -> Nat] /\ dropped' \in [MarkIds -> Nat]
    BY <1>6, <1>13, <2>1, <2>7 DEF ReceiveBurst
  <2>9. Accounted'
    BY <1>3, <1>6, <1>13, <2>1, <2>7 DEF Accounted, ReceiveBurst
  <2>10. QED
    BY <1>0, <1>2, <1>3, <2>3, <2>4, <2>5, <2>6, <2>8, <2>9
<1>7. CASE CountPlain
  <2>1. Accounted' /\ arrived' = arrived /\ dropped' = dropped
    BY <1>7, <1>15, <1>16 DEF CountPlain
  <2>2. QED
    BY <1>0, <1>1, <1>2, <1>3, <1>4, <1>5, <1>7, <1>13, <2>1 DEF CountPlain
<1>8. CASE count_flag
  <2>1. Accounted' /\ arrived' = arrived /\ dropped' = dropped
    BY <1>8, <1>15, <1>16 DEF count_flag
  <2>2. QED
    BY <1>0, <1>1, <1>2, <1>3, <1>4, <1>5, <1>8, <1>13, <2>1 DEF count_flag
<1>9. ASSUME NEW mark \in Marks, set_add(mark)
      PROVE  TypeInv' /\ SlotsStep
  <2>1. SlotsStep
    BY <1>9, AddSlots DEF TypeInv
  <2>2. Counting(mark)
    BY <1>9 DEF set_add, AddToMatch, AddRecord, AddRecordGrown
  <2>3. /\ bufs # <<>> /\ bufs' = Tail(bufs) /\ heap' = heap /\ flag' = flag
        /\ received' = received /\ counted' = [counted EXCEPT ![MarkId(mark)] = @ + 1]
        /\ arrived' = arrived /\ dropped' = dropped /\ Head(bufs) = mark
    BY <2>2 DEF Counting
  <2>4. counted' \in [MarkIds -> Nat]
    <3>1. MarkId(mark) \in MarkIds
      BY DEF MarkIds
    <3>2. counted[MarkId(mark)] + 1 \in Nat
      BY <1>3, <3>1
    <3>3. QED
      BY <1>3, <2>3, <3>2
  <2>5. \A other \in MarkIds : counted'[other] + Len(bufs') <= received'
    <3>1. ASSUME NEW other \in MarkIds
          PROVE  counted'[other] + Len(bufs') <= received'
      <4>1. counted[other] \in Nat /\ counted[other] + Len(bufs) <= received
        BY <1>3
      <4>2. counted'[other] = counted[other] \/ counted'[other] = counted[other] + 1
        BY <1>3, <2>3
      <4>3. QED
        BY <1>0, <1>5, <2>3, <4>1, <4>2
    <3>2. QED
      BY <3>1
  <2>6. Accounted'
    <3>1. \A id \in MarkIds : WithId(bufs', id) = IF MarkId(mark) = id THEN WithId(bufs, id) - 1
                                                                     ELSE WithId(bufs, id)
      BY <1>0, <2>3, WithIdTail
    <3>2. \A id \in MarkIds : counted'[id] = IF MarkId(mark) = id THEN counted[id] + 1 ELSE counted[id]
      BY <1>3, <2>3
    <3>3. QED
      BY <1>3, <1>13, <2>3, <3>1, <3>2 DEF Accounted
  <2>7. QED
    BY <1>0, <1>2, <1>4, <1>5, <1>13, <2>1, <2>3, <2>4, <2>5, <2>6
<1>10. CASE GrowFails
  <2>1. Len(bufs') = 0 /\ bufs' \in Seq(Packets)
    BY <1>10 DEF GrowFails
  <2>2. SlotsStep /\ heap' = heap /\ flag' = flag /\ received' = received /\ counted' = counted
    BY <1>1, <1>10 DEF GrowFails
  <2>3. arrived' = arrived /\ dropped' = [id \in MarkIds |-> dropped[id] + WithId(bufs, id)]
    BY <1>10 DEF GrowFails
  <2>4. dropped' \in [MarkIds -> Nat]
    BY <1>13, <2>3
  <2>5. \A id \in MarkIds : WithId(bufs', id) = 0
    BY <1>10, <1>14 DEF GrowFails
  <2>6. Accounted'
    BY <1>3, <1>13, <2>2, <2>3, <2>5 DEF Accounted
  <2>7. QED
    BY <1>0, <1>2, <1>3, <1>4, <1>13, <2>1, <2>2, <2>3, <2>4, <2>6
<1>11. CASE UNCHANGED vars
  <2>1. Accounted'
    BY <1>11, <1>13 DEF Accounted, WithId, vars
  <2>2. QED
    BY <1>0, <1>1, <1>2, <1>3, <1>4, <1>11, <1>13, <2>1 DEF vars
<1>12. QED
  BY <1>6, <1>7, <1>8, <1>9, <1>10, <1>11 DEF Next

(* The slots, ids and counters stay within what their widths allow.        *)
THEOREM TypeCorrect == Spec => []TypeOK
<1>1. TypeInv /\ [Next]_vars => TypeInv'
  BY Step
<1>2. TypeInv => TypeOK
  BY DEF TypeInv
<1>3. QED
  BY <1>1, <1>2, InitType, PTL DEF Spec

(* The inductive invariant: types, and no id in two records.               *)
LEMMA Inductive == (Init => IInv) /\ (IInv /\ [Next]_vars => IInv')
<1>1. Init => IInv
  BY InitType DEF IInv, DistinctIds, InUse, Init
<1>2. IInv /\ [Next]_vars => IInv'
  <2> SUFFICES ASSUME IInv, [Next]_vars PROVE IInv'
    OBVIOUS
  <2>1. TypeInv' /\ SlotsStep
    BY Step DEF IInv
  <2>2. current_size \in Nat
    BY DEF IInv, TypeInv, TypeOK
  <2>3. ASSUME NEW j \in InUse', NEW k \in InUse', j # k
        PROVE  mark_stat'[j].mark_id # mark_stat'[k].mark_id
    <3>1. \A n \in InUse' : n \in InUse \/ (current_size' = current_size + 1 /\ n = current_size + 1)
      BY <2>1, <2>2 DEF SlotsStep, InUse
    <3>2. CASE j \in InUse /\ k \in InUse
      BY <2>1, <2>3, <3>2 DEF IInv, DistinctIds, SlotsStep
    <3>3. CASE ~ (j \in InUse /\ k \in InUse)
      <4>1. current_size' # current_size
        BY <2>2, <3>1, <3>3
      <4>2. \A n \in InUse : /\ mark_stat'[n].mark_id = mark_stat[n].mark_id
                             /\ mark_stat'[current_size + 1].mark_id # mark_stat[n].mark_id
        BY <2>1, <4>1 DEF SlotsStep
      <4>3. QED
        BY <2>3, <3>1, <3>3, <4>2
    <3>4. QED
      BY <3>2, <3>3
  <2>4. DistinctIds'
    BY <2>3 DEF DistinctIds
  <2>5. QED
    BY <2>1, <2>4 DEF IInv
<1>3. QED
  BY <1>1, <1>2

(* The inductive invariant: the types, the bounds on the true counts, and  *)
(* no id twice among the records.                                          *)
THEOREM Invariance == Spec => []IInv
  BY Inductive, PTL DEF Spec

(* print_set names no mark twice.                                          *)
THEOREM Distinct == Spec => []DistinctIds
<1>1. IInv => DistinctIds
  BY DEF IInv
<1>2. QED
  BY <1>1, Invariance, PTL

(* set_add never moves or drops a record.                                  *)
THEOREM Kept == Spec => RecordsKept
<1>1. TypeInv /\ [Next]_vars
        => [\A k \in InUse : k <= current_size' /\ mark_stat'[k].mark_id = mark_stat[k].mark_id]_vars
  <2> SUFFICES ASSUME TypeInv, [Next]_vars, NEW k \in InUse
               PROVE  k <= current_size' /\ mark_stat'[k].mark_id = mark_stat[k].mark_id
    OBVIOUS
  <2>1. SlotsStep /\ current_size \in Nat
    BY Step DEF TypeInv, TypeOK
  <2>2. QED
    BY <2>1 DEF SlotsStep, InUse
<1>2. TypeInv /\ [Next]_vars => TypeInv'
  BY Step
<1>3. QED
  BY <1>1, <1>2, InitType, PTL DEF Spec, RecordsKept
-------------------------------------------------------------------------------
(* What a record claims is no more than arrived with its id; and in zeroed *)
(* memory, where the slots behind those in use have the id 0, it is what   *)
(* arrived, and what has no record has not arrived.                        *)
AtMost == \A k \in InUse : mark_stat[k].pkt_cnt <= counted[mark_stat[k].mark_id]

Zeroed ==
    heap = "zeroes" =>
        /\ \A k \in current_size + 1 .. Len(mark_stat) : mark_stat[k].mark_id = 0
        /\ \A k \in InUse :
             mark_stat[k].mark_id # 0
                 => mark_stat[k].pkt_cnt = counted[mark_stat[k].mark_id] % PktCntModulus
        /\ \A id \in MarkIds \ {0} :
             (\A k \in InUse : mark_stat[k].mark_id # id) => counted[id] = 0

CountInv == IInv /\ AtMost /\ Zeroed

(* A counter that wraps counts modulo its width.                           *)
LEMMA Wraps ==
    ASSUME NEW n \in Nat
    PROVE  /\ (n + 1) % PktCntModulus <= n + 1
           /\ ((n % PktCntModulus) + 1) % PktCntModulus = (n + 1) % PktCntModulus
<1> DEFINE d == n \div PktCntModulus
           m == n % PktCntModulus
<1>1. PktCntModulus \in Nat \ {0}
  BY MarkSetAssumption
<1>2. d \in Nat /\ m \in 0 .. PktCntModulus - 1 /\ n = d * PktCntModulus + m
  BY <1>1, Division
<1>3. (n + 1) % PktCntModulus = IF m + 1 = PktCntModulus THEN 0 ELSE m + 1
  BY <1>1, NextRemainder
<1> HIDE DEF d, m
<1>4. d * PktCntModulus \in Nat
  BY <1>1, <1>2
<1>5. m % PktCntModulus = m
  BY <1>1, <1>2
<1>6. (m + 1) % PktCntModulus = IF (m % PktCntModulus) + 1 = PktCntModulus THEN 0
                                ELSE (m % PktCntModulus) + 1
  <2>1. m \in Nat
    BY <1>1, <1>2
  <2>2. QED
    BY <1>1, <2>1, NextRemainder, Zenon
<1>7. (m + 1) % PktCntModulus = (n + 1) % PktCntModulus
  BY <1>3, <1>5, <1>6
<1>8. (n + 1) % PktCntModulus <= n + 1
  BY <1>1, <1>2, <1>3, <1>4
<1>9. QED
  BY <1>7, <1>8 DEF m

(* What both ways through set_add share.                                   *)
LEMMA Context ==
    ASSUME CountInv, NEW mark \in Marks, Counting(mark)
    PROVE  LET id == MarkId(mark) IN
           /\ id \in MarkIds /\ heap' = heap
           /\ mark_stat \in Seq(MarkSlot) /\ Len(mark_stat) \in Nat
           /\ current_size \in Nat /\ current_size <= Len(mark_stat)
           /\ counted \in [MarkIds -> Nat] /\ counted'[id] = counted[id] + 1
           /\ \A other \in MarkIds : other # id => counted'[other] = counted[other]
           /\ \A k \in 1 .. Len(mark_stat) :
                mark_stat[k].mark_id \in MarkIds /\ mark_stat[k].pkt_cnt \in Nat
<1>1. MarkId(mark) \in MarkIds
  BY DEF MarkIds
<1>2. /\ mark_stat \in Seq(MarkSlot) /\ Len(mark_stat) \in Nat
      /\ current_size \in Nat /\ current_size <= Len(mark_stat)
      /\ counted \in [MarkIds -> Nat]
  BY DEF CountInv, IInv, TypeInv, TypeOK, MarkSlot, max_size
<1>3. heap' = heap /\ counted' = [counted EXCEPT ![MarkId(mark)] = @ + 1]
  BY DEF Counting
<1>4. \A k \in 1 .. Len(mark_stat) : mark_stat[k] \in MarkSlot
  BY <1>2
<1>5. \A k \in 1 .. Len(mark_stat) :
        mark_stat[k].mark_id \in MarkIds /\ mark_stat[k].pkt_cnt \in Nat
  BY <1>4, MarkSetAssumption DEF MarkSlot
<1>6. QED
  BY <1>1, <1>2, <1>3, <1>5

LEMMA FoundCounts ==
    ASSUME CountInv, NEW mark \in Marks, Counting(mark), Found(MarkId(mark))
    PROVE  AtMost' /\ Zeroed'
<1> DEFINE id == MarkId(mark)
<1>1. /\ id \in MarkIds /\ heap' = heap
      /\ Len(mark_stat) \in Nat /\ current_size \in Nat /\ current_size <= Len(mark_stat)
      /\ counted \in [MarkIds -> Nat] /\ counted'[id] = counted[id] + 1
      /\ \A other \in MarkIds : other # id => counted'[other] = counted[other]
      /\ \A k \in 1 .. Len(mark_stat) :
           mark_stat[k].mark_id \in MarkIds /\ mark_stat[k].pkt_cnt \in Nat
  BY Context
<1>2. PICK m \in 1 .. Len(mark_stat) :
         /\ mark_stat[m].mark_id = id /\ mark_stat'[m].mark_id = id
         /\ mark_stat'[m].pkt_cnt = (mark_stat[m].pkt_cnt + 1) % PktCntModulus
         /\ \A k \in 1 .. Len(mark_stat) : k # m => mark_stat'[k] = mark_stat[k]
  BY DEF Found
<1>3. current_size' = current_size /\ Len(mark_stat') = Len(mark_stat)
  BY DEF Found
<1>4. \A k \in 1 .. Len(mark_stat) : mark_stat'[k].mark_id = mark_stat[k].mark_id
  BY <1>2
<1>5. InUse' = InUse /\ \A k \in InUse : k \in 1 .. Len(mark_stat)
  BY <1>1, <1>3 DEF InUse
<1> HIDE DEF id
<1>6. ASSUME NEW k \in InUse
      PROVE  mark_stat'[k].pkt_cnt <= counted'[mark_stat'[k].mark_id]
  <2>1. mark_stat[k].pkt_cnt <= counted[mark_stat[k].mark_id]
    BY DEF CountInv, AtMost
  <2>2. k \in 1 .. Len(mark_stat) /\ mark_stat[k].mark_id \in MarkIds
        /\ mark_stat[k].pkt_cnt \in Nat
    BY <1>1, <1>5
  <2>3. counted[mark_stat[k].mark_id] \in Nat
    BY <1>1, <2>2
  <2>4. CASE k = m
    <3>1. mark_stat'[k].pkt_cnt <= mark_stat[k].pkt_cnt + 1
      BY <1>2, <2>2, <2>4, Wraps
    <3>2. mark_stat'[k].pkt_cnt \in Int
      <4>1. \A c \in Nat : (c + 1) % PktCntModulus \in Nat
        BY MarkSetAssumption
      <4>2. QED
        BY <1>2, <2>2, <2>4, <4>1
    <3>3. counted'[mark_stat'[k].mark_id] = counted[mark_stat[k].mark_id] + 1
      BY <1>1, <1>2, <2>4
    <3>4. QED
      BY <2>1, <2>2, <2>3, <3>1, <3>2, <3>3
  <2>5. CASE k # m
    <3>1. mark_stat'[k] = mark_stat[k]
      BY <1>2, <2>2, <2>5
    <3>2. counted'[mark_stat[k].mark_id] >= counted[mark_stat[k].mark_id]
      BY <1>1, <2>2, <2>3
    <3>3. counted'[mark_stat[k].mark_id] \in Nat
      BY <1>1, <2>2, <2>3
    <3>4. QED
      BY <2>1, <2>2, <2>3, <3>1, <3>2, <3>3
  <2>6. QED
    BY <2>4, <2>5
<1>7. ASSUME heap = "zeroes", NEW k \in current_size + 1 .. Len(mark_stat)
      PROVE  mark_stat'[k].mark_id = 0
  <2>1. k \in 1 .. Len(mark_stat) /\ mark_stat[k].mark_id = 0
    BY <1>1, <1>7 DEF CountInv, Zeroed
  <2>2. QED
    BY <1>4, <2>1
<1>8. ASSUME heap = "zeroes", NEW k \in InUse, mark_stat'[k].mark_id # 0
      PROVE  mark_stat'[k].pkt_cnt = counted'[mark_stat'[k].mark_id] % PktCntModulus
  <2>1. k \in 1 .. Len(mark_stat) /\ mark_stat[k].mark_id \in MarkIds
        /\ mark_stat'[k].mark_id = mark_stat[k].mark_id
    BY <1>1, <1>4, <1>5
  <2>2. mark_stat[k].pkt_cnt = counted[mark_stat[k].mark_id] % PktCntModulus
    BY <1>8, <2>1 DEF CountInv, Zeroed
  <2>3. CASE k = m
    <3> DEFINE n == counted[id]
    <3>1. mark_stat'[k].pkt_cnt = ((n % PktCntModulus) + 1) % PktCntModulus
      BY <1>2, <2>2, <2>3
    <3>2. counted'[mark_stat'[k].mark_id] = n + 1 /\ n \in Nat
      BY <1>1, <1>2, <2>3
    <3> HIDE DEF n
    <3>3. QED
      BY <3>1, <3>2, Wraps
  <2>4. CASE k # m
    <3>1. mark_stat'[k] = mark_stat[k]
      BY <1>2, <2>1, <2>4
    <3>2. mark_stat[k].mark_id # id
      <4>1. ASSUME mark_stat[k].mark_id = id
            PROVE  FALSE
        <5>1. mark_stat[m].mark_id # 0
          BY <1>2, <1>8, <2>1, <4>1
        <5>2. m \in InUse
          BY <1>1, <1>2, <1>8, <5>1 DEF CountInv, Zeroed, InUse
        <5>3. QED
          BY <1>2, <2>4, <4>1, <5>2 DEF CountInv, IInv, DistinctIds
      <4>2. QED
        BY <4>1
    <3>3. QED
      BY <1>1, <2>1, <2>2, <3>1, <3>2
  <2>5. QED
    BY <2>3, <2>4
<1>9. ASSUME heap = "zeroes", NEW other \in MarkIds \ {0},
             \A k \in InUse : mark_stat'[k].mark_id # other
      PROVE  counted'[other] = 0
  <2>1. \A k \in InUse : mark_stat[k].mark_id # other
    BY <1>4, <1>5, <1>9
  <2>2. counted[other] = 0
    BY <1>9, <2>1 DEF CountInv, Zeroed
  <2>3. other # id
    <3>1. ASSUME other = id
          PROVE  FALSE
      <4>1. m \in InUse
        BY <1>1, <1>2, <1>9, <3>1 DEF CountInv, Zeroed, InUse
      <4>2. QED
        BY <1>2, <2>1, <3>1, <4>1
    <3>2. QED
      BY <3>1
  <2>4. QED
    BY <1>1, <2>2, <2>3
<1>10. QED
  BY <1>1, <1>3, <1>5, <1>6, <1>7, <1>8, <1>9 DEF AtMost, Zeroed

LEMMA MadeCounts ==
    ASSUME CountInv, NEW mark \in Marks, Counting(mark), Made(MarkId(mark))
    PROVE  AtMost' /\ Zeroed'
<1> DEFINE id == MarkId(mark)
           new == current_size + 1
<1>1. /\ id \in MarkIds /\ heap' = heap
      /\ Len(mark_stat) \in Nat /\ current_size \in Nat /\ current_size <= Len(mark_stat)
      /\ counted \in [MarkIds -> Nat] /\ counted'[id] = counted[id] + 1
      /\ \A other \in MarkIds : other # id => counted'[other] = counted[other]
      /\ \A k \in 1 .. Len(mark_stat) :
           mark_stat[k].mark_id \in MarkIds /\ mark_stat[k].pkt_cnt \in Nat
  BY Context
<1>2. /\ current_size' = new
      /\ \A k \in 1 .. Len(mark_stat) : mark_stat[k].mark_id # id
      /\ mark_stat'[new].mark_id = id
      /\ mark_stat'[new].pkt_cnt = 1 % PktCntModulus
      /\ \A k \in InUse : mark_stat'[k] = mark_stat[k]
      /\ \A k \in new + 1 .. Len(mark_stat') :
           \/ k \in 1 .. Len(mark_stat) /\ mark_stat'[k] = mark_stat[k]
           \/ heap = "zeroes" => mark_stat'[k].mark_id = 0
  <2>1. new + 1 = current_size + 2
    BY <1>1
  <2>2. QED
    BY <2>1 DEF Made
<1>3. /\ \A k \in InUse : k \in 1 .. Len(mark_stat) /\ k # new /\ k \in InUse'
      /\ \A k \in InUse' : k \in InUse \/ k = new
      /\ new \in InUse'
  BY <1>1, <1>2 DEF InUse
<1>4. ASSUME NEW k \in InUse
      PROVE  /\ mark_stat'[k] = mark_stat[k] /\ mark_stat[k].mark_id \in MarkIds
             /\ counted'[mark_stat[k].mark_id] = counted[mark_stat[k].mark_id]
  BY <1>1, <1>2, <1>3
<1>5. counted[id] \in Nat /\ PktCntModulus \in Nat /\ PktCntModulus > 0
  BY <1>1, MarkSetAssumption
<1>6. AtMost'
  <2>1. 1 % PktCntModulus <= 1 /\ 1 % PktCntModulus \in Int
    BY <1>5
  <2>2. mark_stat'[new].pkt_cnt <= counted'[mark_stat'[new].mark_id]
    BY <1>1, <1>2, <1>5, <2>1
  <2>3. \A k \in InUse : mark_stat'[k].pkt_cnt <= counted'[mark_stat'[k].mark_id]
    BY <1>4 DEF CountInv, AtMost
  <2> HIDE DEF new
  <2>4. QED
    BY <1>3, <2>2, <2>3 DEF AtMost
<1>7. ASSUME heap = "zeroes"
      PROVE  /\ \A k \in new + 1 .. Len(mark_stat') : mark_stat'[k].mark_id = 0
             /\ \A k \in InUse' :
                  mark_stat'[k].mark_id # 0
                      => mark_stat'[k].pkt_cnt = counted'[mark_stat'[k].mark_id] % PktCntModulus
             /\ \A other \in MarkIds \ {0} :
                  (\A k \in InUse' : mark_stat'[k].mark_id # other) => counted'[other] = 0
  <2>1. ASSUME NEW k \in new + 1 .. Len(mark_stat')
        PROVE  mark_stat'[k].mark_id = 0
    <3>1. CASE k \in 1 .. Len(mark_stat) /\ mark_stat'[k] = mark_stat[k]
      <4>1. k \in current_size + 1 .. Len(mark_stat)
        BY <1>1, <3>1
      <4>2. QED
        BY <1>7, <3>1, <4>1 DEF CountInv, Zeroed
    <3>2. QED
      BY <1>2, <1>7, <3>1
  <2>2. id # 0 => counted[id] = 0
    BY <1>1, <1>2, <1>3, <1>7 DEF CountInv, Zeroed
  <2>3. ASSUME NEW k \in InUse', mark_stat'[k].mark_id # 0
        PROVE  mark_stat'[k].pkt_cnt = counted'[mark_stat'[k].mark_id] % PktCntModulus
    <3>1. CASE k \in InUse
      BY <1>4, <1>7, <2>3, <3>1 DEF CountInv, Zeroed
    <3>2. CASE k = new
      <4>1. id # 0 /\ mark_stat'[k].mark_id = id
        BY <1>2, <2>3, <3>2
      <4>2. counted'[id] = 1
        BY <1>1, <2>2, <4>1
      <4> HIDE DEF id
      <4>3. QED
        BY <1>2, <3>2, <4>1, <4>2
    <3>3. QED
      BY <1>3, <3>1, <3>2
  <2>4. ASSUME NEW other \in MarkIds \ {0}, \A k \in InUse' : mark_stat'[k].mark_id # other
        PROVE  counted'[other] = 0
    <3>1. \A k \in InUse : mark_stat[k].mark_id # other
      BY <1>3, <1>4, <2>4
    <3>2. counted[other] = 0
      BY <1>7, <3>1 DEF CountInv, Zeroed
    <3>3. other # id
      BY <1>2, <1>3, <2>4
    <3>4. QED
      BY <1>1, <3>2, <3>3
  <2>5. QED
    BY <2>1, <2>3, <2>4
<1>8. Zeroed'
  <2> HIDE DEF new
  <2>1. heap' = "zeroes" => heap = "zeroes"
    BY <1>1
  <2>2. QED
    BY <1>2, <1>7, <2>1 DEF Zeroed
<1>9. QED
  BY <1>6, <1>8

(* The counts are part of the inductive invariant.                         *)
LEMMA InitCounts == Init => AtMost /\ Zeroed
<1> SUFFICES ASSUME Init PROVE AtMost /\ Zeroed
  OBVIOUS
<1>1. mark_stat \in Fresh(InitialSize) /\ InitialSize \in Nat /\ current_size = 0
  BY MarkSetAssumption DEF Init
<1>2. /\ Len(mark_stat) = InitialSize
      /\ heap = "zeroes" => \A k \in 1 .. InitialSize : mark_stat[k].mark_id = 0
  BY <1>1, FreshSlots
<1>3. \A id \in MarkIds : counted[id] = 0
  BY DEF Init
<1>4. InUse = {}
  BY <1>1 DEF InUse
<1>5. QED
  BY <1>1, <1>2, <1>3, <1>4 DEF AtMost, Zeroed

(* The inductive invariant of the counts: what is recorded with an id is   *)
(* at most what arrived, and exactly that in zeroed memory.                *)
THEOREM Counts == Spec => []CountInv
<1>1. Init => CountInv
  BY InitCounts, Inductive DEF CountInv
<1>2. CountInv /\ [Next]_vars => CountInv'
  <2> SUFFICES ASSUME CountInv, [Next]_vars PROVE CountInv'
    OBVIOUS
  <2>1. IInv'
    BY Inductive DEF CountInv
  <2>2. ASSUME UNCHANGED <<mark_stat, current_size, heap, counted>>
        PROVE  AtMost' /\ Zeroed'
    BY <2>2 DEF CountInv, AtMost, Zeroed, InUse
  <2>3. ASSUME ReceiveBurst \/ CountPlain \/ count_flag \/ GrowFails \/ UNCHANGED vars
        PROVE  AtMost' /\ Zeroed'
    BY <2>2, <2>3 DEF ReceiveBurst, CountPlain, count_flag, GrowFails, vars
  <2>4. ASSUME NEW mark \in Marks, set_add(mark)
        PROVE  AtMost' /\ Zeroed'
    <3>1. Counting(mark) /\ TypeOK
      BY <2>4 DEF set_add, AddToMatch, AddRecord, AddRecordGrown, CountInv, IInv, TypeInv
    <3>2. CASE AddToMatch(mark)
      BY <3>1, <3>2, FoundStep, FoundCounts
    <3>3. CASE AddRecord(mark) \/ AddRecordGrown(mark)
      BY <3>1, <3>3, MadeStep, MadeCounts
    <3>4. QED
      BY <2>4, <3>2, <3>3 DEF set_add
  <2>5. AtMost' /\ Zeroed'
    BY <2>3, <2>4 DEF Next
  <2>6. QED
    BY <2>1, <2>5 DEF CountInv
<1>3. QED
  BY <1>1, <1>2, PTL DEF Spec

(* Whatever the memory held before, and however often the counters wrap,   *)
(* no record claims more packets than arrived with its id.                 *)
THEOREM Overcounting == Spec => []NeverOvercounts
<1>1. CountInv => NeverOvercounts
  BY DEF CountInv, IInv, TypeInv, AtMost, NeverOvercounts
<1>2. QED
  BY <1>1, Counts, PTL

(* In zeroed memory every id but 0 is recorded with what arrived with it   *)
(* and has had its turn, short of what failed growths dropped, modulo the  *)
(* width of the counter.                                                   *)
THEOREM Totals == Spec => []TotalsOnZeroedHeap
<1>1. CountInv => TotalsOnZeroedHeap
  <2> SUFFICES ASSUME CountInv, heap = "zeroes", NEW id \in MarkIds \ {0}
               PROVE  Recorded(id) = (arrived[id] - WithId(bufs, id) - dropped[id]) % PktCntModulus
    BY DEF TotalsOnZeroedHeap
  <2>4. arrived[id] - WithId(bufs, id) - dropped[id] = counted[id]
    <3>1. bufs \in Seq(Packets) /\ counted[id] \in Nat /\ arrived[id] \in Nat /\ dropped[id] \in Nat
      BY MarkSetAssumption DEF CountInv, IInv, TypeInv, TypeOK
    <3>2. WithId(bufs, id) \in Nat
      BY <3>1, WithIdCount
    <3>3. QED
      BY <3>1, <3>2 DEF CountInv, IInv, TypeInv, Accounted
  <2>1. CASE \E k \in InUse : mark_stat[k].mark_id = id
    <3> DEFINE k == CHOOSE k \in InUse : mark_stat[k].mark_id = id
    <3>1. k \in InUse /\ mark_stat[k].mark_id = id
      BY <2>1
    <3>2. Recorded(id) = mark_stat[k].pkt_cnt
      BY <2>1 DEF Recorded
    <3> HIDE DEF k
    <3>3. QED
      BY <2>4, <3>1, <3>2 DEF CountInv, Zeroed
  <2>2. CASE \A k \in InUse : mark_stat[k].mark_id # id
    <3>1. counted[id] = 0 /\ Recorded(id) = 0
      BY <2>2 DEF CountInv, Zeroed, Recorded
    <3>2. PktCntModulus \in Nat \ {0}
      BY MarkSetAssumption
    <3>3. QED
      BY <2>4, <3>1, <3>2
  <2>3. QED
    BY <2>1, <2>2
<1>2. QED
  BY <1>1, Counts, PTL
-------------------------------------------------------------------------------
(* A loop over 1 .. n with a value carried along.                          *)
Carries(g, n, V, a, step) ==
    /\ g \in [0 .. n -> V] /\ g[0] = a
    /\ \A i \in 1 .. n : g[i] = step[i][g[i - 1]]

LEMMA LoopExists ==
    ASSUME NEW V, NEW a \in V, NEW n \in Nat, NEW step \in [1 .. n -> [V -> V]]
    PROVE  \E g : Carries(g, n, V, a, step)
<1> DEFINE S == {m \in 0 .. n : \E g : Carries(g, m, V, a, step)}
<1>1. 0 \in S
  <2>1. Carries([i \in 0 .. 0 |-> a], 0, V, a, step)
    BY DEF Carries
  <2>2. QED
    BY <2>1
<1>2. ASSUME NEW m \in 1 .. n, m - 1 \in S
      PROVE  m \in S
  <2>1. PICK g : Carries(g, m - 1, V, a, step)
    BY <1>2
  <2> DEFINE h == [i \in 0 .. m |-> IF i = m THEN step[m][g[m - 1]] ELSE g[i]]
  <2>2. m - 1 \in Nat /\ m \in 1 .. n /\ m \in Nat /\ step[m] \in [V -> V]
    OBVIOUS
  <2>3. \A i \in 0 .. m - 1 : g[i] \in V /\ h[i] = g[i]
    BY <2>1, <2>2 DEF Carries
  <2>4. h[m] = step[m][g[m - 1]] /\ h[m] \in V
    <3>1. m - 1 \in 0 .. m - 1 /\ m \in 0 .. m
      BY <2>2
    <3>2. h[m] = step[m][g[m - 1]]
      BY <3>1
    <3>3. g[m - 1] \in V
      BY <2>3, <3>1
    <3>4. step[m][g[m - 1]] \in V
      BY <2>2, <3>3
    <3>5. QED
      BY <3>2, <3>4
  <2>5. h \in [0 .. m -> V]
    BY <2>3, <2>4
  <2>6. h[0] = a
    BY <2>1, <2>2, <2>3 DEF Carries
  <2> HIDE DEF h
  <2>7. \A i \in 1 .. m - 1 : g[i] = step[i][g[i - 1]]
    BY <2>1 DEF Carries
  <2>8. ASSUME NEW i \in 1 .. m
        PROVE  h[i] = step[i][h[i - 1]]
    <3>1. CASE i = m
      BY <2>2, <2>3, <2>4, <3>1
    <3>2. CASE i # m
      <4>1. i \in 1 .. m - 1 /\ i \in 0 .. m - 1 /\ i - 1 \in 0 .. m - 1
        BY <2>2, <3>2
      <4>2. QED
        BY <2>3, <2>7, <4>1
    <3>3. QED
      BY <3>1, <3>2
  <2>9. Carries(h, m, V, a, step)
    BY <2>5, <2>6, <2>8 DEF Carries
  <2>10. QED
    BY <2>9
<1>3. \A i \in 0 .. n : i \in S
  <2> HIDE DEF S
  <2>1. QED
    BY <1>1, <1>2, UpTo
<1>4. QED
  BY <1>3
-------------------------------------------------------------------------------
(* The recursion inside FlattenSeq.                                        *)
Flat(f, seqs) ==
    f = [i \in 1 .. Len(seqs) |-> IF i = 1 THEN seqs[i] ELSE f[i - 1] \o seqs[i]]

(* What the library says of FlattenSeq.                                    *)
LEMMA FlattenIsRecursion ==
    ASSUME NEW seqs
    PROVE  FlattenSeq(seqs) = IF Len(seqs) = 0 THEN seqs
                              ELSE (CHOOSE f : Flat(f, seqs))[Len(seqs)]
  BY DEF FlattenSeq, Flat

(* Flattening appends one sequence after the other.                        *)
LEMMA Flattened ==
    ASSUME NEW T, NEW seqs \in Seq(Seq(T))
    PROVE  \E g \in [0 .. Len(seqs) -> Seq(T)] :
             /\ g[0] = <<>> /\ g[Len(seqs)] = FlattenSeq(seqs)
             /\ \A i \in 1 .. Len(seqs) : g[i] = g[i - 1] \o seqs[i]
<1> DEFINE n    == Len(seqs)
           step == [i \in 1 .. n |-> [s \in Seq(T) |-> s \o seqs[i]]]
<1>1. n \in Nat /\ \A i \in 1 .. n : seqs[i] \in Seq(T)
  OBVIOUS
<1>2. step \in [1 .. n -> [Seq(T) -> Seq(T)]]
  <2>1. ASSUME NEW i \in 1 .. n, NEW s \in Seq(T)
        PROVE  s \o seqs[i] \in Seq(T)
    BY <1>1
  <2>2. QED
    BY <2>1
<1>3. \A i \in 1 .. n : \A s \in Seq(T) : step[i][s] = s \o seqs[i]
  OBVIOUS
<1>4. <<>> \in Seq(T)
  OBVIOUS
<1> HIDE DEF step, n
<1>5. PICK g : Carries(g, n, Seq(T), <<>>, step)
  BY <1>1, <1>2, <1>4, LoopExists
<1>6. /\ g \in [0 .. n -> Seq(T)] /\ g[0] = <<>>
      /\ \A i \in 1 .. n : g[i] = g[i - 1] \o seqs[i]
  <2>1. g \in [0 .. n -> Seq(T)] /\ g[0] = <<>>
    BY <1>5 DEF Carries
  <2>2. ASSUME NEW i \in 1 .. n
        PROVE  g[i] = g[i - 1] \o seqs[i]
    <3>1. g[i - 1] \in Seq(T)
      BY <1>1, <2>1
    <3>2. g[i] = step[i][g[i - 1]]
      BY <1>5 DEF Carries
    <3>3. QED
      BY <1>3, <3>1, <3>2
  <2>3. QED
    BY <2>1, <2>2
<1>7. n # 0 => g[1] = seqs[1]
  <2>1. ASSUME n # 0
        PROVE  g[1] = seqs[1]
    <3>1. 1 \in 1 .. n /\ 1 - 1 = 0 /\ seqs[1] \in Seq(T)
      BY <1>1, <2>1
    <3>2. g[1] = g[1 - 1] \o seqs[1]
      BY <1>6, <3>1
    <3>3. g[1] = <<>> \o seqs[1]
      BY <1>6, <3>1, <3>2
    <3>4. QED
      BY <3>1, <3>3
  <2>2. QED
    BY <2>1
<1>8. g[n] = FlattenSeq(seqs)
  <2>1. CASE n = 0
    <3>1. seqs = <<>>
      BY <2>1 DEF n
    <3>2. QED
      BY <1>6, <2>1, <3>1, FlattenIsRecursion DEF n
  <2>2. CASE n # 0
    <3> DEFINE f == CHOOSE f : Flat(f, seqs)
    <3>1. Flat([i \in 1 .. n |-> g[i]], seqs)
      <4> DEFINE h == [i \in 1 .. n |-> g[i]]
      <4>1. ASSUME NEW i \in 1 .. n
            PROVE  h[i] = IF i = 1 THEN seqs[i] ELSE h[i - 1] \o seqs[i]
        <5>1. CASE i = 1
          BY <1>7, <2>2, <5>1
        <5>2. CASE i # 1
          <6>1. i - 1 \in 1 .. n
            BY <1>1, <5>2
          <6>2. QED
            BY <1>6, <5>2, <6>1
        <5>3. QED
          BY <5>1, <5>2
      <4>2. h = [i \in 1 .. n |-> h[i]]
        OBVIOUS
      <4> HIDE DEF h
      <4>3. h = [i \in 1 .. n |-> IF i = 1 THEN seqs[i] ELSE h[i - 1] \o seqs[i]]
        BY <4>1, <4>2
      <4>4. QED
        BY <4>3 DEF Flat, h, n
    <3>2. Flat(f, seqs)
      BY <3>1
    <3> HIDE DEF f
    <3>3. \A i \in 1 .. n : f[i] = IF i = 1 THEN seqs[i] ELSE f[i - 1] \o seqs[i]
      BY <3>2 DEF Flat, n
    <3> DEFINE S == {0} \cup {i \in 1 .. n : f[i] = g[i]}
    <3>4. ASSUME NEW i \in 1 .. n, i - 1 \in S
          PROVE  i \in S
      <4>1. CASE i = 1
        BY <1>7, <2>2, <3>3, <4>1
      <4>2. CASE i # 1
        <5>1. i - 1 \in 1 .. n /\ f[i - 1] = g[i - 1]
          BY <1>1, <3>4, <4>2
        <5>2. f[i] = f[i - 1] \o seqs[i]
          BY <3>3, <4>2
        <5>3. g[i] = g[i - 1] \o seqs[i]
          BY <1>6
        <5>4. QED
          BY <5>1, <5>2, <5>3
      <4>3. QED
        BY <4>1, <4>2
    <3>5. \A i \in 0 .. n : i \in S
      <4>1. 0 \in S
        OBVIOUS
      <4> HIDE DEF S
      <4>2. QED
        BY <1>1, <3>4, <4>1, UpTo
    <3>6. n \in 1 .. n
      BY <1>1, <2>2
    <3>7. f[n] = g[n]
      <4>1. n \in S
        BY <1>1, <3>5
      <4>2. QED
        BY <3>6, <4>1, <2>2
    <3>8. FlattenSeq(seqs) = f[n]
      BY <2>2, FlattenIsRecursion DEF f, n
    <3>9. QED
      BY <3>7, <3>8
  <2>3. QED
    BY <2>1, <2>2
<1>9. QED
  BY <1>6, <1>8 DEF n
-------------------------------------------------------------------------------
(* What is still to do with a slot: nothing but reads, or a last write.    *)
Untouched(A, s) == \A k \in 1 .. Len(A) : A[k].slot = s => A[k].value = None

Leaves(A, s, v) ==
    \E k \in 1 .. Len(A) :
       /\ A[k].slot = s /\ A[k].value = v
       /\ \A j \in k + 1 .. Len(A) : A[j].slot = s => A[j].value = None

LEMMA Concatenated ==
    ASSUME NEW T, NEW A \in Seq(T), NEW B \in Seq(T), NEW s, NEW v
    PROVE  /\ Leaves(B, s, v) => Leaves(A \o B, s, v)
           /\ Leaves(A, s, v) /\ Untouched(B, s) => Leaves(A \o B, s, v)
           /\ Untouched(A, s) /\ Untouched(B, s) => Untouched(A \o B, s)
<1> DEFINE a == Len(A)
           b == Len(B)
           C == A \o B
<1>1. /\ a \in Nat /\ b \in Nat /\ Len(C) = a + b
      /\ \A k \in 1 .. a : C[k] = A[k]
      /\ \A k \in 1 .. b : C[a + k] = B[k]
  OBVIOUS
<1> HIDE DEF C
<1>2. \A k \in a + 1 .. a + b : k - a \in 1 .. b /\ C[k] = B[k - a]
  BY <1>1
<1>3. ASSUME Leaves(B, s, v)
      PROVE  Leaves(C, s, v)
  <2>1. PICK k \in 1 .. b :
           /\ B[k].slot = s /\ B[k].value = v
           /\ \A j \in k + 1 .. b : B[j].slot = s => B[j].value = None
    BY <1>3 DEF Leaves
  <2>2. a + k \in 1 .. Len(C) /\ C[a + k].slot = s /\ C[a + k].value = v
    BY <1>1, <2>1
  <2>3. ASSUME NEW j \in a + k + 1 .. Len(C), C[j].slot = s
        PROVE  C[j].value = None
    <3>1. j \in a + 1 .. a + b /\ j - a \in k + 1 .. b
      BY <1>1
    <3>2. QED
      BY <1>2, <2>1, <2>3, <3>1
  <2>4. QED
    BY <2>2, <2>3 DEF Leaves
<1>4. ASSUME Leaves(A, s, v), Untouched(B, s)
      PROVE  Leaves(C, s, v)
  <2>1. PICK k \in 1 .. a :
           /\ A[k].slot = s /\ A[k].value = v
           /\ \A j \in k + 1 .. a : A[j].slot = s => A[j].value = None
    BY <1>4 DEF Leaves
  <2>2. k \in 1 .. Len(C) /\ C[k].slot = s /\ C[k].value = v
    BY <1>1, <2>1
  <2>3. ASSUME NEW j \in k + 1 .. Len(C), C[j].slot = s
        PROVE  C[j].value = None
    <3>1. CASE j <= a
      <4>1. j \in k + 1 .. a /\ j \in 1 .. a
        BY <1>1, <3>1
      <4>2. QED
        BY <1>1, <2>1, <2>3, <4>1
    <3>2. CASE ~ (j <= a)
      <4>1. j \in a + 1 .. a + b
        BY <1>1, <3>2
      <4>2. QED
        BY <1>2, <1>4, <2>3, <4>1 DEF Untouched
    <3>3. QED
      BY <3>1, <3>2
  <2>4. QED
    BY <2>2, <2>3 DEF Leaves
<1>5. ASSUME Untouched(A, s), Untouched(B, s)
      PROVE  Untouched(C, s)
  <2>1. ASSUME NEW j \in 1 .. Len(C), C[j].slot = s
        PROVE  C[j].value = None
    <3>1. CASE j <= a
      <4>1. j \in 1 .. a
        BY <1>1, <3>1
      <4>2. QED
        BY <1>1, <1>5, <2>1, <4>1 DEF Untouched
    <3>2. CASE ~ (j <= a)
      <4>1. j \in a + 1 .. a + b
        BY <1>1, <3>2
      <4>2. QED
        BY <1>2, <1>5, <2>1, <4>1 DEF Untouched
    <3>3. QED
      BY <3>1, <3>2
  <2>2. QED
    BY <2>1 DEF Untouched
<1>6. QED
  BY <1>3, <1>4, <1>5 DEF C

LEMMA FlattenLeaves ==
    ASSUME NEW T, NEW seqs \in Seq(Seq(T)), NEW s, NEW v, NEW j \in 1 .. Len(seqs),
           Leaves(seqs[j], s, v), \A i \in j + 1 .. Len(seqs) : Untouched(seqs[i], s)
    PROVE  Leaves(FlattenSeq(seqs), s, v)
<1> DEFINE n == Len(seqs)
<1>1. n \in Nat /\ \A i \in 1 .. n : seqs[i] \in Seq(T)
  OBVIOUS
<1>2. PICK g \in [0 .. n -> Seq(T)] :
         /\ g[0] = <<>> /\ g[n] = FlattenSeq(seqs)
         /\ \A i \in 1 .. n : g[i] = g[i - 1] \o seqs[i]
  BY Flattened
<1> DEFINE S == {i \in 0 .. n : i >= j => Leaves(g[i], s, v)}
<1>3. 0 \in S
  BY <1>1
<1>4. ASSUME NEW i \in 1 .. n, i - 1 \in S
      PROVE  i \in S
  <2>1. g[i - 1] \in Seq(T) /\ seqs[i] \in Seq(T) /\ g[i] = g[i - 1] \o seqs[i]
    <3>1. i - 1 \in 0 .. n
      BY <1>1
    <3>2. QED
      BY <1>1, <1>2, <3>1
  <2>2. CASE i = j
    <3>1. Leaves(seqs[i], s, v)
      BY <2>2
    <3>2. Leaves(g[i], s, v)
      BY <2>1, <3>1, Concatenated
    <3>3. QED
      BY <3>2
  <2>3. CASE i > j
    <3>1. Leaves(g[i - 1], s, v) /\ Untouched(seqs[i], s)
      BY <1>4, <2>3
    <3>2. Leaves(g[i], s, v)
      BY <2>1, <3>1, Concatenated
    <3>3. QED
      BY <3>2
  <2>4. QED
    BY <2>2, <2>3
<1>5. n \in S
  <2> HIDE DEF S
  <2>1. \A i \in 0 .. n : i \in S
    BY <1>1, <1>3, <1>4, UpTo
  <2>2. n \in 0 .. n
    BY <1>1
  <2>3. QED
    BY <2>1, <2>2
<1>6. QED
  BY <1>1, <1>2, <1>5

LEMMA FlattenUntouched ==
    ASSUME NEW T, NEW seqs \in Seq(Seq(T)), NEW s,
           \A i \in 1 .. Len(seqs) : Untouched(seqs[i], s)
    PROVE  Untouched(FlattenSeq(seqs), s)
<1> DEFINE n == Len(seqs)
<1>1. n \in Nat /\ \A i \in 1 .. n : seqs[i] \in Seq(T)
  OBVIOUS
<1>2. PICK g \in [0 .. n -> Seq(T)] :
         /\ g[0] = <<>> /\ g[n] = FlattenSeq(seqs)
         /\ \A i \in 1 .. n : g[i] = g[i - 1] \o seqs[i]
  BY Flattened
<1> DEFINE S == {i \in 0 .. n : Untouched(g[i], s)}
<1>3. 0 \in S
  BY <1>1, <1>2 DEF Untouched
<1>4. ASSUME NEW i \in 1 .. n, i - 1 \in S
      PROVE  i \in S
  <2>1. g[i - 1] \in Seq(T) /\ seqs[i] \in Seq(T) /\ g[i] = g[i - 1] \o seqs[i]
    <3>1. i - 1 \in 0 .. n
      BY <1>1
    <3>2. QED
      BY <1>1, <1>2, <3>1
  <2>2. Untouched(g[i], s)
    BY <1>4, <2>1, Concatenated
  <2>3. QED
    BY <2>2
<1>5. n \in S
  <2> HIDE DEF S
  <2>1. \A i \in 0 .. n : i \in S
    BY <1>1, <1>3, <1>4, UpTo
  <2>2. n \in 0 .. n
    BY <1>1
  <2>3. QED
    BY <2>1, <2>2
<1>6. QED
  BY <1>2, <1>5

(* Appending and flattening lose nothing.                                  *)
LEMMA AppendContains ==
    ASSUME NEW T, NEW A \in Seq(T), NEW B \in Seq(T), NEW x, Contains(A, x) \/ Contains(B, x)
    PROVE  Contains(A \o B, x)
<1>1. CASE Contains(A, x)
  BY <1>1 DEF Contains
<1>2. CASE Contains(B, x)
  <2>1. PICK m \in 1 .. Len(B) : B[m] = x
    BY <1>2 DEF Contains
  <2>2. Len(A) + m \in 1 .. Len(A \o B) /\ (A \o B)[Len(A) + m] = B[m]
    OBVIOUS
  <2>3. QED
    BY <2>1, <2>2 DEF Contains
<1>3. QED
  BY <1>1, <1>2

LEMMA FlattenContains ==
    ASSUME NEW T, NEW seqs \in Seq(Seq(T)), NEW j \in 1 .. Len(seqs),
           NEW x, Contains(seqs[j], x)
    PROVE  Contains(FlattenSeq(seqs), x)
<1> DEFINE n == Len(seqs)
<1>1. n \in Nat /\ \A i \in 1 .. n : seqs[i] \in Seq(T)
  OBVIOUS
<1>2. PICK g \in [0 .. n -> Seq(T)] :
         /\ g[0] = <<>> /\ g[n] = FlattenSeq(seqs)
         /\ \A i \in 1 .. n : g[i] = g[i - 1] \o seqs[i]
  BY Flattened
<1> DEFINE S == {i \in 0 .. n : i >= j => Contains(g[i], x)}
<1>3. 0 \in S
  BY <1>1
<1>4. ASSUME NEW i \in 1 .. n, i - 1 \in S
      PROVE  i \in S
  <2>1. g[i - 1] \in Seq(T) /\ seqs[i] \in Seq(T) /\ g[i] = g[i - 1] \o seqs[i]
    <3>1. i - 1 \in 0 .. n
      BY <1>1
    <3>2. QED
      BY <1>1, <1>2, <3>1
  <2>2. ASSUME i >= j
        PROVE  Contains(g[i - 1], x) \/ Contains(seqs[i], x)
    <3>1. CASE i = j
      BY <3>1
    <3>2. CASE i # j
      BY <1>4, <2>2, <3>2
    <3>3. QED
      BY <3>1, <3>2
  <2>3. i >= j => Contains(g[i], x)
    BY <2>1, <2>2, AppendContains
  <2>4. QED
    BY <2>3
<1>5. n \in S
  <2> HIDE DEF S
  <2>1. \A i \in 0 .. n : i \in S
    BY <1>1, <1>3, <1>4, UpTo
  <2>2. n \in 0 .. n
    BY <1>1
  <2>3. QED
    BY <2>1, <2>2
<1>6. QED
  BY <1>1, <1>2, <1>5
-------------------------------------------------------------------------------
(* A number modulo a product: the quotient's remainder in front of the     *)
(* number's.                                                               *)
LEMMA TwoDigits ==
    ASSUME NEW a \in Nat, NEW n \in Nat \ {0}, NEW w \in Nat \ {0}
    PROVE  /\ n * w \in Nat \ {0}
           /\ a % (n * w) = (a % n) + ((a \div n) % w) * n
<1> DEFINE q == a \div n
           r == a % n
           p == q \div w
           e == q % w
           c == e * n
<1>1. q \in Nat /\ r \in 0 .. n - 1 /\ a = q * n + r
  BY Division
<1>2. p \in Nat /\ e \in 0 .. w - 1 /\ q = p * w + e
  BY <1>1, Division
<1> HIDE DEF q, r, p, e
<1>3. n * w \in Nat \ {0}
  <2>1. n * w \in Nat
    OBVIOUS
  <2>2. n * w = n + n * (w - 1) /\ n * (w - 1) \in Int
    OBVIOUS
  <2>3. n * (w - 1) >= 0
    <3>1. w - 1 \in Nat
      OBVIOUS
    <3>2. QED
      BY <3>1
  <2>4. QED
    BY <2>1, <2>2, <2>3
<1>4. c \in Nat
  BY <1>2
<1>5. c + r \in 0 .. n * w - 1
  <2>1. w - 1 - e \in Nat
    BY <1>2
  <2>2. (w - 1 - e) * n >= 0
    BY <2>1
  <2>3. (w - 1 - e) * n = n * w - n - c
    BY <1>2
  <2> HIDE DEF c
  <2>4. n * w - n - c >= 0
    BY <2>2, <2>3
  <2>5. QED
    BY <1>1, <1>3, <1>4, <2>4
<1>6. a = p * (n * w) + (c + r)
  <2>1. q * n = (p * w) * n + c
    BY <1>2
  <2>2. (p * w) * n = p * (n * w)
    BY <1>2
  <2>3. q * n \in Int /\ p * (n * w) \in Int /\ (p * w) * n \in Int
    BY <1>1, <1>2
  <2> HIDE DEF c
  <2>4. QED
    BY <1>1, <1>4, <2>1, <2>2, <2>3
<1>7. a % (n * w) = c + r
  <2> DEFINE x == n * w
             y == c + r
  <2>1. x \in Nat \ {0} /\ y \in 0 .. x - 1 /\ a = p * x + y
    BY <1>3, <1>5, <1>6
  <2> HIDE DEF x, y
  <2>2. a % x = y
    BY <1>2, <2>1, Divided
  <2>3. QED
    BY <2>2 DEF x, y
<1>8. QED
  BY <1>3, <1>4, <1>1, <1>7 DEF c, e, q, r
-------------------------------------------------------------------------------
(* Shift[i] is a product, and the words put together again are the low     *)
(* words of the key.                                                       *)
LEMMA Shifts ==
    /\ Shift[0] = 1
    /\ \A i \in 0 .. KeyWords : Shift[i] \in Nat \ {0}
    /\ \A i \in 1 .. KeyWords : Shift[i] = Shift[i - 1] * WordModulus
<1> DEFINE Multiplies(f) ==
             f = [i \in 0 .. KeyWords |-> IF i = 0 THEN 1 ELSE f[i - 1] * WordModulus]
           step == [i \in 1 .. KeyWords |-> [x \in Nat \ {0} |-> x * WordModulus]]
<1>1. KeyWords \in Nat /\ WordModulus \in Nat \ {0}
  BY RssCtlAssumption
<1>2. ASSUME NEW x \in Nat \ {0}
      PROVE  x * WordModulus \in Nat \ {0}
  BY <1>1, TwoDigits
<1>3. step \in [1 .. KeyWords -> [Nat \ {0} -> Nat \ {0}]]
  BY <1>2
<1>4. \A i \in 1 .. KeyWords : \A x \in Nat \ {0} : step[i][x] = x * WordModulus
  OBVIOUS
<1> HIDE DEF step
<1>5. PICK g : Carries(g, KeyWords, Nat \ {0}, 1, step)
  <2>1. 1 \in Nat \ {0}
    OBVIOUS
  <2>2. QED
    BY <1>1, <1>3, <2>1, LoopExists
<1>6. ASSUME NEW i \in 1 .. KeyWords
      PROVE  g[i] = g[i - 1] * WordModulus
  <2>1. i - 1 \in 0 .. KeyWords
    BY <1>1
  <2>2. g[i - 1] \in Nat \ {0} /\ g[i] = step[i][g[i - 1]]
    BY <1>5, <2>1 DEF Carries
  <2>3. QED
    BY <1>4, <2>2
<1>7. Multiplies(g)
  <2>1. ASSUME NEW i \in 0 .. KeyWords
        PROVE  g[i] = IF i = 0 THEN 1 ELSE g[i - 1] * WordModulus
    <3>1. i # 0 => i \in 1 .. KeyWords
      BY <1>1
    <3>2. QED
      BY <1>5, <1>6, <3>1 DEF Carries
  <2>2. g = [i \in 0 .. KeyWords |-> g[i]]
    BY <1>5 DEF Carries
  <2>3. QED
    BY <2>1, <2>2
<1>8. Multiplies(Shift)
  <2>1. Shift = CHOOSE f : Multiplies(f)
    BY DEF Shift
  <2> HIDE DEF Multiplies
  <2>2. QED
    BY <1>7, <2>1
<1>9. \A i \in 0 .. KeyWords : Shift[i] = IF i = 0 THEN 1 ELSE Shift[i - 1] * WordModulus
  BY <1>8
<1>10. Shift[0] = 1 /\ \A i \in 1 .. KeyWords : Shift[i] = Shift[i - 1] * WordModulus
  BY <1>1, <1>9
<1>11. \A i \in 0 .. KeyWords : Shift[i] \in Nat \ {0}
  <2> DEFINE S == {i \in 0 .. KeyWords : Shift[i] \in Nat \ {0}}
  <2>1. 0 \in S
    BY <1>1, <1>10
  <2>2. ASSUME NEW i \in 1 .. KeyWords, i - 1 \in S
        PROVE  i \in S
    BY <1>2, <1>10, <2>2
  <2>3. \A i \in 0 .. KeyWords : i \in S
    <3> HIDE DEF S
    <3>1. QED
      BY <1>1, <2>1, <2>2, UpTo
  <2>4. QED
    BY <2>3
<1>12. QED
  BY <1>10, <1>11
-------------------------------------------------------------------------------
(* Without its higher words, one word more: that word in front.            *)
LEMMA KeyPrefix ==
    ASSUME NEW key \in Nat, NEW n \in 1 .. KeyWords
    PROVE  key % Shift[n] = (key % Shift[n - 1]) + KeyWord(key, n - 1) * Shift[n - 1]
<1> DEFINE x == Shift[n - 1]
<1>1. x \in Nat \ {0} /\ Shift[n] = x * WordModulus /\ WordModulus \in Nat \ {0}
  <2>1. n - 1 \in 0 .. KeyWords
    BY RssCtlAssumption
  <2>2. QED
    BY <2>1, Shifts, RssCtlAssumption
<1>2. KeyWord(key, n - 1) = (key \div x) % WordModulus
  BY DEF KeyWord
<1> HIDE DEF x
<1>3. key % (x * WordModulus) = (key % x) + ((key \div x) % WordModulus) * x
  BY <1>1, TwoDigits
<1>4. QED
  BY <1>1, <1>2, <1>3 DEF x

(* get_hash_key puts together the low words of the key that was written.   *)
LEMMA KeyAgain ==
    ASSUME NEW channel, NEW key \in Nat,
           \A i \in 0 .. KeyWords - 1 : regs[Slot("key", channel, i)] = KeyWord(key, i)
    PROVE  HashKey(channel) = key % Shift[KeyWords]
<1> DEFINE Sums(f) ==
             f = [n \in 0 .. KeyWords |->
                     IF n = 0 THEN 0
                     ELSE f[n - 1] + regs[Slot("key", channel, n - 1)] * Shift[n - 1]]
           low == [n \in 0 .. KeyWords |-> key % Shift[n]]
           sum == CHOOSE f : Sums(f)
<1>1. KeyWords \in Nat
  BY RssCtlAssumption
<1>2. key % Shift[0] = 0
  <2>1. Shift[0] = 1
    BY Shifts
  <2>2. key % 1 = 0
    OBVIOUS
  <2>3. QED
    BY <2>1, <2>2
<1>3. ASSUME NEW n \in 1 .. KeyWords
      PROVE  key % Shift[n]
               = (key % Shift[n - 1]) + regs[Slot("key", channel, n - 1)] * Shift[n - 1]
  <2>1. n - 1 \in 0 .. KeyWords - 1
    BY <1>1
  <2>2. QED
    BY <2>1, KeyPrefix
<1>4. Sums(low)
  <2>1. ASSUME NEW n \in 0 .. KeyWords
        PROVE  low[n] = IF n = 0 THEN 0
                        ELSE low[n - 1] + regs[Slot("key", channel, n - 1)] * Shift[n - 1]
    <3>1. CASE n = 0
      BY <1>2, <3>1
    <3>2. CASE n # 0
      <4>1. n \in 1 .. KeyWords /\ n - 1 \in 0 .. KeyWords
        BY <1>1, <3>2
      <4>2. low[n] = key % Shift[n] /\ low[n - 1] = key % Shift[n - 1]
        BY <4>1
      <4> HIDE DEF low
      <4>3. QED
        BY <1>3, <3>2, <4>1, <4>2
    <3>3. QED
      BY <3>1, <3>2
  <2>2. low = [n \in 0 .. KeyWords |-> low[n]]
    OBVIOUS
  <2> HIDE DEF low
  <2>3. QED
    BY <2>1, <2>2
<1>5. Sums(sum)
  <2> HIDE DEF Sums, low
  <2>1. QED
    BY <1>4
<1> HIDE DEF sum
<1>6. /\ sum[0] = 0
      /\ \A n \in 1 .. KeyWords :
           sum[n] = sum[n - 1] + regs[Slot("key", channel, n - 1)] * Shift[n - 1]
  <2>1. \A n \in 0 .. KeyWords :
          sum[n] = IF n = 0 THEN 0
                   ELSE sum[n - 1] + regs[Slot("key", channel, n - 1)] * Shift[n - 1]
    BY <1>5
  <2>2. 0 \in 0 .. KeyWords /\ \A n \in 1 .. KeyWords : n \in 0 .. KeyWords /\ n # 0
    BY <1>1
  <2>3. QED
    BY <2>1, <2>2
<1>7. sum[KeyWords] = key % Shift[KeyWords]
  <2> DEFINE S == {n \in 0 .. KeyWords : sum[n] = key % Shift[n]}
  <2>1. 0 \in S
    BY <1>1, <1>2, <1>6
  <2>2. ASSUME NEW n \in 1 .. KeyWords, n - 1 \in S
        PROVE  n \in S
    <3>1. n \in 0 .. KeyWords /\ sum[n - 1] = key % Shift[n - 1]
      BY <1>1, <2>2
    <3>2. QED
      BY <1>3, <1>6, <3>1
  <2>3. KeyWords \in 0 .. KeyWords
    BY <1>1
  <2>4. KeyWords \in S
    <3> HIDE DEF S
    <3>1. QED
      BY <1>1, <2>1, <2>2, <2>3, UpTo
  <2>5. QED
    BY <2>4
<1>8. HashKey(channel) = sum[KeyWords]
  BY DEF HashKey, sum
<1>9. QED
  BY <1>7, <1>8
-------------------------------------------------------------------------------
(* The redirection table gets the queues of the range in turn.             *)
LEMMA RoundRobinNext ==
    ASSUME NEW conf \in Confs, None \notin {conf.queue_min, conf.queue_max}, NEW i \in Nat
    PROVE  /\ RoundRobin(conf, 0) = conf.queue_min
           /\ RoundRobin(conf, i + 1) = NextQueue(RoundRobin(conf, i), conf)
<1> DEFINE lo == conf.queue_min
           hi == conf.queue_max
           n  == hi - lo + 1
<1>1. lo \in Nat /\ hi \in Nat /\ lo # None /\ hi # None
  BY DEF Confs
<1>2. CASE lo > hi
  <2>1. \A j \in Nat : RoundRobin(conf, j) = lo
    BY <1>1, <1>2 DEF RoundRobin
  <2>2. NextQueue(lo, conf) = lo
    BY <1>1, <1>2 DEF NextQueue
  <2>3. QED
    BY <2>1, <2>2
<1>3. CASE ~ (lo > hi)
  <2> DEFINE m == i % n
             k == (i + 1) % n
  <2>1. n \in Nat \ {0}
    BY <1>1, <1>3
  <2>2. \A j \in Nat : RoundRobin(conf, j) = lo + (j % n)
    BY <1>1, <1>3 DEF RoundRobin
  <2>3. 0 % n = 0 /\ m \in 0 .. n - 1
    BY <2>1
  <2>4. k = IF m + 1 = n THEN 0 ELSE m + 1
    BY <2>1, NextRemainder
  <2>5. RoundRobin(conf, 0) = lo + (0 % n) /\ RoundRobin(conf, 0) = lo
    BY <1>1, <2>2, <2>3
  <2>6. RoundRobin(conf, i) = lo + m /\ RoundRobin(conf, i + 1) = lo + k
    BY <2>2
  <2> HIDE DEF m, k
  <2>7. (lo + m) + 1 > hi <=> m + 1 = n
    BY <1>1, <2>1, <2>3
  <2>8. lo + k = IF (lo + m) + 1 > hi THEN lo ELSE (lo + m) + 1
    BY <1>1, <2>3, <2>4, <2>7
  <2>9. QED
    BY <2>5, <2>6, <2>8 DEF NextQueue
<1>4. QED
  BY <1>2, <1>3

(* The queues that are dealt out are those of the range, or 0 without one. *)
LEMMA RoundRobinQueues ==
    ASSUME NEW conf \in Confs, NEW i \in Nat
    PROVE  /\ RoundRobin(conf, i) \in Nat
           /\ RoundRobin(conf, i) \in {0, conf.queue_min} \cup conf.queue_min .. conf.queue_max
<1> DEFINE lo == conf.queue_min
           hi == conf.queue_max
           n  == hi - lo + 1
<1>1. lo \in Nat \cup {None} /\ hi \in Nat \cup {None}
  BY DEF Confs
<1>2. CASE None \in {lo, hi}
  BY <1>2 DEF RoundRobin
<1>3. CASE None \notin {lo, hi} /\ lo > hi
  BY <1>1, <1>3 DEF RoundRobin
<1>4. CASE None \notin {lo, hi} /\ ~ (lo > hi)
  <2>1. lo \in Nat /\ hi \in Nat /\ n \in Nat \ {0}
    BY <1>1, <1>4
  <2>2. i % n \in 0 .. n - 1
    BY <2>1
  <2>3. RoundRobin(conf, i) = lo + (i % n)
    BY <1>4 DEF RoundRobin
  <2>4. QED
    BY <2>1, <2>2, <2>3
<1>5. QED
  BY <1>2, <1>3, <1>4

(* The loop of reta_auto deals them out so.                                *)
LEMMA RetaInTurn ==
    ASSUME NEW conf \in Confs, None \notin {conf.queue_min, conf.queue_max},
           NEW i \in 0 .. reta_size - 1
    PROVE  RetaQueue(conf)[i] = RoundRobin(conf, i)
<1> DEFINE n == reta_size - 1
           Queues(f) ==
             f = [k \in 0 .. n |-> IF k = 0 THEN conf.queue_min ELSE NextQueue(f[k - 1], conf)]
           turn == [k \in 0 .. n |-> RoundRobin(conf, k)]
           queue == CHOOSE f : Queues(f)
<1>1. n \in Nat
  BY RssCtlAssumption
<1>2. /\ RoundRobin(conf, 0) = conf.queue_min
      /\ \A k \in 1 .. n : RoundRobin(conf, k) = NextQueue(RoundRobin(conf, k - 1), conf)
  <2>1. RoundRobin(conf, 0) = conf.queue_min
    BY <1>1, RoundRobinNext
  <2>2. ASSUME NEW k \in 1 .. n
        PROVE  RoundRobin(conf, k) = NextQueue(RoundRobin(conf, k - 1), conf)
    <3>1. k - 1 \in Nat /\ (k - 1) + 1 = k
      BY <1>1
    <3>2. RoundRobin(conf, (k - 1) + 1) = NextQueue(RoundRobin(conf, k - 1), conf)
      BY <3>1, RoundRobinNext
    <3>3. QED
      BY <3>1, <3>2
  <2>3. QED
    BY <2>1, <2>2
<1>3. Queues(turn)
  <2>1. ASSUME NEW k \in 0 .. n
        PROVE  turn[k] = IF k = 0 THEN conf.queue_min ELSE NextQueue(turn[k - 1], conf)
    <3>1. CASE k = 0
      BY <1>2, <3>1
    <3>2. CASE k # 0
      <4>1. k \in 1 .. n /\ k - 1 \in 0 .. n
        BY <1>1, <3>2
      <4>2. QED
        BY <1>2, <3>2, <4>1
    <3>3. QED
      BY <3>1, <3>2
  <2>2. turn = [k \in 0 .. n |-> turn[k]]
    OBVIOUS
  <2> HIDE DEF turn
  <2>3. QED
    BY <2>1, <2>2
<1>4. Queues(queue)
  <2> HIDE DEF Queues, turn
  <2>1. QED
    BY <1>3
<1>5. RetaQueue(conf) = queue
  BY DEF RetaQueue
<1> HIDE DEF queue
<1>6. /\ queue[0] = conf.queue_min
      /\ \A k \in 1 .. n : queue[k] = NextQueue(queue[k - 1], conf)
  <2>1. \A k \in 0 .. n :
          queue[k] = IF k = 0 THEN conf.queue_min ELSE NextQueue(queue[k - 1], conf)
    BY <1>4
  <2>2. 0 \in 0 .. n /\ \A k \in 1 .. n : k \in 0 .. n /\ k # 0
    BY <1>1
  <2>3. QED
    BY <2>1, <2>2
<1> DEFINE S == {k \in 0 .. n : queue[k] = RoundRobin(conf, k)}
<1>7. 0 \in S
  BY <1>1, <1>2, <1>6
<1>8. ASSUME NEW k \in 1 .. n, k - 1 \in S
      PROVE  k \in S
  <2>1. k \in 0 .. n /\ queue[k - 1] = RoundRobin(conf, k - 1)
    BY <1>1, <1>8
  <2>2. QED
    BY <1>2, <1>6, <2>1
<1>9. i \in S
  <2>1. i \in 0 .. n
    OBVIOUS
  <2> HIDE DEF S, n
  <2>2. QED
    BY <1>1, <1>7, <1>8, <2>1, UpTo
<1>10. QED
  BY <1>5, <1>9
-------------------------------------------------------------------------------
(* What a slot may hold, and the accesses that a run may make.             *)
Fits(s, v) ==
    /\ v \in Nat
    /\ s[1] = "func" => v \in {0, 1, 2}
    /\ s[1] = "key"  => v \in 0 .. WordModulus - 1
    /\ s[1] = "reta" => v \in QueuesNamed \ {None}

WriteSet == {a \in [slot : Slots, value : Nat] : Fits(a.slot, a.value)}
ReadSet  == {ReadOf(s) : s \in Slots}

(* A slot is a register, a channel and an index within its table.          *)
LEMMA SlotShape ==
    ASSUME NEW s \in Slots
    PROVE  /\ s = Slot(s[1], s[2], s[3]) /\ s[2] \in Channels /\ s[3] \in Nat
           /\ s[1] \in {"func", "key", "input", "reta"}
           /\ s[1] \in {"func", "input"} => s[3] = 0
           /\ s[1] = "key"  => s[3] \in 0 .. KeyWords - 1
           /\ s[1] = "reta" => s[3] \in 0 .. reta_size - 1
<1>1. CASE s \in {"func", "input"} \X Channels \X {0}
  BY <1>1 DEF Slot
<1>2. CASE s \in {"key"} \X Channels \X (0 .. KeyWords - 1)
  BY <1>2, RssCtlAssumption DEF Slot
<1>3. CASE s \in {"reta"} \X Channels \X (0 .. reta_size - 1)
  BY <1>3, RssCtlAssumption DEF Slot
<1>4. QED
  BY <1>1, <1>2, <1>3 DEF Slots

(* Every channel has a slot for each of its settings.                      *)
LEMMA IsSlot ==
    ASSUME NEW channel \in Channels
    PROVE  /\ Slot("func", channel, 0) \in Slots /\ Slot("input", channel, 0) \in Slots
           /\ \A i \in 0 .. KeyWords - 1 : Slot("key", channel, i) \in Slots
           /\ \A i \in 0 .. reta_size - 1 : Slot("reta", channel, i) \in Slots
  BY DEF Slots, Slot

(* Three sequences of accesses one after the other.                        *)
LEMMA ThreeParts ==
    ASSUME NEW T, NEW A \in Seq(T), NEW B \in Seq(T), NEW C \in Seq(T), NEW s, NEW v
    PROVE  /\ A \o B \o C \in Seq(T)
           /\ Leaves(C, s, v) => Leaves(A \o B \o C, s, v)
           /\ Leaves(B, s, v) /\ Untouched(C, s) => Leaves(A \o B \o C, s, v)
           /\ Leaves(A, s, v) /\ Untouched(B, s) /\ Untouched(C, s)
                => Leaves(A \o B \o C, s, v)
           /\ Untouched(A, s) /\ Untouched(B, s) /\ Untouched(C, s)
                => Untouched(A \o B \o C, s)
<1> DEFINE D == A \o B
<1>1. D \in Seq(T) /\ D \o C \in Seq(T)
  OBVIOUS
<1>2. /\ Leaves(B, s, v) => Leaves(D, s, v)
      /\ Leaves(A, s, v) /\ Untouched(B, s) => Leaves(D, s, v)
      /\ Untouched(A, s) /\ Untouched(B, s) => Untouched(D, s)
  BY Concatenated
<1> HIDE DEF D
<1>3. /\ Leaves(C, s, v) => Leaves(D \o C, s, v)
      /\ Leaves(D, s, v) /\ Untouched(C, s) => Leaves(D \o C, s, v)
      /\ Untouched(D, s) /\ Untouched(C, s) => Untouched(D \o C, s)
  BY <1>1, Concatenated
<1>4. QED
  BY <1>1, <1>2, <1>3 DEF D

(* A part of a memory written word by word.                                *)
Words(reg, channel, n, f) == [k \in 1 .. n |-> WriteTo(reg, channel, k - 1, f[k - 1])]

(* Written so, the part ends up holding f and nothing else is touched.     *)
LEMMA TableWrites ==
    ASSUME NEW reg, NEW channel, NEW n \in Nat, NEW f,
           \A i \in 0 .. n - 1 : /\ Slot(reg, channel, i) \in Slots
                                 /\ Fits(Slot(reg, channel, i), f[i])
    PROVE  /\ Words(reg, channel, n, f) \in Seq(WriteSet)
           /\ \A i \in 0 .. n - 1 :
                Leaves(Words(reg, channel, n, f), Slot(reg, channel, i), f[i])
           /\ \A s : s[1] # reg \/ s[2] # channel => Untouched(Words(reg, channel, n, f), s)
<1> DEFINE A == Words(reg, channel, n, f)
<1>1. ASSUME NEW k \in 1 .. n
      PROVE  A[k] \in WriteSet /\ A[k].slot = Slot(reg, channel, k - 1) /\ A[k].value = f[k - 1]
  <2>1. k - 1 \in 0 .. n - 1
    OBVIOUS
  <2>2. Slot(reg, channel, k - 1) \in Slots /\ Fits(Slot(reg, channel, k - 1), f[k - 1])
    BY <2>1
  <2>3. A[k] = [slot |-> Slot(reg, channel, k - 1), value |-> f[k - 1]]
    BY DEF WriteTo, Words
  <2>4. f[k - 1] \in Nat
    BY <2>2 DEF Fits
  <2> HIDE DEF Slot
  <2>5. QED
    BY <2>2, <2>3, <2>4 DEF WriteSet
<1>2. A \in Seq(WriteSet) /\ Len(A) = n
  <2>1. A \in [1 .. n -> WriteSet]
    BY <1>1 DEF Words
  <2> HIDE DEF A
  <2> QED
    BY <2>1
<1> HIDE DEF A
<1>3. ASSUME NEW i \in 0 .. n - 1
      PROVE  Leaves(A, Slot(reg, channel, i), f[i])
  <2>1. i + 1 \in 1 .. Len(A) /\ (i + 1) - 1 = i
    BY <1>2
  <2>2. A[i + 1].slot = Slot(reg, channel, i) /\ A[i + 1].value = f[i]
    BY <1>1, <1>2, <2>1
  <2>3. ASSUME NEW j \in i + 2 .. Len(A), A[j].slot = Slot(reg, channel, i)
        PROVE  FALSE
    <3>1. j \in 1 .. n /\ j - 1 # i
      BY <1>2
    <3>2. Slot(reg, channel, j - 1) = Slot(reg, channel, i)
      BY <1>1, <2>3, <3>1
    <3>3. QED
      BY <3>1, <3>2 DEF Slot
  <2>4. (i + 1) + 1 = i + 2
    OBVIOUS
  <2>5. QED
    BY <2>1, <2>2, <2>3, <2>4 DEF Leaves
<1>4. ASSUME NEW s, s[1] # reg \/ s[2] # channel
      PROVE  Untouched(A, s)
  <2>1. ASSUME NEW k \in 1 .. Len(A), A[k].slot = s
        PROVE  FALSE
    <3>1. s = Slot(reg, channel, k - 1)
      BY <1>1, <1>2, <2>1
    <3>2. s[1] = reg /\ s[2] = channel
      BY <3>1 DEF Slot
    <3>3. QED
      BY <1>4, <3>2
  <2>2. QED
    BY <2>1 DEF Untouched
<1>5. QED
  BY <1>2, <1>3, <1>4 DEF A

(* A single write.                                                         *)
LEMMA OneWrite ==
    ASSUME NEW a \in WriteSet
    PROVE  /\ <<a>> \in Seq(WriteSet) /\ Leaves(<<a>>, a.slot, a.value)
           /\ \A s : s # a.slot => Untouched(<<a>>, s)
<1>1. <<a>> \in Seq(WriteSet) /\ Len(<<a>>) = 1 /\ <<a>>[1] = a
  OBVIOUS
<1>2. Leaves(<<a>>, a.slot, a.value)
  BY <1>1 DEF Leaves
<1>3. \A s : s # a.slot => Untouched(<<a>>, s)
  BY <1>1 DEF Untouched
<1>4. QED
  BY <1>1, <1>2, <1>3
-------------------------------------------------------------------------------
(* A command line has each option at most once, and what it gives with     *)
(* them is a setting that the device has.                                  *)
LEMMA CommandFacts ==
    ASSUME NEW line \in Commands
    PROVE  /\ line \in Lines
           /\ line.rss_conf # {} => line.rss_conf = {The(line.rss_conf)}
           /\ line.reta_rst # {} => line.reta_rst = {The(line.reta_rst)}
           /\ line.reta_edit # {} => line.reta_edit = {The(line.reta_edit)}
           /\ \A c \in line.rss_conf : c \in Confs
           /\ \A r \in line.reta_rst : r.ifc \in Channels /\ r.value \in Nat
           /\ \A e \in line.reta_edit : /\ e.ifc \in Channels /\ e.idx \in 0 .. reta_size - 1
                                        /\ e.queue \in Nat
<1>1. line \in Lines
  BY RssCtlAssumption
<1>2. \A c \in line.rss_conf : c \in Confs
  BY <1>1 DEF Lines
<1>3. ASSUME NEW r \in line.reta_rst
      PROVE  r.ifc \in Channels /\ r.value \in Nat
  <2>1. r \in [ifc : Nat, value : Nat]
    BY <1>1 DEF Lines
  <2>2. r.ifc < channels /\ channels \in Nat
    BY RssCtlAssumption
  <2>3. QED
    BY <2>1, <2>2 DEF Channels
<1>4. ASSUME NEW e \in line.reta_edit
      PROVE  e.ifc \in Channels /\ e.idx \in 0 .. reta_size - 1 /\ e.queue \in Nat
  <2>1. e \in [ifc : Nat, idx : Nat, queue : Nat]
    BY <1>1 DEF Lines
  <2>2. e.ifc < channels /\ e.idx < reta_size /\ channels \in Nat /\ reta_size \in Nat
    BY RssCtlAssumption
  <2>3. QED
    BY <2>1, <2>2 DEF Channels
<1>5. ASSUME NEW set \in {line.rss_conf, line.reta_rst, line.reta_edit}, set # {}
      PROVE  set = {The(set)}
  <2>1. The(set) \in set
    BY <1>5 DEF The
  <2>2. \A a, b \in set : a = b
    BY RssCtlAssumption
  <2>3. QED
    BY <2>1, <2>2
<1>6. QED
  BY <1>1, <1>2, <1>3, <1>4, <1>5

(* The queues that a command line names are among those that can be in the *)
(* redirection table.                                                      *)
LEMMA Named ==
    ASSUME NEW line \in Commands
    PROVE  /\ 0 \in QueuesNamed
           /\ \A conf \in line.rss_conf :
                {conf.queue_min} \cup (conf.queue_min .. conf.queue_max) \subseteq QueuesNamed
           /\ \A r \in line.reta_rst : r.value \in QueuesNamed
           /\ \A e \in line.reta_edit : e.queue \in QueuesNamed
<1>1. QueuesOf(line) \subseteq QueuesNamed /\ 0 \in QueuesNamed
  BY DEF QueuesNamed
<1>2. \A conf \in line.rss_conf :
        {conf.queue_min} \cup (conf.queue_min .. conf.queue_max) \subseteq QueuesOf(line)
  BY DEF QueuesOf
<1>3. \A r \in line.reta_rst : r.value \in QueuesOf(line)
  BY DEF QueuesOf
<1>4. \A e \in line.reta_edit : e.queue \in QueuesOf(line)
  BY DEF QueuesOf
<1>5. QED
  BY <1>1, <1>2, <1>3, <1>4

(* The value that a configuration asks for in a slot of its channels.      *)
Asks(conf, s, v) ==
    /\ s[1] = "func"  => v = conf.hash_type
    /\ s[1] = "key"   => v = KeyWord(conf.hash_key, s[3])
    /\ s[1] = "input" => v = conf.input_conf
    /\ s[1] = "reta"  => v = RoundRobin(conf, s[3])

(* set_hash_key leaves every word of the key.                              *)
LEMMA KeyWrites ==
    ASSUME NEW channel \in Channels, NEW key \in Nat
    PROVE  /\ set_hash_key(channel, key) \in Seq(WriteSet)
           /\ \A i \in 0 .. KeyWords - 1 :
                Leaves(set_hash_key(channel, key), Slot("key", channel, i), KeyWord(key, i))
           /\ \A s : s[1] # "key" \/ s[2] # channel => Untouched(set_hash_key(channel, key), s)
<1> DEFINE f == [i \in 0 .. KeyWords - 1 |-> KeyWord(key, i)]
           A == Words("key", channel, KeyWords, f)
<1>1. KeyWords \in Nat /\ WordModulus \in Nat \ {0}
  BY RssCtlAssumption
<1>2. \A i \in 0 .. KeyWords - 1 : f[i] = KeyWord(key, i)
  OBVIOUS
<1>3. ASSUME NEW i \in 0 .. KeyWords - 1
      PROVE  KeyWord(key, i) \in 0 .. WordModulus - 1
  <2>1. Shift[i] \in Nat \ {0}
    BY <1>1, Shifts
  <2>2. key \div Shift[i] \in Nat
    BY <2>1, Division
  <2>3. QED
    BY <1>1, <2>2, Division DEF KeyWord
<1>4. ASSUME NEW i \in 0 .. KeyWords - 1
      PROVE  Slot("key", channel, i) \in Slots /\ Fits(Slot("key", channel, i), f[i])
  <2>1. Slot("key", channel, i) \in Slots
    BY IsSlot
  <2>2. f[i] \in 0 .. WordModulus - 1 /\ f[i] \in Nat
    BY <1>1, <1>2, <1>3
  <2> HIDE DEF f
  <2>3. Fits(Slot("key", channel, i), f[i])
    BY <2>2 DEF Fits, Slot
  <2>4. QED
    BY <2>1, <2>3
<1>5. A = set_hash_key(channel, key)
  <2>1. \A k \in 1 .. KeyWords : f[k - 1] = KeyWord(key, k - 1)
    BY <1>1
  <2> HIDE DEF f
  <2>2. QED
    BY <2>1 DEF set_hash_key, Words
<1> HIDE DEF f
<1>6. /\ A \in Seq(WriteSet)
      /\ \A i \in 0 .. KeyWords - 1 : Leaves(A, Slot("key", channel, i), f[i])
      /\ \A s : s[1] # "key" \/ s[2] # channel => Untouched(A, s)
  BY <1>1, <1>4, TableWrites
<1> HIDE DEF A
<1>7. QED
  BY <1>2, <1>5, <1>6

(* reta_reset leaves the value in every slot of the redirection table.     *)
LEMMA ResetWrites ==
    ASSUME NEW channel \in Channels, NEW value \in QueuesNamed, value \in Nat
    PROVE  /\ reta_reset(channel, value) \in Seq(WriteSet)
           /\ \A i \in 0 .. reta_size - 1 :
                Leaves(reta_reset(channel, value), Slot("reta", channel, i), value)
           /\ \A s : s[1] # "reta" \/ s[2] # channel => Untouched(reta_reset(channel, value), s)
<1> DEFINE f == [i \in 0 .. reta_size - 1 |-> value]
           A == Words("reta", channel, reta_size, f)
<1>1. reta_size \in Nat /\ value # None
  BY RssCtlAssumption DEF None
<1>2. \A i \in 0 .. reta_size - 1 : f[i] = value
  OBVIOUS
<1>3. ASSUME NEW i \in 0 .. reta_size - 1
      PROVE  Slot("reta", channel, i) \in Slots /\ Fits(Slot("reta", channel, i), f[i])
  <2>1. Slot("reta", channel, i) \in Slots
    BY IsSlot
  <2>2. Fits(Slot("reta", channel, i), f[i])
    BY <1>1, <1>2 DEF Fits, Slot
  <2>3. QED
    BY <2>1, <2>2
<1>4. A = reta_reset(channel, value)
  <2>1. \A k \in 1 .. reta_size : f[k - 1] = value
    BY <1>1
  <2> HIDE DEF f
  <2>2. QED
    BY <2>1 DEF reta_reset, Words
<1> HIDE DEF f
<1>5. /\ A \in Seq(WriteSet)
      /\ \A i \in 0 .. reta_size - 1 : Leaves(A, Slot("reta", channel, i), f[i])
      /\ \A s : s[1] # "reta" \/ s[2] # channel => Untouched(A, s)
  BY <1>1, <1>3, TableWrites
<1> HIDE DEF A
<1>6. QED
  BY <1>2, <1>4, <1>5
-------------------------------------------------------------------------------
(* reta_auto deals the queues of the range out in turn, or writes nothing  *)
(* when there is no range.                                                 *)
LEMMA AutoWrites ==
    ASSUME NEW channel \in Channels, NEW line \in Commands, NEW conf \in line.rss_conf
    PROVE  /\ reta_auto(channel, conf) \in Seq(WriteSet)
           /\ None \in {conf.queue_min, conf.queue_max} => reta_auto(channel, conf) = <<>>
           /\ None \notin {conf.queue_min, conf.queue_max} =>
                \A i \in 0 .. reta_size - 1 :
                  Leaves(reta_auto(channel, conf), Slot("reta", channel, i), RoundRobin(conf, i))
           /\ \A s : s[1] # "reta" \/ s[2] # channel => Untouched(reta_auto(channel, conf), s)
<1>1. CASE None \in {conf.queue_min, conf.queue_max}
  <2>1. reta_auto(channel, conf) = <<>>
    BY <1>1 DEF reta_auto
  <2>2. QED
    BY <1>1, <2>1 DEF Untouched
<1>2. CASE None \notin {conf.queue_min, conf.queue_max}
  <2> DEFINE f == [i \in 0 .. reta_size - 1 |-> RoundRobin(conf, i)]
             A == Words("reta", channel, reta_size, f)
  <2>1. reta_size \in Nat /\ conf \in Confs
    BY RssCtlAssumption, CommandFacts
  <2>2. \A i \in 0 .. reta_size - 1 : f[i] = RoundRobin(conf, i)
    OBVIOUS
  <2>3. ASSUME NEW i \in 0 .. reta_size - 1
        PROVE  Slot("reta", channel, i) \in Slots /\ Fits(Slot("reta", channel, i), f[i])
    <3>1. Slot("reta", channel, i) \in Slots
      BY IsSlot
    <3>2. i \in Nat
      BY <2>1
    <3>3. /\ RoundRobin(conf, i) \in Nat
          /\ RoundRobin(conf, i) \in {0, conf.queue_min} \cup conf.queue_min .. conf.queue_max
      BY <2>1, <3>2, RoundRobinQueues
    <3>4. /\ 0 \in QueuesNamed
          /\ {conf.queue_min} \cup (conf.queue_min .. conf.queue_max) \subseteq QueuesNamed
      BY Named
    <3>5. f[i] \in QueuesNamed /\ f[i] \in Nat /\ f[i] # None
      BY <2>2, <3>3, <3>4 DEF None
    <3> HIDE DEF f
    <3>6. Fits(Slot("reta", channel, i), f[i])
      BY <3>5 DEF Fits, Slot
    <3>7. QED
      BY <3>1, <3>6
  <2>4. A = reta_auto(channel, conf)
    <3>1. \A k \in 1 .. reta_size :
            k - 1 \in 0 .. reta_size - 1 /\ f[k - 1] = RetaQueue(conf)[k - 1]
      BY <1>2, <2>1, <2>2, RetaInTurn
    <3> HIDE DEF f
    <3>2. QED
      BY <1>2, <3>1 DEF reta_auto, Words
  <2> HIDE DEF f
  <2>5. /\ A \in Seq(WriteSet)
        /\ \A i \in 0 .. reta_size - 1 : Leaves(A, Slot("reta", channel, i), f[i])
        /\ \A s : s[1] # "reta" \/ s[2] # channel => Untouched(A, s)
    BY <2>1, <2>3, TableWrites
  <2> HIDE DEF A
  <2>6. QED
    BY <1>2, <2>2, <2>4, <2>5
<1>3. QED
  BY <1>1, <1>2

(* One channel: every slot of it gets what the configuration asks for.     *)
LEMMA ChannelWrites ==
    ASSUME NEW channel \in Channels, NEW line \in Commands, NEW conf \in line.rss_conf
    PROVE  /\ ConfigureChannel(channel, conf) \in Seq(WriteSet)
           /\ \A s \in Slots : \A v : s[2] = channel /\ Asks(conf, s, v) =>
                Leaves(ConfigureChannel(channel, conf), s, v)
           /\ \A s \in Slots : s[2] # channel => Untouched(ConfigureChannel(channel, conf), s)
<1> DEFINE func  == WriteTo("func", channel, 0, conf.hash_type)
           input == WriteTo("input", channel, 0, conf.input_conf)
           A == <<func>>
           B == set_hash_key(channel, conf.hash_key)
           C == <<input>>
           D == reta_reset(channel, 0)
           E == reta_auto(channel, conf)
           X == A \o B \o C
           Y == X \o D \o E
<1>1. /\ conf \in Confs /\ conf.hash_type \in {1, 2} /\ conf.input_conf \in Nat
      /\ conf.hash_key \in Nat
  BY CommandFacts DEF Confs
<1>2. /\ func.slot = Slot("func", channel, 0) /\ func.value = conf.hash_type
      /\ input.slot = Slot("input", channel, 0) /\ input.value = conf.input_conf
  BY DEF WriteTo
<1>3. func \in WriteSet /\ input \in WriteSet
  <2>1. Slot("func", channel, 0) \in Slots /\ Slot("input", channel, 0) \in Slots
    BY IsSlot
  <2>2. Fits(Slot("func", channel, 0), conf.hash_type)
    BY <1>1 DEF Fits, Slot
  <2>3. Fits(Slot("input", channel, 0), conf.input_conf)
    BY <1>1 DEF Fits, Slot
  <2>4. conf.hash_type \in Nat
    BY <1>1
  <2> HIDE DEF Slot
  <2>5. QED
    BY <1>1, <2>1, <2>2, <2>3, <2>4 DEF WriteTo, WriteSet
<1>4. ConfigureChannel(channel, conf) = Y
  BY DEF ConfigureChannel
<1>5. /\ A \in Seq(WriteSet) /\ Leaves(A, func.slot, conf.hash_type)
      /\ \A s : s # func.slot => Untouched(A, s)
  <2> HIDE DEF func
  <2>1. QED
    BY <1>2, <1>3, OneWrite
<1>6. /\ C \in Seq(WriteSet) /\ Leaves(C, input.slot, conf.input_conf)
      /\ \A s : s # input.slot => Untouched(C, s)
  <2> HIDE DEF input
  <2>1. QED
    BY <1>2, <1>3, OneWrite
<1>7. /\ B \in Seq(WriteSet)
      /\ \A i \in 0 .. KeyWords - 1 :
           Leaves(B, Slot("key", channel, i), KeyWord(conf.hash_key, i))
      /\ \A s : s[1] # "key" \/ s[2] # channel => Untouched(B, s)
  BY <1>1, KeyWrites
<1>8. /\ D \in Seq(WriteSet)
      /\ \A i \in 0 .. reta_size - 1 : Leaves(D, Slot("reta", channel, i), 0)
      /\ \A s : s[1] # "reta" \/ s[2] # channel => Untouched(D, s)
  <2>1. 0 \in QueuesNamed /\ 0 \in Nat
    BY Named
  <2>2. QED
    BY <2>1, ResetWrites
<1>9. /\ E \in Seq(WriteSet)
      /\ None \in {conf.queue_min, conf.queue_max} => E = <<>>
      /\ None \notin {conf.queue_min, conf.queue_max} =>
           \A i \in 0 .. reta_size - 1 :
             Leaves(E, Slot("reta", channel, i), RoundRobin(conf, i))
      /\ \A s : s[1] # "reta" \/ s[2] # channel => Untouched(E, s)
  BY AutoWrites
<1> HIDE DEF A, B, C, D, E, func, input
<1>10. X \in Seq(WriteSet)
  BY <1>5, <1>6, <1>7, ThreeParts
<1>11. /\ Y \in Seq(WriteSet)
       /\ \A s, v : Leaves(E, s, v) => Leaves(Y, s, v)
       /\ \A s, v : Leaves(D, s, v) /\ Untouched(E, s) => Leaves(Y, s, v)
       /\ \A s, v : Leaves(X, s, v) /\ Untouched(D, s) /\ Untouched(E, s) => Leaves(Y, s, v)
       /\ \A s : Untouched(X, s) /\ Untouched(D, s) /\ Untouched(E, s) => Untouched(Y, s)
  <2> HIDE DEF X
  <2>1. QED
    BY <1>8, <1>9, <1>10, ThreeParts
<1>12. /\ \A s, v : Leaves(C, s, v) => Leaves(X, s, v)
       /\ \A s, v : Leaves(B, s, v) /\ Untouched(C, s) => Leaves(X, s, v)
       /\ \A s, v : Leaves(A, s, v) /\ Untouched(B, s) /\ Untouched(C, s) => Leaves(X, s, v)
       /\ \A s : Untouched(A, s) /\ Untouched(B, s) /\ Untouched(C, s) => Untouched(X, s)
  BY <1>5, <1>6, <1>7, ThreeParts
<1> HIDE DEF X, Y
<1>13. ASSUME NEW s \in Slots, NEW v, s[2] = channel, Asks(conf, s, v)
       PROVE  Leaves(Y, s, v)
  <2>1. s = Slot(s[1], channel, s[3]) /\ s[1] \in {"func", "key", "input", "reta"}
    BY <1>13, SlotShape
  <2>2. CASE s[1] = "func"
    <3>1. s = func.slot /\ v = conf.hash_type
      BY <1>2, <1>13, <2>1, <2>2, SlotShape DEF Asks
    <3>2. Untouched(B, s) /\ Untouched(D, s) /\ Untouched(E, s)
      BY <1>7, <1>8, <1>9, <2>2
    <3>3. Untouched(C, s)
      <4>1. s # input.slot
        BY <1>2, <2>2 DEF Slot
      <4>2. QED
        BY <1>6, <4>1
    <3>4. Leaves(X, s, v)
      BY <1>5, <1>12, <3>1, <3>2, <3>3
    <3>5. QED
      BY <1>11, <3>2, <3>4
  <2>3. CASE s[1] = "key"
    <3>1. s[3] \in 0 .. KeyWords - 1 /\ v = KeyWord(conf.hash_key, s[3])
      BY <1>13, <2>3, SlotShape DEF Asks
    <3>2. Leaves(B, s, v)
      BY <1>7, <2>1, <2>3, <3>1
    <3>3. Untouched(D, s) /\ Untouched(E, s)
      BY <1>8, <1>9, <2>3
    <3>4. Untouched(C, s)
      <4>1. s # input.slot
        BY <1>2, <2>3 DEF Slot
      <4>2. QED
        BY <1>6, <4>1
    <3>5. Leaves(X, s, v)
      BY <1>12, <3>2, <3>4
    <3>6. QED
      BY <1>11, <3>3, <3>5
  <2>4. CASE s[1] = "input"
    <3>1. s = input.slot /\ v = conf.input_conf
      BY <1>2, <1>13, <2>1, <2>4, SlotShape DEF Asks
    <3>2. Untouched(D, s) /\ Untouched(E, s)
      BY <1>8, <1>9, <2>4
    <3>3. Leaves(X, s, v)
      BY <1>6, <1>12, <3>1
    <3>4. QED
      BY <1>11, <3>2, <3>3
  <2>5. CASE s[1] = "reta"
    <3>1. s[3] \in 0 .. reta_size - 1 /\ v = RoundRobin(conf, s[3])
      BY <1>13, <2>5, SlotShape DEF Asks
    <3>2. CASE None \in {conf.queue_min, conf.queue_max}
      <4>1. v = 0
        BY <3>1, <3>2 DEF RoundRobin
      <4>2. Leaves(D, s, v)
        BY <1>8, <2>1, <2>5, <3>1, <4>1
      <4>3. Untouched(E, s)
        BY <1>9, <3>2 DEF Untouched
      <4>4. QED
        BY <1>11, <4>2, <4>3
    <3>3. CASE None \notin {conf.queue_min, conf.queue_max}
      <4>1. Leaves(E, s, v)
        BY <1>9, <2>1, <2>5, <3>1, <3>3
      <4>2. QED
        BY <1>11, <4>1
    <3>4. QED
      BY <3>2, <3>3
  <2>6. QED
    BY <2>1, <2>2, <2>3, <2>4, <2>5
<1>14. ASSUME NEW s \in Slots, s[2] # channel
       PROVE  Untouched(Y, s)
  <2>1. s # func.slot /\ s # input.slot
    BY <1>2, <1>14 DEF Slot
  <2>2. Untouched(A, s) /\ Untouched(C, s)
    BY <1>5, <1>6, <2>1
  <2>3. Untouched(B, s) /\ Untouched(D, s) /\ Untouched(E, s)
    BY <1>7, <1>8, <1>9, <1>14
  <2>4. QED
    BY <1>11, <1>12, <2>2, <2>3
<1>15. QED
  BY <1>4, <1>11, <1>13, <1>14
-------------------------------------------------------------------------------
(* The channels of a configuration, each once.                             *)
LEMMA ChannelListed ==
    ASSUME NEW line \in Commands, ~ BadIfc(line), NEW conf \in line.rss_conf
    PROVE  /\ ChannelList(conf) \in Seq(Channels)
           /\ \A j, k \in 1 .. Len(ChannelList(conf)) :
                ChannelList(conf)[j] = ChannelList(conf)[k] => j = k
           /\ \A channel \in Channels : Covers(conf, channel) =>
                \E j \in 1 .. Len(ChannelList(conf)) : ChannelList(conf)[j] = channel
<1>1. channels \in Nat
  BY RssCtlAssumption
<1>2. CASE conf.ifc = All
  <2> DEFINE list == [k \in 1 .. channels |-> k - 1]
  <2>1. ChannelList(conf) = list
    BY <1>2 DEF ChannelList
  <2>2. list \in Seq(Channels) /\ Len(list) = channels
    BY <1>1 DEF Channels
  <2>3. \A j, k \in 1 .. channels : list[j] = list[k] => j = k
    BY <1>1
  <2>4. ASSUME NEW channel \in Channels
        PROVE  \E j \in 1 .. channels : list[j] = channel
    <3>1. channel + 1 \in 1 .. channels /\ list[channel + 1] = channel
      BY <1>1 DEF Channels
    <3>2. QED
      BY <3>1
  <2> HIDE DEF list
  <2>5. QED
    BY <2>1, <2>2, <2>3, <2>4
<1>3. CASE conf.ifc # All
  <2>1. conf.ifc \in Channels
    <3>1. conf.ifc \in Nat
      BY <1>3, CommandFacts DEF Confs
    <3>2. conf.ifc < channels
      BY <1>1, <1>3, <3>1 DEF BadIfc
    <3>3. QED
      BY <1>1, <3>1, <3>2 DEF Channels
  <2>2. ChannelList(conf) = <<conf.ifc>>
    BY <1>3 DEF ChannelList
  <2>3. \A channel \in Channels : Covers(conf, channel) => channel = conf.ifc
    BY <1>3 DEF Covers
  <2>4. QED
    BY <2>1, <2>2, <2>3
<1>4. QED
  BY <1>2, <1>3

(* configure does so for every channel that the configuration covers.      *)
LEMMA ConfigureWrites ==
    ASSUME NEW line \in Commands, ~ BadIfc(line), NEW conf \in line.rss_conf
    PROVE  /\ configure(conf) \in Seq(WriteSet)
           /\ \A s \in Slots : \A v : Covers(conf, s[2]) /\ Asks(conf, s, v) =>
                Leaves(configure(conf), s, v)
<1> DEFINE list == ChannelList(conf)
           n    == Len(list)
           seqs == [j \in 1 .. n |-> ConfigureChannel(list[j], conf)]
<1>1. configure(conf) = FlattenSeq(seqs)
  BY DEF configure
<1>2. /\ list \in Seq(Channels)
      /\ \A j, k \in 1 .. n : list[j] = list[k] => j = k
      /\ \A channel \in Channels : Covers(conf, channel) => \E j \in 1 .. n : list[j] = channel
  BY ChannelListed
<1> HIDE DEF list
<1>3. n \in Nat /\ \A j \in 1 .. n : list[j] \in Channels
  BY <1>2
<1>4. /\ \A j \in 1 .. n : seqs[j] = ConfigureChannel(list[j], conf)
      /\ seqs \in Seq(Seq(WriteSet)) /\ Len(seqs) = n
  <2>1. \A j \in 1 .. n : ConfigureChannel(list[j], conf) \in Seq(WriteSet)
    BY <1>3, ChannelWrites
  <2> HIDE DEF n
  <2>2. QED
    BY <1>3, <2>1
<1> HIDE DEF seqs
<1>5. FlattenSeq(seqs) \in Seq(WriteSet)
  <2>1. PICK g \in [0 .. Len(seqs) -> Seq(WriteSet)] : g[Len(seqs)] = FlattenSeq(seqs)
    BY <1>4, Flattened
  <2>2. QED
    BY <1>3, <1>4, <2>1
<1>6. ASSUME NEW s \in Slots, NEW v, Covers(conf, s[2]), Asks(conf, s, v)
      PROVE  Leaves(FlattenSeq(seqs), s, v)
  <2>1. s[2] \in Channels
    BY SlotShape
  <2>2. PICK j \in 1 .. n : list[j] = s[2]
    BY <1>2, <1>6, <2>1
  <2>3. Leaves(seqs[j], s, v)
    BY <1>4, <1>6, <2>1, <2>2, ChannelWrites
  <2>4. ASSUME NEW i \in j + 1 .. Len(seqs)
        PROVE  Untouched(seqs[i], s)
    <3>1. i \in 1 .. n /\ i # j
      BY <1>3, <1>4
    <3>2. list[i] # s[2] /\ list[i] \in Channels
      BY <1>2, <1>3, <2>2, <3>1
    <3>3. QED
      BY <1>4, <3>1, <3>2, ChannelWrites
  <2>5. j \in 1 .. Len(seqs)
    BY <1>4
  <2>6. QED
    BY <1>4, <2>3, <2>4, <2>5, FlattenLeaves
<1>7. QED
  BY <1>1, <1>5, <1>6

(* Everything that a command line asks for is the last thing that it       *)
(* writes to the slot.                                                     *)
AskedFor(line, s, v) ==
    \/ s[1] # "reta" /\ \E conf \in line.rss_conf : Covers(conf, s[2]) /\ Asks(conf, s, v)
    \/ s[1] = "reta" /\ v \in RetaAsked(line, s[2], s[3])

Writes(line) == Configured(line) \o Reset(line) \o reta_edit_item(line)

(* The first part of a command line: its configuration.                    *)
LEMMA ConfiguredWrites ==
    ASSUME NEW line \in Commands, ~ BadIfc(line)
    PROVE  /\ Configured(line) \in Seq(WriteSet)
           /\ \A conf \in line.rss_conf : \A s \in Slots : \A v :
                Covers(conf, s[2]) /\ Asks(conf, s, v) => Leaves(Configured(line), s, v)
<1>1. CASE line.rss_conf = {}
  BY <1>1 DEF Configured
<1>2. CASE line.rss_conf # {}
  <2>1. line.rss_conf = {The(line.rss_conf)}
    BY <1>2, CommandFacts
  <2>2. Configured(line) = configure(The(line.rss_conf))
    BY <1>2 DEF Configured
  <2>3. The(line.rss_conf) \in line.rss_conf
    BY <2>1
  <2>4. \A conf \in line.rss_conf : conf = The(line.rss_conf)
    BY <2>1
  <2> DEFINE conf0 == The(line.rss_conf)
  <2> HIDE DEF conf0
  <2>5. QED
    BY <2>2, <2>3, <2>4, ConfigureWrites
<1>3. QED
  BY <1>1, <1>2

(* The second: the reset, which touches the redirection tables only.       *)
LEMMA ResetLineWrites ==
    ASSUME NEW line \in Commands
    PROVE  /\ Reset(line) \in Seq(WriteSet)
           /\ \A r \in line.reta_rst : \A i \in 0 .. reta_size - 1 :
                Leaves(Reset(line), Slot("reta", r.ifc, i), r.value)
           /\ \A s : s[1] # "reta" \/ ~ (\E r \in line.reta_rst : r.ifc = s[2]) =>
                Untouched(Reset(line), s)
<1>1. CASE line.reta_rst = {}
  BY <1>1 DEF Reset, Untouched
<1>2. CASE line.reta_rst # {}
  <2> DEFINE o == The(line.reta_rst)
  <2>1. Reset(line) = reta_reset(o.ifc, o.value)
    BY <1>2 DEF Reset
  <2>2. line.reta_rst = {o}
    BY <1>2, CommandFacts
  <2> HIDE DEF o
  <2>3. o \in line.reta_rst /\ \A r \in line.reta_rst : r = o
    BY <2>2
  <2>4. o.ifc \in Channels /\ o.value \in Nat /\ o.value \in QueuesNamed
    BY <2>3, CommandFacts, Named
  <2>5. /\ reta_reset(o.ifc, o.value) \in Seq(WriteSet)
        /\ \A i \in 0 .. reta_size - 1 :
             Leaves(reta_reset(o.ifc, o.value), Slot("reta", o.ifc, i), o.value)
        /\ \A s : s[1] # "reta" \/ s[2] # o.ifc => Untouched(reta_reset(o.ifc, o.value), s)
    BY <2>4, ResetWrites
  <2>6. QED
    BY <2>1, <2>3, <2>5
<1>3. QED
  BY <1>1, <1>2

(* The third: the edit, which touches one slot only.                       *)
LEMMA EditLineWrites ==
    ASSUME NEW line \in Commands
    PROVE  /\ reta_edit_item(line) \in Seq(WriteSet)
           /\ \A e \in line.reta_edit :
                Leaves(reta_edit_item(line), Slot("reta", e.ifc, e.idx), e.queue)
           /\ \A s \in Slots :
                s[1] # "reta" \/ ~ (\E e \in line.reta_edit : e.ifc = s[2] /\ e.idx = s[3])
                  => Untouched(reta_edit_item(line), s)
<1>1. CASE line.reta_edit = {}
  BY <1>1 DEF reta_edit_item, Untouched
<1>2. CASE line.reta_edit # {}
  <2> DEFINE o == The(line.reta_edit)
             w == WriteTo("reta", o.ifc, o.idx, o.queue)
  <2>1. reta_edit_item(line) = <<w>>
    BY <1>2 DEF reta_edit_item
  <2>2. line.reta_edit = {o}
    BY <1>2, CommandFacts
  <2> HIDE DEF o
  <2>3. o \in line.reta_edit /\ \A e \in line.reta_edit : e = o
    BY <2>2
  <2>4. /\ o.ifc \in Channels /\ o.idx \in 0 .. reta_size - 1 /\ o.queue \in Nat
        /\ o.queue \in QueuesNamed
    BY <2>3, CommandFacts, Named
  <2>5. w.slot = Slot("reta", o.ifc, o.idx) /\ w.value = o.queue
    BY DEF WriteTo
  <2>6. w \in WriteSet
    <3>1. w.slot \in Slots
      BY <2>4, <2>5, IsSlot
    <3>2. Fits(w.slot, w.value)
      <4>1. o.queue # None
        BY <2>4 DEF None
      <4>2. QED
        BY <2>4, <2>5, <4>1 DEF Fits, Slot
    <3>3. w \in [slot : Slots, value : Nat]
      BY <2>4, <2>5, <3>1 DEF WriteTo
    <3> HIDE DEF w
    <3>4. QED
      BY <3>2, <3>3 DEF WriteSet
  <2> HIDE DEF w
  <2>7. /\ <<w>> \in Seq(WriteSet) /\ Leaves(<<w>>, w.slot, w.value)
        /\ \A s : s # w.slot => Untouched(<<w>>, s)
    BY <2>6, OneWrite
  <2>8. ASSUME NEW s \in Slots,
               s[1] # "reta" \/ ~ (\E e \in line.reta_edit : e.ifc = s[2] /\ e.idx = s[3])
        PROVE  s # w.slot
    BY <2>3, <2>5, <2>8 DEF Slot
  <2>9. QED
    BY <2>1, <2>3, <2>5, <2>7, <2>8
<1>3. QED
  BY <1>1, <1>2

(* So each part leaves what it asks for where no later part writes.        *)
LEMMA LineWrites ==
    ASSUME NEW line \in Commands, ~ BadIfc(line)
    PROVE  /\ Writes(line) \in Seq(WriteSet)
           /\ \A s \in Slots : \A v : AskedFor(line, s, v) => Leaves(Writes(line), s, v)
<1> DEFINE A == Configured(line)
           B == Reset(line)
           C == reta_edit_item(line)
<1>1. A \in Seq(WriteSet) /\ B \in Seq(WriteSet) /\ C \in Seq(WriteSet)
  BY ConfiguredWrites, ResetLineWrites, EditLineWrites
<1> HIDE DEF A, B, C
<1>2. /\ A \o B \o C \in Seq(WriteSet)
      /\ \A s, v : Leaves(C, s, v) => Leaves(A \o B \o C, s, v)
      /\ \A s, v : Leaves(B, s, v) /\ Untouched(C, s) => Leaves(A \o B \o C, s, v)
      /\ \A s, v : Leaves(A, s, v) /\ Untouched(B, s) /\ Untouched(C, s)
                     => Leaves(A \o B \o C, s, v)
  BY <1>1, ThreeParts
<1>3. ASSUME NEW s \in Slots, NEW v, AskedFor(line, s, v)
      PROVE  Leaves(A \o B \o C, s, v)
  <2>1. CASE s[1] # "reta"
    <3>1. PICK conf \in line.rss_conf : Covers(conf, s[2]) /\ Asks(conf, s, v)
      BY <1>3, <2>1 DEF AskedFor
    <3>2. Leaves(A, s, v)
      BY <3>1, ConfiguredWrites DEF A
    <3>3. Untouched(B, s) /\ Untouched(C, s)
      BY <2>1, ResetLineWrites, EditLineWrites DEF B, C
    <3>4. QED
      BY <1>2, <3>2, <3>3
  <2>2. CASE s[1] = "reta"
    <3>1. v \in RetaAsked(line, s[2], s[3])
      BY <1>3, <2>2 DEF AskedFor
    <3>2. s = Slot("reta", s[2], s[3]) /\ s[2] \in Channels /\ s[3] \in 0 .. reta_size - 1
      BY <2>2, SlotShape
    <3>3. CASE \E e \in line.reta_edit : e.ifc = s[2] /\ e.idx = s[3]
      <4>1. PICK e \in line.reta_edit : e.ifc = s[2] /\ e.idx = s[3]
        BY <3>3
      <4>2. v \in {d.queue : d \in line.reta_edit}
        BY <3>1, <3>3 DEF RetaAsked
      <4>3. v = e.queue
        BY <4>2, CommandFacts
      <4>4. Leaves(C, s, v)
        BY <3>2, <4>1, <4>3, EditLineWrites DEF C
      <4>5. QED
        BY <1>2, <4>4
    <3>4. CASE /\ ~ \E e \in line.reta_edit : e.ifc = s[2] /\ e.idx = s[3]
               /\ \E r \in line.reta_rst : r.ifc = s[2]
      <4>1. PICK r \in line.reta_rst : r.ifc = s[2]
        BY <3>4
      <4>2. v \in {q.value : q \in line.reta_rst}
        BY <3>1, <3>4 DEF RetaAsked
      <4>3. v = r.value
        BY <4>2, CommandFacts
      <4>4. Leaves(B, s, v)
        BY <3>2, <4>1, <4>3, ResetLineWrites DEF B
      <4>5. Untouched(C, s)
        BY <3>4, EditLineWrites DEF C
      <4>6. QED
        BY <1>2, <4>4, <4>5
    <3>5. CASE /\ ~ \E e \in line.reta_edit : e.ifc = s[2] /\ e.idx = s[3]
               /\ ~ \E r \in line.reta_rst : r.ifc = s[2]
      <4>1. PICK conf \in line.rss_conf : Covers(conf, s[2]) /\ v = RoundRobin(conf, s[3])
        BY <3>1, <3>5 DEF RetaAsked
      <4>2. Asks(conf, s, v)
        BY <2>2, <4>1 DEF Asks
      <4>3. Leaves(A, s, v)
        BY <4>1, <4>2, ConfiguredWrites DEF A
      <4>4. Untouched(B, s) /\ Untouched(C, s)
        BY <3>5, ResetLineWrites, EditLineWrites DEF B, C
      <4>5. QED
        BY <1>2, <4>3, <4>4
    <3>6. QED
      BY <3>3, <3>4, <3>5
  <2>3. QED
    BY <2>1, <2>2
<1>4. Writes(line) = A \o B \o C
  BY DEF Writes, A, B, C
<1>5. QED
  BY <1>2, <1>3, <1>4
-------------------------------------------------------------------------------
(* A dump reads every slot, and nothing else.                              *)
LEMMA ReadsWords ==
    ASSUME NEW reg, NEW channel, NEW n \in Nat,
           \A i \in 0 .. n - 1 : Slot(reg, channel, i) \in Slots
    PROVE  LET A == [k \in 1 .. n |-> ReadOf(Slot(reg, channel, k - 1))] IN
           /\ A \in Seq(ReadSet)
           /\ \A i \in 0 .. n - 1 : Contains(A, ReadOf(Slot(reg, channel, i)))
<1> DEFINE A == [k \in 1 .. n |-> ReadOf(Slot(reg, channel, k - 1))]
<1>1. ASSUME NEW k \in 1 .. n
      PROVE  A[k] = ReadOf(Slot(reg, channel, k - 1)) /\ A[k] \in ReadSet
  <2>1. k - 1 \in 0 .. n - 1
    OBVIOUS
  <2>2. QED
    BY <2>1 DEF ReadSet
<1>2. A \in Seq(ReadSet) /\ Len(A) = n
  BY <1>1
<1>3. ASSUME NEW i \in 0 .. n - 1
      PROVE  Contains(A, ReadOf(Slot(reg, channel, i)))
  <2>1. i + 1 \in 1 .. n /\ (i + 1) - 1 = i
    OBVIOUS
  <2>2. A[i + 1] = ReadOf(Slot(reg, channel, i))
    BY <1>1, <2>1
  <2> HIDE DEF A
  <2>3. QED
    BY <1>2, <2>1, <2>2 DEF Contains
<1>4. QED
  BY <1>2, <1>3

(* A channel is dumped with all of its settings.                           *)
LEMMA ChannelDumped ==
    ASSUME NEW channel \in Channels
    PROVE  /\ DumpChannel(channel) \in Seq(ReadSet)
           /\ \A s \in Slots : s[2] = channel => Contains(DumpChannel(channel), ReadOf(s))
<1> DEFINE A == <<ReadOf(Slot("func", channel, 0))>>
           B == [k \in 1 .. KeyWords |-> ReadOf(Slot("key", channel, k - 1))]
           C == <<ReadOf(Slot("input", channel, 0))>>
           D == [k \in 1 .. reta_size |-> ReadOf(Slot("reta", channel, k - 1))]
<1>1. DumpChannel(channel) = A \o B \o C \o D
  BY DEF DumpChannel
<1>2. A \in Seq(ReadSet) /\ C \in Seq(ReadSet)
  <2>1. ReadOf(Slot("func", channel, 0)) \in ReadSet /\ ReadOf(Slot("input", channel, 0)) \in ReadSet
    BY IsSlot DEF ReadSet
  <2>2. QED
    BY <2>1
<1>3. /\ Contains(A, ReadOf(Slot("func", channel, 0)))
      /\ Contains(C, ReadOf(Slot("input", channel, 0)))
  BY DEF Contains
<1>4. /\ B \in Seq(ReadSet)
      /\ \A i \in 0 .. KeyWords - 1 : Contains(B, ReadOf(Slot("key", channel, i)))
  BY IsSlot, ReadsWords, RssCtlAssumption
<1>5. /\ D \in Seq(ReadSet)
      /\ \A i \in 0 .. reta_size - 1 : Contains(D, ReadOf(Slot("reta", channel, i)))
  BY IsSlot, ReadsWords, RssCtlAssumption
<1> HIDE DEF A, B, C, D
<1> DEFINE X == A \o B
           Y == X \o C
           Z == Y \o D
<1>6. /\ X \in Seq(ReadSet)
      /\ \A x : Contains(A, x) \/ Contains(B, x) => Contains(X, x)
  BY <1>2, <1>4, AppendContains
<1> HIDE DEF X
<1>7. /\ Y \in Seq(ReadSet)
      /\ \A x : Contains(X, x) \/ Contains(C, x) => Contains(Y, x)
  BY <1>2, <1>6, AppendContains
<1> HIDE DEF Y
<1>8. /\ Z \in Seq(ReadSet)
      /\ \A x : Contains(Y, x) \/ Contains(D, x) => Contains(Z, x)
  BY <1>5, <1>7, AppendContains
<1> HIDE DEF Z
<1>9. ASSUME NEW s \in Slots, s[2] = channel
      PROVE  \/ Contains(A, ReadOf(s)) \/ Contains(B, ReadOf(s))
             \/ Contains(C, ReadOf(s)) \/ Contains(D, ReadOf(s))
  <2>1. /\ s = Slot(s[1], channel, s[3]) /\ s[1] \in {"func", "key", "input", "reta"}
        /\ s[1] \in {"func", "input"} => s[3] = 0
        /\ s[1] = "key"  => s[3] \in 0 .. KeyWords - 1
        /\ s[1] = "reta" => s[3] \in 0 .. reta_size - 1
    BY <1>9, SlotShape
  <2>2. CASE s[1] = "func"
    BY <1>3, <2>1, <2>2
  <2>3. CASE s[1] = "input"
    BY <1>3, <2>1, <2>3
  <2>4. CASE s[1] = "key"
    BY <1>4, <2>1, <2>4
  <2>5. CASE s[1] = "reta"
    BY <1>5, <2>1, <2>5
  <2>6. QED
    BY <2>1, <2>2, <2>3, <2>4, <2>5
<1>10. DumpChannel(channel) = Z
  BY <1>1 DEF X, Y, Z
<1>11. QED
  BY <1>6, <1>7, <1>8, <1>9, <1>10

(* So are all channels.                                                    *)
LEMMA AllDumped ==
    /\ dump_conf \in Seq(ReadSet)
    /\ \A s \in Slots : Contains(dump_conf, ReadOf(s))
<1> DEFINE seqs == [k \in 1 .. channels |-> DumpChannel(k - 1)]
<1>1. dump_conf = FlattenSeq(seqs)
  BY DEF dump_conf
<1>2. channels \in Nat
  BY RssCtlAssumption
<1>3. /\ \A k \in 1 .. channels : seqs[k] = DumpChannel(k - 1) /\ k - 1 \in Channels
      /\ seqs \in Seq(Seq(ReadSet)) /\ Len(seqs) = channels
  <2>1. \A k \in 1 .. channels : k - 1 \in Channels
    BY <1>2 DEF Channels
  <2>2. \A k \in 1 .. channels : DumpChannel(k - 1) \in Seq(ReadSet)
    BY <2>1, ChannelDumped
  <2>3. QED
    BY <1>2, <2>1, <2>2
<1> HIDE DEF seqs
<1>4. FlattenSeq(seqs) \in Seq(ReadSet)
  <2>1. PICK g \in [0 .. Len(seqs) -> Seq(ReadSet)] : g[Len(seqs)] = FlattenSeq(seqs)
    BY <1>3, Flattened
  <2>2. QED
    BY <1>2, <1>3, <2>1
<1>5. ASSUME NEW s \in Slots
      PROVE  Contains(FlattenSeq(seqs), ReadOf(s))
  <2>1. s[2] \in Channels
    BY SlotShape
  <2>2. s[2] + 1 \in 1 .. channels /\ (s[2] + 1) - 1 = s[2]
    BY <1>2, <2>1 DEF Channels
  <2>3. Contains(seqs[s[2] + 1], ReadOf(s))
    BY <1>3, <2>1, <2>2, ChannelDumped
  <2>4. QED
    BY <1>3, <2>2, <2>3, FlattenContains
<1>6. QED
  BY <1>1, <1>4, <1>5
-------------------------------------------------------------------------------
(* The accesses of a run: its writes, then the reads of a dump, if any.    *)
WritesFirst(A) ==
    \A j, k \in 1 .. Len(A) : j < k /\ A[j].value = None => A[k].value = None

(* The writes come first and leave what was asked for; a dump reads all.   *)
LEMMA RunAccesses ==
    ASSUME NEW line \in Commands, ~ BadIfc(line)
    PROVE  /\ Accesses(line) \in Seq(WriteSet \cup ReadSet) /\ WritesFirst(Accesses(line))
           /\ \A s \in Slots : \A v : AskedFor(line, s, v) =>
                v # None /\ Leaves(Accesses(line), s, v)
           /\ Dumps(line) => \A s \in Slots : Contains(Accesses(line), ReadOf(s))
<1> DEFINE A == Writes(line)
           B == Dumped(line)
           C == A \o B
           T == WriteSet \cup ReadSet
<1>1. Accesses(line) = C
  BY DEF Accesses, Writes
<1>2. A \in Seq(WriteSet) /\ \A s \in Slots : \A v : AskedFor(line, s, v) => Leaves(A, s, v)
  BY LineWrites
<1>3. B \in Seq(ReadSet) /\ Dumps(line) => \A s \in Slots : Contains(B, ReadOf(s))
  BY AllDumped DEF Dumped
<1>4. B \in Seq(ReadSet)
  BY AllDumped DEF Dumped
<1> HIDE DEF A, B
<1>5. /\ A \in Seq(T) /\ B \in Seq(T) /\ C \in Seq(T)
      /\ Len(A) \in Nat /\ Len(B) \in Nat /\ Len(C) = Len(A) + Len(B)
      /\ \A k \in 1 .. Len(A) : C[k] = A[k] /\ A[k] \in WriteSet
      /\ \A k \in Len(A) + 1 .. Len(C) : C[k] = B[k - Len(A)] /\ B[k - Len(A)] \in ReadSet
  BY <1>2, <1>4
<1>6. \A a \in ReadSet : a.value = None
  BY DEF ReadSet, ReadOf
<1>7. \A a \in WriteSet : a.value # None
  BY DEF WriteSet, None
<1> HIDE DEF C
<1>8. WritesFirst(C)
  <2>1. ASSUME NEW j \in 1 .. Len(C), NEW k \in 1 .. Len(C), j < k, C[j].value = None
        PROVE  C[k].value = None
    <3>1. ~ (j <= Len(A))
      <4>1. ASSUME j \in 1 .. Len(A)
            PROVE  FALSE
        <5>1. C[j] = A[j] /\ A[j] \in WriteSet
          BY <1>5, <4>1
        <5>2. QED
          BY <1>7, <2>1, <5>1
      <4>2. QED
        BY <1>5, <2>1, <4>1
    <3>2. k \in Len(A) + 1 .. Len(C)
      BY <1>5, <2>1, <3>1
    <3>3. C[k] = B[k - Len(A)] /\ B[k - Len(A)] \in ReadSet
      BY <1>5, <3>2
    <3>4. QED
      BY <1>6, <3>3
  <2>2. QED
    BY <2>1 DEF WritesFirst
<1>9. ASSUME NEW s \in Slots, NEW v, AskedFor(line, s, v)
      PROVE  v # None /\ Leaves(C, s, v)
  <2>1. Leaves(A, s, v)
    BY <1>2, <1>9
  <2>2. v # None
    <3>1. PICK k \in 1 .. Len(A) : A[k].value = v
      BY <2>1 DEF Leaves
    <3>2. QED
      BY <1>5, <1>7, <3>1
  <2>3. Untouched(B, s)
    BY <1>4, <1>6 DEF Untouched
  <2>4. QED
    BY <1>5, <2>1, <2>2, <2>3, Concatenated DEF C
<1>10. ASSUME Dumps(line), NEW s \in Slots
       PROVE  Contains(C, ReadOf(s))
  <2>1. Contains(B, ReadOf(s))
    BY <1>3, <1>4, <1>10
  <2>2. QED
    BY <1>5, <2>1, AppendContains DEF C
<1>11. QED
  BY <1>1, <1>5, <1>8, <1>9, <1>10
-------------------------------------------------------------------------------
(* Nothing is left to write.                                               *)
OnlyReads(A) == \A k \in 1 .. Len(A) : A[k].value = None

(* Every variable has its type, and every slot holds what fits into it.    *)
RssTypes ==
    /\ regs \in [Slots -> Nat] /\ \A s \in Slots : Fits(s, regs[s])
    /\ chan_off \in Nat \X Nat
    /\ command \in [Tools -> Commands]
    /\ todo \in [Tools -> Seq(WriteSet \cup ReadSet)]
    /\ pc \in [Tools -> {"waiting", "select", "access", "finished", "failed"}]
    /\ seen \in [Tools -> SUBSET (Slots \X Nat)]
    /\ last \in Tools \cup {None}

(* Only the last run is under way, and what it selects is what it wants.   *)
InTurn ==
    \A t \in Tools :
      /\ pc[t] \in {"select", "access"} => last = t
      /\ pc[t] = "access" => todo[t] # <<>> /\ chan_off = <<Wanted(t)[2], Wanted(t)[3]>>
      /\ pc[t] = "finished" => todo[t] = <<>>
      /\ pc[t] = "waiting" => seen[t] = {}

(* No other run was started since this one was.                            *)
Undisturbed(t) == last = t /\ pc[t] \in {"select", "access", "finished"}

(* What was asked for is still to be written last, or there.               *)
Settled(t, s, v) ==
    v # None /\ (Leaves(todo[t], s, v) \/ (Untouched(todo[t], s) /\ regs[s] = v))

Applying ==
    \A t \in Tools : Undisturbed(t) =>
      \A s \in Slots : \A v : AskedFor(command[t], s, v) => Settled(t, s, v)

(* What a dump has read is still there, and the rest is still to be read.  *)
Dumping ==
    \A t \in Tools : Undisturbed(t) =>
      /\ WritesFirst(todo[t])
      /\ seen[t] # {} => OnlyReads(todo[t])
      /\ seen[t] \subseteq {<<s, regs[s]>> : s \in Slots}
      /\ Dumps(command[t]) => \A s \in Slots :
           Contains(todo[t], ReadOf(s)) \/ <<s, regs[s]>> \in seen[t]

(* The inductive invariant of the RSS tables.                              *)
RssInv == RssTypes /\ InTurn /\ Applying /\ Dumping

(* What is left of the accesses of a run when its next one is taken.       *)
LEMMA NextAccess ==
    ASSUME NEW T, NEW A \in Seq(T), A # <<>>
    PROVE  /\ Tail(A) \in Seq(T) /\ A[1] \in T
           /\ \A s, v : Leaves(A, s, v) =>
                \/ Leaves(Tail(A), s, v)
                \/ Untouched(Tail(A), s) /\ A[1].slot = s /\ A[1].value = v
           /\ \A s : Untouched(A, s) =>
                Untouched(Tail(A), s) /\ (A[1].slot = s => A[1].value = None)
           /\ \A x : Contains(A, x) => A[1] = x \/ Contains(Tail(A), x)
           /\ WritesFirst(A) => WritesFirst(Tail(A))
           /\ WritesFirst(A) /\ A[1].value = None => OnlyReads(Tail(A))
<1> DEFINE B == Tail(A)
<1>1. /\ A[1] \in T /\ B \in Seq(T) /\ Len(A) \in Nat \ {0} /\ Len(B) = Len(A) - 1
      /\ \A k \in 1 .. Len(B) : k + 1 \in 1 .. Len(A) /\ B[k] = A[k + 1]
  OBVIOUS
<1> HIDE DEF B
<1>2. \A k \in 2 .. Len(A) : k - 1 \in 1 .. Len(B) /\ A[k] = B[k - 1]
  BY <1>1
<1>3. ASSUME NEW s, NEW v, Leaves(A, s, v)
      PROVE  \/ Leaves(B, s, v)
             \/ Untouched(B, s) /\ A[1].slot = s /\ A[1].value = v
  <2>1. PICK k \in 1 .. Len(A) :
           /\ A[k].slot = s /\ A[k].value = v
           /\ \A j \in k + 1 .. Len(A) : A[j].slot = s => A[j].value = None
    BY <1>3 DEF Leaves
  <2>2. \A j \in k .. Len(B) : j \in 1 .. Len(B) => (B[j].slot = s => B[j].value = None)
    <3>1. ASSUME NEW j \in 1 .. Len(B), j >= k, B[j].slot = s
          PROVE  B[j].value = None
      <4>1. j + 1 \in k + 1 .. Len(A) /\ B[j] = A[j + 1]
        BY <1>1, <3>1
      <4>2. QED
        BY <2>1, <3>1, <4>1
    <3>2. QED
      BY <1>1, <3>1
  <2>3. CASE k = 1
    <3>1. Untouched(B, s)
      BY <2>2, <2>3 DEF Untouched
    <3>2. QED
      BY <2>1, <2>3, <3>1
  <2>4. CASE k # 1
    <3>1. /\ k - 1 \in 1 .. Len(B) /\ B[k - 1] = A[k] /\ (k - 1) + 1 = k
          /\ \A j \in k .. Len(B) : j \in 1 .. Len(B)
      BY <1>1, <1>2, <2>4
    <3>2. \A j \in (k - 1) + 1 .. Len(B) : B[j].slot = s => B[j].value = None
      BY <2>2, <3>1
    <3>3. Leaves(B, s, v)
      BY <2>1, <3>1, <3>2 DEF Leaves
    <3>4. QED
      BY <3>3
  <2>5. QED
    BY <2>3, <2>4
<1>4. ASSUME NEW s, Untouched(A, s)
      PROVE  Untouched(B, s) /\ (A[1].slot = s => A[1].value = None)
  <2>1. 1 \in 1 .. Len(A)
    BY <1>1
  <2>2. QED
    BY <1>1, <1>4, <2>1 DEF Untouched
<1>5. ASSUME NEW x, Contains(A, x), A[1] # x
      PROVE  Contains(B, x)
  <2>1. PICK k \in 1 .. Len(A) : A[k] = x
    BY <1>5 DEF Contains
  <2>2. k \in 2 .. Len(A)
    BY <1>1, <1>5, <2>1
  <2>3. QED
    BY <1>2, <2>1, <2>2 DEF Contains
<1>6. ASSUME WritesFirst(A)
      PROVE  WritesFirst(B)
  <2>1. ASSUME NEW j \in 1 .. Len(B), NEW k \in 1 .. Len(B), j < k, B[j].value = None
        PROVE  B[k].value = None
    <3>1. j + 1 \in 1 .. Len(A) /\ k + 1 \in 1 .. Len(A) /\ j + 1 < k + 1
      BY <1>1, <2>1
    <3>2. A[j + 1].value = None
      BY <1>1, <2>1
    <3>3. A[k + 1].value = None
      BY <1>6, <3>1, <3>2 DEF WritesFirst
    <3>4. QED
      BY <1>1, <3>3
  <2>2. QED
    BY <2>1 DEF WritesFirst
<1>7. ASSUME WritesFirst(A), A[1].value = None
      PROVE  OnlyReads(B)
  <2>1. ASSUME NEW k \in 1 .. Len(B)
        PROVE  B[k].value = None
    <3>1. 1 \in 1 .. Len(A) /\ k + 1 \in 1 .. Len(A) /\ 1 < k + 1
      BY <1>1
    <3>2. A[k + 1].value = None
      BY <1>7, <3>1 DEF WritesFirst
    <3>3. QED
      BY <1>1, <3>2
  <2>2. QED
    BY <2>1 DEF OnlyReads
<1>8. QED
  BY <1>1, <1>3, <1>4, <1>5, <1>6, <1>7 DEF B
-------------------------------------------------------------------------------
(* Before the first run nothing is under way and nothing was asked for.    *)
LEMMA RssStarts == RssInit => RssInv
<1> SUFFICES ASSUME RssInit
             PROVE  RssInv
  OBVIOUS
<1>1. RssTypes
  <2>1. \A s \in Slots : Fits(s, 0)
    <3>1. WordModulus \in Nat \ {0}
      BY RssCtlAssumption
    <3>2. 0 \in QueuesNamed
      BY DEF QueuesNamed
    <3>3. QED
      BY <3>1, <3>2 DEF Fits, None
  <2>2. regs \in [Slots -> Nat] /\ \A s \in Slots : regs[s] = 0
    BY DEF RssInit
  <2>3. todo \in [Tools -> Seq(WriteSet \cup ReadSet)]
    BY DEF RssInit
  <2>4. /\ pc \in [Tools -> {"waiting", "select", "access", "finished", "failed"}]
        /\ seen \in [Tools -> SUBSET (Slots \X Nat)]
    BY DEF RssInit
  <2>5. chan_off \in Nat \X Nat /\ command \in [Tools -> Commands] /\ last \in Tools \cup {None}
    BY DEF RssInit
  <2>6. QED
    BY <2>1, <2>2, <2>3, <2>4, <2>5 DEF RssTypes
<1>2. \A t \in Tools : pc[t] = "waiting" /\ seen[t] = {}
  BY DEF RssInit
<1>3. QED
  BY <1>1, <1>2 DEF RssInv, InTurn, Applying, Dumping, Undisturbed

(* A run starts with all of its accesses to do, and alone.                 *)
LEMMA StartStep ==
    ASSUME RssInv, NEW t \in Tools, Start(t)
    PROVE  RssInv'
<1>1. /\ pc[t] = "waiting" /\ Running = {} /\ UNCHANGED <<regs, chan_off, command, seen>>
  BY DEF Start
<1>2. /\ RssTypes /\ InTurn /\ Applying /\ Dumping
  BY DEF RssInv
<1>3. \A u \in Tools : pc[u] \notin {"select", "access"}
  BY <1>1 DEF Running
<1>4. CASE pc' = [pc EXCEPT ![t] = "failed"] /\ UNCHANGED <<todo, last>>
  <2>1. pc'[t] = "failed" /\ \A u \in Tools : u # t => pc'[u] = pc[u]
    BY <1>2, <1>4 DEF RssTypes
  <2>2. RssTypes'
    BY <1>1, <1>2, <1>4 DEF RssTypes
  <2>3. InTurn'
    BY <1>1, <1>2, <1>3, <1>4, <2>1 DEF InTurn
  <2>4. \A u \in Tools : Undisturbed(u)' => Undisturbed(u)
    BY <1>4, <2>1 DEF Undisturbed
  <2>5. Applying'
    BY <1>1, <1>2, <1>4, <2>4 DEF Applying, Settled
  <2>6. Dumping'
    BY <1>1, <1>2, <1>4, <2>4 DEF Dumping
  <2>7. QED
    BY <2>2, <2>3, <2>5, <2>6 DEF RssInv
<1>5. CASE /\ ~ BadIfc(command[t])
           /\ pc' = [pc EXCEPT ![t] = "select"]
           /\ todo' = [todo EXCEPT ![t] = Accesses(command[t])]
           /\ last' = t
  <2>1. pc'[t] = "select" /\ \A u \in Tools : u # t => pc'[u] = pc[u]
    BY <1>2, <1>5 DEF RssTypes
  <2>2. todo'[t] = Accesses(command[t]) /\ \A u \in Tools : u # t => todo'[u] = todo[u]
    BY <1>2, <1>5 DEF RssTypes
  <2>3. command[t] \in Commands
    BY <1>2 DEF RssTypes
  <2>4. /\ Accesses(command[t]) \in Seq(WriteSet \cup ReadSet)
        /\ WritesFirst(Accesses(command[t]))
        /\ \A s \in Slots : \A v : AskedFor(command[t], s, v) =>
             v # None /\ Leaves(Accesses(command[t]), s, v)
        /\ Dumps(command[t]) => \A s \in Slots : Contains(Accesses(command[t]), ReadOf(s))
    BY <1>5, <2>3, RunAccesses
  <2>5. RssTypes'
    <3>1. todo' \in [Tools -> Seq(WriteSet \cup ReadSet)]
      BY <1>2, <1>5, <2>4 DEF RssTypes
    <3>2. pc' \in [Tools -> {"waiting", "select", "access", "finished", "failed"}]
      BY <1>2, <1>5 DEF RssTypes
    <3>3. QED
      BY <1>1, <1>2, <1>5, <3>1, <3>2 DEF RssTypes
  <2>6. InTurn'
    BY <1>1, <1>2, <1>3, <1>5, <2>1, <2>2 DEF InTurn
  <2>7. \A u \in Tools : Undisturbed(u)' => u = t
    BY <1>5 DEF Undisturbed
  <2>8. Applying'
    <3>1. \A s \in Slots : \A v : AskedFor(command[t], s, v) => Settled(t, s, v)'
      BY <2>2, <2>4 DEF Settled
    <3>2. QED
      BY <1>1, <2>7, <3>1 DEF Applying
  <2>9. Dumping'
    <3>1. seen[t] = {}
      BY <1>1, <1>2 DEF InTurn
    <3>2. QED
      BY <1>1, <2>2, <2>4, <2>7, <3>1 DEF Dumping
  <2>10. QED
    BY <2>5, <2>6, <2>8, <2>9 DEF RssInv
<1>6. QED
  BY <1>4, <1>5 DEF Start
-------------------------------------------------------------------------------
(* An access writes what fits, or reads.                                   *)
LEMMA AccessKinds ==
    ASSUME NEW a \in WriteSet \cup ReadSet
    PROVE  /\ a.slot \in Slots
           /\ a.value # None => a.value \in Nat /\ Fits(a.slot, a.value)
           /\ a.value = None => a = ReadOf(a.slot)
<1>1. CASE a \in WriteSet
  BY <1>1 DEF WriteSet, None
<1>2. CASE a \in ReadSet
  BY <1>2 DEF ReadSet, ReadOf
<1>3. QED
  BY <1>1, <1>2

(* Selecting a slot changes neither the slots nor what is to do.           *)
LEMMA SelectStep ==
    ASSUME RssInv, NEW t \in Tools, set_reg_chan_off(t)
    PROVE  RssInv'
<1>1. /\ pc[t] = "select" /\ todo[t] # <<>> /\ chan_off' = <<Wanted(t)[2], Wanted(t)[3]>>
      /\ pc' = [pc EXCEPT ![t] = "access"] /\ UNCHANGED <<regs, command, todo, seen, last>>
  BY DEF set_reg_chan_off
<1>2. RssTypes /\ InTurn /\ Applying /\ Dumping
  BY DEF RssInv
<1>3. pc'[t] = "access" /\ \A u \in Tools : u # t => pc'[u] = pc[u]
  BY <1>1, <1>2 DEF RssTypes
<1>4. chan_off' \in Nat \X Nat
  <2>1. todo[t] \in Seq(WriteSet \cup ReadSet)
    BY <1>2 DEF RssTypes
  <2>2. todo[t][1] \in WriteSet \cup ReadSet
    BY <1>1, <2>1, NextAccess
  <2>3. Wanted(t) \in Slots
    BY <2>2, AccessKinds DEF Wanted
  <2>4. Wanted(t)[2] \in Channels /\ Wanted(t)[3] \in Nat
    BY <2>3, SlotShape
  <2>5. Channels \subseteq Nat
    BY RssCtlAssumption DEF Channels
  <2>6. QED
    BY <1>1, <2>4, <2>5
<1>5. RssTypes'
  BY <1>1, <1>2, <1>4 DEF RssTypes
<1>6. InTurn'
  <2>1. ASSUME NEW u \in Tools
        PROVE  /\ pc'[u] \in {"select", "access"} => last' = u
               /\ pc'[u] = "access" => todo'[u] # <<>> /\ chan_off' = <<Wanted(u)'[2], Wanted(u)'[3]>>
               /\ pc'[u] = "finished" => todo'[u] = <<>>
               /\ pc'[u] = "waiting" => seen'[u] = {}
    <3>1. CASE u = t
      BY <1>1, <1>2, <1>3, <3>1 DEF InTurn, Wanted
    <3>2. CASE u # t
      <4>1. pc[t] \in {"select", "access"} /\ last = t
        BY <1>1, <1>2 DEF InTurn
      <4>2. pc[u] # "access"
        BY <1>2, <3>2, <4>1 DEF InTurn
      <4>3. QED
        BY <1>1, <1>2, <1>3, <3>2, <4>2 DEF InTurn
    <3>3. QED
      BY <3>1, <3>2
  <2>2. QED
    BY <2>1 DEF InTurn
<1>7. \A u \in Tools : Undisturbed(u)' => Undisturbed(u)
  BY <1>1, <1>3 DEF Undisturbed
<1>8. Applying'
  BY <1>1, <1>2, <1>7 DEF Applying, Settled
<1>9. Dumping'
  BY <1>1, <1>2, <1>7 DEF Dumping
<1>10. QED
  BY <1>5, <1>6, <1>8, <1>9 DEF RssInv

(* An access goes to the slot that was selected: a write there is what was *)
(* asked for or is followed by one that is, and a read finds what no later *)
(* write changes.                                                          *)
LEMMA AccessStep ==
    ASSUME RssInv, NEW t \in Tools, Access(t)
    PROVE  RssInv'
<1> DEFINE a == todo[t][1]
<1>1. /\ pc[t] = "access" /\ todo' = [todo EXCEPT ![t] = Tail(@)]
      /\ pc' = [pc EXCEPT ![t] = "select"] /\ UNCHANGED <<chan_off, command, last>>
  BY DEF Access
<1>2. RssTypes /\ InTurn /\ Applying /\ Dumping
  BY DEF RssInv
<1>3. last = t /\ todo[t] # <<>> /\ chan_off = <<a.slot[2], a.slot[3]>> /\ Undisturbed(t)
  BY <1>1, <1>2 DEF InTurn, Wanted, Undisturbed
<1>4. todo[t] \in Seq(WriteSet \cup ReadSet)
  BY <1>2 DEF RssTypes
<1>5. /\ Tail(todo[t]) \in Seq(WriteSet \cup ReadSet) /\ a \in WriteSet \cup ReadSet
      /\ \A s, v : Leaves(todo[t], s, v) =>
           \/ Leaves(Tail(todo[t]), s, v)
           \/ Untouched(Tail(todo[t]), s) /\ a.slot = s /\ a.value = v
      /\ \A s : Untouched(todo[t], s) =>
           Untouched(Tail(todo[t]), s) /\ (a.slot = s => a.value = None)
      /\ \A x : Contains(todo[t], x) => a = x \/ Contains(Tail(todo[t]), x)
      /\ WritesFirst(todo[t]) => WritesFirst(Tail(todo[t]))
      /\ WritesFirst(todo[t]) /\ a.value = None => OnlyReads(Tail(todo[t]))
  BY <1>3, <1>4, NextAccess
<1>6. /\ a.slot \in Slots
      /\ a.value # None => a.value \in Nat /\ Fits(a.slot, a.value)
      /\ a.value = None => a = ReadOf(a.slot)
  BY <1>5, AccessKinds
<1>7. Selected(t) = a.slot
  <2> DEFINE s == a.slot
  <2>1. s = Slot(s[1], s[2], s[3]) /\ (s[1] \in {"func", "input"} => s[3] = 0)
    BY <1>6, SlotShape
  <2>2. Selected(t) = Slot(s[1], chan_off[1], IF s[1] \in {"func", "input"} THEN 0 ELSE chan_off[2])
    BY DEF Selected, Wanted
  <2>3. chan_off[1] = s[2] /\ chan_off[2] = s[3]
    BY <1>3
  <2> HIDE DEF s
  <2>4. QED
    BY <2>1, <2>2, <2>3 DEF s
<1>8. pc'[t] = "select" /\ \A u \in Tools : u # t => pc'[u] = pc[u]
  BY <1>1, <1>2 DEF RssTypes
<1>9. todo'[t] = Tail(todo[t]) /\ \A u \in Tools : u # t => todo'[u] = todo[u]
  BY <1>1, <1>2 DEF RssTypes
<1>10. /\ todo' \in [Tools -> Seq(WriteSet \cup ReadSet)]
       /\ pc' \in [Tools -> {"waiting", "select", "access", "finished", "failed"}]
  BY <1>1, <1>2, <1>5 DEF RssTypes
<1>11. \A u \in Tools : Undisturbed(u)' => u = t
  BY <1>1, <1>3 DEF Undisturbed
<1>12. WritesFirst(todo[t]) /\ (seen[t] # {} => OnlyReads(todo[t]))
  BY <1>2, <1>3 DEF Dumping
<1>13. seen[t] \subseteq {<<s, regs[s]>> : s \in Slots}
  BY <1>2, <1>3 DEF Dumping
<1>14. Dumps(command[t]) => \A s \in Slots :
         Contains(todo[t], ReadOf(s)) \/ <<s, regs[s]>> \in seen[t]
  BY <1>2, <1>3 DEF Dumping
<1>15. \A s \in Slots : \A v : AskedFor(command[t], s, v) => Settled(t, s, v)
  BY <1>2, <1>3 DEF Applying
<1>16. InTurn' <=> \A u \in Tools : pc'[u] = "waiting" => seen'[u] = {}
  BY <1>1, <1>2, <1>3, <1>8, <1>9 DEF InTurn
<1> HIDE DEF a
<1>17. CASE /\ a.value # None
            /\ regs' = [s \in Slots |-> IF s = Selected(t) THEN a.value ELSE regs[s]]
            /\ UNCHANGED seen
  <2>1. \A s \in Slots : regs'[s] = IF s = a.slot THEN a.value ELSE regs[s]
    BY <1>7, <1>17
  <2>2. seen[t] = {}
    <3>1. ~ OnlyReads(todo[t])
      <4>1. 1 \in 1 .. Len(todo[t])
        BY <1>3, <1>4
      <4>2. QED
        BY <1>17, <4>1 DEF OnlyReads, a
    <3>2. QED
      BY <1>12, <3>1
  <2>3. RssTypes'
    <3>1. regs' \in [Slots -> Nat]
      BY <1>2, <1>6, <1>17, <2>1 DEF RssTypes
    <3>2. \A s \in Slots : Fits(s, regs'[s])
      BY <1>2, <1>6, <1>17, <2>1 DEF RssTypes
    <3>3. (\A s \in Slots : Fits(s, regs[s]))' <=> \A s \in Slots : Fits(s, regs'[s])
      BY DEF Fits
    <3>4. QED
      BY <1>1, <1>2, <1>10, <1>17, <3>1, <3>2, <3>3 DEF RssTypes
  <2>4. InTurn'
    BY <1>2, <1>8, <1>16, <1>17 DEF InTurn
  <2>5. Applying'
    <3>1. ASSUME NEW s \in Slots, NEW v, AskedFor(command[t], s, v)
          PROVE  Settled(t, s, v)'
      <4>1. CASE Leaves(todo[t], s, v)
        BY <1>5, <1>9, <1>15, <2>1, <3>1, <4>1 DEF Settled
      <4>2. CASE Untouched(todo[t], s) /\ regs[s] = v
        BY <1>5, <1>9, <1>15, <1>17, <2>1, <3>1, <4>2 DEF Settled
      <4>3. QED
        BY <1>15, <3>1, <4>1, <4>2 DEF Settled
    <3>2. QED
      BY <1>1, <1>11, <3>1 DEF Applying
  <2>6. Dumping'
    <3>1. ASSUME NEW s \in Slots, Contains(todo[t], ReadOf(s))
          PROVE  Contains(Tail(todo[t]), ReadOf(s))
      <4>1. a # ReadOf(s)
        BY <1>17 DEF ReadOf
      <4>2. QED
        BY <1>5, <3>1, <4>1
    <3>2. Dumps(command[t]) => \A s \in Slots : Contains(todo'[t], ReadOf(s))
      BY <1>9, <1>14, <2>2, <3>1
    <3>3. WritesFirst(todo'[t]) /\ seen'[t] = {}
      BY <1>5, <1>9, <1>12, <1>17, <2>2
    <3>4. QED
      BY <1>1, <1>11, <3>2, <3>3 DEF Dumping
  <2>7. QED
    BY <2>3, <2>4, <2>5, <2>6 DEF RssInv
<1>18. CASE /\ a.value = None
            /\ seen' = [seen EXCEPT ![t] = @ \cup {<<Wanted(t),
                          IF Selected(t) \in Slots THEN regs[Selected(t)] ELSE 0>>}]
            /\ UNCHANGED regs
  <2>1. /\ seen'[t] = seen[t] \cup {<<a.slot, regs[a.slot]>>}
        /\ \A u \in Tools : u # t => seen'[u] = seen[u]
    BY <1>2, <1>6, <1>7, <1>18 DEF RssTypes, Wanted, a
  <2>2. RssTypes'
    <3>1. <<a.slot, regs[a.slot]>> \in Slots \X Nat
      BY <1>2, <1>6 DEF RssTypes
    <3>2. seen' \in [Tools -> SUBSET (Slots \X Nat)]
      BY <1>2, <1>6, <1>7, <1>18, <3>1 DEF RssTypes, Wanted, a
    <3>3. QED
      BY <1>1, <1>2, <1>10, <1>18, <3>2 DEF RssTypes
  <2>3. InTurn'
    <3>1. ASSUME NEW u \in Tools, pc'[u] = "waiting"
          PROVE  seen'[u] = {}
      BY <1>2, <1>8, <2>1, <3>1 DEF InTurn
    <3>2. QED
      BY <1>16, <3>1
  <2>4. Applying'
    <3>1. ASSUME NEW s \in Slots, NEW v, AskedFor(command[t], s, v)
          PROVE  Settled(t, s, v)'
      <4>1. v # None
        BY <1>15, <3>1 DEF Settled
      <4>2. CASE Leaves(todo[t], s, v)
        BY <1>5, <1>9, <1>18, <4>1, <4>2 DEF Settled
      <4>3. CASE Untouched(todo[t], s) /\ regs[s] = v
        BY <1>5, <1>9, <1>18, <4>1, <4>3 DEF Settled
      <4>4. QED
        BY <1>15, <3>1, <4>2, <4>3 DEF Settled
    <3>2. QED
      BY <1>1, <1>11, <3>1 DEF Applying
  <2>5. Dumping'
    <3>1. WritesFirst(todo'[t]) /\ OnlyReads(todo'[t])
      BY <1>5, <1>9, <1>12, <1>18
    <3>2. seen'[t] \subseteq {<<s, regs'[s]>> : s \in Slots}
      BY <1>6, <1>13, <1>18, <2>1
    <3>3. ASSUME Dumps(command[t]), NEW s \in Slots
          PROVE  Contains(todo'[t], ReadOf(s)) \/ <<s, regs'[s]>> \in seen'[t]
      <4>1. a = ReadOf(s) => a.slot = s
        BY DEF ReadOf
      <4>2. QED
        BY <1>5, <1>9, <1>14, <1>18, <2>1, <3>3, <4>1
    <3>4. QED
      BY <1>1, <1>11, <3>1, <3>2, <3>3 DEF Dumping
  <2>6. QED
    BY <2>2, <2>3, <2>4, <2>5 DEF RssInv
<1>19. QED
  BY <1>17, <1>18 DEF Access, a
-------------------------------------------------------------------------------
(* A run ends when nothing is left to do.                                  *)
LEMMA FinishStep ==
    ASSUME RssInv, NEW t \in Tools, Finish(t)
    PROVE  RssInv'
<1>1. /\ pc[t] = "select" /\ todo[t] = <<>> /\ pc' = [pc EXCEPT ![t] = "finished"]
      /\ UNCHANGED <<regs, chan_off, command, todo, seen, last>>
  BY DEF Finish
<1>2. RssTypes /\ InTurn /\ Applying /\ Dumping
  BY DEF RssInv
<1>3. pc'[t] = "finished" /\ \A u \in Tools : u # t => pc'[u] = pc[u]
  BY <1>1, <1>2 DEF RssTypes
<1>4. RssTypes'
  BY <1>1, <1>2 DEF RssTypes
<1>5. InTurn'
  BY <1>1, <1>2, <1>3 DEF InTurn, Wanted
<1>6. \A u \in Tools : Undisturbed(u)' => Undisturbed(u)
  BY <1>1, <1>3 DEF Undisturbed
<1>7. Applying'
  BY <1>1, <1>2, <1>6 DEF Applying, Settled
<1>8. Dumping'
  BY <1>1, <1>2, <1>6 DEF Dumping
<1>9. QED
  BY <1>4, <1>5, <1>7, <1>8 DEF RssInv

(* A run that is cut off is no run to be judged by.                        *)
LEMMA CutOffStep ==
    ASSUME RssInv, NEW t \in Tools, CutOff(t)
    PROVE  RssInv'
<1>1. /\ t \in Running /\ pc' = [pc EXCEPT ![t] = "failed"]
      /\ todo' = [todo EXCEPT ![t] = <<>>]
      /\ UNCHANGED <<regs, chan_off, command, seen, last>>
  BY DEF CutOff
<1>2. RssTypes /\ InTurn /\ Applying /\ Dumping
  BY DEF RssInv
<1>3. pc'[t] = "failed" /\ \A u \in Tools : u # t => pc'[u] = pc[u] /\ todo'[u] = todo[u]
  BY <1>1, <1>2 DEF RssTypes
<1>4. RssTypes'
  <2>1. <<>> \in Seq(WriteSet \cup ReadSet)
    OBVIOUS
  <2>2. /\ todo' \in [Tools -> Seq(WriteSet \cup ReadSet)]
        /\ pc' \in [Tools -> {"waiting", "select", "access", "finished", "failed"}]
    BY <1>1, <1>2, <2>1 DEF RssTypes
  <2>3. QED
    BY <1>1, <1>2, <2>2 DEF RssTypes
<1>5. last = t
  BY <1>1, <1>2 DEF InTurn, Running
<1>6. InTurn'
  <2>1. \A u \in Tools : u # t => pc[u] \notin {"select", "access"}
    BY <1>2, <1>5 DEF InTurn
  <2>2. QED
    BY <1>1, <1>2, <1>3, <2>1 DEF InTurn
<1>7. \A u \in Tools : ~ Undisturbed(u)'
  BY <1>1, <1>3, <1>5 DEF Undisturbed
<1>8. Applying' /\ Dumping'
  BY <1>7 DEF Applying, Dumping
<1>9. QED
  BY <1>4, <1>6, <1>8 DEF RssInv

(* A step that leaves the variables alone keeps the invariant.             *)
LEMMA RssIdle ==
    ASSUME RssInv, UNCHANGED rssVars
    PROVE  RssInv'
<1>1. UNCHANGED <<regs, chan_off, command, todo, pc, seen, last>>
  BY DEF rssVars
<1>2. RssTypes'
  BY <1>1 DEF RssInv, RssTypes
<1>3. InTurn'
  BY <1>1 DEF RssInv, InTurn, Wanted
<1>4. Applying'
  BY <1>1 DEF RssInv, Applying, Undisturbed, Settled
<1>5. Dumping'
  BY <1>1 DEF RssInv, Dumping, Undisturbed
<1>6. QED
  BY <1>2, <1>3, <1>4, <1>5 DEF RssInv

(* What a run was asked for is last written by it and there when it ends.  *)
THEOREM RssInvariant == RssSpec => []RssInv
<1>1. RssInit => RssInv
  BY RssStarts
<1>2. RssInv /\ [RssNext]_rssVars => RssInv'
  <2> SUFFICES ASSUME RssInv, [RssNext]_rssVars
               PROVE  RssInv'
    OBVIOUS
  <2>1. ASSUME NEW t \in Tools, Start(t)
        PROVE  RssInv'
    BY <2>1, StartStep
  <2>2. ASSUME NEW t \in Tools, set_reg_chan_off(t)
        PROVE  RssInv'
    BY <2>2, SelectStep
  <2>3. ASSUME NEW t \in Tools, Access(t)
        PROVE  RssInv'
    BY <2>3, AccessStep
  <2>4. ASSUME NEW t \in Tools, Finish(t)
        PROVE  RssInv'
    BY <2>4, FinishStep
  <2>5. ASSUME NEW t \in Tools, CutOff(t)
        PROVE  RssInv'
    BY <2>5, CutOffStep
  <2>6. CASE UNCHANGED rssVars
    BY <2>6, RssIdle
  <2>7. QED
    BY <2>1, <2>2, <2>3, <2>4, <2>5, <2>6 DEF RssNext
<1>3. QED
  BY <1>1, <1>2, PTL DEF RssSpec

(* Nothing is left to do: the slots hold what was asked for.               *)
LEMMA Asked ==
    ASSUME RssInv, NEW t \in Tools, pc[t] = "finished", last = t,
           NEW s \in Slots, NEW v, AskedFor(command[t], s, v)
    PROVE  regs[s] = v
<1>1. Undisturbed(t) /\ todo[t] = <<>>
  BY DEF RssInv, InTurn, Undisturbed
<1>2. Settled(t, s, v)
  BY <1>1 DEF RssInv, Applying
<1>3. ~ Leaves(todo[t], s, v)
  BY <1>1 DEF Leaves
<1>4. QED
  BY <1>2, <1>3 DEF Settled

(* Setting by setting: what the configuration, the reset and the edit      *)
(* asked for is in the slot.                                               *)
LEMMA AllApplied == RssInv => ConfigurationApplied
<1> SUFFICES ASSUME RssInv
             PROVE  ConfigurationApplied
  OBVIOUS
<1>1. RssTypeOK
  <2>1. RssTypes
    BY DEF RssInv
  <2>2. ASSUME NEW s \in Slots
        PROVE  /\ s[1] = "func" => regs[s] \in {0, 1, 2}
               /\ s[1] = "key"  => regs[s] \in 0 .. WordModulus - 1
               /\ s[1] = "reta" => regs[s] \in QueuesNamed \ {None}
    <3>1. Fits(s, regs[s])
      BY <2>1 DEF RssTypes
    <3>2. QED
      BY <3>1 DEF Fits
  <2>3. DOMAIN regs = Slots
    BY <2>1 DEF RssTypes
  <2>4. QED
    BY <2>1, <2>2, <2>3 DEF RssTypes, RssTypeOK
<1>2. ASSUME NEW t \in Tools, pc[t] = "finished", last = t, NEW ch \in Channels,
             NEW i \in 0 .. reta_size - 1, NEW v \in RetaAsked(command[t], ch, i)
      PROVE  v = regs[Slot("reta", ch, i)]
  <2> DEFINE s == Slot("reta", ch, i)
  <2>1. s \in Slots /\ s[1] = "reta" /\ s[2] = ch /\ s[3] = i
    BY IsSlot DEF Slot
  <2> HIDE DEF s
  <2>2. AskedFor(command[t], s, v)
    BY <2>1, <1>2 DEF AskedFor
  <2>3. QED
    BY <1>2, <2>1, <2>2, Asked DEF s
<1>3. ASSUME NEW t \in Tools, pc[t] = "finished", last = t, NEW ch \in Channels,
             NEW conf \in command[t].rss_conf, Covers(conf, ch)
      PROVE  /\ HashKey(ch) = conf.hash_key % Shift[KeyWords]
             /\ regs[Slot("func", ch, 0)] = conf.hash_type
             /\ regs[Slot("input", ch, 0)] = conf.input_conf
  <2>1. regs[Slot("func", ch, 0)] = conf.hash_type
    <3> DEFINE s == Slot("func", ch, 0)
    <3>1. s \in Slots /\ s[1] = "func" /\ s[2] = ch
      BY IsSlot DEF Slot
    <3> HIDE DEF s
    <3>2. AskedFor(command[t], s, conf.hash_type)
      BY <1>3, <3>1 DEF AskedFor, Asks
    <3>3. QED
      BY <1>3, <3>1, <3>2, Asked DEF s
  <2>2. regs[Slot("input", ch, 0)] = conf.input_conf
    <3> DEFINE s == Slot("input", ch, 0)
    <3>1. s \in Slots /\ s[1] = "input" /\ s[2] = ch
      BY IsSlot DEF Slot
    <3> HIDE DEF s
    <3>2. AskedFor(command[t], s, conf.input_conf)
      BY <1>3, <3>1 DEF AskedFor, Asks
    <3>3. QED
      BY <1>3, <3>1, <3>2, Asked DEF s
  <2>3. ASSUME NEW i \in 0 .. KeyWords - 1
        PROVE  regs[Slot("key", ch, i)] = KeyWord(conf.hash_key, i)
    <3> DEFINE s == Slot("key", ch, i)
    <3>1. s \in Slots /\ s[1] = "key" /\ s[2] = ch /\ s[3] = i
      BY IsSlot DEF Slot
    <3> HIDE DEF s
    <3>2. AskedFor(command[t], s, KeyWord(conf.hash_key, i))
      BY <1>3, <3>1 DEF AskedFor, Asks
    <3>3. QED
      BY <1>3, <3>1, <3>2, Asked DEF s
  <2>4. conf.hash_key \in Nat
    <3>1. command[t] \in Commands
      BY DEF RssInv, RssTypes
    <3>2. conf \in Confs
      BY <3>1, CommandFacts
    <3>3. QED
      BY <3>2 DEF Confs
  <2>5. HashKey(ch) = conf.hash_key % Shift[KeyWords]
    BY <2>3, <2>4, KeyAgain
  <2>6. QED
    BY <2>1, <2>2, <2>5
<1>4. QED
  BY <1>1, <1>2, <1>3 DEF ConfigurationApplied

(* A run that ends undisturbed leaves in the device what its command line  *)
(* asked for, the edit over the reset over the configuration.              *)
THEOREM Applied == RssSpec => []ConfigurationApplied
<1>1. RssSpec => []RssInv
  BY RssInvariant
<1>2. RssInv => ConfigurationApplied
  BY AllApplied
<1>3. QED
  BY <1>1, <1>2, PTL

(* What a dump prints is every setting that it has a place for, of every   *)
(* channel, as the device holds it.                                        *)
THEOREM Truthful == RssSpec => []DumpTruthful
<1>1. RssSpec => []RssInv
  BY RssInvariant
<1>2. RssInv => DumpTruthful
  <2> SUFFICES ASSUME RssInv, NEW t \in Tools, pc[t] = "finished", last = t,
                      Dumps(command[t])
               PROVE  Shown(t) = {<<s, AsPrinted(s, regs[s])>> : s \in Printed}
    BY DEF DumpTruthful
  <2>1. Undisturbed(t) /\ todo[t] = <<>>
    BY DEF RssInv, InTurn, Undisturbed
  <2>2. seen[t] \subseteq {<<s, regs[s]>> : s \in Slots}
    BY <2>1 DEF RssInv, Dumping
  <2>3. ASSUME NEW s \in Slots
        PROVE  <<s, regs[s]>> \in seen[t]
    <3>1. ~ Contains(todo[t], ReadOf(s))
      BY <2>1 DEF Contains
    <3>2. QED
      BY <2>1, <3>1 DEF RssInv, Dumping
  <2>4. seen[t] = {<<s, regs[s]>> : s \in Slots}
    BY <2>2, <2>3
  <2>5. Printed \subseteq Slots
    BY DEF Printed
  <2> DEFINE line(s) == <<s, AsPrinted(s, regs[s])>>
  <2>6. ASSUME NEW x \in Shown(t)
        PROVE  \E s \in Printed : x = line(s)
    <3>1. PICK q \in seen[t] : q[1] \in Printed /\ x = <<q[1], AsPrinted(q[1], q[2])>>
      BY <2>6 DEF Shown
    <3>2. q[2] = regs[q[1]]
      BY <2>4
    <3>3. QED
      BY <3>1, <3>2
  <2>7. ASSUME NEW s \in Printed
        PROVE  line(s) \in Shown(t)
    <3> DEFINE q == <<s, regs[s]>>
    <3>1. q \in seen[t] /\ q[1] = s /\ q[2] = regs[s]
      BY <2>4, <2>5
    <3> HIDE DEF q
    <3>2. <<q[1], AsPrinted(q[1], q[2])>> \in Shown(t)
      BY <3>1 DEF Shown
    <3>3. QED
      BY <3>1, <3>2
  <2> HIDE DEF line
  <2>8. Shown(t) = {line(s) : s \in Printed}
    BY <2>6, <2>7
  <2>9. QED
    BY <2>8 DEF line
<1>3. QED
  BY <1>1, <1>2, PTL
===============================================================================
