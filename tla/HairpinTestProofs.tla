--------------------------- MODULE HairpinTestProofs ---------------------------
(***************************************************************************)
(* Proofs about HairpinTest, for any number of packets, any burst size,    *)
(* any number of retries, any width of the 16-bit quantities, and whatever *)
(* the NIC takes, loses, delays or splits wrongly.                         *)
(*                                                                         *)
(* The argument: every counter of the test is the number of packets in a   *)
(* set of places, and each step moves a set of packets from one place to   *)
(* another.                                                                *)
(***************************************************************************)
EXTENDS HairpinTest, FiniteSetTheorems, SequenceTheorems, TLAPS

In(W)    == {p \in Packets : where[p] \in W}
Evens(S) == {p \in S : Even(p)}
Odds(S)  == {p \in S : ~ Even(p)}

NicPlaces      == {"wire", "lost", "hairpin", "sw", "read"}
ExpectedPlaces == {"chunk"} \cup NicPlaces

(* What the counters count, wherever lcore_main is.                        *)
CountersInv ==
    /\ expected_sw = Cardinality(Evens(In(ExpectedPlaces)))
    /\ expected_hp = Cardinality(Odds(In(ExpectedPlaces)))
    /\ sw_received = Cardinality(Evens(In({"read"})))
    /\ error_leaked = Cardinality(Odds(In({"read"})))
    /\ \E laps \in Nat : Cardinality(In(NicPlaces)) = sent_total + sent + laps * Modulus

(* The chunk: consecutive packets from i on, those before sent on the NIC, *)
(* the others still in temp_bufs, and nothing made of the numbers behind.  *)
ChunkInv ==
    /\ pc \in {"setup", "generate", "receive", "cleanup", "done"} =>
           temp_bufs = <<>> /\ \A p \in Packets : where[p] # "chunk"
    /\ pc \in {"setup", "generate"} => \A p \in Packets : p >= i => where[p] = "unborn"
    /\ pc = "send" =>
           /\ Len(temp_bufs) <= BurstSize /\ Len(temp_bufs) < Modulus
           /\ i + Len(temp_bufs) <= packets_to_send
           /\ temp_bufs = [j \in 1 .. Len(temp_bufs) |-> i + j - 1]
           /\ \A p \in Packets : where[p] = "chunk" <=> i + sent <= p /\ p < i + Len(temp_bufs)
           /\ \A p \in Packets : p >= i + Len(temp_bufs) => where[p] = "unborn"

(* The verdict is given once, after the last read.                         *)
VerdictInv ==
    /\ verdict # "none" => pc \in {"cleanup", "done"}
    /\ PassedMeansAllRead /\ HealthyPasses

IInv == TypeOK /\ CountersInv /\ ChunkInv /\ VerdictInv
-------------------------------------------------------------------------------

LEMMA PacketsFinite ==
    ASSUME TypeOK
    PROVE  /\ packets_to_send \in Nat /\ Packets \subseteq Nat
           /\ IsFiniteSet(Packets) /\ Cardinality(Packets) = packets_to_send
<1>1. packets_to_send \in Nat
  BY HairpinAssumption DEF TypeOK
<1> QED
  BY <1>1, FS_Interval DEF Packets

(* Even and odd packets of a finite set, of a union and of a difference.   *)
LEMMA Split ==
    ASSUME NEW S, IsFiniteSet(S)
    PROVE  /\ IsFiniteSet(Evens(S)) /\ IsFiniteSet(Odds(S))
           /\ Cardinality(S) \in Nat /\ Cardinality(Evens(S)) \in Nat /\ Cardinality(Odds(S)) \in Nat
           /\ Cardinality(S) = Cardinality(Evens(S)) + Cardinality(Odds(S))
<1>1. Evens(S) \in SUBSET S /\ Odds(S) \in SUBSET S
  BY DEF Evens, Odds
<1>2. IsFiniteSet(Evens(S)) /\ IsFiniteSet(Odds(S))
  BY <1>1, FS_Subset
<1>3. Evens(S) \cup Odds(S) = S /\ Evens(S) \cap Odds(S) = {}
  BY DEF Evens, Odds
<1>4. Cardinality(S) = Cardinality(Evens(S)) + Cardinality(Odds(S)) - Cardinality({})
  BY <1>2, <1>3, FS_Union
<1> QED
  BY <1>2, <1>4, FS_EmptySet, FS_CardinalityType

LEMMA Disjoint ==
    ASSUME NEW S, NEW T, IsFiniteSet(S), IsFiniteSet(T), S \cap T = {}
    PROVE  Cardinality(S \cup T) = Cardinality(S) + Cardinality(T)
<1>1. Cardinality(S \cup T) = Cardinality(S) + Cardinality(T) - Cardinality({})
  BY FS_Union
<1>2. Cardinality(S) \in Nat /\ Cardinality(T) \in Nat
  BY FS_CardinalityType
<1> QED
  BY <1>1, <1>2, FS_EmptySet

LEMMA Adding ==
    ASSUME NEW S, NEW T, IsFiniteSet(S), IsFiniteSet(T), S \cap T = {}
    PROVE  /\ Cardinality(S \cup T) = Cardinality(S) + Cardinality(T)
           /\ Cardinality(Evens(S \cup T)) = Cardinality(Evens(S)) + Cardinality(Evens(T))
           /\ Cardinality(Odds(S \cup T)) = Cardinality(Odds(S)) + Cardinality(Odds(T))
<1>1. Evens(S \cup T) = Evens(S) \cup Evens(T) /\ Evens(S) \cap Evens(T) = {}
  BY DEF Evens
<1>2. Odds(S \cup T) = Odds(S) \cup Odds(T) /\ Odds(S) \cap Odds(T) = {}
  BY DEF Odds
<1> QED
  BY <1>1, <1>2, Split, Disjoint

LEMMA Removing ==
    ASSUME NEW S, NEW T, IsFiniteSet(S), T \subseteq S
    PROVE  /\ Cardinality(Evens(S \ T)) = Cardinality(Evens(S)) - Cardinality(Evens(T))
           /\ Cardinality(Odds(S \ T)) = Cardinality(Odds(S)) - Cardinality(Odds(T))
<1>1. IsFiniteSet(T) /\ IsFiniteSet(S \ T)
  BY FS_Subset
<1>2. (S \ T) \cup T = S /\ (S \ T) \cap T = {}
  OBVIOUS
<1>3. /\ Cardinality(Evens(S)) = Cardinality(Evens(S \ T)) + Cardinality(Evens(T))
      /\ Cardinality(Odds(S)) = Cardinality(Odds(S \ T)) + Cardinality(Odds(T))
  BY <1>1, <1>2, Adding
<1> QED
  BY <1>1, <1>3, Split

(* Any set of packets is finite, and has no more even or odd ones than     *)
(* there are packets.                                                      *)
LEMMA Bounds ==
    ASSUME TypeOK, NEW S \in SUBSET Packets
    PROVE  /\ IsFiniteSet(S)
           /\ Cardinality(S) \in Nat
           /\ Cardinality(Evens(S)) \in 0 .. packets_to_send
           /\ Cardinality(Odds(S)) \in 0 .. packets_to_send
<1>1. IsFiniteSet(S) /\ Cardinality(S) <= packets_to_send
  BY PacketsFinite, FS_Subset
<1> QED
  BY <1>1, PacketsFinite, Split

LEMMA InPackets == ASSUME NEW W PROVE In(W) \in SUBSET Packets
  BY DEF In
-------------------------------------------------------------------------------
(* Moving packets into a set of places, out of it, and within it or past   *)
(* it.                                                                     *)
LEMMA Moves ==
    ASSUME where \in [Packets -> Places], UNCHANGED packets_to_send,
           NEW S \in SUBSET Packets, NEW place \in Places, where' = Moved(S, place)
    PROVE  /\ where' \in [Packets -> Places]
           /\ \A p \in Packets : where'[p] = IF p \in S THEN place ELSE where[p]
           /\ Packets' = Packets
  BY DEF Moved, Packets

LEMMA MovedIn ==
    ASSUME where \in [Packets -> Places], UNCHANGED packets_to_send,
           NEW S \in SUBSET Packets, NEW place \in Places, where' = Moved(S, place),
           NEW W, place \in W, \A p \in S : where[p] \notin W
    PROVE  In(W)' = In(W) \cup S /\ In(W) \cap S = {}
  BY Moves DEF In

LEMMA MovedOut ==
    ASSUME where \in [Packets -> Places], UNCHANGED packets_to_send,
           NEW S \in SUBSET Packets, NEW place \in Places, where' = Moved(S, place),
           NEW W, place \notin W, \A p \in S : where[p] \in W
    PROVE  In(W)' = In(W) \ S /\ S \subseteq In(W)
  BY Moves DEF In

LEMMA MovedPast ==
    ASSUME where \in [Packets -> Places], UNCHANGED packets_to_send,
           NEW S \in SUBSET Packets, NEW place \in Places, where' = Moved(S, place),
           NEW W, \A p \in S : (where[p] \in W <=> place \in W)
    PROVE  In(W)' = In(W)
  BY Moves DEF In

LEMMA NotMoved ==
    ASSUME UNCHANGED <<packets_to_send, where>>, NEW W
    PROVE  In(W)' = In(W) /\ Packets' = Packets
  BY DEF In, Packets


(* The counters after a step, in terms of what is where then.              *)
LEMMA CountersAfter ==
    ASSUME TypeOK, UNCHANGED packets_to_send,
           NEW E, In(ExpectedPlaces)' = E, NEW R, In({"read"})' = R, NEW N, In(NicPlaces)' = N,
           expected_sw' = Cardinality(Evens(E)), expected_hp' = Cardinality(Odds(E)),
           sw_received' = Cardinality(Evens(R)), error_leaked' = Cardinality(Odds(R)),
           NEW laps \in Nat, Cardinality(N) = sent_total' + sent' + laps * Modulus
    PROVE  /\ CountersInv'
           /\ {expected_sw', expected_hp', sw_received', error_leaked'} \subseteq 0 .. packets_to_send'
<1>1. CountersInv'
  BY DEF CountersInv, Evens, Odds, Even
<1>2. E \in SUBSET Packets /\ R \in SUBSET Packets
  BY DEF In, Packets
<1> QED
  BY <1>1, <1>2, Bounds
-------------------------------------------------------------------------------
(* A number below the modulus is its own remainder.                        *)
LEMMA ModSmall ==
    ASSUME NEW m \in Nat \ {0}, NEW a \in 0 .. m - 1
    PROVE  a % m = a
  OBVIOUS

(* Taking the remainder drops whole laps only.                             *)
LEMMA ModLaps ==
    ASSUME NEW a \in Nat, NEW m \in Nat \ {0}
    PROVE  \E d \in Nat : a = (a % m) + d * m
<1>1. a = m * (a \div m) + (a % m) /\ a \div m \in Nat
  OBVIOUS
<1>2. \A d \in Nat : m * d = d * m /\ m * d \in Nat
  OBVIOUS
<1>3. a = (a % m) + (a \div m) * m
  BY <1>1, <1>2
<1> QED
  BY <1>1, <1>3

LEMMA LapsMod ==
    ASSUME NEW m \in Nat \ {0}, NEW a \in 0 .. m - 1, NEW d \in Nat
    PROVE  (a + d * m) % m = a
  OBVIOUS

LEMMA LapsAdd ==
    ASSUME NEW m \in Nat, NEW d \in Nat, NEW e \in Nat
    PROVE  (d + e) * m = d * m + e * m /\ d + e \in Nat
  OBVIOUS

LEMMA MinOfTwo ==
    ASSUME NEW a \in Nat, NEW b \in Nat
    PROVE  Min({a, b}) \in Nat /\ Min({a, b}) <= a /\ Min({a, b}) <= b
<1>1. \E x \in {a, b} : \A y \in {a, b} : x <= y
  <2>1. CASE a <= b
    BY <2>1
  <2>2. CASE ~ a <= b
    BY <2>2
  <2> QED
    BY <2>1, <2>2
<1> QED
  BY <1>1 DEF Min

(* The chunk is not longer than the burst or than what is left.            *)
LEMMA ChunkSize ==
    ASSUME TypeOK, i < packets_to_send
    PROVE  /\ chunk_size \in Nat /\ chunk_size <= BurstSize /\ chunk_size < Modulus
           /\ i + chunk_size <= packets_to_send
<1>1. BurstSize \in Nat /\ Modulus \in Nat /\ BurstSize < Modulus
  BY HairpinAssumption
<1>2. packets_to_send \in Nat /\ i \in Nat /\ packets_to_send - i \in Nat
  BY PacketsFinite DEF TypeOK
<1>3. /\ chunk_size \in Nat /\ chunk_size <= BurstSize /\ chunk_size <= packets_to_send - i
  BY <1>1, <1>2, MinOfTwo DEF chunk_size
<1> QED
  BY <1>1, <1>2, <1>3

(* Consecutive numbers as a sequence, and a part of it.                    *)
LEMMA Consecutive ==
    ASSUME NEW a \in Int, NEW n \in Nat
    PROVE  /\ [j \in 1 .. n |-> a + j - 1] \in Seq(a .. a + n - 1)
           /\ Len([j \in 1 .. n |-> a + j - 1]) = n
           /\ Range([j \in 1 .. n |-> a + j - 1]) = a .. a + n - 1
<1>1. ASSUME NEW p \in a .. a + n - 1
      PROVE  p - a + 1 \in 1 .. n /\ p = a + (p - a + 1) - 1
  OBVIOUS
<1>2. Range([j \in 1 .. n |-> a + j - 1]) = a .. a + n - 1
  <2> DEFINE s == [j \in 1 .. n |-> a + j - 1]
  <2>1. DOMAIN s = 1 .. n /\ \A j \in 1 .. n : s[j] = a + j - 1
    OBVIOUS
  <2>2. Range(s) = {s[j] : j \in 1 .. n}
    BY <2>1 DEF Range
  <2> HIDE DEF s
  <2>3. \A p \in a .. a + n - 1 : s[p - a + 1] = p /\ p - a + 1 \in 1 .. n
    BY <1>1, <2>1
  <2>4. \A j \in 1 .. n : s[j] \in a .. a + n - 1
    BY <2>1
  <2> QED
    BY <2>2, <2>3, <2>4 DEF s
<1>3. [j \in 1 .. n |-> a + j - 1] \in [1 .. n -> a .. a + n - 1]
  OBVIOUS
<1>4. [j \in 1 .. n |-> a + j - 1] \in Seq(a .. a + n - 1)
  BY <1>3, IsASeq
<1> QED
  BY <1>2, <1>4, LenProperties

LEMMA PartOfConsecutive ==
    ASSUME NEW a \in Int, NEW n \in Nat, NEW k \in 1 .. n + 1, NEW l \in k - 1 .. n
    PROVE  SubSeq([j \in 1 .. n |-> a + j - 1], k, l)
               = [j \in 1 .. (l - k + 1) |-> (a + k - 1) + j - 1]
  OBVIOUS
-------------------------------------------------------------------------------
LEMMA InvInit == Init => IInv
<1> SUFFICES ASSUME Init PROVE IInv
  OBVIOUS
<1>1. packets_to_send \in Nat
  BY HairpinAssumption DEF Init
<1>2. where \in [Packets -> Places]
  BY DEF Init, Places
<1>3. TypeOK
  <2>1. <<>> \in Seq(Packets) /\ Len(<<>>) = 0
    BY EmptySeq
  <2>2. 0 \in 0 .. Modulus - 1 /\ 0 \in 0 .. MaxRetries
    BY HairpinAssumption
  <2>3. {timeout, started, bound} \subseteq BOOLEAN
    BY DEF Init
  <2>4. {expected_sw, expected_hp, sw_received, error_leaked} \subseteq 0 .. packets_to_send
    BY <1>1 DEF Init
  <2>5. i \in Nat /\ sent \in 0 .. Len(temp_bufs) /\ retries \in 0 .. MaxRetries
    BY <2>1, <2>2 DEF Init
  <2> QED
    BY <1>2, <2>1, <2>2, <2>3, <2>4, <2>5 DEF Init, TypeOK
<1>4. In(ExpectedPlaces) = {} /\ In({"read"}) = {} /\ In(NicPlaces) = {}
  BY DEF Init, In, ExpectedPlaces, NicPlaces
<1>5. Evens({}) = {} /\ Odds({}) = {} /\ Cardinality({}) = 0
  BY FS_EmptySet DEF Evens, Odds
<1>6. \E laps \in Nat : Cardinality(In(NicPlaces)) = sent_total + sent + laps * Modulus
  <2>1. Cardinality(In(NicPlaces)) = sent_total + sent + 0 * Modulus
    BY <1>4, <1>5, HairpinAssumption DEF Init
  <2> QED
    BY <2>1
<1>7. CountersInv
  <2>1. expected_sw = 0 /\ expected_hp = 0 /\ sw_received = 0 /\ error_leaked = 0
    BY DEF Init
  <2> QED
    BY <1>4, <1>5, <1>6, <2>1 DEF CountersInv
<1>8. ChunkInv
  BY DEF Init, ChunkInv
<1>9. VerdictInv
  BY DEF Init, VerdictInv, PassedMeansAllRead, HealthyPasses
<1> QED
  BY <1>3, <1>7, <1>8, <1>9 DEF IInv
-------------------------------------------------------------------------------
(* Steps that move nothing and count nothing.                              *)
LEMMA CountersKept ==
    ASSUME IInv, UNCHANGED <<packets_to_send, where, expected, sent, sw_received, error_leaked>>
    PROVE  /\ CountersInv'
           /\ {expected_sw', expected_hp', sw_received', error_leaked'} \subseteq 0 .. packets_to_send'
<1>1. /\ In(ExpectedPlaces)' = In(ExpectedPlaces) /\ In({"read"})' = In({"read"})
      /\ In(NicPlaces)' = In(NicPlaces)
  BY NotMoved
<1>2. PICK laps \in Nat : Cardinality(In(NicPlaces)) = sent_total + sent + laps * Modulus
  BY DEF IInv, CountersInv
<1> QED
  BY <1>1, <1>2, CountersAfter DEF IInv, CountersInv, expected

LEMMA QuietStep ==
    ASSUME IInv, UNCHANGED <<packets_to_send, where, expected, chunk, sw_received, error_leaked>>,
           pc' \in {"setup", "generate", "send", "receive", "cleanup", "done", "exited"},
           timeout' \in BOOLEAN, started' \in BOOLEAN, bound' \in BOOLEAN,
           verdict' \in {"none", "PASSED", "FAILED"},
           ChunkInv', VerdictInv'
    PROVE  IInv'
<1>1. CountersInv' /\ {expected_sw', expected_hp', sw_received', error_leaked'} \subseteq 0 .. packets_to_send'
  BY CountersKept DEF chunk
<1>2. TypeOK'
  BY <1>1 DEF IInv, TypeOK, chunk, expected, Packets
<1> QED
  BY <1>1, <1>2 DEF IInv

(* What the verdict speaks of does not change.                             *)
LEMMA NoVerdict == verdict' = "none" => VerdictInv'
  BY DEF VerdictInv, PassedMeansAllRead, HealthyPasses

LEMMA SetupStep == IInv /\ (SetupFails \/ setup_ports) => IInv'
<1> SUFFICES ASSUME IInv, SetupFails \/ setup_ports PROVE IInv'
  OBVIOUS
<1> USE DEF SetupFails, setup_ports, chunk, expected, result, ports
<1>1. verdict' = "none"
  BY DEF IInv, VerdictInv, TypeOK
<1>2. ChunkInv'
  BY DEF IInv, ChunkInv, Packets
<1>3. timeout' \in BOOLEAN /\ started' \in BOOLEAN /\ bound' \in BOOLEAN
  BY DEF IInv, TypeOK
<1> QED
  BY <1>1, <1>2, <1>3, NoVerdict, QuietStep

LEMMA EndOfSending == IInv /\ (PoolEmpty \/ AllSent) => IInv'
<1> SUFFICES ASSUME IInv, PoolEmpty \/ AllSent PROVE IInv'
  OBVIOUS
<1> USE DEF PoolEmpty, AllSent, chunk, expected, result, ports
<1>1. verdict' = "none"
  BY DEF IInv, VerdictInv, TypeOK
<1>2. ChunkInv'
  BY DEF IInv, ChunkInv, Packets
<1>3. timeout' \in BOOLEAN /\ started' \in BOOLEAN /\ bound' \in BOOLEAN
  BY DEF IInv, TypeOK
<1> QED
  BY <1>1, <1>2, <1>3, NoVerdict, QuietStep

LEMMA TimeStep == IInv /\ (ClockTick \/ Cleanup) => IInv'
<1> SUFFICES ASSUME IInv, ClockTick \/ Cleanup PROVE IInv'
  OBVIOUS
<1> USE DEF ClockTick, Cleanup, chunk, expected, result, ports
<1>1. ChunkInv'
  BY DEF IInv, ChunkInv, Packets
<1>2. Packets' = Packets /\ OnNic' = OnNic /\ (Healthy' <=> Healthy)
  BY DEF Packets, OnNic, Healthy
<1>3. PassedMeansAllRead'
  BY <1>2 DEF IInv, VerdictInv, PassedMeansAllRead
<1>4. HealthyPasses'
  BY <1>2 DEF IInv, VerdictInv, HealthyPasses
<1>5. VerdictInv'
  BY <1>3, <1>4 DEF IInv, VerdictInv
<1>6. timeout' \in BOOLEAN /\ started' \in BOOLEAN /\ bound' \in BOOLEAN
  BY DEF IInv, TypeOK
<1>7. verdict' \in {"none", "PASSED", "FAILED"}
  BY DEF IInv, TypeOK
<1> QED
  BY <1>1, <1>5, <1>6, <1>7, QuietStep
-------------------------------------------------------------------------------
(* Generating a chunk: new packets, all of them expected.                  *)
LEMMA GenerateStep == IInv /\ Generate => IInv'
<1> SUFFICES ASSUME IInv, Generate PROVE IInv'
  OBVIOUS
<1> DEFINE n == chunk_size
           S == Range(Chunk)
<1>1. /\ TypeOK /\ CountersInv /\ ChunkInv /\ VerdictInv
      /\ packets_to_send \in Nat /\ i \in Nat /\ pc = "generate"
      /\ where \in [Packets -> Places] /\ UNCHANGED packets_to_send
  BY PacketsFinite DEF IInv, TypeOK, Generate
<1>2. n \in Nat /\ n <= BurstSize /\ n < Modulus /\ i + n <= packets_to_send
  BY <1>1, ChunkSize DEF Generate
<1>3. S = i .. i + n - 1 /\ S \in SUBSET Packets /\ Chunk \in Seq(Packets) /\ Len(Chunk) = n
  <2>1. i .. i + n - 1 \subseteq Packets
    BY <1>1, <1>2 DEF Packets
  <2>2. Chunk = [j \in 1 .. n |-> i + j - 1]
    BY DEF Chunk
  <2> HIDE DEF n
  <2> QED
    BY <1>1, <1>2, <2>1, <2>2, Consecutive
<1> HIDE DEF n, S
<1>4. where' = Moved(S, "chunk") /\ "chunk" \in Places
  BY DEF Generate, S, Places
<1>5. \A p \in S : where[p] = "unborn"
  BY <1>1, <1>2, <1>3 DEF ChunkInv, Packets
<1>6. /\ In(ExpectedPlaces)' = In(ExpectedPlaces) \cup S /\ In(ExpectedPlaces) \cap S = {}
      /\ In({"read"})' = In({"read"}) /\ In(NicPlaces)' = In(NicPlaces)
  <2>1. "chunk" \in ExpectedPlaces /\ \A p \in S : where[p] \notin ExpectedPlaces
    BY <1>5 DEF ExpectedPlaces, NicPlaces
  <2>2. \A p \in S : (where[p] \in {"read"} <=> "chunk" \in {"read"})
    BY <1>5
  <2>3. \A p \in S : (where[p] \in NicPlaces <=> "chunk" \in NicPlaces)
    BY <1>5 DEF NicPlaces
  <2>4. In(ExpectedPlaces)' = In(ExpectedPlaces) \cup S /\ In(ExpectedPlaces) \cap S = {}
    BY <1>1, <1>3, <1>4, <2>1, MovedIn
  <2>5. In({"read"})' = In({"read"})
    BY <1>1, <1>3, <1>4, <2>2, MovedPast
  <2>6. In(NicPlaces)' = In(NicPlaces)
    BY <1>1, <1>3, <1>4, <2>3, MovedPast
  <2> QED
    BY <2>4, <2>5, <2>6
<1>7. CountersInv' /\ {expected_sw', expected_hp', sw_received', error_leaked'} \subseteq 0 .. packets_to_send'
  <2>1. /\ expected_sw' = expected_sw + Cardinality(Evens(S))
        /\ expected_hp' = expected_hp + Cardinality(Odds(S))
        /\ sw_received' = sw_received /\ error_leaked' = error_leaked
        /\ sent' = 0 /\ sent_total' = sent_total
    BY DEF Generate, S, Evens, Odds, result
  <2>2. IsFiniteSet(S) /\ IsFiniteSet(In(ExpectedPlaces))
    BY <1>1, <1>3, Bounds, InPackets
  <2>3. /\ expected_sw' = Cardinality(Evens(In(ExpectedPlaces) \cup S))
        /\ expected_hp' = Cardinality(Odds(In(ExpectedPlaces) \cup S))
    BY <1>1, <1>6, <2>1, <2>2, Adding DEF CountersInv
  <2>4. sent = 0
    BY <1>1, EmptySeq DEF ChunkInv, TypeOK
  <2>5. PICK laps \in Nat : Cardinality(In(NicPlaces)) = sent_total + sent + laps * Modulus
    BY <1>1 DEF CountersInv
  <2> QED
    BY <1>1, <1>6, <2>1, <2>3, <2>4, <2>5, CountersAfter DEF CountersInv
<1>8. pc' = "send" /\ sent' = 0 /\ retries' = 0 /\ i' = i /\ verdict' = verdict /\ temp_bufs' = Chunk
  BY DEF Generate, result
<1>9. where' \in [Packets -> Places] /\ Packets' = Packets
      /\ \A p \in Packets : where'[p] = IF p \in S THEN "chunk" ELSE where[p]
  <2>1. Packets' = Packets
    BY <1>1 DEF Packets
  <2>2. where' = [p \in Packets |-> IF p \in S THEN "chunk" ELSE where[p]]
    BY <1>4 DEF Moved
  <2> QED
    BY <1>1, <1>4, <2>1, <2>2
<1>10. TypeOK'
  <2>1. 0 \in 0 .. n /\ 0 \in 0 .. MaxRetries
    BY <1>2, HairpinAssumption
  <2> QED
    BY <1>1, <1>3, <1>7, <1>8, <1>9, <2>1 DEF TypeOK, Generate, ports, result
<1>11. ChunkInv'
  <2>1. temp_bufs' = [j \in 1 .. Len(temp_bufs') |-> i' + j - 1]
    BY <1>3, <1>8 DEF Chunk, n
  <2>2. \A p \in Packets' : where'[p] = "chunk" <=> i' + sent' <= p /\ p < i' + Len(temp_bufs')
    BY <1>1, <1>2, <1>3, <1>8, <1>9 DEF ChunkInv, Packets
  <2>3. \A p \in Packets' : p >= i' + Len(temp_bufs') => where'[p] = "unborn"
    BY <1>1, <1>2, <1>3, <1>8, <1>9 DEF ChunkInv, Packets
  <2> QED
    BY <1>1, <1>2, <1>3, <1>8, <2>1, <2>2, <2>3 DEF ChunkInv
<1>12. VerdictInv'
  BY <1>1, <1>8, NoVerdict DEF VerdictInv
<1> QED
  BY <1>7, <1>10, <1>11, <1>12 DEF IInv
-------------------------------------------------------------------------------
(* What is left of the chunk, and the part of it that a burst sends.       *)
LEMMA RemainingFacts ==
    ASSUME IInv, pc = "send"
    PROVE  /\ Len(Remaining) = Len(temp_bufs) - sent /\ Len(Remaining) \in Nat
           /\ Range(Remaining) = i + sent .. i + Len(temp_bufs) - 1
           /\ Range(Remaining) \in SUBSET Packets
           /\ \A p \in Packets : p \in Range(Remaining) <=> where[p] = "chunk"
           /\ \A k \in 0 .. Len(Remaining) :
                 /\ Range(SubSeq(Remaining, 1, k)) = i + sent .. i + sent + k - 1
                 /\ Range(SubSeq(Remaining, 1, k)) \subseteq Range(Remaining)
<1> DEFINE n == Len(temp_bufs)
<1>1. /\ n \in Nat /\ sent \in 0 .. n /\ i \in Nat /\ i + n <= packets_to_send
      /\ packets_to_send \in Nat /\ temp_bufs = [j \in 1 .. n |-> i + j - 1]
  BY PacketsFinite, LenProperties DEF IInv, TypeOK, ChunkInv
<1> DEFINE r == n - sent
           a == i + sent
<1>2. r \in Nat /\ a \in Int /\ sent + 1 \in 1 .. n + 1 /\ n \in (sent + 1) - 1 .. n
      /\ n - (sent + 1) + 1 = r /\ i + (sent + 1) - 1 = a /\ a + r = i + n
  BY <1>1
<1>3. Remaining = SubSeq([j \in 1 .. n |-> i + j - 1], sent + 1, n)
  BY <1>1 DEF Remaining
<1> HIDE DEF n
<1>4. Remaining = [j \in 1 .. (n - (sent + 1) + 1) |-> (i + (sent + 1) - 1) + j - 1]
  BY <1>1, <1>2, <1>3, PartOfConsecutive
<1>5. Remaining = [j \in 1 .. r |-> a + j - 1]
  BY <1>2, <1>4
<1> HIDE DEF r, a
<1>6. Len(Remaining) = r /\ Range(Remaining) = a .. a + r - 1
  BY <1>2, <1>5, Consecutive
<1>7. ASSUME NEW k \in 0 .. r
      PROVE  Range(SubSeq(Remaining, 1, k)) = a .. a + k - 1
  <2>1. 1 \in 1 .. r + 1 /\ k \in 1 - 1 .. r /\ k \in Nat
    BY <1>2, <1>7
  <2>2. SubSeq(Remaining, 1, k) = [j \in 1 .. (k - 1 + 1) |-> (a + 1 - 1) + j - 1]
    BY <1>2, <1>5, <2>1, PartOfConsecutive
  <2>3. k - 1 + 1 = k /\ a + 1 - 1 = a
    BY <1>2, <2>1
  <2>4. SubSeq(Remaining, 1, k) = [j \in 1 .. k |-> a + j - 1]
    BY <2>2, <2>3
  <2> QED
    BY <1>2, <2>1, <2>4, Consecutive
<1>8. a .. a + r - 1 \subseteq Packets
  BY <1>1, <1>2 DEF a, Packets
<1>9. \A p \in Packets : where[p] = "chunk" <=> i + sent <= p /\ p < i + n
  BY DEF IInv, ChunkInv, n
<1>10. \A p \in Packets : p \in a .. a + r - 1 <=> where[p] = "chunk"
  BY <1>1, <1>2, <1>9, PacketsFinite DEF a, Packets
<1>11. \A k \in 0 .. r : a .. a + k - 1 \subseteq a .. a + r - 1
  BY <1>2
<1> QED
  BY <1>1, <1>2, <1>6, <1>7, <1>8, <1>10, <1>11 DEF r, a, n

(* A burst: the NIC takes the front of what is left.                       *)
LEMMA SendStep == IInv /\ Send => IInv'
<1> SUFFICES ASSUME IInv, Send PROVE IInv'
  OBVIOUS
<1>1. /\ TypeOK /\ CountersInv /\ ChunkInv /\ VerdictInv
      /\ packets_to_send \in Nat /\ i \in Nat /\ pc = "send"
      /\ sent \in 0 .. Len(temp_bufs) /\ Len(temp_bufs) \in Nat /\ sent_total \in Int
      /\ where \in [Packets -> Places] /\ UNCHANGED packets_to_send
  BY PacketsFinite, LenProperties DEF IInv, TypeOK, Send
<1>2. PICK k \in 0 .. Len(Remaining) :
          /\ where' = Moved(Range(SubSeq(Remaining, 1, k)), "wire")
          /\ sent' = (sent + k) % Modulus
          /\ retries' = IF k < Len(Remaining) THEN retries + 1 ELSE retries
  BY RemainingFacts DEF Send
<1>3. /\ pc' = pc /\ i' = i /\ temp_bufs' = temp_bufs /\ verdict' = verdict
      /\ UNCHANGED <<ports, timeout>>
      /\ UNCHANGED <<expected_sw, expected_hp, sent_total, sw_received, error_leaked>>
      /\ retries < MaxRetries
  BY DEF Send, expected, result, TryAgain
<1> DEFINE S == Range(SubSeq(Remaining, 1, k))
<1>4. /\ S = i + sent .. i + sent + k - 1 /\ S \in SUBSET Packets
      /\ \A p \in S : where[p] = "chunk"
      /\ k \in Nat /\ sent + k <= Len(temp_bufs)
  BY <1>1, <1>2, RemainingFacts
<1> HIDE DEF S
<1>5. sent' = sent + k
  <2>1. sent + k \in 0 .. Modulus - 1
    BY <1>1, <1>4, HairpinAssumption DEF ChunkInv
  <2> QED
    BY <1>2, <2>1, HairpinAssumption, ModSmall
<1>6. where' = Moved(S, "wire") /\ "wire" \in Places
  BY <1>2 DEF S, Places
<1>7. /\ In(ExpectedPlaces)' = In(ExpectedPlaces) /\ In({"read"})' = In({"read"})
      /\ In(NicPlaces)' = In(NicPlaces) \cup S /\ In(NicPlaces) \cap S = {}
  <2>1. "wire" \in NicPlaces /\ \A p \in S : where[p] \notin NicPlaces
    BY <1>4 DEF NicPlaces
  <2>2. \A p \in S : (where[p] \in {"read"} <=> "wire" \in {"read"})
    BY <1>4
  <2>3. \A p \in S : (where[p] \in ExpectedPlaces <=> "wire" \in ExpectedPlaces)
    BY <1>4 DEF ExpectedPlaces, NicPlaces
  <2>4. In(NicPlaces)' = In(NicPlaces) \cup S /\ In(NicPlaces) \cap S = {}
    BY <1>1, <1>4, <1>6, <2>1, MovedIn
  <2>5. In({"read"})' = In({"read"})
    BY <1>1, <1>4, <1>6, <2>2, MovedPast
  <2>6. In(ExpectedPlaces)' = In(ExpectedPlaces)
    BY <1>1, <1>4, <1>6, <2>3, MovedPast
  <2> QED
    BY <2>4, <2>5, <2>6
<1>8. CountersInv' /\ {expected_sw', expected_hp', sw_received', error_leaked'} \subseteq 0 .. packets_to_send'
  <2>1. Cardinality(S) = k
    BY <1>1, <1>4, FS_Interval
  <2>2. IsFiniteSet(S) /\ IsFiniteSet(In(NicPlaces))
    BY <1>1, <1>4, Bounds, InPackets
  <2>3. Cardinality(In(NicPlaces) \cup S) = Cardinality(In(NicPlaces)) + k
    BY <1>7, <2>1, <2>2, Disjoint
  <2>4. PICK laps \in Nat : Cardinality(In(NicPlaces)) = sent_total + sent + laps * Modulus
    BY <1>1 DEF CountersInv
  <2>5. laps * Modulus \in Nat
    BY HairpinAssumption
  <2>6. Cardinality(In(NicPlaces) \cup S) = sent_total' + sent' + laps * Modulus
    BY <1>1, <1>3, <1>4, <1>5, <2>3, <2>4, <2>5
  <2> QED
    BY <1>1, <1>3, <1>7, <2>6, CountersAfter DEF CountersInv
<1>9. where' \in [Packets -> Places] /\ Packets' = Packets
      /\ \A p \in Packets : where'[p] = IF p \in S THEN "wire" ELSE where[p]
  BY <1>1, <1>4, <1>6, Moves
<1>10. TypeOK'
  <2>1. sent' \in 0 .. Len(temp_bufs') /\ retries' \in 0 .. MaxRetries
    BY <1>1, <1>2, <1>3, <1>4, <1>5, HairpinAssumption DEF TypeOK
  <2> QED
    BY <1>1, <1>3, <1>8, <1>9, <2>1 DEF TypeOK, ports
<1>11. ChunkInv'
  <2>1. \A p \in Packets' : where'[p] = "chunk" <=> i' + sent' <= p /\ p < i' + Len(temp_bufs')
    BY <1>1, <1>3, <1>4, <1>5, <1>9 DEF ChunkInv, Packets
  <2>2. \A p \in Packets' : p >= i' + Len(temp_bufs') => where'[p] = "unborn"
    BY <1>1, <1>3, <1>4, <1>9 DEF ChunkInv, Packets
  <2> QED
    BY <1>1, <1>3, <2>1, <2>2 DEF ChunkInv
<1>12. VerdictInv'
  BY <1>1, <1>3, NoVerdict DEF VerdictInv
<1> QED
  BY <1>8, <1>10, <1>11, <1>12 DEF IInv

(* The end of a chunk: what was not sent is freed and no longer expected.  *)
LEMMA ChunkDoneStep == IInv /\ ChunkDone => IInv'
<1> SUFFICES ASSUME IInv, ChunkDone PROVE IInv'
  OBVIOUS
<1>1. /\ TypeOK /\ CountersInv /\ ChunkInv /\ VerdictInv
      /\ packets_to_send \in Nat /\ i \in Nat /\ pc = "send"
      /\ sent \in 0 .. Len(temp_bufs) /\ Len(temp_bufs) \in Nat /\ sent_total \in Nat
      /\ where \in [Packets -> Places] /\ UNCHANGED packets_to_send
  BY PacketsFinite, LenProperties, HairpinAssumption DEF IInv, TypeOK, ChunkDone
<1> DEFINE S == Range(Remaining)
<1>2. /\ S \in SUBSET Packets
      /\ \A p \in Packets : p \in S <=> where[p] = "chunk"
  BY <1>1, RemainingFacts
<1>3. /\ expected_sw' = expected_sw - Cardinality(Evens(S))
      /\ expected_hp' = expected_hp - Cardinality(Odds(S))
      /\ sent_total' = (sent_total + sent) % Modulus
      /\ i' = i + BurstSize /\ temp_bufs' = <<>> /\ sent' = 0 /\ retries' = 0
      /\ pc' = "generate" /\ verdict' = verdict
      /\ UNCHANGED <<ports, timeout, sw_received, error_leaked>>
  BY DEF ChunkDone, Evens, Odds, result
<1>4. where' = Moved(S, "freed") /\ "freed" \in Places
  BY DEF ChunkDone, Places
<1> HIDE DEF S
<1>5. /\ In(ExpectedPlaces)' = In(ExpectedPlaces) \ S /\ S \subseteq In(ExpectedPlaces)
      /\ In({"read"})' = In({"read"}) /\ In(NicPlaces)' = In(NicPlaces)
  <2>1. "freed" \notin ExpectedPlaces /\ \A p \in S : where[p] \in ExpectedPlaces
    BY <1>2 DEF ExpectedPlaces, NicPlaces
  <2>2. \A p \in S : (where[p] \in {"read"} <=> "freed" \in {"read"})
    BY <1>2
  <2>3. \A p \in S : (where[p] \in NicPlaces <=> "freed" \in NicPlaces)
    BY <1>2 DEF NicPlaces
  <2>4. In(ExpectedPlaces)' = In(ExpectedPlaces) \ S /\ S \subseteq In(ExpectedPlaces)
    BY <1>1, <1>2, <1>4, <2>1, MovedOut
  <2>5. In({"read"})' = In({"read"})
    BY <1>1, <1>2, <1>4, <2>2, MovedPast
  <2>6. In(NicPlaces)' = In(NicPlaces)
    BY <1>1, <1>2, <1>4, <2>3, MovedPast
  <2> QED
    BY <2>4, <2>5, <2>6
<1>6. CountersInv' /\ {expected_sw', expected_hp', sw_received', error_leaked'} \subseteq 0 .. packets_to_send'
  <2>1. IsFiniteSet(In(ExpectedPlaces))
    BY <1>1, Bounds, InPackets
  <2>2. /\ expected_sw' = Cardinality(Evens(In(ExpectedPlaces) \ S))
        /\ expected_hp' = Cardinality(Odds(In(ExpectedPlaces) \ S))
    BY <1>1, <1>3, <1>5, <2>1, Removing DEF CountersInv
  <2>3. PICK laps \in Nat : Cardinality(In(NicPlaces)) = sent_total + sent + laps * Modulus
    BY <1>1 DEF CountersInv
  <2>4. PICK d \in Nat : sent_total + sent = sent_total' + d * Modulus
    <3>1. sent_total + sent \in Nat
      BY <1>1
    <3>2. \E d \in Nat : sent_total + sent = ((sent_total + sent) % Modulus) + d * Modulus
      BY <3>1, HairpinAssumption, ModLaps
    <3> QED
      BY <1>3, <3>2
  <2>5. (d + laps) * Modulus = d * Modulus + laps * Modulus /\ d + laps \in Nat
    BY HairpinAssumption, LapsAdd
  <2>6. d * Modulus \in Nat /\ laps * Modulus \in Nat /\ sent_total' \in Nat
    BY <1>1, <1>3, HairpinAssumption
  <2>7. Cardinality(In(NicPlaces)) = sent_total' + sent' + (d + laps) * Modulus
    BY <1>3, <2>3, <2>4, <2>5, <2>6
  <2> QED
    BY <1>1, <1>3, <1>5, <2>2, <2>5, <2>7, CountersAfter DEF CountersInv
<1>7. where' \in [Packets -> Places] /\ Packets' = Packets
      /\ \A p \in Packets : where'[p] = IF p \in S THEN "freed" ELSE where[p]
  BY <1>1, <1>2, <1>4, Moves
<1>8. TypeOK'
  <2>1. i' \in Nat /\ 0 \in 0 .. MaxRetries
    BY <1>1, <1>3, HairpinAssumption
  <2>2. sent_total' \in 0 .. Modulus - 1
    BY <1>1, <1>3, HairpinAssumption
  <2>3. temp_bufs' \in Seq(Packets') /\ sent' \in 0 .. Len(temp_bufs')
    BY <1>3, EmptySeq
  <2> QED
    BY <1>1, <1>3, <1>6, <1>7, <2>1, <2>2, <2>3 DEF TypeOK, ports
<1>9. ChunkInv'
  <2>1. \A p \in Packets' : where'[p] # "chunk"
    BY <1>2, <1>7
  <2>2. \A p \in Packets' : p >= i' => where'[p] = "unborn"
    BY <1>1, <1>2, <1>3, <1>7, PacketsFinite, HairpinAssumption DEF ChunkInv
  <2> QED
    BY <1>3, <2>1, <2>2 DEF ChunkInv
<1>10. VerdictInv'
  BY <1>1, <1>3, NoVerdict DEF VerdictInv
<1> QED
  BY <1>6, <1>8, <1>9, <1>10 DEF IInv
-------------------------------------------------------------------------------
(* A round over the queues: packets in software are read and counted.      *)
LEMMA ReceiveStep == IInv /\ ReceiveRound => IInv'
<1> SUFFICES ASSUME IInv, ReceiveRound PROVE IInv'
  OBVIOUS
<1>1. /\ TypeOK /\ CountersInv /\ ChunkInv /\ VerdictInv /\ pc = "receive"
      /\ where \in [Packets -> Places] /\ UNCHANGED packets_to_send
  BY DEF IInv, TypeOK, ReceiveRound
<1>2. PICK S \in SUBSET InSw :
          /\ sw_received' = sw_received + Cardinality(Evens(S))
          /\ error_leaked' = error_leaked + Cardinality(Odds(S))
          /\ where' = Moved(S, "read")
  BY DEF ReceiveRound, CountsByAddress, Evens, Odds
<1>3. S \in SUBSET Packets /\ "read" \in Places /\ \A p \in S : where[p] = "sw"
  BY DEF InSw, Places
<1>4. UNCHANGED <<ports, pc, chunk, expected, timeout, verdict>>
  BY DEF ReceiveRound
<1>5. /\ In(ExpectedPlaces)' = In(ExpectedPlaces) /\ In(NicPlaces)' = In(NicPlaces)
      /\ In({"read"})' = In({"read"}) \cup S /\ In({"read"}) \cap S = {}
  <2>1. "read" \in {"read"} /\ \A p \in S : where[p] \notin {"read"}
    BY <1>3
  <2>2. \A p \in S : (where[p] \in ExpectedPlaces <=> "read" \in ExpectedPlaces)
    BY <1>3 DEF ExpectedPlaces, NicPlaces
  <2>3. \A p \in S : (where[p] \in NicPlaces <=> "read" \in NicPlaces)
    BY <1>3 DEF NicPlaces
  <2>4. In({"read"})' = In({"read"}) \cup S /\ In({"read"}) \cap S = {}
    BY <1>1, <1>2, <1>3, <2>1, MovedIn
  <2>5. In(ExpectedPlaces)' = In(ExpectedPlaces)
    BY <1>1, <1>2, <1>3, <2>2, MovedPast
  <2>6. In(NicPlaces)' = In(NicPlaces)
    BY <1>1, <1>2, <1>3, <2>3, MovedPast
  <2> QED
    BY <2>4, <2>5, <2>6
<1>6. CountersInv' /\ {expected_sw', expected_hp', sw_received', error_leaked'} \subseteq 0 .. packets_to_send'
  <2>1. IsFiniteSet(S) /\ IsFiniteSet(In({"read"}))
    BY <1>1, <1>3, Bounds, InPackets
  <2>2. /\ sw_received' = Cardinality(Evens(In({"read"}) \cup S))
        /\ error_leaked' = Cardinality(Odds(In({"read"}) \cup S))
    BY <1>1, <1>2, <1>5, <2>1, Adding DEF CountersInv
  <2>3. PICK laps \in Nat : Cardinality(In(NicPlaces)) = sent_total + sent + laps * Modulus
    BY <1>1 DEF CountersInv
  <2> QED
    BY <1>1, <1>4, <1>5, <2>2, <2>3, CountersAfter DEF CountersInv, chunk, expected
<1>7. where' \in [Packets -> Places] /\ Packets' = Packets
      /\ \A p \in Packets : where'[p] = IF p \in S THEN "read" ELSE where[p]
  BY <1>1, <1>2, <1>3, Moves
<1>8. TypeOK'
  BY <1>1, <1>4, <1>6, <1>7 DEF TypeOK, ports, chunk, expected
<1>9. ChunkInv'
  BY <1>1, <1>3, <1>4, <1>7 DEF ChunkInv, chunk
<1>10. VerdictInv'
  BY <1>1, <1>4, NoVerdict DEF VerdictInv
<1> QED
  BY <1>6, <1>8, <1>9, <1>10 DEF IInv

(* The verdict.  As many even packets were read as are expected, so those  *)
(* that were read are all of them; and a NIC that does as told can only    *)
(* have fewer read because it is late.                                     *)
LEMMA VerdictStep == IInv /\ Verdict => IInv'
<1> SUFFICES ASSUME IInv, Verdict PROVE IInv'
  OBVIOUS
<1>1. /\ TypeOK /\ CountersInv /\ ChunkInv /\ pc = "receive" /\ pc' = "cleanup"
      /\ UNCHANGED <<packets_to_send, ports, chunk, expected, sw_received, error_leaked, timeout, where>>
      /\ verdict' = IF Pass THEN "PASSED" ELSE "FAILED"
      /\ ~ KeepReading
  BY DEF IInv, Verdict
<1>2. /\ IsFiniteSet(Evens(In(ExpectedPlaces)))
      /\ IsFiniteSet(Evens(In({"read"}))) /\ IsFiniteSet(Odds(In({"read"})))
      /\ Evens(In({"read"})) \in SUBSET Evens(In(ExpectedPlaces))
  <2>1. Evens(In({"read"})) \in SUBSET Evens(In(ExpectedPlaces))
    BY DEF Evens, In, ExpectedPlaces, NicPlaces
  <2> QED
    BY <1>1, <2>1, Bounds, InPackets, Split
<1>3. OnNic \subseteq In(ExpectedPlaces)
  BY <1>1 DEF OnNic, In, ExpectedPlaces, NicPlaces, TypeOK, Places
<1>4. sw_received <= expected_sw /\ sw_received \in Nat /\ expected_sw \in Nat
  BY <1>1, <1>2, FS_Subset, FS_CardinalityType DEF CountersInv
<1>5. PassedMeansAllRead'
  <2>1. SUFFICES ASSUME Pass, NEW p \in OnNic
                 PROVE  IF Even(p) THEN where[p] = "read" ELSE where[p] # "read"
    <3>1. OnNic' = OnNic /\ verdict' = IF Pass THEN "PASSED" ELSE "FAILED"
      BY <1>1 DEF OnNic, Packets
    <3> QED
      BY <1>1, <2>1, <3>1 DEF PassedMeansAllRead
  <2>2. Evens(In({"read"})) = Evens(In(ExpectedPlaces))
    BY <1>1, <1>2, <2>1, FS_Subset DEF Pass, CountersInv
  <2>3. Odds(In({"read"})) = {}
    BY <1>1, <1>2, <2>1, FS_EmptySet DEF Pass, CountersInv
  <2>4. p \in Packets /\ p \in In(ExpectedPlaces)
    BY <1>3, <2>1 DEF OnNic
  <2>5. CASE Even(p)
    BY <2>2, <2>4, <2>5 DEF Evens, In
  <2>6. CASE ~ Even(p)
    BY <2>3, <2>4, <2>6 DEF Odds, In
  <2> QED
    BY <2>5, <2>6
<1>6. HealthyPasses'
  <2>1. SUFFICES ASSUME Healthy, ~ timeout PROVE Pass
    BY <1>1 DEF HealthyPasses, Healthy, Packets
  <2>2. sw_received = expected_sw
    BY <1>1, <1>4, <2>1 DEF KeepReading
  <2>3. Odds(In({"read"})) = {}
    BY <2>1 DEF Healthy, Odds, In
  <2>4. error_leaked = 0
    BY <1>1, <2>3, FS_EmptySet DEF CountersInv
  <2> QED
    BY <2>2, <2>4 DEF Pass
<1>7. VerdictInv'
  BY <1>1, <1>5, <1>6 DEF VerdictInv
<1>8. ChunkInv'
  BY <1>1 DEF ChunkInv, Packets, chunk
<1>9. timeout' \in BOOLEAN /\ started' \in BOOLEAN /\ bound' \in BOOLEAN
      /\ verdict' \in {"none", "PASSED", "FAILED"}
  BY <1>1 DEF TypeOK, ports
<1> QED
  BY <1>1, <1>7, <1>8, <1>9, QuietStep
-------------------------------------------------------------------------------
(* The NIC forwards, loses or misroutes a packet on the wire.              *)
LEMMA NicMove ==
    ASSUME IInv, NEW q \in Packets, NEW place \in {"sw", "hairpin", "lost"},
           where[q] = "wire", where' = Moved({q}, place),
           UNCHANGED <<packets_to_send, ports, pc, chunk, expected, result, timeout>>
    PROVE  IInv'
<1>1. /\ TypeOK /\ CountersInv /\ ChunkInv /\ VerdictInv
      /\ where \in [Packets -> Places] /\ UNCHANGED packets_to_send
      /\ {q} \in SUBSET Packets /\ place \in Places
      /\ UNCHANGED <<expected_sw, expected_hp, sent_total, sent, sw_received, error_leaked>>
  BY DEF IInv, TypeOK, Places, chunk, expected, result
<1>2. /\ In(ExpectedPlaces)' = In(ExpectedPlaces) /\ In(NicPlaces)' = In(NicPlaces)
      /\ In({"read"})' = In({"read"})
  <2>1. \A p \in {q} : (where[p] \in {"read"} <=> place \in {"read"})
    OBVIOUS
  <2>2. \A p \in {q} : (where[p] \in ExpectedPlaces <=> place \in ExpectedPlaces)
    BY DEF ExpectedPlaces, NicPlaces
  <2>3. \A p \in {q} : (where[p] \in NicPlaces <=> place \in NicPlaces)
    BY DEF NicPlaces
  <2>4. In({"read"})' = In({"read"})
    BY <1>1, <2>1, MovedPast
  <2>5. In(ExpectedPlaces)' = In(ExpectedPlaces)
    BY <1>1, <2>2, MovedPast
  <2>6. In(NicPlaces)' = In(NicPlaces)
    BY <1>1, <2>3, MovedPast
  <2> QED
    BY <2>4, <2>5, <2>6
<1>3. CountersInv' /\ {expected_sw', expected_hp', sw_received', error_leaked'} \subseteq 0 .. packets_to_send'
  <2>1. PICK laps \in Nat : Cardinality(In(NicPlaces)) = sent_total + sent + laps * Modulus
    BY <1>1 DEF CountersInv
  <2> QED
    BY <1>1, <1>2, <2>1, CountersAfter DEF CountersInv
<1>4. where' \in [Packets -> Places] /\ Packets' = Packets
      /\ \A p \in Packets : where'[p] = IF p = q THEN place ELSE where[p]
  BY <1>1, Moves
<1>5. TypeOK'
  BY <1>1, <1>3, <1>4 DEF TypeOK, ports, chunk, expected, result
<1>6. ChunkInv'
  BY <1>1, <1>4 DEF ChunkInv, chunk
<1>7. VerdictInv'
  <2>1. verdict' = verdict /\ pc' = pc /\ timeout' = timeout
    BY DEF result
  <2>2. OnNic' = OnNic
    BY <1>4 DEF OnNic
  <2>3. PassedMeansAllRead'
    <3>1. SUFFICES ASSUME verdict = "PASSED", NEW p \in OnNic
                   PROVE  IF Even(p) THEN where'[p] = "read" ELSE where'[p] # "read"
      BY <2>1, <2>2 DEF PassedMeansAllRead
    <3>2. IF Even(p) THEN where[p] = "read" ELSE where[p] # "read"
      BY <1>1, <3>1 DEF VerdictInv, PassedMeansAllRead
    <3> QED
      BY <1>4, <3>1, <3>2 DEF OnNic
  <2>4. Healthy' => Healthy
    <3>1. SUFFICES ASSUME Healthy' PROVE Healthy
      OBVIOUS
    <3>2. \A p \in Packets : where'[p] # "lost"
      BY <1>4, <3>1 DEF Healthy
    <3>3. \A p \in Packets : where'[p] \in {"sw", "hairpin", "read"} =>
                                (Even(p) <=> where'[p] # "hairpin")
      BY <1>4, <3>1 DEF Healthy, Even
    <3> QED
      BY <1>4, <3>2, <3>3 DEF Healthy
  <2> QED
    BY <1>1, <2>1, <2>3, <2>4 DEF VerdictInv, HealthyPasses
<1> QED
  BY <1>3, <1>5, <1>6, <1>7 DEF IInv

LEMMA NicStep ==
    IInv /\ ((\E place \in {"sw", "hairpin"} : Arrive(place)) \/ Lose \/ SplitWrongly) => IInv'
<1>1. ASSUME IInv, NEW place \in {"sw", "hairpin"}, Arrive(place) PROVE IInv'
  BY <1>1, NicMove DEF Arrive
<1>2. ASSUME IInv, Lose PROVE IInv'
  BY <1>2, NicMove DEF Lose
<1>3. ASSUME IInv, SplitWrongly PROVE IInv'
  BY <1>3, NicMove DEF SplitWrongly
<1> QED
  BY <1>1, <1>2, <1>3
-------------------------------------------------------------------------------
LEMMA StutterStep == IInv /\ UNCHANGED vars => IInv'
<1> SUFFICES ASSUME IInv, UNCHANGED vars PROVE IInv'
  OBVIOUS
<1> USE DEF vars, chunk, expected, result, ports
<1>1. ChunkInv'
  BY DEF IInv, ChunkInv, Packets
<1>2. Packets' = Packets /\ OnNic' = OnNic /\ (Healthy' <=> Healthy)
  BY DEF Packets, OnNic, Healthy
<1>3. VerdictInv'
  BY <1>2 DEF IInv, VerdictInv, PassedMeansAllRead, HealthyPasses
<1>4. /\ timeout' \in BOOLEAN /\ started' \in BOOLEAN /\ bound' \in BOOLEAN
      /\ verdict' \in {"none", "PASSED", "FAILED"}
      /\ pc' \in {"setup", "generate", "send", "receive", "cleanup", "done", "exited"}
  BY DEF IInv, TypeOK
<1> QED
  BY <1>1, <1>3, <1>4, QuietStep

LEMMA InvStep == IInv /\ [Next]_vars => IInv'
  BY SetupStep, GenerateStep, EndOfSending, SendStep, ChunkDoneStep, ReceiveStep, VerdictStep,
     TimeStep, NicStep, StutterStep DEF Next, Main

(* The inductive invariant: the counters stand for sets of places, the     *)
(* chunk is a range of numbers, the verdict is right.                      *)
THEOREM Invariance == Spec => []IInv
  BY InvInit, InvStep, PTL DEF Spec
-------------------------------------------------------------------------------
(* The counters stand for exactly the packets that the NIC has taken,      *)
(* however the bursts were cut and the retries went (hairpin.c's chunk     *)
(* loop), and no mbuf stays behind in temp_bufs.                           *)
THEOREM Expected == Spec => []ExpectedIsSent
<1>1. IInv => ExpectedIsSent
  <2> SUFFICES ASSUME IInv PROVE ExpectedIsSent
    OBVIOUS
  <2>1. TypeOK /\ CountersInv /\ ChunkInv
    BY DEF IInv
  <2>2. SUFFICES ASSUME pc \notin {"send", "exited"}
                 PROVE  /\ expected_sw = Cardinality({p \in OnNic : Even(p)})
                        /\ expected_hp = Cardinality({p \in OnNic : ~ Even(p)})
                        /\ sent_total = (expected_sw + expected_hp) % Modulus
                        /\ \A p \in Packets : where[p] # "chunk"
    BY <2>1 DEF ExpectedIsSent
  <2>3. temp_bufs = <<>> /\ \A p \in Packets : where[p] # "chunk"
    BY <2>1, <2>2 DEF TypeOK, ChunkInv
  <2>4. OnNic = In(NicPlaces) /\ OnNic = In(ExpectedPlaces)
    BY <2>1, <2>3 DEF OnNic, In, ExpectedPlaces, NicPlaces, TypeOK, Places
  <2>5. expected_sw = Cardinality(Evens(OnNic)) /\ expected_hp = Cardinality(Odds(OnNic))
    BY <2>1, <2>4 DEF CountersInv
  <2>6. IsFiniteSet(OnNic) /\ Cardinality(OnNic) = expected_sw + expected_hp
    BY <2>1, <2>4, <2>5, Bounds, InPackets, Split
  <2>7. sent = 0
    BY <2>1, <2>3, EmptySeq DEF TypeOK
  <2>8. PICK laps \in Nat : Cardinality(In(NicPlaces)) = sent_total + sent + laps * Modulus
    BY <2>1 DEF CountersInv
  <2>9. sent_total \in 0 .. Modulus - 1
    BY <2>1 DEF TypeOK
  <2>10. expected_sw + expected_hp = sent_total + laps * Modulus
    BY <2>4, <2>6, <2>7, <2>8, <2>9, HairpinAssumption
  <2>11. sent_total = (expected_sw + expected_hp) % Modulus
    BY <2>9, <2>10, LapsMod, HairpinAssumption
  <2> QED
    BY <2>3, <2>5, <2>11 DEF Evens, Odds
<1> QED
  BY <1>1, Invariance, PTL

(* PASSED is only printed when every even packet the NIC took was read and *)
(* no odd one was (hairpin.c:257-265).                                     *)
THEOREM Passed == Spec => []PassedMeansAllRead
<1>1. IInv => PassedMeansAllRead
  BY DEF IInv, VerdictInv
<1> QED
  BY <1>1, Invariance, PTL

(* A NIC that loses nothing, splits as told and is in time is never failed.*)
THEOREM NeverFailed == Spec => []HealthyPasses
<1>1. IInv => HealthyPasses
  BY DEF IInv, VerdictInv
<1> QED
  BY <1>1, Invariance, PTL
===============================================================================
