--------------------------- MODULE MbufLoopsProofs ---------------------------
(***************************************************************************)
(* Proofs about MbufLoops, for any number of workers, any size of pool,    *)
(* rings and bursts, and whatever the NIC does.  loopback is left out, as  *)
(* in the properties: the findings show that they fail there.              *)
(*                                                                         *)
(* The argument: the places partition the mbufs of the pool, and every     *)
(* action moves a set of mbufs from one place to another (Receive does so  *)
(* twice).  Which set depends on where the worker is in its loop (Phase),  *)
(* and on the arrays and rings having no mbuf twice (Injective).           *)
(*                                                                         *)
(* The second invariant, PoolInv, bounds what the rings and arrays hold,   *)
(* loopback's too.  With the partition it says how much of the pool can be *)
(* away from it, and so that a pool by the formula never runs dry.         *)
(***************************************************************************)
EXTENDS MbufLoops, FiniteSetTheorems, TLAPS

(* Where every mbuf is.                                                    *)
Where == [p \in Places |-> Holds(p)]

Apart(H)      == \A p, r \in Places : p # r => H[p] \cap H[r] = {}
Everything(H) == UNION {H[p] : p \in Places}

Partition == Apart(Where) /\ Everything(Where) = Mbufs

Shape ==
    /\ free \subseteq Mbufs
    /\ rx_ring \in [Lcores -> SUBSET Mbufs]
    /\ tx_ring \in [Lcores -> Seq(Mbufs)]
    /\ bufs \in [Lcores -> Seq(Mbufs)]
    /\ nb_tx \in [Lcores -> Nat]
    /\ DOMAIN pc = Lcores

Injective == \A l \in Lcores : IsInjective(tx_ring[l]) /\ IsInjective(bufs[l])

(* What a worker holds, by where it is in its loop.                        *)
Phase ==
    \A l \in Lcores :
        /\ pc[l] \in {"start", "head", "alloc", "rx", "done", "failed"} => bufs[l] = <<>>
        /\ pc[l] \in {"fill", "tx", "free_received"} => nb_tx[l] = 0
        /\ pc[l] # "send_back"

OwnerInv == Shape /\ Injective /\ Phase /\ Partition

IInv == setup \in Setups /\ (app # "loopback" => OwnerInv)
-------------------------------------------------------------------------------
(* A set of mbufs goes from place p to place r.                            *)
LEMMA MovePreserves ==
    ASSUME NEW H, NEW p \in Places, NEW r \in Places, p # r,
           NEW X, X \subseteq H[p], NEW G,
           G[p] = H[p] \ X, G[r] = H[r] \cup X,
           \A q \in Places \ {p, r} : G[q] = H[q],
           Apart(H)
    PROVE  Apart(G) /\ Everything(G) = Everything(H)
<1>1. Apart(G)
  <2> SUFFICES ASSUME NEW a \in Places, NEW b \in Places, a # b
               PROVE  G[a] \cap G[b] = {}
    BY DEF Apart
  <2> QED
    BY DEF Apart
<1>2. Everything(G) = Everything(H)
  BY DEF Everything
<1> QED
  BY <1>1, <1>2

(* The places by name.                                                     *)
Located ==
    /\ Where[<<"pool", -1>>] = free
    /\ \A l \in Lcores :
         /\ Where[<<"rx", l>>] = rx_ring[l]
         /\ Where[<<"tx", l>>] = Range(tx_ring[l])
         /\ Where[<<"held", l>>] = Held(l)

(* What kinds of places there are.                                         *)
LEMMA PlacesAre ==
    /\ <<"pool", -1>> \in Places
    /\ \A l \in Lcores : {<<"rx", l>>, <<"tx", l>>, <<"held", l>>} \subseteq Places
    /\ \A p \in Places : \/ p = <<"pool", -1>>
                         \/ \E l \in Lcores : p \in {<<"rx", l>>, <<"tx", l>>, <<"held", l>>}
BY DEF Places

(* Where and the variables say the same, in every state.                   *)
LEMMA Positions == Located /\ Located'
<1>1. Located
  BY PlacesAre DEF Located, Where, Holds
<1>2. Located'
  BY PlacesAre DEF Located, Where, Holds
<1>3. QED
  BY <1>1, <1>2

(* Only the two places differ, then the partition stays one.               *)
LEMMA StepMoves ==
    ASSUME Partition, setup' = setup, NEW p \in Places, NEW r \in Places, p # r,
           NEW X, X \subseteq Where[p],
           Where'[p] = Where[p] \ X, Where'[r] = Where[r] \cup X,
           \A q \in Places \ {p, r} : Where'[q] = Where[q]
    PROVE  Partition'
<1>1. Apart(Where') /\ Everything(Where') = Everything(Where)
  <2>1. PICK H, G : H = Where /\ G = Where'
    OBVIOUS
  <2>2. X \subseteq H[p] /\ G[p] = H[p] \ X /\ G[r] = H[r] \cup X /\ Apart(H)
    BY <2>1 DEF Partition
  <2>3. \A q \in Places \ {p, r} : G[q] = H[q]
    BY <2>1
  <2>4. Apart(G) /\ Everything(G) = Everything(H)
    <3>1. ASSUME NEW a \in Places, NEW b \in Places, a # b PROVE G[a] \cap G[b] = {}
      BY <2>2, <2>3, <3>1 DEF Apart
    <3>2. Everything(G) = Everything(H)
      BY <2>2, <2>3 DEF Everything
    <3>3. QED
      BY <3>1, <3>2 DEF Apart
  <2>5. QED
    BY <2>1, <2>4
<1>2. Mbufs' = Mbufs
  BY DEF Mbufs
<1>3. QED
  BY <1>1, <1>2 DEF Partition

(* The pool hands out as many different mbufs as are asked for.            *)
LEMMA AnyOfMembers ==
    ASSUME NEW S, IsFiniteSet(S), NEW n \in Int, n <= Cardinality(S)
    PROVE  /\ AnyOf(S, n) \in [1 .. n -> S]
           /\ IsInjective(AnyOf(S, n))
<1>1. Cardinality(S) \in Nat /\ ExistsBijection(1 .. Cardinality(S), S)
  BY FS_CardinalityType
<1>2. PICK f \in [1 .. Cardinality(S) -> S] :
              \A a, b \in 1 .. Cardinality(S) : f[a] = f[b] => a = b
  BY <1>1 DEF ExistsBijection, Bijection, Injection, IsInjective
<1> DEFINE g == [k \in 1 .. n |-> f[k]]
<1>3. g \in [1 .. n -> S] /\ IsInjective(g)
  BY <1>1, <1>2 DEF IsInjective
<1> HIDE DEF g
<1>4. QED
  BY <1>3 DEF AnyOf

(* Places whose part of the memory an action leaves alone.                 *)
LEMMA Unmoved ==
    ASSUME NEW Q \in SUBSET Places,
           <<"pool", -1>> \in Q => free' = free,
           \A m \in Lcores : /\ <<"rx", m>> \in Q => rx_ring'[m] = rx_ring[m]
                             /\ <<"tx", m>> \in Q => tx_ring'[m] = tx_ring[m]
                             /\ <<"held", m>> \in Q => Held(m)' = Held(m)
    PROVE  \A q \in Q : Where'[q] = Where[q]
<1> SUFFICES ASSUME NEW q \in Q PROVE Where'[q] = Where[q]
  OBVIOUS
<1>1. CASE q = <<"pool", -1>>
  BY <1>1, Positions DEF Located
<1>2. ASSUME NEW m \in Lcores, q = <<"rx", m>> PROVE Where'[q] = Where[q]
  BY <1>2, Positions DEF Located
<1>3. ASSUME NEW m \in Lcores, q = <<"tx", m>> PROVE Where'[q] = Where[q]
  BY <1>3, Positions DEF Located
<1>4. ASSUME NEW m \in Lcores, q = <<"held", m>> PROVE Where'[q] = Where[q]
  BY <1>4, Positions DEF Located
<1>5. QED
  BY <1>1, <1>2, <1>3, <1>4, PlacesAre

(* Between the pool and a worker's array, in either direction.             *)
LEMMA PoolAndHeld ==
    ASSUME Partition, setup' = setup, rx_ring' = rx_ring, tx_ring' = tx_ring,
           NEW l \in Lcores, \A m \in Lcores \ {l} : Held(m)' = Held(m), NEW X,
           \/ X \subseteq free /\ free' = free \ X /\ Held(l)' = Held(l) \cup X
           \/ X \subseteq Held(l) /\ Held(l)' = Held(l) \ X /\ free' = free \cup X
    PROVE  Partition'
<1> DEFINE pool == <<"pool", -1>>
           held == <<"held", l>>
<1>1. pool \in Places /\ held \in Places /\ pool # held
  BY PlacesAre
<1>2. \A q \in Places \ {pool, held} : Where'[q] = Where[q]
  BY Unmoved
<1>3. /\ Where[pool] = free /\ Where'[pool] = free'
      /\ Where[held] = Held(l) /\ Where'[held] = Held(l)'
  BY Positions DEF Located
<1> HIDE DEF pool, held
<1>4. CASE X \subseteq free /\ free' = free \ X /\ Held(l)' = Held(l) \cup X
  BY <1>1, <1>2, <1>3, <1>4, StepMoves
<1>5. CASE X \subseteq Held(l) /\ Held(l)' = Held(l) \ X /\ free' = free \cup X
  BY <1>1, <1>2, <1>3, <1>5, StepMoves
<1>6. QED
  BY <1>4, <1>5

(* What a worker holds, for the arrays the loops leave behind.             *)
HeldIs ==
    \A l \in Lcores : /\ bufs[l] = <<>> => Held(l) = {}
                      /\ nb_tx[l] = 0 => Held(l) = Range(bufs[l])

(* The elements of a sequence, by position.                                *)
LEMMA SeqRange ==
    ASSUME NEW S, NEW s \in Seq(S)
    PROVE  Range(s) = {s[k] : k \in 1 .. Len(s)}
<1>1. DOMAIN s = 1 .. Len(s)
  OBVIOUS
<1>2. QED
  BY <1>1, Zenon DEF Range

(* HeldIs in every state, and so after a step too.                         *)
LEMMA HeldCases == (Shape => HeldIs) /\ (Shape => HeldIs)'
<1>1. Shape => HeldIs
  <2> SUFFICES ASSUME Shape, NEW l \in Lcores
               PROVE  /\ bufs[l] = <<>> => Held(l) = {}
                      /\ nb_tx[l] = 0 => Held(l) = Range(bufs[l])
    BY DEF HeldIs
  <2>1. bufs[l] \in Seq(Mbufs) /\ nb_tx[l] \in Nat
    BY DEF Shape
  <2>2. QED
    BY <2>1, SeqRange DEF Held
<1>2. (Shape => HeldIs)'
  <2> SUFFICES ASSUME Shape', NEW l \in Lcores
               PROVE  /\ bufs'[l] = <<>> => Held(l)' = {}
                      /\ nb_tx'[l] = 0 => Held(l)' = Range(bufs'[l])
    BY DEF HeldIs
  <2>1. bufs'[l] \in Seq(Mbufs') /\ nb_tx'[l] \in Nat
    BY DEF Shape
  <2>2. QED
    BY <2>1, SeqRange DEF Held
<1>3. QED
  BY <1>1, <1>2

(* A part of a sequence, by position.                                      *)
LEMMA SubSeqFacts ==
    ASSUME NEW S, NEW s \in Seq(S), NEW a \in Nat \ {0}, NEW b \in 0 .. Len(s)
    PROVE  /\ SubSeq(s, a, b) \in Seq(S)
           /\ Range(SubSeq(s, a, b)) = {s[k] : k \in a .. b}
<1> DEFINE t == SubSeq(s, a, b)
           n == IF a <= b THEN b - a + 1 ELSE 0
<1>1. t \in Seq(S) /\ Len(t) = n /\ \A k \in 1 .. n : t[k] = s[a + k - 1]
  OBVIOUS
<1>2. n \in Nat
  OBVIOUS
<1>3. Range(t) = {t[k] : k \in 1 .. n}
  BY <1>1, SeqRange
<1> HIDE DEF t
<1>4. \A k \in a .. b : k - a + 1 \in 1 .. n /\ s[k] = t[k - a + 1]
  BY <1>1
<1>5. \A k \in 1 .. n : a + k - 1 \in a .. b
  OBVIOUS
<1>6. {t[k] : k \in 1 .. n} = {s[k] : k \in a .. b}
  <2>1. \A k \in 1 .. n : t[k] = s[a + k - 1]
    BY <1>1
  <2>2. \A x \in {t[k] : k \in 1 .. n} : x \in {s[k] : k \in a .. b}
    BY <2>1, <1>5
  <2>3. \A x \in {s[k] : k \in a .. b} : x \in {t[k] : k \in 1 .. n}
    BY <1>4
  <2>4. QED
    BY <2>2, <2>3
<1>7. QED
  BY <1>1, <1>3, <1>6 DEF t

(* The bounds of rte_eth_tx_burst and rte_eth_rx_burst.                    *)
LEMMA MinOfTwo ==
    ASSUME NEW a \in Int, NEW b \in Int
    PROVE  Min({a, b}) \in {a, b} /\ Min({a, b}) \in Int /\ Min({a, b}) <= a /\ Min({a, b}) <= b
<1>1. \E x \in {a, b} : \A y \in {a, b} : x <= y
  OBVIOUS
<1>2. QED
  BY <1>1 DEF Min

(* The pool is finite, the settings are natural numbers.                   *)
LEMMA FiniteMemory ==
    ASSUME setup \in Setups
    PROVE  /\ \A S \in SUBSET Mbufs : IsFiniteSet(S) /\ Cardinality(S) \in Nat
           /\ Descriptors \in Nat \ {0} /\ BurstSize \in Nat \ {0} /\ Burst \in Nat \ {0}
           /\ setup.mempool_size \in Nat
<1>1. setup \in [app : AppNames, mempool_size : Nat,
                 descriptors : Nat \ {0}, burst_size : Nat \ {0}]
  BY LoopsAssumption
<1>2. IsFiniteSet(Mbufs)
  BY <1>1, FS_Interval DEF Mbufs
<1>3. \A S \in SUBSET Mbufs : IsFiniteSet(S) /\ Cardinality(S) \in Nat
  BY <1>2, FS_Subset, FS_CardinalityType
<1>4. QED
  BY <1>1, <1>3 DEF Descriptors, BurstSize, Burst
-------------------------------------------------------------------------------
(* rte_pktmbuf_alloc_bulk: from the pool to the worker's array.            *)
LEMMA AllocStep ==
    ASSUME setup \in Setups, OwnerInv, NEW l \in Lcores, Alloc(l)
    PROVE  OwnerInv'
<1> DEFINE got == AnyOf(free, Burst)
<1>1. setup' = setup /\ rx_ring' = rx_ring /\ tx_ring' = tx_ring
  BY DEF Alloc
<1>2. Mbufs' = Mbufs /\ Burst \in Nat
  BY <1>1, FiniteMemory DEF Mbufs
<1>3. free \subseteq Mbufs /\ IsFiniteSet(free)
  BY FiniteMemory DEF OwnerInv, Shape
<1>4. got \in [1 .. Burst -> free] /\ IsInjective(got)
  BY <1>2, <1>3, FiniteMemory, AnyOfMembers DEF Alloc
<1>5. /\ bufs' = [bufs EXCEPT ![l] = got] /\ free' = free \ Range(bufs'[l])
      /\ nb_tx' = [nb_tx EXCEPT ![l] = 0]
  BY DEF Alloc
<1> HIDE DEF got
<1>6. got \in Seq(Mbufs) /\ Range(got) \subseteq free
  BY <1>2, <1>3, <1>4 DEF Range
<1>7. bufs'[l] = got /\ nb_tx'[l] = 0
  BY <1>5 DEF OwnerInv, Shape
<1>8. Shape'
  <2>1. Shape
    BY DEF OwnerInv
  <2>2. bufs' \in [Lcores -> Seq(Mbufs)] /\ nb_tx' \in [Lcores -> Nat]
    BY <1>5, <1>6, <2>1 DEF Shape
  <2>3. free' \subseteq Mbufs
    BY <1>3, <1>5
  <2>4. DOMAIN pc' = Lcores
    BY <2>1 DEF Shape, Alloc, Goto
  <2>5. QED
    BY <1>1, <1>2, <2>1, <2>2, <2>3, <2>4 DEF Shape
<1>9. Injective'
  BY <1>1, <1>4, <1>5 DEF OwnerInv, Shape, Injective
<1>10. Phase'
  BY <1>5 DEF OwnerInv, Shape, Phase, Alloc, Goto
<1>11. Partition'
  <2>1. Held(l) = {} /\ Held(l)' = Range(got)
    BY <1>7, <1>8, HeldCases DEF HeldIs, OwnerInv, Phase, Alloc, Goto
  <2>2. \A m \in Lcores \ {l} : Held(m)' = Held(m)
    BY <1>5 DEF Held, OwnerInv, Shape
  <2>3. PICK X : X = Range(got)
    OBVIOUS
  <2>4. X \subseteq free /\ free' = free \ X /\ Held(l)' = Held(l) \cup X
    BY <1>5, <1>6, <1>7, <2>1, <2>3
  <2>5. Partition
    BY DEF OwnerInv
  <2>6. QED
    BY <1>1, <2>2, <2>4, <2>5, PoolAndHeld
<1>12. QED
  BY <1>8, <1>9, <1>10, <1>11 DEF OwnerInv

(* Both ways to give a burst back to the pool.                             *)
LEMMA FreeStep ==
    ASSUME setup \in Setups, OwnerInv, NEW l \in Lcores,
           FreeUnsent(l) \/ FreeReceived(l)
    PROVE  OwnerInv'
<1>1. setup' = setup /\ rx_ring' = rx_ring /\ tx_ring' = tx_ring
  BY DEF FreeUnsent, FreeReceived
<1>2. Mbufs' = Mbufs
  BY <1>1 DEF Mbufs
<1>3. bufs' = [bufs EXCEPT ![l] = <<>>] /\ free' = free \cup Held(l)
  <2>1. CASE FreeUnsent(l)
    <3>1. Len(bufs[l]) \in 0 .. Len(bufs[l]) /\ nb_tx[l] + 1 \in Nat \ {0} /\ bufs[l] \in Seq(Mbufs)
      BY DEF OwnerInv, Shape
    <3>2. Range(Unsent(l)) = {bufs[l][k] : k \in nb_tx[l] + 1 .. Len(bufs[l])}
      BY <3>1, SubSeqFacts DEF Unsent
    <3>3. QED
      BY <2>1, <3>2 DEF FreeUnsent, Held
  <2>2. CASE FreeReceived(l)
    <3>1. Held(l) = Range(bufs[l])
      BY <2>2, HeldCases DEF HeldIs, OwnerInv, Phase, FreeReceived, Goto
    <3>2. QED
      BY <2>2, <3>1 DEF FreeReceived
  <2>3. QED
    BY <2>1, <2>2
<1>4. \E n \in Nat : nb_tx' = [nb_tx EXCEPT ![l] = n]
  <2>1. nb_tx' = [nb_tx EXCEPT ![l] = 0] \/ nb_tx' = [nb_tx EXCEPT ![l] = nb_tx[l]]
    BY DEF FreeUnsent, FreeReceived, OwnerInv, Shape
  <2>2. nb_tx[l] \in Nat
    BY DEF OwnerInv, Shape
  <2>3. QED
    BY <2>1, <2>2
<1>5. \E there \in {"rx", "head"} : pc' = [pc EXCEPT ![l] = there]
  BY DEF FreeUnsent, FreeReceived, Goto
<1>6. Held(l) \subseteq Mbufs
  BY DEF Held, OwnerInv, Shape
<1>7. Shape'
  <2>1. Shape
    BY DEF OwnerInv
  <2>2. bufs' \in [Lcores -> Seq(Mbufs)]
    BY <1>3, <2>1 DEF Shape
  <2>3. nb_tx' \in [Lcores -> Nat]
    BY <1>4, <2>1 DEF Shape
  <2>4. free' \subseteq Mbufs
    BY <1>3, <1>6, <2>1 DEF Shape
  <2>5. DOMAIN pc' = Lcores
    BY <1>5, <2>1 DEF Shape
  <2>6. QED
    BY <1>1, <1>2, <2>1, <2>2, <2>3, <2>4, <2>5 DEF Shape
<1>8. Injective'
  BY <1>1, <1>3 DEF OwnerInv, Shape, Injective, IsInjective
<1>9. Phase'
  <2>1. PICK n \in Nat : nb_tx' = [nb_tx EXCEPT ![l] = n]
    BY <1>4
  <2>2. PICK there \in {"rx", "head"} : pc' = [pc EXCEPT ![l] = there]
    BY <1>5
  <2>3. QED
    BY <1>3, <2>1, <2>2 DEF OwnerInv, Shape, Phase
<1>10. Partition'
  <2>1. Held(l)' = {}
    BY <1>3, <1>7, HeldCases DEF HeldIs, OwnerInv, Shape
  <2>2. \A m \in Lcores \ {l} : Held(m)' = Held(m)
    BY <1>3, <1>4 DEF Held, OwnerInv, Shape
  <2>3. QED
    BY <1>1, <1>3, <2>1, <2>2, PoolAndHeld DEF OwnerInv
<1>11. QED
  BY <1>7, <1>8, <1>9, <1>10 DEF OwnerInv

(* A queue that gets what it did not have has nothing twice.               *)
LEMMA Appended ==
    ASSUME NEW S, NEW s \in Seq(S), NEW t \in Seq(S), IsInjective(s), IsInjective(t),
           Range(s) \cap Range(t) = {}
    PROVE  /\ s \o t \in Seq(S)
           /\ Range(s \o t) = Range(s) \cup Range(t)
           /\ IsInjective(s \o t)
<1> DEFINE u == s \o t
           n == Len(s)
           m == Len(t)
<1>1. /\ u \in Seq(S) /\ Len(u) = n + m /\ n \in Nat /\ m \in Nat
      /\ \A k \in 1 .. n : u[k] = s[k]
      /\ \A k \in n + 1 .. n + m : u[k] = t[k - n]
  OBVIOUS
<1>2. DOMAIN s = 1 .. n /\ DOMAIN t = 1 .. m /\ DOMAIN u = 1 .. n + m
  BY <1>1
<1>3. \A k \in 1 .. n : u[k] \in Range(s)
  BY <1>1, SeqRange
<1>4. \A k \in n + 1 .. n + m : k - n \in 1 .. m /\ u[k] = t[k - n] /\ u[k] \in Range(t)
  BY <1>1, SeqRange
<1>5. \A k \in 1 .. m : u[n + k] = t[k]
  BY <1>1
<1>6. Range(u) = Range(s) \cup Range(t)
  <2>1. Range(u) = {u[k] : k \in 1 .. n + m}
    BY <1>1, SeqRange
  <2>2. \A k \in 1 .. n + m : k \in 1 .. n \/ k \in n + 1 .. n + m
    BY <1>1
  <2>3. Range(u) \subseteq Range(s) \cup Range(t)
    BY <1>3, <1>4, <2>1, <2>2
  <2>4. Range(s) \subseteq Range(u)
    BY <1>1, <2>1, SeqRange
  <2>5. Range(t) \subseteq Range(u)
    <3>1. \A k \in 1 .. m : n + k \in 1 .. n + m
      BY <1>1
    <3>2. QED
      <4>1. \A k \in 1 .. m : t[k] \in Range(u)
        BY <1>5, <2>1, <3>1
      <4>2. QED
        BY <1>1, <4>1, SeqRange
  <2>6. QED
    BY <2>3, <2>4, <2>5
<1>7. IsInjective(u)
  <2> SUFFICES ASSUME NEW a \in 1 .. n + m, NEW b \in 1 .. n + m, u[a] = u[b]
               PROVE  a = b
    BY <1>2 DEF IsInjective
  <2>1. CASE a \in 1 .. n /\ b \in 1 .. n
    BY <1>1, <1>2, <2>1 DEF IsInjective
  <2>2. CASE a \in n + 1 .. n + m /\ b \in n + 1 .. n + m
    <3>1. t[a - n] = t[b - n] /\ a - n \in 1 .. m /\ b - n \in 1 .. m
      BY <1>4, <2>2
    <3>2. a - n = b - n
      BY <1>2, <3>1 DEF IsInjective
    <3>3. QED
      BY <1>1, <3>2
  <2>3. CASE a \in 1 .. n /\ b \in n + 1 .. n + m
    BY <1>3, <1>4, <2>3
  <2>4. CASE b \in 1 .. n /\ a \in n + 1 .. n + m
    BY <1>3, <1>4, <2>4
  <2>5. QED
    BY <1>1, <2>1, <2>2, <2>3, <2>4
<1>8. QED
  BY <1>1, <1>6, <1>7

(* rte_eth_tx_burst: the first part of the array goes to the ring.         *)
LEMMA SendStep ==
    ASSUME setup \in Setups, OwnerInv, NEW l \in Lcores, Send(l)
    PROVE  OwnerInv'
<1>1. setup' = setup /\ free' = free /\ rx_ring' = rx_ring /\ bufs' = bufs
  BY DEF Send
<1>2. Mbufs' = Mbufs
  BY <1>1 DEF Mbufs
<1>3. PICK n \in 0 .. Burst : TxBurst(l, n) /\ nb_tx' = [nb_tx EXCEPT ![l] = n]
  BY DEF Send
<1> DEFINE s == bufs[l]
           sent == SubSeq(s, 1, n)
<1>4. s \in Seq(Mbufs) /\ tx_ring[l] \in Seq(Mbufs)
  BY DEF OwnerInv, Shape
<1>5. n \in 0 .. Len(s)
  <2>1. n \in Nat /\ Descriptors \in Nat
    BY <1>3, FiniteMemory
  <2>2. Len(s) \in Int /\ Descriptors - Len(tx_ring[l]) \in Int
    BY <1>4, <2>1
  <2>3. n <= Min({Len(s), Descriptors - Len(tx_ring[l])})
    BY <1>3 DEF TxBurst
  <2> DEFINE a == Len(s)
             b == Descriptors - Len(tx_ring[l])
  <2> HIDE DEF a, b
  <2>4. a \in Int /\ b \in Int /\ n <= Min({a, b})
    BY <2>2, <2>3 DEF a, b
  <2>5. Min({a, b}) \in Int /\ Min({a, b}) <= a
    BY <2>4, MinOfTwo
  <2>6. n <= a
    BY <2>1, <2>4, <2>5
  <2>7. QED
    BY <1>4, <2>1, <2>6 DEF a
<1>6. tx_ring' = [tx_ring EXCEPT ![l] = tx_ring[l] \o sent]
  BY <1>3 DEF TxBurst, OwnerInv, Shape
<1>7. sent \in Seq(Mbufs) /\ Range(sent) = {s[k] : k \in 1 .. n} /\ IsInjective(sent)
  <2>1. sent \in Seq(Mbufs) /\ Range(sent) = {s[k] : k \in 1 .. n}
    BY <1>4, <1>5, SubSeqFacts
  <2>2. IsInjective(s)
    BY DEF OwnerInv, Injective
  <2>3. DOMAIN s = 1 .. Len(s)
    BY <1>4
  <2>4. DOMAIN sent = 1 .. n /\ \A k \in 1 .. n : sent[k] = s[k]
    BY <1>4, <1>5
  <2> HIDE DEF sent, s
  <2>5. IsInjective(sent)
    BY <1>5, <2>2, <2>3, <2>4 DEF IsInjective
  <2>6. QED
    BY <2>1, <2>5
<1>8. nb_tx[l] = 0 /\ Held(l) = Range(s)
  BY HeldCases DEF HeldIs, OwnerInv, Phase, Send, Goto
<1>9. nb_tx'[l] = n /\ bufs'[l] = s
  BY <1>1, <1>3 DEF OwnerInv, Shape
<1>10. Range(sent) \subseteq Held(l) /\ Held(l)' = Held(l) \ Range(sent)
  <2>1. Held(l)' = {s[k] : k \in n + 1 .. Len(s)}
    BY <1>9 DEF Held
  <2>2. Held(l) = {s[k] : k \in 1 .. Len(s)}
    BY <1>4, <1>8, SeqRange
  <2>3. \A a, b \in 1 .. Len(s) : s[a] = s[b] => a = b
    BY <1>4 DEF OwnerInv, Injective, IsInjective
  <2> HIDE DEF sent, s
  <2>4. QED
    BY <1>5, <1>7, <2>1, <2>2, <2>3
<1>11. Range(tx_ring[l]) \cap Range(sent) = {}
  <2>1. Range(tx_ring[l]) \cap Held(l) = {}
    <3>1. <<"tx", l>> \in Places /\ <<"held", l>> \in Places /\ <<"tx", l>> # <<"held", l>>
      BY PlacesAre
    <3>2. Where[<<"tx", l>>] \cap Where[<<"held", l>>] = {}
      BY <3>1 DEF OwnerInv, Partition, Apart
    <3>3. QED
      BY <3>2, Positions DEF Located
  <2>2. QED
    BY <1>10, <2>1
<1> HIDE DEF sent, s
<1>12. /\ tx_ring[l] \o sent \in Seq(Mbufs)
       /\ Range(tx_ring[l] \o sent) = Range(tx_ring[l]) \cup Range(sent)
       /\ IsInjective(tx_ring[l] \o sent)
  BY <1>4, <1>7, <1>11, Appended DEF OwnerInv, Injective
<1>13. Shape'
  <2>1. Shape
    BY DEF OwnerInv
  <2>2. tx_ring' \in [Lcores -> Seq(Mbufs)]
    BY <1>6, <1>12, <2>1 DEF Shape
  <2>3. nb_tx' \in [Lcores -> Nat]
    BY <1>3, <2>1 DEF Shape
  <2>4. DOMAIN pc' = Lcores
    BY <2>1 DEF Shape, Send, Goto
  <2>5. QED
    BY <1>1, <1>2, <2>1, <2>2, <2>3, <2>4 DEF Shape
<1>14. Injective'
  BY <1>1, <1>6, <1>12 DEF OwnerInv, Shape, Injective
<1>15. Phase'
  BY <1>1, <1>3 DEF OwnerInv, Shape, Phase, Send, Goto
<1>16. Partition'
  <2> DEFINE held == <<"held", l>>
             tx   == <<"tx", l>>
  <2>1. held \in Places /\ tx \in Places /\ held # tx
    BY PlacesAre
  <2>2. \A m \in Lcores \ {l} : Held(m)' = Held(m) /\ tx_ring'[m] = tx_ring[m]
    BY <1>1, <1>3, <1>6 DEF Held, OwnerInv, Shape
  <2>3. \A q \in Places \ {held, tx} : Where'[q] = Where[q]
    BY <1>1, <2>2, Unmoved
  <2>4. tx_ring'[l] = tx_ring[l] \o sent
    BY <1>6 DEF OwnerInv, Shape
  <2>5. /\ Where[held] = Held(l) /\ Where'[held] = Held(l)'
        /\ Where[tx] = Range(tx_ring[l]) /\ Where'[tx] = Range(tx_ring[l]) \cup Range(sent)
    BY <1>12, <2>4, Positions DEF Located
  <2> HIDE DEF held, tx
  <2>6. QED
    BY <1>1, <1>10, <2>1, <2>3, <2>5, StepMoves DEF OwnerInv
<1>17. QED
  BY <1>13, <1>14, <1>15, <1>16 DEF OwnerInv

(* A packet is sent: its mbuf goes from the ring to the pool.              *)
LEMMA CompleteStep ==
    ASSUME setup \in Setups, OwnerInv, NEW l \in Lcores, Complete(l)
    PROVE  OwnerInv'
<1> DEFINE s == tx_ring[l]
<1>1. /\ setup' = setup /\ rx_ring' = rx_ring /\ bufs' = bufs /\ nb_tx' = nb_tx /\ pc' = pc
      /\ s # <<>> /\ free' = free \cup {s[1]}
  BY DEF Complete
<1>2. Mbufs' = Mbufs
  BY <1>1 DEF Mbufs
<1>3. s \in Seq(Mbufs) /\ tx_ring' = [tx_ring EXCEPT ![l] = Tail(s)]
  BY DEF Complete, OwnerInv, Shape
<1>4. IsInjective(s)
  BY DEF OwnerInv, Injective
<1>5. tx_ring'[l] = Tail(s)
  BY <1>3 DEF OwnerInv, Shape
<1> HIDE DEF s
<1>6. /\ Tail(s) \in Seq(Mbufs) /\ IsInjective(Tail(s)) /\ s[1] \in Range(s)
      /\ Range(Tail(s)) = Range(s) \ {s[1]}
  <2>1. /\ Tail(s) \in Seq(Mbufs) /\ Len(Tail(s)) = Len(s) - 1 /\ Len(s) \in Nat \ {0}
        /\ \A k \in 1 .. Len(s) - 1 : Tail(s)[k] = s[k + 1]
    BY <1>1, <1>3
  <2>2. DOMAIN s = 1 .. Len(s) /\ DOMAIN Tail(s) = 1 .. Len(s) - 1
    BY <1>3, <2>1
  <2>3. \A a, b \in 1 .. Len(s) : s[a] = s[b] => a = b
    BY <1>4, <2>2 DEF IsInjective
  <2>4. IsInjective(Tail(s))
    BY <2>1, <2>2, <2>3 DEF IsInjective
  <2>5. /\ Range(s) = {s[k] : k \in 1 .. Len(s)}
        /\ Range(Tail(s)) = {Tail(s)[k] : k \in 1 .. Len(s) - 1}
    BY <1>3, <2>1, SeqRange
  <2>6. \A k \in 2 .. Len(s) : k - 1 \in 1 .. Len(s) - 1 /\ s[k] = Tail(s)[k - 1]
    BY <2>1
  <2>7. Range(Tail(s)) = Range(s) \ {s[1]}
    <3>1. \A k \in 1 .. Len(s) - 1 : k + 1 \in 1 .. Len(s) /\ k + 1 # 1 /\ 1 \in 1 .. Len(s)
      BY <2>1
    <3>2. \A x \in Range(Tail(s)) : x \in Range(s) /\ x # s[1]
      BY <2>1, <2>3, <2>5, <3>1
    <3>3. ASSUME NEW x \in Range(s), x # s[1]
          PROVE  x \in Range(Tail(s))
      <4>1. PICK k \in 1 .. Len(s) : x = s[k]
        BY <2>5
      <4>2. k \in 2 .. Len(s)
        BY <2>1, <3>3, <4>1
      <4>3. QED
        BY <2>5, <2>6, <4>1, <4>2
    <3>4. QED
      BY <3>2, <3>3
  <2>8. QED
    BY <2>1, <2>4, <2>5, <2>7
<1>7. Shape'
  <2>1. Shape
    BY DEF OwnerInv
  <2>2. tx_ring' \in [Lcores -> Seq(Mbufs)]
    BY <1>3, <1>6, <2>1 DEF Shape
  <2>3. free' \subseteq Mbufs
    <3>1. s[1] \in Mbufs
      BY <1>1, <1>3
    <3>2. QED
      BY <1>1, <2>1, <3>1 DEF Shape
  <2>4. QED
    BY <1>1, <1>2, <2>1, <2>2, <2>3 DEF Shape
<1>8. Injective'
  BY <1>1, <1>3, <1>6 DEF OwnerInv, Shape, Injective
<1>9. Phase'
  BY <1>1 DEF OwnerInv, Phase
<1>10. Partition'
  <2> DEFINE pool == <<"pool", -1>>
             tx   == <<"tx", l>>
  <2>1. pool \in Places /\ tx \in Places /\ tx # pool
    BY PlacesAre
  <2>2. \A m \in Lcores \ {l} : tx_ring'[m] = tx_ring[m]
    BY <1>3 DEF OwnerInv, Shape
  <2>3. \A m \in Lcores : Held(m)' = Held(m)
    BY <1>1 DEF Held
  <2>4. \A q \in Places \ {tx, pool} : Where'[q] = Where[q]
    BY <1>1, <2>2, <2>3, Unmoved
  <2>5. /\ Where[pool] = free /\ Where'[pool] = free \cup {s[1]}
        /\ Where[tx] = Range(s) /\ Where'[tx] = Range(s) \ {s[1]}
    BY <1>1, <1>5, <1>6, Positions DEF Located, s
  <2> HIDE DEF pool, tx
  <2>6. {s[1]} \subseteq Where[tx]
    BY <1>6, <2>5
  <2>7. QED
    BY <1>1, <2>1, <2>4, <2>5, <2>6, StepMoves DEF OwnerInv
<1>11. QED
  BY <1>7, <1>8, <1>9, <1>10 DEF OwnerInv

(* As many indices, at most as many members.                               *)
LEMMA RangeSize ==
    ASSUME NEW S, NEW n \in Nat, NEW f \in [1 .. n -> S]
    PROVE  IsFiniteSet(Range(f)) /\ Cardinality(Range(f)) <= n
<1>1. f \in Surjection(1 .. n, Range(f))
  BY DEF Surjection, Range
<1>2. ExistsSurjection(1 .. n, Range(f))
  BY <1>1 DEF ExistsSurjection
<1>3. QED
  BY <1>2, FS_NatSurjection, FS_SurjCardinalityBound

LEMMA UnionSize ==
    ASSUME NEW S, NEW T, IsFiniteSet(S), IsFiniteSet(T)
    PROVE  Cardinality(S \cup T) <= Cardinality(S) + Cardinality(T)
<1>1. Cardinality(S \cup T) = Cardinality(S) + Cardinality(T) - Cardinality(S \cap T)
  BY FS_Union
<1>2. Cardinality(S) \in Nat /\ Cardinality(T) \in Nat /\ Cardinality(S \cap T) \in Nat
  BY FS_Intersection, FS_CardinalityType
<1>3. QED
  BY <1>1, <1>2

(* What the worker gets, and what the driver makes of the ring: it takes   *)
(* no more mbufs from the pool than the ring has room for.                 *)
LEMMA Received ==
    ASSUME setup \in Setups, Shape, NEW l \in Lcores, Receive(l)
    PROVE  \E got, posted :
             /\ got \in Seq(rx_ring[l]) /\ IsInjective(got) /\ posted \subseteq free
             /\ bufs' = [bufs EXCEPT ![l] = got] /\ free' = free \ posted
             /\ rx_ring' = [rx_ring EXCEPT ![l] = (rx_ring[l] \ Range(got)) \cup posted]
             /\ Len(got) <= BurstSize
             /\ Cardinality(rx_ring[l]) <= Descriptors
                  => Cardinality((rx_ring[l] \ Range(got)) \cup posted) <= Descriptors
<1>1. PICK n \in 0 .. Min({BurstSize, Cardinality(rx_ring[l])}) :
        LET got    == AnyOf(rx_ring[l], n)
            left   == rx_ring[l] \ Range(got)
            refill == Range(AnyOf(free, Min({Cardinality(free),
                                              Descriptors - Cardinality(left)})))
        IN /\ bufs' = [bufs EXCEPT ![l] = got]
           /\ \E posted \in {{}, refill} :
                /\ rx_ring' = [rx_ring EXCEPT ![l] = left \cup posted]
                /\ free' = free \ posted
  BY DEF Receive
<1> DEFINE got    == AnyOf(rx_ring[l], n)
           left   == rx_ring[l] \ Range(got)
           room   == Descriptors - Cardinality(left)
           k      == Min({Cardinality(free), room})
           refill == Range(AnyOf(free, k))
<1>2. /\ IsFiniteSet(rx_ring[l]) /\ Cardinality(rx_ring[l]) \in Nat
      /\ IsFiniteSet(free) /\ Cardinality(free) \in Nat
      /\ Cardinality(left) \in Nat /\ BurstSize \in Nat /\ Descriptors \in Nat
  BY FiniteMemory DEF Shape
<1>3. n \in Nat /\ n <= Cardinality(rx_ring[l]) /\ n <= BurstSize
  <2> DEFINE c == Cardinality(rx_ring[l])
  <2>1. c \in Int /\ BurstSize \in Int /\ n \in 0 .. Min({BurstSize, c})
    BY <1>1, <1>2
  <2> HIDE DEF c
  <2>2. Min({BurstSize, c}) \in Int /\ Min({BurstSize, c}) <= c /\ Min({BurstSize, c}) <= BurstSize
    BY <2>1, MinOfTwo
  <2>3. n \in Nat /\ n <= c /\ n <= BurstSize
    BY <2>1, <2>2
  <2>4. QED
    BY <2>3 DEF c
<1>4. got \in [1 .. n -> rx_ring[l]] /\ IsInjective(got)
  BY <1>2, <1>3, AnyOfMembers
<1>5. k \in {Cardinality(free), room} /\ k \in Int /\ k <= Cardinality(free) /\ k <= room
  <2>1. room \in Int /\ Cardinality(free) \in Int
    BY <1>2
  <2> HIDE DEF room
  <2>2. QED
    BY <2>1, MinOfTwo
<1>6. refill \subseteq free /\ (k \in Nat => IsFiniteSet(refill) /\ Cardinality(refill) <= k)
  <2> HIDE DEF k
  <2>1. AnyOf(free, k) \in [1 .. k -> free]
    BY <1>2, <1>5, AnyOfMembers
  <2>2. refill \subseteq free
    BY <2>1 DEF Range
  <2>3. k \in Nat => Cardinality(refill) <= k
    BY <2>1, RangeSize
  <2>4. QED
    BY <1>2, <2>2, <2>3, FS_Subset
<1>7. PICK posted \in {{}, refill} :
        /\ bufs' = [bufs EXCEPT ![l] = got]
        /\ rx_ring' = [rx_ring EXCEPT ![l] = left \cup posted]
        /\ free' = free \ posted
  BY <1>1
<1>8. got \in Seq(rx_ring[l])
  BY <1>3, <1>4
<1>9. posted \subseteq free
  BY <1>6, <1>7
<1>10. IsFiniteSet(left) /\ left \subseteq rx_ring[l] /\ Cardinality(left) <= Cardinality(rx_ring[l])
  BY <1>2, FS_Subset
<1>11. ASSUME Cardinality(rx_ring[l]) <= Descriptors
       PROVE  Cardinality(left \cup posted) <= Descriptors
  <2>1. Cardinality(left) <= Descriptors
    BY <1>2, <1>10, <1>11
  <2>2. CASE posted = {}
    BY <2>1, <2>2
  <2>3. CASE posted = refill
    <3>1. k \in Nat
      BY <1>2, <1>5, <2>1
    <3>2. IsFiniteSet(refill) /\ Cardinality(refill) <= room
      <4>1. IsFiniteSet(refill) /\ Cardinality(refill) \in Nat /\ Cardinality(refill) <= k
        BY <1>6, <3>1, FS_CardinalityType
      <4>2. room \in Int
        BY <1>2
      <4> HIDE DEF k, room, refill
      <4>3. QED
        BY <1>5, <4>1, <4>2
    <3> HIDE DEF left, refill
    <3>3. Cardinality(left \cup refill) <= Cardinality(left) + Cardinality(refill)
      BY <1>10, <3>2, UnionSize
    <3>4. Cardinality(refill) \in Nat /\ IsFiniteSet(left \cup refill)
      BY <1>10, <3>2, FS_CardinalityType, FS_Union
    <3>5. Cardinality(left \cup refill) \in Nat
      BY <3>4, FS_CardinalityType
    <3>6. QED
      BY <1>2, <2>3, <3>2, <3>3, <3>4, <3>5
  <2>4. QED
    BY <1>7, <2>2, <2>3
<1>12. Len(got) = n
  BY <1>3, <1>4
<1> HIDE DEF refill, got
<1>13. QED
  BY <1>3, <1>4, <1>7, <1>8, <1>9, <1>11, <1>12

(* Two moves: from the ring to the worker, and from the pool to the ring.  *)
LEMMA ReceiveStep ==
    ASSUME setup \in Setups, app # "loopback", OwnerInv, NEW l \in Lcores, Receive(l)
    PROVE  OwnerInv'
<1>1. setup' = setup /\ tx_ring' = tx_ring /\ nb_tx' = [nb_tx EXCEPT ![l] = 0]
  BY DEF Receive
<1>2. Mbufs' = Mbufs
  BY <1>1 DEF Mbufs
<1>3. rx_ring[l] \subseteq Mbufs /\ free \subseteq Mbufs
  BY DEF OwnerInv, Shape
<1>4. PICK got, posted :
        /\ got \in Seq(rx_ring[l]) /\ IsInjective(got) /\ posted \subseteq free
        /\ bufs' = [bufs EXCEPT ![l] = got] /\ free' = free \ posted
        /\ rx_ring' = [rx_ring EXCEPT ![l] = (rx_ring[l] \ Range(got)) \cup posted]
  BY Received DEF OwnerInv
<1> DEFINE ring == (rx_ring[l] \ Range(got)) \cup posted
<1>5. /\ Range(got) \subseteq rx_ring[l] /\ got \in Seq(Mbufs) /\ ring \subseteq Mbufs
  <2>1. Range(got) \subseteq rx_ring[l]
    BY <1>4, SeqRange
  <2>2. got \in Seq(Mbufs)
    BY <1>3, <1>4
  <2>3. QED
    BY <1>3, <1>4, <2>1, <2>2
<1>6. /\ rx_ring' = [rx_ring EXCEPT ![l] = ring] /\ rx_ring'[l] = ring
      /\ bufs'[l] = got /\ nb_tx'[l] = 0
  BY <1>1, <1>4 DEF OwnerInv, Shape
<1>7. Shape'
  <2>1. Shape
    BY DEF OwnerInv
  <2> HIDE DEF ring
  <2>2. rx_ring' \in [Lcores -> SUBSET Mbufs]
    BY <1>5, <1>6, <2>1 DEF Shape
  <2>3. bufs' \in [Lcores -> Seq(Mbufs)]
    BY <1>4, <1>5, <2>1 DEF Shape
  <2>4. nb_tx' \in [Lcores -> Nat]
    BY <1>1, <2>1 DEF Shape
  <2>5. DOMAIN pc' = Lcores
    BY <2>1 DEF Shape, Receive, Goto
  <2>6. free' \subseteq Mbufs
    BY <1>3, <1>4
  <2>7. QED
    BY <1>1, <1>2, <2>1, <2>2, <2>3, <2>4, <2>5, <2>6 DEF Shape
<1>8. Injective'
  BY <1>1, <1>4 DEF OwnerInv, Shape, Injective
<1>9. Phase'
  <2>1. pc' = [pc EXCEPT ![l] = "free_received"]
    BY DEF Receive, Goto
  <2>2. QED
    BY <1>1, <1>4, <2>1 DEF OwnerInv, Shape, Phase
<1>10. Partition'
  <2> DEFINE pool == <<"pool", -1>>
             rx   == <<"rx", l>>
             held == <<"held", l>>
             G    == [q \in Places |-> IF q = rx THEN rx_ring[l] \ Range(got)
                                       ELSE IF q = held THEN Range(got) ELSE Where[q]]
  <2>1. /\ pool \in Places /\ rx \in Places /\ held \in Places
        /\ pool # rx /\ pool # held /\ rx # held
    BY PlacesAre
  <2>2. Held(l) = {} /\ Held(l)' = Range(got)
    BY <1>6, <1>7, HeldCases DEF HeldIs, OwnerInv, Phase, Receive, Goto
  <2>3. \A m \in Lcores \ {l} : Held(m)' = Held(m) /\ rx_ring'[m] = rx_ring[m]
    BY <1>1, <1>4, <1>6 DEF Held, OwnerInv, Shape
  <2>4. \A q \in Places \ {pool, rx, held} : Where'[q] = Where[q]
    BY <1>1, <2>3, Unmoved
  <2>5. /\ Where[pool] = free /\ Where'[pool] = free \ posted
        /\ Where[rx] = rx_ring[l] /\ Where'[rx] = ring
        /\ Where[held] = {} /\ Where'[held] = Range(got)
    BY <1>4, <1>6, <2>2, Positions DEF Located
  <2> HIDE DEF pool, rx, held
  <2>6. /\ G[rx] = rx_ring[l] \ Range(got) /\ G[held] = Range(got)
        /\ \A q \in Places \ {rx, held} : G[q] = Where[q]
    BY <2>1
  <2> HIDE DEF G
  <2>7. Apart(G) /\ Everything(G) = Everything(Where)
    <3>1. G[rx] = Where[rx] \ Range(got) /\ G[held] = Where[held] \cup Range(got)
      BY <2>5, <2>6
    <3>2. Range(got) \subseteq Where[rx]
      BY <1>5, <2>5
    <3>3. QED
      BY <2>1, <2>6, <3>1, <3>2, MovePreserves DEF OwnerInv, Partition
  <2>8. Apart(Where') /\ Everything(Where') = Everything(G)
    <3>1. Where'[pool] = G[pool] \ posted /\ Where'[rx] = G[rx] \cup posted
      BY <2>1, <2>5, <2>6
    <3>2. posted \subseteq G[pool]
      BY <1>4, <2>1, <2>5, <2>6
    <3>3. \A q \in Places \ {pool, rx} : Where'[q] = G[q]
      BY <2>4, <2>5, <2>6
    <3>4. QED
      BY <2>1, <2>7, <3>1, <3>2, <3>3, MovePreserves
  <2>9. QED
    BY <1>2, <2>7, <2>8 DEF OwnerInv, Partition
<1>11. QED
  BY <1>7, <1>8, <1>9, <1>10 DEF OwnerInv

(* The other steps leave memory and arrays alone; those that move a worker *)
(* move it to a place where it holds as little.                            *)
LEMMA QuietStep ==
    ASSUME OwnerInv, UNCHANGED <<setup, mem, bufs, nb_tx>>,
           \/ pc' = pc
           \/ \E l \in Lcores, there \in {"head", "alloc", "rx", "failed", "done"} :
                bufs[l] = <<>> /\ pc' = [pc EXCEPT ![l] = there]
           \/ \E l \in Lcores : nb_tx[l] = 0 /\ pc' = [pc EXCEPT ![l] = "tx"]
    PROVE  OwnerInv'
<1>1. /\ setup' = setup /\ free' = free /\ rx_ring' = rx_ring /\ tx_ring' = tx_ring
      /\ bufs' = bufs /\ nb_tx' = nb_tx
  BY DEF mem
<1>2. Mbufs' = Mbufs
  BY <1>1 DEF Mbufs
<1>3. Shape'
  BY <1>1, <1>2 DEF OwnerInv, Shape
<1>4. Injective'
  BY <1>1 DEF OwnerInv, Injective
<1>5. Phase'
  BY <1>1 DEF OwnerInv, Shape, Phase
<1>6. Partition'
  <2>1. \A m \in Lcores : Held(m)' = Held(m)
    BY <1>1 DEF Held
  <2>2. \A q \in Places : Where'[q] = Where[q]
    BY <1>1, <2>1, Unmoved
  <2>3. QED
    BY <1>2, <2>2 DEF OwnerInv, Partition, Apart, Everything
<1>7. QED
  BY <1>3, <1>4, <1>5, <1>6 DEF OwnerInv

(* The settings are those that main made.                                  *)
LEMMA SetupStays == [Next]_vars => setup' = setup
BY DEF Next, Worker, Start, LoopHead, Leave, Alloc, AllocFails, Fill, Send, FreeUnsent,
       Receive, FreeReceived, SendBack, SentBack, Complete, handle_sig, vars

(* Every step keeps the invariant.                                         *)
LEMMA Step ==
    ASSUME IInv, [Next]_vars
    PROVE  IInv'
<1>1. setup \in Setups /\ setup' = setup
  BY SetupStays DEF IInv
<1>2. app' = app
  BY <1>1 DEF app
<1> SUFFICES ASSUME app # "loopback" PROVE OwnerInv'
  BY <1>1, <1>2 DEF IInv
<1>3. OwnerInv
  BY DEF IInv
<1>4. CASE UNCHANGED vars
  BY <1>3, <1>4, QuietStep DEF vars
<1>5. CASE handle_sig
  BY <1>3, <1>5, QuietStep DEF handle_sig
<1>6. ASSUME NEW l \in Lcores, Complete(l) PROVE OwnerInv'
  BY <1>1, <1>3, <1>6, CompleteStep
<1>7. ASSUME NEW l \in Lcores, Worker(l) PROVE OwnerInv'
  <2>1. /\ pc[l] \in {"start", "head", "alloc", "rx", "done", "failed"} => bufs[l] = <<>>
        /\ pc[l] \in {"fill", "tx", "free_received"} => nb_tx[l] = 0
        /\ pc[l] # "send_back"
    BY <1>3 DEF OwnerInv, Phase
  <2>2. CASE Start(l)
    BY <1>3, <2>1, <2>2, QuietStep DEF Start, Goto
  <2>3. CASE LoopHead(l)
    BY <1>3, <2>1, <2>3, QuietStep DEF LoopHead, Goto
  <2>4. CASE Leave(l)
    BY <1>3, <2>1, <2>4, QuietStep DEF Leave, Goto
  <2>5. CASE AllocFails(l)
    BY <1>3, <2>1, <2>5, QuietStep DEF AllocFails, Goto
  <2>6. CASE Fill(l)
    BY <1>3, <2>1, <2>6, QuietStep DEF Fill, Goto
  <2>7. CASE Alloc(l)
    BY <1>1, <1>3, <2>7, AllocStep
  <2>8. CASE Send(l)
    BY <1>1, <1>3, <2>8, SendStep
  <2>9. CASE FreeUnsent(l) \/ FreeReceived(l)
    BY <1>1, <1>3, <2>9, FreeStep
  <2>10. CASE Receive(l)
    BY <1>1, <1>3, <2>10, ReceiveStep
  <2>11. CASE SendBack(l) \/ SentBack(l)
    BY <2>1, <2>11 DEF SendBack, SentBack, Goto
  <2>12. QED
    BY <1>7, <2>2, <2>3, <2>4, <2>5, <2>6, <2>7, <2>8, <2>9, <2>10, <2>11 DEF Worker
<1>8. QED
  BY <1>4, <1>5, <1>6, <1>7 DEF Next
-------------------------------------------------------------------------------
(* device_setup fills rings that do not overlap.                           *)
LEMMA PostedApart ==
    ASSUME NEW l \in Lcores, NEW m \in Lcores, l < m, setup \in Setups
    PROVE  Posted(l) \cap Posted(m) = {}
<1>1. l \in Nat /\ m \in Nat /\ Descriptors \in Nat
  BY LoopsAssumption, FiniteMemory
<1>2. PICK d \in Nat : m = l + 1 + d
  <2>1. m - l - 1 \in Nat /\ m = l + 1 + (m - l - 1)
    BY <1>1
  <2>2. QED
    BY <2>1
<1> DEFINE a == (l + 1) * Descriptors
           b == d * Descriptors
<1>3. m * Descriptors = a + b
  BY <1>1, <1>2
<1>4. a \in Nat /\ b \in Nat
  BY <1>1, <1>2
<1>5. /\ Posted(l) = l * Descriptors + 1 .. a
      /\ Posted(m) = m * Descriptors + 1 .. (m + 1) * Descriptors
  BY DEF Posted
<1>6. l * Descriptors \in Int /\ m * Descriptors \in Int /\ (m + 1) * Descriptors \in Int
  BY <1>1
<1> DEFINE c == m * Descriptors
           e == l * Descriptors
           f == (m + 1) * Descriptors
<1> HIDE DEF a, b, c, e, f
<1>7. (e + 1 .. a) \cap (c + 1 .. f) = {}
  BY <1>3, <1>4, <1>6 DEF c, e, f
<1>8. QED
  BY <1>5, <1>7 DEF c, e, f

(* main leaves the full rings and the rest of the pool to the workers.     *)
LEMMA InitHolds == Init => IInv
<1> SUFFICES ASSUME Init, app # "loopback" PROVE OwnerInv
  BY DEF IInv, Init
<1>1. setup \in Setups
  BY DEF Init
<1>2. /\ \A l \in Lcores : tx_ring[l] = <<>> /\ bufs[l] = <<>> /\ nb_tx[l] = 0
      /\ rx_ring = [l \in Lcores |-> IF Receives THEN Posted(l) ELSE {}]
      /\ free = Mbufs \ UNION {rx_ring[l] : l \in Lcores}
  BY DEF Init
<1>3. \A l \in Lcores : rx_ring[l] \subseteq Mbufs
  <2> SUFFICES ASSUME NEW l \in Lcores, Receives PROVE Posted(l) \subseteq Mbufs
    BY <1>2
  <2>1. l \in Nat /\ Descriptors \in Nat /\ setup.mempool_size \in Nat
    BY <1>1, LoopsAssumption, FiniteMemory
  <2>2. (l + 1) * Descriptors <= setup.mempool_size
    BY <1>1, LoopsAssumption DEF Receives, app, Descriptors
  <2> DEFINE a == (l + 1) * Descriptors
             b == l * Descriptors
  <2>3. a \in Nat /\ b \in Nat
    BY <2>1
  <2>4. Posted(l) = b + 1 .. a /\ a <= setup.mempool_size
    BY <2>2 DEF Posted
  <2> HIDE DEF a, b
  <2>5. QED
    BY <2>1, <2>3, <2>4 DEF Mbufs
<1>4. \A l, m \in Lcores : l # m => rx_ring[l] \cap rx_ring[m] = {}
  <2> SUFFICES ASSUME NEW l \in Lcores, NEW m \in Lcores, l # m, Receives
               PROVE  Posted(l) \cap Posted(m) = {}
    BY <1>2
  <2>1. l < m \/ m < l
    BY LoopsAssumption
  <2>2. QED
    BY <1>1, <2>1, PostedApart
<1>5. Shape
  BY <1>2, <1>3 DEF Init, Shape
<1>6. Injective
  BY <1>2 DEF Injective, IsInjective
<1>7. Phase
  BY <1>2 DEF Init, Phase
<1>8. Partition
  <2>1. \A l \in Lcores : Held(l) = {} /\ Range(tx_ring[l]) = {}
    <3>1. \A l \in Lcores : Held(l) = {}
      BY <1>2, <1>5, HeldCases DEF HeldIs
    <3>2. Range(<<>>) = {}
      BY DEF Range
    <3>3. QED
      BY <1>2, <3>1, <3>2
  <2>2. /\ Where[<<"pool", -1>>] = free
        /\ \A l \in Lcores : /\ Where[<<"rx", l>>] = rx_ring[l]
                             /\ Where[<<"tx", l>>] = {}
                             /\ Where[<<"held", l>>] = {}
    BY <2>1, Positions DEF Located
  <2>3. Apart(Where)
    <3>1. \A l \in Lcores : free \cap rx_ring[l] = {}
      BY <1>2
    <3> SUFFICES ASSUME NEW p \in Places, NEW r \in Places, p # r
                 PROVE  Where[p] \cap Where[r] = {}
      BY DEF Apart
    <3>2. \A q \in Places : \/ q = <<"pool", -1>>
                           \/ \E l \in Lcores : q = <<"rx", l>>
                           \/ Where[q] = {}
      BY <2>2, PlacesAre
    <3>3. ASSUME NEW l \in Lcores, NEW m \in Lcores, p = <<"rx", l>>, r = <<"rx", m>>
          PROVE  Where[p] \cap Where[r] = {}
      BY <1>4, <2>2, <3>3
    <3>4. ASSUME NEW l \in Lcores, \/ p = <<"pool", -1>> /\ r = <<"rx", l>>
                                   \/ r = <<"pool", -1>> /\ p = <<"rx", l>>
          PROVE  Where[p] \cap Where[r] = {}
      BY <2>2, <3>1, <3>4
    <3>5. CASE Where[p] = {} \/ Where[r] = {}
      BY <3>5
    <3>6. CASE \E l \in Lcores : p = <<"rx", l>>
      <4>1. PICK l \in Lcores : p = <<"rx", l>>
        BY <3>6
      <4>2. CASE r = <<"pool", -1>>
        BY <3>4, <4>1, <4>2
      <4>3. CASE \E m \in Lcores : r = <<"rx", m>>
        BY <3>3, <4>1, <4>3
      <4>4. QED
        BY <3>2, <3>5, <4>2, <4>3
    <3>7. CASE p = <<"pool", -1>>
      <4>1. CASE \E m \in Lcores : r = <<"rx", m>>
        <5>1. PICK m \in Lcores : r = <<"rx", m>>
          BY <4>1
        <5>2. Where[p] = free /\ Where[r] = rx_ring[m]
          BY <2>2, <3>7, <5>1
        <5>3. QED
          BY <3>1, <5>2
      <4>2. r # <<"pool", -1>>
        BY <3>7
      <4>3. QED
        BY <3>2, <3>5, <4>1, <4>2
    <3>8. QED
      BY <3>2, <3>5, <3>6, <3>7
  <2>4. Everything(Where) = Mbufs
    <3>1. free \subseteq Mbufs
      BY <1>2
    <3>2. ASSUME NEW p \in Places PROVE Where[p] \subseteq Mbufs
      <4>1. CASE p = <<"pool", -1>>
        BY <2>2, <3>1, <4>1
      <4>2. ASSUME NEW l \in Lcores, p = <<"rx", l>> PROVE Where[p] \subseteq Mbufs
        BY <1>3, <2>2, <4>2
      <4>3. ASSUME NEW l \in Lcores, p \in {<<"tx", l>>, <<"held", l>>}
            PROVE  Where[p] \subseteq Mbufs
        BY <2>2, <4>3
      <4>4. QED
        BY <4>1, <4>2, <4>3, PlacesAre
    <3>3. ASSUME NEW x \in Mbufs
          PROVE  x \in Where[<<"pool", -1>>] \/ \E l \in Lcores : x \in Where[<<"rx", l>>]
      <4>1. CASE x \in UNION {rx_ring[l] : l \in Lcores}
        <5>1. PICK l \in Lcores : x \in rx_ring[l]
          BY <4>1
        <5>2. QED
          BY <2>2, <5>1
      <4>2. CASE x \notin UNION {rx_ring[l] : l \in Lcores}
        BY <1>2, <2>2, <4>2
      <4>3. QED
        BY <4>1, <4>2
    <3>4. QED
      BY <3>2, <3>3, PlacesAre DEF Everything
  <2>5. QED
    BY <2>3, <2>4 DEF Partition
<1>9. QED
  BY <1>5, <1>6, <1>7, <1>8 DEF OwnerInv

(* The inductive invariant: the places partition the pool's mbufs, and     *)
(* what a worker's array holds fits where it is in its loop.               *)
THEOREM Invariance == Spec => []IInv
<1>1. IInv /\ [Next]_vars => IInv'
  BY Step
<1>2. QED
  BY <1>1, InitHolds, PTL DEF Spec

(* No mbuf has two owners: no double free, and no packet is written while  *)
(* the NIC sends it, in any interleaving of any number of workers.         *)
THEOREM Owned == Spec => []SingleOwner
<1>1. IInv => SingleOwner
  <2> SUFFICES ASSUME IInv, app # "loopback"
               PROVE  /\ \A p, r \in Places : p # r => Holds(p) \cap Holds(r) = {}
                      /\ \A l \in Lcores : IsInjective(tx_ring[l])
    BY DEF SingleOwner
  <2>1. \A p \in Places : Where[p] = Holds(p)
    BY DEF Where
  <2>2. QED
    BY <2>1 DEF IInv, OwnerInv, Injective, Partition, Apart
<1>2. QED
  BY <1>1, Invariance, PTL

(* No path through the loops loses an mbuf.                                *)
THEOREM Conserved == Spec => []NothingLost
<1>1. IInv => NothingLost
  <2> SUFFICES ASSUME IInv, app # "loopback"
               PROVE  UNION {Holds(p) : p \in Places} = Mbufs
    BY DEF NothingLost
  <2>1. \A p \in Places : Where[p] = Holds(p)
    BY DEF Where
  <2>2. QED
    BY <2>1 DEF IInv, OwnerInv, Partition, Everything
<1>2. QED
  BY <1>1, Invariance, PTL
-------------------------------------------------------------------------------
(* The pool's size.  The rings and the arrays stay within their bounds, in *)
(* every application.                                                      *)
Control ==
    /\ pc \in [Lcores -> {"start", "head", "alloc", "fill", "tx", "free_unsent", "rx",
                          "free_received", "send_back"} \cup Ended]
    /\ create_packet \in BOOLEAN /\ stop \in BOOLEAN
    /\ new_packet \in [Lcores -> {"garbage", "null", "heap", "freed"}]

Sizes ==
    \A l \in Lcores :
        /\ Cardinality(rx_ring[l]) <= Descriptors
        /\ Len(tx_ring[l]) <= Descriptors /\ Len(bufs[l]) <= BurstSize
        /\ nb_tx[l] \in 0 .. NbTxModulus - 1

(* Who never receives leaves no mbuf in a receive ring, and who never      *)
(* sends asks for none.                                                    *)
OneWay ==
    \A l \in Lcores :
        /\ ~ Receives => rx_ring[l] = {} /\ pc[l] \notin {"rx", "free_received", "send_back"}
        /\ ~ Sends => pc[l] \notin {"alloc", "fill", "tx", "free_unsent"}

NeverShort == setup.mempool_size >= OptimalMempoolSize => \A l \in Lcores : pc[l] # "failed"

PoolInv == Shape /\ Control /\ Sizes /\ OneWay /\ NeverShort /\ TemplateBehindFlag

LEMMA PoolSettings ==
    ASSUME setup \in Setups
    PROVE  /\ Descriptors \in Nat \ {0} /\ BurstSize \in Nat \ {0} /\ CacheSize \in Nat
           /\ Burst \in 1 .. BurstSize /\ NbTxModulus \in Nat /\ BurstSize < NbTxModulus
           /\ app \in AppNames /\ Cardinality(Lcores) \in Nat
<1>1. setup \in [app : AppNames, mempool_size : Nat,
                 descriptors : Nat \ {0}, burst_size : Nat \ {0}]
  BY LoopsAssumption
<1>2. setup.burst_size < NbTxModulus /\ NbTxModulus \in Nat /\ CacheSize \in Nat
  BY LoopsAssumption
<1>3. Cardinality(Lcores) \in Nat
  BY LoopsAssumption, FS_CardinalityType
<1>4. BurstSize \in Nat \ {0} /\ Burst \in 1 .. BurstSize
  BY <1>1 DEF Burst, BurstSize
<1>5. QED
  BY <1>1, <1>2, <1>3, <1>4 DEF Descriptors, BurstSize, app

(* Where the worker may be, and its template, take a value they may have.  *)
LEMMA ControlStep ==
    ASSUME Control, [Next]_vars
    PROVE  Control'
<1>1. ASSUME NEW l \in Lcores, Start(l) \/ Leave(l) PROVE Control'
  BY <1>1 DEF Control, Start, Leave, Goto, pkt, mem, Ended
<1>2. ASSUME NEW l \in Lcores,
             \/ LoopHead(l) \/ Alloc(l) \/ AllocFails(l) \/ Fill(l) \/ Send(l) \/ FreeUnsent(l)
             \/ Receive(l) \/ FreeReceived(l) \/ SentBack(l)
      PROVE  Control'
  <2>1. UNCHANGED <<create_packet, new_packet, stop>>
    BY <1>2 DEF LoopHead, Alloc, AllocFails, Fill, Send, FreeUnsent, Receive, FreeReceived, SentBack, pkt
  <2>2. \E there \in {"alloc", "rx", "fill", "tx", "failed", "free_unsent", "head", "send_back",
                      "free_received"} : pc' = [pc EXCEPT ![l] = there]
    BY <1>2 DEF LoopHead, Alloc, AllocFails, Fill, Send, FreeUnsent, Receive, FreeReceived, SentBack, Goto
  <2>3. QED
    BY <2>1, <2>2 DEF Control, Ended
<1>3. ASSUME (\E l \in Lcores : SendBack(l) \/ Complete(l)) \/ handle_sig \/ UNCHANGED vars
      PROVE  Control'
  <2>1. UNCHANGED <<create_packet, new_packet, pc>> /\ (stop' = stop \/ stop' = TRUE)
    BY <1>3 DEF SendBack, Complete, handle_sig, vars, pkt
  <2>2. QED
    BY <2>1 DEF Control
<1>4. QED
  BY <1>1, <1>2, <1>3 DEF Next, Worker

(* Nobody has a template taken away while the flag says that it has one.   *)
LEMMA TemplateStep ==
    ASSUME Control, TemplateBehindFlag, [Next]_vars
    PROVE  TemplateBehindFlag'
<1>1. app' = app
  BY SetupStays DEF app
<1>2. ASSUME NEW l \in Lcores, Start(l) \/ Leave(l) PROVE TemplateBehindFlag'
  BY <1>1, <1>2 DEF Control, TemplateBehindFlag, Start, Leave, Goto, pkt, Ended
<1>3. ASSUME NEW l \in Lcores,
             \/ LoopHead(l) \/ Alloc(l) \/ AllocFails(l) \/ Fill(l) \/ Send(l) \/ FreeUnsent(l)
             \/ Receive(l) \/ FreeReceived(l) \/ SentBack(l)
      PROVE  TemplateBehindFlag'
  <2>1. UNCHANGED <<create_packet, new_packet>>
    BY <1>3 DEF LoopHead, Alloc, AllocFails, Fill, Send, FreeUnsent, Receive, FreeReceived, SentBack, pkt
  <2>2. pc[l] \notin Ended \cup {"start"} /\ \E there : pc' = [pc EXCEPT ![l] = there]
    BY <1>3 DEF LoopHead, Alloc, AllocFails, Fill, Send, FreeUnsent, Receive, FreeReceived, SentBack,
                Goto, Ended
  <2>3. QED
    BY <1>1, <2>1, <2>2 DEF Control, TemplateBehindFlag
<1>4. ASSUME (\E l \in Lcores : SendBack(l) \/ Complete(l)) \/ handle_sig \/ UNCHANGED vars
      PROVE  TemplateBehindFlag'
  <2>1. UNCHANGED <<create_packet, new_packet, pc>>
    BY <1>4 DEF SendBack, Complete, handle_sig, vars, pkt
  <2>2. QED
    BY <1>1, <2>1 DEF TemplateBehindFlag
<1>5. QED
  BY <1>2, <1>3, <1>4 DEF Next, Worker

(* One worker's rings and array change, each to something of its size.     *)
LEMMA MemoryStep ==
    ASSUME Shape, Sizes, setup' = setup, NEW l \in Lcores,
           free' \subseteq Mbufs, DOMAIN pc' = Lcores,
           \/ rx_ring' = rx_ring
           \/ \E r \in SUBSET Mbufs : /\ Cardinality(r) <= Descriptors
                                      /\ rx_ring' = [rx_ring EXCEPT ![l] = r],
           \/ tx_ring' = tx_ring
           \/ \E t \in Seq(Mbufs) : /\ Len(t) <= Descriptors
                                    /\ tx_ring' = [tx_ring EXCEPT ![l] = t],
           \/ bufs' = bufs
           \/ \E b \in Seq(Mbufs) : /\ Len(b) <= BurstSize
                                    /\ bufs' = [bufs EXCEPT ![l] = b],
           \/ nb_tx' = nb_tx
           \/ \E n \in 0 .. NbTxModulus - 1 : nb_tx' = [nb_tx EXCEPT ![l] = n]
    PROVE  Shape' /\ Sizes'
<1>1. Mbufs' = Mbufs /\ Descriptors' = Descriptors /\ BurstSize' = BurstSize
  BY DEF Mbufs, Descriptors, BurstSize
<1>2. /\ rx_ring' \in [Lcores -> SUBSET Mbufs]
      /\ \A m \in Lcores : Cardinality(rx_ring'[m]) <= Descriptors
  <2>1. CASE rx_ring' = rx_ring
    BY <2>1 DEF Shape, Sizes
  <2>2. ASSUME NEW r \in SUBSET Mbufs, Cardinality(r) <= Descriptors,
               rx_ring' = [rx_ring EXCEPT ![l] = r]
        PROVE  /\ rx_ring' \in [Lcores -> SUBSET Mbufs]
               /\ \A m \in Lcores : Cardinality(rx_ring'[m]) <= Descriptors
    BY <2>2 DEF Shape, Sizes
  <2>3. QED
    BY <2>1, <2>2
<1>3. /\ tx_ring' \in [Lcores -> Seq(Mbufs)]
      /\ \A m \in Lcores : Len(tx_ring'[m]) <= Descriptors
  <2>1. CASE tx_ring' = tx_ring
    BY <2>1 DEF Shape, Sizes
  <2>2. ASSUME NEW t \in Seq(Mbufs), Len(t) <= Descriptors, tx_ring' = [tx_ring EXCEPT ![l] = t]
        PROVE  /\ tx_ring' \in [Lcores -> Seq(Mbufs)]
               /\ \A m \in Lcores : Len(tx_ring'[m]) <= Descriptors
    BY <2>2 DEF Shape, Sizes
  <2>3. QED
    BY <2>1, <2>2
<1>4. /\ bufs' \in [Lcores -> Seq(Mbufs)]
      /\ \A m \in Lcores : Len(bufs'[m]) <= BurstSize
  <2>1. CASE bufs' = bufs
    BY <2>1 DEF Shape, Sizes
  <2>2. ASSUME NEW b \in Seq(Mbufs), Len(b) <= BurstSize, bufs' = [bufs EXCEPT ![l] = b]
        PROVE  /\ bufs' \in [Lcores -> Seq(Mbufs)]
               /\ \A m \in Lcores : Len(bufs'[m]) <= BurstSize
    BY <2>2 DEF Shape, Sizes
  <2>3. QED
    BY <2>1, <2>2
<1>5. /\ nb_tx' \in [Lcores -> Nat]
      /\ \A m \in Lcores : nb_tx'[m] \in 0 .. NbTxModulus - 1
  BY LoopsAssumption DEF Shape, Sizes
<1>6. QED
  BY <1>1, <1>2, <1>3, <1>4, <1>5 DEF Shape, Sizes

(* Giving back what the array holds.                                       *)
LEMMA GivesBack ==
    ASSUME Shape, Sizes, setup \in Setups, NEW l \in Lcores,
           FreeUnsent(l) \/ FreeReceived(l) \/ SentBack(l)
    PROVE  Shape' /\ Sizes'
<1>1. /\ setup' = setup /\ rx_ring' = rx_ring /\ tx_ring' = tx_ring
      /\ bufs' = [bufs EXCEPT ![l] = <<>>]
      /\ nb_tx' = nb_tx \/ nb_tx' = [nb_tx EXCEPT ![l] = 0]
  BY DEF FreeUnsent, FreeReceived, SentBack, mem
<1>2. DOMAIN pc' = Lcores
  BY DEF FreeUnsent, FreeReceived, SentBack, Goto, Shape
<1>3. free' \subseteq Mbufs
  <2>1. bufs[l] \in Seq(Mbufs) /\ nb_tx[l] + 1 \in Nat \ {0} /\ Len(bufs[l]) \in 0 .. Len(bufs[l])
    BY DEF Shape
  <2>2. Range(bufs[l]) \subseteq Mbufs /\ Range(Unsent(l)) \subseteq Mbufs
    BY <2>1, SubSeqFacts, SeqRange DEF Unsent
  <2>3. free' \in {free, free \cup Range(bufs[l]), free \cup Range(Unsent(l))}
    BY DEF FreeUnsent, FreeReceived, SentBack, mem
  <2>4. QED
    BY <2>2, <2>3 DEF Shape
<1>4. <<>> \in Seq(Mbufs) /\ Len(<<>>) <= BurstSize /\ 0 \in 0 .. NbTxModulus - 1
  BY PoolSettings
<1>5. QED
  BY <1>1, <1>2, <1>3, <1>4, MemoryStep

LEMMA Joined ==
    ASSUME NEW S, NEW s \in Seq(S), NEW t \in Seq(S)
    PROVE  s \o t \in Seq(S) /\ Len(s \o t) = Len(s) + Len(t)
OBVIOUS

(* The ring never gets more than it has descriptors for.                   *)
LEMMA BurstFits ==
    ASSUME Shape, Sizes, setup \in Setups, NEW l \in Lcores, NEW n \in Nat, TxBurst(l, n)
    PROVE  /\ n <= Len(bufs[l])
           /\ \E t \in Seq(Mbufs) : /\ Len(t) <= Descriptors
                                    /\ tx_ring' = [tx_ring EXCEPT ![l] = t]
<1> DEFINE a == Len(bufs[l])
           b == Descriptors - Len(tx_ring[l])
           t == tx_ring[l] \o SubSeq(bufs[l], 1, n)
<1>1. bufs[l] \in Seq(Mbufs) /\ tx_ring[l] \in Seq(Mbufs) /\ a \in Int /\ b \in Int
  BY PoolSettings DEF Shape
<1>2. n <= a /\ n <= b
  <2>1. n <= Min({a, b})
    BY DEF TxBurst
  <2>2. a \in Int /\ b \in Int
    BY <1>1
  <2> HIDE DEF a, b
  <2>3. Min({a, b}) \in Int /\ Min({a, b}) <= a /\ Min({a, b}) <= b
    BY <2>2, MinOfTwo
  <2>4. QED
    BY <2>1, <2>2, <2>3
<1>3. SubSeq(bufs[l], 1, n) \in Seq(Mbufs) /\ Len(SubSeq(bufs[l], 1, n)) = n
  BY <1>1, <1>2
<1> DEFINE sent == SubSeq(bufs[l], 1, n)
<1>4. t = tx_ring[l] \o sent /\ tx_ring' = [tx_ring EXCEPT ![l] = t]
  BY DEF TxBurst, Shape
<1> HIDE DEF t, sent, a, b
<1>5. t \in Seq(Mbufs) /\ Len(t) = Len(tx_ring[l]) + n
  <2>1. sent \in Seq(Mbufs) /\ Len(sent) = n
    BY <1>3 DEF sent
  <2>2. QED
    BY <1>1, <1>4, <2>1, Joined
<1>6. Len(t) <= Descriptors
  BY <1>1, <1>2, <1>5, PoolSettings DEF b
<1>7. QED
  BY <1>2, <1>4, <1>5, <1>6 DEF a

LEMMA SendSizes ==
    ASSUME Shape, Sizes, setup \in Setups, NEW l \in Lcores, Send(l) \/ SendBack(l)
    PROVE  Shape' /\ Sizes'
<1>1. /\ setup' = setup /\ free' = free /\ rx_ring' = rx_ring /\ bufs' = bufs
      /\ DOMAIN pc' = Lcores
  BY DEF Send, SendBack, Goto, Shape
<1>2. PICK n \in 0 .. BurstSize, k \in 0 .. NbTxModulus - 1 :
          TxBurst(l, n) /\ nb_tx' = [nb_tx EXCEPT ![l] = k]
  <2>1. CASE Send(l)
    <3>1. PICK n \in 0 .. Burst : TxBurst(l, n) /\ nb_tx' = [nb_tx EXCEPT ![l] = n]
      BY <2>1 DEF Send
    <3>2. n \in 0 .. BurstSize /\ n \in 0 .. NbTxModulus - 1
      BY <3>1, PoolSettings
    <3>3. QED
      BY <3>1, <3>2
  <2>2. CASE SendBack(l)
    <3>1. PICK n \in 0 .. BurstSize :
             TxBurst(l, n) /\ nb_tx' = [nb_tx EXCEPT ![l] = (nb_tx[l] + n) % NbTxModulus]
      BY <2>2 DEF SendBack, Shape
    <3>2. nb_tx[l] \in Nat /\ n \in Nat /\ NbTxModulus \in Nat \ {0}
      BY <3>1, PoolSettings, LoopsAssumption DEF Shape
    <3>3. ((nb_tx[l] + n) % NbTxModulus) \in 0 .. NbTxModulus - 1
      BY <3>2
    <3>4. QED
      BY <3>1, <3>3
  <2>3. QED
    BY <2>1, <2>2
<1>3. n \in Nat
  BY <1>2, PoolSettings
<1>4. free' \subseteq Mbufs
  BY <1>1 DEF Shape
<1>5. QED
  BY <1>1, <1>2, <1>3, <1>4, BurstFits, MemoryStep

LEMMA AllocSizes ==
    ASSUME Shape, Sizes, setup \in Setups, NEW l \in Lcores, Alloc(l)
    PROVE  Shape' /\ Sizes'
<1> DEFINE got == AnyOf(free, Burst)
<1>1. /\ setup' = setup /\ rx_ring' = rx_ring /\ tx_ring' = tx_ring /\ DOMAIN pc' = Lcores
      /\ bufs' = [bufs EXCEPT ![l] = got] /\ nb_tx' = [nb_tx EXCEPT ![l] = 0]
      /\ free' \subseteq free
  BY DEF Alloc, Goto, Shape
<1>2. got \in [1 .. Burst -> free]
  <2>1. IsFiniteSet(free) /\ Burst \in Int /\ Burst <= Cardinality(free)
    BY PoolSettings, FiniteMemory DEF Shape, Alloc
  <2>2. QED
    BY <2>1, AnyOfMembers
<1> HIDE DEF got
<1>3. got \in Seq(Mbufs) /\ Len(got) <= BurstSize /\ 0 \in 0 .. NbTxModulus - 1
  <2>1. Burst \in Nat /\ Burst <= BurstSize /\ 0 \in 0 .. NbTxModulus - 1
    BY PoolSettings
  <2>2. got \in Seq(Mbufs) /\ Len(got) = Burst
    BY <1>2, <2>1 DEF Shape
  <2>3. QED
    BY <2>1, <2>2
<1>4. free' \subseteq Mbufs
  BY <1>1 DEF Shape
<1>5. QED
  BY <1>1, <1>3, <1>4, MemoryStep

LEMMA ReceiveSizes ==
    ASSUME Shape, Sizes, setup \in Setups, NEW l \in Lcores, Receive(l)
    PROVE  Shape' /\ Sizes'
<1>1. /\ setup' = setup /\ tx_ring' = tx_ring /\ DOMAIN pc' = Lcores
      /\ nb_tx' = [nb_tx EXCEPT ![l] = 0]
  BY DEF Receive, Goto, Shape
<1>2. PICK got, posted :
             /\ got \in Seq(rx_ring[l]) /\ posted \subseteq free
             /\ bufs' = [bufs EXCEPT ![l] = got] /\ free' = free \ posted
             /\ rx_ring' = [rx_ring EXCEPT ![l] = (rx_ring[l] \ Range(got)) \cup posted]
             /\ Len(got) <= BurstSize
             /\ Cardinality((rx_ring[l] \ Range(got)) \cup posted) <= Descriptors
  BY Received DEF Sizes
<1>3. /\ got \in Seq(Mbufs) /\ (rx_ring[l] \ Range(got)) \cup posted \in SUBSET Mbufs
      /\ free' \subseteq Mbufs /\ 0 \in 0 .. NbTxModulus - 1
  BY <1>2, PoolSettings DEF Shape
<1>4. QED
  BY <1>1, <1>2, <1>3, MemoryStep

LEMMA CompleteSizes ==
    ASSUME Shape, Sizes, setup \in Setups, NEW l \in Lcores, Complete(l)
    PROVE  Shape' /\ Sizes'
<1> DEFINE s == tx_ring[l]
<1>1. /\ setup' = setup /\ rx_ring' = rx_ring /\ bufs' = bufs /\ nb_tx' = nb_tx /\ pc' = pc
      /\ s # <<>> /\ free' = free \cup {s[1]}
  BY DEF Complete
<1>2. /\ s \in Seq(Mbufs) /\ tx_ring' = [tx_ring EXCEPT ![l] = Tail(s)]
      /\ Len(s) <= Descriptors /\ Descriptors \in Nat
  BY PoolSettings DEF Complete, Shape, Sizes
<1> HIDE DEF s
<1>3. Tail(s) \in Seq(Mbufs) /\ Len(Tail(s)) <= Descriptors /\ s[1] \in Mbufs
  BY <1>1, <1>2
<1>4. free' \subseteq Mbufs /\ DOMAIN pc' = Lcores
  BY <1>1, <1>3 DEF Shape
<1>5. QED
  BY <1>1, <1>2, <1>3, <1>4, MemoryStep

(* In every application the memory stays within its bounds.                *)
LEMMA SizesStep ==
    ASSUME Shape, Sizes, setup \in Setups, [Next]_vars
    PROVE  Shape' /\ Sizes'
<1>1. ASSUME NEW l \in Lcores, FreeUnsent(l) \/ FreeReceived(l) \/ SentBack(l) PROVE Shape' /\ Sizes'
  BY <1>1, GivesBack
<1>2. ASSUME NEW l \in Lcores, Send(l) \/ SendBack(l) PROVE Shape' /\ Sizes'
  BY <1>2, SendSizes
<1>3. ASSUME NEW l \in Lcores, Alloc(l) PROVE Shape' /\ Sizes'
  BY <1>3, AllocSizes
<1>4. ASSUME NEW l \in Lcores, Receive(l) PROVE Shape' /\ Sizes'
  BY <1>4, ReceiveSizes
<1>5. ASSUME NEW l \in Lcores, Complete(l) PROVE Shape' /\ Sizes'
  BY <1>5, CompleteSizes
<1>6. ASSUME \/ \E l \in Lcores : Start(l) \/ LoopHead(l) \/ Leave(l) \/ AllocFails(l) \/ Fill(l)
             \/ handle_sig \/ UNCHANGED vars
      PROVE  Shape' /\ Sizes'
  <2>1. UNCHANGED <<setup, free, rx_ring, tx_ring, bufs, nb_tx>> /\ DOMAIN pc' = Lcores
    BY <1>6 DEF Start, LoopHead, Leave, AllocFails, Fill, handle_sig, vars, mem, Goto, Shape
  <2>2. Mbufs' = Mbufs /\ Descriptors' = Descriptors /\ BurstSize' = BurstSize
    BY <2>1 DEF Mbufs, Descriptors, BurstSize
  <2>3. QED
    BY <2>1, <2>2 DEF Shape, Sizes
<1>7. QED
  BY <1>1, <1>2, <1>3, <1>4, <1>5, <1>6 DEF Next, Worker

LEMMA OneWayStep ==
    ASSUME OneWay, Shape, setup \in Setups, [Next]_vars
    PROVE  OneWay'
<1>1. app' = app /\ app \in AppNames
  BY SetupStays, PoolSettings DEF app
<1>2. Sends' = Sends /\ Receives' = Receives /\ (Sends \/ Receives) /\ (~ Receives => app # "bonding")
      /\ (~ Sends => app \notin {"generate", "bonding"}) /\ (~ Receives => app # "loopback")
  BY <1>1 DEF Sends, Receives, AppNames
<1>3. ASSUME NEW l \in Lcores, Receive(l) PROVE OneWay'
  <2>1. /\ pc[l] = "rx" /\ pc' \in {[pc EXCEPT ![l] = "send_back"], [pc EXCEPT ![l] = "free_received"]}
        /\ \E r : rx_ring' = [rx_ring EXCEPT ![l] = r]
    BY <1>3 DEF Receive, Goto
  <2>2. Receives
    BY <2>1 DEF OneWay
  <2>3. QED
    BY <1>2, <2>1, <2>2 DEF OneWay, Shape
<1>4. ASSUME NEW l \in Lcores,
             \/ Start(l) \/ LoopHead(l) \/ Leave(l) \/ Alloc(l) \/ AllocFails(l) \/ Fill(l) \/ Send(l)
             \/ FreeUnsent(l) \/ FreeReceived(l) \/ SendBack(l) \/ SentBack(l)
      PROVE  OneWay'
  <2>1. /\ rx_ring' = rx_ring
        /\ \/ pc' = pc
           \/ \E there \in {"head", "done", "failed"} : pc' = [pc EXCEPT ![l] = there]
           \/ pc[l] = "head" /\ pc' = [pc EXCEPT ![l] = IF Sends THEN "alloc" ELSE "rx"]
           \/ /\ pc[l] \in {"alloc", "fill", "tx", "free_unsent"}
              /\ \/ \E there \in {"fill", "tx", "free_unsent"} : pc' = [pc EXCEPT ![l] = there]
                 \/ app = "bonding" /\ pc' = [pc EXCEPT ![l] = "rx"]
    BY <1>4 DEF Start, LoopHead, Leave, Alloc, AllocFails, Fill, Send, FreeUnsent, FreeReceived,
                SendBack, SentBack, mem, Goto
  <2>2. QED
    BY <1>2, <2>1 DEF OneWay, Shape
<1>5. ASSUME (\E l \in Lcores : Complete(l)) \/ handle_sig \/ UNCHANGED vars
      PROVE  OneWay'
  <2>1. UNCHANGED <<pc, rx_ring>>
    BY <1>5 DEF Complete, handle_sig, vars, mem
  <2>2. QED
    BY <1>2, <2>1 DEF OneWay
<1>6. QED
  BY <1>3, <1>4, <1>5 DEF Next, Worker

(* No more members than positions, over any number of sequences.           *)
LEMMA Spread ==
    ASSUME NEW L, IsFiniteSet(L), NEW n \in Nat, NEW s, NEW U,
           \A x \in U : \E l \in L, k \in 1 .. n : s[l][k] = x
    PROVE  IsFiniteSet(U) /\ Cardinality(U) <= Cardinality(L) * n
<1> DEFINE All == L \X (1 .. n)
           Used == {p \in All : s[p[1]][p[2]] \in U}
           g == [p \in Used |-> s[p[1]][p[2]]]
<1>1. IsFiniteSet(1 .. n) /\ Cardinality(1 .. n) = n
  BY FS_Interval
<1>2. IsFiniteSet(All) /\ Cardinality(All) = Cardinality(L) * n
  BY <1>1, FS_Product
<1>3. IsFiniteSet(Used) /\ Cardinality(Used) <= Cardinality(All)
  BY <1>2, FS_Subset
<1>4. g \in Surjection(Used, U)
  <2>1. g \in [Used -> U]
    OBVIOUS
  <2>2. ASSUME NEW x \in U PROVE \E p \in Used : g[p] = x
    <3>1. PICK l \in L, k \in 1 .. n : s[l][k] = x
      OBVIOUS
    <3>2. <<l, k>> \in Used /\ g[<<l, k>>] = x
      BY <3>1
    <3>3. QED
      BY <3>2
  <2>3. QED
    BY <2>1, <2>2 DEF Surjection
<1>5. IsFiniteSet(U) /\ Cardinality(U) <= Cardinality(Used)
  BY <1>3, <1>4, FS_Surjection
<1>6. Cardinality(U) \in Nat /\ Cardinality(Used) \in Nat /\ Cardinality(All) \in Nat
  BY <1>2, <1>3, <1>5, FS_CardinalityType
<1> HIDE DEF Used, All
<1>7. QED
  BY <1>2, <1>3, <1>5, <1>6

(* A worker that asks for mbufs holds none itself.  The others hold at     *)
(* most an array each, the rings hold what they have descriptors for, and  *)
(* the pool has the rest: more than a burst and what the caches keep.      *)
LEMMA EnoughFree ==
    ASSUME IInv, PoolInv, app \in {"generate", "transmit"},
           setup.mempool_size >= OptimalMempoolSize,
           NEW l \in Lcores, pc[l] = "alloc"
    PROVE  Cardinality(free) >= Burst + OutOfReach
<1> DEFINE Others == Lcores \ {l}
           Sent == UNION {Range(tx_ring[m]) : m \in Lcores}
           Busy == UNION {Held(m) : m \in Others}
           n == Cardinality(Lcores)
<1>1. setup \in Setups /\ OwnerInv /\ Shape /\ Sizes /\ OneWay
  BY DEF IInv, PoolInv
<1>2. /\ Descriptors \in Nat \ {0} /\ BurstSize \in Nat \ {0} /\ CacheSize \in Nat
      /\ Burst \in 1 .. BurstSize /\ n \in Nat /\ setup.mempool_size \in Nat
  BY <1>1, PoolSettings, FiniteMemory
<1>3. IsFiniteSet(Lcores) /\ IsFiniteSet(Others) /\ Cardinality(Others) = n - 1
  BY LoopsAssumption, FS_RemoveElement
<1>4. IsFiniteSet(Sent) /\ Cardinality(Sent) <= n * Descriptors
  <2>1. ASSUME NEW x \in Sent PROVE \E m \in Lcores, k \in 1 .. Descriptors : tx_ring[m][k] = x
    <3>1. PICK m \in Lcores : x \in Range(tx_ring[m])
      OBVIOUS
    <3>2. tx_ring[m] \in Seq(Mbufs) /\ Len(tx_ring[m]) <= Descriptors
      BY <1>1 DEF Shape, Sizes
    <3>3. PICK k \in 1 .. Len(tx_ring[m]) : tx_ring[m][k] = x
      BY <3>1, <3>2, SeqRange
    <3>4. k \in 1 .. Descriptors
      BY <1>2, <3>2
    <3>5. QED
      BY <3>3, <3>4
  <2> HIDE DEF Sent
  <2>2. QED
    BY <1>2, <1>3, <2>1, Spread
<1>5. IsFiniteSet(Busy) /\ Cardinality(Busy) <= (n - 1) * BurstSize
  <2>1. ASSUME NEW x \in Busy PROVE \E m \in Others, k \in 1 .. BurstSize : bufs[m][k] = x
    <3>1. PICK m \in Others : x \in Held(m)
      OBVIOUS
    <3>2. bufs[m] \in Seq(Mbufs) /\ Len(bufs[m]) <= BurstSize /\ nb_tx[m] \in Nat
      BY <1>1 DEF Shape, Sizes
    <3>3. PICK k \in nb_tx[m] + 1 .. Len(bufs[m]) : bufs[m][k] = x
      BY <3>1 DEF Held
    <3>4. k \in 1 .. BurstSize
      BY <1>2, <3>2
    <3>5. QED
      BY <3>3, <3>4
  <2> HIDE DEF Busy, Others
  <2>2. IsFiniteSet(Busy) /\ Cardinality(Busy) <= Cardinality(Others) * BurstSize
    BY <1>2, <1>3, <2>1, Spread
  <2>3. QED
    BY <1>3, <2>2
<1>6. Mbufs \subseteq (free \cup Sent) \cup Busy
  <2>1. Held(l) = {}
    BY <1>1, HeldCases DEF HeldIs, OwnerInv, Phase
  <2>2. \A m \in Lcores : rx_ring[m] = {}
    BY <1>1 DEF OneWay, Receives
  <2>3. Everything(Where) = Mbufs
    BY <1>1 DEF OwnerInv, Partition
  <2> SUFFICES ASSUME NEW x \in Mbufs PROVE x \in (free \cup Sent) \cup Busy
    OBVIOUS
  <2>4. PICK p \in Places : x \in Where[p]
    BY <2>3 DEF Everything
  <2>5. CASE p = <<"pool", -1>>
    BY <2>4, <2>5, Positions DEF Located
  <2>6. ASSUME NEW m \in Lcores, p = <<"rx", m>> PROVE x \in (free \cup Sent) \cup Busy
    BY <2>2, <2>4, <2>6, Positions DEF Located
  <2>7. ASSUME NEW m \in Lcores, p = <<"tx", m>> PROVE x \in (free \cup Sent) \cup Busy
    <3>1. x \in Range(tx_ring[m])
      BY <2>4, <2>7, Positions DEF Located
    <3>2. QED
      BY <3>1
  <2>8. ASSUME NEW m \in Lcores, p = <<"held", m>> PROVE x \in (free \cup Sent) \cup Busy
    <3>1. x \in Held(m)
      BY <2>4, <2>8, Positions DEF Located
    <3>2. m \in Others
      BY <2>1, <3>1
    <3>3. QED
      BY <3>1, <3>2
  <2>9. QED
    BY <2>5, <2>6, <2>7, <2>8, PlacesAre
<1> HIDE DEF Sent, Busy, Others
<1>7. IsFiniteSet(free) /\ IsFiniteSet(Mbufs) /\ Cardinality(Mbufs) = setup.mempool_size
  <2>1. IsFiniteSet(free) /\ IsFiniteSet(Mbufs)
    BY <1>1, FiniteMemory DEF Shape
  <2>2. \A N \in Nat : Cardinality(1 .. N) = N
    BY FS_Interval
  <2>3. QED
    BY <1>2, <2>1, <2>2 DEF Mbufs
<1>8. setup.mempool_size <= Cardinality(free) + Cardinality(Sent) + Cardinality(Busy)
  <2>1. /\ IsFiniteSet(free \cup Sent) /\ IsFiniteSet((free \cup Sent) \cup Busy)
        /\ Cardinality(free \cup Sent) <= Cardinality(free) + Cardinality(Sent)
    BY <1>4, <1>5, <1>7, FS_Union, UnionSize
  <2>2. Cardinality((free \cup Sent) \cup Busy) <= Cardinality(free \cup Sent) + Cardinality(Busy)
    BY <1>5, <2>1, UnionSize
  <2>3. Cardinality(Mbufs) <= Cardinality((free \cup Sent) \cup Busy)
    BY <1>6, <2>1, FS_Subset
  <2>4. /\ Cardinality(free) \in Nat /\ Cardinality(Sent) \in Nat /\ Cardinality(Busy) \in Nat
        /\ Cardinality(free \cup Sent) \in Nat /\ Cardinality((free \cup Sent) \cup Busy) \in Nat
    BY <1>4, <1>5, <1>7, <2>1, FS_CardinalityType
  <2>5. QED
    BY <1>2, <1>7, <2>1, <2>2, <2>3, <2>4
<1>9. Cardinality(free) \in Nat /\ Cardinality(Sent) \in Nat /\ Cardinality(Busy) \in Nat
  BY <1>4, <1>5, <1>7, FS_CardinalityType
<1>10. n # 0
  BY <1>3, FS_EmptySet
<1> DEFINE nd == n * Descriptors
           nb == n * BurstSize
           nc == n * CacheSize
<1>11. /\ setup.mempool_size >= nd + nd + nb + nc /\ (n - 1) * BurstSize = nb - BurstSize
       /\ OutOfReach = nc - CacheSize
       /\ nd \in Nat /\ nb \in Nat /\ nc \in Nat
  BY <1>2 DEF OptimalMempoolSize, OutOfReach
<1> HIDE DEF nd, nb, nc, n
<1>12. Cardinality(free) >= nd + nc + BurstSize
  BY <1>2, <1>4, <1>5, <1>8, <1>9, <1>11 DEF nd
<1>13. QED
  BY <1>2, <1>9, <1>11, <1>12

LEMMA NeverShortStep ==
    ASSUME IInv, PoolInv, [Next]_vars
    PROVE  NeverShort'
<1>1. setup' = setup /\ setup \in Setups /\ app \in AppNames
  BY SetupStays, PoolSettings DEF IInv
<1>2. OptimalMempoolSize' = OptimalMempoolSize
  BY <1>1 DEF OptimalMempoolSize, Descriptors, BurstSize
<1> SUFFICES ASSUME setup.mempool_size >= OptimalMempoolSize
             PROVE  \A l \in Lcores : pc'[l] # "failed"
  BY <1>1, <1>2 DEF NeverShort
<1>3. \A l \in Lcores : pc[l] # "failed"
  BY DEF PoolInv, NeverShort
<1>4. ASSUME NEW l \in Lcores, AllocFails(l), app # "bonding" PROVE FALSE
  <2>1. pc[l] = "alloc" /\ Cardinality(free) < Burst + OutOfReach
    BY <1>4 DEF AllocFails, Goto
  <2>2. app \in {"generate", "transmit"}
    BY <1>4, <2>1 DEF PoolInv, OneWay, Sends
  <2>3. Cardinality(free) >= Burst + OutOfReach
    BY <2>1, <2>2, EnoughFree
  <2>4. Cardinality(free) \in Int /\ Burst + OutOfReach \in Int
    <3>1. free \in SUBSET Mbufs
      BY DEF PoolInv, Shape
    <3>2. Cardinality(free) \in Int
      BY <1>1, <3>1, FiniteMemory
    <3>3. QED
      BY <1>1, <3>2, PoolSettings DEF OutOfReach
  <2>5. QED
    BY <2>1, <2>3, <2>4
<1>5. \/ UNCHANGED pc
      \/ \E l \in Lcores : \E there \in {"head", "done", "alloc", "rx", "fill", "tx", "free_unsent",
                                         "send_back", "free_received"} : pc' = [pc EXCEPT ![l] = there]
  <2>1. ASSUME NEW l \in Lcores, AllocFails(l) PROVE pc' = [pc EXCEPT ![l] = "rx"]
    BY <1>4, <2>1 DEF AllocFails, Goto
  <2>2. ASSUME NEW l \in Lcores,
               \/ Start(l) \/ LoopHead(l) \/ Leave(l) \/ Alloc(l) \/ Fill(l) \/ Send(l) \/ FreeUnsent(l)
               \/ Receive(l) \/ FreeReceived(l) \/ SentBack(l)
        PROVE  \E there \in {"head", "done", "alloc", "rx", "fill", "tx", "free_unsent",
                             "send_back", "free_received"} : pc' = [pc EXCEPT ![l] = there]
    BY <2>2 DEF Start, LoopHead, Leave, Alloc, Fill, Send, FreeUnsent, Receive, FreeReceived, SentBack, Goto
  <2>3. ASSUME (\E l \in Lcores : SendBack(l) \/ Complete(l)) \/ handle_sig \/ UNCHANGED vars
        PROVE  UNCHANGED pc
    BY <2>3 DEF SendBack, Complete, handle_sig, vars
  <2>4. QED
    BY <2>1, <2>2, <2>3 DEF Next, Worker
<1>6. DOMAIN pc = Lcores
  BY DEF PoolInv, Shape
<1>7. QED
  BY <1>3, <1>5, <1>6

LEMMA PoolInit == Init => PoolInv
<1> SUFFICES ASSUME Init PROVE PoolInv
  OBVIOUS
<1>1. setup \in Setups
  BY DEF Init
<1>2. /\ Descriptors \in Nat \ {0} /\ BurstSize \in Nat \ {0} /\ NbTxModulus \in Nat
      /\ BurstSize < NbTxModulus /\ app \in AppNames
  BY <1>1, PoolSettings
<1>3. ASSUME NEW l \in Lcores, Receives
      PROVE  Posted(l) \subseteq Mbufs /\ Cardinality(Posted(l)) <= Descriptors
  <2>1. l \in Nat /\ setup.mempool_size \in Nat /\ (l + 1) * Descriptors <= setup.mempool_size
    BY <1>1, <1>3, LoopsAssumption, FiniteMemory DEF Receives, app, Descriptors
  <2> DEFINE a == (l + 1) * Descriptors
             b == l * Descriptors
  <2>2. a \in Nat /\ b \in Nat /\ a = b + Descriptors /\ a <= setup.mempool_size
    BY <1>2, <2>1
  <2>3. Posted(l) = b + 1 .. a
    BY DEF Posted
  <2> HIDE DEF a, b
  <2>4. Cardinality(b + 1 .. a) = Descriptors
    BY <1>2, <2>2, FS_Interval
  <2>5. QED
    BY <1>2, <2>1, <2>2, <2>3, <2>4 DEF Mbufs
<1>4. Shape
  BY <1>3 DEF Init, Shape
<1>5. Sizes
  <2>1. Cardinality({}) = 0
    BY FS_EmptySet
  <2>2. \A l \in Lcores : rx_ring[l] = {} \/ (Receives /\ rx_ring[l] = Posted(l))
    BY DEF Init
  <2>3. \A l \in Lcores : tx_ring[l] = <<>> /\ bufs[l] = <<>> /\ nb_tx[l] = 0
    BY DEF Init
  <2>4. ASSUME NEW l \in Lcores PROVE Cardinality(rx_ring[l]) <= Descriptors
    BY <1>2, <1>3, <2>1, <2>2
  <2>5. 0 \in 0 .. NbTxModulus - 1 /\ Len(<<>>) = 0
    BY <1>2
  <2>6. QED
    BY <1>2, <2>3, <2>4, <2>5 DEF Sizes
<1>6. Control /\ OneWay /\ NeverShort /\ TemplateBehindFlag
  BY <1>2 DEF Init, Control, OneWay, NeverShort, TemplateBehindFlag, Ended
<1>7. QED
  BY <1>4, <1>5, <1>6 DEF PoolInv

(* The sizes of the rings and arrays, the templates behind the flag, and,  *)
(* with the invariant of who owns what, the pool that is never too small.  *)
THEOREM PoolInvariance == Spec => []PoolInv
<1>1. IInv /\ PoolInv /\ [Next]_vars => PoolInv'
  <2> SUFFICES ASSUME IInv, PoolInv, [Next]_vars PROVE PoolInv'
    OBVIOUS
  <2>1. Shape' /\ Sizes'
    BY SizesStep DEF IInv, PoolInv
  <2>2. Control' /\ TemplateBehindFlag'
    BY ControlStep, TemplateStep DEF PoolInv
  <2>3. OneWay'
    BY OneWayStep DEF IInv, PoolInv
  <2>4. NeverShort'
    BY NeverShortStep
  <2>5. QED
    BY <2>1, <2>2, <2>3, <2>4 DEF PoolInv
<1>2. QED
  BY <1>1, PoolInit, Invariance, PTL DEF Spec

(* With a pool by the formula of common_args.c no sender runs out of mbufs, *)
(* for any number of workers, and the state is always well formed.         *)
THEOREM PoolIsEnough == Spec => []PoolSuffices
<1>1. IInv /\ PoolInv => PoolSuffices
  <2> SUFFICES ASSUME IInv, PoolInv PROVE PoolSuffices
    OBVIOUS
  <2>1. ASSUME NEW l \in Lcores
        PROVE  Range(tx_ring[l]) \subseteq Mbufs /\ Range(bufs[l]) \subseteq Mbufs
    <3>1. tx_ring[l] \in Seq(Mbufs) /\ bufs[l] \in Seq(Mbufs)
      BY DEF PoolInv, Shape
    <3>2. QED
      BY <3>1, SeqRange
  <2>2. TypeOK
    BY <2>1 DEF IInv, PoolInv, Shape, Sizes, Control, TypeOK
  <2>3. QED
    BY <2>2 DEF PoolInv, NeverShort, PoolSuffices
<1>2. QED
  BY <1>1, Invariance, PoolInvariance, PTL

(* No worker of generate copies from a template that is not there, nor     *)
(* frees one: the flag they share is cleared before anybody can.           *)
THEOREM TemplatesThere == Spec => []TemplateBehindFlag
<1>1. PoolInv => TemplateBehindFlag
  BY DEF PoolInv
<1>2. QED
  BY <1>1, PoolInvariance, PTL
===============================================================================
