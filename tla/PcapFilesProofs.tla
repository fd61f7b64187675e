--------------------------- MODULE PcapFilesProofs ---------------------------
(***************************************************************************)
(* Proofs about PcapFiles, for any number of workers with any jobs, any    *)
(* thresholds, bursts and packets: what receive writes, and what transmit  *)
(* makes of it, is what was received, unless the prefix of the names is so *)
(* long that it pushes their numbers out.                                  *)
(*                                                                         *)
(* The argument: jobs that share no queue make names that differ, as long  *)
(* as the port and the first queue are in the name (NumbersFit).  Then a   *)
(* file has one writer, and it holds the first SavedCount of what its      *)
(* writer received (WriterInv).  That gives transmit a sound capture, of   *)
(* which each worker is an odd offset in: behind the PCAP header and whole *)
(* records (ReaderInv).  Two workers share a capture, but no queue.        *)
(***************************************************************************)
EXTENDS PcapFiles, SequenceTheorems, FiniteSetTheorems, TLAPS

Shape ==
    /\ setup \in Setups /\ running \in {"receive", "transmit"} /\ stop \in BOOLEAN
    /\ pc \in [Lcores -> {"open", "head", "rx", "save", "open_capture", "read", "send"}
                           \cup Ended]
    /\ index \in [Lcores -> Nat]
    /\ file \in [Names -> Seq(Units)]
    /\ bufs \in [Lcores -> Seq(Packets)] /\ received \in [Lcores -> Seq(Packets)]
    /\ current_packets \in [Lcores -> 0 .. MaxPackets]
    /\ broken \subseteq Names
    /\ offset \in [Lcores -> Nat]
    /\ DOMAIN packet = Lcores
    /\ something_send \in [Lcores -> BOOLEAN]
    /\ offered \in [Queues -> Seq(Packets \cup {Garbage})]

(* Where the two applications can be.                                      *)
Writing == {"open", "head", "rx", "save"} \cup Ended
Reading == {"open_capture", "read", "send"} \cup Ended

JobQueues(l) == Job(l).start_index .. Job(l).end_index - 1

Control ==
    /\ running = "receive"  => /\ \A l \in Lcores : pc[l] \in Writing
                               /\ offset = [l \in Lcores |-> 0]
                               /\ offered = [q \in Queues |-> <<>>]
    /\ running = "transmit" => /\ \A l \in Lcores : pc[l] \in Reading
                               /\ pcap_file \in Names
    /\ \A l \in Lcores :
         /\ pc[l] \in {"rx", "save"} => index[l] \in JobQueues(l)
         /\ pc[l] = "send" => /\ index[l] \in Job(l).start_index .. Job(l).end_index
                              /\ packet[l] \in Packets \cup {Garbage}

(* How many packets the worker is done with, and how many of them it       *)
(* saved.                                                                  *)
HandledCount(l) == Len(received[l]) - Len(bufs[l])
SavedCount(l) ==
    IF setup.check_packet_th /\ setup.max_packets_per_queue >= 0
         /\ setup.max_packets_per_queue < HandledCount(l)
    THEN setup.max_packets_per_queue
    ELSE HandledCount(l)

(* A capture of these packets.                                             *)
CaptureOf(ps) == <<Hdr>> \o Records(ps)

Writer(l) ==
    /\ Len(bufs[l]) <= Len(received[l]) /\ Len(received[l]) <= MaxPackets
    /\ \A k \in 1 .. Len(bufs[l]) : bufs[l][k] = received[l][HandledCount(l) + k]
    /\ pc[l] # "save" => bufs[l] = <<>>
    /\ current_packets[l] = IF setup.check_packet_th THEN SavedCount(l) ELSE 0
    /\ pc[l] = "open" => received[l] = <<>>

(* What is in its file, which no other worker has.                         *)
Written(l) ==
    /\ pc[l] = "open" => file[FileName(l)] = <<>>
    /\ pc[l] \in {"head", "rx", "save"} => file[FileName(l)] # <<>>
    /\ (file[FileName(l)] # <<>> /\ FileName(l) \notin broken)
         => file[FileName(l)] = CaptureOf(SubSeq(received[l], 1, SavedCount(l)))

WriterInv ==
    running = "receive" => /\ \A l \in Lcores : Writer(l)
                           /\ NumbersFit => \A l \in Lcores : Written(l)

(* A capture that no write failed on.                                      *)
Sound(capture) == /\ PacketsOf(capture) \in Seq(Packets)
                  /\ capture = CaptureOf(PacketsOf(capture))

SoundInv ==
    running = "transmit" /\ NumbersFit =>
        \A n \in Names : (file[n] # <<>> /\ n \notin broken) => Sound(file[n])

(* How many packets the worker has read.                                   *)
ReadCount(l) == offset[l] \div 2

Given(q, k) == offered[q] = IF Skipped(q) THEN <<>> ELSE SubSeq(PacketsOf(Capture), 1, k)

Reader(l) ==
    /\ \A q \in JobQueues(l) : \E k \in 0 .. Len(PacketsOf(Capture)) : Given(q, k)
    /\ pc[l] = "open_capture" => \A q \in JobQueues(l) : offered[q] = <<>>
    /\ pc[l] \in {"read", "send"} =>
         offset[l] % 2 = 1 /\ ReadCount(l) <= Len(PacketsOf(Capture))
    /\ pc[l] = "read" => \A q \in JobQueues(l) : Given(q, ReadCount(l))
    /\ pc[l] = "send" =>
         /\ ReadCount(l) >= 1 /\ packet[l] = PacketsOf(Capture)[ReadCount(l)]
         /\ \A q \in JobQueues(l) :
              Given(q, IF q < index[l] THEN ReadCount(l) ELSE ReadCount(l) - 1)
         /\ something_send[l] <=> \E q \in Job(l).start_index .. index[l] - 1 : ~ Skipped(q)
    /\ pc[l] = "done" =>
         stop \/ \A q \in JobQueues(l) : ~ Skipped(q) => offered[q] = PacketsOf(Capture)

ReaderInv == Replaying => \A l \in Lcores : Reader(l)

IInv == Shape /\ Control /\ WriterInv /\ SoundInv /\ ReaderInv

-------------------------------------------------------------------------------
(* Sequences cut off at the front.                                         *)
LEMMA CutType ==
    ASSUME NEW S, NEW s \in Seq(S), NEW n \in 0 .. Len(s)
    PROVE  /\ SubSeq(s, 1, n) \in Seq(S) /\ Len(SubSeq(s, 1, n)) = n
           /\ \A k \in 1 .. n : SubSeq(s, 1, n)[k] = s[k]
  OBVIOUS

LEMMA CutWhole ==
    ASSUME NEW S, NEW s \in Seq(S)
    PROVE  SubSeq(s, 1, Len(s)) = s
  OBVIOUS

LEMMA CutNext ==
    ASSUME NEW S, NEW s \in Seq(S), NEW n \in Nat, n < Len(s)
    PROVE  Append(SubSeq(s, 1, n), s[n + 1]) = SubSeq(s, 1, n + 1)
<1> DEFINE a == Append(SubSeq(s, 1, n), s[n + 1])
           b == SubSeq(s, 1, n + 1)
<1>1. /\ SubSeq(s, 1, n) \in Seq(S) /\ Len(SubSeq(s, 1, n)) = n
      /\ \A k \in 1 .. n : SubSeq(s, 1, n)[k] = s[k]
  BY CutType
<1>2. /\ b \in Seq(S) /\ Len(b) = n + 1
      /\ \A k \in 1 .. n + 1 : b[k] = s[k]
  BY CutType
<1>3. s[n + 1] \in S
  OBVIOUS
<1>4. a \in Seq(S) /\ Len(a) = n + 1
  BY <1>1, <1>3
<1>5. \A k \in 1 .. n + 1 : a[k] = b[k]
  BY <1>1, <1>2, <1>3
<1> QED
  BY <1>2, <1>4, <1>5, SeqEqual

LEMMA CutLonger ==
    ASSUME NEW S, NEW s \in Seq(S), NEW t \in Seq(S), NEW n \in 0 .. Len(s)
    PROVE  SubSeq(s \o t, 1, n) = SubSeq(s, 1, n)
<1>1. /\ s \o t \in Seq(S) /\ Len(s \o t) = Len(s) + Len(t)
      /\ \A k \in 1 .. Len(s) : (s \o t)[k] = s[k]
  OBVIOUS
<1>2. /\ SubSeq(s \o t, 1, n) \in Seq(S) /\ Len(SubSeq(s \o t, 1, n)) = n
      /\ \A k \in 1 .. n : SubSeq(s \o t, 1, n)[k] = (s \o t)[k]
  BY <1>1, CutType
<1>3. /\ SubSeq(s, 1, n) \in Seq(S) /\ Len(SubSeq(s, 1, n)) = n
      /\ \A k \in 1 .. n : SubSeq(s, 1, n)[k] = s[k]
  BY CutType
<1> QED
  BY <1>1, <1>2, <1>3, SeqEqual

(* The units of a file can be told apart, and a header names its packet.   *)
LEMMA UnitsDiffer ==
    /\ Hdr \in Units /\ Part \in Units /\ Hdr # Part
    /\ \A p \in Packets :
         /\ Header(p) \in Units /\ Data(p) \in Units
         /\ Header(p) \notin {Hdr, Part} /\ Data(p) \notin {Hdr, Part}
         /\ Header(p).packet = p /\ Data(p).packet = p
BY DEF Units, Hdr, Part, Header, Data

(* The records of n packets: a header at every odd place, behind it the    *)
(* data.                                                                   *)
LEMMA RecordsAre ==
    ASSUME NEW ps \in Seq(Packets)
    PROVE  /\ Records(ps) \in Seq(Units) /\ Len(Records(ps)) = 2 * Len(ps)
           /\ \A k \in 1 .. Len(ps) : /\ Records(ps)[2 * k - 1] = Header(ps[k])
                                      /\ Records(ps)[2 * k] = Data(ps[k])
<1> DEFINE unit(k) == IF k % 2 = 1 THEN Header(ps[(k + 1) \div 2]) ELSE Data(ps[k \div 2])
           n == 2 * Len(ps)
<1>1. Records(ps) = [k \in 1 .. n |-> unit(k)]
  BY DEF Records
<1>2. n \in Nat
  OBVIOUS
<1>3. ASSUME NEW k \in 1 .. n PROVE unit(k) \in Units
  <2>1. k % 2 = 1 => (k + 1) \div 2 \in 1 .. Len(ps)
    OBVIOUS
  <2>2. k % 2 # 1 => k \div 2 \in 1 .. Len(ps)
    OBVIOUS
  <2>3. \A j \in 1 .. Len(ps) : ps[j] \in Packets
    OBVIOUS
  <2> QED
    BY <2>1, <2>2, <2>3, UnitsDiffer
<1>4. ASSUME NEW k \in 1 .. Len(ps)
      PROVE  unit(2 * k - 1) = Header(ps[k]) /\ unit(2 * k) = Data(ps[k])
  <2>1. (2 * k - 1) % 2 = 1 /\ ((2 * k - 1) + 1) \div 2 = k
    OBVIOUS
  <2>2. (2 * k) % 2 # 1 /\ (2 * k) \div 2 = k
    OBVIOUS
  <2> QED
    BY <2>1, <2>2
<1>5. \A k \in 1 .. Len(ps) : 2 * k - 1 \in 1 .. n /\ 2 * k \in 1 .. n
  OBVIOUS
<1> HIDE DEF unit, n
<1>6. Records(ps) \in Seq(Units) /\ Len(Records(ps)) = n
  BY <1>1, <1>2, <1>3
<1>7. \A k \in 1 .. Len(ps) : /\ Records(ps)[2 * k - 1] = Header(ps[k])
                              /\ Records(ps)[2 * k] = Data(ps[k])
  BY <1>1, <1>4, <1>5
<1> QED
  BY <1>6, <1>7 DEF n

LEMMA CaptureIs ==
    ASSUME NEW ps \in Seq(Packets)
    PROVE  LET c == CaptureOf(ps) IN
           /\ c \in Seq(Units) /\ Len(c) = 2 * Len(ps) + 1 /\ c[1] = Hdr
           /\ \A k \in 1 .. Len(ps) : /\ c[2 * k] = Header(ps[k])
                                      /\ c[2 * k + 1] = Data(ps[k])
           /\ PacketsOf(c) = ps
<1> DEFINE c == CaptureOf(ps)
<1>1. /\ Records(ps) \in Seq(Units) /\ Len(Records(ps)) = 2 * Len(ps)
      /\ \A k \in 1 .. Len(ps) : /\ Records(ps)[2 * k - 1] = Header(ps[k])
                                 /\ Records(ps)[2 * k] = Data(ps[k])
  BY RecordsAre
<1>2. <<Hdr>> \in Seq(Units) /\ Len(<<Hdr>>) = 1 /\ <<Hdr>>[1] = Hdr
  BY UnitsDiffer
<1>3. /\ c \in Seq(Units) /\ Len(c) = 1 + 2 * Len(ps) /\ c[1] = Hdr
      /\ \A j \in 2 .. 1 + 2 * Len(ps) : c[j] = Records(ps)[j - 1]
  BY <1>1, <1>2, ConcatProperties DEF CaptureOf
<1> HIDE DEF c
<1>4. \A k \in 1 .. Len(ps) : /\ c[2 * k] = Header(ps[k])
                              /\ c[2 * k + 1] = Data(ps[k])
  <2> TAKE k \in 1 .. Len(ps)
  <2>1. /\ 2 * k \in 2 .. 1 + 2 * Len(ps) /\ 2 * k + 1 \in 2 .. 1 + 2 * Len(ps)
        /\ (2 * k + 1) - 1 = 2 * k
    OBVIOUS
  <2> QED
    BY <1>1, <1>3, <2>1
<1>5. (Len(c) - 1) \div 2 = Len(ps)
  BY <1>3
<1>6. PacketsOf(c) = [k \in 1 .. Len(ps) |-> c[2 * k].packet]
  BY <1>5 DEF PacketsOf
<1>7. \A k \in 1 .. Len(ps) : c[2 * k].packet = ps[k]
  <2>1. \A k \in 1 .. Len(ps) : ps[k] \in Packets
    OBVIOUS
  <2> QED
    BY <1>4, <2>1, UnitsDiffer
<1>8. PacketsOf(c) = [k \in 1 .. Len(ps) |-> ps[k]]
  BY <1>6, <1>7, Zenon
<1>9. ps = [k \in 1 .. Len(ps) |-> ps[k]]
  OBVIOUS
<1>10. PacketsOf(c) = ps
  BY <1>8, <1>9, Zenon
<1>11. Len(c) = 2 * Len(ps) + 1
  BY <1>3
<1> QED
  BY <1>3, <1>4, <1>10, <1>11, Zenon DEF c

(* Another whole record makes a capture of one packet more.                *)
LEMMA RecordsGrow ==
    ASSUME NEW ps \in Seq(Packets), NEW p \in Packets
    PROVE  CaptureOf(ps) \o <<Header(p), Data(p)>> = CaptureOf(Append(ps, p))
<1>1. PICK n, qs : /\ n = Len(ps) /\ n \in Nat /\ qs = Append(ps, p)
                   /\ qs \in Seq(Packets) /\ Len(qs) = n + 1
                   /\ qs[n + 1] = p /\ \A k \in 1 .. n : qs[k] = ps[k]
  <2>1. /\ Len(ps) \in Nat /\ Append(ps, p) \in Seq(Packets)
        /\ Len(Append(ps, p)) = Len(ps) + 1
        /\ Append(ps, p)[Len(ps) + 1] = p
        /\ \A k \in 1 .. Len(ps) : Append(ps, p)[k] = ps[k]
    OBVIOUS
  <2> QED
    BY <2>1, Zenon
<1>2. PICK c : /\ c = CaptureOf(ps)
               /\ c \in Seq(Units) /\ Len(c) = 2 * n + 1 /\ c[1] = Hdr
               /\ \A k \in 1 .. n : c[2 * k] = Header(ps[k]) /\ c[2 * k + 1] = Data(ps[k])
  <2>1. PICK c : /\ c = CaptureOf(ps)
                 /\ c \in Seq(Units) /\ Len(c) = 2 * Len(ps) + 1 /\ c[1] = Hdr
                 /\ \A k \in 1 .. Len(ps) : c[2 * k] = Header(ps[k]) /\ c[2 * k + 1] = Data(ps[k])
    BY CaptureIs, Zenon
  <2> QED
    BY <1>1, <2>1, Zenon
<1>3. PICK d : /\ d = CaptureOf(qs)
               /\ d \in Seq(Units) /\ Len(d) = 2 * (n + 1) + 1 /\ d[1] = Hdr
               /\ \A k \in 1 .. n + 1 : d[2 * k] = Header(qs[k]) /\ d[2 * k + 1] = Data(qs[k])
  <2>1. Len(qs) = n + 1 /\ qs \in Seq(Packets)
    BY <1>1
  <2>2. PICK d : /\ d = CaptureOf(qs)
                 /\ d \in Seq(Units) /\ Len(d) = 2 * Len(qs) + 1 /\ d[1] = Hdr
                 /\ \A k \in 1 .. Len(qs) : d[2 * k] = Header(qs[k]) /\ d[2 * k + 1] = Data(qs[k])
    BY <2>1, CaptureIs, Zenon
  <2> QED
    BY <2>1, <2>2, Zenon
<1>4. PICK t : /\ t = <<Header(p), Data(p)>>
               /\ t \in Seq(Units) /\ Len(t) = 2 /\ t[1] = Header(p) /\ t[2] = Data(p)
  <2>1. Header(p) \in Units /\ Data(p) \in Units
    BY UnitsDiffer
  <2> DEFINE t == <<Header(p), Data(p)>>
  <2>2. t \in Seq(Units) /\ Len(t) = 2 /\ t[1] = Header(p) /\ t[2] = Data(p)
    BY <2>1
  <2> QED
    BY <2>2, Zenon
<1>5. /\ c \o t \in Seq(Units) /\ Len(c \o t) = 2 * n + 3
      /\ \A j \in 1 .. 2 * n + 1 : (c \o t)[j] = c[j]
      /\ (c \o t)[2 * n + 2] = t[1] /\ (c \o t)[2 * n + 3] = t[2]
  <2>1. Len(c \o t) = Len(c) + Len(t) /\ c \o t \in Seq(Units)
    BY <1>2, <1>4, ConcatProperties
  <2>2. /\ \A j \in 1 .. 2 * n + 1 : (c \o t)[j] = c[j]
        /\ (c \o t)[2 * n + 2] = t[1] /\ (c \o t)[2 * n + 3] = t[2]
    BY <1>1, <1>2, <1>4
  <2> QED
    BY <1>1, <1>2, <1>4, <2>1, <2>2
<1>6. ASSUME NEW j \in 1 .. 2 * n + 3 PROVE (c \o t)[j] = d[j]
  <2>1. CASE j = 1
    BY <1>1, <1>2, <1>3, <1>5, <2>1
  <2>2. CASE j > 1
    <3>1. PICK k \in 1 .. n + 1 : j = 2 * k \/ j = 2 * k + 1
      <4>1. j \div 2 \in 1 .. n + 1 /\ (j = 2 * (j \div 2) \/ j = 2 * (j \div 2) + 1)
        BY <1>1, <2>2
      <4> QED
        BY <4>1
    <3>2. CASE k <= n
      <4>1. k \in 1 .. n /\ 2 * k \in 1 .. 2 * n + 1 /\ 2 * k + 1 \in 1 .. 2 * n + 1
        BY <1>1, <3>2
      <4>2. (c \o t)[2 * k] = d[2 * k] /\ (c \o t)[2 * k + 1] = d[2 * k + 1]
        <5>1. (c \o t)[2 * k] = c[2 * k] /\ (c \o t)[2 * k + 1] = c[2 * k + 1]
          BY <1>5, <4>1
        <5>2. c[2 * k] = Header(ps[k]) /\ c[2 * k + 1] = Data(ps[k]) /\ qs[k] = ps[k]
          BY <1>1, <1>2, <4>1
        <5>3. d[2 * k] = Header(qs[k]) /\ d[2 * k + 1] = Data(qs[k])
          BY <1>3
        <5> QED
          BY <5>1, <5>2, <5>3
      <4> QED
        BY <3>1, <4>2
    <3>3. CASE k = n + 1
      <4>1. n + 1 \in 1 .. n + 1 /\ 2 * (n + 1) = 2 * n + 2
        BY <1>1
      <4>2. d[2 * (n + 1)] = Header(p) /\ d[2 * (n + 1) + 1] = Data(p)
        BY <1>1, <1>3, <4>1
      <4>3. d[2 * n + 2] = Header(p) /\ d[2 * n + 3] = Data(p)
        BY <1>1, <4>2
      <4>4. j = 2 * n + 2 \/ j = 2 * n + 3
        BY <1>1, <3>1, <3>3
      <4> QED
        BY <1>4, <1>5, <4>3, <4>4
    <3>4. k <= n \/ k = n + 1
      BY <1>1
    <3> QED
      BY <3>2, <3>3, <3>4, Zenon
  <2>3. j = 1 \/ j > 1
    BY <1>1
  <2> QED
    BY <2>1, <2>2, <2>3, Zenon
<1>7. c \o t = d
  <2>1. Len(d) = 2 * n + 3
    BY <1>1, <1>3
  <2> QED
    BY <1>3, <1>5, <1>6, <2>1, SeqEqual
<1> QED
  BY <1>1, <1>2, <1>3, <1>4, <1>7

LEMMA NoRecords == <<Hdr>> = CaptureOf(<<>>)
<1>1. <<>> \in Seq(Packets) /\ Len(<<>>) = 0
  OBVIOUS
<1>2. Records(<<>>) \in Seq(Units) /\ Len(Records(<<>>)) = 0
  <2>1. Records(<<>>) \in Seq(Units) /\ Len(Records(<<>>)) = 2 * Len(<<>>)
    BY <1>1, RecordsAre, Zenon
  <2> QED
    BY <1>1, <2>1
<1>3. Records(<<>>) = <<>>
  BY <1>2
<1> QED
  BY <1>3, UnitsDiffer DEF CaptureOf

(* The first n of a sequence are a prefix of it.                           *)
LEMMA CutIsPrefix ==
    ASSUME NEW S, NEW s \in Seq(S), NEW n \in 0 .. Len(s)
    PROVE  IsPrefix(SubSeq(s, 1, n), s)
<1>1. SubSeq(s, 1, n) \in Seq(S) /\ Len(SubSeq(s, 1, n)) = n
  BY CutType
<1>2. SubSeq(SubSeq(s, 1, n), 1, n) = SubSeq(s, 1, n)
  BY <1>1, CutWhole
<1> QED
  BY <1>1, <1>2 DEF IsPrefix

-------------------------------------------------------------------------------
(* Jobs share no queue, so the names of two workers' files differ.         *)
LEMMA SetupType ==
    ASSUME Shape
    PROVE  /\ setup.queues_per_port \in Nat \ {0} /\ setup.check_packet_th \in BOOLEAN
           /\ setup.max_packets_per_queue \in Int
           /\ \A l \in Lcores : /\ Job(l).start_index \in Nat /\ Job(l).end_index \in Nat
                                /\ Job(l).start_index < Job(l).end_index
<1>1. /\ setup \in [queues_per_port : Nat \ {0}, jobs : Jobs,
                    prefix_length : 0 .. NameLength, check_packet_th : BOOLEAN,
                    max_packets_per_queue : Int,
                    transmit_queue : Nat \cup {NoSingle}]
  BY PcapAssumption DEF Shape
<1>2. \A l \in Lcores : Job(l) \in [start_index : Nat, end_index : Nat]
  BY <1>1 DEF Jobs, Job
<1>3. \A l \in Lcores : Job(l).start_index < Job(l).end_index
  BY JobsAssumption DEF Shape, Job
<1> QED
  BY <1>1, <1>2, <1>3

LEMMA JobsApart ==
    ASSUME Shape, NEW l \in Lcores, NEW m \in Lcores, l # m
    PROVE  JobQueues(l) \cap JobQueues(m) = {} /\ Job(l).start_index # Job(m).start_index
<1>1. Job(l).end_index <= Job(m).start_index \/ Job(m).end_index <= Job(l).start_index
  BY JobsAssumption DEF Shape, Job
<1> QED
  BY <1>1, SetupType DEF JobQueues

LEMMA Division == ASSUME NEW a \in Nat, NEW n \in Nat \ {0}
                  PROVE  /\ a \div n \in Nat /\ a % n \in 0 .. n - 1
                         /\ a = n * (a \div n) + (a % n)
  OBVIOUS

LEMMA NamesApart ==
    ASSUME Shape, NumbersFit, NEW l \in Lcores, NEW m \in Lcores, l # m
    PROVE  FileName(l) # FileName(m)
<1> DEFINE q == setup.queues_per_port
           s == Job(l).start_index
           t == Job(m).start_index
<1>1. q \in Nat \ {0} /\ s \in Nat /\ t \in Nat /\ s # t
  BY SetupType, JobsApart
<1>2. FileName(l)[1] = <<s \div q>> /\ FileName(l)[2] = <<s % q>>
  BY DEF FileName, NumbersFit, Printed, Port, FirstQueue
<1>3. FileName(m)[1] = <<t \div q>> /\ FileName(m)[2] = <<t % q>>
  BY DEF FileName, NumbersFit, Printed, Port, FirstQueue
<1> HIDE DEF q, s, t
<1>4. s = q * (s \div q) + (s % q) /\ t = q * (t \div q) + (t % q)
  BY <1>1, Division, Zenon
<1>5. ~ (s \div q = t \div q /\ s % q = t % q)
  BY <1>1, <1>4
<1> QED
  BY <1>2, <1>3, <1>5

LEMMA NamesAre == \A l \in Lcores : FileName(l) \in Names
  BY DEF Names

LEMMA QueuesAre ==
    ASSUME Shape
    PROVE  /\ Queues \subseteq QueueIds
           /\ \A q \in Queues : \E l \in Lcores : q \in JobQueues(l)
           /\ \A l \in Lcores : JobQueues(l) \subseteq Queues
<1>1. Queues = UNION {JobQueues(l) : l \in Lcores}
  BY DEF Queues, JobQueues
<1>2. QueueIds = UNION {s.jobs[l].start_index .. s.jobs[l].end_index - 1 :
                            s \in Setups, l \in Lcores}
  BY DEF QueueIds
<1>3. \A l \in Lcores : JobQueues(l) \subseteq QueueIds
  <2> SUFFICES ASSUME NEW l \in Lcores PROVE JobQueues(l) \subseteq QueueIds
    OBVIOUS
  <2>1. setup \in Setups
    BY DEF Shape
  <2>2. JobQueues(l) = setup.jobs[l].start_index .. setup.jobs[l].end_index - 1
    BY DEF JobQueues, Job
  <2>3. JobQueues(l) \in {s.jobs[k].start_index .. s.jobs[k].end_index - 1 :
                             s \in Setups, k \in Lcores}
    BY <2>1, <2>2
  <2> QED
    BY <1>2, <2>3
<1> QED
  BY <1>1, <1>3

(* Nothing changes the setup, nor what follows from it.                    *)
LEMMA SetupStays ==
    ASSUME setup' = setup
    PROVE  /\ Names' = Names /\ Queues' = Queues
           /\ \A l \in Lcores : /\ Job(l)' = Job(l) /\ JobQueues(l)' = JobQueues(l)
                                /\ FileName(l)' = FileName(l)
           /\ \A q : Skipped(q)' = Skipped(q)
           /\ NumbersFit' <=> NumbersFit
<1>1. \A l \in Lcores :
         /\ Job(l)' = Job(l) /\ JobQueues(l)' = JobQueues(l)
         /\ Port(l)' = Port(l) /\ FirstQueue(l)' = FirstQueue(l) /\ LastQueue(l)' = LastQueue(l)
  BY DEF Job, JobQueues, Port, FirstQueue, LastQueue
<1>2. PortRoom' = PortRoom
  BY DEF PortRoom
<1>3. ASSUME NEW l \in Lcores
      PROVE  FirstRoom(l)' = FirstRoom(l) /\ LastRoom(l)' = LastRoom(l)
  <2>1. FirstRoom(l)' = FirstRoom(l)
    BY <1>1, <1>2 DEF FirstRoom, Digits
  <2> QED
    BY <1>1, <2>1 DEF LastRoom, Digits
<1>4. \A l \in Lcores : FileName(l)' = FileName(l)
  <2>1. TAKE l \in Lcores
  <2>2. /\ Printed(Port(l), PortRoom)' = Printed(Port(l), PortRoom)
        /\ Printed(FirstQueue(l), FirstRoom(l))' = Printed(FirstQueue(l), FirstRoom(l))
        /\ Printed(LastQueue(l), LastRoom(l))' = Printed(LastQueue(l), LastRoom(l))
    BY <1>1, <1>2, <1>3 DEF Printed, Digits
  <2> QED
    BY <2>2 DEF FileName
<1>5. NumbersFit' <=> NumbersFit
  BY <1>1, <1>2, <1>3 DEF NumbersFit, Digits
<1>6. Names' = Names
  BY <1>4 DEF Names
<1>7. Queues' = Queues /\ \A q : Skipped(q)' = Skipped(q)
  BY DEF Queues, Job, Skipped
<1> QED
  BY <1>1, <1>4, <1>5, <1>6, <1>7

(* What is saved, in the terms of the invariant.                           *)
LEMMA SavedIs ==
    ASSUME Shape, NEW l \in Lcores, Writer(l)
    PROVE  /\ HandledCount(l) \in 0 .. Len(received[l])
           /\ SavedCount(l) \in 0 .. HandledCount(l)
           /\ Saved(l) = SubSeq(received[l], 1, SavedCount(l))
<1> DEFINE h == HandledCount(l)
           t == setup.max_packets_per_queue
           r == received[l]
<1>1. t \in Int /\ setup.check_packet_th \in BOOLEAN
  BY SetupType
<1>2. /\ r \in Seq(Packets) /\ h \in Nat /\ h <= Len(r) /\ h = Len(r) - Len(bufs[l])
      /\ h \in 0 .. Len(r)
  BY DEF Shape, Writer, HandledCount
<1>3. SavedCount(l) = IF setup.check_packet_th /\ t >= 0 /\ t < h THEN t ELSE h
  BY DEF SavedCount
<1>4. Handled(l) = SubSeq(r, 1, h)
  BY <1>2 DEF Handled
<1>5. /\ SubSeq(r, 1, h) \in Seq(Packets) /\ Len(SubSeq(r, 1, h)) = h
      /\ \A k \in 1 .. h : SubSeq(r, 1, h)[k] = r[k]
  <2> HIDE DEF h, r
  <2> QED
    BY <1>2, CutType
<1>6. Saved(l) = IF setup.check_packet_th /\ t >= 0 THEN SubSeq(Handled(l), 1, Min({h, t})) ELSE Handled(l)
  BY <1>4, <1>5 DEF Saved
<1> HIDE DEF h, t, r
<1>7. SavedCount(l) \in 0 .. h
  BY <1>1, <1>2, <1>3
<1>8. CASE setup.check_packet_th /\ t >= 0
  <2>1. Min({h, t}) = SavedCount(l)
    <3>1. SavedCount(l) \in {h, t} /\ \A y \in {h, t} : SavedCount(l) <= y
      BY <1>1, <1>2, <1>3, <1>8
    <3>2. Min({h, t}) \in {h, t} /\ \A y \in {h, t} : Min({h, t}) <= y
      BY <3>1 DEF Min
    <3> QED
      BY <1>1, <1>2, <3>1, <3>2
  <2>2. Saved(l) = SubSeq(SubSeq(r, 1, h), 1, SavedCount(l))
    BY <1>4, <1>6, <1>8, <2>1
  <2>4. /\ Saved(l) \in Seq(Packets) /\ Len(Saved(l)) = SavedCount(l)
        /\ \A k \in 1 .. SavedCount(l) : Saved(l)[k] = SubSeq(r, 1, h)[k]
    BY <1>5, <1>7, <2>2, CutType
  <2>5. /\ SubSeq(r, 1, SavedCount(l)) \in Seq(Packets) /\ Len(SubSeq(r, 1, SavedCount(l))) = SavedCount(l)
        /\ \A k \in 1 .. SavedCount(l) : SubSeq(r, 1, SavedCount(l))[k] = r[k]
    <3>1. SavedCount(l) \in 0 .. Len(r)
      BY <1>2, <1>7
    <3> QED
      BY <1>2, <3>1, CutType
  <2>6. ASSUME NEW k \in 1 .. SavedCount(l) PROVE Saved(l)[k] = SubSeq(r, 1, SavedCount(l))[k]
    <3>1. k \in 1 .. h
      BY <1>2, <1>7
    <3> QED
      BY <1>5, <2>4, <2>5, <3>1
  <2>7. Saved(l) = SubSeq(r, 1, SavedCount(l))
    BY <2>4, <2>5, <2>6, SeqEqual
  <2> QED
    BY <1>2, <1>7, <2>7 DEF h, r
<1>9. CASE ~ (setup.check_packet_th /\ t >= 0)
  <2>1. SavedCount(l) = h
    BY <1>3, <1>9
  <2> QED
    BY <1>2, <1>4, <1>6, <1>7, <1>9, <2>1 DEF h, r
<1> QED
  BY <1>8, <1>9

(* No worker has received more than the NIC delivered.                     *)
LEMMA WithinDelivered ==
    ASSUME Shape, NEW l \in Lcores, Len(received[l]) <= MaxPackets,
           NEW n \in Nat, Cardinality(Delivered) + n <= MaxPackets
    PROVE  Len(received[l]) + n <= MaxPackets
<1> DEFINE len == Len(received[l])
           own == [k \in 1 .. len |-> <<l, k>>]
<1>1. len \in Nat
  BY DEF Shape
<1>2. IsFiniteSet(Delivered)
  <2>1. IsFiniteSet(1 .. MaxPackets)
    BY PcapAssumption, FS_Interval
  <2>2. IsFiniteSet(Lcores \X (1 .. MaxPackets))
    BY <2>1, PcapAssumption, FS_Product
  <2> QED
    BY <2>2, FS_Subset DEF Delivered
<1>3. IsFiniteSet(1 .. len) /\ Cardinality(1 .. len) = len
  <2> HIDE DEF len
  <2>1. IsFiniteSet(1 .. len) /\ Cardinality(1 .. len) = IF 1 > len THEN 0 ELSE len - 1 + 1
    BY <1>1, FS_Interval
  <2> QED
    BY <1>1, <2>1
<1>4. own \in Injection(1 .. len, Delivered)
  <2>1. \A k \in 1 .. len : <<l, k>> \in Delivered
    BY <1>1, PcapAssumption DEF Delivered
  <2>2. \A j, k \in 1 .. len : own[j] = own[k] => j = k
    OBVIOUS
  <2>3. own \in [1 .. len -> Delivered]
    BY <2>1
  <2> HIDE DEF own, len
  <2> QED
    BY <2>2, <2>3, Zenon DEF Injection, IsInjective
<1>5. len <= Cardinality(Delivered)
  BY <1>2, <1>3, <1>4, FS_Injection
<1>6. Cardinality(Delivered) \in Nat
  BY <1>2, FS_CardinalityType
<1> QED
  BY <1>1, <1>5, <1>6, PcapAssumption

-------------------------------------------------------------------------------
LEMMA SetupFixed == ASSUME [Next]_vars PROVE setup' = setup
  BY DEF Next, vars, Worker, Receiver, Sender, Same, FopenFails, prepare_pcap_file, LoopHead,
         CloseFails, Receive, save_packet, NextQueue, StartTransmit, OpenCapture, EndOfCapture,
         ReadFails, ReadPacket, SkipQueue, SendPacket, AllocFails, PacketSent, handle_sig

(* Where a worker is tells which application runs.                         *)
LEMMA WhoRuns ==
    ASSUME Control, Shape, NEW l \in Lcores
    PROVE  /\ pc[l] \in {"open", "head", "rx", "save"} => running = "receive"
           /\ pc[l] \in {"open_capture", "read", "send"} => running = "transmit"
  BY DEF Control, Shape, Writing, Reading, Ended

(* What the steps of receive do to a file.                                 *)
LEMMA FileGrows ==
    ASSUME NEW f \in Seq(Units), NEW t \in Seq(Units)
    PROVE  f \o t \in Seq(Units) /\ (f # <<>> => f \o t # <<>>)
<1>1. f \o t \in Seq(Units) /\ Len(f \o t) = Len(f) + Len(t)
  BY ConcatProperties
<1>2. f # <<>> => Len(f) > 0
  BY EmptySeq
<1>3. f # <<>> => Len(f \o t) > 0
  BY <1>1, <1>2
<1> QED
  BY <1>1, <1>3

LEMMA UnitTypes ==
    /\ <<>> \in Seq(Units) /\ <<Hdr>> \in Seq(Units) /\ <<Part>> \in Seq(Units)
    /\ \A p \in Packets : /\ <<Header(p)>> \in Seq(Units)
                          /\ <<Header(p), Part>> \in Seq(Units)
                          /\ <<Header(p), Data(p)>> \in Seq(Units)
  BY UnitsDiffer

(* A write keeps the type of the file, and of an own file it is the end.   *)
LEMMA WriteType ==
    ASSUME Shape, NEW l \in Lcores, NEW units \in Seq(Units), Write(l, units)
    PROVE  file' \in [Names -> Seq(Units)]
<1> DEFINE f == file[FileName(l)]
<1>1. FileName(l) \in Names /\ f \in Seq(Units)
  BY NamesAre DEF Shape
<1>2. Ragged(units) \subseteq Seq(Units)
  <2>1. <<Part>> \in Seq(Units)
    BY UnitTypes
  <2>2. <<Part>> \o units \in Seq(Units) /\ units \o <<Part>> \in Seq(Units)
    BY <2>1, ConcatProperties
  <2>3. <<Part>> \o units \o <<Part>> \in Seq(Units)
    BY <2>1, <2>2, ConcatProperties
  <2> QED
    BY <2>2, <2>3 DEF Ragged
<1>3. Over(f, units) \subseteq Seq(Units)
  <2>1. f \o units \in Seq(Units)
    BY <1>1, ConcatProperties
  <2> HIDE DEF f
  <2>2. ASSUME NEW i \in 1 .. Len(f), NEW j \in 2 .. Len(f) + 1, NEW piece \in Ragged(units)
        PROVE  SubSeq(f, 1, i) \o piece \o SubSeq(f, j, Len(f)) \in Seq(Units)
    <3>1. SubSeq(f, 1, i) \in Seq(Units)
      BY <1>1, CutType
    <3>2. \A k \in j .. Len(f) : f[k] \in Units
      BY <1>1
    <3>3. SubSeq(f, j, Len(f)) \in Seq(Units)
      BY <1>1, <3>2, SubSeqProperties
    <3> QED
      BY <1>2, <3>1, <3>3, ConcatProperties
  <2> DEFINE with(i, j, piece) == SubSeq(f, 1, i) \o piece \o SubSeq(f, j, Len(f))
             withs == {with(i, j, piece) : i \in 1 .. Len(f), j \in 2 .. Len(f) + 1,
                                           piece \in Ragged(units)}
  <2>3. Over(f, units) = {f \o units} \cup withs
    BY DEF Over
  <2>4. \A i \in 1 .. Len(f), j \in 2 .. Len(f) + 1, piece \in Ragged(units) :
            with(i, j, piece) \in Seq(Units)
    BY <2>2
  <2> HIDE DEF with
  <2>5. withs \subseteq Seq(Units)
    BY <2>4
  <2> HIDE DEF withs
  <2> QED
    BY <2>1, <2>3, <2>5
<1>4. PICK content \in Seq(Units) : file' = [file EXCEPT ![FileName(l)] = content]
  <2>1. f \o units \in Seq(Units)
    BY <1>1, ConcatProperties
  <2> QED
    BY <1>3, <2>1 DEF Write
<1> QED
  BY <1>1, <1>4 DEF Shape

LEMMA WriteAtEnd ==
    ASSUME Shape, NumbersFit, NEW l \in Lcores, NEW units, Write(l, units)
    PROVE  file' = [file EXCEPT ![FileName(l)] = @ \o units]
<1>1. ~ Misplaced(l)
  BY NamesApart DEF Misplaced
<1> QED
  BY <1>1 DEF Write

LEMMA ReceiverShape ==
    ASSUME Shape, Control, WriterInv, NEW l \in Lcores, Receiver(l), setup' = setup
    PROVE  Shape'
<1>0. FileName(l) \in Names /\ Names' = Names /\ Queues' = Queues /\ file[FileName(l)] \in Seq(Units)
  BY NamesAre, SetupStays DEF Shape
<1>1. CASE FopenFails(l)
  BY <1>0, <1>1 DEF FopenFails, Shape, Goto, Same, rvars, tvars, Ended
<1>2. CASE prepare_pcap_file(l)
  <2>1. PICK first \in Seq(Units) : file' = [file EXCEPT ![FileName(l)] = first]
    BY <1>2, UnitTypes DEF prepare_pcap_file
  <2>2. file' \in [Names -> Seq(Units)]
    BY <2>1 DEF Shape
  <2>3. broken' \subseteq Names
    BY <1>0, <1>2 DEF prepare_pcap_file, Shape
  <2>4. pc' \in [Lcores -> {"open", "head", "rx", "save", "open_capture", "read", "send"} \cup Ended]
    BY <1>2 DEF prepare_pcap_file, Goto, Shape, Ended
  <2> QED
    BY <1>0, <1>2, <2>2, <2>3, <2>4 DEF prepare_pcap_file, Shape, Same, tvars
<1>3. CASE LoopHead(l)
  BY <1>0, <1>3, SetupType DEF LoopHead, Shape, Goto, Same, rvars, tvars, Ended
<1>4. CASE CloseFails(l)
  <2>1. PICK n \in 0 .. Len(file[FileName(l)]) - 1, rest \in {<<>>, <<Part>>} :
           file' = [file EXCEPT ![FileName(l)] = SubSeq(@, 1, n) \o rest]
    BY <1>4 DEF CloseFails
  <2>2. SubSeq(file[FileName(l)], 1, n) \in Seq(Units)
    <3>1. n \in 0 .. Len(file[FileName(l)])
      BY <1>0
    <3> QED
      BY <1>0, <3>1, CutType
  <2>3. SubSeq(file[FileName(l)], 1, n) \o rest \in Seq(Units)
    BY <2>2, UnitTypes, FileGrows
  <2>4. file' \in [Names -> Seq(Units)]
    BY <1>0, <2>1, <2>3 DEF Shape
  <2> QED
    BY <1>0, <1>4, <2>4 DEF CloseFails, Shape, Goto, Same, tvars, Ended
<1>5. CASE Receive(l)
  <2>1. PICK n \in 0 .. BurstSize :
          /\ Cardinality(Delivered) + n <= MaxPackets
          /\ bufs' = [bufs EXCEPT ![l] = [k \in 1 .. n |-> <<index[l], Len(received[l]) + k>>]]
          /\ received' = [received EXCEPT ![l] = @ \o bufs'[l]]
    BY <1>5 DEF Receive
  <2>2. Len(received[l]) \in Nat /\ Len(received[l]) <= MaxPackets /\ n \in Nat
    <3>1. running = "receive"
      BY <1>5, WhoRuns DEF Receive, Goto
    <3>2. Len(received[l]) <= MaxPackets
      BY <3>1 DEF WriterInv, Writer
    <3>3. Len(received[l]) \in Nat
      BY DEF Shape
    <3>4. n \in Nat
      BY PcapAssumption
    <3> QED
      BY <3>2, <3>3, <3>4
  <2>3. Len(received[l]) + n <= MaxPackets
    BY <2>1, <2>2, WithinDelivered
  <2>4. index[l] \in QueueIds
    BY <1>5, QueuesAre DEF Receive, Goto, Control
  <2>5. \A k \in 1 .. n : <<index[l], Len(received[l]) + k>> \in Packets
    BY <2>2, <2>3, <2>4, PcapAssumption DEF Packets
  <2>6. [k \in 1 .. n |-> <<index[l], Len(received[l]) + k>>] \in Seq(Packets)
    BY <2>2, <2>5
  <2>7. bufs' \in [Lcores -> Seq(Packets)] /\ bufs'[l] \in Seq(Packets)
    BY <2>1, <2>6 DEF Shape
  <2>8. received' \in [Lcores -> Seq(Packets)]
    BY <2>1, <2>7, ConcatProperties DEF Shape
  <2> QED
    BY <1>0, <1>5, <2>7, <2>8 DEF Receive, Shape, Goto, Same, tvars, Ended
<1>6. CASE save_packet(l)
  <2>1. bufs[l] \in Seq(Packets) /\ bufs[l] # <<>> /\ bufs' = [bufs EXCEPT ![l] = Tail(@)]
    BY <1>6 DEF save_packet, Shape
  <2>2. bufs' \in [Lcores -> Seq(Packets)] /\ bufs[l][1] \in Packets
    BY <2>1, HeadTailProperties DEF Shape
  <2>3. file' \in [Names -> Seq(Units)] /\ broken' \subseteq Names
    <3>1. CASE ThresholdReached(l)
      BY <1>6, <3>1 DEF save_packet, Shape
    <3>2. CASE ~ ThresholdReached(l)
      <4>1. PICK units \in Seq(Units) : Write(l, units)
        BY <1>6, <2>2, <3>2, UnitTypes DEF save_packet
      <4>2. broken' \subseteq Names
        BY <1>0, <1>6, <3>2 DEF save_packet, Shape
      <4> QED
        BY <1>0, <4>1, <4>2, WriteType DEF Shape
    <3> QED
      BY <3>1, <3>2
  <2>4. current_packets' \in [Lcores -> 0 .. MaxPackets]
    <3>1. Writer(l) /\ current_packets[l] \in Nat
      BY <1>6, WhoRuns DEF save_packet, WriterInv, Shape
    <3>2. Len(received[l]) <= MaxPackets /\ Len(bufs[l]) > 0 /\ Len(received[l]) \in Nat
      BY <2>1, <3>1, EmptySeq DEF Writer, Shape
    <3>3. SavedCount(l) \in 0 .. HandledCount(l) /\ HandledCount(l) = Len(received[l]) - Len(bufs[l])
      BY <3>1, SavedIs DEF HandledCount
    <3>4. setup.check_packet_th => current_packets[l] = SavedCount(l)
      BY <3>1 DEF Writer
    <3>6. Len(bufs[l]) \in Nat /\ MaxPackets \in Nat
      BY <2>1, PcapAssumption
    <3>7. setup.check_packet_th => current_packets[l] + 1 \in 0 .. MaxPackets
      <4>1. PICK a, b, h, n : /\ a = Len(received[l]) /\ b = Len(bufs[l])
                              /\ h = HandledCount(l) /\ n = SavedCount(l)
        OBVIOUS
      <4>4. a \in Nat /\ b \in Nat /\ a <= MaxPackets /\ b > 0
        BY <3>2, <3>6, <4>1
      <4>5. h = a - b /\ n \in 0 .. h
        BY <3>3, <4>1
      <4>2. h \in Int /\ h < MaxPackets /\ n \in 0 .. h
        BY <3>6, <4>4, <4>5
      <4>3. n \in Nat /\ n + 1 \in 0 .. MaxPackets
        BY <3>6, <4>2
      <4> QED
        BY <3>4, <4>1, <4>3
    <3>5. current_packets' = current_packets
            \/ (setup.check_packet_th /\ current_packets' = [current_packets EXCEPT ![l] = @ + 1])
      BY <1>6 DEF save_packet, Shape
    <3> QED
      BY <3>5, <3>7 DEF Shape
  <2> QED
    BY <1>0, <1>6, <2>2, <2>3, <2>4 DEF save_packet, Shape, Goto, Same, tvars, Ended
<1>7. CASE NextQueue(l)
  <2>1. index' \in [Lcores -> Nat]
    <3>1. index' = index \/ index' = [index EXCEPT ![l] = @ + 1]
      BY <1>7, Zenon DEF NextQueue
    <3>2. index \in [Lcores -> Nat] /\ index[l] + 1 \in Nat
      BY DEF Shape
    <3> QED
      BY <3>1, <3>2
  <2>2. pc' \in [Lcores -> {"open", "head", "rx", "save", "open_capture", "read", "send"} \cup Ended]
    <3>1. \/ pc' = [pc EXCEPT ![l] = "rx"]
          \/ pc' = [pc EXCEPT ![l] = "head"]
      BY <1>7, Zenon DEF NextQueue, Goto
    <3> QED
      BY <3>1 DEF Shape
  <2> QED
    BY <1>0, <1>7, <2>1, <2>2 DEF NextQueue, Shape, Same, rvars, tvars
<1> QED
  BY <1>1, <1>2, <1>3, <1>4, <1>5, <1>6, <1>7 DEF Receiver

LEMMA SenderShape ==
    ASSUME Shape, Control, SoundInv, NEW l \in Lcores, Sender(l), setup' = setup
    PROVE  Shape'
<1>0. Names' = Names /\ Queues' = Queues /\ index[l] \in Nat /\ offset[l] \in Nat
  BY SetupStays DEF Shape
<1>1. CASE OpenCapture(l)
  <2>1. pc' \in [Lcores -> {"open", "head", "rx", "save", "open_capture", "read", "send"} \cup Ended]
    <3>1. pc' = [pc EXCEPT ![l] = "read"] \/ pc' = [pc EXCEPT ![l] = "failed"]
      BY <1>1, Zenon DEF OpenCapture, Goto
    <3> QED
      BY <3>1 DEF Shape, Ended
  <2>2. offset' \in [Lcores -> Nat]
    <3>1. offset' = offset \/ offset' = [offset EXCEPT ![l] = 1]
      BY <1>1, Zenon DEF OpenCapture
    <3>2. offset \in [Lcores -> Nat]
      BY DEF Shape
    <3> QED
      BY <3>1, <3>2
  <2> QED
    BY <1>0, <1>1, <2>1, <2>2 DEF OpenCapture, Shape, Same, rvars
<1>2. CASE EndOfCapture(l)
  BY <1>0, <1>2 DEF EndOfCapture, Shape, Goto, Same, rvars, tvars, Ended
<1>3. CASE ReadFails(l)
  BY <1>0, <1>3 DEF ReadFails, Shape, Goto, Same, rvars, tvars, Ended
<1>4. CASE ReadPacket(l)
  <2>1. index' \in [Lcores -> Nat] /\ something_send' \in [Lcores -> BOOLEAN]
    BY <1>4, SetupType DEF ReadPacket, Shape
  <2>2. offset' \in [Lcores -> Nat]
    <3>1. offset[l] + 2 \in Nat /\ \A n : offset[l] + 1 .. n \subseteq Nat
      BY <1>0
    <3>2. PICK there \in Nat : offset' = [offset EXCEPT ![l] = there]
      BY <1>4, <3>1, Zenon DEF ReadPacket
    <3> QED
      BY <3>2 DEF Shape
  <2>3. DOMAIN packet' = Lcores
    <3>1. \E p : packet' = [packet EXCEPT ![l] = p]
      BY <1>4, Zenon DEF ReadPacket
    <3> QED
      BY <3>1 DEF Shape
  <2>4. pc' \in [Lcores -> {"open", "head", "rx", "save", "open_capture", "read", "send"} \cup Ended]
    BY <1>4 DEF ReadPacket, Goto, Shape
  <2> QED
    BY <1>0, <1>4, <2>1, <2>2, <2>3, <2>4 DEF ReadPacket, Shape, Same, rvars
<1>5. CASE SkipQueue(l)
  <2>1. index' \in [Lcores -> Nat]
    <3>1. index \in [Lcores -> Nat] /\ index[l] + 1 \in Nat
      BY <1>0 DEF Shape
    <3> QED
      BY <1>5, <3>1 DEF SkipQueue
  <2> QED
    BY <1>0, <1>5, <2>1 DEF SkipQueue, Shape, Same, rvars, tvars
<1>6. CASE SendPacket(l)
  <2>1. index' \in [Lcores -> Nat]
    <3>1. index \in [Lcores -> Nat] /\ index[l] + 1 \in Nat
      BY <1>0 DEF Shape
    <3> QED
      BY <1>6, <3>1 DEF SendPacket
  <2>2. index[l] \in Queues
    BY <1>6, QueuesAre, SetupType DEF SendPacket, Control, JobQueues
  <2>3. packet[l] \in Packets \cup {Garbage}
    BY <1>6 DEF SendPacket, Control
  <2>4. offered' \in [Queues -> Seq(Packets \cup {Garbage})]
    <3>1. /\ offered \in [Queues -> Seq(Packets \cup {Garbage})]
          /\ offered' = [offered EXCEPT ![index[l]] = Append(@, packet[l])]
      BY <1>6 DEF SendPacket, Shape
    <3>2. Append(offered[index[l]], packet[l]) \in Seq(Packets \cup {Garbage})
      BY <2>2, <2>3, <3>1, AppendProperties
    <3> QED
      BY <2>2, <3>1, <3>2
  <2>5. something_send' \in [Lcores -> BOOLEAN]
    BY <1>6 DEF SendPacket, Shape
  <2> QED
    BY <1>0, <1>6, <2>1, <2>4, <2>5 DEF SendPacket, Shape, Same, rvars
<1>7. CASE AllocFails(l)
  BY <1>0, <1>7 DEF AllocFails, Shape, Goto, Same, rvars, Ended
<1>8. CASE PacketSent(l)
  <2>1. pc' \in [Lcores -> {"open", "head", "rx", "save", "open_capture", "read", "send"} \cup Ended]
    <3>1. pc' = [pc EXCEPT ![l] = "read"] \/ pc' = [pc EXCEPT ![l] = "done"]
      BY <1>8, Zenon DEF PacketSent, Goto
    <3> QED
      BY <3>1 DEF Shape, Ended
  <2> QED
    BY <1>0, <1>8, <2>1 DEF PacketSent, Shape, Same, rvars, tvars
<1> QED
  BY <1>1, <1>2, <1>3, <1>4, <1>5, <1>6, <1>7, <1>8 DEF Sender

LEMMA ShapeStep ==
    ASSUME Shape, Control, WriterInv, SoundInv, [Next]_vars
    PROVE  Shape'
<1>0. setup' = setup
  BY SetupFixed
<1>1. Names' = Names /\ Queues' = Queues
  BY <1>0, SetupStays
<1>2. ASSUME NEW l \in Lcores, Worker(l) PROVE Shape'
  BY <1>0, <1>2, ReceiverShape, SenderShape DEF Worker
<1>3. CASE StartTransmit
  <2>1. <<>> \in Seq(Packets) /\ 0 \in 0 .. MaxPackets
    BY PcapAssumption
  <2> QED
    BY <1>1, <1>3, <2>1 DEF StartTransmit, Shape
<1>4. CASE handle_sig
  BY <1>1, <1>4 DEF handle_sig, Shape, rvars, tvars
<1>5. CASE UNCHANGED vars
  BY <1>1, <1>5 DEF vars, Shape, rvars, tvars
<1> QED
  BY <1>2, <1>3, <1>4, <1>5 DEF Next

-------------------------------------------------------------------------------
(* A step of a worker leaves where the others are alone.                   *)
LEMMA ReceiverControl ==
    ASSUME Shape, Control, NEW l \in Lcores, Receiver(l), setup' = setup
    PROVE  Control'
<1>0. /\ running = "receive" /\ running' = running /\ offset' = offset /\ offered' = offered
      /\ pcap_file' = pcap_file /\ packet' = packet
  BY WhoRuns DEF Receiver, FopenFails, prepare_pcap_file, LoopHead, CloseFails, Receive,
     save_packet, NextQueue, Goto, Same, tvars
<1>1. Queues' = Queues /\ JobQueues(l)' = JobQueues(l)
      /\ \A m \in Lcores : Job(m)' = Job(m) /\ JobQueues(m)' = JobQueues(m)
  BY SetupStays
<1>2. \A m \in Lcores \ {l} : pc'[m] = pc[m] /\ index'[m] = index[m]
  BY DEF Receiver, FopenFails, prepare_pcap_file, LoopHead, CloseFails, Receive,
     save_packet, NextQueue, Goto, Shape
<1>3. pc'[l] \in Writing /\ pc'[l] # "send"
  <2>1. pc' = pc \/ \E there \in Writing : pc' = [pc EXCEPT ![l] = there]
    BY Zenon DEF Receiver, FopenFails, prepare_pcap_file, LoopHead, CloseFails, Receive,
       save_packet, NextQueue, Goto, Writing, Ended
  <2> QED
    BY <1>0, <2>1 DEF Control, Shape, Writing, Ended
<1>4. pc'[l] \in {"rx", "save"} => index'[l] \in JobQueues(l)
  <2>0. pc[l] \in {"rx", "save"} => index[l] \in JobQueues(l)
    BY DEF Control
  <2>1. CASE FopenFails(l) \/ prepare_pcap_file(l) \/ CloseFails(l)
    BY <2>1 DEF FopenFails, prepare_pcap_file, CloseFails, Goto, Shape
  <2>2. CASE LoopHead(l)
    BY <2>2, SetupType DEF LoopHead, Goto, Shape, JobQueues
  <2>3. CASE Receive(l) \/ save_packet(l)
    BY <2>0, <2>3 DEF Receive, save_packet, Goto, Shape
  <2>4. CASE NextQueue(l)
    <3>1. CASE index' = index
      BY <2>0, <2>4, <3>1 DEF NextQueue, Goto
    <3>2. CASE index[l] + 1 < Job(l).end_index /\ index' = [index EXCEPT ![l] = @ + 1]
      <4>1. index[l] \in JobQueues(l) /\ index'[l] = index[l] + 1
        BY <2>0, <2>4, <3>2 DEF NextQueue, Goto, Shape
      <4> QED
        BY <3>2, <4>1, SetupType DEF JobQueues
    <3> QED
      BY <2>4, <3>1, <3>2 DEF NextQueue
  <2> QED
    BY <2>1, <2>2, <2>3, <2>4 DEF Receiver
<1>5. \A m \in Lcores : pc'[m] \in Writing
  BY <1>0, <1>2, <1>3 DEF Control
<1>6. \A m \in Lcores : pc'[m] \in {"rx", "save"} => index'[m] \in JobQueues(m)
  BY <1>2, <1>4 DEF Control
<1>7. \A m \in Lcores : pc'[m] # "send"
  BY <1>5 DEF Writing, Ended
<1> QED
  BY <1>0, <1>1, <1>5, <1>6, <1>7 DEF Control

LEMMA SenderControl ==
    ASSUME Shape, Control, SoundInv, NEW l \in Lcores, Sender(l), setup' = setup
    PROVE  Control'
<1>0. /\ running = "transmit" /\ running' = running /\ pcap_file' = pcap_file
  BY WhoRuns DEF Sender, OpenCapture, EndOfCapture, ReadFails, ReadPacket, SkipQueue, SendPacket,
     AllocFails, PacketSent, Goto, Same, tvars
<1>1. Names' = Names /\ \A m \in Lcores : Job(m)' = Job(m) /\ JobQueues(m)' = JobQueues(m)
  BY SetupStays
<1>2. \A m \in Lcores \ {l} : pc'[m] = pc[m] /\ index'[m] = index[m] /\ packet'[m] = packet[m]
  BY DEF Sender, OpenCapture, EndOfCapture, ReadFails, ReadPacket, SkipQueue, SendPacket,
     AllocFails, PacketSent, Goto, Shape, tvars
<1>3. pc'[l] \in Reading
  <2>1. pc' = pc \/ \E there \in Reading : pc' = [pc EXCEPT ![l] = there]
    BY Zenon DEF Sender, OpenCapture, EndOfCapture, ReadFails, ReadPacket, SkipQueue, SendPacket,
       AllocFails, PacketSent, Goto, Reading, Ended
  <2> QED
    BY <1>0, <2>1 DEF Control, Shape, Reading, Ended
<1>4. pc'[l] = "send" => /\ index'[l] \in Job(l).start_index .. Job(l).end_index
                         /\ packet'[l] \in Packets \cup {Garbage}
  <2>0. /\ pc[l] = "send" => /\ index[l] \in Job(l).start_index .. Job(l).end_index
                             /\ packet[l] \in Packets \cup {Garbage}
        /\ Job(l).start_index \in Nat /\ Job(l).end_index \in Nat
        /\ Job(l).start_index < Job(l).end_index
    BY SetupType DEF Control
  <2>1. CASE OpenCapture(l) \/ EndOfCapture(l) \/ ReadFails(l) \/ AllocFails(l) \/ PacketSent(l)
    <3>1. pc'[l] # "send"
      BY <2>1 DEF OpenCapture, EndOfCapture, ReadFails, AllocFails, PacketSent, Goto, Shape
    <3> QED
      BY <3>1
  <2>2. CASE ReadPacket(l)
    <3>1. index'[l] = Job(l).start_index
      BY <2>2 DEF ReadPacket, Shape
    <3>2. packet'[l] \in Packets \cup {Garbage}
      <4>1. CASE WholeRecord(l) /\ packet' = [packet EXCEPT ![l] = Rest(l)[1].packet]
        <5>1. PICK p \in Packets : Rest(l)[1] = Header(p)
          BY <4>1 DEF WholeRecord
        <5> QED
          BY <4>1, <5>1, UnitsDiffer DEF Shape
      <4>2. CASE packet' = [packet EXCEPT ![l] = Garbage]
        BY <4>2 DEF Shape
      <4> QED
        BY <2>2, <4>1, <4>2 DEF ReadPacket
    <3> QED
      BY <2>0, <3>1, <3>2
  <2>3. CASE SkipQueue(l) \/ SendPacket(l)
    <3>1. pc[l] = "send" /\ index[l] < Job(l).end_index
          /\ index'[l] = index[l] + 1 /\ packet' = packet
      BY <2>3 DEF SkipQueue, SendPacket, Shape, tvars
    <3> QED
      BY <2>0, <3>1
  <2> QED
    BY <2>1, <2>2, <2>3 DEF Sender
<1>5. \A m \in Lcores : pc'[m] \in Reading
  BY <1>0, <1>2, <1>3 DEF Control
<1>6. \A m \in Lcores : pc'[m] \notin {"rx", "save"}
  BY <1>5 DEF Reading, Ended
<1>7. \A m \in Lcores : pc'[m] = "send" => /\ index'[m] \in Job(m).start_index .. Job(m).end_index
                                           /\ packet'[m] \in Packets \cup {Garbage}
  BY <1>2, <1>4 DEF Control
<1> QED
  BY <1>0, <1>1, <1>5, <1>6, <1>7 DEF Control

LEMMA ControlStep ==
    ASSUME Shape, Control, SoundInv, [Next]_vars
    PROVE  Control'
<1>0. setup' = setup
  BY SetupFixed
<1>1. /\ Names' = Names /\ Queues' = Queues
      /\ \A m \in Lcores : Job(m)' = Job(m) /\ JobQueues(m)' = JobQueues(m)
  BY <1>0, SetupStays
<1>2. ASSUME NEW l \in Lcores, Worker(l) PROVE Control'
  BY <1>0, <1>2, ReceiverControl, SenderControl DEF Worker
<1>3. CASE StartTransmit
  BY <1>1, <1>3 DEF StartTransmit, Control, Reading
<1>4. CASE handle_sig
  BY <1>1, <1>4 DEF handle_sig, Control, rvars, tvars
<1>5. CASE UNCHANGED vars
  BY <1>1, <1>5 DEF vars, Control, rvars, tvars
<1> QED
  BY <1>2, <1>3, <1>4, <1>5 DEF Next

-------------------------------------------------------------------------------
(* What a worker of receive has done is not disturbed by what is not its.  *)
LEMMA WriterStays ==
    ASSUME Shape, NEW m \in Lcores, Writer(m), setup' = setup,
           bufs'[m] = bufs[m], received'[m] = received[m], pc'[m] = pc[m],
           current_packets'[m] = current_packets[m]
    PROVE  Writer(m)'
<1>1. HandledCount(m)' = HandledCount(m)
  BY DEF HandledCount
<1>2. SavedCount(m)' = SavedCount(m)
  BY <1>1 DEF SavedCount
<1> QED
  BY <1>1, <1>2 DEF Writer

LEMMA WrittenStays ==
    ASSUME NEW m \in Lcores, Written(m), setup' = setup,
           bufs'[m] = bufs[m], received'[m] = received[m], pc'[m] = pc[m],
           file'[FileName(m)] = file[FileName(m)],
           FileName(m) \in broken => FileName(m) \in broken'
    PROVE  Written(m)'
<1>1. FileName(m)' = FileName(m)
  BY SetupStays
<1>2. HandledCount(m)' = HandledCount(m)
  BY DEF HandledCount
<1>3. SavedCount(m)' = SavedCount(m)
  BY <1>2 DEF SavedCount
<1> QED
  BY <1>1, <1>2, <1>3 DEF Written, CaptureOf, Records

(* The worker itself: the step only moves it, or gives its file up.        *)
LEMMA WriterMoves ==
    ASSUME Shape, NEW l \in Lcores, Writer(l), setup' = setup,
           bufs'[l] = bufs[l], received'[l] = received[l],
           current_packets'[l] = current_packets[l],
           pc'[l] # "open", pc'[l] = "save" \/ bufs[l] = <<>>
    PROVE  Writer(l)'
<1>1. HandledCount(l)' = HandledCount(l)
  BY DEF HandledCount
<1>2. SavedCount(l)' = SavedCount(l)
  BY <1>1 DEF SavedCount
<1> QED
  BY <1>1, <1>2 DEF Writer

LEMMA WrittenMoves ==
    ASSUME NEW l \in Lcores, Written(l), setup' = setup,
           bufs'[l] = bufs[l], received'[l] = received[l],
           pc'[l] # "open",
           pc'[l] \in {"head", "rx", "save"} => file'[FileName(l)] # <<>>,
           \/ FileName(l) \in broken'
           \/ /\ file'[FileName(l)] = file[FileName(l)]
              /\ FileName(l) \in broken => FileName(l) \in broken'
    PROVE  Written(l)'
<1>1. FileName(l)' = FileName(l)
  BY SetupStays
<1>2. HandledCount(l)' = HandledCount(l)
  BY DEF HandledCount
<1>3. SavedCount(l)' = SavedCount(l)
  BY <1>2 DEF SavedCount
<1> QED
  BY <1>1, <1>2, <1>3 DEF Written, CaptureOf, Records

LEMMA ReceiverOthers ==
    ASSUME Shape, NEW l \in Lcores, Receiver(l), setup' = setup,
           NEW m \in Lcores, m # l, Writer(m)
    PROVE  /\ Writer(m)'
           /\ NumbersFit /\ Written(m) => Written(m)'
<1>1. bufs'[m] = bufs[m] /\ received'[m] = received[m] /\ current_packets'[m] = current_packets[m]
  BY DEF Receiver, FopenFails, prepare_pcap_file, LoopHead, CloseFails, Receive,
     save_packet, NextQueue, Shape, rvars
<1>2. pc'[m] = pc[m]
  BY DEF Receiver, FopenFails, prepare_pcap_file, LoopHead, CloseFails, Receive,
     save_packet, NextQueue, Goto, Shape
<1>3. Writer(m)'
  BY <1>1, <1>2, WriterStays
<1>4. ASSUME NumbersFit, Written(m) PROVE Written(m)'
  <2>1. FileName(m) # FileName(l) /\ FileName(l) \in Names /\ FileName(m) \in Names
    BY <1>4, NamesApart, NamesAre
  <2>2. file' = file \/ \E f : file' = [file EXCEPT ![FileName(l)] = f]
    BY Zenon DEF Receiver, FopenFails, prepare_pcap_file, LoopHead, CloseFails, Receive,
       save_packet, NextQueue, Write, rvars
  <2>3. file'[FileName(m)] = file[FileName(m)]
    BY <2>1, <2>2 DEF Shape
  <2>4. broken \subseteq broken'
    BY DEF Receiver, FopenFails, prepare_pcap_file, LoopHead, CloseFails, Receive,
       save_packet, NextQueue, rvars
  <2> QED
    BY <1>1, <1>2, <1>4, <2>3, <2>4, WrittenStays
<1> QED
  BY <1>3, <1>4

LEMMA ReceiveWriter ==
    ASSUME Shape, Shape', NEW l \in Lcores, Receive(l), setup' = setup, Writer(l)
    PROVE  Writer(l)' /\ (Written(l) => Written(l)')
<1> DEFINE r == received[l]
           b == bufs'[l]
<1>1. /\ r \in Seq(Packets) /\ b \in Seq(Packets)
      /\ received'[l] = r \o b /\ bufs[l] = <<>>
      /\ pc[l] = "rx" /\ pc'[l] = "save"
      /\ file' = file /\ current_packets' = current_packets /\ broken' = broken
  BY DEF Receive, Goto, Shape, Writer
<1>2. FileName(l)' = FileName(l)
  BY SetupStays
<1>3. Len(received'[l]) = Len(r) + Len(b) /\ Len(received'[l]) <= MaxPackets
  <2>1. Len(r \o b) = Len(r) + Len(b)
    BY <1>1, ConcatProperties
  <2>2. PICK n \in 0 .. BurstSize :
          /\ Cardinality(Delivered) + n <= MaxPackets
          /\ bufs' = [bufs EXCEPT ![l] = [k \in 1 .. n |-> <<index[l], Len(received[l]) + k>>]]
    BY DEF Receive
  <2>3. n \in Nat
    BY PcapAssumption
  <2>4. b = [k \in 1 .. n |-> <<index[l], Len(received[l]) + k>>]
    BY <2>2 DEF Shape
  <2>5. Len(b) = n
    BY <2>3, <2>4
  <2>6. Len(r) + n <= MaxPackets
    BY <2>2, <2>3, WithinDelivered DEF Writer
  <2> QED
    BY <1>1, <2>1, <2>5, <2>6
<1>4. Len(r) \in Nat /\ Len(b) \in Nat /\ Len(bufs[l]) = 0
  BY <1>1
<1>5. HandledCount(l) = Len(r) /\ HandledCount(l)' = Len(r)
  BY <1>3, <1>4 DEF HandledCount
<1>6. SavedCount(l)' = SavedCount(l)
  BY <1>5 DEF SavedCount
<1>7. SavedCount(l) \in 0 .. Len(r)
  BY <1>5, SavedIs
<1>8. SubSeq(received'[l], 1, SavedCount(l)) = SubSeq(r, 1, SavedCount(l))
  <2> HIDE DEF r, b
  <2> QED
    BY <1>1, <1>7, CutLonger
<1>9. \A k \in 1 .. Len(b) : b[k] = received'[l][Len(r) + k]
  <2> HIDE DEF r, b
  <2> QED
    BY <1>1, ConcatProperties
<1>10. Len(b) <= Len(received'[l])
  <2> HIDE DEF r, b
  <2> QED
    BY <1>3, <1>4
<1>11. current_packets'[l] = IF setup'.check_packet_th THEN SavedCount(l)' ELSE 0
  BY <1>1, <1>6 DEF Writer
<1>12. ASSUME Written(l) PROVE Written(l)'
  <2>1. file[FileName(l)] # <<>>
    BY <1>1, <1>12 DEF Written
  <2>2. FileName(l) \notin broken => file[FileName(l)] = CaptureOf(SubSeq(r, 1, SavedCount(l)))
    BY <1>12, <2>1 DEF Written
  <2>3. FileName(l) \notin broken => file[FileName(l)] = CaptureOf(SubSeq(received'[l], 1, SavedCount(l)))
    BY <1>8, <2>2
  <2> HIDE DEF r, b
  <2> QED
    BY <1>1, <1>2, <1>6, <2>1, <2>3 DEF Written, CaptureOf, Records
<1> HIDE DEF r, b
<1>13. Writer(l)'
  BY <1>1, <1>3, <1>5, <1>6, <1>9, <1>10, <1>11 DEF Writer, b
<1> QED
  BY <1>12, <1>13

LEMMA SaveWriter ==
    ASSUME Shape, Shape', NEW l \in Lcores, save_packet(l), setup' = setup, Writer(l)
    PROVE  /\ Writer(l)'
           /\ NumbersFit /\ Written(l) => Written(l)'
<1> DEFINE r == received[l]
           b == bufs[l]
           h == HandledCount(l)
           t == setup.max_packets_per_queue
<1>1. /\ r \in Seq(Packets) /\ b \in Seq(Packets) /\ b # <<>>
      /\ received' = received /\ bufs'[l] = Tail(b)
      /\ pc[l] = "save" /\ pc' = pc
  BY DEF save_packet, Shape
<1>2. FileName(l)' = FileName(l) /\ FileName(l) \in Names
  BY SetupStays, NamesAre
<1>3. /\ Len(r) \in Nat /\ Len(b) \in Nat \ {0} /\ h \in Nat /\ h = Len(r) - Len(b)
      /\ Len(r) <= MaxPackets
  <2>1. Len(b) > 0
    BY <1>1, EmptySeq
  <2> QED
    BY <1>1, <2>1 DEF Writer, HandledCount
<1>4. /\ Tail(b) \in Seq(Packets) /\ Len(Tail(b)) = Len(b) - 1
      /\ \A k \in 1 .. Len(b) - 1 : Tail(b)[k] = b[k + 1]
  <2> HIDE DEF b
  <2>1. /\ Tail(b) \in Seq(Packets) /\ Len(Tail(b)) = Len(b) - 1
        /\ \A k \in 1 .. Len(Tail(b)) : Tail(b)[k] = b[k + 1]
    BY <1>1, HeadTailProperties
  <2> QED
    BY <2>1
<1>5. HandledCount(l)' = h + 1
  <2>1. HandledCount(l)' = Len(r) - Len(Tail(b))
    BY <1>1 DEF HandledCount
  <2> HIDE DEF r, b, h
  <2> QED
    BY <1>3, <1>4, <2>1
<1>6. \A k \in 1 .. Len(Tail(b)) : Tail(b)[k] = r[h + 1 + k]
  <2> SUFFICES ASSUME NEW k \in 1 .. Len(b) - 1 PROVE Tail(b)[k] = r[h + 1 + k]
    BY <1>4
  <2> HIDE DEF r, b, h
  <2>1. k + 1 \in 1 .. Len(b) /\ h + 1 + k = h + (k + 1)
    BY <1>3
  <2>2. b[k + 1] = r[h + (k + 1)]
    BY <2>1 DEF Writer, r, b, h
  <2> QED
    BY <1>4, <2>1, <2>2
<1>7. b[1] = r[h + 1] /\ h < Len(r) /\ b[1] \in Packets
  <2>1. 1 \in 1 .. Len(b)
    BY <1>3
  <2>2. b[1] = r[h + 1]
    BY <2>1 DEF Writer
  <2> HIDE DEF r, b, h
  <2>3. h < Len(r)
    BY <1>3
  <2>4. b[1] \in Packets
    BY <1>1, <2>1
  <2> QED
    BY <2>2, <2>3, <2>4
<1>8. t \in Int /\ setup.check_packet_th \in BOOLEAN
  BY SetupType
<1>9. /\ SavedCount(l) = IF setup.check_packet_th /\ t >= 0 /\ t < h THEN t ELSE h
      /\ SavedCount(l)' = IF setup.check_packet_th /\ t >= 0 /\ t < h + 1 THEN t ELSE h + 1
  BY <1>5 DEF SavedCount
<1>10. /\ current_packets[l] = IF setup.check_packet_th THEN SavedCount(l) ELSE 0
       /\ file[FileName(l)] \in Seq(Units)
       /\ Written(l) => file[FileName(l)] # <<>>
  BY <1>1, <1>2 DEF Writer, Written, Shape
<1>11. Len(bufs'[l]) <= Len(received'[l])
  BY <1>1, <1>3, <1>4
<1>12. CASE ThresholdReached(l)
  <2>1. setup.check_packet_th /\ current_packets[l] = t
    BY <1>12 DEF ThresholdReached
  <2>2. SavedCount(l)' = SavedCount(l)
    <3> DEFINE check == setup.check_packet_th
               c == current_packets[l]
               n == SavedCount(l)
               m == SavedCount(l)'
    <3>1. /\ n = (IF check /\ t >= 0 /\ t < h THEN t ELSE h)
          /\ m = (IF check /\ t >= 0 /\ t < h + 1 THEN t ELSE h + 1)
          /\ check => c = n
      BY <1>9, <1>10
    <3>2. check /\ c = t
      BY <2>1
    <3> HIDE DEF h, t, check, c, n, m
    <3>3. h \in Nat /\ t \in Int
      BY <1>3, <1>8
    <3>4. m = n
      BY <3>1, <3>2, <3>3
    <3> QED
      BY <3>4 DEF n, m
  <2>3. file' = file /\ current_packets' = current_packets /\ broken' = broken
    BY <1>12 DEF save_packet
  <2> HIDE DEF h, t, b, r
  <2> QED
    BY <1>1, <1>2, <1>4, <1>5, <1>6, <1>11, <2>2, <2>3 DEF Writer, Written, CaptureOf, Records, r
<1>13. CASE ~ ThresholdReached(l)
  <2>1. ~ (setup.check_packet_th /\ current_packets[l] = t)
    BY <1>13 DEF ThresholdReached
  <2>2. SavedCount(l) = h /\ SavedCount(l)' = h + 1
    <3> DEFINE check == setup.check_packet_th
               c == current_packets[l]
               n == SavedCount(l)
               m == SavedCount(l)'
    <3>1. /\ n = (IF check /\ t >= 0 /\ t < h THEN t ELSE h)
          /\ m = (IF check /\ t >= 0 /\ t < h + 1 THEN t ELSE h + 1)
          /\ check => c = n
      BY <1>9, <1>10
    <3>2. ~ (check /\ c = t)
      BY <2>1
    <3> HIDE DEF h, t, check, c, n, m
    <3>3. h \in Nat /\ t \in Int
      BY <1>3, <1>8
    <3>4. n = h /\ m = h + 1
      BY <3>1, <3>2, <3>3
    <3> QED
      BY <3>4 DEF n, m
  <2>3. current_packets'[l] = IF setup'.check_packet_th THEN SavedCount(l)' ELSE 0
    <3>1. current_packets' = [current_packets EXCEPT ![l] = IF setup.check_packet_th THEN @ + 1 ELSE @]
      BY <1>13 DEF save_packet
    <3>2. current_packets'[l] = IF setup.check_packet_th THEN current_packets[l] + 1 ELSE current_packets[l]
      BY <3>1 DEF Shape
    <3> QED
      BY <1>10, <2>2, <3>2
  <2>4. Writer(l)'
    <3> HIDE DEF h, t, b, r
    <3> QED
      BY <1>1, <1>3, <1>4, <1>5, <1>6, <1>11, <2>2, <2>3 DEF Writer, r
  <2>5. ASSUME NumbersFit, Written(l)
        PROVE  /\ file'[FileName(l)] # <<>>
               /\ FileName(l) \notin broken' =>
                    /\ FileName(l) \notin broken
                    /\ file'[FileName(l)] = file[FileName(l)] \o <<Header(b[1]), Data(b[1])>>
    <3>1. PICK units \in Seq(Units) :
             /\ Write(l, units)
             /\ FileName(l) \in broken' \/ (broken' = broken /\ units = <<Header(b[1]), Data(b[1])>>)
      BY <1>7, <1>13, UnitTypes DEF save_packet
    <3>2. file'[FileName(l)] = file[FileName(l)] \o units
      <4>1. file' = [file EXCEPT ![FileName(l)] = @ \o units]
        BY <2>5, <3>1, WriteAtEnd
      <4>2. file \in [Names -> Seq(Units)]
        BY DEF Shape
      <4> QED
        BY <1>2, <4>1, <4>2
    <3>3. file[FileName(l)] \o units # <<>>
      BY <1>10, <2>5, FileGrows
    <3> QED
      BY <3>1, <3>2, <3>3
  <2>6. ASSUME NumbersFit, Written(l), FileName(l) \notin broken'
        PROVE  file'[FileName(l)] = CaptureOf(SubSeq(r, 1, h + 1))
    <3>1. file[FileName(l)] = CaptureOf(SubSeq(r, 1, h))
      BY <1>10, <2>2, <2>5, <2>6 DEF Written
    <3> HIDE DEF h, b, r
    <3>2. SubSeq(r, 1, h) \in Seq(Packets)
      <4>1. h \in 0 .. Len(r)
        BY <1>3, <1>7
      <4> QED
        BY <1>1, <4>1, CutType
    <3>3. Append(SubSeq(r, 1, h), b[1]) = SubSeq(r, 1, h + 1)
      BY <1>1, <1>3, <1>7, CutNext
    <3>4. CaptureOf(SubSeq(r, 1, h)) \o <<Header(b[1]), Data(b[1])>>
            = CaptureOf(Append(SubSeq(r, 1, h), b[1]))
      BY <1>7, <3>2, RecordsGrow
    <3> QED
      BY <2>5, <2>6, <3>1, <3>3, <3>4
  <2>7. ASSUME NumbersFit, Written(l) PROVE Written(l)'
    <3> HIDE DEF h, t, b, r
    <3> QED
      BY <1>1, <1>2, <2>2, <2>5, <2>6, <2>7 DEF Written, CaptureOf, Records, r
  <2> QED
    BY <2>4, <2>7
<1> QED
  BY <1>12, <1>13

LEMMA ReceiverWriter ==
    ASSUME Shape, Shape', NEW l \in Lcores, Receiver(l), setup' = setup, Writer(l)
    PROVE  /\ Writer(l)'
           /\ NumbersFit /\ Written(l) => Written(l)'
<1>0. FileName(l)' = FileName(l) /\ FileName(l) \in Names
  BY SetupStays, NamesAre
<1>1. CASE FopenFails(l)
  <2>1. bufs[l] = <<>> /\ pc'[l] = "failed"
    BY <1>1 DEF FopenFails, Goto, Shape, Writer
  <2> QED
    BY <1>1, <2>1, WriterMoves, WrittenMoves DEF FopenFails, rvars
<1>2. CASE prepare_pcap_file(l)
  <2>1. bufs[l] = <<>> /\ received[l] = <<>> /\ bufs' = bufs /\ received' = received
        /\ current_packets' = current_packets /\ pc'[l] \in {"head", "failed"}
    BY <1>2 DEF prepare_pcap_file, Goto, Writer, Shape
  <2>2. Writer(l)'
    BY <2>1, WriterMoves
  <2>3. CASE pc'[l] = "failed" /\ FileName(l) \in broken'
    BY <2>1, <2>2, <2>3, WrittenMoves
  <2>4. CASE pc'[l] = "head" /\ file'[FileName(l)] = <<Hdr>> /\ broken' = broken
    <3>1. HandledCount(l)' = 0
      BY <2>1 DEF HandledCount
    <3>2. SavedCount(l)' = 0
      BY <3>1, SetupType DEF SavedCount
    <3>3. SubSeq(received'[l], 1, 0) = <<>>
      BY <2>1
    <3>4. <<Hdr>> # <<>>
      OBVIOUS
    <3>5. file'[FileName(l)] = CaptureOf(SubSeq(received'[l], 1, 0))
      BY <2>4, <3>3, NoRecords
    <3>6. Written(l)'
      BY <1>0, <2>4, <3>2, <3>4, <3>5 DEF Written, CaptureOf, Records
    <3> QED
      BY <2>2, <3>6
  <2> QED
    BY <1>0, <1>2, <2>3, <2>4 DEF prepare_pcap_file, Goto, Shape
<1>3. CASE LoopHead(l)
  <2>1. bufs[l] = <<>> /\ pc[l] = "head" /\ pc'[l] \in {"done", "rx"}
    BY <1>3 DEF LoopHead, Goto, Shape, Writer
  <2>2. Written(l) => file[FileName(l)] # <<>>
    BY <2>1 DEF Written
  <2> QED
    BY <1>3, <2>1, <2>2, WriterMoves, WrittenMoves DEF LoopHead, rvars
<1>4. CASE CloseFails(l)
  <2>1. bufs[l] = <<>> /\ pc'[l] = "done" /\ FileName(l) \in broken'
    BY <1>4 DEF CloseFails, Goto, Shape, Writer
  <2> QED
    BY <1>4, <2>1, WriterMoves, WrittenMoves DEF CloseFails
<1>5. CASE Receive(l)
  BY <1>5, ReceiveWriter
<1>6. CASE save_packet(l)
  BY <1>6, SaveWriter
<1>7. CASE NextQueue(l)
  <2>1. bufs[l] = <<>> /\ pc[l] = "save" /\ pc'[l] \in {"rx", "head"}
    BY <1>7 DEF NextQueue, Goto, Shape, Writer
  <2>2. Written(l) => file[FileName(l)] # <<>>
    BY <2>1 DEF Written
  <2> QED
    BY <1>7, <2>1, <2>2, WriterMoves, WrittenMoves DEF NextQueue, rvars
<1> QED
  BY <1>1, <1>2, <1>3, <1>4, <1>5, <1>6, <1>7 DEF Receiver

LEMMA WriterStep ==
    ASSUME Shape, Control, WriterInv, Shape', [Next]_vars
    PROVE  WriterInv'
<1>0. setup' = setup
  BY SetupFixed
<1>1. ASSUME NEW l \in Lcores, Receiver(l) PROVE WriterInv'
  <2>1. running = "receive" /\ running' = "receive"
    BY <1>1, WhoRuns DEF Receiver, FopenFails, prepare_pcap_file, LoopHead, CloseFails, Receive,
       save_packet, NextQueue, Goto, Same
  <2>2. ASSUME NEW m \in Lcores PROVE Writer(m)' /\ (NumbersFit /\ Written(m) => Written(m)')
    BY <1>0, <1>1, <2>1, ReceiverOthers, ReceiverWriter DEF WriterInv
  <2> QED
    BY <1>0, <2>1, <2>2, SetupStays DEF WriterInv
<1>2. ASSUME NEW l \in Lcores, Sender(l) PROVE WriterInv'
  <2>1. running' = "transmit"
    BY <1>2, WhoRuns DEF Sender, OpenCapture, EndOfCapture, ReadFails, ReadPacket, SkipQueue, SendPacket,
       AllocFails, PacketSent, Goto, Same
  <2> QED
    BY <2>1 DEF WriterInv
<1>3. CASE StartTransmit
  BY <1>3 DEF StartTransmit, WriterInv
<1>4. CASE handle_sig \/ UNCHANGED vars
  <2>1. /\ running' = running /\ bufs' = bufs /\ received' = received /\ pc' = pc
        /\ current_packets' = current_packets /\ file' = file /\ broken' = broken
    BY <1>4 DEF handle_sig, vars, rvars
  <2> QED
    BY <1>0, <2>1, SetupStays, WriterStays, WrittenStays DEF WriterInv
<1> QED
  BY <1>1, <1>2, <1>3, <1>4 DEF Next, Worker

LEMMA SoundStays == ASSUME NEW n, file' = file, Sound(file[n]) PROVE Sound(file[n])'
<1>1. PacketsOf(file[n])' = PacketsOf(file[n])
  BY DEF PacketsOf
<1>2. CaptureOf(PacketsOf(file[n]))' = CaptureOf(PacketsOf(file[n]))
  BY <1>1 DEF CaptureOf, Records
<1> QED
  BY <1>1, <1>2 DEF Sound

LEMMA SoundStep ==
    ASSUME Shape, Control, WriterInv, SoundInv, [Next]_vars
    PROVE  SoundInv'
<1>0. Names' = Names /\ (NumbersFit' <=> NumbersFit)
  BY SetupFixed, SetupStays
<1>1. ASSUME NEW l \in Lcores, Receiver(l) PROVE SoundInv'
  <2>1. running' = "receive"
    BY <1>1, WhoRuns DEF Receiver, FopenFails, prepare_pcap_file, LoopHead, CloseFails, Receive,
       save_packet, NextQueue, Goto, Same
  <2> QED
    BY <2>1 DEF SoundInv
<1>2. CASE StartTransmit
  <2>1. running = "receive" /\ file' = file /\ broken' = broken
    BY <1>2 DEF StartTransmit
  <2> SUFFICES ASSUME NumbersFit, NEW n \in Names, file[n] # <<>>, n \notin broken
               PROVE  Sound(file[n])
    BY <1>0, <2>1, SoundStays DEF SoundInv
  <2>2. PICK l \in Lcores : n = FileName(l)
    BY DEF Names
  <2>3. Writer(l) /\ file[n] = CaptureOf(SubSeq(received[l], 1, SavedCount(l)))
    BY <2>1, <2>2 DEF WriterInv, Written
  <2>4. SubSeq(received[l], 1, SavedCount(l)) \in Seq(Packets)
    <3>1. received[l] \in Seq(Packets) /\ SavedCount(l) \in 0 .. Len(received[l])
      BY <2>3, SavedIs DEF Shape
    <3> QED
      BY <3>1, CutType
  <2>5. PacketsOf(file[n]) = SubSeq(received[l], 1, SavedCount(l))
    BY <2>3, <2>4, CaptureIs
  <2> QED
    BY <2>3, <2>4, <2>5 DEF Sound
<1>3. CASE (\E l \in Lcores : Sender(l)) \/ handle_sig \/ UNCHANGED vars
  <2>1. running' = running /\ file' = file /\ broken' = broken
    <3>1. ASSUME NEW l \in Lcores, Sender(l) PROVE UNCHANGED <<running, file, broken>>
      <4>1. CASE OpenCapture(l) \/ EndOfCapture(l) \/ ReadFails(l)
        BY <4>1 DEF OpenCapture, EndOfCapture, ReadFails, Same, rvars
      <4>2. CASE ReadPacket(l)
        BY <4>2 DEF ReadPacket, Same, rvars
      <4>3. CASE SkipQueue(l) \/ SendPacket(l) \/ AllocFails(l) \/ PacketSent(l)
        BY <4>3 DEF SkipQueue, SendPacket, AllocFails, PacketSent, Same, rvars
      <4> QED
        BY <3>1, <4>1, <4>2, <4>3 DEF Sender
    <3>2. CASE handle_sig
      BY <3>2 DEF handle_sig, rvars
    <3>3. CASE UNCHANGED vars
      BY <3>3 DEF vars, rvars
    <3> QED
      BY <1>3, <3>1, <3>2, <3>3
  <2> QED
    BY <1>0, <2>1, SoundStays DEF SoundInv
<1> QED
  BY <1>1, <1>2, <1>3 DEF Next, Worker

-------------------------------------------------------------------------------
(* What is still to be read of a sound capture by a worker that has read   *)
(* whole records only.                                                     *)
LEMMA RestIs ==
    ASSUME Shape, Sound(Capture), NEW l \in Lcores, offset[l] % 2 = 1,
           ReadCount(l) <= Len(PacketsOf(Capture))
    PROVE  LET ps == PacketsOf(Capture)
               n  == ReadCount(l)
           IN  /\ n \in Nat /\ Len(ps) \in Nat /\ ps \in Seq(Packets)
               /\ Len(Rest(l)) = 2 * (Len(ps) - n)
               /\ n < Len(ps) => /\ Rest(l)[1] = Header(ps[n + 1]) /\ Rest(l)[2] = Data(ps[n + 1])
                                 /\ ps[n + 1] \in Packets
<1>1. PICK ps, n, c : ps = PacketsOf(Capture) /\ n = ReadCount(l) /\ c = Capture
  OBVIOUS
<1>2. ps \in Seq(Packets) /\ c = CaptureOf(ps)
  BY <1>1 DEF Sound
<1>3. /\ c \in Seq(Units) /\ Len(c) = 2 * Len(ps) + 1
      /\ \A k \in 1 .. Len(ps) : c[2 * k] = Header(ps[k]) /\ c[2 * k + 1] = Data(ps[k])
  BY <1>2, CaptureIs
<1>4. offset[l] \in Nat /\ n = offset[l] \div 2 /\ offset[l] % 2 = 1 /\ n <= Len(ps)
  BY <1>1 DEF Shape, ReadCount
<1>5. n \in Nat /\ offset[l] = 2 * n + 1
  <2>1. \A o \in Nat : o % 2 = 1 => o \div 2 \in Nat /\ o = 2 * (o \div 2) + 1
    OBVIOUS
  <2> QED
    BY <1>4, <2>1
<1>6. Rest(l) = SubSeq(c, 2 * n + 2, 2 * Len(ps) + 1)
  <2>1. offset[l] + 1 = 2 * n + 2
    BY <1>5
  <2>2. Rest(l) = SubSeq(c, offset[l] + 1, Len(c))
    BY <1>1 DEF Rest
  <2> QED
    BY <1>3, <2>1, <2>2
<1>7. Len(ps) \in Nat
  BY <1>2
<1>8. \A i \in 2 * n + 2 .. 2 * Len(ps) + 1 : c[i] \in Units
  BY <1>3, <1>5, <1>7
<1>9. /\ Len(Rest(l)) = IF 2 * n + 2 <= 2 * Len(ps) + 1
                        THEN (2 * Len(ps) + 1) - (2 * n + 2) + 1 ELSE 0
      /\ \A i \in 1 .. (2 * Len(ps) + 1) - (2 * n + 2) + 1 :
             Rest(l)[i] = c[(2 * n + 2) + i - 1]
  <2>1. 2 * n + 2 \in Int /\ 2 * Len(ps) + 1 \in Int
    BY <1>5, <1>7
  <2> QED
    BY <1>6, <1>8, <2>1, SubSeqProperties
<1>10. Len(Rest(l)) = 2 * (Len(ps) - n)
  <2>1. PICK len, m : len = Len(ps) /\ m = Len(Rest(l))
    OBVIOUS
  <2>2. len \in Nat /\ n \in Nat /\ n <= len
    BY <1>4, <1>5, <1>7, <2>1
  <2>3. m = IF 2 * n + 2 <= 2 * len + 1 THEN (2 * len + 1) - (2 * n + 2) + 1 ELSE 0
    BY <1>9, <2>1
  <2>4. m = 2 * (len - n)
    BY <2>2, <2>3
  <2> QED
    BY <2>1, <2>4
<1>11. ASSUME n < Len(ps)
       PROVE  /\ Rest(l)[1] = Header(ps[n + 1]) /\ Rest(l)[2] = Data(ps[n + 1])
              /\ ps[n + 1] \in Packets
  <2>1. n + 1 \in 1 .. Len(ps)
    BY <1>5, <1>7, <1>11
  <2>2. 1 \in 1 .. (2 * Len(ps) + 1) - (2 * n + 2) + 1 /\ 2 \in 1 .. (2 * Len(ps) + 1) - (2 * n + 2) + 1
    BY <1>5, <1>7, <1>11
  <2>3. Rest(l)[1] = c[(2 * n + 2) + 1 - 1] /\ Rest(l)[2] = c[(2 * n + 2) + 2 - 1]
    BY <1>9, <2>2
  <2>4. (2 * n + 2) + 1 - 1 = 2 * (n + 1) /\ (2 * n + 2) + 2 - 1 = 2 * (n + 1) + 1
    BY <1>5
  <2>5. Rest(l)[1] = c[2 * (n + 1)] /\ Rest(l)[2] = c[2 * (n + 1) + 1]
    BY <2>3, <2>4
  <2>6. ps[n + 1] \in Packets
    BY <1>2, <2>1
  <2> QED
    BY <1>3, <2>1, <2>5, <2>6
<1> QED
  BY <1>1, <1>2, <1>5, <1>7, <1>10, <1>11

(* A step of a worker of transmit keeps the capture.                       *)
LEMMA SenderKeeps ==
    ASSUME Shape, Control, NEW l \in Lcores, Sender(l), setup' = setup
    PROVE  /\ running = "transmit" /\ running' = running /\ stop' = stop
           /\ file' = file /\ pcap_file' = pcap_file /\ broken' = broken
           /\ Capture' = Capture /\ PacketsOf(Capture)' = PacketsOf(Capture)
           /\ Replaying' <=> Replaying
<1>1. /\ running = "transmit" /\ running' = running /\ stop' = stop
      /\ file' = file /\ pcap_file' = pcap_file /\ broken' = broken
  BY WhoRuns DEF Sender, OpenCapture, EndOfCapture, ReadFails, ReadPacket, SkipQueue, SendPacket,
     AllocFails, PacketSent, Goto, Same, rvars, tvars
<1>2. Capture' = Capture
  BY <1>1 DEF Capture
<1>3. PacketsOf(Capture)' = PacketsOf(Capture)
  BY <1>2 DEF PacketsOf
<1> QED
  BY <1>1, <1>2, <1>3, SetupStays DEF Replaying

(* The queues of another worker, and the place where that one is.          *)
LEMMA ReaderStays ==
    ASSUME NEW m \in Lcores, Reader(m), setup' = setup,
           Capture' = Capture, PacketsOf(Capture)' = PacketsOf(Capture),
           pc'[m] = pc[m], index'[m] = index[m], offset'[m] = offset[m],
           packet'[m] = packet[m], something_send'[m] = something_send[m],
           stop => stop',
           \A q \in JobQueues(m) : offered'[q] = offered[q]
    PROVE  Reader(m)'
<1>1. /\ Job(m)' = Job(m) /\ JobQueues(m)' = JobQueues(m)
      /\ \A q : Skipped(q)' = Skipped(q)
  BY SetupStays
<1>2. ReadCount(m)' = ReadCount(m)
  BY DEF ReadCount
<1> QED
  BY <1>1, <1>2 DEF Reader, Given

LEMMA ReaderOthers ==
    ASSUME Shape, Control, NEW l \in Lcores, Sender(l), setup' = setup,
           NEW m \in Lcores, m # l, Reader(m)
    PROVE  Reader(m)'
<1>1. Capture' = Capture /\ PacketsOf(Capture)' = PacketsOf(Capture) /\ stop' = stop
  BY SenderKeeps
<1>2. /\ pc'[m] = pc[m] /\ index'[m] = index[m] /\ offset'[m] = offset[m]
      /\ packet'[m] = packet[m] /\ something_send'[m] = something_send[m]
  BY DEF Sender, OpenCapture, EndOfCapture, ReadFails, ReadPacket, SkipQueue, SendPacket,
     AllocFails, PacketSent, Goto, Shape, tvars
<1>3. ASSUME NEW q \in JobQueues(m) PROVE offered'[q] = offered[q]
  <2>1. CASE SendPacket(l)
    <3>1. index[l] \in JobQueues(l)
      BY <2>1, SetupType DEF SendPacket, Control, JobQueues
    <3>2. index[l] # q
      BY <3>1, JobsApart
    <3> QED
      BY <2>1, <3>2 DEF SendPacket, Shape
  <2>2. CASE ~ SendPacket(l)
    BY <2>2 DEF Sender, OpenCapture, EndOfCapture, ReadFails, ReadPacket, SkipQueue,
       AllocFails, PacketSent, tvars
  <2> QED
    BY <2>1, <2>2
<1> QED
  BY <1>1, <1>2, <1>3, ReaderStays

(* The worker's own queues have been given a prefix, wherever it is.       *)
LEMMA ReaderFails ==
    ASSUME NEW l \in Lcores, Reader(l), setup' = setup,
           PacketsOf(Capture)' = PacketsOf(Capture),
           pc'[l] = "failed", offered' = offered
    PROVE  Reader(l)'
<1>1. JobQueues(l)' = JobQueues(l) /\ \A q : Skipped(q)' = Skipped(q)
  BY SetupStays
<1> QED
  BY <1>1 DEF Reader, Given

LEMMA OpenOrEndStep ==
    ASSUME Shape, Control, SoundInv, Replaying, NEW l \in Lcores, Reader(l), setup' = setup,
           OpenCapture(l) \/ EndOfCapture(l) \/ ReadFails(l) \/ AllocFails(l)
    PROVE  Reader(l)'
<1>0. /\ JobQueues(l)' = JobQueues(l) /\ Job(l)' = Job(l) /\ \A q : Skipped(q)' = Skipped(q)
      /\ PacketsOf(Capture)' = PacketsOf(Capture) /\ stop' = stop
  BY SetupStays, SenderKeeps DEF Sender
<1>1. PICK ps : ps = PacketsOf(Capture)
  OBVIOUS
<1>2. Sound(Capture) /\ ps \in Seq(Packets) /\ Len(ps) \in Nat
  BY <1>1 DEF Replaying, SoundInv, Control, Capture, Sound
<1>3. CASE OpenCapture(l) /\ pc'[l] = "read" /\ offset'[l] = 1
  <2>1. offered' = offered /\ \A q \in JobQueues(l) : offered[q] = <<>>
    BY <1>3 DEF OpenCapture, Goto, Reader
  <2>2. ReadCount(l)' = 0
    BY <1>3 DEF ReadCount
  <2>3. SubSeq(ps, 1, 0) = <<>>
    BY <1>2
  <2>4. \A q \in JobQueues(l) : Given(q, 0)' /\ Given(q, ReadCount(l))'
    BY <1>0, <1>1, <2>1, <2>2, <2>3 DEF Given
  <2>5. offset'[l] % 2 = 1 /\ ReadCount(l)' <= Len(ps) /\ 0 \in 0 .. Len(ps)
    BY <1>2, <1>3, <2>2
  <2> QED
    BY <1>0, <1>1, <1>3, <2>4, <2>5 DEF Reader
<1>4. CASE pc'[l] = "failed"
  <2>1. offered' = offered
    BY <1>4 DEF OpenCapture, EndOfCapture, ReadFails, AllocFails, tvars
  <2> QED
    BY <1>0, <1>4, <2>1, ReaderFails
<1>5. CASE EndOfCapture(l)
  <2>1. pc[l] = "read" /\ pc'[l] = "done" /\ offered' = offered
    BY <1>5 DEF EndOfCapture, Goto, Shape, tvars
  <2>2. \A q \in JobQueues(l) : \E k \in 0 .. Len(ps) : Given(q, k)'
    BY <1>0, <1>1, <2>1 DEF Reader, Given
  <2>3. ASSUME ~ stop, NEW q \in JobQueues(l), ~ Skipped(q) PROVE offered[q] = ps
    <3>1. Given(q, ReadCount(l)) /\ offset[l] % 2 = 1 /\ ReadCount(l) <= Len(ps)
      BY <1>1, <2>1 DEF Reader
    <3>2. Rest(l) \in {<<>>, <<Part>>}
      BY <1>5, <2>3 DEF EndOfCapture
    <3>3. Len(Rest(l)) \in {0, 1}
      BY <3>2
    <3>4. ReadCount(l) \in Nat /\ Len(Rest(l)) = 2 * (Len(ps) - ReadCount(l))
      BY <1>1, <1>2, <3>1, RestIs
    <3>5. ReadCount(l) = Len(ps)
      <4>1. PICK n, m, len : n = ReadCount(l) /\ m = Len(ps) /\ len = Len(Rest(l))
        OBVIOUS
      <4>2. n \in Nat /\ m \in Nat /\ len = 2 * (m - n) /\ n <= m /\ (len = 0 \/ len = 1)
        BY <1>2, <3>1, <3>3, <3>4, <4>1
      <4>3. n = m
        BY <4>2
      <4> QED
        BY <4>1, <4>3
    <3> QED
      BY <1>1, <1>2, <2>3, <3>1, <3>5, CutWhole DEF Given
  <2> QED
    BY <1>0, <1>1, <2>1, <2>2, <2>3 DEF Reader
<1>6. ReadFails(l) \/ AllocFails(l) => pc'[l] = "failed"
  BY DEF ReadFails, AllocFails, Goto, Shape
<1>7. OpenCapture(l) => pc'[l] = "failed" \/ (pc'[l] = "read" /\ offset'[l] = 1)
  BY DEF OpenCapture, Goto, Shape
<1> QED
  BY <1>3, <1>4, <1>5, <1>6, <1>7

LEMMA ReadStep ==
    ASSUME Shape, Control, SoundInv, Replaying, NEW l \in Lcores, Reader(l), setup' = setup,
           ReadPacket(l)
    PROVE  Reader(l)'
<1>0. /\ JobQueues(l)' = JobQueues(l) /\ Job(l)' = Job(l) /\ \A q : Skipped(q)' = Skipped(q)
      /\ PacketsOf(Capture)' = PacketsOf(Capture) /\ stop' = stop
  BY SetupStays, SenderKeeps DEF Sender
<1>1. PICK ps, n : ps = PacketsOf(Capture) /\ n = ReadCount(l)
  OBVIOUS
<1>2. Sound(Capture) /\ ps \in Seq(Packets) /\ Len(ps) \in Nat
  BY <1>1 DEF Replaying, SoundInv, Control, Capture, Sound
<1>3. /\ pc[l] = "read" /\ pc'[l] = "send" /\ offered' = offered
      /\ index'[l] = Job(l).start_index /\ something_send'[l] = FALSE
  BY DEF ReadPacket, Goto, Shape
<1>4. /\ offset[l] % 2 = 1 /\ n <= Len(ps) /\ \A q \in JobQueues(l) : Given(q, n)
      /\ offset[l] \in Nat
  BY <1>1, <1>3 DEF Reader, Shape
<1>5. /\ n \in Nat /\ Len(Rest(l)) = 2 * (Len(ps) - n)
      /\ n < Len(ps) => /\ Rest(l)[1] = Header(ps[n + 1]) /\ Rest(l)[2] = Data(ps[n + 1])
                        /\ ps[n + 1] \in Packets
  BY <1>1, <1>2, <1>4, RestIs
<1>6. n < Len(ps)
  <2>1. Len(Rest(l)) >= 2
    BY DEF ReadPacket, WholeRecord
  <2>2. PICK m, len : m = Len(ps) /\ len = Len(Rest(l))
    OBVIOUS
  <2>3. n < m
    BY <1>2, <1>5, <2>1, <2>2
  <2> QED
    BY <2>2, <2>3
<1>7. WholeRecord(l)
  <2>1. Len(Rest(l)) >= 2
    BY DEF ReadPacket, WholeRecord
  <2> QED
    BY <1>5, <1>6, <2>1 DEF WholeRecord
<1>8. packet'[l] = ps[n + 1] /\ offset'[l] = offset[l] + 2
  <2>1. /\ packet' = [packet EXCEPT ![l] = Rest(l)[1].packet]
        /\ offset' = [offset EXCEPT ![l] = @ + 2]
    BY <1>7 DEF ReadPacket
  <2>2. Rest(l)[1].packet = ps[n + 1]
    BY <1>5, <1>6, UnitsDiffer
  <2> QED
    BY <2>1, <2>2 DEF Shape
<1>9. offset'[l] % 2 = 1 /\ ReadCount(l)' = n + 1
  <2>1. n = offset[l] \div 2
    BY <1>1 DEF ReadCount
  <2>2. offset'[l] % 2 = 1 /\ offset'[l] \div 2 = n + 1
    BY <1>4, <1>8, <2>1
  <2> QED
    BY <2>2 DEF ReadCount
<1>10. ASSUME NEW q \in JobQueues(l)
       PROVE  /\ Given(q, IF q < index[l] THEN ReadCount(l) ELSE ReadCount(l) - 1)'
              /\ \E k \in 0 .. Len(ps) : Given(q, k)'
  <2>1. ~ (q < index'[l]) /\ (n + 1) - 1 = n
    BY <1>3, <1>5, SetupType DEF JobQueues
  <2>2. Given(q, n)'
    BY <1>0, <1>3, <1>4 DEF Given
  <2>3. n \in 0 .. Len(ps)
    BY <1>2, <1>4, <1>5
  <2>4. (IF q < index[l] THEN ReadCount(l) ELSE ReadCount(l) - 1)' = n
    BY <1>9, <2>1
  <2>5. Given(q, IF q < index[l] THEN ReadCount(l) ELSE ReadCount(l) - 1)'
    BY <2>2, <2>4 DEF Given
  <2> QED
    BY <2>2, <2>3, <2>5
<1>11. ~ \E q \in Job(l).start_index .. index'[l] - 1 : ~ Skipped(q)
  BY <1>3, SetupType
<1>12. n + 1 >= 1 /\ n + 1 <= Len(ps)
  BY <1>2, <1>5, <1>6
<1> QED
  BY <1>0, <1>1, <1>3, <1>8, <1>9, <1>10, <1>11, <1>12 DEF Reader

LEMMA SendStep ==
    ASSUME Shape, Control, SoundInv, Replaying, NEW l \in Lcores, Reader(l), setup' = setup,
           SkipQueue(l) \/ SendPacket(l)
    PROVE  Reader(l)'
<1>0. /\ JobQueues(l)' = JobQueues(l) /\ Job(l)' = Job(l) /\ \A q : Skipped(q)' = Skipped(q)
      /\ PacketsOf(Capture)' = PacketsOf(Capture) /\ stop' = stop
  BY SetupStays, SenderKeeps DEF Sender
<1>1. PICK ps, n, i : ps = PacketsOf(Capture) /\ n = ReadCount(l) /\ i = index[l]
  OBVIOUS
<1>2. ps \in Seq(Packets) /\ Len(ps) \in Nat
  BY <1>1 DEF Replaying, SoundInv, Control, Capture, Sound
<1>3. /\ pc[l] = "send" /\ pc' = pc /\ index'[l] = i + 1
      /\ packet' = packet /\ offset' = offset
  BY <1>1 DEF SkipQueue, SendPacket, Shape, tvars
<1>4. /\ offset[l] % 2 = 1 /\ n <= Len(ps) /\ n >= 1 /\ packet[l] = ps[n]
      /\ \A q \in JobQueues(l) : Given(q, IF q < i THEN n ELSE n - 1)
      /\ something_send[l] <=> \E q \in Job(l).start_index .. i - 1 : ~ Skipped(q)
  BY <1>1, <1>3 DEF Reader
<1>5. n \in Nat
  BY <1>1 DEF ReadCount, Shape
<1>6. ReadCount(l)' = n
  BY <1>1, <1>3 DEF ReadCount
<1>7. i \in JobQueues(l) /\ Job(l).start_index \in Nat /\ i \in Nat /\ JobQueues(l) \subseteq Nat
  BY <1>1, <1>3, SetupType DEF Control, JobQueues, SkipQueue, SendPacket
<1>8. ASSUME NEW q \in JobQueues(l) \ {i} PROVE offered'[q] = offered[q]
  <2>1. offered' = offered \/ \E o : offered' = [offered EXCEPT ![i] = o]
    BY <1>1, Zenon DEF SkipQueue, SendPacket, tvars
  <2>2. q \in Queues /\ q # i /\ DOMAIN offered = Queues
    BY <1>8, QueuesAre DEF Shape
  <2> QED
    BY <2>1, <2>2
<1>9. offered'[i] = IF Skipped(i) THEN <<>> ELSE SubSeq(ps, 1, n)
  <2>0. Given(i, n - 1)
    <3>1. ~ (i < i)
      BY <1>7
    <3> QED
      BY <1>4, <1>7, <3>1
  <2>1. CASE SkipQueue(l)
    BY <1>1, <2>0, <2>1 DEF SkipQueue, Given, tvars
  <2>2. CASE SendPacket(l)
    <3>1. ~ Skipped(i) /\ i \in Queues /\ offered' = [offered EXCEPT ![i] = Append(@, packet[l])]
      BY <1>1, <1>7, <2>2, QueuesAre DEF SendPacket
    <3>2. offered[i] = SubSeq(ps, 1, n - 1)
      BY <1>1, <2>0, <3>1 DEF Given
    <3>3. offered'[i] = Append(SubSeq(ps, 1, n - 1), ps[n])
      BY <1>4, <3>1, <3>2 DEF Shape
    <3>4. n - 1 \in Nat /\ n - 1 < Len(ps) /\ (n - 1) + 1 = n
      BY <1>2, <1>4, <1>5
    <3>5. Append(SubSeq(ps, 1, n - 1), ps[(n - 1) + 1]) = SubSeq(ps, 1, (n - 1) + 1)
      BY <1>2, <3>4, CutNext
    <3> QED
      BY <3>1, <3>3, <3>4, <3>5
  <2> QED
    BY <2>1, <2>2
<1>10. ASSUME NEW q \in JobQueues(l)
       PROVE  /\ Given(q, IF q < index[l] THEN ReadCount(l) ELSE ReadCount(l) - 1)'
              /\ \E k \in 0 .. Len(ps) : Given(q, k)'
  <2>1. PICK k : k = IF q < i + 1 THEN n ELSE n - 1
    OBVIOUS
  <2>2. k \in 0 .. Len(ps)
    BY <1>2, <1>4, <1>5, <2>1
  <2>3. q \in Nat
    BY <1>7
  <2>4. offered'[q] = IF Skipped(q) THEN <<>> ELSE SubSeq(ps, 1, k)
    <3>1. CASE q = i
      <4>1. k = n
        BY <1>7, <2>1, <3>1
      <4> QED
        BY <1>9, <3>1, <4>1
    <3>2. CASE q # i
      <4>1. k = IF q < i THEN n ELSE n - 1
        BY <1>7, <2>1, <2>3, <3>2
      <4>2. Given(q, k)
        BY <1>4, <4>1
      <4> QED
        BY <1>1, <1>8, <3>2, <4>2 DEF Given
    <3> QED
      BY <3>1, <3>2
  <2>5. (IF q < index[l] THEN ReadCount(l) ELSE ReadCount(l) - 1)' = k
    BY <1>3, <1>6, <2>1
  <2>6. Given(q, k)'
    BY <1>0, <1>1, <2>4 DEF Given
  <2>7. Given(q, IF q < index[l] THEN ReadCount(l) ELSE ReadCount(l) - 1)'
    BY <2>5, <2>6 DEF Given
  <2> QED
    BY <2>2, <2>6, <2>7
<1>11. something_send'[l] <=> \E q \in Job(l).start_index .. index'[l] - 1 : ~ Skipped(q)
  <2>1. Job(l).start_index .. index'[l] - 1 = (Job(l).start_index .. i - 1) \cup {i}
    BY <1>3, <1>7 DEF JobQueues
  <2>2. CASE SkipQueue(l)
    BY <1>1, <1>4, <2>1, <2>2 DEF SkipQueue, tvars
  <2>3. CASE SendPacket(l)
    BY <1>1, <2>1, <2>3 DEF SendPacket, Shape
  <2> QED
    BY <2>2, <2>3
<1> QED
  BY <1>0, <1>1, <1>3, <1>4, <1>6, <1>10, <1>11 DEF Reader

LEMMA SentStep ==
    ASSUME Shape, Control, SoundInv, Replaying, NEW l \in Lcores, Reader(l), setup' = setup,
           PacketSent(l)
    PROVE  Reader(l)'
<1>0. /\ JobQueues(l)' = JobQueues(l) /\ Job(l)' = Job(l) /\ \A q : Skipped(q)' = Skipped(q)
      /\ PacketsOf(Capture)' = PacketsOf(Capture) /\ stop' = stop
  BY SetupStays, SenderKeeps DEF Sender
<1>1. PICK ps, n : ps = PacketsOf(Capture) /\ n = ReadCount(l)
  OBVIOUS
<1>2. /\ pc[l] = "send" /\ offered' = offered /\ offset' = offset
      /\ index[l] = Job(l).end_index
      /\ pc'[l] = IF something_send[l] THEN "read" ELSE "done"
  BY DEF PacketSent, Goto, Shape, tvars
<1>3. /\ offset[l] % 2 = 1 /\ n <= Len(ps)
      /\ \A q \in JobQueues(l) : Given(q, IF q < index[l] THEN n ELSE n - 1)
      /\ something_send[l] <=> \E q \in JobQueues(l) : ~ Skipped(q)
  BY <1>1, <1>2 DEF Reader, JobQueues
<1>4. ASSUME NEW q \in JobQueues(l) PROVE Given(q, n)
  <2>1. q < index[l]
    BY <1>2, SetupType DEF JobQueues
  <2> QED
    BY <1>3, <2>1
<1>5. ASSUME NEW q \in JobQueues(l) PROVE Given(q, n)'
  BY <1>0, <1>2, <1>4 DEF Given
<1>6. ReadCount(l)' = n
  BY <1>1, <1>2 DEF ReadCount
<1>7. \A q \in JobQueues(l) : \E k \in 0 .. Len(ps) : Given(q, k)'
  BY <1>0, <1>1, <1>2 DEF Reader, Given
<1>8. \A q \in JobQueues(l) : Given(q, ReadCount(l))'
  BY <1>5, <1>6 DEF Given
<1> QED
  BY <1>0, <1>1, <1>2, <1>3, <1>6, <1>7, <1>8 DEF Reader

LEMMA ReaderStep ==
    ASSUME Shape, Control, WriterInv, SoundInv, ReaderInv, [Next]_vars
    PROVE  ReaderInv'
<1>0. setup' = setup
  BY SetupFixed
<1>1. ASSUME NEW l \in Lcores, Receiver(l) PROVE ReaderInv'
  <2>1. running' = "receive"
    BY <1>1, WhoRuns DEF Receiver, FopenFails, prepare_pcap_file, LoopHead, CloseFails, Receive,
       save_packet, NextQueue, Goto, Same
  <2> QED
    BY <2>1 DEF ReaderInv, Replaying
<1>2. ASSUME NEW l \in Lcores, Sender(l) PROVE ReaderInv'
  <2> SUFFICES ASSUME Replaying' PROVE \A m \in Lcores : Reader(m)'
    BY DEF ReaderInv
  <2>1. Replaying /\ \A m \in Lcores : Reader(m)
    BY <1>0, <1>2, SenderKeeps DEF ReaderInv
  <2>2. Reader(l)'
    BY <1>0, <1>2, <2>1, OpenOrEndStep, ReadStep, SendStep, SentStep DEF Sender
  <2> QED
    BY <1>0, <1>2, <2>1, <2>2, ReaderOthers
<1>3. CASE StartTransmit
  <2> SUFFICES ASSUME Replaying', NEW l \in Lcores PROVE Reader(l)'
    BY DEF ReaderInv
  <2>1. /\ pc'[l] = "open_capture" /\ running = "receive" /\ pcap_file' \in Names
        /\ offered' = offered /\ file' = file /\ broken' = broken
    BY <1>3 DEF StartTransmit
  <2>2. JobQueues(l)' = JobQueues(l) /\ JobQueues(l) \subseteq Queues
    BY <1>0, SetupStays, QueuesAre
  <2>3. \A q \in JobQueues(l) : offered'[q] = <<>>
    BY <2>1, <2>2 DEF Control
  <2>4. Sound(Capture)'
    <3>1. SoundInv' /\ running' = "transmit"
      BY <1>3, SoundStep DEF StartTransmit
    <3>2. Names' = Names
      BY <1>0, SetupStays
    <3> QED
      BY <2>1, <3>1, <3>2 DEF SoundInv, Replaying, Capture
  <2>5. PICK ps : ps = PacketsOf(Capture)' /\ ps \in Seq(Packets)
    BY <2>4 DEF Sound
  <2>6. SubSeq(ps, 1, 0) = <<>> /\ 0 \in 0 .. Len(ps)
    BY <2>5
  <2>7. \A q \in JobQueues(l) : \E k \in 0 .. Len(ps) : Given(q, k)'
    BY <2>3, <2>5, <2>6 DEF Given
  <2> QED
    BY <2>1, <2>2, <2>3, <2>5, <2>7 DEF Reader
<1>4. CASE handle_sig \/ UNCHANGED vars
  <2>1. /\ running' = running /\ file' = file /\ pcap_file' = pcap_file /\ broken' = broken
        /\ pc' = pc /\ index' = index /\ offset' = offset /\ packet' = packet
        /\ something_send' = something_send /\ offered' = offered /\ stop => stop'
    BY <1>4 DEF handle_sig, vars, rvars, tvars
  <2>2. Capture' = Capture
    BY <2>1 DEF Capture
  <2>3. PacketsOf(Capture)' = PacketsOf(Capture)
    BY <2>2 DEF PacketsOf
  <2>4. Replaying' <=> Replaying
    BY <1>0, <2>1, <2>2, SetupStays DEF Replaying
  <2>5. stop => stop'
    BY <1>4 DEF handle_sig, vars
  <2>6. ASSUME NEW m \in Lcores, Reader(m) PROVE Reader(m)'
    BY <1>0, <1>4, <2>2, <2>3, <2>5, <2>6, ReaderStays DEF handle_sig, vars, rvars, tvars
  <2> QED
    BY <2>4, <2>6 DEF ReaderInv
<1> QED
  BY <1>1, <1>2, <1>3, <1>4 DEF Next, Worker

-------------------------------------------------------------------------------
LEMMA Start == Init => IInv
<1> SUFFICES ASSUME Init PROVE IInv
  OBVIOUS
<1>1. <<>> \in Seq(Packets) /\ <<>> \in Seq(Units) /\ <<>> \in Seq(Packets \cup {Garbage})
      /\ 0 \in 0 .. MaxPackets
  BY PcapAssumption
<1>2. Shape
  BY <1>1 DEF Init, Shape
<1>3. Control
  BY DEF Init, Control, Writing
<1>4. ASSUME NEW l \in Lcores PROVE Writer(l) /\ Written(l)
  <2>1. /\ bufs[l] = <<>> /\ received[l] = <<>> /\ current_packets[l] = 0 /\ pc[l] = "open"
        /\ file[FileName(l)] = <<>>
    BY NamesAre DEF Init
  <2>2. HandledCount(l) = 0
    BY <2>1 DEF HandledCount
  <2>3. SavedCount(l) = 0
    BY <1>2, <2>2, SetupType DEF SavedCount
  <2>4. Len(bufs[l]) = 0 /\ Len(received[l]) = 0 /\ MaxPackets \in Nat
    BY <2>1, PcapAssumption
  <2> QED
    BY <2>1, <2>3, <2>4 DEF Writer, Written
<1>5. SoundInv /\ ReaderInv
  BY DEF Init, SoundInv, ReaderInv, Replaying
<1> QED
  BY <1>2, <1>3, <1>4, <1>5 DEF IInv, WriterInv

(* The inductive invariant, for any jobs, thresholds, bursts and packets.  *)
THEOREM Invariance == Spec => []IInv
<1>1. IInv /\ [Next]_vars => IInv'
  <2> SUFFICES ASSUME IInv, [Next]_vars PROVE IInv'
    OBVIOUS
  <2>1. Shape'
    BY ShapeStep DEF IInv
  <2>2. Control'
    BY ControlStep DEF IInv
  <2>3. WriterInv'
    BY <2>1, WriterStep DEF IInv
  <2>4. SoundInv'
    BY SoundStep DEF IInv
  <2>5. ReaderInv'
    BY ReaderStep DEF IInv
  <2> QED
    BY <2>1, <2>2, <2>3, <2>4, <2>5 DEF IInv
<1> QED
  BY <1>1, Start, PTL DEF Spec

(* With a prefix that leaves the numbers in the names: a file on which no  *)
(* write failed holds what its worker received, in order, up to the        *)
(* threshold, and no other worker ever writes to it.                       *)
THEOREM Captured == Spec => []CaptureFaithful
<1>1. IInv => CaptureFaithful
  <2> SUFFICES ASSUME IInv PROVE CaptureFaithful
    OBVIOUS
  <2>1. TypeOK
    <3>1. \A n \in Names : file[n] \in Seq(Units)
      BY DEF IInv, Shape
    <3>2. \A l \in Lcores : /\ {bufs[l], received[l]} \subseteq Seq(Packets)
                            /\ current_packets[l] \in 0 .. MaxPackets
                            /\ offset[l] \in Nat
      BY DEF IInv, Shape
    <3>3. \A q \in Queues : offered[q] \in Seq(Packets \cup {Garbage})
      BY DEF IInv, Shape
    <3> QED
      BY <3>1, <3>2, <3>3 DEF TypeOK, IInv, Shape
  <2>2. ASSUME running = "receive", NumbersFit, NEW l \in Lcores,
               file[FileName(l)] # <<>>, FileName(l) \notin broken
        PROVE  file[FileName(l)] = <<Hdr>> \o Records(Saved(l))
    <3>1. Shape /\ Writer(l) /\ Written(l)
      BY <2>2 DEF IInv, WriterInv
    <3>2. file[FileName(l)] = CaptureOf(SubSeq(received[l], 1, SavedCount(l)))
      BY <2>2, <3>1 DEF Written
    <3> QED
      BY <3>1, <3>2, SavedIs DEF CaptureOf
  <2> QED
    BY <2>1, <2>2 DEF CaptureFaithful, FileFaithful
<1> QED
  BY <1>1, Invariance, PTL

(* Of a sound capture every queue is offered the packets in their order,   *)
(* and all of them when its worker came to the end unhindered.             *)
THEOREM Replayed == Spec => []ReplayFaithful
<1>1. IInv => ReplayFaithful
  <2> SUFFICES ASSUME IInv, Replaying
               PROVE  /\ \A q \in Queues : IsPrefix(offered[q], PacketsOf(Capture))
                      /\ stop \/ \A l \in Lcores : pc[l] = "done" =>
                             \A q \in Job(l).start_index .. Job(l).end_index - 1 :
                                 ~ Skipped(q) => offered[q] = PacketsOf(Capture)
    BY DEF ReplayFaithful
  <2>1. Shape /\ \A l \in Lcores : Reader(l)
    BY DEF IInv, ReaderInv
  <2>2. PICK ps : ps = PacketsOf(Capture) /\ ps \in Seq(Packets)
    BY DEF IInv, Replaying, SoundInv, Control, Capture, Sound
  <2>3. ASSUME NEW q \in Queues PROVE IsPrefix(offered[q], ps)
    <3>1. PICK l \in Lcores : q \in JobQueues(l)
      BY <2>1, QueuesAre
    <3>2. PICK k \in 0 .. Len(ps) : Given(q, k)
      BY <2>1, <2>2, <3>1 DEF Reader
    <3>3. offered[q] = SubSeq(ps, 1, k) \/ offered[q] = SubSeq(ps, 1, 0)
      <4>1. SubSeq(ps, 1, 0) = <<>>
        BY <2>2
      <4> QED
        BY <2>2, <3>2, <4>1 DEF Given
    <3>4. 0 \in 0 .. Len(ps)
      BY <2>2
    <3> QED
      BY <2>2, <3>3, <3>4, CutIsPrefix
  <2>4. ASSUME ~ stop, NEW l \in Lcores, pc[l] = "done", NEW q \in JobQueues(l), ~ Skipped(q)
        PROVE  offered[q] = ps
    BY <2>1, <2>2, <2>4 DEF Reader
  <2> QED
    BY <2>2, <2>3, <2>4 DEF JobQueues
<1> QED
  BY <1>1, Invariance, PTL
===============================================================================
