----------------------- MODULE DashPacketSource_proofs -----------------------
(***************************************************************************)
(* What holds of a DashPacketSource whatever is queued, however long, and       *)
(* however many threads read.  The first part says what the two loops of the     *)
(* source compute, by induction over the queue; the second that nobody is left   *)
(* waiting for what is there; the third that what readers learn is true.        *)
(***************************************************************************)
EXTENDS DashPacketSource, SequenceLemmas, FiniteSetTheorems

(* What the queue holds.                                                     *)
Units   == [unit : Times, no : Nat]
Markers == [kind : Kinds, no : Nat]
Buffers == Units \cup Markers

LEMMA WhichIsMarker ==
    /\ \A b \in Units : ~IsMarker(b) /\ b.unit \in Nat /\ b.no \in Nat
    /\ \A b \in Markers : IsMarker(b) /\ b.no \in Nat
<1>1. ASSUME NEW b \in Units PROVE ~IsMarker(b) /\ b.unit \in Nat /\ b.no \in Nat
  <2>1. DOMAIN b = {"unit", "no"}
    BY DEF Units
  <2> QED
    BY <2>1, PacketAssumption DEF IsMarker, Units
<1>2. ASSUME NEW b \in Markers PROVE IsMarker(b) /\ b.no \in Nat
  <2>1. DOMAIN b = {"kind", "no"}
    BY DEF Markers
  <2> QED
    BY <2>1 DEF IsMarker, Markers
<1> QED
  BY <1>1, <1>2

-----------------------------------------------------------------------------
(*                     The loop of queueDiscontinuity                       *)

Only(q) ==
    CHOOSE only : only = [n \in 0 .. Len(q) |->
        IF n = 0 THEN <<>>
        ELSE IF IsMarker(q[n]) THEN Append(only[n - 1], q[n]) ELSE only[n - 1]]

(* The loop is defined for every queue, and goes from one element to the next.    *)
LEMMA OnlyStep ==
    ASSUME NEW B, NEW q \in Seq(B)
    PROVE  /\ Only(q)[0] = <<>>
           /\ \A n \in 1 .. Len(q) :
                Only(q)[n] = IF IsMarker(q[n]) THEN Append(Only(q)[n - 1], q[n]) ELSE Only(q)[n - 1]
           /\ OnlyMarkers(q) = Only(q)[Len(q)]
<1> DEFINE step(n, s) == IF IsMarker(q[n]) THEN Append(s, q[n]) ELSE s
           body(f) == [n \in 0 .. Len(q) |->
               IF n = 0 THEN <<>>
               ELSE IF IsMarker(q[n]) THEN Append(f[n - 1], q[n]) ELSE f[n - 1]]
           G == [n \in 1 .. Len(q) |-> [s \in Seq(B) |-> step(n, s)]]
<1>1. Len(q) \in Nat
  BY LenProperties
<1>2. G \in [1 .. Len(q) -> [Seq(B) -> Seq(B)]]
  <2>1. ASSUME NEW n \in 1 .. Len(q), NEW s \in Seq(B) PROVE step(n, s) \in Seq(B)
    BY ElementOfSeq, AppendProperties
  <2> QED
    BY <2>1
<1>3. PICK g : /\ g \in [0 .. Len(q) -> Seq(B)] /\ g[0] = <<>>
               /\ \A n \in 1 .. Len(q) : g[n] = G[n][g[n - 1]]
  <2>1. Loop(Seq(B), Len(q), <<>>, G)
    BY <1>1, <1>2, EmptySeq DEF Loop
  <2>2. PICK g : Computes(Seq(B), Len(q), <<>>, G, g)
    BY <2>1, LoopComputes
  <2> QED
    BY <2>2 DEF Computes
<1>4. g = body(g)
  <2>1. ASSUME NEW n \in 0 .. Len(q) PROVE g[n] = body(g)[n]
    <3>1. CASE n = 0
      BY <1>3, <3>1
    <3>2. CASE n # 0
      <4>1. n \in 1 .. Len(q) /\ n - 1 \in 0 .. Len(q)
        BY <1>1, <3>2
      <4>2. g[n] = step(n, g[n - 1])
        BY <1>3, <4>1
      <4> QED
        BY <3>2, <4>2
    <3> QED
      BY <3>1, <3>2
  <2> QED
    BY <1>3, <2>1
<1>5. Only(q) = body(Only(q))
  <2> HIDE DEF body
  <2>1. \E f : f = body(f)
    BY <1>4
  <2>2. Only(q) = CHOOSE f : f = body(f)
    BY DEF Only, body
  <2> QED
    BY <2>1, <2>2
<1>6. OnlyMarkers(q) = Only(q)[Len(q)]
  BY DEF OnlyMarkers, Only
<1>7. Only(q)[0] = <<>>
  BY <1>1, <1>5
<1>8. ASSUME NEW n \in 1 .. Len(q)
      PROVE  Only(q)[n] = IF IsMarker(q[n]) THEN Append(Only(q)[n - 1], q[n]) ELSE Only(q)[n - 1]
  <2>1. n \in 0 .. Len(q) /\ n # 0
    BY <1>1
  <2> QED
    BY <1>5, <2>1
<1> QED
  BY <1>6, <1>7, <1>8

LEMMA OnlyEmpty == OnlyMarkers(<<>>) = <<>>
<1>1. <<>> \in Seq({}) /\ Len(<<>>) = 0
  BY EmptySeq
<1> QED
  BY <1>1, OnlyStep

(* One more element at the end of the queue is kept or not, and changes nothing    *)
(* of what is kept before it.                                                *)
LEMMA OnlyAppend ==
    ASSUME NEW B, NEW q \in Seq(B), NEW e \in B
    PROVE  OnlyMarkers(Append(q, e)) =
               IF IsMarker(e) THEN Append(OnlyMarkers(q), e) ELSE OnlyMarkers(q)
<1> DEFINE r == Append(q, e)
           P == {n \in 0 .. Len(q) : Only(r)[n] = Only(q)[n]}
<1>1. /\ r \in Seq(B) /\ Len(r) = Len(q) + 1 /\ Len(q) \in Nat
      /\ \A n \in 1 .. Len(q) : r[n] = q[n]
      /\ r[Len(q) + 1] = e
  BY AppendProperties, LenProperties
<1> HIDE DEF r
<1>2. 0 \in P
  BY <1>1, OnlyStep
<1>3. ASSUME NEW n \in 0 .. Len(q), n \in P, n < Len(q) PROVE n + 1 \in P
  <2>1. n + 1 \in 1 .. Len(q) /\ n + 1 \in 1 .. Len(r) /\ (n + 1) - 1 = n
    BY <1>1, <1>3
  <2>2. r[n + 1] = q[n + 1]
    BY <1>1, <2>1
  <2>3. /\ Only(q)[n + 1] = IF IsMarker(q[n + 1]) THEN Append(Only(q)[n], q[n + 1]) ELSE Only(q)[n]
        /\ Only(r)[n + 1] = IF IsMarker(r[n + 1]) THEN Append(Only(r)[n], r[n + 1]) ELSE Only(r)[n]
    BY <1>1, <2>1, OnlyStep
  <2>4. Only(r)[n] = Only(q)[n]
    BY <1>3
  <2> QED
    BY <2>1, <2>2, <2>3, <2>4
<1>4. Only(r)[Len(q)] = Only(q)[Len(q)]
  <2> HIDE DEF P
  <2>1. \A n \in 0 .. Len(q) : n \in P
    BY <1>1, <1>2, <1>3, NumberInduction
  <2> QED
    BY <1>1, <2>1 DEF P
<1>5. Len(q) + 1 \in 1 .. Len(r) /\ (Len(q) + 1) - 1 = Len(q)
  BY <1>1
<1>6. Only(r)[Len(q) + 1] = IF IsMarker(e) THEN Append(Only(r)[Len(q)], e) ELSE Only(r)[Len(q)]
  BY <1>1, <1>5, OnlyStep
<1>7. OnlyMarkers(r) = Only(r)[Len(q) + 1] /\ OnlyMarkers(q) = Only(q)[Len(q)]
  BY <1>1, OnlyStep
<1> QED
  BY <1>4, <1>6, <1>7 DEF r

(* What is kept is of the queue, is no longer than it, and would be kept again.     *)
LEMMA OnlyKeeps ==
    ASSUME NEW B
    PROVE  \A q \in Seq(B) : /\ OnlyMarkers(q) \in Seq(B)
                             /\ Len(OnlyMarkers(q)) <= Len(q)
                             /\ OnlyMarkers(OnlyMarkers(q)) = OnlyMarkers(q)
<1> DEFINE good(q) == /\ OnlyMarkers(q) \in Seq(B)
                      /\ Len(OnlyMarkers(q)) <= Len(q)
                      /\ OnlyMarkers(OnlyMarkers(q)) = OnlyMarkers(q)
           P == {q \in Seq(B) : good(q)}
<1>1. <<>> \in P
  <2>1. <<>> \in Seq(B) /\ Len(<<>>) = 0 /\ 0 <= 0
    BY EmptySeq
  <2>2. good(<<>>)
    BY <2>1, OnlyEmpty, Zenon
  <2> QED
    BY <2>1, <2>2
<1>2. ASSUME NEW q \in Seq(B), NEW e \in B, q \in P PROVE Append(q, e) \in P
  <2> DEFINE r == OnlyMarkers(q)
             s == OnlyMarkers(Append(q, e))
  <2>1. r \in Seq(B) /\ Len(r) <= Len(q) /\ OnlyMarkers(r) = r
    BY <1>2
  <2>2. s = IF IsMarker(e) THEN Append(r, e) ELSE r
    BY OnlyAppend
  <2>3. IsMarker(e) => OnlyMarkers(Append(r, e)) = Append(r, e)
    BY <2>1, OnlyAppend
  <2> HIDE DEF r
  <2>4. /\ Append(q, e) \in Seq(B) /\ Len(Append(q, e)) = Len(q) + 1
        /\ Append(r, e) \in Seq(B) /\ Len(Append(r, e)) = Len(r) + 1
        /\ Len(q) \in Nat /\ Len(r) \in Nat
    BY <2>1, AppendProperties, LenProperties
  <2> HIDE DEF s
  <2>5. s \in Seq(B) /\ OnlyMarkers(s) = s
    BY <2>1, <2>2, <2>3, <2>4
  <2>6. Len(s) <= Len(Append(q, e))
    <3>1. Len(s) <= Len(r) + 1
      BY <2>1, <2>2, <2>4
    <3>2. Len(s) \in Nat
      BY <2>5, LenProperties
    <3> QED
      BY <2>1, <2>4, <3>1, <3>2
  <2> QED
    BY <2>4, <2>5, <2>6 DEF s
<1>3. \A q \in Seq(B) : q \in P
  <2> HIDE DEF P
  <2> QED
    BY <1>1, <1>2, SequenceInduction
<1> QED
  BY <1>3

(* What is kept of two queues in a row.                                       *)
LEMMA OnlyConcat ==
    ASSUME NEW B, NEW p \in Seq(B)
    PROVE  \A q \in Seq(B) : OnlyMarkers(p \o q) = OnlyMarkers(p) \o OnlyMarkers(q)
<1> DEFINE P == {q \in Seq(B) : OnlyMarkers(p \o q) = OnlyMarkers(p) \o OnlyMarkers(q)}
<1>0. OnlyMarkers(p) \in Seq(B)
  BY OnlyKeeps
<1>1. <<>> \in P
  <2>1. <<>> \in Seq(B) /\ p \o <<>> = p /\ OnlyMarkers(p) \o <<>> = OnlyMarkers(p)
    BY <1>0, EmptySeq, ConcatEmptySeq
  <2> QED
    BY <2>1, OnlyEmpty
<1>2. ASSUME NEW q \in Seq(B), NEW e \in B, q \in P PROVE Append(q, e) \in P
  <2>1. OnlyMarkers(p \o q) = OnlyMarkers(p) \o OnlyMarkers(q)
    BY <1>2
  <2>2. p \o Append(q, e) = Append(p \o q, e) /\ p \o q \in Seq(B) /\ Append(q, e) \in Seq(B)
    OBVIOUS
  <2>3. OnlyMarkers(Append(p \o q, e)) =
            IF IsMarker(e) THEN Append(OnlyMarkers(p \o q), e) ELSE OnlyMarkers(p \o q)
    BY <2>2, OnlyAppend
  <2>4. OnlyMarkers(Append(q, e)) = IF IsMarker(e) THEN Append(OnlyMarkers(q), e) ELSE OnlyMarkers(q)
    BY OnlyAppend
  <2>5. OnlyMarkers(q) \in Seq(B)
    BY OnlyKeeps
  <2>6. Append(OnlyMarkers(p) \o OnlyMarkers(q), e) = OnlyMarkers(p) \o Append(OnlyMarkers(q), e)
    <3> DEFINE u == OnlyMarkers(p)
               v == OnlyMarkers(q)
    <3>1. u \in Seq(B) /\ v \in Seq(B)
      BY <1>0, <2>5
    <3> HIDE DEF u, v
    <3>2. u \o v \in Seq(B) /\ <<e>> \in Seq(B)
      BY <3>1
    <3>3. Append(u \o v, e) = (u \o v) \o <<e>> /\ Append(v, e) = v \o <<e>>
      BY <3>1, <3>2, AppendIsConcat
    <3>4. (u \o v) \o <<e>> = u \o (v \o <<e>>)
      BY <3>1, <3>2, ConcatAssociative
    <3>5. Append(u \o v, e) = u \o Append(v, e)
      BY <3>3, <3>4
    <3> QED
      BY <3>5 DEF u, v
  <2> QED
    BY <2>1, <2>2, <2>3, <2>4, <2>6
<1>3. \A q \in Seq(B) : q \in P
  <2> HIDE DEF P
  <2> QED
    BY <1>1, <1>2, SequenceInduction
<1> QED
  BY <1>3

-----------------------------------------------------------------------------
(*                        Nobody is left waiting                            *)

Woken == {r \in Readers : reader[r] = "woken"}

(* What was queued before the producer's n-th call.                           *)
Old(n) == {b \in Buffers : b.no < n}

PacketTypeOK ==
    /\ calls \in Nat
    /\ mBuffers \in Seq(Old(calls)) /\ got \in Seq(Old(calls))
    /\ mEOSResult \in {"OK", "EOS"}
    /\ mFormat \in 0 .. calls
    /\ reader \in [Readers -> {"idle", "waiting", "woken"}]

(* Whoever still waits is outnumbered: for each buffer that is there a reader has     *)
(* been woken, and after the end of the stream one at least does not wait.         *)
EnoughTold ==
    /\ Waiting # {} => Len(mBuffers) <= Cardinality(Woken)
    /\ mEOSResult # "OK" => Waiting # Readers

LEMMA WokenCount ==
    ASSUME NEW W \in SUBSET Readers
    PROVE  /\ Cardinality(W) \in Nat
           /\ \A r \in Readers : r \notin W => Cardinality(W \cup {r}) = Cardinality(W) + 1
           /\ \A r \in W : Cardinality(W \ {r}) = Cardinality(W) - 1
           /\ 0 < Cardinality(W) => W # {}
<1>1. IsFiniteSet(W)
  BY FS_Subset, PacketAssumption
<1>2. Cardinality(W) \in Nat
  BY <1>1, FS_CardinalityType
<1>3. ASSUME NEW r \in Readers, r \notin W PROVE Cardinality(W \cup {r}) = Cardinality(W) + 1
  BY <1>1, <1>3, FS_AddElement
<1>4. ASSUME NEW r \in W PROVE Cardinality(W \ {r}) = Cardinality(W) - 1
  BY <1>1, <1>4, FS_RemoveElement
<1>5. W = {} => Cardinality(W) = 0
  BY FS_EmptySet
<1> QED
  BY <1>2, <1>3, <1>4, <1>5

(* Condition::signal wakes one of those that wait.                             *)
LEMMA SignalWakes ==
    ASSUME PacketTypeOK, Signal
    PROVE  /\ reader' \in [Readers -> {"idle", "waiting", "woken"}]
           /\ Waiting = {} => Waiting' = {}
           /\ Waiting # {} => Cardinality(Woken') = Cardinality(Woken) + 1
           /\ Waiting' # Readers
<1>1. CASE Waiting = {}
  <2>1. reader' = reader
    BY <1>1 DEF Signal
  <2>2. Waiting' = {}
    BY <1>1, <2>1 DEF Waiting
  <2> QED
    BY <1>1, <2>1, <2>2, PacketAssumption DEF PacketTypeOK
<1>2. CASE Waiting # {}
  <2>1. PICK r \in Waiting : reader' = [reader EXCEPT ![r] = "woken"]
    BY <1>2 DEF Signal
  <2>2. r \in Readers /\ reader[r] = "waiting"
    BY DEF Waiting
  <2>3. reader' \in [Readers -> {"idle", "waiting", "woken"}]
    BY <2>1 DEF PacketTypeOK
  <2>4. Woken' = Woken \cup {r} /\ r \notin Woken /\ Woken \in SUBSET Readers
    BY <2>1, <2>2 DEF Woken, PacketTypeOK
  <2>5. r \notin Waiting'
    BY <2>1, <2>2 DEF Waiting, PacketTypeOK
  <2>6. Cardinality(Woken') = Cardinality(Woken) + 1
    BY <2>2, <2>4, WokenCount
  <2> QED
    BY <1>2, <2>2, <2>3, <2>5, <2>6
<1> QED
  BY <1>1, <1>2

(* What was queued before a call was queued before the next one.                 *)
LEMMA OldStays ==
    ASSUME NEW n \in Nat
    PROVE  /\ \A q \in Seq(Old(n)) : q \in Seq(Old(n + 1))
           /\ Old(n) \subseteq Buffers /\ Old(n) \subseteq Old(n + 1)
           /\ \A t \in Times : [unit |-> t, no |-> n] \in Old(n + 1)
           /\ \A k \in Kinds : [kind |-> k, no |-> n] \in Old(n + 1)
<1>1. Old(n) \subseteq Buffers /\ Old(n) \subseteq Old(n + 1)
  <2>1. ASSUME NEW b \in Buffers, b.no < n PROVE b.no < n + 1
    BY <2>1, WhichIsMarker DEF Buffers
  <2> QED
    BY <2>1 DEF Old
<1>2. \A q \in Seq(Old(n)) : q \in Seq(Old(n + 1))
  BY <1>1, SeqMonotonic
<1>3. ASSUME NEW t \in Times PROVE [unit |-> t, no |-> n] \in Old(n + 1)
  BY DEF Old, Buffers, Units
<1>4. ASSUME NEW k \in Kinds PROVE [kind |-> k, no |-> n] \in Old(n + 1)
  BY DEF Old, Buffers, Markers
<1> QED
  BY <1>1, <1>2, <1>3, <1>4

LEMMA PacketInitOK == PacketInit => PacketTypeOK /\ EnoughTold
<1> SUFFICES ASSUME PacketInit PROVE PacketTypeOK /\ EnoughTold
  OBVIOUS
<1>1. Waiting = {} /\ Waiting # Readers
  BY PacketAssumption DEF PacketInit, Waiting
<1>2. <<>> \in Seq(Old(1))
  BY EmptySeq
<1> QED
  BY <1>1, <1>2 DEF PacketInit, PacketTypeOK, EnoughTold

(* The producer's calls: each that leaves something to take wakes a reader.       *)
LEMMA ProducesOK ==
    ASSUME PacketTypeOK, EnoughTold, Produces
    PROVE  PacketTypeOK' /\ EnoughTold'
<1>0. /\ calls \in Nat /\ calls' = calls + 1
      /\ mBuffers \in Seq(Old(calls)) /\ mBuffers \in Seq(Old(calls'))
      /\ got' = got /\ got \in Seq(Old(calls'))
      /\ Len(mBuffers) \in Nat
  <2>1. calls' = calls + 1 /\ got' = got
    BY DEF Produces, QueueAccessUnit, QueueDiscontinuity, QueueSeek, SignalEOS, SetFormat, Calls
  <2> QED
    BY <2>1, OldStays, LenProperties DEF PacketTypeOK
<1>1. ASSUME Signal, mBuffers' \in Seq(Old(calls')), Len(mBuffers') <= Len(mBuffers) + 1,
             mEOSResult' \in {"OK", "EOS"}, mFormat' = mFormat
      PROVE  PacketTypeOK' /\ EnoughTold'
  <2>1. PacketTypeOK'
    BY <1>0, <1>1, SignalWakes DEF PacketTypeOK
  <2>2. Waiting' # {} => Len(mBuffers') <= Cardinality(Woken')
    <3> SUFFICES ASSUME Waiting' # {} PROVE Len(mBuffers') <= Cardinality(Woken')
      OBVIOUS
    <3>1. Waiting # {} /\ Cardinality(Woken') = Cardinality(Woken) + 1
      BY <1>1, SignalWakes
    <3>2. Len(mBuffers) <= Cardinality(Woken)
      BY <3>1 DEF EnoughTold
    <3>3. Cardinality(Woken) \in Nat /\ Len(mBuffers') \in Nat
      BY <1>1, WokenCount, LenProperties DEF Woken
    <3> QED
      BY <1>0, <1>1, <3>1, <3>2, <3>3
  <2>3. Waiting' # Readers
    BY <1>1, SignalWakes
  <2> QED
    BY <2>1, <2>2, <2>3 DEF EnoughTold
<1>2. ASSUME UNCHANGED <<mBuffers, reader, mEOSResult>>, mFormat' \in {mFormat, calls}
      PROVE  PacketTypeOK' /\ EnoughTold'
  BY <1>0, <1>2 DEF PacketTypeOK, EnoughTold, Waiting, Woken
<1>3. CASE QueueAccessUnit
  <2>1. CASE UNCHANGED <<mBuffers, reader>>
    BY <1>2, <1>3, <2>1 DEF QueueAccessUnit
  <2>2. CASE Signal /\ \E t \in Times : mBuffers' = Append(mBuffers, [unit |-> t, no |-> calls])
    <3>1. PICK t \in Times : mBuffers' = Append(mBuffers, [unit |-> t, no |-> calls])
      BY <2>2
    <3>2. [unit |-> t, no |-> calls] \in Old(calls')
      BY <1>0, OldStays
    <3>3. mBuffers' \in Seq(Old(calls')) /\ Len(mBuffers') = Len(mBuffers) + 1
      BY <1>0, <3>1, <3>2, AppendProperties
    <3> QED
      BY <1>0, <1>1, <1>3, <2>2, <3>3 DEF QueueAccessUnit, PacketTypeOK
  <2> QED
    BY <1>3, <2>1, <2>2 DEF QueueAccessUnit
<1>4. CASE QueueDiscontinuity
  <2>1. PICK k \in Kinds : mBuffers' = Append(OnlyMarkers(mBuffers), [kind |-> k, no |-> calls])
    BY <1>4 DEF QueueDiscontinuity
  <2>2. [kind |-> k, no |-> calls] \in Old(calls')
    BY <1>0, OldStays
  <2>3. /\ OnlyMarkers(mBuffers) \in Seq(Old(calls')) /\ Len(OnlyMarkers(mBuffers)) <= Len(mBuffers)
        /\ Len(OnlyMarkers(mBuffers)) \in Nat
    BY <1>0, OnlyKeeps, LenProperties
  <2>4. mBuffers' \in Seq(Old(calls')) /\ Len(mBuffers') = Len(OnlyMarkers(mBuffers)) + 1
    BY <2>1, <2>2, <2>3, AppendProperties
  <2> QED
    BY <1>0, <1>1, <1>4, <2>3, <2>4 DEF QueueDiscontinuity, PacketTypeOK
<1>5. CASE QueueSeek
  <2>1. mBuffers' \in Seq(Old(calls')) /\ Len(mBuffers') = 0
    BY <1>5, EmptySeq DEF QueueSeek
  <2> QED
    BY <1>0, <1>1, <1>5, <2>1 DEF QueueSeek
<1>6. CASE SignalEOS
  BY <1>0, <1>1, <1>6 DEF SignalEOS
<1>7. CASE SetFormat
  BY <1>2, <1>7 DEF SetFormat
<1> QED
  BY <1>3, <1>4, <1>5, <1>6, <1>7 DEF Produces

(* A reader that waits found nothing; one that takes something makes room for      *)
(* itself in the count.                                                      *)
LEMMA ReadsOK ==
    ASSUME PacketTypeOK, EnoughTold, NEW r \in Readers, ReadWaits(r) \/ ReadReturns(r)
    PROVE  PacketTypeOK' /\ EnoughTold'
<1>0. calls' = calls /\ mEOSResult' = mEOSResult
  BY DEF ReadWaits, ReadReturns
<1>1. CASE ReadWaits(r)
  <2>1. mBuffers' = <<>> /\ mEOSResult = "OK" /\ got' = got /\ mFormat' = mFormat
        /\ mBuffers' = mBuffers /\ reader' = [reader EXCEPT ![r] = "waiting"]
    BY <1>1 DEF ReadWaits
  <2>2. PacketTypeOK'
    BY <1>0, <2>1 DEF PacketTypeOK
  <2>3. Len(mBuffers') = 0 /\ Cardinality(Woken') \in Nat
    <3>1. Woken' \in SUBSET Readers
      BY DEF Woken
    <3>2. Cardinality(Woken') \in Nat
      BY <3>1, WokenCount
    <3> QED
      BY <2>1, <3>2, EmptySeq
  <2> QED
    BY <1>0, <2>1, <2>2, <2>3 DEF EnoughTold
<1>2. CASE ReadReturns(r)
  <2>1. /\ reader[r] \in {"idle", "woken"} /\ reader' = [reader EXCEPT ![r] = "idle"]
        /\ reader \in [Readers -> {"idle", "waiting", "woken"}]
    BY <1>2 DEF ReadReturns, Reads, PacketTypeOK
  <2>2. Waiting' = Waiting /\ Woken' = Woken \ {r} /\ Woken \in SUBSET Readers
    BY <2>1 DEF Waiting, Woken
  <2>3. Cardinality(Woken) \in Nat /\ Cardinality(Woken') \in Nat /\ Cardinality(Woken') >= Cardinality(Woken) - 1
    <3>1. CASE r \in Woken
      <4>1. Cardinality(Woken \ {r}) = Cardinality(Woken) - 1 /\ Cardinality(Woken \ {r}) \in Nat
            /\ Cardinality(Woken) \in Nat
        <5>1. Woken \ {r} \in SUBSET Readers
          BY <2>2
        <5> QED
          BY <2>2, <3>1, <5>1, WokenCount
      <4> QED
        BY <2>2, <4>1
    <3>2. CASE r \notin Woken
      <4>1. Woken' = Woken /\ Cardinality(Woken) \in Nat
        BY <2>2, <3>2, WokenCount
      <4> QED
        BY <4>1
    <3> QED
      BY <3>1, <3>2
  <2>4. CASE mBuffers # <<>>
    <3>1. /\ mBuffers' = Tail(mBuffers) /\ mFormat' = FormatAfter(Head(mBuffers))
          /\ got' = Append(got, Head(mBuffers))
      BY <1>2, <2>4 DEF ReadReturns
    <3>2. /\ mBuffers \in Seq(Old(calls)) /\ got \in Seq(Old(calls))
          /\ mFormat \in 0 .. calls /\ calls \in Nat
      BY DEF PacketTypeOK
    <3>3. /\ Head(mBuffers) \in Old(calls) /\ mBuffers' \in Seq(Old(calls))
          /\ Len(mBuffers') = Len(mBuffers) - 1 /\ Len(mBuffers) \in Nat
      BY <2>4, <3>1, <3>2, HeadTailProperties, LenProperties
    <3>4. got' \in Seq(Old(calls))
      BY <3>1, <3>2, <3>3, AppendProperties
    <3>5. mFormat' \in 0 .. calls
      BY <3>1, <3>2 DEF FormatAfter
    <3>6. PacketTypeOK'
      BY <1>0, <2>1, <3>2, <3>3, <3>4, <3>5 DEF PacketTypeOK
    <3> QED
      BY <1>0, <2>2, <2>3, <3>3, <3>6 DEF EnoughTold
  <2>5. CASE mBuffers = <<>>
    <3>1. UNCHANGED <<mBuffers, mFormat, got>>
      BY <1>2, <2>5 DEF ReadReturns
    <3>2. PacketTypeOK'
      BY <1>0, <2>1, <3>1 DEF PacketTypeOK
    <3>3. Len(mBuffers') = 0
      BY <2>5, <3>1, EmptySeq
    <3> QED
      BY <1>0, <2>2, <2>3, <3>2, <3>3 DEF EnoughTold
  <2> QED
    BY <2>4, <2>5
<1> QED
  BY <1>1, <1>2

LEMMA PacketNextOK == PacketTypeOK /\ EnoughTold /\ [PacketNext]_packetVars => PacketTypeOK' /\ EnoughTold'
<1>1. ASSUME PacketTypeOK, EnoughTold, UNCHANGED packetVars PROVE PacketTypeOK' /\ EnoughTold'
  BY <1>1 DEF packetVars, PacketTypeOK, EnoughTold, Waiting, Woken
<1> QED
  BY <1>1, ProducesOK, ReadsOK DEF PacketNext

LEMMA ToldIsEnough == PacketTypeOK /\ EnoughTold => SomebodyIsTold
<1> SUFFICES ASSUME PacketTypeOK, EnoughTold, mBuffers # <<>>, Waiting # {}
             PROVE  \E r \in Readers : reader[r] = "woken"
  BY DEF SomebodyIsTold, EnoughTold
<1>1. Len(mBuffers) \in Nat \ {0}
  BY EmptySeq DEF PacketTypeOK
<1>2. Woken \in SUBSET Readers
  BY DEF Woken
<1>3. Cardinality(Woken) \in Nat /\ Len(mBuffers) <= Cardinality(Woken)
  BY <1>2, WokenCount DEF EnoughTold
<1>4. Woken # {}
  BY <1>1, <1>2, <1>3, WokenCount
<1> QED
  BY <1>4 DEF Woken

(* dequeueAccessUnit never leaves its caller waiting while a buffer or the end of    *)
(* the stream is there for nobody: however many readers there are, and though a      *)
(* discontinuity wakes one reader for all the buffers it throws away.              *)
THEOREM ReadersAreTold == PacketSpec => []SomebodyIsTold
<1>1. PacketSpec => [](PacketTypeOK /\ EnoughTold)
  BY PacketInitOK, PacketNextOK, PTL DEF PacketSpec
<1> QED
  BY <1>1, ToldIsEnough, PTL

-----------------------------------------------------------------------------
(*                     What readers learn is true                           *)

LEMMA NumbersAppend ==
    ASSUME NEW B, NEW q \in Seq(B), NEW e \in B, \A b \in B : b.no \in Nat
    PROVE  Numbers(Append(q, e)) = Append(Numbers(q), e.no)
<1>1. /\ Append(q, e) \in Seq(B) /\ Len(Append(q, e)) = Len(q) + 1 /\ Len(q) \in Nat
      /\ \A i \in 1 .. Len(q) : Append(q, e)[i] = q[i]
      /\ Append(q, e)[Len(q) + 1] = e
      /\ DOMAIN q = 1 .. Len(q) /\ DOMAIN Append(q, e) = 1 .. Len(q) + 1
  BY AppendProperties, LenProperties
<1> DEFINE s == Numbers(q)
           t == Numbers(Append(q, e))
<1>2. s = [i \in 1 .. Len(q) |-> q[i].no] /\ t = [i \in 1 .. Len(q) + 1 |-> Append(q, e)[i].no]
  BY <1>1 DEF Numbers
<1>3. s \in Seq(Nat) /\ Len(s) = Len(q) /\ t \in Seq(Nat) /\ Len(t) = Len(q) + 1
  <2>1. \A i \in 1 .. Len(q) : q[i].no \in Nat
    BY ElementOfSeq
  <2>2. \A i \in 1 .. Len(q) + 1 : Append(q, e)[i].no \in Nat
    BY <1>1, ElementOfSeq
  <2> HIDE DEF s, t
  <2> QED
    BY <1>1, <1>2, <2>1, <2>2
<1> HIDE DEF s, t
<1>4. /\ Append(s, e.no) \in Seq(Nat) /\ Len(Append(s, e.no)) = Len(q) + 1
      /\ \A i \in 1 .. Len(q) : Append(s, e.no)[i] = s[i]
      /\ Append(s, e.no)[Len(q) + 1] = e.no
  BY <1>3, AppendProperties
<1>5. ASSUME NEW i \in 1 .. Len(q) + 1 PROVE t[i] = Append(s, e.no)[i]
  <2>1. CASE i = Len(q) + 1
    BY <1>1, <1>2, <1>4, <2>1
  <2>2. CASE i # Len(q) + 1
    <3>1. i \in 1 .. Len(q)
      BY <1>1, <2>2
    <3> QED
      BY <1>1, <1>2, <1>4, <3>1
  <2> QED
    BY <2>1, <2>2
<1>6. t = Append(s, e.no)
  BY <1>3, <1>4, <1>5, SeqEqual
<1> QED
  BY <1>6 DEF s, t

(* A queue of a marker less, or one that is cleared of all but its markers, still       *)
(* holds what the readers are to see of the discontinuities.                       *)
LEMMA MarkersNext ==
    ASSUME PacketTypeOK, MarkersArriveInOrder, [PacketNext]_packetVars
    PROVE  MarkersArriveInOrder'
<1> DEFINE B == Old(calls + 1)
<1>0. /\ calls \in Nat /\ mBuffers \in Seq(B) /\ got \in Seq(B) /\ \A b \in B : b.no \in Nat
      /\ marks = Numbers(OnlyMarkers(got \o mBuffers))
      /\ OnlyMarkers(got \o mBuffers) = OnlyMarkers(got) \o OnlyMarkers(mBuffers)
      /\ OnlyMarkers(got) \in Seq(B) /\ OnlyMarkers(mBuffers) \in Seq(B)
  <2>1. calls \in Nat /\ mBuffers \in Seq(B) /\ got \in Seq(B)
    BY OldStays DEF PacketTypeOK
  <2>2. \A b \in B : b.no \in Nat
    BY WhichIsMarker DEF Old, Buffers
  <2> HIDE DEF B
  <2> QED
    BY <2>1, <2>2, OnlyConcat, OnlyKeeps DEF MarkersArriveInOrder
<1>1. ASSUME UNCHANGED <<mBuffers, got, marks>> PROVE MarkersArriveInOrder'
  BY <1>1 DEF MarkersArriveInOrder
<1>2. CASE QueueAccessUnit
  <2>1. CASE UNCHANGED mBuffers
    BY <1>1, <1>2, <2>1 DEF QueueAccessUnit
  <2>2. CASE \E t \in Times : mBuffers' = Append(mBuffers, [unit |-> t, no |-> calls])
    <3>1. PICK t \in Times : mBuffers' = Append(mBuffers, [unit |-> t, no |-> calls])
      BY <2>2
    <3> DEFINE u == [unit |-> t, no |-> calls]
    <3>2. u \in B /\ ~IsMarker(u)
      <4>1. u \in B /\ u \in Units
        BY <1>0, OldStays DEF Units
      <4> QED
        BY <4>1, WhichIsMarker
    <3> HIDE DEF u, B
    <3>3. mBuffers' \in Seq(B) /\ OnlyMarkers(mBuffers') = OnlyMarkers(mBuffers)
      BY <1>0, <3>1, <3>2, OnlyAppend, AppendProperties DEF u
    <3>4. got' = got /\ marks' = marks
      BY <1>2 DEF QueueAccessUnit
    <3>5. OnlyMarkers(got' \o mBuffers') = OnlyMarkers(got) \o OnlyMarkers(mBuffers)
      BY <1>0, <3>3, <3>4, OnlyConcat
    <3> QED
      BY <1>0, <3>4, <3>5 DEF MarkersArriveInOrder
  <2> QED
    BY <1>2, <2>1, <2>2 DEF QueueAccessUnit
<1>3. CASE QueueDiscontinuity
  <2>1. PICK k \in Kinds : mBuffers' = Append(OnlyMarkers(mBuffers), [kind |-> k, no |-> calls])
    BY <1>3 DEF QueueDiscontinuity
  <2> DEFINE m == [kind |-> k, no |-> calls]
             kept == OnlyMarkers(mBuffers)
  <2>2. m \in B /\ IsMarker(m) /\ m.no = calls
    <3>1. m \in B /\ m \in Markers
      BY <1>0, OldStays DEF Markers
    <3> QED
      BY <3>1, WhichIsMarker
  <2>3. mBuffers' = Append(kept, m) /\ got' = got /\ marks' = Append(marks, calls)
    BY <1>3, <2>1 DEF QueueDiscontinuity
  <2>4. kept \in Seq(B) /\ OnlyMarkers(kept) = kept
    BY <1>0, OnlyKeeps
  <2>5. OnlyMarkers(got) \in Seq(B) /\ OnlyMarkers(got \o mBuffers) = OnlyMarkers(got) \o kept
    BY <1>0
  <2> HIDE DEF m, B, kept
  <2>6. mBuffers' \in Seq(B) /\ OnlyMarkers(mBuffers') = Append(kept, m)
    BY <2>2, <2>3, <2>4, OnlyAppend, AppendProperties
  <2>7. OnlyMarkers(got' \o mBuffers') = OnlyMarkers(got) \o Append(kept, m)
    BY ZenonT(60), <1>0, <2>3, <2>6, OnlyConcat
  <2>8. OnlyMarkers(got) \o Append(kept, m) = Append(OnlyMarkers(got) \o kept, m)
    <3> DEFINE u == OnlyMarkers(got)
    <3>1. u \in Seq(B)
      BY <2>5
    <3> HIDE DEF u
    <3>2. u \o kept \in Seq(B) /\ <<m>> \in Seq(B)
      BY <2>2, <2>4, <3>1
    <3>3. Append(u \o kept, m) = (u \o kept) \o <<m>> /\ Append(kept, m) = kept \o <<m>>
      BY <2>2, <2>4, <3>2, AppendIsConcat
    <3>4. (u \o kept) \o <<m>> = u \o (kept \o <<m>>)
      BY <2>4, <3>1, <3>2, ConcatAssociative
    <3> QED
      BY <3>3, <3>4 DEF u
  <2>9. OnlyMarkers(got) \o kept \in Seq(B)
    BY <2>4, <2>5, ConcatProperties
  <2>10. Numbers(Append(OnlyMarkers(got) \o kept, m)) = Append(Numbers(OnlyMarkers(got) \o kept), m.no)
    BY <1>0, <2>2, <2>9, NumbersAppend
  <2> QED
    BY <1>0, <2>2, <2>3, <2>5, <2>7, <2>8, <2>10 DEF MarkersArriveInOrder
<1>4. CASE QueueSeek
  <2>1. got' = got /\ mBuffers' = <<>> /\ marks' = Numbers(OnlyMarkers(got))
    BY <1>4 DEF QueueSeek
  <2>2. got' \o mBuffers' = got
    BY <1>0, <2>1, ConcatEmptySeq
  <2> QED
    BY <2>1, <2>2 DEF MarkersArriveInOrder
<1>5. CASE SignalEOS \/ SetFormat
  BY <1>1, <1>5 DEF SignalEOS, SetFormat
<1>6. ASSUME NEW r \in Readers, ReadWaits(r) PROVE MarkersArriveInOrder'
  BY <1>1, <1>6 DEF ReadWaits
<1>7. ASSUME NEW r \in Readers, ReadReturns(r) PROVE MarkersArriveInOrder'
  <2>1. CASE mBuffers = <<>>
    BY <1>1, <1>7, <2>1 DEF ReadReturns
  <2>2. CASE mBuffers # <<>>
    <3>1. /\ mBuffers' = Tail(mBuffers) /\ got' = Append(got, Head(mBuffers)) /\ marks' = marks
      BY <1>7, <2>2 DEF ReadReturns
    <3> HIDE DEF B
    <3>2. got' \o mBuffers' = got \o mBuffers
      BY <1>0, <2>2, <3>1
    <3> QED
      BY <3>1, <3>2 DEF MarkersArriveInOrder
  <2> QED
    BY <2>1, <2>2
<1>8. CASE UNCHANGED packetVars
  BY <1>1, <1>8 DEF packetVars
<1> QED
  BY <1>2, <1>3, <1>4, <1>5, <1>6, <1>7, <1>8 DEF PacketNext, Produces

(* The format of the source is of a later call than any change that was read, or      *)
(* there is none.                                                           *)
LEMMA FormatNext ==
    ASSUME PacketTypeOK, NoStaleFormat, [PacketNext]_packetVars
    PROVE  NoStaleFormat'
<1>0. /\ calls \in Nat /\ got \in Seq(Old(calls)) /\ mFormat \in 0 .. calls
      /\ mBuffers \in Seq(Old(calls)) /\ \A b \in Old(calls) : b.no \in Nat /\ b.no < calls
  BY WhichIsMarker DEF PacketTypeOK, Old, Buffers
<1>1. ASSUME UNCHANGED <<got, mFormat>> PROVE NoStaleFormat'
  BY <1>1 DEF NoStaleFormat
<1>2. CASE SetFormat
  <2>1. mFormat' = calls /\ got' = got
    BY <1>2 DEF SetFormat
  <2>2. \A i \in DOMAIN got : got[i].no \in Nat /\ got[i].no < calls
    BY <1>0, ElementOfSeq, LenProperties
  <2> QED
    BY <2>1, <2>2, <1>0 DEF NoStaleFormat
<1>3. CASE QueueAccessUnit \/ QueueDiscontinuity \/ QueueSeek \/ SignalEOS \/ UNCHANGED packetVars
  BY <1>1, <1>3 DEF QueueAccessUnit, QueueDiscontinuity, QueueSeek, SignalEOS, packetVars
<1>4. ASSUME NEW r \in Readers, ReadWaits(r) PROVE NoStaleFormat'
  BY <1>1, <1>4 DEF ReadWaits
<1>5. ASSUME NEW r \in Readers, ReadReturns(r) PROVE NoStaleFormat'
  <2>1. CASE mBuffers = <<>>
    BY <1>1, <1>5, <2>1 DEF ReadReturns
  <2>2. CASE mBuffers # <<>>
    <3> DEFINE b == Head(mBuffers)
    <3>1. got' = Append(got, b) /\ mFormat' = FormatAfter(b)
      BY <1>5, <2>2 DEF ReadReturns
    <3>2. b \in Old(calls)
      BY <1>0, <2>2, HeadTailProperties
    <3> HIDE DEF b
    <3>3. /\ DOMAIN got' = 1 .. Len(got) + 1 /\ DOMAIN got = 1 .. Len(got) /\ Len(got) \in Nat
          /\ \A i \in 1 .. Len(got) : got'[i] = got[i]
          /\ got'[Len(got) + 1] = b
      BY <1>0, <3>1, <3>2, AppendProperties, LenProperties
    <3>4. CASE IsMarker(b) /\ b.kind = "format"
      BY <3>1, <3>4 DEF FormatAfter, NoStaleFormat
    <3>5. CASE ~(IsMarker(b) /\ b.kind = "format")
      <4>1. mFormat' = mFormat
        BY <3>1, <3>5 DEF FormatAfter
      <4>2. ASSUME NEW i \in DOMAIN got', IsMarker(got'[i]), got'[i].kind = "format"
            PROVE  mFormat' = 0 \/ mFormat' > got'[i].no
        <5>1. i \in 1 .. Len(got)
          BY <3>3, <3>5, <4>2
        <5> QED
          BY <3>3, <4>1, <4>2, <5>1 DEF NoStaleFormat
      <4> QED
        BY <4>2 DEF NoStaleFormat
    <3> QED
      BY <3>4, <3>5
  <2> QED
    BY <2>1, <2>2
<1> QED
  BY <1>2, <1>3, <1>4, <1>5 DEF PacketNext, Produces

-----------------------------------------------------------------------------
(*                   The loop of getBufferedDurationUs                      *)

SpanOf(q) ==
    CHOOSE span : span = [n \in 0 .. Len(q) |->
        IF n = 0 \/ IsMarker(q[n]) THEN NoTimes
        ELSE LET before == span[n - 1]
             IN  [first |-> IF before.first < 0 THEN q[n].unit ELSE before.first, last |-> q[n].unit]]

SpanNext(before, b) ==
    IF IsMarker(b) THEN NoTimes
    ELSE [first |-> IF before.first < 0 THEN b.unit ELSE before.first, last |-> b.unit]

(* The loop is defined for every queue, and goes from one element to the next.    *)
LEMMA SpanStep ==
    ASSUME NEW q \in Seq(Buffers)
    PROVE  /\ SpanOf(q)[0] = NoTimes
           /\ \A n \in 1 .. Len(q) : SpanOf(q)[n] = SpanNext(SpanOf(q)[n - 1], q[n])
           /\ Span(q) = SpanOf(q)[Len(q)]
<1> DEFINE V == [first : Int, last : Int]
           body(f) == [n \in 0 .. Len(q) |->
               IF n = 0 \/ IsMarker(q[n]) THEN NoTimes
               ELSE LET before == f[n - 1]
                    IN  [first |-> IF before.first < 0 THEN q[n].unit ELSE before.first, last |-> q[n].unit]]
           G == [n \in 1 .. Len(q) |-> [v \in V |-> SpanNext(v, q[n])]]
<1>1. Len(q) \in Nat
  BY LenProperties
<1>2. G \in [1 .. Len(q) -> [V -> V]]
  <2>1. ASSUME NEW n \in 1 .. Len(q), NEW v \in V PROVE SpanNext(v, q[n]) \in V
    <3>1. q[n] \in Buffers
      BY ElementOfSeq
    <3>2. IsMarker(q[n]) \/ q[n].unit \in Int
      BY <3>1, WhichIsMarker DEF Buffers
    <3> QED
      BY <3>2 DEF SpanNext, NoTimes
  <2> QED
    BY <2>1
<1>3. PICK g : /\ g \in [0 .. Len(q) -> V] /\ g[0] = NoTimes
               /\ \A n \in 1 .. Len(q) : g[n] = G[n][g[n - 1]]
  <2>1. NoTimes \in V
    BY DEF NoTimes
  <2>2. Loop(V, Len(q), NoTimes, G)
    BY <1>1, <1>2, <2>1 DEF Loop
  <2>3. PICK g : Computes(V, Len(q), NoTimes, G, g)
    BY <2>2, LoopComputes
  <2> QED
    BY <2>3 DEF Computes
<1>4. g = body(g)
  <2>1. ASSUME NEW n \in 0 .. Len(q) PROVE g[n] = body(g)[n]
    <3>1. CASE n = 0
      BY <1>3, <3>1
    <3>2. CASE n # 0
      <4>1. n \in 1 .. Len(q) /\ n - 1 \in 0 .. Len(q) /\ g[n - 1] \in V
        BY <1>1, <1>3, <3>2
      <4>2. g[n] = SpanNext(g[n - 1], q[n])
        BY <1>3, <4>1
      <4> QED
        BY <3>2, <4>2 DEF SpanNext
    <3> QED
      BY <3>1, <3>2
  <2> QED
    BY <1>3, <2>1
<1>5. SpanOf(q) = body(SpanOf(q))
  <2> HIDE DEF body
  <2>1. \E f : f = body(f)
    BY <1>4
  <2>2. SpanOf(q) = CHOOSE f : f = body(f)
    BY DEF SpanOf, body
  <2> QED
    BY <2>1, <2>2
<1>6. Span(q) = SpanOf(q)[Len(q)]
  BY DEF Span, SpanOf
<1>7. SpanOf(q)[0] = NoTimes
  BY <1>1, <1>5
<1>8. ASSUME NEW n \in 1 .. Len(q) PROVE SpanOf(q)[n] = SpanNext(SpanOf(q)[n - 1], q[n])
  <2>1. n \in 0 .. Len(q) /\ n # 0
    BY <1>1
  <2> QED
    BY <1>5, <2>1 DEF SpanNext
<1> QED
  BY <1>6, <1>7, <1>8

(* m is the place of the last discontinuity among the first n elements, or 0.       *)
LastMarker(q, n, m) ==
    /\ m \in 0 .. n
    /\ m = 0 \/ IsMarker(q[m])
    /\ \A j \in m + 1 .. n : ~IsMarker(q[j])

SpanAfter(q, n, m) == IF m = n THEN NoTimes ELSE [first |-> q[m + 1].unit, last |-> q[n].unit]

(* After n elements the loop holds the times of the first and of the last since the   *)
(* last discontinuity among them.                                             *)
LEMMA SpanIs ==
    ASSUME NEW q \in Seq(Buffers)
    PROVE  \E m \in 0 .. Len(q) : LastMarker(q, Len(q), m) /\ Span(q) = SpanAfter(q, Len(q), m)
<1> DEFINE P == {n \in 0 .. Len(q) :
                    \E m \in 0 .. n : LastMarker(q, n, m) /\ SpanOf(q)[n] = SpanAfter(q, n, m)}
<1>1. Len(q) \in Nat
  BY LenProperties
<1>2. 0 \in P
  <2>1. LastMarker(q, 0, 0) /\ SpanOf(q)[0] = SpanAfter(q, 0, 0) /\ 0 \in 0 .. 0 /\ 0 \in 0 .. Len(q)
    BY <1>1, SpanStep DEF LastMarker, SpanAfter
  <2> QED
    BY <2>1
<1>3. ASSUME NEW n \in 0 .. Len(q), n \in P, n < Len(q) PROVE n + 1 \in P
  <2>1. PICK m \in 0 .. n : LastMarker(q, n, m) /\ SpanOf(q)[n] = SpanAfter(q, n, m)
    BY <1>3
  <2>2. n + 1 \in 1 .. Len(q) /\ (n + 1) - 1 = n /\ n + 1 \in 0 .. Len(q) /\ m \in Nat /\ n \in Nat
    BY <1>1, <1>3
  <2>3. SpanOf(q)[n + 1] = SpanNext(SpanOf(q)[n], q[n + 1])
    BY <2>2, SpanStep
  <2>4. CASE IsMarker(q[n + 1])
    <3>1. LastMarker(q, n + 1, n + 1)
      BY <2>2, <2>4 DEF LastMarker
    <3>2. SpanOf(q)[n + 1] = SpanAfter(q, n + 1, n + 1) /\ n + 1 \in 0 .. n + 1
      BY <2>2, <2>3, <2>4 DEF SpanNext, SpanAfter
    <3> QED
      BY <2>2, <3>1, <3>2
  <2>5. CASE ~IsMarker(q[n + 1])
    <3>1. LastMarker(q, n + 1, m) /\ m \in 0 .. n + 1 /\ m # n + 1
      BY <2>1, <2>2, <2>5 DEF LastMarker
    <3>2. CASE m = n
      <4>1. SpanOf(q)[n] = NoTimes /\ NoTimes.first < 0
        BY <2>1, <3>2 DEF SpanAfter, NoTimes
      <4>2. SpanOf(q)[n + 1] = [first |-> q[n + 1].unit, last |-> q[n + 1].unit]
        BY <2>3, <2>5, <4>1 DEF SpanNext
      <4>3. SpanOf(q)[n + 1] = SpanAfter(q, n + 1, m)
        BY <2>2, <3>2, <4>2 DEF SpanAfter
      <4> QED
        BY <2>2, <3>1, <4>3
    <3>3. CASE m # n
      <4>1. m + 1 \in 1 .. Len(q) /\ m + 1 \in m + 1 .. n
        BY <2>1, <2>2, <3>3
      <4>2. q[m + 1] \in Units
        BY <2>1, <4>1, ElementOfSeq, WhichIsMarker DEF LastMarker, Buffers
      <4>3. ~(q[m + 1].unit < 0)
        BY <4>2, WhichIsMarker
      <4>4. SpanOf(q)[n + 1] = SpanAfter(q, n + 1, m)
        BY <2>1, <2>3, <2>5, <3>1, <3>3, <4>3 DEF SpanAfter, SpanNext
      <4> QED
        BY <2>2, <3>1, <4>4
    <3> QED
      BY <3>2, <3>3
  <2> QED
    BY <2>4, <2>5
<1>4. Len(q) \in P
  <2> HIDE DEF P
  <2>1. \A n \in 0 .. Len(q) : n \in P
    BY <1>1, <1>2, <1>3, NumberInduction
  <2> QED
    BY <1>1, <2>1
<1> QED
  BY <1>4, SpanStep

LEMMA DurationFollows == mBuffers \in Seq(Buffers) => DurationIsSinceMarker
<1> SUFFICES ASSUME mBuffers \in Seq(Buffers) PROVE DurationIsSinceMarker
  OBVIOUS
<1> DEFINE q == mBuffers
           n == Len(q)
           S == {0} \cup {i \in DOMAIN q : IsMarker(q[i])}
<1>1. n \in Nat /\ DOMAIN q = 1 .. n
  BY LenProperties
<1>2. PICK m \in 0 .. n : LastMarker(q, n, m) /\ Span(q) = SpanAfter(q, n, m)
  BY SpanIs
<1>3. Max(S) = m
  <2>1. m \in S /\ \A y \in S : m >= y
    BY <1>1, <1>2 DEF LastMarker
  <2>2. S \subseteq Nat
    BY <1>1
  <2> HIDE DEF S
  <2>3. \A x \in S : (\A y \in S : x >= y) => x = m
    BY <2>1, <2>2
  <2> QED
    BY <2>1, <2>3 DEF Max
<1>4. SinceMarker = SubSeq(q, m + 1, n)
  <2>1. 1 + m = m + 1
    BY <1>1, <1>2
  <2>2. SinceMarker = SubSeq(q, 1 + m, n)
    BY <1>3 DEF SinceMarker
  <2> QED
    BY <2>1, <2>2
<1>5. CASE m = n
  <2>1. SubSeq(q, m + 1, n) = <<>>
    BY <1>1, <1>5, SubSeqEmpty
  <2>2. BufferedDuration = 0
    BY <1>2, <1>5 DEF BufferedDuration, SpanAfter, NoTimes
  <2> QED
    BY <1>4, <2>1, <2>2 DEF DurationIsSinceMarker
<1>6. CASE m # n
  <2> DEFINE s == SubSeq(q, m + 1, n)
  <2>1. m + 1 \in 1 .. n /\ m \in Nat /\ m < n
    <3> HIDE DEF n
    <3> QED
      BY <1>1, <1>6
  <2>2. /\ s \in Seq(Buffers) /\ Len(s) = n - m
        /\ \A i \in 1 .. n - m : s[i] = q[m + i]
    BY <1>1, <2>1, SubSeqProperties, ElementOfSeq
  <2>3. s # <<>> /\ Head(s) = q[m + 1] /\ s[Len(s)] = q[n]
    <3> HIDE DEF s
    <3>1. Len(s) \in Nat \ {0}
      BY <1>1, <2>1, <2>2
    <3>2. s # <<>> /\ Head(s) = s[1]
      BY <2>2, <3>1, EmptySeq
    <3>3. s[1] = q[m + 1] /\ s[n - m] = q[n]
      <4>1. 1 \in 1 .. n - m /\ n - m \in 1 .. n - m /\ m + (n - m) = n
        BY <1>1, <2>1
      <4> QED
        BY <2>2, <4>1
    <3> QED
      BY <2>2, <3>2, <3>3
  <2>4. BufferedDuration = q[n].unit - q[m + 1].unit
    BY <1>2, <1>6 DEF BufferedDuration, SpanAfter
  <2> QED
    BY <1>4, <2>3, <2>4 DEF DurationIsSinceMarker
<1> QED
  BY <1>5, <1>6

(* Whatever is queued, and whoever reads when: a reader sees every discontinuity      *)
(* that no seek removes, in order; after a change of format it is never given the      *)
(* old one; and getBufferedDurationUs is the difference its header speaks of.          *)
THEOREM ReadersLearnTheTruth == PacketSpec => []StreamIsTrue
<1>1. PacketInit => StreamIsTrue
  <2> SUFFICES ASSUME PacketInit PROVE StreamIsTrue
    OBVIOUS
  <2>1. mBuffers = <<>> /\ got = <<>> /\ marks = <<>>
    BY DEF PacketInit
  <2>2. mBuffers \in Seq(Buffers) /\ got \o mBuffers = <<>> /\ DOMAIN <<>> = {}
    BY <2>1, EmptySeq
  <2>3. MarkersArriveInOrder
    BY <2>1, <2>2, OnlyEmpty DEF MarkersArriveInOrder, Numbers
  <2> QED
    BY <2>1, <2>2, <2>3, DurationFollows DEF StreamIsTrue, NoStaleFormat
<1>2. PacketTypeOK /\ MarkersArriveInOrder /\ NoStaleFormat => StreamIsTrue
  <2>1. PacketTypeOK => mBuffers \in Seq(Buffers)
    BY SeqMonotonic DEF PacketTypeOK, Old
  <2> QED
    BY <2>1, DurationFollows DEF StreamIsTrue
<1>3. PacketTypeOK /\ MarkersArriveInOrder /\ NoStaleFormat /\ [PacketNext]_packetVars
          => MarkersArriveInOrder' /\ NoStaleFormat'
  BY MarkersNext, FormatNext
<1>4. StreamIsTrue => MarkersArriveInOrder /\ NoStaleFormat
  BY DEF StreamIsTrue
<1> QED
  BY <1>1, <1>2, <1>3, <1>4, PacketInitOK, PacketNextOK, PTL DEF PacketSpec
=============================================================================
