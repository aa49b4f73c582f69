--------------------------- MODULE DashPacketSource ---------------------------
(***************************************************************************)
(* DashPacketSource (DashPacketSource.cpp): the queue of access units and     *)
(* discontinuities between the thread that parses the stream and those that  *)
(* read it.  Every method holds mLock; a reader that finds nothing waits on   *)
(* mCondition, which each producer signals: one waiter is woken, and it looks *)
(* again only when it has the lock.                                         *)
(***************************************************************************)
EXTENDS Integers, Sequences, FiniteSets, FiniteSetsExt

CONSTANTS
    Readers,         \* the threads that call dequeueAccessUnit or read
    Times,           \* the presentation times of access units
    PacketBudget     \* a bound: how often the producer calls anything

ASSUME PacketAssumption ==
    /\ Times \subseteq Nat /\ PacketBudget \in Nat
    /\ IsFiniteSet(Readers) /\ Readers # {}

(* ATSParser's discontinuities as the track sees them: with or without a new   *)
(* format, or a seek.  The others carry the number of the call.              *)
Kinds   == {"time", "format"}
IsMarker(b) == "kind" \in DOMAIN b
Numbers(q) == [i \in DOMAIN q |-> q[i].no]

VARIABLES
    mBuffers, mEOSResult,
    mFormat,         \* the number of the setFormat that set it, 0 if NULL
    reader,          \* [Readers -> "idle", "waiting", "woken"]
    calls,           \* how often the producer has called
    got,             \* what the readers got: buffers in order of their removal
    marks            \* the discontinuities readers are to see: queued, and not removed by a seek

packetVars == <<mBuffers, mEOSResult, mFormat, reader, calls, got, marks>>

PacketInit ==
    /\ mBuffers = <<>> /\ mEOSResult = "OK"
    /\ mFormat = 1
    /\ reader = [r \in Readers |-> "idle"]
    /\ calls = 1
    /\ got = <<>> /\ marks = <<>>

-----------------------------------------------------------------------------
Waiting == {r \in Readers : reader[r] = "waiting"}

(* Condition::signal: one of the threads that wait, if any.                   *)
Signal ==
    IF Waiting = {} THEN UNCHANGED reader
    ELSE \E r \in Waiting : reader' = [reader EXCEPT ![r] = "woken"]

Calls == calls < PacketBudget /\ calls' = calls + 1

(* queueAccessUnit: a damaged unit is dropped.                               *)
QueueAccessUnit ==
    /\ Calls
    /\ \/ UNCHANGED <<mBuffers, reader>>
       \/ /\ \E t \in Times : mBuffers' = Append(mBuffers, [unit |-> t, no |-> calls])
          /\ Signal
    /\ UNCHANGED <<mEOSResult, mFormat, got, marks>>

(* Mutant: everything in the queue goes.                                     *)
OnlyMarkers_None(q) == <<>>

OnlyMarkers(q) ==
    LET only[n \in 0 .. Len(q)] ==
            IF n = 0 THEN <<>>
            ELSE IF IsMarker(q[n]) THEN Append(only[n - 1], q[n]) ELSE only[n - 1]
    IN  only[Len(q)]

(* queueDiscontinuity: only discontinuities stay in the queue.               *)
QueueDiscontinuity ==
    /\ Calls
    /\ \E k \in Kinds :
        mBuffers' = Append(OnlyMarkers(mBuffers), [kind |-> k, no |-> calls])
    /\ marks' = Append(marks, calls)
    /\ mEOSResult' = "OK"
    /\ Signal
    /\ UNCHANGED <<mFormat, got>>

(* queueDiscontinuity(DISCONTINUITY_SEEK): nothing stays, and nothing marks the  *)
(* place where it was.                                                      *)
QueueSeek ==
    /\ Calls
    /\ marks' = Numbers(OnlyMarkers(got))
    /\ mBuffers' = <<>>
    /\ mEOSResult' = "OK"
    /\ Signal
    /\ UNCHANGED <<mFormat, got>>

(* Mutant: nobody is told.                                                   *)
SignalEOS_Silent ==
    /\ Calls
    /\ mEOSResult' = "EOS"
    /\ UNCHANGED <<mBuffers, mFormat, reader, got, marks>>

SignalEOS ==
    /\ Calls
    /\ mEOSResult' = "EOS"
    /\ Signal
    /\ UNCHANGED <<mBuffers, mFormat, got, marks>>

(* updateFormat, and setFormat, whose CHECK wants no format there: nothing       *)
(* stops updateFormat while the discontinuity it answers is still queued.      *)
SetFormat ==
    /\ Calls
    /\ mFormat' = calls
    /\ UNCHANGED <<mBuffers, mEOSResult, reader, got, marks>>

-----------------------------------------------------------------------------
Reads(r) == reader[r] \in {"idle", "woken"}

(* The reader waits while the queue is empty and the stream has not ended.     *)
ReadWaits(r) ==
    /\ Reads(r)
    /\ mEOSResult = "OK" /\ mBuffers = <<>>
    /\ reader' = [reader EXCEPT ![r] = "waiting"]
    /\ UNCHANGED <<mBuffers, mEOSResult, mFormat, calls, got, marks>>

(* wasFormatChange: the source has no format until it is given the next one.   *)
FormatAfter(b) == IF IsMarker(b) /\ b.kind = "format" THEN 0 ELSE mFormat

(* The first buffer, or the way the stream ended.                            *)
ReadReturns(r) ==
    /\ Reads(r)
    /\ \/ /\ mBuffers # <<>>
          /\ mBuffers' = Tail(mBuffers)
          /\ mFormat' = FormatAfter(Head(mBuffers))
          /\ got' = Append(got, Head(mBuffers))
       \/ /\ mBuffers = <<>> /\ mEOSResult # "OK"
          /\ UNCHANGED <<mBuffers, mFormat, got>>
    /\ reader' = [reader EXCEPT ![r] = "idle"]
    /\ UNCHANGED <<mEOSResult, calls, marks>>

Produces == QueueAccessUnit \/ QueueDiscontinuity \/ QueueSeek \/ SignalEOS \/ SetFormat

PacketNext == Produces \/ \E r \in Readers : ReadWaits(r) \/ ReadReturns(r)

PacketSpec == PacketInit /\ [][PacketNext]_packetVars

-----------------------------------------------------------------------------
(*                     What the source answers                              *)

NoTimes == [first |-> -1, last |-> -1]

(* The loop of getBufferedDurationUs: time1 and time2.                        *)
Span(q) ==
    LET span[n \in 0 .. Len(q)] ==
            IF n = 0 \/ IsMarker(q[n]) THEN NoTimes
            ELSE LET before == span[n - 1]
                 IN  [first |-> IF before.first < 0 THEN q[n].unit ELSE before.first, last |-> q[n].unit]
    IN  span[Len(q)]

BufferedDuration == Span(mBuffers).last - Span(mBuffers).first

-----------------------------------------------------------------------------
(* The timestamps the header speaks of: those behind the last discontinuity.   *)
SinceMarker ==
    LET from == 1 + Max({0} \cup {i \in DOMAIN mBuffers : IsMarker(mBuffers[i])})
    IN  SubSeq(mBuffers, from, Len(mBuffers))

(* A thread that waits while there is something for it to take is not alone:    *)
(* one has been woken and will look.  A signal is not kept for a reader that    *)
(* comes later, so none may be missing where it is needed.                    *)
SomebodyIsTold ==
    /\ mBuffers # <<>> /\ Waiting # {} => \E r \in Readers : reader[r] = "woken"
    /\ mEOSResult # "OK" => Waiting # Readers

(* A reader learns of every discontinuity, in the order they were queued, but   *)
(* for those a seek has removed: the next one removes access units only.       *)
MarkersArriveInOrder == Numbers(OnlyMarkers(got \o mBuffers)) = marks

(* After a change of format no reader is given the old one: the format of the   *)
(* source was set since the discontinuity was queued.                        *)
NoStaleFormat ==
    \A i \in DOMAIN got : IsMarker(got[i]) /\ got[i].kind = "format" => mFormat = 0 \/ mFormat > got[i].no

(* getBufferedDurationUs is what the header promises: the difference of the     *)
(* last and the first timestamp since the last discontinuity.                 *)
DurationIsSinceMarker ==
    BufferedDuration =
        IF SinceMarker = <<>> THEN 0 ELSE SinceMarker[Len(SinceMarker)].unit - Head(SinceMarker).unit

(* What a reader learns of the stream is true of it.                          *)
StreamIsTrue == MarkersArriveInOrder /\ NoStaleFormat /\ DurationIsSinceMarker
=============================================================================
