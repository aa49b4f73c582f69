----------------------- MODULE DashPlayerFlush_proofs -----------------------
(***************************************************************************)
(* Proofs about the flush protocol of DashPlayer, for any tracks, any answers *)
(* of the source, any discontinuities and any calls of the application:       *)
(*                                                                         *)
(*   ResetsHaveAnOwner         Spec => []ResetHasOwner                       *)
(*   FlushesAreAccounted       Spec /\ PortsHold => []FlushAccounted          *)
(*                                                                         *)
(* A reset is in one place: posted, in progress, postponed, or done.  Behind  *)
(* a posted one nothing follows that starts the player or lets it scan, as    *)
(* the application waits; so no decoder appears while the reset flushes the   *)
(* others, and whichever track is not done is being flushed.                 *)
(*                                                                         *)
(* A flush or shutdown that is waited for is owed by one party: books are     *)
(* kept of the messages about it and of what each codec is doing.  A codec     *)
(* that has not been set up owes nothing: on its looper the setup comes        *)
(* before any request, and until then no decoder of its track is shut down.    *)
(***************************************************************************)
EXTENDS DashPlayer_proofs, SequenceLemmas

-----------------------------------------------------------------------------
(*                        Messages that matter to a reset                    *)

Resets   == {m \in Message : m.what = "Reset"}
Openers  == {m \in Message : m.to = "player" /\ m.what \in {"Start", "Resume"}}
CurScans == {m \in Message : m.what = "ScanSources" /\ m.arg # "old"}

(* What a Decoder passes on to the player, and messages nobody sends a Decoder. *)
Reported == {"FillThisBuffer", "DrainThisBuffer", "EOS", "FlushCompleted", "ShutdownCompleted", "Error"}
Strange  == {m \in Message : m.to = "decoder" /\ m.what \notin Reported}

(* What most handlers post.                                                   *)
Harmless == Message \ (Resets \cup Openers \cup CurScans \cup Strange)

(* Nobody starts or resumes a player that is about to be reset.               *)
Behind(q) ==
    \A i, j \in 1 .. Len(q) : i < j /\ q[i] \in Resets => q[j] \notin Openers

(* Nor does it scan while it is.                                              *)
Shut(q) == NoneOf(q, Openers) /\ NoneOf(q, CurScans)

Resetting(q) == Hits(q, Resets) + One(resetInProgress) + One(resetPostponed)

OneReset == Resetting(mainQ) = One(driver.reset = "waiting")

NoScanInReset ==
    resetInProgress =>
        /\ \A t \in AV : ~Flushable(flushing[t])
        /\ scanTimers["cur"] = 0
        /\ Shut(mainQ)

RInv == /\ TypeOK /\ WaitedForHasDecoder
        /\ ResetHasOwner /\ OneReset /\ NoScanInReset
        /\ Behind(mainQ) /\ NoneOf(mainQ, Strange)

LEMMA OneIs == One(TRUE) = 1 /\ One(FALSE) = 0 /\ \A b \in BOOLEAN : One(b) \in {0, 1}
  BY DEF One

LEMMA NoneOfTail ==
    ASSUME NEW E, NEW q \in Seq(E), q # <<>>
    PROVE  /\ Tail(q) \in Seq(E) /\ Head(q) \in E
           /\ \A S : NoneOf(q, S) => NoneOf(Tail(q), S) /\ Head(q) \notin S
           /\ Behind(q) => Behind(Tail(q))
           /\ Behind(q) /\ Head(q) \in Resets => NoneOf(Tail(q), Openers)
<1>1. /\ Tail(q) \in Seq(E) /\ Head(q) \in E /\ Head(q) = q[1]
      /\ Len(q) \in Nat \ {0} /\ Len(Tail(q)) = Len(q) - 1
      /\ \A i \in 1 .. Len(Tail(q)) : Tail(q)[i] = q[i + 1] /\ i + 1 \in 1 .. Len(q)
  BY HeadTailProperties, LenProperties
<1>2. ASSUME NEW S, NoneOf(q, S) PROVE NoneOf(Tail(q), S) /\ Head(q) \notin S
  BY <1>1, <1>2 DEF NoneOf
<1>3. ASSUME Behind(q) PROVE Behind(Tail(q))
  BY <1>1, <1>3 DEF Behind
<1>4. ASSUME Behind(q), Head(q) \in Resets PROVE NoneOf(Tail(q), Openers)
  <2> SUFFICES ASSUME NEW i \in 1 .. Len(Tail(q)) PROVE Tail(q)[i] \notin Openers
    BY DEF NoneOf
  <2>1. 1 \in 1 .. Len(q) /\ i + 1 \in 1 .. Len(q) /\ 1 < i + 1
    BY <1>1
  <2> QED
    BY <1>1, <1>4, <2>1 DEF Behind
<1> QED
  BY <1>1, <1>2, <1>3, <1>4

LEMMA NoneOfJoin ==
    ASSUME NEW E, NEW q \in Seq(E), NEW s \in Seq(E)
    PROVE  /\ \A S : NoneOf(q, S) /\ NoneOf(s, S) => NoneOf(q \o s, S)
           /\ Behind(q) /\ NoneOf(s, Openers) => Behind(q \o s)
           /\ NoneOf(q, Resets) /\ Behind(s) => Behind(q \o s)
<1> DEFINE u == q \o s
<1>1. /\ Len(u) = Len(q) + Len(s) /\ Len(q) \in Nat /\ Len(s) \in Nat
      /\ \A i \in 1 .. Len(q) : u[i] = q[i]
      /\ \A i \in 1 .. Len(u) : i > Len(q) => u[i] = s[i - Len(q)] /\ i - Len(q) \in 1 .. Len(s)
  BY ConcatProperties, LenProperties
<1> HIDE DEF u
<1>2. ASSUME NEW S, NoneOf(q, S), NoneOf(s, S) PROVE NoneOf(u, S)
  <2> SUFFICES ASSUME NEW i \in 1 .. Len(u) PROVE u[i] \notin S
    BY DEF NoneOf
  <2>1. i \in 1 .. Len(q) \/ i > Len(q)
    BY <1>1
  <2> QED
    BY <1>1, <1>2, <2>1 DEF NoneOf
<1>3. ASSUME Behind(q), NoneOf(s, Openers) PROVE Behind(u)
  <2> SUFFICES ASSUME NEW i \in 1 .. Len(u), NEW j \in 1 .. Len(u), i < j, u[i] \in Resets
               PROVE  u[j] \notin Openers
    BY DEF Behind
  <2>1. j > Len(q) \/ (i \in 1 .. Len(q) /\ j \in 1 .. Len(q))
    BY <1>1
  <2> QED
    BY <1>1, <1>3, <2>1 DEF NoneOf, Behind
<1>4. ASSUME NoneOf(q, Resets), Behind(s) PROVE Behind(u)
  <2> SUFFICES ASSUME NEW i \in 1 .. Len(u), NEW j \in 1 .. Len(u), i < j, u[i] \in Resets
               PROVE  u[j] \notin Openers
    BY DEF Behind
  <2>1. i > Len(q)
    BY <1>1, <1>4 DEF NoneOf
  <2>2. j > Len(q) /\ i - Len(q) < j - Len(q)
    BY <1>1, <2>1
  <2> QED
    BY <1>1, <1>4, <2>1, <2>2 DEF Behind
<1> QED
  BY <1>2, <1>3, <1>4 DEF u

LEMMA ObsoleteDoes ==
    ASSUME NEW q \in Seq(Message)
    PROVE  /\ Obsolete(q) \in Seq(Message)
           /\ NoneOf(Obsolete(q), CurScans)
           /\ NoneOf(q, Openers) => NoneOf(Obsolete(q), Openers)
           /\ NoneOf(q, Strange) => NoneOf(Obsolete(q), Strange)
           /\ Behind(q) => Behind(Obsolete(q))
           /\ Hits(Obsolete(q), Resets) = Hits(q, Resets)
<1> DEFINE u == Obsolete(q)
<1>1. u \in Seq(Message) /\ Len(u) = Len(q)
  BY ObsoleteType DEF Obsolete
<1>2. ASSUME NEW i \in 1 .. Len(q)
      PROVE  /\ q[i] \in Message /\ u[i] \in Message
             /\ u[i].what = q[i].what /\ u[i].to = q[i].to
             /\ u[i].what = "ScanSources" => u[i].arg = "old"
  <2>1. q[i] \in Message /\ u[i] \in Message
    BY <1>1, ElementOfSeq
  <2>2. u[i] = IF q[i].what = "ScanSources" THEN [q[i] EXCEPT !.arg = "old"] ELSE q[i]
    BY DEF Obsolete
  <2> HIDE DEF u
  <2> QED
    BY <2>1, <2>2 DEF Message
<1> HIDE DEF u
<1>3. \A i \in 1 .. Len(q) : /\ u[i] \in Resets <=> q[i] \in Resets
                             /\ u[i] \in Openers <=> q[i] \in Openers
                             /\ u[i] \in Strange <=> q[i] \in Strange
                             /\ u[i] \notin CurScans
  BY <1>2 DEF Resets, Openers, CurScans, Strange
<1>4. {i \in 1 .. Len(u) : u[i] \in Resets} = {i \in 1 .. Len(q) : q[i] \in Resets}
  BY <1>1, <1>3
<1>5. Hits(u, Resets) = Hits(q, Resets)
  BY <1>4 DEF Hits
<1>6. /\ NoneOf(u, CurScans)
      /\ NoneOf(q, Openers) => NoneOf(u, Openers)
      /\ NoneOf(q, Strange) => NoneOf(u, Strange)
  BY <1>1, <1>3 DEF NoneOf
<1>7. Behind(q) => Behind(u)
  BY <1>1, <1>3 DEF Behind
<1> QED
  BY <1>1, <1>5, <1>6, <1>7 DEF u

(* What Harmless messages do to a queue: nothing.                              *)
LEMMA HarmlessDoes ==
    ASSUME NEW s \in Seq(Harmless)
    PROVE  /\ s \in Seq(Message)
           /\ NoneOf(s, Openers) /\ NoneOf(s, CurScans) /\ NoneOf(s, Resets) /\ NoneOf(s, Strange)
           /\ Hits(s, Resets) = 0
<1>1. \A i \in 1 .. Len(s) : s[i] \in Harmless
  BY ElementOfSeq
<1>2. s \in Seq(Message)
  BY SeqMonotonic DEF Harmless
<1>3. NoneOf(s, Openers) /\ NoneOf(s, CurScans) /\ NoneOf(s, Resets) /\ NoneOf(s, Strange)
  BY <1>1 DEF NoneOf, Harmless
<1> QED
  BY <1>2, <1>3, HitsNone DEF NoneOf

(* A queue that goes on from another one: the same resets are in it, and what    *)
(* holds of the order of its messages still does.                              *)
GoesOn(p, q) ==
    /\ q \in Seq(Message)
    /\ Hits(q, Resets) = Hits(p, Resets)
    /\ Behind(p) => Behind(q)
    /\ NoneOf(p, Strange) => NoneOf(q, Strange)
    /\ Shut(p) => Shut(q)

LEMMA GoesOnTail ==
    ASSUME NEW q \in Seq(Message), q # <<>>, Head(q) \notin Resets
    PROVE  GoesOn(q, Tail(q)) /\ GoesOn(q, Obsolete(Tail(q)))
<1>1. Hits(Tail(q), Resets) = Hits(q, Resets)
  <2>1. Hits(q, Resets) = (IF Head(q) \in Resets THEN 1 ELSE 0) + Hits(Tail(q), Resets)
    BY HitsHead
  <2>2. Hits(Tail(q), Resets) \in Nat
    BY NoneOfTail, HitsType
  <2> QED
    BY <2>1, <2>2
<1>2. GoesOn(q, Tail(q))
  BY <1>1, NoneOfTail DEF GoesOn, Shut
<1>3. GoesOn(q, Obsolete(Tail(q)))
  BY <1>2, ObsoleteDoes DEF GoesOn, Shut
<1> QED
  BY <1>2, <1>3

LEMMA GoesOnJoin ==
    ASSUME NEW p \in Seq(Message), NEW q, GoesOn(p, q), NEW s \in Seq(Harmless)
    PROVE  GoesOn(p, q \o s)
<1>1. q \in Seq(Message) /\ s \in Seq(Message)
  BY HarmlessDoes DEF GoesOn
<1>2. Hits(q \o s, Resets) = Hits(p, Resets)
  <2>1. Hits(q \o s, Resets) = Hits(q, Resets) + Hits(s, Resets)
    BY <1>1, HitsConcat
  <2>2. Hits(s, Resets) = 0 /\ Hits(q, Resets) \in Nat /\ Hits(q, Resets) = Hits(p, Resets)
    BY <1>1, HarmlessDoes, HitsType DEF GoesOn
  <2> QED
    BY <2>1, <2>2
<1>3. q \o s \in Seq(Message)
  BY <1>1, ConcatProperties
<1> QED
  BY <1>1, <1>2, <1>3, HarmlessDoes, NoneOfJoin DEF GoesOn, Shut

LEMMA GoesOnObsolete ==
    ASSUME NEW p, NEW q, GoesOn(p, q)
    PROVE  GoesOn(p, Obsolete(q)) /\ NoneOf(Obsolete(q), CurScans)
  BY ObsoleteDoes DEF GoesOn, Shut

(* A step that passes the reset by.                                           *)
LEMMA RPasses ==
    ASSUME RInv, TypeOK', WaitedForHasDecoder',
           UNCHANGED <<flushing, resetInProgress, resetPostponed, scanTimers>>,
           driver'.reset = driver.reset, GoesOn(mainQ, mainQ')
    PROVE  RInv'
<1>1. ResetHasOwner'
  BY DEF RInv, ResetHasOwner
<1>2. OneReset'
  BY DEF RInv, OneReset, Resetting, GoesOn
<1>3. NoScanInReset'
  BY DEF RInv, NoScanInReset, GoesOn
<1> QED
  BY <1>1, <1>2, <1>3 DEF RInv, GoesOn

LEMMA OneHarmless ==
    ASSUME NEW m \in Message, m.what \notin {"Reset", "ScanSources"},
           m.to = "player" => m.what \notin {"Start", "Resume"},
           m.to = "decoder" => m.what \in Reported
    PROVE  <<m>> \in Seq(Harmless)
<1>1. m \in Harmless
  BY DEF Harmless, Resets, Openers, CurScans, Strange
<1> QED
  BY <1>1

(* What the handlers post, the scans and resets apart.                          *)
Usual == Plain \ {"Reset", "ScanSources"}

LEMMA HarmlessNotes ==
    /\ <<>> \in Seq(Harmless)
    /\ \A what \in Usual, t \in AV \cup {"-"} : ToRenderer(what, t) \in Seq(Harmless)
    /\ \A what \in Usual, t \in AV : <<ToCodec(t, what)>> \in Seq(Harmless)
                                     /\ MainPart(t, ToCodec(t, what)) \in Seq(Harmless)
    /\ \A t \in AV : /\ MainPart(t, Consumed(t)) \in Seq(Harmless)
                     /\ <<Consumed(t)>> \in Seq(Harmless)
                     /\ MainPart(t, Drained(t)) \in Seq(Harmless)
                     /\ \A res \in {"ok", "eos", "err"} : MainPart(t, Filled(t, res)) \in Seq(Harmless)
    /\ \A event : PausePosts(event) \in Seq(Harmless)
<1>1. <<>> \in Seq(Harmless)
  OBVIOUS
<1>2. \A what \in Usual, t \in AV \cup {"-"} : ToRenderer(what, t) \in Seq(Harmless)
  <2> SUFFICES ASSUME NEW what \in Usual, NEW t \in AV \cup {"-"}
               PROVE  <<Msg("renderer", what, t, "-")>> \in Seq(Harmless)
    BY <1>1 DEF ToRenderer
  <2>1. Msg("renderer", what, t, "-") \in Message
    BY MsgType DEF Usual, Plain, Handlers, Args
  <2> QED
    BY <2>1, OneHarmless DEF Msg, Usual
<1>3. ASSUME NEW what \in Usual, NEW t \in AV
      PROVE  <<ToCodec(t, what)>> \in Seq(Harmless) /\ MainPart(t, ToCodec(t, what)) \in Seq(Harmless)
  <2>1. ToCodec(t, what) \in Message
    BY NotesType DEF Usual
  <2>2. <<ToCodec(t, what)>> \in Seq(Harmless)
    BY <2>1, OneHarmless DEF ToCodec, Msg, Usual
  <2> QED
    BY <1>1, <2>2 DEF MainPart
<1>4. ASSUME NEW t \in AV
      PROVE  /\ <<Consumed(t)>> \in Seq(Harmless) /\ <<Drained(t)>> \in Seq(Harmless)
             /\ \A res \in {"ok", "eos", "err"} : <<Filled(t, res)>> \in Seq(Harmless)
  <2>1. /\ Consumed(t) \in Message /\ Drained(t) \in Message
        /\ \A res \in {"ok", "eos", "err"} : Filled(t, res) \in Message
    BY MsgType DEF Consumed, Drained, Filled, Handlers, Whats, Args
  <2> QED
    BY <2>1, OneHarmless DEF Consumed, Drained, Filled, Msg
<1>5. \A event : PausePosts(event) \in Seq(Harmless)
  <2>1. Msg("player", "Pause", "-", "-") \in Message
    BY MsgType DEF Handlers, Whats, Args
  <2>2. <<Msg("player", "Pause", "-", "-")>> \in Seq(Harmless)
    BY <2>1, OneHarmless DEF Msg
  <2> QED
    BY <1>1, <2>2 DEF PausePosts
<1> QED
  BY <1>1, <1>2, <1>3, <1>4, <1>5 DEF MainPart

LEMMA HarmlessFlush ==
    ASSUME NEW S, NEW t \in AV
    PROVE  FlushPosts(S, t) \in Seq(Harmless)
<1>1. "Flush" \in Usual
  BY DEF Usual, Plain, Whats
<1>2. MainPart(t, ToCodec(t, "Flush")) \in Seq(Harmless) /\ ToRenderer("Flush", t) \in Seq(Harmless)
  BY <1>1, HarmlessNotes
<1>3. MainPart(t, ToCodec(t, "Flush")) \o ToRenderer("Flush", t) \in Seq(Harmless)
  BY <1>2, ConcatProperties
<1> QED
  BY <1>3, HarmlessNotes DEF FlushPosts

LEMMA HarmlessReports ==
    ASSUME NEW t \in AV
    PROVE  /\ \A what \in {"FillThisBuffer", "DrainThisBuffer", "FlushCompleted", "ShutdownCompleted", "Error"} :
                  <<Notify(t, what, "-")>> \in Seq(Harmless)
           /\ \A res \in {"eos", "err"} : <<Notify(t, "EOS", res)>> \in Seq(Harmless)
           /\ \A c : Ask(t, c) \in Seq(Harmless)
<1>1. /\ \A what \in {"FillThisBuffer", "DrainThisBuffer", "FlushCompleted", "ShutdownCompleted", "Error"} :
              Notify(t, what, "-") \in Message
      /\ \A res \in {"eos", "err"} : Notify(t, "EOS", res) \in Message
  BY MsgType DEF Notify, Handlers, Whats, Args
<1>2. /\ \A what \in {"FillThisBuffer", "DrainThisBuffer", "FlushCompleted", "ShutdownCompleted", "Error"} :
              <<Notify(t, what, "-")>> \in Seq(Harmless)
      /\ \A res \in {"eos", "err"} : <<Notify(t, "EOS", res)>> \in Seq(Harmless)
  BY <1>1, OneHarmless DEF Notify, Msg, Reported
<1> QED
  BY <1>2, HarmlessNotes DEF Ask

(* A handler that takes the next message and posts harmless ones.               *)
LEMMA RTakes ==
    ASSUME RInv, TypeOK', WaitedForHasDecoder',
           UNCHANGED <<flushing, resetInProgress, resetPostponed, scanTimers>>,
           driver'.reset = driver.reset,
           mainQ # <<>>, Head(mainQ).what # "Reset",
           NEW s \in Seq(Harmless), mainQ' = Tail(mainQ) \o s
    PROVE  RInv'
<1>1. mainQ \in Seq(Message)
  BY DEF RInv, TypeOK, LoopersTypeOK
<1>2. GoesOn(mainQ, Tail(mainQ))
  BY <1>1, GoesOnTail DEF Resets
<1> QED
  BY <1>1, <1>2, GoesOnJoin, RPasses

LEMMA RPosts ==
    ASSUME RInv, TypeOK', WaitedForHasDecoder',
           UNCHANGED <<flushing, resetInProgress, resetPostponed, scanTimers>>,
           driver'.reset = driver.reset,
           NEW s \in Seq(Harmless), mainQ' = mainQ \o s
    PROVE  RInv'
<1>1. mainQ \in Seq(Message)
  BY DEF RInv, TypeOK, LoopersTypeOK
<1>2. GoesOn(mainQ, mainQ)
  BY <1>1 DEF GoesOn
<1> QED
  BY <1>1, <1>2, GoesOnJoin, RPasses

LEMMA RIdles ==
    ASSUME RInv, TypeOK', WaitedForHasDecoder',
           UNCHANGED <<flushing, resetInProgress, resetPostponed, scanTimers, mainQ>>,
           driver'.reset = driver.reset
    PROVE  RInv'
<1>1. mainQ \in Seq(Message)
  BY DEF RInv, TypeOK, LoopersTypeOK
<1>2. GoesOn(mainQ, mainQ')
  BY <1>1 DEF GoesOn
<1> QED
  BY <1>2, RPasses

LEMMA RAborts ==
    ASSUME RInv, TypeOK', WaitedForHasDecoder', NEW check, Abort(check)
    PROVE  RInv'
  BY RIdles DEF Abort, playerVars, resetVars

-----------------------------------------------------------------------------
(*                    Steps that have nothing to do with it                   *)

LEMMA DriverGoesOn ==
    ASSUME TypeOK, NEW event
    PROVE  DriverAfter(event).reset = driver.reset
<1>1. driver \in Driver
  BY DEF TypeOK
<1> QED
  BY <1>1 DEF DriverAfter, Driver

LEMMA RPlayerPasses ==
    ASSUME RInv, TypeOK', WaitedForHasDecoder',
           \/ OnSetDataSource \/ OnPause \/ OnRendererEOS
           \/ \E t \in AV : OnDrainThisBuffer(t)
    PROVE  RInv'
<1>1. CASE OnSetDataSource
  <2>1. CASE source
    BY <1>1, <2>1, RAborts DEF OnSetDataSource
  <2>2. CASE ~source
    <3>1. /\ UNCHANGED <<flushing, resetInProgress, resetPostponed, scanTimers, driver>>
          /\ mainQ # <<>> /\ Head(mainQ).what # "Reset" /\ mainQ' = Tail(mainQ) \o <<>>
      BY <1>1, <2>2 DEF OnSetDataSource, PlayerDue, Due, Posts, resetVars
    <3> QED
      BY <3>1, HarmlessNotes, RTakes
  <2> QED
    BY <2>1, <2>2
<1>2. CASE OnPause
  <2>1. CASE ~renderer.on
    BY <1>2, <2>1, RAborts DEF OnPause
  <2>2. CASE renderer.on
    <3>1. /\ UNCHANGED <<flushing, resetInProgress, resetPostponed, scanTimers, driver>>
          /\ mainQ # <<>> /\ Head(mainQ).what # "Reset" /\ mainQ' = Tail(mainQ) \o ToRenderer("Pause", "-")
      BY <1>2, <2>2 DEF OnPause, PlayerDue, Due, Posts, resetVars
    <3>2. "Pause" \in Usual
      BY DEF Usual, Plain, Whats
    <3>3. ToRenderer("Pause", "-") \in Seq(Harmless)
      BY <3>2, HarmlessNotes
    <3> QED
      BY <3>1, <3>3, RTakes
  <2> QED
    BY <2>1, <2>2
<1>3. CASE OnRendererEOS
  <2>1. PICK event :
          /\ UNCHANGED <<flushing, resetInProgress, resetPostponed, scanTimers>>
          /\ driver' = DriverAfter(event)
          /\ mainQ # <<>> /\ Head(mainQ).what # "Reset" /\ mainQ' = Tail(mainQ) \o PausePosts(event)
    BY <1>3 DEF OnRendererEOS, PlayerDue, Due, Posts, resetVars
  <2>2. driver'.reset = driver.reset
    BY <2>1, DriverGoesOn DEF RInv
  <2> QED
    BY <2>1, <2>2, HarmlessNotes, RTakes
<1>4. ASSUME NEW t \in AV, OnDrainThisBuffer(t) PROVE RInv'
  <2>1. /\ UNCHANGED <<flushing, resetInProgress, resetPostponed, scanTimers, driver>>
        /\ mainQ # <<>> /\ Head(mainQ).what # "Reset"
        /\ \/ mainQ' = Tail(mainQ) \o MainPart(t, Drained(t))
           \/ mainQ' = Tail(mainQ) \o ToRenderer("QueueBuffer", t)
    BY <1>4 DEF OnDrainThisBuffer, Reply, DueFor, PlayerDue, Due, Posts, playerVars, resetVars
  <2>2. "QueueBuffer" \in Usual
    BY DEF Usual, Plain, Whats
  <2>3. MainPart(t, Drained(t)) \in Seq(Harmless) /\ ToRenderer("QueueBuffer", t) \in Seq(Harmless)
    BY <2>2, HarmlessNotes
  <2> QED
    BY <2>1, <2>3, RTakes
<1> QED
  BY <1>1, <1>2, <1>3, <1>4

LEMMA RDecoderEnd ==
    ASSUME RInv, TypeOK', WaitedForHasDecoder', NEW t \in AV, OnDecoderEnd(t)
    PROVE  RInv'
<1> DEFINE m == Head(mainQ)
           res == IF m.what = "Error" THEN "err" ELSE m.arg
           notes == IF renderer.on /\ ~IsFlushingState(flushing[t])
                    THEN <<Msg("renderer", "QueueEOS", t, res)>> ELSE <<>>
<1>1. /\ UNCHANGED <<flushing, resetInProgress, resetPostponed, scanTimers, driver>>
      /\ mainQ # <<>> /\ m.what \in {"EOS", "Error"} /\ mainQ' = Tail(mainQ) \o notes
  BY DEF OnDecoderEnd, DueFor, PlayerDue, Due, Posts, playerVars, resetVars
<1>2. m \in Message
  BY <1>1, HeadTailProperties DEF RInv, TypeOK, LoopersTypeOK
<1>3. res \in {"eos", "err"}
  BY <1>1, <1>2 DEF Message
<1>4. Msg("renderer", "QueueEOS", t, res) \in Message
  BY <1>3, MsgType DEF Handlers, Whats, Args
<1>5. <<Msg("renderer", "QueueEOS", t, res)>> \in Seq(Harmless)
  BY <1>4, OneHarmless DEF Msg
<1>6. notes \in Seq(Harmless)
  BY <1>5, HarmlessNotes
<1>7. m.what # "Reset"
  BY <1>1
<1> QED
  BY <1>1, <1>6, <1>7, RTakes

(* What a Decoder passes on is what a codec reports.                           *)
LEMMA RForwards ==
    ASSUME RInv, TypeOK', WaitedForHasDecoder', DecoderForwards
    PROVE  RInv'
<1> DEFINE m == Head(mainQ)
           f == [m EXCEPT !.to = "player"]
           notes == IF m.trk \in decoders THEN <<f>> ELSE <<>>
<1>1. /\ UNCHANGED <<flushing, resetInProgress, resetPostponed, scanTimers, driver>>
      /\ mainQ # <<>> /\ m.to = "decoder" /\ mainQ' = Tail(mainQ) \o notes
  BY DEF DecoderForwards, Posts, playerVars, resetVars
<1>2. m \in Message /\ m \notin Strange
  BY <1>1, NoneOfTail DEF RInv, TypeOK, LoopersTypeOK
<1>3. m.what \in Reported
  BY <1>1, <1>2 DEF Strange
<1>4. f \in Message /\ f.what = m.what /\ f.to = "player"
  BY <1>2 DEF Message, Handlers
<1>5. <<f>> \in Seq(Harmless)
  BY <1>3, <1>4, OneHarmless DEF Reported
<1>6. notes \in Seq(Harmless) /\ m.what # "Reset"
  BY <1>3, <1>5, HarmlessNotes DEF Reported
<1> QED
  BY <1>1, <1>6, RTakes

LEMMA RRenderer ==
    ASSUME RInv, TypeOK', WaitedForHasDecoder',
           RendererHandles \/ \E t \in AV : RendererDrain(t) /\ RendererAlone
    PROVE  RInv'
<1>1. ASSUME NEW s \in Seq(Harmless), NEW v, RendererTakes(s, v), Alone,
             mainQ # <<>>, Head(mainQ).what # "Reset"
      PROVE  RInv'
  BY <1>1, RTakes DEF RendererTakes, Alone, playerVars, resetVars
<1>2. mainQ # <<>> => Head(mainQ) \in Message
  BY HeadTailProperties DEF RInv, TypeOK, LoopersTypeOK
<1>3. CASE RendererQueueBuffer /\ RendererAlone
  <2> DEFINE t == Head(mainQ).trk
  <2>1. mainQ # <<>> /\ Head(mainQ).what # "Reset" /\ Alone
    BY <1>3 DEF RendererQueueBuffer, Due, RendererAlone
  <2>2. \E s \in {<<>>, <<Consumed(Audio)>>, MainPart(t, Consumed(t))} : \E v : RendererTakes(s, v)
    BY <1>3 DEF RendererQueueBuffer
  <2>3. <<Consumed(Audio)>> \in Seq(Harmless) /\ MainPart(t, Consumed(t)) \in Seq(Harmless)
    BY HarmlessNotes DEF MainPart, AV
  <2> QED
    BY <1>1, <2>1, <2>2, <2>3, HarmlessNotes
<1>4. CASE RendererQueueEOS /\ RendererAlone
  <2>1. mainQ # <<>> /\ Head(mainQ).what # "Reset" /\ Alone /\ RendererTakes(<<>>, <<>>)
    BY <1>4 DEF RendererQueueEOS, Due, RendererAlone
  <2> QED
    BY <1>1, <2>1, HarmlessNotes
<1>5. CASE RendererFlush /\ RendererAlone
  <2> DEFINE t == Head(mainQ).trk
  <2>1. mainQ # <<>> /\ Head(mainQ).what # "Reset" /\ Alone
    BY <1>5 DEF RendererFlush, Due, RendererAlone
  <2>2. \E s \in {<<>>, MainPart(t, Consumed(t))} : \E v : RendererTakes(s, v)
    BY <1>5 DEF RendererFlush, MainPart
  <2>3. MainPart(t, Consumed(t)) \in Seq(Harmless)
    BY HarmlessNotes DEF MainPart, AV
  <2> QED
    BY <1>1, <2>1, <2>2, <2>3, HarmlessNotes
<1>6. CASE RendererPause
  <2>1. CASE renderer.on /\ renderer.paused
    BY <1>6, <2>1, RAborts DEF RendererPause
  <2>2. CASE ~(renderer.on /\ renderer.paused)
    <3>1. /\ UNCHANGED <<flushing, resetInProgress, resetPostponed, scanTimers, driver>>
          /\ mainQ # <<>> /\ Head(mainQ).what # "Reset" /\ mainQ' = Tail(mainQ) \o <<>>
      BY <1>6, <2>2 DEF RendererPause, Due, Posts, playerVars, resetVars
    <3> QED
      BY <3>1, HarmlessNotes, RTakes
  <2> QED
    BY <2>1, <2>2
<1>7. CASE RendererResume /\ RendererAlone
  <2>1. mainQ # <<>> /\ Head(mainQ).what # "Reset" /\ Alone /\ RendererTakes(<<>>, <<>>)
    BY <1>7 DEF RendererResume, Due, RendererAlone
  <2> QED
    BY <1>1, <2>1, HarmlessNotes
<1>8. ASSUME NEW t \in AV, RendererDrain(t), RendererAlone PROVE RInv'
  <2> DEFINE e == Head(renderer.queue[t])
  <2>0. /\ UNCHANGED <<flushing, resetInProgress, resetPostponed, scanTimers, driver>>
    BY <1>8 DEF RendererDrain, RendererAlone, Alone, playerVars, resetVars
  <2>1. CASE e = "buffer"
    <3>1. mainQ' = mainQ \o MainPart(t, Consumed(t))
      BY <1>8, <2>1 DEF RendererDrain
    <3> QED
      BY <2>0, <3>1, HarmlessNotes, RPosts
  <2>2. CASE e # "buffer"
    <3>1. mainQ' = Append(mainQ, Msg("player", "RendererEOS", t, e))
      BY <1>8, <2>2 DEF RendererDrain
    <3>2. e \in {"eos", "err"}
      <4>1. renderer.queue[t] \in Seq(Entry) /\ renderer.queue[t] # <<>>
        BY <1>8 DEF RendererDrain, RInv, TypeOK, RendererTypeOK, Renderer
      <4> QED
        BY <2>2, <4>1, HeadTailProperties DEF Entry
    <3>3. Msg("player", "RendererEOS", t, e) \in Message
      BY <3>2, MsgType DEF Handlers, Whats, Args
    <3>4. <<Msg("player", "RendererEOS", t, e)>> \in Seq(Harmless)
      BY <3>3, OneHarmless DEF Msg
    <3>5. mainQ' = mainQ \o <<Msg("player", "RendererEOS", t, e)>>
      BY <3>1, <3>3, AppendIsConcat DEF RInv, TypeOK, LoopersTypeOK
    <3> QED
      BY <2>0, <3>4, <3>5, RPosts
  <2> QED
    BY <2>1, <2>2
<1> QED
  BY <1>3, <1>4, <1>5, <1>6, <1>7, <1>8 DEF RendererHandles

(* A codec posts reports.                                                     *)
Hearing(t) ==
    \E what \in {"Setup", "Flush", "Shutdown", "Resume", "InputBufferFilled", "OutputBufferDrained"} :
        CodecDue(t, what)

Reports(t, notes) ==
    \E c : CodecActs(t, c, notes) \/ (CodecHears(t, c, notes) /\ Hearing(t))

LEMMA RReports ==
    ASSUME RInv, TypeOK', WaitedForHasDecoder', Aside,
           NEW t \in AV, NEW notes \in Seq(Harmless), Reports(t, notes)
    PROVE  RInv'
<1>1. UNCHANGED <<flushing, resetInProgress, resetPostponed, scanTimers, driver>>
  BY DEF Reports, CodecActs, CodecHears, Aside, CodecAlone, Alone, Spends, playerVars, resetVars
<1>2. CASE mainQ' = mainQ \o notes
  BY <1>1, <1>2, RPosts
<1>3. CASE mainQ' # mainQ \o notes
  <2>1. t # Video /\ mainQ' = Tail(mainQ) \o notes /\ Hearing(t)
    BY <1>3 DEF Reports, CodecActs, CodecHears, CodecTakes
  <2>2. mainQ # <<>> /\ Head(mainQ).what # "Reset"
    BY <2>1 DEF Hearing, CodecDue, CodecQueue
  <2> QED
    BY <1>1, <2>1, <2>2, RTakes
<1> QED
  BY <1>2, <1>3

LEMMA RCodecs ==
    ASSUME RInv, TypeOK', WaitedForHasDecoder', NEW t \in AV,
           \/ CodecHandles(t) \/ ComponentAnswers(t)
           \/ ComponentWorks(t) /\ ~(RendererDrain(t) /\ RendererAlone)
           \/ ComponentChanges(t) \/ ComponentFails(t)
    PROVE  RInv'
<1> DEFINE c == codec[t]
<1>0. /\ CodecAlone => Aside
      /\ \A what \in Spendable : Spends(what) => Aside
      /\ {"error", "port"} \subseteq Spendable
      /\ c \in Codec
  BY DEF Aside, Spendable, RInv, TypeOK, CodecTypeOK
<1> HIDE DEF c
<1>1. CASE CodecHandles(t)
  <2>1. CASE CodecSetup(t) /\ CodecAlone
    <3>1. Reports(t, <<>>)
      BY <2>1 DEF CodecSetup, Reports, Hearing
    <3> QED
      BY <1>0, <2>1, <3>1, HarmlessNotes, RReports
  <2>2. CASE CodecFlush(t) /\ CodecAlone
    <3>1. Reports(t, <<>>) \/ Reports(t, <<Notify(t, "FlushCompleted", "-")>>)
      BY <2>2 DEF CodecFlush, Reports, Hearing
    <3> QED
      BY <1>0, <2>2, <3>1, HarmlessNotes, HarmlessReports, RReports
  <2>3. CASE CodecShutdown(t) /\ CodecAlone
    <3>1. Reports(t, <<>>) \/ Reports(t, <<Notify(t, "ShutdownCompleted", "-")>>)
      BY <2>3 DEF CodecShutdown, Reports, Hearing
    <3> QED
      BY <1>0, <2>3, <3>1, HarmlessNotes, HarmlessReports, RReports
  <2>4. CASE CodecResume(t) /\ CodecAlone
    <3>1. Reports(t, <<>>) \/ Reports(t, Ask(t, codec[t]))
      BY <2>4 DEF CodecResume, Reports, Hearing
    <3> QED
      BY <1>0, <2>4, <3>1, HarmlessNotes, HarmlessReports, RReports
  <2>5. CASE (CodecInputFilled(t) \/ CodecOutputDrained(t)) /\ CodecAlone
    <3>1. Reports(t, <<>>)
      BY <2>5 DEF CodecInputFilled, CodecOutputDrained, Reports, Hearing
    <3> QED
      BY <1>0, <2>5, <3>1, HarmlessNotes, RReports
  <2> QED
    BY <1>1, <2>1, <2>2, <2>3, <2>4, <2>5 DEF CodecHandles
<1>2. ASSUME Aside,
             \/ CodecStarted(t) \/ CodecShutdownDone(t) \/ CodecPortFlushed(t)
             \/ \E again \in BOOLEAN : CodecFlushDone(t, again) \/ CodecPortDone(t, again)
      PROVE  RInv'
  <2>1. \E notes \in {<<>>, Ask(t, codec[t]), <<Notify(t, "FlushCompleted", "-")>>,
                      <<Notify(t, "ShutdownCompleted", "-")>>} : Reports(t, notes)
    BY <1>2 DEF CodecStarted, CodecShutdownDone, CodecPortFlushed, CodecFlushDone, CodecPortDone, Reports
  <2> QED
    BY <1>2, <2>1, HarmlessNotes, HarmlessReports, RReports
<1>3. ASSUME Aside, CodecAsks(t) \/ CodecDrains(t) \/ CodecDecodes(t) \/ CodecEnds(t)
      PROVE  RInv'
  <2>1. CASE CodecEnds(t)
    <3>1. codec[t].eos \in {"eos", "err"} /\ Reports(t, <<Notify(t, "EOS", codec[t].eos)>>)
      BY <1>0, <2>1 DEF CodecEnds, Reports, Codec, c
    <3> QED
      BY <1>3, <3>1, HarmlessReports, RReports
  <2>2. CASE ~CodecEnds(t)
    <3>1. \E notes \in {Ask(t, codec[t]), <<Notify(t, "DrainThisBuffer", "-")>>,
                        <<Notify(t, "DrainThisBuffer", "-")>> \o Ask(t, codec[t])} : Reports(t, notes)
      BY <1>3, <2>2 DEF CodecAsks, CodecDrains, CodecDecodes, Reports
    <3>2. <<Notify(t, "DrainThisBuffer", "-")>> \o Ask(t, codec[t]) \in Seq(Harmless)
      BY HarmlessReports, ConcatProperties
    <3> QED
      BY <1>3, <3>1, <3>2, HarmlessReports, RReports
  <2> QED
    BY <2>1, <2>2
<1>4. ASSUME Aside,
             \/ CodecPortChanges(t) \/ CodecSetupFails(t) \/ CodecError(t)
             \/ CodecOutputDrainedFails(t) \/ CodecPortFails(t)
      PROVE  RInv'
  <2>1. \E notes \in {<<>>, <<Notify(t, "Error", "-")>>,
                      <<Notify(t, "Error", "-"), Notify(t, "ShutdownCompleted", "-")>>} : Reports(t, notes)
    BY <1>4 DEF CodecPortChanges, CodecSetupFails, CodecError, CodecOutputDrainedFails, CodecPortFails,
                Reports, Hearing
  <2>2. <<Notify(t, "Error", "-"), Notify(t, "ShutdownCompleted", "-")>> \in Seq(Harmless)
    <3>1. <<Notify(t, "Error", "-"), Notify(t, "ShutdownCompleted", "-")>>
            = <<Notify(t, "Error", "-")>> \o <<Notify(t, "ShutdownCompleted", "-")>>
      OBVIOUS
    <3>2. <<Notify(t, "Error", "-")>> \in Seq(Harmless) /\ <<Notify(t, "ShutdownCompleted", "-")>> \in Seq(Harmless)
      BY HarmlessReports
    <3> QED
      BY <3>1, <3>2, ConcatProperties
  <2> QED
    BY <1>4, <2>1, <2>2, HarmlessNotes, HarmlessReports, RReports
<1>5. CASE ComponentAnswers(t)
  BY <1>0, <1>2, <1>5 DEF ComponentAnswers
<1>6. CASE ComponentWorks(t) /\ ~(RendererDrain(t) /\ RendererAlone)
  BY <1>0, <1>3, <1>6 DEF ComponentWorks
<1>7. CASE ComponentChanges(t) \/ ComponentFails(t)
  BY <1>0, <1>2, <1>4, <1>7 DEF ComponentChanges, ComponentFails
<1> QED
  BY <1>1, <1>5, <1>6, <1>7

LEMMA RTimers ==
    ASSUME RInv, TypeOK', WaitedForHasDecoder', TimerFires
    PROVE  RInv'
<1>1. ASSUME NEW t \in AV, FillTimerFires(t), TimersAlone PROVE RInv'
  <2>1. /\ UNCHANGED <<flushing, resetInProgress, resetPostponed, scanTimers, driver>>
        /\ mainQ' = Append(mainQ, Msg("player", "FillThisBuffer", t, "-"))
    BY <1>1 DEF FillTimerFires, TimersAlone, Alone, playerVars, resetVars
  <2>2. Msg("player", "FillThisBuffer", t, "-") \in Message
    BY MsgType DEF Handlers, Whats, Args
  <2>3. <<Msg("player", "FillThisBuffer", t, "-")>> \in Seq(Harmless)
    BY <2>2, OneHarmless DEF Msg
  <2>4. mainQ' = mainQ \o <<Msg("player", "FillThisBuffer", t, "-")>>
    BY <2>1, <2>2, AppendIsConcat DEF RInv, TypeOK, LoopersTypeOK
  <2> QED
    BY <2>1, <2>3, <2>4, RPosts
<1>2. ASSUME NEW g \in {"cur", "old"}, ScanTimerFires(g), TimersAlone PROVE RInv'
  <2> DEFINE m == Msg("player", "ScanSources", "-", g)
             s == <<m>>
  <2>1. /\ UNCHANGED <<flushing, resetInProgress, resetPostponed, driver>>
        /\ mainQ' = Append(mainQ, m) /\ scanTimers[g] > 0
        /\ scanTimers' = [scanTimers EXCEPT ![g] = @ - 1]
    BY <1>2 DEF ScanTimerFires, TimersAlone, Alone, playerVars, resetVars
  <2>2. m \in Message
    BY MsgType DEF Handlers, Whats, Args
  <2>3. mainQ \in Seq(Message) /\ scanTimers \in [{"cur", "old"} -> Nat]
    BY DEF RInv, TypeOK, LoopersTypeOK
  <2>4. s \in Seq(Message) /\ mainQ' = mainQ \o s /\ Len(s) = 1 /\ s[1] = m
    BY <2>1, <2>2, <2>3, AppendIsConcat
  <2>5. m \notin Openers /\ m \notin Resets /\ m \notin Strange /\ (g = "old" => m \notin CurScans)
    BY DEF Msg, Openers, Resets, Strange, CurScans
  <2> HIDE DEF m, s
  <2>6. NoneOf(s, Openers) /\ NoneOf(s, Resets) /\ NoneOf(s, Strange) /\ (g = "old" => NoneOf(s, CurScans))
    BY <2>4, <2>5 DEF NoneOf
  <2>7. Hits(mainQ', Resets) = Hits(mainQ, Resets)
    <3>1. Hits(s, Resets) = 0
      BY <2>4, <2>6, HitsNone DEF NoneOf
    <3>2. Hits(mainQ \o s, Resets) = Hits(mainQ, Resets) + Hits(s, Resets) /\ Hits(mainQ, Resets) \in Nat
      BY <2>3, <2>4, HitsConcat, HitsType
    <3> QED
      BY <2>4, <3>1, <3>2
  <2>8. Behind(mainQ') /\ NoneOf(mainQ', Strange) /\ ResetHasOwner' /\ OneReset'
    BY <2>1, <2>3, <2>4, <2>6, <2>7, NoneOfJoin DEF RInv, ResetHasOwner, OneReset, Resetting
  <2>9. NoScanInReset'
    <3>1. CASE ~resetInProgress
      BY <2>1, <3>1 DEF NoScanInReset
    <3>2. CASE resetInProgress
      <4>1. g = "old" /\ scanTimers'["cur"] = 0 /\ Shut(mainQ)
        BY <2>1, <2>3, <3>2 DEF RInv, NoScanInReset
      <4>2. Shut(mainQ')
        BY <2>3, <2>4, <2>6, <4>1, NoneOfJoin DEF Shut
      <4> QED
        BY <2>1, <3>2, <4>1, <4>2 DEF RInv, NoScanInReset
    <3> QED
      BY <3>1, <3>2
  <2> QED
    BY <2>8, <2>9 DEF RInv
<1> QED
  BY <1>1, <1>2 DEF TimerFires

-----------------------------------------------------------------------------
(*                       Steps that flush, scan or reset                      *)

LEMMA OneOfThree ==
    ASSUME NEW n \in Nat, NEW a \in BOOLEAN, NEW b \in BOOLEAN, NEW c \in BOOLEAN,
           n + One(a) + One(b) = One(c)
    PROVE  /\ a => n = 0 /\ ~b /\ c
           /\ b => n = 0 /\ ~a /\ c
           /\ n > 0 => n = 1 /\ ~a /\ ~b /\ c
           /\ ~c => n = 0 /\ ~a /\ ~b
  BY DEF One

(* What OneReset says, without the sum.                                       *)
LEMMA ResetIsInOnePlace ==
    ASSUME RInv
    PROVE  /\ resetInProgress => NoneOf(mainQ, Resets) /\ ~resetPostponed /\ driver.reset = "waiting"
           /\ resetPostponed => NoneOf(mainQ, Resets) /\ ~resetInProgress /\ driver.reset = "waiting"
           /\ driver.reset # "waiting" => NoneOf(mainQ, Resets) /\ ~resetInProgress /\ ~resetPostponed
           /\ mainQ # <<>> /\ Head(mainQ) \in Resets =>
                  /\ ~resetInProgress /\ ~resetPostponed /\ driver.reset = "waiting"
                  /\ NoneOf(Tail(mainQ), Resets)
<1>1. mainQ \in Seq(Message) /\ resetInProgress \in BOOLEAN /\ resetPostponed \in BOOLEAN
  BY DEF RInv, TypeOK, LoopersTypeOK
<1> DEFINE n == Hits(mainQ, Resets)
           waits == driver.reset = "waiting"
<1>2. n \in Nat /\ (n = 0 => NoneOf(mainQ, Resets))
  BY <1>1, HitsType, HitsNone DEF NoneOf
<1>3. n + One(resetInProgress) + One(resetPostponed) = One(waits)
  BY DEF RInv, OneReset, Resetting
<1>4. mainQ # <<>> /\ Head(mainQ) \in Resets =>
          n > 0 /\ (n = 1 => NoneOf(Tail(mainQ), Resets))
  <2> SUFFICES ASSUME mainQ # <<>>, Head(mainQ) \in Resets
               PROVE  n > 0 /\ (n = 1 => NoneOf(Tail(mainQ), Resets))
    OBVIOUS
  <2>1. n = (IF Head(mainQ) \in Resets THEN 1 ELSE 0) + Hits(Tail(mainQ), Resets)
    BY <1>1, HitsHead
  <2>2. Tail(mainQ) \in Seq(Message)
    BY <1>1, NoneOfTail
  <2>3. Hits(Tail(mainQ), Resets) \in Nat
    BY <2>2, HitsType
  <2>4. n = 1 + Hits(Tail(mainQ), Resets)
    BY <2>1
  <2>5. Hits(Tail(mainQ), Resets) = 0 => NoneOf(Tail(mainQ), Resets)
    BY <2>2, HitsNone DEF NoneOf
  <2> HIDE DEF n
  <2> QED
    BY <2>3, <2>4, <2>5
<1> HIDE DEF n
<1>5. /\ resetInProgress => n = 0 /\ ~resetPostponed /\ waits
      /\ resetPostponed => n = 0 /\ ~resetInProgress /\ waits
      /\ n > 0 => n = 1 /\ ~resetInProgress /\ ~resetPostponed /\ waits
      /\ ~waits => n = 0 /\ ~resetInProgress /\ ~resetPostponed
  <2>1. waits \in BOOLEAN
    OBVIOUS
  <2> HIDE DEF waits
  <2> QED
    BY <1>1, <1>2, <1>3, <2>1, OneOfThree
<1> QED
  BY <1>2, <1>4, <1>5

(* And the other way round.                                                   *)
LEMMA ResetIsHere ==
    ASSUME mainQ' \in Seq(Message), driver'.reset = "waiting",
           \/ /\ resetInProgress' = TRUE /\ resetPostponed' = FALSE /\ NoneOf(mainQ', Resets)
           \/ /\ resetInProgress' = FALSE /\ resetPostponed' = TRUE /\ NoneOf(mainQ', Resets)
           \/ /\ resetInProgress' = FALSE /\ resetPostponed' = FALSE /\ Hits(mainQ', Resets) = 1
    PROVE  OneReset'
<1>1. NoneOf(mainQ', Resets) => Hits(mainQ', Resets) = 0
  BY HitsNone DEF NoneOf
<1>2. One(driver'.reset = "waiting") = 1
  BY DEF One
<1>3. One(resetInProgress') = (IF resetInProgress' THEN 1 ELSE 0)
      /\ One(resetPostponed') = (IF resetPostponed' THEN 1 ELSE 0)
  BY DEF One
<1>4. Hits(mainQ', Resets) + One(resetInProgress') + One(resetPostponed') = 1
  BY <1>1, <1>3
<1> QED
  BY <1>2, <1>4 DEF OneReset, Resetting

LEMMA ResetIsOver ==
    ASSUME mainQ' \in Seq(Message), driver'.reset # "waiting",
           resetInProgress' = FALSE, resetPostponed' = FALSE, NoneOf(mainQ', Resets)
    PROVE  OneReset'
<1>1. Hits(mainQ', Resets) = 0
  BY HitsNone DEF NoneOf
<1>2. One(driver'.reset = "waiting") = 0 /\ One(resetInProgress') = 0 /\ One(resetPostponed') = 0
  BY DEF One
<1>3. Hits(mainQ', Resets) + One(resetInProgress') + One(resetPostponed') = 0
  BY <1>1, <1>2
<1> QED
  BY <1>2, <1>3 DEF OneReset, Resetting

(* The handlers that let the player scan are not called during a reset.         *)
LEMMA RMayScan ==
    ASSUME RInv, TypeOK', WaitedForHasDecoder', ~resetInProgress,
           UNCHANGED <<resetInProgress, resetPostponed>>, driver'.reset = driver.reset,
           \A t \in AV : IsFlushingState(flushing[t]) => IsFlushingState(flushing'[t]),
           mainQ # <<>>, Head(mainQ).what # "Reset",
           NEW s \in Seq(Message), NoneOf(s, Resets), NoneOf(s, Openers), NoneOf(s, Strange),
           mainQ' = Tail(mainQ) \o s
    PROVE  RInv'
<1>1. mainQ \in Seq(Message)
  BY DEF RInv, TypeOK, LoopersTypeOK
<1>2. GoesOn(mainQ, Tail(mainQ))
  BY <1>1, GoesOnTail DEF Resets
<1>3. Hits(mainQ', Resets) = Hits(mainQ, Resets)
  <2>1. Hits(s, Resets) = 0
    BY HitsNone DEF NoneOf
  <2>2. Tail(mainQ) \in Seq(Message) /\ Hits(Tail(mainQ), Resets) = Hits(mainQ, Resets)
    BY <1>2 DEF GoesOn
  <2>3. /\ Hits(Tail(mainQ) \o s, Resets) = Hits(Tail(mainQ), Resets) + Hits(s, Resets)
        /\ Hits(Tail(mainQ), Resets) \in Nat
    BY ZenonT(60), <2>2, HitsConcat, HitsType
  <2> QED
    BY <2>1, <2>2, <2>3
<1>4. Behind(mainQ') /\ NoneOf(mainQ', Strange)
  BY <1>2, NoneOfJoin DEF RInv, GoesOn
<1>5. ResetHasOwner' /\ OneReset' /\ NoScanInReset'
  BY <1>3 DEF RInv, ResetHasOwner, OneReset, Resetting, NoScanInReset
<1> QED
  BY <1>4, <1>5 DEF RInv

LEMMA ScanNowDoes ==
    /\ ScanNow \in Seq(Message)
    /\ NoneOf(ScanNow, Resets) /\ NoneOf(ScanNow, Openers) /\ NoneOf(ScanNow, Strange)
<1>1. ScanNow \in Seq(Message) /\ Len(ScanNow) = 1 /\ ScanNow[1] = Msg("player", "ScanSources", "-", "cur")
  BY NotesType DEF ScanNow
<1>2. /\ Msg("player", "ScanSources", "-", "cur") \notin Resets
      /\ Msg("player", "ScanSources", "-", "cur") \notin Openers
      /\ Msg("player", "ScanSources", "-", "cur") \notin Strange
  BY DEF Msg, Resets, Openers, Strange
<1> QED
  BY <1>1, <1>2 DEF NoneOf

LEMMA RStarts ==
    ASSUME RInv, TypeOK', WaitedForHasDecoder', OnStart \/ OnResume
    PROVE  RInv'
<1>1. mainQ \in Seq(Message)
  BY DEF RInv, TypeOK, LoopersTypeOK
<1>2. mainQ # <<>> /\ Head(mainQ) \in Openers
  <2>1. mainQ # <<>> /\ Head(mainQ).to = "player" /\ Head(mainQ).what \in {"Start", "Resume"}
    BY DEF OnStart, OnResume, PlayerDue, Due
  <2> QED
    BY <1>1, <2>1, NoneOfTail DEF Openers
<1>3. ~resetInProgress /\ Head(mainQ).what # "Reset"
  BY <1>1, <1>2, NoneOfTail DEF RInv, NoScanInReset, Shut, Openers
<1>4. \/ OnResume /\ ~renderer.on
      \/ /\ UNCHANGED <<flushing, resetInProgress, resetPostponed, driver>>
         /\ \E s \in {<<>>, ScanNow, ToRenderer("Resume", "-") \o <<>>, ToRenderer("Resume", "-") \o ScanNow} :
                mainQ' = Tail(mainQ) \o s
  BY DEF OnStart, OnResume, Posts, resetVars
<1>5. /\ ToRenderer("Resume", "-") \in Seq(Harmless)
      /\ <<>> \in Seq(Harmless)
  <2>1. "Resume" \in Usual
    BY DEF Usual, Plain, Whats
  <2> QED
    BY <2>1, HarmlessNotes
<1>6. ASSUME NEW s \in {<<>>, ScanNow, ToRenderer("Resume", "-") \o <<>>, ToRenderer("Resume", "-") \o ScanNow}
      PROVE  s \in Seq(Message) /\ NoneOf(s, Resets) /\ NoneOf(s, Openers) /\ NoneOf(s, Strange)
  <2>1. ASSUME NEW a \in {<<>>, ToRenderer("Resume", "-")}, NEW b \in {<<>>, ScanNow}
        PROVE  /\ a \o b \in Seq(Message)
               /\ NoneOf(a \o b, Resets) /\ NoneOf(a \o b, Openers) /\ NoneOf(a \o b, Strange)
    <3>1. /\ a \in Seq(Message) /\ NoneOf(a, Resets) /\ NoneOf(a, Openers) /\ NoneOf(a, Strange)
          /\ b \in Seq(Message) /\ NoneOf(b, Resets) /\ NoneOf(b, Openers) /\ NoneOf(b, Strange)
      BY <1>5, HarmlessDoes, ScanNowDoes
    <3> QED
      BY <3>1, NoneOfJoin, ConcatProperties
  <2>2. s \in {<<>>, ScanNow} => s = <<>> \o s
    BY ScanNowDoes, ConcatEmptySeq, EmptySeq
  <2> QED
    BY <2>1, <2>2
<1>7. CASE OnResume /\ ~renderer.on
  BY <1>7, RAborts DEF OnResume
<1> QED
  BY <1>2, <1>3, <1>4, <1>6, <1>7, RMayScan

LEMMA RScans ==
    ASSUME RInv, TypeOK', WaitedForHasDecoder', OnScanSources
    PROVE  RInv'
<1>1. mainQ \in Seq(Message) /\ mainQ # <<>> /\ Head(mainQ).what = "ScanSources"
  BY DEF RInv, TypeOK, LoopersTypeOK, OnScanSources, PlayerDue, Due
<1>2. CASE pauseIndication \/ Head(mainQ).arg = "old"
  <2>1. /\ UNCHANGED <<flushing, resetInProgress, resetPostponed, scanTimers, driver>>
        /\ mainQ' = Tail(mainQ) \o <<>>
    BY <1>2 DEF OnScanSources, Posts, playerVars, resetVars
  <2> QED
    BY <1>1, <2>1, HarmlessNotes, RTakes
<1>3. CASE ~(pauseIndication \/ Head(mainQ).arg = "old")
  <2>0. ~resetInProgress
    <3>1. Head(mainQ) \in CurScans
      BY <1>1, <1>3, NoneOfTail DEF CurScans
    <3> QED
      BY <1>1, <3>1, NoneOfTail DEF RInv, NoScanInReset, Shut
  <2>1. CASE ~source
    BY <1>3, <2>1, RAborts DEF OnScanSources
  <2>2. CASE source
    <3>1. PICK N \in SUBSET ((Outputs \cup IF HasText THEN {Text} ELSE {}) \ decoders),
               res \in FeedResults : ScanWith(N, res)
      BY <1>3, <2>2 DEF OnScanSources
    <3>2. CASE \E check : Abort(check)
      BY <3>2, RAborts
    <3>3. CASE ~\E check : Abort(check)
      <4>1. PICK event, s :
               /\ UNCHANGED <<resetInProgress, resetPostponed>>
               /\ driver' = DriverAfter(event)
               /\ flushing' = [t \in AV |-> IF t \in N THEN "NONE" ELSE flushing[t]]
               /\ mainQ' = Tail(mainQ) \o s
               /\ s \in {<<>> \o PausePosts(event), <<ToCodec(Audio, "Setup")>> \o PausePosts(event)}
        BY <3>1, <3>3 DEF ScanWith, Posts, resetVars
      <4>2. driver'.reset = driver.reset
        BY <4>1, DriverGoesOn DEF RInv
      <4>3. \A t \in AV : IsFlushingState(flushing[t]) => IsFlushingState(flushing'[t])
        <5> SUFFICES ASSUME NEW t \in AV, IsFlushingState(flushing[t]) PROVE IsFlushingState(flushing'[t])
          OBVIOUS
        <5>1. t \in decoders
          BY WaitsIs DEF RInv, Waits, Pending, IsFlushingState
        <5>2. t \notin N
          BY <5>1
        <5> QED
          BY <4>1, <5>2
      <4>4. s \in Seq(Harmless)
        <5>1. "Setup" \in Usual /\ Audio \in AV
          BY DEF Usual, Plain, Whats, AV
        <5>2. PausePosts(event) \in Seq(Harmless) /\ <<ToCodec(Audio, "Setup")>> \in Seq(Harmless)
              /\ <<>> \in Seq(Harmless)
          BY <5>1, HarmlessNotes
        <5> QED
          BY <4>1, <5>2, ConcatProperties
      <4>5. s \in Seq(Message) /\ NoneOf(s, Resets) /\ NoneOf(s, Openers) /\ NoneOf(s, Strange)
        BY <4>4, HarmlessDoes
      <4>6. Head(mainQ).what # "Reset"
        BY <1>1
      <4> QED
        BY <1>1, <2>0, <4>1, <4>2, <4>3, <4>5, <4>6, RMayScan
    <3> QED
      BY <3>2, <3>3
  <2> QED
    BY <2>1, <2>2
<1> QED
  BY <1>2, <1>3

(* A step that flushes tracks, with a reset before or behind it or none.        *)
LEMMA RFlushes ==
    ASSUME RInv, TypeOK', WaitedForHasDecoder',
           UNCHANGED <<resetInProgress, resetPostponed>>, driver'.reset = driver.reset,
           GoesOn(mainQ, mainQ'),
           \A t \in AV : IsFlushingState(flushing[t]) => IsFlushingState(flushing'[t]),
           (\A t \in AV : ~Flushable(flushing[t])) => \A t \in AV : ~Flushable(flushing'[t]),
           scanTimers' = scanTimers \/ scanTimers'["cur"] = 0
    PROVE  RInv'
<1>1. ResetHasOwner'
  BY DEF RInv, ResetHasOwner
<1>2. OneReset'
  BY DEF RInv, OneReset, Resetting, GoesOn
<1>3. NoScanInReset'
  BY DEF RInv, NoScanInReset, GoesOn
<1> QED
  BY <1>1, <1>2, <1>3 DEF RInv, GoesOn

(* flushDecoder leaves what is being flushed alone, and nothing to be flushed   *)
(* where there was nothing.                                                  *)
LEMMA StatusKeeps ==
    ASSUME NEW status \in [AV -> FlushStatus], NEW S, NEW shutdown, NEW decs
    PROVE  /\ \A t \in AV : IsFlushingState(status[t])
                              => IsFlushingState(StatusAfterFlush(S, shutdown, status, decs)[t])
           /\ \A t \in AV \cap S : IsFlushingState(StatusAfterFlush(S, shutdown, status, decs)[t])
           /\ \A t \in AV : ~Flushable(status[t])
                              => ~Flushable(StatusAfterFlush(S, shutdown, status, decs)[t])
  BY DEF StatusAfterFlush, IsFlushingState, Flushable

LEMMA DropScansDoes == ASSUME DropScans PROVE scanTimers'["cur"] = 0
  BY DEF DropScans, ObsoleteTimers

LEMMA RSeeks ==
    ASSUME RInv, TypeOK', WaitedForHasDecoder', OnSeek
    PROVE  RInv'
<1>0. mainQ \in Seq(Message) /\ flushing \in [AV -> FlushStatus]
  BY DEF RInv, TypeOK, LoopersTypeOK
<1>1. mainQ # <<>> /\ Head(mainQ).what # "Reset"
  BY DEF OnSeek, PlayerDue, Due
<1>2. PICK res \in SeekResults : SeekWith(res)
  BY DEF OnSeek
<1> DEFINE S == IF res = "ok" THEN {t \in AV \cap decoders : Flushable(flushing[t])} ELSE {}
           flushed == IF S = {} THEN flushing ELSE StatusAfterFlush(S, TRUE, flushing, decoders)
           wrong == IF ~source THEN "null source" ELSE IF ~renderer.on THEN "null renderer"
                    ELSE FailedFlushCheck(S, flushing, decoders)
<1>3. CASE wrong # "none"
  BY <1>2, <1>3, RAborts DEF SeekWith
<1>4. CASE wrong = "none"
  <2>1. /\ UNCHANGED <<resetInProgress, resetPostponed, driver>>
        /\ flushing' = IF res = "ok"
                       THEN [t \in AV |-> IF t \in decoders THEN flushed[t] ELSE "SHUT_DOWN"]
                       ELSE flushing
        /\ \/ mainQ' = Tail(mainQ) \o <<>> /\ UNCHANGED scanTimers
           \/ /\ mainQ' = Obsolete(Tail(mainQ)) \o FlushPosts(S, Video) \o FlushPosts(S, Audio)
              /\ DropScans
    BY <1>2, <1>4 DEF SeekWith, Posts, resetVars
  <2>2. /\ \A t \in AV : IsFlushingState(flushing[t]) => IsFlushingState(flushed[t])
        /\ \A t \in AV : ~Flushable(flushing[t]) => ~Flushable(flushed[t])
    BY <1>0, StatusKeeps
  <2> HIDE DEF S, flushed, wrong
  <2>3. \A t \in AV : IsFlushingState(flushing[t]) => IsFlushingState(flushing'[t])
    <3> SUFFICES ASSUME NEW t \in AV, IsFlushingState(flushing[t]) PROVE IsFlushingState(flushing'[t])
      OBVIOUS
    <3>1. t \in decoders
      BY WaitsIs DEF RInv, Waits, Pending, IsFlushingState
    <3> QED
      BY <2>1, <2>2, <3>1
  <2>4. (\A t \in AV : ~Flushable(flushing[t])) => \A t \in AV : ~Flushable(flushing'[t])
    BY <2>1, <2>2 DEF Flushable
  <2>5. GoesOn(mainQ, mainQ')
    <3>1. GoesOn(mainQ, Tail(mainQ)) /\ GoesOn(mainQ, Obsolete(Tail(mainQ)))
      BY <1>0, <1>1, GoesOnTail DEF Resets
    <3>2. FlushPosts(S, Video) \in Seq(Harmless) /\ FlushPosts(S, Audio) \in Seq(Harmless)
          /\ <<>> \in Seq(Harmless)
      BY HarmlessFlush, HarmlessNotes DEF AV
    <3>3. GoesOn(mainQ, Obsolete(Tail(mainQ)) \o FlushPosts(S, Video))
      BY <1>0, <3>1, <3>2, GoesOnJoin
    <3>4. GoesOn(mainQ, Obsolete(Tail(mainQ)) \o FlushPosts(S, Video) \o FlushPosts(S, Audio))
      BY <1>0, <3>2, <3>3, GoesOnJoin
    <3>5. GoesOn(mainQ, Tail(mainQ) \o <<>>)
      BY <1>0, <3>1, <3>2, GoesOnJoin
    <3> QED
      BY <2>1, <3>4, <3>5
  <2>6. scanTimers' = scanTimers \/ scanTimers'["cur"] = 0
    BY <2>1, DropScansDoes
  <2> QED
    BY <2>1, <2>3, <2>4, <2>5, <2>6, RFlushes
<1> QED
  BY <1>3, <1>4

(* finishReset, from wherever the reset has come.                             *)
LEMMA RFinishesReset ==
    ASSUME RInv, TypeOK', WaitedForHasDecoder', NEW q \in Seq(Message), NEW vq, FinishReset(q, vq),
           Behind(q), NoneOf(q, Strange), NoneOf(q, Resets),
           resetInProgress' = FALSE, resetPostponed' = FALSE
    PROVE  RInv'
<1>1. mainQ' = Obsolete(q) /\ driver' = [driver EXCEPT !.reset = "woken"]
  BY DEF FinishReset
<1>2. driver'.reset # "waiting"
  BY <1>1 DEF RInv, TypeOK, Driver
<1>3. mainQ' \in Seq(Message) /\ Behind(mainQ') /\ NoneOf(mainQ', Strange)
  BY <1>1, ObsoleteDoes
<1>4. NoneOf(mainQ', Resets)
  <2>1. Hits(q, Resets) = 0
    BY HitsNone DEF NoneOf
  <2>2. Hits(mainQ', Resets) = 0
    BY <1>1, <2>1, ObsoleteDoes
  <2> QED
    BY <1>3, <2>2, HitsNone DEF NoneOf
<1>5. OneReset'
  BY <1>2, <1>3, <1>4, ResetIsOver
<1>6. ResetHasOwner' /\ NoScanInReset'
  BY DEF ResetHasOwner, NoScanInReset
<1> QED
  BY <1>3, <1>5, <1>6 DEF RInv

LEMMA RResets ==
    ASSUME RInv, TypeOK', WaitedForHasDecoder', OnReset
    PROVE  RInv'
<1> DEFINE live == AV \cap decoders
           awaiting == \E t \in AV : flushing[t] = "AWAITING_DISCONTINUITY"
           notes == IF awaiting THEN ToRenderer("Resume", "-") ELSE <<>>
           q == Tail(mainQ) \o notes
           wrong == FailedFlushCheck(live, flushing, decoders)
           busy == \E t \in live : IsFlushingState(flushing[t])
<1>0. mainQ \in Seq(Message) /\ flushing \in [AV -> FlushStatus]
  BY DEF RInv, TypeOK, LoopersTypeOK
<1>1. mainQ # <<>> /\ Head(mainQ) \in Resets
  <2>1. mainQ # <<>> /\ Head(mainQ).what = "Reset"
    BY DEF OnReset, PlayerDue, Due
  <2> QED
    BY <1>0, <2>1, NoneOfTail DEF Resets
<1>2. ~resetInProgress /\ ~resetPostponed /\ driver.reset = "waiting" /\ NoneOf(Tail(mainQ), Resets)
  BY <1>1, ResetIsInOnePlace
<1>3. notes \in Seq(Harmless)
  <2>1. "Resume" \in Usual
    BY DEF Usual, Plain, Whats
  <2> QED
    BY <2>1, HarmlessNotes
<1> HIDE DEF notes
<1>4. /\ q \in Seq(Message) /\ Behind(q) /\ NoneOf(q, Strange) /\ NoneOf(q, Resets)
      /\ NoneOf(q, Openers)
  <2>1. /\ Tail(mainQ) \in Seq(Message) /\ Behind(Tail(mainQ)) /\ NoneOf(Tail(mainQ), Strange)
        /\ NoneOf(Tail(mainQ), Openers)
    BY <1>0, <1>1, NoneOfTail DEF RInv
  <2>2. /\ notes \in Seq(Message) /\ NoneOf(notes, Openers) /\ NoneOf(notes, Strange)
        /\ NoneOf(notes, Resets)
    BY <1>3, HarmlessDoes
  <2> QED
    BY <1>2, <2>1, <2>2, NoneOfJoin, ConcatProperties
<1>5. CASE busy
  <2>1. /\ resetPostponed' = TRUE /\ mainQ' = q
        /\ UNCHANGED <<resetInProgress, flushing, driver, scanTimers>>
    BY <1>5 DEF OnReset, notes
  <2> HIDE DEF q
  <2>2. OneReset'
    BY <1>2, <1>4, <2>1, ResetIsHere DEF RInv, TypeOK
  <2>3. ResetHasOwner'
    BY <1>5, <2>1 DEF ResetHasOwner
  <2>4. NoScanInReset'
    BY <1>2, <2>1 DEF NoScanInReset
  <2> QED
    BY <1>4, <2>1, <2>2, <2>3, <2>4 DEF RInv
<1>6. CASE ~busy /\ live = {}
  <2>1. CASE FailedResetCheck(decoders) # "none"
    BY <1>6, <2>1, RAborts DEF OnReset
  <2>2. CASE FailedResetCheck(decoders) = "none"
    <3>1. FinishReset(q, videoQ) /\ UNCHANGED <<resetInProgress, resetPostponed>>
      BY <1>6, <2>2 DEF OnReset, notes, resetVars
    <3> HIDE DEF q
    <3> QED
      BY <1>2, <1>4, <3>1, RFinishesReset DEF RInv, TypeOK
  <2> QED
    BY <2>1, <2>2
<1>7. CASE ~busy /\ live # {} /\ wrong # "none"
  BY <1>7, RAborts DEF OnReset
<1>8. CASE ~busy /\ live # {} /\ wrong = "none"
  <2>1. /\ mainQ' = Obsolete(q) \o FlushPosts(live, Audio) \o FlushPosts(live, Video)
        /\ DropScans
        /\ flushing' = StatusAfterFlush(live, TRUE, flushing, decoders)
        /\ resetInProgress' = TRUE
        /\ UNCHANGED <<resetPostponed, driver>>
    BY <1>8 DEF OnReset, notes
  <2> HIDE DEF q
  <2>2. /\ Obsolete(q) \in Seq(Message) /\ Behind(Obsolete(q)) /\ NoneOf(Obsolete(q), Strange)
        /\ NoneOf(Obsolete(q), Openers) /\ NoneOf(Obsolete(q), CurScans)
        /\ NoneOf(Obsolete(q), Resets)
    <3>1. Hits(q, Resets) = 0
      BY <1>4, HitsNone DEF NoneOf
    <3>2. Obsolete(q) \in Seq(Message) /\ Hits(Obsolete(q), Resets) = 0
      BY <1>4, <3>1, ObsoleteDoes
    <3>3. NoneOf(Obsolete(q), Resets)
      BY <3>2, HitsNone DEF NoneOf
    <3> QED
      BY <1>4, <3>2, <3>3, ObsoleteDoes
  <2>3. /\ mainQ' \in Seq(Message) /\ Behind(mainQ') /\ NoneOf(mainQ', Strange)
        /\ NoneOf(mainQ', Openers) /\ NoneOf(mainQ', CurScans) /\ NoneOf(mainQ', Resets)
    <3> DEFINE a == FlushPosts(live, Audio)
               b == FlushPosts(live, Video)
    <3>1. a \in Seq(Harmless) /\ b \in Seq(Harmless)
      BY HarmlessFlush DEF AV
    <3>2. mainQ' = Obsolete(q) \o a \o b
      BY <2>1
    <3> HIDE DEF a, b
    <3>3. /\ Obsolete(q) \o a \in Seq(Message) /\ Behind(Obsolete(q) \o a) /\ NoneOf(Obsolete(q) \o a, Strange)
          /\ NoneOf(Obsolete(q) \o a, Openers) /\ NoneOf(Obsolete(q) \o a, CurScans)
          /\ NoneOf(Obsolete(q) \o a, Resets)
      BY <2>2, <3>1, HarmlessDoes, NoneOfJoin, ConcatProperties
    <3> QED
      BY <3>1, <3>2, <3>3, HarmlessDoes, NoneOfJoin, ConcatProperties
  <2>4. OneReset'
    BY <1>2, <2>1, <2>3, ResetIsHere DEF RInv, TypeOK
  <2>5. ResetHasOwner'
    <3>1. \E t \in AV : IsFlushingState(flushing'[t])
      BY <1>0, <1>8, <2>1, StatusKeeps
    <3> QED
      BY <3>1 DEF ResetHasOwner
  <2>6. \A t \in AV : ~Flushable(flushing'[t])
    <3> SUFFICES ASSUME NEW t \in AV PROVE ~Flushable(flushing'[t])
      OBVIOUS
    <3>1. CASE t \in live
      BY <2>1, <3>1 DEF StatusAfterFlush, Flushable
    <3>2. CASE t \notin live
      <4>1. t \notin decoders
        BY <3>2
      <4>2. flushing[t] # "AWAITING_DISCONTINUITY"
        BY <4>1, WaitsIs DEF RInv, Waits, Pending
      <4> QED
        BY <2>1, <3>2, <4>1, <4>2 DEF StatusAfterFlush, Flushable
    <3> QED
      BY <3>1, <3>2
  <2>7. NoScanInReset'
    BY <2>1, <2>3, <2>6, DropScansDoes DEF NoScanInReset, Shut
  <2> QED
    BY <2>3, <2>4, <2>5, <2>7 DEF RInv
<1> QED
  BY <1>5, <1>6, <1>7, <1>8

(* What follows a flush that is over everywhere: a reset in progress is done,    *)
(* a postponed one is posted again, and a scan is due only if there is none.    *)
LEMMA RAllFlushed ==
    ASSUME RInv, TypeOK', WaitedForHasDecoder', NEW q, NEW vq, NEW decs,
           GoesOn(mainQ, q), AllFlushed(q, vq, decs)
    PROVE  RInv'
<1> DEFINE rq == IF Audio \in Survivors(decs) THEN Append(q, ToCodec(Audio, "Resume")) ELSE q
           rv == IF Video \in Survivors(decs) THEN Append(vq, ToCodec(Video, "Resume")) ELSE vq
           rescan == ScanAfterFlush(decs)
<1>0. mainQ \in Seq(Message) /\ resetInProgress \in BOOLEAN /\ resetPostponed \in BOOLEAN
  BY DEF RInv, TypeOK, LoopersTypeOK
<1>1. GoesOn(mainQ, rq)
  <2>1. "Resume" \in Usual /\ Audio \in AV
    BY DEF Usual, Plain, Whats, AV
  <2>2. <<ToCodec(Audio, "Resume")>> \in Seq(Harmless)
    BY <2>1, HarmlessNotes
  <2>3. ToCodec(Audio, "Resume") \in Message /\ q \in Seq(Message)
    BY <2>1, NotesType DEF Usual, GoesOn
  <2>4. Append(q, ToCodec(Audio, "Resume")) = q \o <<ToCodec(Audio, "Resume")>>
    BY <2>3, AppendIsConcat
  <2> QED
    BY <1>0, <2>2, <2>4, GoesOnJoin
<1>2. rq \in Seq(Message) /\ Behind(rq) /\ NoneOf(rq, Strange) /\ Hits(rq, Resets) = Hits(mainQ, Resets)
  BY <1>1 DEF GoesOn, RInv
<1>3. NoneOf(mainQ, Resets) => NoneOf(rq, Resets)
  <2>1. NoneOf(mainQ, Resets) => Hits(mainQ, Resets) = 0
    BY <1>0, HitsNone DEF NoneOf
  <2>2. Hits(rq, Resets) = 0 => NoneOf(rq, Resets)
    BY <1>2, HitsNone DEF NoneOf
  <2> QED
    BY <1>2, <2>1, <2>2
<1>4. CASE \E check : Abort(check)
  BY <1>4, RAborts
<1>5. CASE ~\E check : Abort(check)
  <2>1. /\ resetInProgress' = FALSE
        /\ IF resetInProgress
           THEN FinishReset(rq, rv) /\ UNCHANGED resetPostponed
           ELSE /\ mainQ' = rq \o PostedAfterFlush(decs)
                /\ resetPostponed' = FALSE
                /\ UNCHANGED driver
    BY <1>5 DEF AllFlushed
  <2> HIDE DEF rq, rv
  <2>2. CASE resetInProgress
    <3>1. NoneOf(rq, Resets) /\ resetPostponed' = FALSE
      BY <1>3, <2>1, <2>2, ResetIsInOnePlace
    <3>2. FinishReset(rq, rv) /\ resetInProgress' = FALSE
      BY <2>1, <2>2
    <3> QED
      BY <1>2, <3>1, <3>2, RFinishesReset
  <2>3. CASE ~resetInProgress /\ resetPostponed
    <3> DEFINE m == Msg("player", "Reset", "-", "-")
               s == <<m>>
    <3>1. mainQ' = rq \o s /\ resetInProgress' = FALSE /\ resetPostponed' = FALSE /\ driver' = driver
      BY <2>1, <2>3 DEF PostedAfterFlush
    <3>2. m \in Message /\ m \in Resets /\ m \notin Openers /\ m \notin Strange
      <4>1. m \in Message
        BY MsgType DEF Handlers, Whats, Args
      <4> QED
        BY <4>1 DEF Msg, Resets, Openers, Strange
    <3>3. s \in Seq(Message) /\ Len(s) = 1 /\ s[1] = m /\ s # <<>> /\ Head(s) = m /\ Tail(s) = <<>>
      BY <3>2
    <3> HIDE DEF m, s
    <3>4. NoneOf(s, Openers) /\ NoneOf(s, Strange)
      BY <3>2, <3>3 DEF NoneOf
    <3>5. Hits(s, Resets) = 1
      <4>1. Hits(s, Resets) = (IF m \in Resets THEN 1 ELSE 0) + Hits(<<>>, Resets)
        <5>1. Hits(s, Resets) = (IF Head(s) \in Resets THEN 1 ELSE 0) + Hits(Tail(s), Resets)
          BY <3>3, HitsHead
        <5> QED
          BY <3>3, <5>1
      <4> QED
        BY <3>2, <4>1, HitsEmpty
    <3>6. NoneOf(rq, Resets) /\ driver.reset = "waiting"
      BY <1>3, <2>3, ResetIsInOnePlace
    <3>7. Hits(mainQ', Resets) = 1
      <4>1. Hits(rq, Resets) = 0
        BY <1>2, <3>6, HitsNone DEF NoneOf
      <4>2. Hits(rq \o s, Resets) = Hits(rq, Resets) + Hits(s, Resets)
        BY <1>2, <3>3, HitsConcat
      <4> QED
        BY <3>1, <3>5, <4>1, <4>2
    <3>8. mainQ' \in Seq(Message) /\ Behind(mainQ') /\ NoneOf(mainQ', Strange)
      BY <1>2, <3>1, <3>3, <3>4, NoneOfJoin, ConcatProperties
    <3>9. OneReset'
      BY <3>1, <3>6, <3>7, <3>8, ResetIsHere
    <3> QED
      BY <3>1, <3>8, <3>9 DEF RInv, ResetHasOwner, NoScanInReset
  <2>4. CASE ~resetInProgress /\ ~resetPostponed
    <3>1. PICK s \in {<<>>, ScanNow} : mainQ' = rq \o s
      BY <2>1, <2>4 DEF PostedAfterFlush
    <3>2. UNCHANGED <<resetInProgress, resetPostponed, driver>>
      BY <1>0, <2>1, <2>4
    <3>3. s \in Seq(Message) /\ NoneOf(s, Resets) /\ NoneOf(s, Openers) /\ NoneOf(s, Strange)
      BY HarmlessNotes, HarmlessDoes, ScanNowDoes
    <3>4. Hits(mainQ', Resets) = Hits(mainQ, Resets)
      <4>1. Hits(s, Resets) = 0
        BY <3>3, HitsNone DEF NoneOf
      <4>2. rq \in Seq(Message) /\ s \in Seq(Message)
        BY <1>2, <3>3
      <4>3. Hits(rq \o s, Resets) = Hits(rq, Resets) + Hits(s, Resets)
        BY ZenonT(60), <4>2, HitsConcat
      <4>4. Hits(rq, Resets) \in Nat
        BY <4>2, HitsType
      <4> QED
        BY <1>2, <3>1, <4>1, <4>3, <4>4
    <3>5. OneReset'
      BY <3>2, <3>4 DEF RInv, OneReset, Resetting
    <3>6. Behind(mainQ') /\ NoneOf(mainQ', Strange)
      BY <1>2, <3>1, <3>3, NoneOfJoin
    <3> QED
      BY <2>4, <3>2, <3>5, <3>6 DEF RInv, ResetHasOwner, NoScanInReset
  <2> QED
    BY <2>2, <2>3, <2>4
<1> QED
  BY <1>4, <1>5

(* finishFlushIfPossible: whoever is not done has a decoder, and during a reset  *)
(* that decoder is being flushed, or is flushed now.                          *)
LEMMA RFinish ==
    ASSUME RInv, TypeOK', WaitedForHasDecoder',
           NEW status \in [AV -> FlushStatus], NEW decs, NEW q, NEW vq, GoesOn(mainQ, q),
           resetInProgress => \A t \in AV : ~Flushable(status[t]),
           resetInProgress \/ resetPostponed =>
               \A t \in AV : status[t] \notin {"FLUSHED", "SHUT_DOWN"} => t \in decs,
           FinishFlushIfPossible(status, decs, q, vq)
    PROVE  RInv'
<1> DEFINE again == FlushedForReset(status, decs)
           wrong == FailedFlushCheck(again, status, decs)
           some  == \E t \in AV : status[t] \notin {"FLUSHED", "SHUT_DOWN"}
<1>0. mainQ \in Seq(Message)
  BY DEF RInv, TypeOK, LoopersTypeOK
<1>1. CASE wrong # "none"
  BY <1>1, RAborts DEF FinishFlushIfPossible
<1>2. CASE wrong = "none" /\ again # {}
  <2>1. /\ mainQ' = Obsolete(q) \o FlushPosts(again, Audio) \o FlushPosts(again, Video)
        /\ flushing' = StatusAfterFlush(again, TRUE, status, decs)
        /\ UNCHANGED <<resetInProgress, resetPostponed, driver>>
    BY <1>2 DEF FinishFlushIfPossible, resetVars
  <2>2. resetPostponed /\ ~resetInProgress
    <3>1. resetPostponed
      BY <1>2 DEF FlushedForReset
    <3> QED
      BY <3>1, ResetIsInOnePlace
  <2>3. \E t \in AV : IsFlushingState(flushing'[t])
    <3>1. again \subseteq AV
      BY DEF FlushedForReset
    <3> HIDE DEF again
    <3>2. PICK t \in AV \cap again : TRUE
      BY <1>2, <3>1
    <3> QED
      BY <2>1, <3>2, StatusKeeps
  <2>4. GoesOn(mainQ, mainQ')
    <3>1. FlushPosts(again, Audio) \in Seq(Harmless) /\ FlushPosts(again, Video) \in Seq(Harmless)
      BY HarmlessFlush DEF AV
    <3> HIDE DEF again
    <3>2. GoesOn(mainQ, Obsolete(q))
      BY GoesOnObsolete
    <3>3. GoesOn(mainQ, Obsolete(q) \o FlushPosts(again, Audio))
      BY <1>0, <3>1, <3>2, GoesOnJoin
    <3>4. GoesOn(mainQ, Obsolete(q) \o FlushPosts(again, Audio) \o FlushPosts(again, Video))
      BY <1>0, <3>1, <3>3, GoesOnJoin
    <3> QED
      BY <2>1, <3>4
  <2>5. OneReset' /\ NoScanInReset' /\ ResetHasOwner'
    BY <2>1, <2>2, <2>3, <2>4 DEF RInv, OneReset, Resetting, GoesOn, NoScanInReset, ResetHasOwner
  <2> QED
    BY <2>4, <2>5 DEF RInv, GoesOn
<1>3. CASE wrong = "none" /\ again = {} /\ some
  <2>1. /\ mainQ' = q /\ flushing' = status
        /\ UNCHANGED <<resetInProgress, resetPostponed, driver, scanTimers>>
    BY <1>3 DEF FinishFlushIfPossible, resetVars
  <2>2. ResetHasOwner'
    <3> SUFFICES ASSUME resetInProgress \/ resetPostponed PROVE \E t \in AV : IsFlushingState(status[t])
      BY <2>1 DEF ResetHasOwner
    <3>1. PICK u \in AV : status[u] \notin {"FLUSHED", "SHUT_DOWN"}
      BY <1>3
    <3>2. u \in decs
      BY <3>1
    <3>3. ~Flushable(status[u])
      <4>1. CASE resetInProgress
        BY <4>1
      <4>2. CASE resetPostponed
        BY <1>3, <3>2, <4>2 DEF FlushedForReset
      <4> QED
        BY <4>1, <4>2
    <3> QED
      BY <3>1, <3>3 DEF FlushStatus, Flushable, IsFlushingState
  <2>3. OneReset' /\ NoScanInReset'
    BY <2>1 DEF RInv, OneReset, Resetting, GoesOn, NoScanInReset
  <2> QED
    BY <2>1, <2>2, <2>3 DEF RInv, GoesOn
<1>4. CASE wrong = "none" /\ again = {} /\ ~some
  <2>1. AllFlushed(q, vq, decs)
    BY <1>4 DEF FinishFlushIfPossible
  <2> QED
    BY <2>1, RAllFlushed
<1> QED
  BY <1>1, <1>2, <1>3, <1>4

(* A new status for one track: what finishFlushIfPossible needs still holds.    *)
LEMMA RUpdates ==
    ASSUME RInv, NEW t \in AV, NEW s \in FlushStatus, NEW decs,
           ~Flushable(s),
           s \in {"FLUSHED", "SHUT_DOWN"} \/ t \in decs,
           \A u \in AV : u # t => (u \in decoders => u \in decs)
    PROVE  /\ [flushing EXCEPT ![t] = s] \in [AV -> FlushStatus]
           /\ resetInProgress => \A u \in AV : ~Flushable([flushing EXCEPT ![t] = s][u])
           /\ resetInProgress \/ resetPostponed =>
                  \A u \in AV : [flushing EXCEPT ![t] = s][u] \notin {"FLUSHED", "SHUT_DOWN"} => u \in decs
<1> DEFINE f == [flushing EXCEPT ![t] = s]
<1>1. flushing \in [AV -> FlushStatus]
  BY DEF RInv, TypeOK
<1>2. f \in [AV -> FlushStatus] /\ f[t] = s /\ \A u \in AV : u # t => f[u] = flushing[u]
  BY <1>1
<1> HIDE DEF f
<1>3. ASSUME resetInProgress, NEW u \in AV PROVE ~Flushable(f[u])
  <2>1. ~Flushable(flushing[u])
    BY <1>3 DEF RInv, NoScanInReset
  <2>2. CASE u = t
    BY <1>2, <2>2
  <2>3. CASE u # t
    BY <1>2, <2>1, <2>3
  <2> QED
    BY <2>2, <2>3
<1>4. ASSUME resetInProgress \/ resetPostponed, NEW u \in AV, f[u] \notin {"FLUSHED", "SHUT_DOWN"}
      PROVE  u \in decs
  <2>1. CASE u = t
    BY <1>2, <1>4, <2>1
  <2>2. CASE u # t
    <3>1. \E v \in AV : IsFlushingState(flushing[v])
      BY <1>4 DEF RInv, ResetHasOwner
    <3>2. flushing[u] \notin {"FLUSHED", "SHUT_DOWN"}
      BY <1>2, <1>4, <2>2
    <3>3. u \in decoders
      BY <3>1, <3>2 DEF RInv, WaitedForHasDecoder, Flushing
    <3> QED
      BY <2>2, <3>3
  <2> QED
    BY <2>1, <2>2
<1> QED
  BY <1>2, <1>3, <1>4 DEF f

LEMMA RFills ==
    ASSUME RInv, TypeOK', WaitedForHasDecoder', NEW t \in AV, OnFillThisBuffer(t)
    PROVE  RInv'
<1> DEFINE d == Head(disc[t])
<1>0. mainQ \in Seq(Message) /\ flushing \in [AV -> FlushStatus]
  BY DEF RInv, TypeOK, LoopersTypeOK
<1>1. mainQ # <<>> /\ Head(mainQ).what # "Reset"
  BY DEF OnFillThisBuffer, DueFor, PlayerDue, Due
<1>2. GoesOn(mainQ, Tail(mainQ)) /\ GoesOn(mainQ, Obsolete(Tail(mainQ)))
  BY <1>0, <1>1, GoesOnTail DEF Resets
<1>3. ASSUME NEW res \in {"ok", "eos", "err"}, Reply(t, Filled(t, res)) PROVE RInv'
  <2>1. /\ UNCHANGED <<flushing, resetInProgress, resetPostponed, scanTimers, driver>>
        /\ mainQ' = Tail(mainQ) \o MainPart(t, Filled(t, res))
    BY <1>3 DEF Reply, Posts, playerVars, resetVars
  <2>2. MainPart(t, Filled(t, res)) \in Seq(Harmless)
    BY HarmlessNotes
  <2> QED
    BY <1>1, <2>1, <2>2, RTakes
<1>4. CASE Posts(<<>>) /\ UNCHANGED <<videoQ, scanTimers, codec, renderer, playerVars, driver, failed, disc>>
  BY <1>1, <1>4, HarmlessNotes, RTakes DEF Posts, playerVars, resetVars
<1>5. CASE FeedChange(t, d)
  <2>1. CASE FailedFlushCheck({t}, flushing, decoders) # "none"
    BY <1>5, <2>1, RAborts DEF FeedChange
  <2>2. CASE FailedFlushCheck({t}, flushing, decoders) = "none"
    <3>1. /\ UNCHANGED <<resetInProgress, resetPostponed, driver>>
          /\ mainQ' = Obsolete(Tail(mainQ)) \o FlushPosts({t}, t) \o MainPart(t, Filled(t, "err"))
          /\ DropScans
          /\ flushing' = StatusAfterFlush({t}, t \in d.format, flushing, decoders)
      BY <1>5, <2>2 DEF FeedChange, resetVars
    <3>2. /\ \A u \in AV : IsFlushingState(flushing[u]) => IsFlushingState(flushing'[u])
          /\ \A u \in AV : ~Flushable(flushing[u]) => ~Flushable(flushing'[u])
      BY <1>0, <3>1, StatusKeeps
    <3>3. FlushPosts({t}, t) \in Seq(Harmless) /\ MainPart(t, Filled(t, "err")) \in Seq(Harmless)
      BY HarmlessFlush, HarmlessNotes
    <3>4. GoesOn(mainQ, Obsolete(Tail(mainQ)) \o FlushPosts({t}, t))
      BY <1>0, <1>2, <3>3, GoesOnJoin
    <3>5. GoesOn(mainQ, Obsolete(Tail(mainQ)) \o FlushPosts({t}, t) \o MainPart(t, Filled(t, "err")))
      BY <1>0, <3>3, <3>4, GoesOnJoin
    <3>6. scanTimers'["cur"] = 0
      BY <3>1, DropScansDoes
    <3> QED
      BY <3>1, <3>2, <3>5, <3>6, RFlushes
  <2> QED
    BY <2>1, <2>2
<1>6. CASE FeedUnaffected(t)
  <2> DEFINE f == [flushing EXCEPT ![t] = "FLUSHED"]
  <2>1. /\ f \in [AV -> FlushStatus]
        /\ resetInProgress => \A u \in AV : ~Flushable(f[u])
        /\ resetInProgress \/ resetPostponed =>
               \A u \in AV : f[u] \notin {"FLUSHED", "SHUT_DOWN"} => u \in decoders
    BY RUpdates DEF FlushStatus, Flushable
  <2>2. FinishFlushIfPossible(f, decoders, Tail(mainQ), videoQ)
    BY <1>6 DEF FeedUnaffected
  <2> HIDE DEF f
  <2> QED
    BY <1>2, <2>1, <2>2, RFinish
<1>7. CASE \E check : Abort(check)
  BY <1>7, RAborts
<1> QED
  BY <1>3, <1>4, <1>5, <1>6, <1>7 DEF OnFillThisBuffer, FeedDiscontinuity

LEMMA RFlushCompleted ==
    ASSUME RInv, TypeOK', WaitedForHasDecoder', NEW t \in AV, OnFlushCompleted(t)
    PROVE  RInv'
<1> DEFINE stop == ToCodec(t, "Shutdown")
<1>0. mainQ \in Seq(Message)
  BY DEF RInv, TypeOK, LoopersTypeOK
<1>1. mainQ # <<>> /\ Head(mainQ).what # "Reset"
  BY DEF OnFlushCompleted, DueFor, PlayerDue, Due
<1>2. GoesOn(mainQ, Tail(mainQ))
  BY <1>0, <1>1, GoesOnTail DEF Resets
<1>3. CASE \E check : Abort(check)
  BY <1>3, RAborts
<1>4. CASE ~\E check : Abort(check)
  <2>1. IsFlushingState(flushing[t]) /\ (NeedShutdown(flushing[t]) => t \in decoders)
    BY <1>4 DEF OnFlushCompleted
  <2>2. CASE NeedShutdown(flushing[t])
    <3> DEFINE f == [flushing EXCEPT ![t] = "SHUTTING_DOWN_DECODER"]
               q == Tail(mainQ) \o MainPart(t, stop)
               vq == videoQ \o VideoPart(t, stop)
    <3>1. FinishFlushIfPossible(f, decoders, q, vq)
      BY <2>1, <2>2 DEF OnFlushCompleted
    <3>2. GoesOn(mainQ, q)
      <4>1. "Shutdown" \in Usual
        BY DEF Usual, Plain, Whats
      <4>2. MainPart(t, stop) \in Seq(Harmless)
        BY <4>1, HarmlessNotes
      <4> QED
        BY <1>0, <1>2, <4>2, GoesOnJoin
    <3>3. /\ f \in [AV -> FlushStatus]
          /\ resetInProgress => \A u \in AV : ~Flushable(f[u])
          /\ resetInProgress \/ resetPostponed =>
                 \A u \in AV : f[u] \notin {"FLUSHED", "SHUT_DOWN"} => u \in decoders
      BY <2>1, <2>2, RUpdates DEF FlushStatus, Flushable
    <3> HIDE DEF f, q, vq
    <3> QED
      BY <3>1, <3>2, <3>3, RFinish
  <2>3. CASE ~NeedShutdown(flushing[t])
    <3> DEFINE f == [flushing EXCEPT ![t] = "FLUSHED"]
    <3>1. FinishFlushIfPossible(f, decoders, Tail(mainQ), videoQ)
      BY <2>1, <2>3 DEF OnFlushCompleted
    <3>2. /\ f \in [AV -> FlushStatus]
          /\ resetInProgress => \A u \in AV : ~Flushable(f[u])
          /\ resetInProgress \/ resetPostponed =>
                 \A u \in AV : f[u] \notin {"FLUSHED", "SHUT_DOWN"} => u \in decoders
      BY <2>1, RUpdates DEF FlushStatus, Flushable
    <3> HIDE DEF f
    <3> QED
      BY <1>2, <3>1, <3>2, RFinish
  <2> QED
    BY <2>2, <2>3
<1> QED
  BY <1>3, <1>4

LEMMA RShutdownCompleted ==
    ASSUME RInv, TypeOK', WaitedForHasDecoder', NEW t \in AV, OnShutdownCompleted(t)
    PROVE  RInv'
<1> DEFINE f == [flushing EXCEPT ![t] = "SHUT_DOWN"]
           decs == decoders \ {t}
<1>0. mainQ \in Seq(Message)
  BY DEF RInv, TypeOK, LoopersTypeOK
<1>1. mainQ # <<>> /\ Head(mainQ).what # "Reset"
  BY DEF OnShutdownCompleted, DueFor, PlayerDue, Due
<1>2. GoesOn(mainQ, Tail(mainQ))
  BY <1>0, <1>1, GoesOnTail DEF Resets
<1>3. CASE flushing[t] # "SHUTTING_DOWN_DECODER"
  BY <1>3, RAborts DEF OnShutdownCompleted
<1>4. CASE flushing[t] = "SHUTTING_DOWN_DECODER"
  <2>1. FinishFlushIfPossible(f, decs, Tail(mainQ), videoQ)
    BY <1>4 DEF OnShutdownCompleted
  <2>2. /\ f \in [AV -> FlushStatus]
        /\ resetInProgress => \A u \in AV : ~Flushable(f[u])
        /\ resetInProgress \/ resetPostponed =>
               \A u \in AV : f[u] \notin {"FLUSHED", "SHUT_DOWN"} => u \in decs
    <3>1. IsFlushingState(flushing[t]) /\ "SHUT_DOWN" \in FlushStatus /\ ~Flushable("SHUT_DOWN")
      BY <1>4 DEF IsFlushingState, FlushStatus, Flushable
    <3>2. \A u \in AV : u # t => (u \in decoders => u \in decs)
      OBVIOUS
    <3> HIDE DEF decs
    <3> QED
      BY <3>1, <3>2, RUpdates
  <2> HIDE DEF f, decs
  <2> QED
    BY <1>2, <2>1, <2>2, RFinish
<1> QED
  BY <1>3, <1>4

-----------------------------------------------------------------------------
(*                The application, the source, and the theorem                *)

(* The application calls only while no reset is waited for, so nothing it posts  *)
(* follows one.                                                              *)
LEMMA RCalls ==
    ASSUME RInv, TypeOK', WaitedForHasDecoder', NEW notes \in Seq(Message), Calls(notes),
           NoneOf(notes, Resets), NoneOf(notes, Strange), driver'.reset = driver.reset
    PROVE  RInv'
<1>0. mainQ \in Seq(Message)
  BY DEF RInv, TypeOK, LoopersTypeOK
<1>1. /\ driver.reset # "waiting" /\ mainQ' = mainQ \o notes
      /\ UNCHANGED <<flushing, resetInProgress, resetPostponed, scanTimers>>
  BY DEF Calls, playerVars, resetVars
<1>2. NoneOf(mainQ, Resets) /\ ~resetInProgress /\ ~resetPostponed
  BY <1>1, ResetIsInOnePlace
<1>3. Behind(notes)
  BY DEF Behind, NoneOf
<1>4. Behind(mainQ') /\ NoneOf(mainQ', Strange) /\ NoneOf(mainQ', Resets) /\ mainQ' \in Seq(Message)
  BY <1>0, <1>1, <1>2, <1>3, NoneOfJoin, ConcatProperties DEF RInv
<1>5. OneReset'
  BY <1>1, <1>2, <1>4, ResetIsOver DEF RInv, TypeOK
<1> QED
  BY <1>1, <1>2, <1>4, <1>5 DEF RInv, ResetHasOwner, NoScanInReset

LEMMA CallDoes ==
    ASSUME NEW what \in {"SetDataSource", "Start", "Pause", "Resume", "Seek"}
    PROVE  Call(what) \in Seq(Message) /\ NoneOf(Call(what), Resets) /\ NoneOf(Call(what), Strange)
<1> DEFINE m == Msg("player", what, "-", "-")
<1>1. m \in Message
  BY MsgType DEF Handlers, Whats, Args
<1>2. m \notin Resets /\ m \notin Strange
  BY DEF Msg, Resets, Strange
<1>3. Call(what) = <<m>>
  BY DEF Call
<1> HIDE DEF m
<1>4. <<m>> \in Seq(Message) /\ Len(<<m>>) = 1 /\ <<m>>[1] = m
  BY <1>1
<1> QED
  BY <1>2, <1>3, <1>4 DEF NoneOf

LEMMA CallsDo ==
    ASSUME NEW p \in Seq(Message), NEW s \in Seq(Message),
           NoneOf(p, Resets), NoneOf(p, Strange), NoneOf(s, Resets), NoneOf(s, Strange)
    PROVE  p \o s \in Seq(Message) /\ NoneOf(p \o s, Resets) /\ NoneOf(p \o s, Strange)
  BY NoneOfJoin, ConcatProperties

LEMMA RAppCalls ==
    ASSUME RInv, TypeOK', WaitedForHasDecoder', AppCalls
    PROVE  RInv'
<1>0. /\ driver \in Driver /\ mainQ \in Seq(Message)
      /\ <<>> \in Seq(Message) /\ NoneOf(<<>>, Resets) /\ NoneOf(<<>>, Strange)
  BY DEF RInv, TypeOK, LoopersTypeOK, NoneOf
<1>1. CASE AppSetDataSource \/ AppPause \/ AppSeek
  <2>1. /\ driver'.reset = driver.reset
        /\ \E notes \in {Call("SetDataSource"), Call("Pause"), Call("Seek"), <<>>} : Calls(notes)
    BY <1>0, <1>1 DEF AppSetDataSource, AppPause, AppSeek, Driver
  <2> QED
    BY <1>0, <2>1, CallDoes, RCalls
<1>2. CASE AppStart
  <2>1. driver'.reset = driver.reset
    BY <1>0, <1>2 DEF AppStart, Driver
  <2>2. PICK a \in {Call("Start"), Call("Seek"), <<>>}, b \in {Call("Seek"), Call("Resume"), <<>>} :
            Calls(a \o b)
    BY <1>2 DEF AppStart
  <2>3. /\ a \in Seq(Message) /\ NoneOf(a, Resets) /\ NoneOf(a, Strange)
        /\ b \in Seq(Message) /\ NoneOf(b, Resets) /\ NoneOf(b, Strange)
    BY <1>0, CallDoes
  <2>4. a \o b \in Seq(Message) /\ NoneOf(a \o b, Resets) /\ NoneOf(a \o b, Strange)
    BY <2>3, CallsDo
  <2> QED
    BY <2>1, <2>2, <2>4, RCalls
<1>3. CASE AppReset
  <2> DEFINE m == Msg("player", "Reset", "-", "-")
             s == <<m>>
  <2>1. /\ mainQ' = mainQ \o s /\ driver.reset = "no" /\ driver'.reset = "waiting"
        /\ UNCHANGED <<flushing, resetInProgress, resetPostponed, scanTimers>>
    BY <1>0, <1>3 DEF AppReset, Calls, Call, playerVars, resetVars, Driver
  <2>2. NoneOf(mainQ, Resets) /\ ~resetInProgress /\ ~resetPostponed
    BY <2>1, ResetIsInOnePlace
  <2>3. m \in Message /\ m \in Resets /\ m \notin Openers /\ m \notin Strange
    <3>1. m \in Message
      BY MsgType DEF Handlers, Whats, Args
    <3> QED
      BY <3>1 DEF Msg, Resets, Openers, Strange
  <2>4. s \in Seq(Message) /\ Len(s) = 1 /\ s[1] = m /\ s # <<>> /\ Head(s) = m /\ Tail(s) = <<>>
    BY <2>3
  <2> HIDE DEF m, s
  <2>5. NoneOf(s, Openers) /\ NoneOf(s, Strange)
    BY <2>3, <2>4 DEF NoneOf
  <2>6. Hits(mainQ', Resets) = 1
    <3>1. Hits(s, Resets) = (IF m \in Resets THEN 1 ELSE 0) + Hits(<<>>, Resets)
      <4>1. Hits(s, Resets) = (IF Head(s) \in Resets THEN 1 ELSE 0) + Hits(Tail(s), Resets)
        BY <2>4, HitsHead
      <4> QED
        BY <2>4, <4>1
    <3>2. Hits(s, Resets) = 1
      BY <2>3, <3>1, HitsEmpty
    <3>3. Hits(mainQ, Resets) = 0
      BY <1>0, <2>2, HitsNone DEF NoneOf
    <3>4. Hits(mainQ \o s, Resets) = Hits(mainQ, Resets) + Hits(s, Resets)
      BY <1>0, <2>4, HitsConcat
    <3> QED
      BY <2>1, <3>2, <3>3, <3>4
  <2>7. mainQ' \in Seq(Message) /\ Behind(mainQ') /\ NoneOf(mainQ', Strange)
    BY <1>0, <2>1, <2>4, <2>5, NoneOfJoin, ConcatProperties DEF RInv
  <2>8. resetInProgress' = FALSE /\ resetPostponed' = FALSE
    BY <2>1, <2>2 DEF RInv, TypeOK
  <2>9. OneReset'
    BY <2>1, <2>6, <2>7, <2>8, ResetIsHere
  <2> QED
    BY <2>7, <2>8, <2>9 DEF RInv, ResetHasOwner, NoScanInReset
<1> QED
  BY <1>1, <1>2, <1>3 DEF AppCalls

LEMMA RReturns ==
    ASSUME RInv, TypeOK', WaitedForHasDecoder', ResetReturns \/ SourceDiscontinuity
    PROVE  RInv'
<1>1. CASE ResetReturns
  <2>1. /\ driver.reset # "waiting" /\ driver'.reset # "waiting"
        /\ UNCHANGED <<mainQ, resetInProgress, resetPostponed>>
    BY <1>1 DEF ResetReturns, playerVars, resetVars, looperVars, RInv, TypeOK, Driver
  <2>2. NoneOf(mainQ, Resets) /\ ~resetInProgress /\ ~resetPostponed
    BY <2>1, ResetIsInOnePlace
  <2>3. OneReset'
    BY <2>1, <2>2, ResetIsOver DEF RInv, TypeOK, LoopersTypeOK
  <2> QED
    BY <2>1, <2>2, <2>3 DEF RInv, ResetHasOwner, NoScanInReset
<1>2. CASE SourceDiscontinuity
  BY <1>2, RIdles DEF SourceDiscontinuity, playerVars, resetVars, looperVars
<1> QED
  BY <1>1, <1>2

LEMMA RInit == Init => RInv
<1> SUFFICES ASSUME Init PROVE RInv
  OBVIOUS
<1>1. TypeOK /\ WaitedForHasDecoder
  BY InitType, WaitsInit
<1>2. mainQ = <<>> /\ resetInProgress = FALSE /\ resetPostponed = FALSE /\ driver.reset = "no"
  BY DEF Init, LoopersInit
<1>3. OneReset
  BY <1>2, HitsEmpty DEF OneReset, Resetting, One
<1> QED
  BY <1>1, <1>2, <1>3 DEF RInv, ResetHasOwner, NoScanInReset, Behind, NoneOf

LEMMA RNext == ASSUME RInv, [Next]_vars PROVE RInv'
<1>1. TypeOK'
  BY NextType, UnchangedType DEF RInv
<1>2. WaitedForHasDecoder'
  BY WaitsNext DEF RInv
<1>3. CASE UNCHANGED vars
  BY <1>1, <1>2, <1>3, RIdles DEF vars, playerVars, resetVars, looperVars
<1>4. CASE PlayerHandles
  BY <1>1, <1>2, <1>4, RPlayerPasses, RStarts, RResets, RSeeks, RScans, RForwards, RFills,
     RDecoderEnd, RFlushCompleted, RShutdownCompleted
     DEF PlayerHandles
<1>5. CASE RendererHandles
  BY <1>1, <1>2, <1>5, RRenderer
<1>6. ASSUME NEW t \in AV,
             \/ CodecHandles(t) \/ ComponentAnswers(t) \/ ComponentWorks(t)
             \/ ComponentChanges(t) \/ ComponentFails(t)
      PROVE  RInv'
  <2>1. CASE RendererDrain(t) /\ RendererAlone
    BY <1>1, <1>2, <2>1, RRenderer
  <2>2. CASE ~(RendererDrain(t) /\ RendererAlone)
    BY <1>1, <1>2, <1>6, <2>2, RCodecs
  <2> QED
    BY <2>1, <2>2
<1>7. CASE TimerFires
  BY <1>1, <1>2, <1>7, RTimers
<1>8. CASE AppCalls
  BY <1>1, <1>2, <1>8, RAppCalls
<1>9. CASE ResetReturns \/ SourceDiscontinuity
  BY <1>1, <1>2, <1>9, RReturns
<1> QED
  BY <1>3, <1>4, <1>5, <1>6, <1>7, <1>8, <1>9 DEF Next

(* As long as a reset is in progress or postponed, some decoder is being flushed *)
(* or shut down, whose answer calls finishFlushIfPossible, the only place that   *)
(* carries a reset on: the thread in DashPlayerDriver::reset is never left       *)
(* waiting for a player that has nothing more to wait for.                      *)
THEOREM ResetsHaveAnOwner == Spec => []ResetHasOwner
<1>1. RInv /\ [Next]_vars => RInv'
  BY RNext
<1>2. RInv => ResetHasOwner
  BY DEF RInv
<1> QED
  BY RInit, <1>1, <1>2, PTL DEF Spec

-----------------------------------------------------------------------------
(*                            Who owes an answer                             *)

About(t, whats) == {m \in Message : m.what \in whats /\ m.trk = t /\ m.to # "renderer"}

Flushes(t) == About(t, {"Flush", "FlushCompleted"})
Stops(t)   == About(t, {"Shutdown", "ShutdownCompleted"})
Setups(t)  == About(t, {"Setup"})
Gones(t)   == About(t, {"ShutdownCompleted"})

(* Messages that no flush, shutdown or setup depends on.                      *)
Calm ==
    {m \in Message : \/ m.to = "renderer"
                     \/ m.what \notin {"Flush", "FlushCompleted", "Shutdown", "ShutdownCompleted", "Setup"}}

(* How many of the messages of S are queued on the two loopers.                *)
InQueues(q, vq, S) == Hits(q, S) + Hits(vq, S)

(* With n messages about it and a codec that works at it or not, something is   *)
(* owed by exactly one of them if the player waits for it, by none if not.      *)
Owed(n, works, waits) ==
    \/ waits /\ ~works /\ n = 1
    \/ waits /\ works /\ n = 0
    \/ ~waits /\ ~works /\ n = 0

InFlush(status) == status \in {"FLUSHING_DECODER", "FLUSHING_DECODER_SHUTDOWN"}
Stopping(c)     == c.st = "stopping" \/ c.defer

Accounts(status, q, vq, cod) ==
    \A t \in AV : /\ Owed(InQueues(q, vq, Flushes(t)), cod[t].st = "flushing", InFlush(status[t]))
                  /\ Owed(InQueues(q, vq, Stops(t)), Stopping(cod[t]), status[t] = "SHUTTING_DOWN_DECODER")

OnLooper(q, vq, t) == IF t = Video THEN vq ELSE q

(* A codec that has not been set up yet owes nothing, and is not shut down.     *)
SetUpFirst(decs, q, vq, cod) ==
    \A t \in AV :
        LET cq == OnLooper(q, vq, t)
        IN  /\ \/ NoneOf(cq, Setups(t))
               \/ t \in decs /\ cod[t].st = "idle" /\ ~cod[t].defer /\ NoneOf(q, Gones(t))
            /\ Never(cq, Setups(t) \cup Stops(t), Setups(t))

Books(status, decs, q, vq, cod) ==
    /\ q \in Seq(Message) /\ vq \in Seq(Message)
    /\ Accounts(status, q, vq, cod) /\ SetUpFirst(decs, q, vq, cod)

LEMMA NeverDoes ==
    ASSUME NEW E, NEW q \in Seq(E), NEW s \in Seq(E), NEW X, NEW Y
    PROVE  /\ Never(q, X, Y) /\ NoneOf(s, Y) => Never(q \o s, X, Y)
           /\ NoneOf(q, X) /\ Never(s, X, Y) => Never(q \o s, X, Y)
           /\ Never(q, X, Y) /\ q # <<>> => /\ Never(Tail(q), X, Y)
                                            /\ Head(q) \in X => NoneOf(Tail(q), Y)
<1> DEFINE u == q \o s
<1>1. /\ Len(u) = Len(q) + Len(s) /\ Len(q) \in Nat /\ Len(s) \in Nat
      /\ \A i \in 1 .. Len(q) : u[i] = q[i]
      /\ \A i \in 1 .. Len(u) : i > Len(q) => u[i] = s[i - Len(q)] /\ i - Len(q) \in 1 .. Len(s)
  BY ConcatProperties, LenProperties
<1> HIDE DEF u
<1>2. ASSUME Never(q, X, Y), NoneOf(s, Y) PROVE Never(u, X, Y)
  <2> SUFFICES ASSUME NEW i \in 1 .. Len(u), NEW j \in 1 .. Len(u), i < j, u[i] \in X
               PROVE  u[j] \notin Y
    BY DEF Never
  <2>1. j > Len(q) \/ (i \in 1 .. Len(q) /\ j \in 1 .. Len(q))
    BY <1>1
  <2> QED
    BY <1>1, <1>2, <2>1 DEF NoneOf, Never
<1>3. ASSUME NoneOf(q, X), Never(s, X, Y) PROVE Never(u, X, Y)
  <2> SUFFICES ASSUME NEW i \in 1 .. Len(u), NEW j \in 1 .. Len(u), i < j, u[i] \in X
               PROVE  u[j] \notin Y
    BY DEF Never
  <2>1. i > Len(q)
    BY <1>1, <1>3 DEF NoneOf
  <2>2. j > Len(q) /\ i - Len(q) < j - Len(q)
    BY <1>1, <2>1
  <2> QED
    BY <1>1, <1>3, <2>1, <2>2 DEF Never
<1>4. ASSUME Never(q, X, Y), q # <<>>
      PROVE  Never(Tail(q), X, Y) /\ (Head(q) \in X => NoneOf(Tail(q), Y))
  <2>1. /\ Head(q) = q[1] /\ 1 \in 1 .. Len(q)
        /\ \A i \in 1 .. Len(Tail(q)) : Tail(q)[i] = q[i + 1] /\ i + 1 \in 1 .. Len(q) /\ 1 < i + 1
    BY <1>4, HeadTailProperties, LenProperties
  <2>2. Never(Tail(q), X, Y)
    <3> SUFFICES ASSUME NEW i \in 1 .. Len(Tail(q)), NEW j \in 1 .. Len(Tail(q)), i < j, Tail(q)[i] \in X
                 PROVE  Tail(q)[j] \notin Y
      BY DEF Never
    <3>1. i + 1 < j + 1
      OBVIOUS
    <3> QED
      BY <1>4, <2>1, <3>1 DEF Never
  <2>3. ASSUME Head(q) \in X PROVE NoneOf(Tail(q), Y)
    BY <1>4, <2>1, <2>3 DEF Never, NoneOf
  <2> QED
    BY <2>2, <2>3
<1> QED
  BY <1>2, <1>3, <1>4 DEF u

(* Queues that grow, and queues that are served.                              *)
LEMMA QueuesJoin ==
    ASSUME NEW q \in Seq(Message), NEW vq \in Seq(Message), NEW a \in Seq(Message), NEW b \in Seq(Message),
           NEW S
    PROVE  /\ InQueues(q \o a, vq \o b, S) = InQueues(q, vq, S) + InQueues(a, b, S)
           /\ InQueues(q, vq, S) \in Nat /\ InQueues(a, b, S) \in Nat
<1>1. /\ Hits(q \o a, S) = Hits(q, S) + Hits(a, S)
      /\ Hits(vq \o b, S) = Hits(vq, S) + Hits(b, S)
  BY HitsConcat
<1>2. Hits(q, S) \in Nat /\ Hits(vq, S) \in Nat /\ Hits(a, S) \in Nat /\ Hits(b, S) \in Nat
  BY HitsType
<1> QED
  BY SMTT(60), <1>1, <1>2 DEF InQueues

LEMMA QueuesServed ==
    ASSUME NEW q \in Seq(Message), NEW vq \in Seq(Message), NEW S
    PROVE  /\ InQueues(q, vq, S) \in Nat
           /\ q # <<>> => /\ Tail(q) \in Seq(Message) /\ InQueues(Tail(q), vq, S) \in Nat
                          /\ Head(q) \in S => InQueues(q, vq, S) = InQueues(Tail(q), vq, S) + 1
                          /\ Head(q) \notin S => InQueues(q, vq, S) = InQueues(Tail(q), vq, S)
           /\ vq # <<>> => /\ Tail(vq) \in Seq(Message) /\ InQueues(q, Tail(vq), S) \in Nat
                           /\ Head(vq) \in S => InQueues(q, vq, S) = InQueues(q, Tail(vq), S) + 1
                           /\ Head(vq) \notin S => InQueues(q, vq, S) = InQueues(q, Tail(vq), S)
<1>1. ASSUME NEW p \in Seq(Message), p # <<>>
      PROVE  /\ Tail(p) \in Seq(Message) /\ Hits(Tail(p), S) \in Nat
             /\ Head(p) \in S => Hits(p, S) = 1 + Hits(Tail(p), S)
             /\ Head(p) \notin S => Hits(p, S) = Hits(Tail(p), S)
  <2>1. Tail(p) \in Seq(Message)
    BY <1>1, HeadTailProperties
  <2>2. Hits(Tail(p), S) \in Nat
    BY <2>1, HitsType
  <2>3. Hits(p, S) = (IF Head(p) \in S THEN 1 ELSE 0) + Hits(Tail(p), S)
    BY <1>1, HitsHead
  <2> QED
    BY <2>1, <2>2, <2>3
<1>2. Hits(q, S) \in Nat /\ Hits(vq, S) \in Nat
  BY HitsType
<1>3. q # <<>> => /\ Tail(q) \in Seq(Message) /\ InQueues(Tail(q), vq, S) \in Nat
                  /\ Head(q) \in S => InQueues(q, vq, S) = InQueues(Tail(q), vq, S) + 1
                  /\ Head(q) \notin S => InQueues(q, vq, S) = InQueues(Tail(q), vq, S)
  BY <1>1, <1>2 DEF InQueues
<1>4. vq # <<>> => /\ Tail(vq) \in Seq(Message) /\ InQueues(q, Tail(vq), S) \in Nat
                   /\ Head(vq) \in S => InQueues(q, vq, S) = InQueues(q, Tail(vq), S) + 1
                   /\ Head(vq) \notin S => InQueues(q, vq, S) = InQueues(q, Tail(vq), S)
  BY <1>1, <1>2 DEF InQueues
<1> QED
  BY <1>2, <1>3, <1>4 DEF InQueues

LEMMA CalmDoes ==
    ASSUME NEW s \in Seq(Calm)
    PROVE  /\ s \in Seq(Message)
           /\ \A t : /\ NoneOf(s, Flushes(t)) /\ NoneOf(s, Stops(t)) /\ NoneOf(s, Setups(t)) /\ NoneOf(s, Gones(t))
                     /\ Hits(s, Flushes(t)) = 0 /\ Hits(s, Stops(t)) = 0
<1>1. \A i \in 1 .. Len(s) : s[i] \in Calm
  BY ElementOfSeq
<1>2. s \in Seq(Message)
  BY SeqMonotonic DEF Calm
<1>3. \A t : NoneOf(s, Flushes(t)) /\ NoneOf(s, Stops(t)) /\ NoneOf(s, Setups(t)) /\ NoneOf(s, Gones(t))
  BY <1>1 DEF NoneOf, Calm, Flushes, Stops, Setups, Gones, About
<1> QED
  BY <1>2, <1>3, HitsNone DEF NoneOf

LEMMA CalmHead ==
    ASSUME NEW m \in Calm
    PROVE  \A t : m \notin Flushes(t) /\ m \notin Stops(t) /\ m \notin Setups(t) /\ m \notin Gones(t)
  BY DEF Calm, Flushes, Stops, Setups, Gones, About

(* Queues that tell the same of flushes and shutdowns.                        *)
LEMMA AccountsSame ==
    ASSUME NEW status, NEW q, NEW vq, NEW cod, Accounts(status, q, vq, cod),
           NEW status2, NEW q2, NEW vq2, NEW cod2,
           \A t \in AV :
               /\ InQueues(q2, vq2, Flushes(t)) = InQueues(q, vq, Flushes(t))
               /\ InQueues(q2, vq2, Stops(t)) = InQueues(q, vq, Stops(t))
               /\ cod2[t].st = "flushing" <=> cod[t].st = "flushing"
               /\ Stopping(cod2[t]) <=> Stopping(cod[t])
               /\ InFlush(status2[t]) <=> InFlush(status[t])
               /\ status2[t] = "SHUTTING_DOWN_DECODER" <=> status[t] = "SHUTTING_DOWN_DECODER"
    PROVE  Accounts(status2, q2, vq2, cod2)
  BY DEF Accounts, Owed

(* Messages posted that set up nothing, and announce the end of a decoder only    *)
(* if it has been set up.                                                     *)
LEMMA SetUpPosts ==
    ASSUME NEW decs, NEW q \in Seq(Message), NEW vq \in Seq(Message), NEW cod,
           SetUpFirst(decs, q, vq, cod),
           NEW a \in Seq(Message), NEW b \in Seq(Message),
           \A t \in AV : /\ NoneOf(a, Setups(t)) /\ NoneOf(b, Setups(t))
                         /\ NoneOf(a, Gones(t)) \/ NoneOf(OnLooper(q, vq, t), Setups(t))
    PROVE  SetUpFirst(decs, q \o a, vq \o b, cod)
<1> SUFFICES ASSUME NEW t \in AV
             PROVE  LET cq == OnLooper(q \o a, vq \o b, t)
                    IN  /\ \/ NoneOf(cq, Setups(t))
                           \/ t \in decs /\ cod[t].st = "idle" /\ ~cod[t].defer /\ NoneOf(q \o a, Gones(t))
                        /\ Never(cq, Setups(t) \cup Stops(t), Setups(t))
  BY DEF SetUpFirst
<1> DEFINE cq == OnLooper(q, vq, t)
           s  == IF t = Video THEN b ELSE a
           X  == Setups(t) \cup Stops(t)
<1>1. OnLooper(q \o a, vq \o b, t) = cq \o s
  BY DEF OnLooper
<1>2. cq \in Seq(Message) /\ s \in Seq(Message) /\ NoneOf(s, Setups(t))
  BY DEF OnLooper
<1>3. /\ \/ NoneOf(cq, Setups(t))
         \/ t \in decs /\ cod[t].st = "idle" /\ ~cod[t].defer /\ NoneOf(q, Gones(t))
      /\ Never(cq, X, Setups(t))
  BY DEF SetUpFirst
<1>4. NoneOf(a, Gones(t)) \/ NoneOf(cq, Setups(t))
  OBVIOUS
<1> HIDE DEF cq, s, X
<1>5. Never(cq \o s, X, Setups(t))
  BY <1>2, <1>3, NeverDoes
<1>6. NoneOf(cq, Setups(t)) => NoneOf(cq \o s, Setups(t))
  BY <1>2, NoneOfJoin
<1>7. NoneOf(q, Gones(t)) /\ NoneOf(a, Gones(t)) => NoneOf(q \o a, Gones(t))
  BY NoneOfJoin
<1> QED
  BY <1>1, <1>3, <1>4, <1>5, <1>6, <1>7 DEF X

(* The next message is taken from one of the queues.                          *)
LEMMA SetUpServed ==
    ASSUME NEW decs, NEW q \in Seq(Message), NEW vq \in Seq(Message), NEW cod,
           SetUpFirst(decs, q, vq, cod)
    PROVE  /\ q # <<>> => SetUpFirst(decs, Tail(q), vq, cod)
           /\ vq # <<>> => SetUpFirst(decs, q, Tail(vq), cod)
<1>1. ASSUME q # <<>>, NEW t \in AV
      PROVE  LET cq == OnLooper(Tail(q), vq, t)
             IN  /\ \/ NoneOf(cq, Setups(t))
                    \/ t \in decs /\ cod[t].st = "idle" /\ ~cod[t].defer /\ NoneOf(Tail(q), Gones(t))
                 /\ Never(cq, Setups(t) \cup Stops(t), Setups(t))
  <2> DEFINE X == Setups(t) \cup Stops(t)
             cq == OnLooper(q, vq, t)
  <2>1. /\ \/ NoneOf(cq, Setups(t))
           \/ t \in decs /\ cod[t].st = "idle" /\ ~cod[t].defer /\ NoneOf(q, Gones(t))
        /\ Never(cq, X, Setups(t))
    BY DEF SetUpFirst
  <2>2. cq = (IF t = Video THEN vq ELSE q) /\ OnLooper(Tail(q), vq, t) = (IF t = Video THEN vq ELSE Tail(q))
    BY DEF OnLooper
  <2> HIDE DEF X, cq
  <2>3. NoneOf(q, Gones(t)) => NoneOf(Tail(q), Gones(t))
    BY <1>1, NoneOfTail
  <2>4. /\ NoneOf(q, Setups(t)) => NoneOf(Tail(q), Setups(t))
        /\ Never(q, X, Setups(t)) => Never(Tail(q), X, Setups(t))
    BY <1>1, NoneOfTail, NeverDoes
  <2> QED
    BY <2>1, <2>2, <2>3, <2>4 DEF X
<1>2. ASSUME vq # <<>>, NEW t \in AV
      PROVE  LET cq == OnLooper(q, Tail(vq), t)
             IN  /\ \/ NoneOf(cq, Setups(t))
                    \/ t \in decs /\ cod[t].st = "idle" /\ ~cod[t].defer /\ NoneOf(q, Gones(t))
                 /\ Never(cq, Setups(t) \cup Stops(t), Setups(t))
  <2> DEFINE X == Setups(t) \cup Stops(t)
             cq == OnLooper(q, vq, t)
  <2>1. /\ \/ NoneOf(cq, Setups(t))
           \/ t \in decs /\ cod[t].st = "idle" /\ ~cod[t].defer /\ NoneOf(q, Gones(t))
        /\ Never(cq, X, Setups(t))
    BY DEF SetUpFirst
  <2>2. cq = (IF t = Video THEN vq ELSE q) /\ OnLooper(q, Tail(vq), t) = (IF t = Video THEN Tail(vq) ELSE q)
    BY DEF OnLooper
  <2> HIDE DEF X, cq
  <2>4. /\ NoneOf(vq, Setups(t)) => NoneOf(Tail(vq), Setups(t))
        /\ Never(vq, X, Setups(t)) => Never(Tail(vq), X, Setups(t))
    BY <1>2, NoneOfTail, NeverDoes
  <2> QED
    BY <2>1, <2>2, <2>4 DEF X
<1> QED
  BY <1>1, <1>2 DEF SetUpFirst

(* Whether a codec not yet set up changes is all that matters of the rest.        *)
LEMMA SetUpSame ==
    ASSUME NEW decs, NEW q, NEW vq, NEW cod, SetUpFirst(decs, q, vq, cod), NEW decs2, NEW cod2,
           \A t \in AV : ~NoneOf(OnLooper(q, vq, t), Setups(t)) =>
               /\ t \in decs => t \in decs2
               /\ cod[t].st = "idle" => cod2[t].st = "idle"
               /\ ~cod[t].defer => ~cod2[t].defer
    PROVE  SetUpFirst(decs2, q, vq, cod2)
  BY DEF SetUpFirst

LEMMA ObsoleteKeeps ==
    ASSUME NEW q \in Seq(Message)
    PROVE  /\ Obsolete(q) \in Seq(Message)
           /\ \A t, whats : /\ Hits(Obsolete(q), About(t, whats)) = Hits(q, About(t, whats))
                            /\ NoneOf(q, About(t, whats)) => NoneOf(Obsolete(q), About(t, whats))
           /\ \A t : Never(q, Setups(t) \cup Stops(t), Setups(t))
                       => Never(Obsolete(q), Setups(t) \cup Stops(t), Setups(t))
<1> DEFINE u == Obsolete(q)
<1>1. u \in Seq(Message) /\ Len(u) = Len(q)
  BY ObsoleteType DEF Obsolete
<1>2. ASSUME NEW i \in 1 .. Len(q)
      PROVE  /\ q[i] \in Message /\ u[i] \in Message
             /\ u[i].what = q[i].what /\ u[i].to = q[i].to /\ u[i].trk = q[i].trk
  <2>1. q[i] \in Message /\ u[i] \in Message
    BY <1>1, ElementOfSeq
  <2>2. u[i] = IF q[i].what = "ScanSources" THEN [q[i] EXCEPT !.arg = "old"] ELSE q[i]
    BY DEF Obsolete
  <2> HIDE DEF u
  <2> QED
    BY <2>1, <2>2 DEF Message
<1> HIDE DEF u
<1>3. \A t, whats : \A i \in 1 .. Len(q) : u[i] \in About(t, whats) <=> q[i] \in About(t, whats)
  BY <1>2 DEF About
<1>4. ASSUME NEW t, NEW whats
      PROVE  /\ Hits(u, About(t, whats)) = Hits(q, About(t, whats))
             /\ NoneOf(q, About(t, whats)) => NoneOf(u, About(t, whats))
  <2>1. {i \in 1 .. Len(u) : u[i] \in About(t, whats)} = {i \in 1 .. Len(q) : q[i] \in About(t, whats)}
    BY <1>1, <1>3
  <2>2. NoneOf(q, About(t, whats)) => NoneOf(u, About(t, whats))
    BY <1>1, <1>3 DEF NoneOf
  <2> QED
    BY <2>1, <2>2 DEF Hits
<1>5. ASSUME NEW t, Never(q, Setups(t) \cup Stops(t), Setups(t))
      PROVE  Never(u, Setups(t) \cup Stops(t), Setups(t))
  BY <1>1, <1>3, <1>5 DEF Never, Setups, Stops
<1> QED
  BY <1>1, <1>4, <1>5 DEF u

LEMMA BooksObsolete ==
    ASSUME NEW status, NEW decs, NEW q, NEW vq, NEW cod, Books(status, decs, q, vq, cod)
    PROVE  Books(status, decs, Obsolete(q), vq, cod)
<1>1. /\ q \in Seq(Message) /\ vq \in Seq(Message) /\ Accounts(status, q, vq, cod)
      /\ SetUpFirst(decs, q, vq, cod)
  BY DEF Books
<1>2. \A t : /\ InQueues(Obsolete(q), vq, Flushes(t)) = InQueues(q, vq, Flushes(t))
             /\ InQueues(Obsolete(q), vq, Stops(t)) = InQueues(q, vq, Stops(t))
  BY <1>1, ObsoleteKeeps DEF InQueues, Flushes, Stops
<1>3. Accounts(status, Obsolete(q), vq, cod)
  BY <1>1, <1>2, AccountsSame
<1>4. SetUpFirst(decs, Obsolete(q), vq, cod)
  <2>1. \A t : /\ NoneOf(q, Setups(t)) => NoneOf(Obsolete(q), Setups(t))
               /\ NoneOf(q, Gones(t)) => NoneOf(Obsolete(q), Gones(t))
               /\ Never(q, Setups(t) \cup Stops(t), Setups(t))
                    => Never(Obsolete(q), Setups(t) \cup Stops(t), Setups(t))
    BY <1>1, ObsoleteKeeps DEF Setups, Gones
  <2> QED
    BY <1>1, <2>1 DEF SetUpFirst, OnLooper
<1> QED
  BY <1>1, <1>3, <1>4, ObsoleteKeeps DEF Books

(* Calm messages come and go.                                                 *)
LEMMA BooksPost ==
    ASSUME NEW status, NEW decs, NEW q, NEW vq, NEW cod, Books(status, decs, q, vq, cod),
           NEW a \in Seq(Calm), NEW b \in Seq(Calm)
    PROVE  Books(status, decs, q \o a, vq \o b, cod)
<1>1. /\ q \in Seq(Message) /\ vq \in Seq(Message) /\ Accounts(status, q, vq, cod)
      /\ SetUpFirst(decs, q, vq, cod)
  BY DEF Books
<1>2. a \in Seq(Message) /\ b \in Seq(Message)
  BY CalmDoes
<1>3. \A t : InQueues(a, b, Flushes(t)) = 0 /\ InQueues(a, b, Stops(t)) = 0
  BY CalmDoes DEF InQueues
<1>4. ASSUME NEW S, InQueues(a, b, S) = 0
      PROVE  InQueues(q \o a, vq \o b, S) = InQueues(q, vq, S)
  <2>1. /\ InQueues(q \o a, vq \o b, S) = InQueues(q, vq, S) + InQueues(a, b, S)
        /\ InQueues(q, vq, S) \in Nat
    BY <1>1, <1>2, QueuesJoin
  <2> QED
    BY <1>4, <2>1
<1>5. Accounts(status, q \o a, vq \o b, cod)
  <2>1. \A t : /\ InQueues(q \o a, vq \o b, Flushes(t)) = InQueues(q, vq, Flushes(t))
               /\ InQueues(q \o a, vq \o b, Stops(t)) = InQueues(q, vq, Stops(t))
    BY <1>3, <1>4
  <2> QED
    BY <1>1, <2>1, AccountsSame
<1>6. SetUpFirst(decs, q \o a, vq \o b, cod)
  BY <1>1, <1>2, CalmDoes, SetUpPosts
<1> QED
  BY <1>1, <1>2, <1>5, <1>6, ConcatProperties DEF Books

LEMMA BooksTake ==
    ASSUME NEW status, NEW decs, NEW q, NEW vq, NEW cod, Books(status, decs, q, vq, cod)
    PROVE  /\ q # <<>> /\ Head(q) \in Calm => Books(status, decs, Tail(q), vq, cod)
           /\ vq # <<>> /\ Head(vq) \in Calm => Books(status, decs, q, Tail(vq), cod)
<1>1. /\ q \in Seq(Message) /\ vq \in Seq(Message) /\ Accounts(status, q, vq, cod)
      /\ SetUpFirst(decs, q, vq, cod)
  BY DEF Books
<1>2. ASSUME q # <<>>, Head(q) \in Calm PROVE Books(status, decs, Tail(q), vq, cod)
  <2>1. \A t : /\ InQueues(Tail(q), vq, Flushes(t)) = InQueues(q, vq, Flushes(t))
               /\ InQueues(Tail(q), vq, Stops(t)) = InQueues(q, vq, Stops(t))
    <3>1. \A t : Head(q) \notin Flushes(t) /\ Head(q) \notin Stops(t)
      BY <1>2, CalmHead
    <3>2. \A S : Head(q) \notin S => InQueues(q, vq, S) = InQueues(Tail(q), vq, S)
      BY <1>1, <1>2, QueuesServed
    <3> QED
      BY <3>1, <3>2
  <2>2. Accounts(status, Tail(q), vq, cod)
    BY <1>1, <2>1, AccountsSame
  <2> QED
    BY <1>1, <1>2, <2>2, SetUpServed, QueuesServed DEF Books
<1>3. ASSUME vq # <<>>, Head(vq) \in Calm PROVE Books(status, decs, q, Tail(vq), cod)
  <2>1. \A t : /\ InQueues(q, Tail(vq), Flushes(t)) = InQueues(q, vq, Flushes(t))
               /\ InQueues(q, Tail(vq), Stops(t)) = InQueues(q, vq, Stops(t))
    <3>1. \A t : Head(vq) \notin Flushes(t) /\ Head(vq) \notin Stops(t)
      BY <1>3, CalmHead
    <3>2. \A S : Head(vq) \notin S => InQueues(q, vq, S) = InQueues(q, Tail(vq), S)
      BY <1>1, <1>3, QueuesServed
    <3> QED
      BY <3>1, <3>2
  <2>2. Accounts(status, q, Tail(vq), cod)
    BY <1>1, <2>1, AccountsSame
  <2> QED
    BY <1>1, <1>3, <2>2, SetUpServed, QueuesServed DEF Books
<1> QED
  BY <1>2, <1>3

(* Another status that waits for the same.                                    *)
LEMMA BooksStatus ==
    ASSUME NEW status, NEW decs, NEW q, NEW vq, NEW cod, Books(status, decs, q, vq, cod),
           NEW status2, NEW decs2,
           \A t \in AV : /\ InFlush(status2[t]) <=> InFlush(status[t])
                         /\ status2[t] = "SHUTTING_DOWN_DECODER" <=> status[t] = "SHUTTING_DOWN_DECODER"
                         /\ t \in decs => t \in decs2
    PROVE  Books(status2, decs2, q, vq, cod)
<1>1. Accounts(status2, q, vq, cod)
  BY AccountsSame DEF Books
<1>2. SetUpFirst(decs2, q, vq, cod)
  BY SetUpSame DEF Books
<1> QED
  BY <1>1, <1>2 DEF Books

LEMMA OneMessageDoes ==
    ASSUME NEW m \in Message, NEW S
    PROVE  /\ <<m>> \in Seq(Message)
           /\ m \in S => Hits(<<m>>, S) = 1
           /\ m \notin S => Hits(<<m>>, S) = 0 /\ NoneOf(<<m>>, S)
<1> DEFINE s == <<m>>
<1>1. s \in Seq(Message) /\ s # <<>> /\ Head(s) = m /\ Tail(s) = <<>> /\ Len(s) = 1 /\ s[1] = m
  OBVIOUS
<1> HIDE DEF s
<1>2. Hits(s, S) = (IF m \in S THEN 1 ELSE 0) + Hits(<<>>, S)
  <2>1. Hits(s, S) = (IF Head(s) \in S THEN 1 ELSE 0) + Hits(Tail(s), S)
    BY <1>1, HitsHead
  <2> QED
    BY <1>1, <2>1
<1>3. Hits(<<>>, S) = 0
  BY HitsEmpty
<1>4. m \notin S => NoneOf(s, S)
  BY <1>1 DEF NoneOf
<1> QED
  BY <1>1, <1>2, <1>3, <1>4 DEF s

(* What flushDecoder posts to the player's looper for the tracks of S.          *)
FlushNotes(S, a) ==
    /\ a \in Seq(Message)
    /\ \A t \in AV : /\ Hits(a, Stops(t)) = 0 /\ NoneOf(a, Setups(t)) /\ NoneOf(a, Gones(t))
                     /\ t = Audio /\ t \in S => Hits(a, Flushes(t)) = 1
                     /\ t # Audio \/ t \notin S => Hits(a, Flushes(t)) = 0

LEMMA FlushToldDoes ==
    ASSUME NEW u \in AV
    PROVE  /\ ToCodec(u, "Flush") \in Message
           /\ \A t \in AV : /\ ToCodec(u, "Flush") \in Flushes(t) <=> t = u
                            /\ ToCodec(u, "Flush") \notin Stops(t)
                            /\ ToCodec(u, "Flush") \notin Setups(t)
                            /\ ToCodec(u, "Flush") \notin Gones(t)
<1>1. ToCodec(u, "Flush") \in Message
  BY NotesType DEF Plain, Whats
<1> QED
  BY <1>1 DEF ToCodec, Msg, Flushes, Stops, Setups, Gones, About

LEMMA RendererToldDoes ==
    ASSUME NEW what \in Usual, NEW t \in AV \cup {"-"}
    PROVE  ToRenderer(what, t) \in Seq(Calm)
<1>1. Msg("renderer", what, t, "-") \in Message
  BY MsgType DEF Usual, Plain, Handlers, Args
<1>2. Msg("renderer", what, t, "-") \in Calm
  BY <1>1 DEF Msg, Calm
<1> QED
  BY <1>2 DEF ToRenderer

LEMMA FlushNotesOne ==
    ASSUME NEW S, NEW u \in AV
    PROVE  FlushNotes(S \cap {u}, FlushPosts(S, u))
<1>0. <<>> \in Seq(Message) /\ \A X : Hits(<<>>, X) = 0 /\ NoneOf(<<>>, X)
  BY HitsEmpty DEF NoneOf
<1>1. CASE u \notin S
  <2>1. FlushPosts(S, u) = <<>>
    BY <1>1 DEF FlushPosts
  <2> QED
    BY <1>0, <1>1, <2>1 DEF FlushNotes
<1>2. CASE u \in S
  <2> DEFINE p == MainPart(u, ToCodec(u, "Flush"))
             r == ToRenderer("Flush", u)
  <2>1. FlushPosts(S, u) = p \o r
    BY <1>2 DEF FlushPosts
  <2>2. r \in Seq(Calm)
    BY RendererToldDoes DEF Usual, Plain, Whats
  <2>3. r \in Seq(Message) /\ \A t : /\ Hits(r, Flushes(t)) = 0 /\ Hits(r, Stops(t)) = 0
                                     /\ NoneOf(r, Setups(t)) /\ NoneOf(r, Gones(t))
    BY <2>2, CalmDoes
  <2>4. p = IF u = Audio THEN <<ToCodec(u, "Flush")>> ELSE <<>>
    BY DEF MainPart
  <2>5. p \in Seq(Message)
    <3>1. <<ToCodec(u, "Flush")>> \in Seq(Message)
      BY FlushToldDoes, OneMessageDoes
    <3> QED
      BY <1>0, <2>4, <3>1
  <2> HIDE DEF p, r
  <2>6. ASSUME NEW t \in AV
        PROVE  /\ Hits(p, Stops(t)) = 0 /\ NoneOf(p, Setups(t)) /\ NoneOf(p, Gones(t))
               /\ u = Audio /\ t = u => Hits(p, Flushes(t)) = 1
               /\ u # Audio \/ t # u => Hits(p, Flushes(t)) = 0
    <3>1. CASE u = Audio
      BY <2>4, <3>1, FlushToldDoes, OneMessageDoes
    <3>2. CASE u # Audio
      BY <1>0, <2>4, <3>2
    <3> QED
      BY <3>1, <3>2
  <2>7. \A X : Hits(p \o r, X) = Hits(p, X) + Hits(r, X)
    BY <2>3, <2>5, HitsConcat
  <2>8. p \o r \in Seq(Message) /\ \A X : NoneOf(p, X) /\ NoneOf(r, X) => NoneOf(p \o r, X)
    BY <2>3, <2>5, NoneOfJoin, ConcatProperties
  <2> QED
    BY <1>2, <2>1, <2>3, <2>6, <2>7, <2>8 DEF FlushNotes
<1> QED
  BY <1>1, <1>2

LEMMA FlushNotesJoin ==
    ASSUME NEW S, NEW a, FlushNotes(S, a), NEW T, NEW b, FlushNotes(T, b), S \cap T = {}
    PROVE  FlushNotes(S \cup T, a \o b)
<1>1. a \in Seq(Message) /\ b \in Seq(Message)
  BY DEF FlushNotes
<1>2. \A X : Hits(a \o b, X) = Hits(a, X) + Hits(b, X)
  BY <1>1, HitsConcat
<1>3. a \o b \in Seq(Message) /\ \A X : NoneOf(a, X) /\ NoneOf(b, X) => NoneOf(a \o b, X)
  BY <1>1, NoneOfJoin, ConcatProperties
<1> QED
  BY <1>2, <1>3 DEF FlushNotes

LEMMA FlushNotesAre ==
    ASSUME NEW S, S \subseteq AV
    PROVE  /\ FlushNotes(S, FlushPosts(S, Audio) \o FlushPosts(S, Video))
           /\ FlushNotes(S, FlushPosts(S, Video) \o FlushPosts(S, Audio))
<1>1. FlushNotes(S \cap {Audio}, FlushPosts(S, Audio)) /\ FlushNotes(S \cap {Video}, FlushPosts(S, Video))
  BY FlushNotesOne DEF AV
<1>2. (S \cap {Audio}) \cup (S \cap {Video}) = S /\ (S \cap {Video}) \cup (S \cap {Audio}) = S
      /\ (S \cap {Audio}) \cap (S \cap {Video}) = {} /\ (S \cap {Video}) \cap (S \cap {Audio}) = {}
  BY DEF AV, Audio, Video
<1>3. FlushNotes((S \cap {Audio}) \cup (S \cap {Video}), FlushPosts(S, Audio) \o FlushPosts(S, Video))
  BY <1>1, <1>2, FlushNotesJoin
<1>4. FlushNotes((S \cap {Video}) \cup (S \cap {Audio}), FlushPosts(S, Video) \o FlushPosts(S, Audio))
  BY <1>1, <1>2, FlushNotesJoin
<1> QED
  BY <1>2, <1>3, <1>4

LEMMA VideoFlushDoes ==
    ASSUME NEW S
    PROVE  /\ VideoFlushPosts(S) \in Seq(Message)
           /\ \A t \in AV : /\ Hits(VideoFlushPosts(S), Stops(t)) = 0
                            /\ NoneOf(VideoFlushPosts(S), Setups(t))
                            /\ t = Video /\ t \in S => Hits(VideoFlushPosts(S), Flushes(t)) = 1
                            /\ t # Video \/ t \notin S => Hits(VideoFlushPosts(S), Flushes(t)) = 0
<1>1. CASE Video \in S
  BY <1>1, FlushToldDoes, OneMessageDoes DEF VideoFlushPosts, AV
<1>2. CASE Video \notin S
  <2>1. <<>> \in Seq(Message) /\ \A X : Hits(<<>>, X) = 0 /\ NoneOf(<<>>, X)
    BY HitsEmpty DEF NoneOf
  <2> QED
    BY <1>2, <2>1 DEF VideoFlushPosts
<1> QED
  BY <1>1, <1>2

(* flushDecoder: whoever was not being flushed now is, and the request is queued.  *)
LEMMA BooksFlush ==
    ASSUME NEW status \in [AV -> FlushStatus], NEW decs, NEW q, NEW vq, NEW cod,
           Books(status, decs, q, vq, cod),
           NEW S, S \subseteq AV, \A t \in S : Flushable(status[t]), NEW shutdown,
           NEW a, FlushNotes(S, a)
    PROVE  Books(StatusAfterFlush(S, shutdown, status, decs), decs, q \o a, vq \o VideoFlushPosts(S), cod)
<1> DEFINE b == VideoFlushPosts(S)
           after == StatusAfterFlush(S, shutdown, status, decs)
<1>1. /\ q \in Seq(Message) /\ vq \in Seq(Message) /\ Accounts(status, q, vq, cod)
      /\ SetUpFirst(decs, q, vq, cod)
  BY DEF Books
<1>2. a \in Seq(Message) /\ b \in Seq(Message)
  BY VideoFlushDoes DEF FlushNotes
<1>3. ASSUME NEW t \in AV
      PROVE  /\ InQueues(a, b, Stops(t)) = 0
             /\ t \in S => InQueues(a, b, Flushes(t)) = 1
             /\ t \notin S => InQueues(a, b, Flushes(t)) = 0
  <2>1. /\ Hits(b, Stops(t)) = 0
        /\ t = Video /\ t \in S => Hits(b, Flushes(t)) = 1
        /\ t # Video \/ t \notin S => Hits(b, Flushes(t)) = 0
    BY VideoFlushDoes
  <2>2. /\ Hits(a, Stops(t)) = 0
        /\ t = Audio /\ t \in S => Hits(a, Flushes(t)) = 1
        /\ t # Audio \/ t \notin S => Hits(a, Flushes(t)) = 0
    BY DEF FlushNotes
  <2>3. (t = Video /\ t # Audio) \/ (t = Audio /\ t # Video)
    BY DEF AV, Audio, Video
  <2> QED
    BY <2>1, <2>2, <2>3 DEF InQueues
<1>4. \A t \in AV : /\ t \in S => ~InFlush(status[t]) /\ InFlush(after[t])
                    /\ t \notin S => (InFlush(after[t]) <=> InFlush(status[t]))
                    /\ after[t] = "SHUTTING_DOWN_DECODER" <=> status[t] = "SHUTTING_DOWN_DECODER"
  BY DEF StatusAfterFlush, InFlush, Flushable
<1>5. \A t \in AV : NoneOf(a, Setups(t)) /\ NoneOf(b, Setups(t)) /\ NoneOf(a, Gones(t))
  BY VideoFlushDoes DEF FlushNotes
<1> HIDE DEF b, after
<1>6. Accounts(after, q \o a, vq \o b, cod)
  <2> SUFFICES ASSUME NEW t \in AV
               PROVE  /\ Owed(InQueues(q \o a, vq \o b, Flushes(t)), cod[t].st = "flushing", InFlush(after[t]))
                      /\ Owed(InQueues(q \o a, vq \o b, Stops(t)), Stopping(cod[t]),
                              after[t] = "SHUTTING_DOWN_DECODER")
    BY DEF Accounts
  <2>1. /\ Owed(InQueues(q, vq, Flushes(t)), cod[t].st = "flushing", InFlush(status[t]))
        /\ Owed(InQueues(q, vq, Stops(t)), Stopping(cod[t]), status[t] = "SHUTTING_DOWN_DECODER")
    BY <1>1 DEF Accounts
  <2>2. \A X : /\ InQueues(q \o a, vq \o b, X) = InQueues(q, vq, X) + InQueues(a, b, X)
               /\ InQueues(q, vq, X) \in Nat
    BY <1>1, <1>2, QueuesJoin
  <2>3. Owed(InQueues(q \o a, vq \o b, Flushes(t)), cod[t].st = "flushing", InFlush(after[t]))
    <3>1. CASE t \in S
      <4>1. InQueues(q, vq, Flushes(t)) = 0 /\ ~(cod[t].st = "flushing")
        BY <1>4, <2>1, <3>1 DEF Owed
      <4>2. InQueues(q \o a, vq \o b, Flushes(t)) = 1
        BY <1>3, <2>2, <3>1, <4>1
      <4> QED
        BY <1>4, <3>1, <4>1, <4>2 DEF Owed
    <3>2. CASE t \notin S
      <4>1. InQueues(q \o a, vq \o b, Flushes(t)) = InQueues(q, vq, Flushes(t))
        BY <1>3, <2>2, <3>2
      <4> QED
        BY <1>4, <2>1, <3>2, <4>1 DEF Owed
    <3> QED
      BY <3>1, <3>2
  <2>4. Owed(InQueues(q \o a, vq \o b, Stops(t)), Stopping(cod[t]), after[t] = "SHUTTING_DOWN_DECODER")
    <3>1. InQueues(q \o a, vq \o b, Stops(t)) = InQueues(q, vq, Stops(t))
      BY <1>3, <2>2
    <3> QED
      BY <1>4, <2>1, <3>1
  <2> QED
    BY <2>3, <2>4
<1>7. SetUpFirst(decs, q \o a, vq \o b, cod)
  BY <1>1, <1>2, <1>5, SetUpPosts
<1>8. q \o a \in Seq(Message) /\ vq \o b \in Seq(Message)
  BY <1>1, <1>2, ConcatProperties
<1> QED
  BY <1>6, <1>7, <1>8 DEF Books, b, after

(* The messages a handler of the player posts that tell nobody to flush.        *)
LEMMA CalmNotes ==
    /\ <<>> \in Seq(Calm)
    /\ ScanNow \in Seq(Calm)
    /\ \A t \in AV : <<ToCodec(t, "Resume")>> \in Seq(Calm)
    /\ <<Msg("player", "Reset", "-", "-")>> \in Seq(Calm)
    /\ \A event : PausePosts(event) \in Seq(Calm)
<1>1. ASSUME NEW m \in Message, m.what \in {"Resume", "Reset", "ScanSources", "Pause"}
      PROVE  <<m>> \in Seq(Calm)
  <2>1. m \in Calm
    BY <1>1 DEF Calm
  <2> QED
    BY <2>1
<1>2. /\ Msg("player", "ScanSources", "-", "cur") \in Message
      /\ Msg("player", "Reset", "-", "-") \in Message
      /\ Msg("player", "Pause", "-", "-") \in Message
      /\ \A t \in AV : ToCodec(t, "Resume") \in Message
  BY MsgType DEF Handlers, Whats, Args, ToCodec
<1>3. /\ Msg("player", "ScanSources", "-", "cur").what = "ScanSources"
      /\ Msg("player", "Reset", "-", "-").what = "Reset"
      /\ Msg("player", "Pause", "-", "-").what = "Pause"
      /\ \A t \in AV : ToCodec(t, "Resume").what = "Resume"
  BY DEF ToCodec, Msg
<1>4. <<Msg("player", "Pause", "-", "-")>> \in Seq(Calm)
  BY <1>1, <1>2, <1>3
<1> QED
  BY <1>1, <1>2, <1>3, <1>4 DEF ScanNow, PausePosts

BooksNow == Books(flushing, decoders, mainQ, videoQ, codec)

LEMMA BooksAbort == ASSUME BooksNow, NEW check, Abort(check) PROVE BooksNow'
  BY DEF BooksNow, Abort, playerVars

(* What follows a flush that is over everywhere: nobody owes anything.           *)
LEMMA BooksAllFlushed ==
    ASSUME BooksNow, NEW status \in [AV -> FlushStatus], NEW decs, NEW q, NEW vq,
           Books(status, decs, q, vq, codec), AllFlushed(q, vq, decs),
           \A t \in AV : status[t] \in {"FLUSHED", "SHUT_DOWN"}
    PROVE  BooksNow'
<1> DEFINE rq == IF Audio \in Survivors(decs) THEN Append(q, ToCodec(Audio, "Resume")) ELSE q
           rv == IF Video \in Survivors(decs) THEN Append(vq, ToCodec(Video, "Resume")) ELSE vq
           rescan == ScanAfterFlush(decs)
           none == [t \in AV |-> "NONE"]
<1>0. /\ q \in Seq(Message) /\ vq \in Seq(Message)
      /\ ToCodec(Audio, "Resume") \in Message /\ ToCodec(Video, "Resume") \in Message
  BY NotesType DEF Books, Plain, Whats, AV
<1>1. PICK a \in Seq(Calm), b \in Seq(Calm) : rq = q \o a /\ rv = vq \o b
  <2>1. /\ q = q \o <<>> /\ vq = vq \o <<>>
        /\ Append(q, ToCodec(Audio, "Resume")) = q \o <<ToCodec(Audio, "Resume")>>
        /\ Append(vq, ToCodec(Video, "Resume")) = vq \o <<ToCodec(Video, "Resume")>>
    BY <1>0, AppendIsConcat, ConcatEmptySeq
  <2> QED
    BY <2>1, CalmNotes DEF AV
<1> HIDE DEF rq, rv
<1>2. ASSUME NEW decs2, \A t \in AV : t \in decs => t \in decs2
      PROVE  Books(none, decs2, rq, rv, codec)
  <2>1. Books(status, decs, rq, rv, codec)
    BY <1>1, BooksPost
  <2> QED
    BY <1>2, <2>1, BooksStatus DEF InFlush
<1>3. CASE \E check : Abort(check)
  BY <1>3, BooksAbort
<1>4. CASE ~\E check : Abort(check)
  <2>1. /\ flushing' = none
        /\ resetInProgress => FinishReset(rq, rv) /\ FailedResetCheck(decs) = "none"
        /\ ~resetInProgress => /\ mainQ' = rq \o PostedAfterFlush(decs) /\ videoQ' = rv
                               /\ decoders' = IF rescan THEN decs \ {Text} ELSE decs
                               /\ UNCHANGED codec
    BY <1>4 DEF AllFlushed, rq, rv
  <2>2. CASE resetInProgress
    <3>1. /\ mainQ' = Obsolete(rq) /\ videoQ' = rv /\ decoders' = {} /\ UNCHANGED codec
          /\ \A t \in AV : t \notin decs
      BY <2>1, <2>2 DEF FinishReset, FailedResetCheck
    <3>2. Books(none, {}, rq, rv, codec)
      BY <1>2, <3>1
    <3> QED
      BY <2>1, <3>1, <3>2, BooksObsolete DEF BooksNow
  <2>3. CASE ~resetInProgress
    <3>1. PostedAfterFlush(decs) \in Seq(Calm)
      BY CalmNotes DEF PostedAfterFlush
    <3>2. \A t \in AV : t \in decs => t \in decoders'
      BY <2>1, <2>3 DEF AV, Audio, Video, Text
    <3> HIDE DEF none, rescan
    <3>3. Books(none, decoders', rq, rv, codec)
      BY <1>2, <3>2
    <3>4. Books(none, decoders', rq \o PostedAfterFlush(decs), rv \o <<>>, codec)
      BY <3>1, <3>3, CalmNotes, BooksPost
    <3>5. rv \o <<>> = rv
      BY <3>3, ConcatEmptySeq DEF Books
    <3> QED
      BY <2>1, <2>3, <3>4, <3>5 DEF BooksNow
  <2> QED
    BY <2>2, <2>3
<1> QED
  BY <1>3, <1>4

LEMMA BooksFinish ==
    ASSUME BooksNow, NEW status \in [AV -> FlushStatus], NEW decs, NEW q, NEW vq,
           Books(status, decs, q, vq, codec), FinishFlushIfPossible(status, decs, q, vq)
    PROVE  BooksNow'
<1> DEFINE again == FlushedForReset(status, decs)
           wrong == FailedFlushCheck(again, status, decs)
           some  == \E t \in AV : status[t] \notin {"FLUSHED", "SHUT_DOWN"}
<1>1. CASE wrong # "none"
  BY <1>1, BooksAbort DEF FinishFlushIfPossible
<1>2. CASE wrong = "none" /\ again # {}
  <2>1. /\ mainQ' = Obsolete(q) \o FlushPosts(again, Audio) \o FlushPosts(again, Video)
        /\ videoQ' = vq \o VideoFlushPosts(again)
        /\ flushing' = StatusAfterFlush(again, TRUE, status, decs)
        /\ decoders' = decs /\ UNCHANGED codec
    BY <1>2 DEF FinishFlushIfPossible
  <2>2. again \subseteq AV /\ \A t \in again : Flushable(status[t])
    BY DEF FlushedForReset
  <2> HIDE DEF again
  <2> DEFINE a == FlushPosts(again, Audio)
             b == FlushPosts(again, Video)
  <2>3. FlushNotes(again, a \o b)
    BY <2>2, FlushNotesAre
  <2>4. a \in Seq(Message) /\ b \in Seq(Message) /\ Obsolete(q) \in Seq(Message)
    BY HarmlessFlush, HarmlessDoes, ObsoleteKeeps DEF AV, Books
  <2>5. mainQ' = Obsolete(q) \o a \o b
    BY <2>1
  <2> HIDE DEF a, b
  <2>6. mainQ' = Obsolete(q) \o (a \o b)
    BY <2>4, <2>5, ConcatAssociative
  <2>7. Books(status, decs, Obsolete(q), vq, codec)
    BY BooksObsolete
  <2>8. Books(StatusAfterFlush(again, TRUE, status, decs), decs, Obsolete(q) \o (a \o b),
              vq \o VideoFlushPosts(again), codec)
    BY <2>2, <2>3, <2>7, BooksFlush
  <2> QED
    BY <2>1, <2>6, <2>8 DEF BooksNow
<1>3. CASE wrong = "none" /\ again = {} /\ some
  BY <1>3 DEF FinishFlushIfPossible, BooksNow
<1>4. CASE wrong = "none" /\ again = {} /\ ~some
  <2>1. AllFlushed(q, vq, decs)
    BY <1>4 DEF FinishFlushIfPossible
  <2> QED
    BY <1>4, <2>1, BooksAllFlushed
<1> QED
  BY <1>1, <1>2, <1>3, <1>4

-----------------------------------------------------------------------------
(*                 Steps that have nothing to do with a flush                 *)

LEMMA OneCalm ==
    ASSUME NEW m \in Message,
           m.to = "renderer" \/ m.what \notin {"Flush", "FlushCompleted", "Shutdown", "ShutdownCompleted", "Setup"}
    PROVE  <<m>> \in Seq(Calm)
<1>1. m \in Calm
  BY DEF Calm
<1> QED
  BY <1>1

LEMMA CalmReplies ==
    ASSUME NEW t \in AV
    PROVE  /\ MainPart(t, Consumed(t)) \in Seq(Calm) /\ VideoPart(t, Consumed(t)) \in Seq(Calm)
           /\ <<Consumed(t)>> \in Seq(Calm)
           /\ MainPart(t, Drained(t)) \in Seq(Calm) /\ VideoPart(t, Drained(t)) \in Seq(Calm)
           /\ \A res \in {"ok", "eos", "err"} : /\ MainPart(t, Filled(t, res)) \in Seq(Calm)
                                                /\ VideoPart(t, Filled(t, res)) \in Seq(Calm)
<1>1. /\ Consumed(t) \in Message /\ Drained(t) \in Message
      /\ \A res \in {"ok", "eos", "err"} : Filled(t, res) \in Message
  BY MsgType DEF Consumed, Drained, Filled, Handlers, Whats, Args
<1>2. /\ <<Consumed(t)>> \in Seq(Calm) /\ <<Drained(t)>> \in Seq(Calm)
      /\ \A res \in {"ok", "eos", "err"} : <<Filled(t, res)>> \in Seq(Calm)
  BY <1>1, OneCalm DEF Consumed, Drained, Filled, Msg
<1> QED
  BY <1>2, CalmNotes DEF MainPart, VideoPart

LEMMA CalmReports ==
    ASSUME NEW t \in AV
    PROVE  /\ \A what \in {"FillThisBuffer", "DrainThisBuffer", "Error"} : <<Notify(t, what, "-")>> \in Seq(Calm)
           /\ \A res \in {"eos", "err"} : <<Notify(t, "EOS", res)>> \in Seq(Calm)
           /\ \A c : Ask(t, c) \in Seq(Calm)
<1>1. /\ \A what \in {"FillThisBuffer", "DrainThisBuffer", "Error"} : Notify(t, what, "-") \in Message
      /\ \A res \in {"eos", "err"} : Notify(t, "EOS", res) \in Message
  BY MsgType DEF Notify, Handlers, Whats, Args
<1>2. /\ \A what \in {"FillThisBuffer", "DrainThisBuffer", "Error"} : <<Notify(t, what, "-")>> \in Seq(Calm)
      /\ \A res \in {"eos", "err"} : <<Notify(t, "EOS", res)>> \in Seq(Calm)
  BY <1>1, OneCalm DEF Notify, Msg
<1> QED
  BY <1>2, CalmNotes DEF Ask

LEMMA CalmCalls ==
    ASSUME NEW what \in {"SetDataSource", "Start", "Pause", "Resume", "Seek", "Reset"}
    PROVE  Call(what) \in Seq(Calm)
<1>1. Msg("player", what, "-", "-") \in Message
  BY MsgType DEF Handlers, Whats, Args
<1>2. <<Msg("player", what, "-", "-")>> \in Seq(Calm)
  BY <1>1, OneCalm DEF Msg
<1> QED
  BY <1>2 DEF Call

LEMMA BTakes ==
    ASSUME BooksNow, UNCHANGED <<flushing, decoders, codec>>,
           mainQ # <<>>,
           \/ Head(mainQ).to = "renderer"
           \/ Head(mainQ).what \notin {"Flush", "FlushCompleted", "Shutdown", "ShutdownCompleted", "Setup"},
           NEW a \in Seq(Calm), NEW b \in Seq(Calm),
           mainQ' = Tail(mainQ) \o a, videoQ' = videoQ \o b
    PROVE  BooksNow'
<1>1. Head(mainQ) \in Calm
  BY HeadTailProperties DEF BooksNow, Books, Calm
<1>2. Books(flushing, decoders, Tail(mainQ), videoQ, codec)
  BY <1>1, BooksTake DEF BooksNow
<1> QED
  BY <1>2, BooksPost DEF BooksNow

LEMMA BPosts ==
    ASSUME BooksNow, UNCHANGED <<flushing, decoders, codec>>,
           NEW a \in Seq(Calm), NEW b \in Seq(Calm),
           mainQ' = mainQ \o a, videoQ' = videoQ \o b
    PROVE  BooksNow'
  BY BooksPost DEF BooksNow

LEMMA BIdles ==
    ASSUME BooksNow, UNCHANGED <<flushing, decoders, codec, mainQ, videoQ>>
    PROVE  BooksNow'
  BY DEF BooksNow

LEMMA VideoQueueStays == ASSUME BooksNow PROVE videoQ \o <<>> = videoQ /\ mainQ \o <<>> = mainQ
  BY ConcatEmptySeq DEF BooksNow, Books

LEMMA BPlayerPasses ==
    ASSUME BooksNow,
           \/ OnSetDataSource \/ OnStart \/ OnPause \/ OnResume \/ OnRendererEOS
           \/ \E t \in AV : OnDrainThisBuffer(t)
    PROVE  BooksNow'
<1>0. videoQ \o <<>> = videoQ /\ <<>> \in Seq(Calm) /\ <<>> \o <<>> = <<>>
  BY VideoQueueStays, CalmNotes
<1>1. \A what \in {"Pause", "Resume"} : ToRenderer(what, "-") \in Seq(Calm)
  BY RendererToldDoes DEF Usual, Plain, Whats
<1>2. CASE \E check : Abort(check)
  BY <1>2, BooksAbort
<1>3. CASE (OnSetDataSource \/ OnStart \/ OnPause) /\ ~\E check : Abort(check)
  <2>1. /\ UNCHANGED <<flushing, decoders, codec, videoQ>> /\ mainQ # <<>>
        /\ Head(mainQ).what \in {"SetDataSource", "Start", "Pause"}
        /\ \E a \in {<<>>, ScanNow, ToRenderer("Pause", "-")} : mainQ' = Tail(mainQ) \o a
    BY <1>3 DEF OnSetDataSource, OnStart, OnPause, PlayerDue, Due, Posts
  <2> QED
    BY <1>0, <1>1, <2>1, CalmNotes, BTakes
<1>4. CASE OnResume /\ ~\E check : Abort(check)
  <2>1. /\ UNCHANGED <<flushing, decoders, codec, videoQ>> /\ mainQ # <<>>
        /\ Head(mainQ).what = "Resume"
        /\ \E a \in {<<>>, ScanNow} : mainQ' = Tail(mainQ) \o (ToRenderer("Resume", "-") \o a)
    BY <1>4 DEF OnResume, PlayerDue, Due, Posts
  <2>2. \A a \in {<<>>, ScanNow} : ToRenderer("Resume", "-") \o a \in Seq(Calm)
    BY <1>1, CalmNotes, ConcatProperties
  <2> QED
    BY <1>0, <2>1, <2>2, BTakes
<1>5. CASE OnRendererEOS
  <2>1. /\ UNCHANGED <<flushing, decoders, codec, videoQ>> /\ mainQ # <<>>
        /\ Head(mainQ).what = "RendererEOS"
        /\ \E event : mainQ' = Tail(mainQ) \o PausePosts(event)
    BY <1>5 DEF OnRendererEOS, PlayerDue, Due, Posts
  <2> QED
    BY <1>0, <2>1, CalmNotes, BTakes
<1>6. ASSUME NEW t \in AV, OnDrainThisBuffer(t) PROVE BooksNow'
  <2>1. /\ UNCHANGED <<flushing, decoders, codec>> /\ mainQ # <<>>
        /\ Head(mainQ).what = "DrainThisBuffer"
        /\ \/ mainQ' = Tail(mainQ) \o MainPart(t, Drained(t)) /\ videoQ' = videoQ \o VideoPart(t, Drained(t))
           \/ mainQ' = Tail(mainQ) \o ToRenderer("QueueBuffer", t) /\ videoQ' = videoQ
    BY <1>6 DEF OnDrainThisBuffer, Reply, DueFor, PlayerDue, Due, Posts, playerVars
  <2>2. ToRenderer("QueueBuffer", t) \in Seq(Calm)
    BY RendererToldDoes DEF Usual, Plain, Whats
  <2> QED
    BY <1>0, <2>1, <2>2, CalmReplies, BTakes
<1> QED
  BY <1>2, <1>3, <1>4, <1>5, <1>6

LEMMA BDecoderEnd ==
    ASSUME BooksNow, NEW t \in AV, OnDecoderEnd(t)
    PROVE  BooksNow'
<1> DEFINE m == Head(mainQ)
           res == IF m.what = "Error" THEN "err" ELSE m.arg
           notes == IF renderer.on /\ ~IsFlushingState(flushing[t])
                    THEN <<Msg("renderer", "QueueEOS", t, res)>> ELSE <<>>
<1>1. /\ UNCHANGED <<flushing, decoders, codec, videoQ>>
      /\ mainQ # <<>> /\ m.what \in {"EOS", "Error"} /\ mainQ' = Tail(mainQ) \o notes
  BY DEF OnDecoderEnd, DueFor, PlayerDue, Due, Posts, playerVars
<1>2. m \in Message
  BY <1>1, HeadTailProperties DEF BooksNow, Books
<1>3. res \in {"eos", "err"}
  BY <1>1, <1>2 DEF Message
<1>4. Msg("renderer", "QueueEOS", t, res) \in Message
  BY <1>3, MsgType DEF Handlers, Whats, Args
<1>5. <<Msg("renderer", "QueueEOS", t, res)>> \in Seq(Calm)
  BY <1>4, OneCalm DEF Msg
<1>6. notes \in Seq(Calm)
  BY <1>5, CalmNotes
<1> HIDE DEF notes
<1> QED
  BY <1>1, <1>6, CalmNotes, VideoQueueStays, BTakes

LEMMA BRenderer ==
    ASSUME BooksNow, TypeOK,
           RendererHandles \/ \E t \in AV : RendererDrain(t) /\ RendererAlone
    PROVE  BooksNow'
<1>0. videoQ \o <<>> = videoQ /\ <<>> \in Seq(Calm)
  BY VideoQueueStays, CalmNotes
<1>1. ASSUME NEW a \in Seq(Calm), NEW b \in Seq(Calm), RendererTakes(a, b), RendererAlone,
             mainQ # <<>>, Head(mainQ).to = "renderer"
      PROVE  BooksNow'
  BY <1>1, BTakes DEF RendererTakes, RendererAlone, Alone, playerVars
<1>2. CASE \E check : Abort(check)
  BY <1>2, BooksAbort
<1>3. CASE RendererQueueBuffer /\ RendererAlone
  <2> DEFINE t == Head(mainQ).trk
  <2>1. mainQ # <<>> /\ Head(mainQ).to = "renderer"
    BY <1>3 DEF RendererQueueBuffer, Due
  <2>2. \/ \E a \in {<<>>, <<Consumed(Audio)>>} : RendererTakes(a, <<>>)
        \/ RendererTakes(MainPart(t, Consumed(t)), VideoPart(t, Consumed(t)))
    BY <1>3 DEF RendererQueueBuffer
  <2>3. <<Consumed(Audio)>> \in Seq(Calm)
    BY CalmReplies DEF AV
  <2>4. MainPart(t, Consumed(t)) \in Seq(Calm) /\ VideoPart(t, Consumed(t)) \in Seq(Calm)
    <3>1. CASE t \in AV
      BY <3>1, CalmReplies
    <3>2. CASE t \notin AV
      BY <1>0, <3>2 DEF MainPart, VideoPart, AV
    <3> QED
      BY <3>1, <3>2
  <2> HIDE DEF t
  <2> QED
    BY <1>0, <1>1, <1>3, <2>1, <2>2, <2>3, <2>4
<1>4. CASE (RendererQueueEOS \/ RendererResume) /\ RendererAlone
  <2>1. mainQ # <<>> /\ Head(mainQ).to = "renderer" /\ RendererTakes(<<>>, <<>>)
    BY <1>4 DEF RendererQueueEOS, RendererResume, Due
  <2> QED
    BY <1>0, <1>1, <1>4, <2>1
<1>5. CASE RendererFlush /\ RendererAlone
  <2> DEFINE t == Head(mainQ).trk
  <2>1. mainQ # <<>> /\ Head(mainQ).to = "renderer"
    BY <1>5 DEF RendererFlush, Due
  <2>2. \E a, b \in {<<>>, <<Consumed(t)>>} : RendererTakes(a, b) /\ (a # <<>> \/ b # <<>> => t \in AV)
    <3>1. CASE ~renderer.on
      BY <1>5, <3>1 DEF RendererFlush
    <3>2. CASE renderer.on
      <4>1. PICK held \in {<<>>, <<Consumed(t)>>} :
                RendererTakes(IF t = Audio THEN held ELSE <<>>, IF t = Video THEN held ELSE <<>>)
        BY <1>5, <3>2 DEF RendererFlush
      <4> QED
        BY <4>1 DEF AV
    <3> QED
      BY <3>1, <3>2
  <2>3. t \in AV => <<Consumed(t)>> \in Seq(Calm)
    BY CalmReplies
  <2> HIDE DEF t
  <2> QED
    BY <1>0, <1>1, <1>5, <2>1, <2>2, <2>3
<1>6. CASE RendererPause /\ ~\E check : Abort(check)
  <2>1. /\ UNCHANGED <<flushing, decoders, codec, videoQ>>
        /\ mainQ # <<>> /\ Head(mainQ).to = "renderer" /\ mainQ' = Tail(mainQ) \o <<>>
    BY <1>6 DEF RendererPause, Due, Posts, playerVars
  <2> QED
    BY <1>0, <2>1, BTakes
<1>7. ASSUME NEW t \in AV, RendererDrain(t), RendererAlone PROVE BooksNow'
  <2> DEFINE e == Head(renderer.queue[t])
             m == Msg("player", "RendererEOS", t, e)
  <2>0. UNCHANGED <<flushing, decoders, codec>>
    BY <1>7 DEF RendererAlone, Alone, playerVars
  <2>1. CASE e = "buffer"
    <3>1. mainQ' = mainQ \o MainPart(t, Consumed(t)) /\ videoQ' = videoQ \o VideoPart(t, Consumed(t))
      BY <1>7, <2>1 DEF RendererDrain
    <3> QED
      BY <2>0, <3>1, CalmReplies, BPosts
  <2>2. CASE e # "buffer"
    <3>1. mainQ' = Append(mainQ, m) /\ videoQ' = videoQ
      BY <1>7, <2>2 DEF RendererDrain
    <3>2. e \in {"eos", "err"}
      <4>1. renderer.queue[t] \in Seq(Entry) /\ renderer.queue[t] # <<>>
        BY <1>7 DEF RendererDrain, TypeOK, RendererTypeOK, Renderer
      <4> QED
        BY <2>2, <4>1, HeadTailProperties DEF Entry
    <3>3. m \in Message
      BY <3>2, MsgType DEF Handlers, Whats, Args
    <3>4. <<m>> \in Seq(Calm)
      BY <3>3, OneCalm DEF Msg
    <3> HIDE DEF m
    <3>5. mainQ' = mainQ \o <<m>>
      BY <3>1, <3>3, AppendIsConcat DEF BooksNow, Books
    <3> QED
      BY <1>0, <2>0, <3>1, <3>4, <3>5, BPosts
  <2> QED
    BY <2>1, <2>2
<1> QED
  BY <1>2, <1>3, <1>4, <1>5, <1>6, <1>7 DEF RendererHandles

LEMMA BTimersAndCalls ==
    ASSUME BooksNow, TimerFires \/ AppCalls \/ ResetReturns \/ SourceDiscontinuity
    PROVE  BooksNow'
<1>0. videoQ \o <<>> = videoQ /\ mainQ \o <<>> = mainQ /\ <<>> \in Seq(Calm)
  BY VideoQueueStays, CalmNotes
<1>1. CASE TimerFires
  <2>1. PICK m \in {Msg("player", "FillThisBuffer", t, "-") : t \in AV}
                     \cup {Msg("player", "ScanSources", "-", g) : g \in {"cur", "old"}} :
            /\ UNCHANGED <<flushing, decoders, codec, videoQ>> /\ mainQ' = Append(mainQ, m)
    BY <1>1 DEF TimerFires, FillTimerFires, ScanTimerFires, TimersAlone, Alone, playerVars
  <2>2. m \in Message /\ m.what \in {"FillThisBuffer", "ScanSources"}
    <3>1. m \in Message
      BY MsgType DEF Handlers, Whats, Args
    <3> QED
      BY <3>1 DEF Msg
  <2>3. <<m>> \in Seq(Calm)
    BY <2>2, OneCalm
  <2>4. mainQ' = mainQ \o <<m>>
    BY <2>1, <2>2, AppendIsConcat DEF BooksNow, Books
  <2> QED
    BY <1>0, <2>1, <2>3, <2>4, BPosts
<1>2. CASE AppCalls
  <2>1. PICK a, b \in {<<>>} \cup {Call(what) : what \in {"SetDataSource", "Start", "Pause", "Resume", "Seek", "Reset"}} :
            Calls(a) \/ Calls(a \o b)
    BY <1>2 DEF AppCalls, AppSetDataSource, AppStart, AppPause, AppSeek, AppReset
  <2>2. a \in Seq(Calm) /\ a \o b \in Seq(Calm)
    <3>1. a \in Seq(Calm) /\ b \in Seq(Calm)
      BY <1>0, CalmCalls
    <3> QED
      BY <3>1, ConcatProperties
  <2> QED
    BY <1>0, <2>1, <2>2, BPosts DEF Calls, playerVars
<1>3. CASE ResetReturns \/ SourceDiscontinuity
  BY <1>3, BIdles DEF ResetReturns, SourceDiscontinuity, looperVars, playerVars
<1> QED
  BY <1>1, <1>2, <1>3

-----------------------------------------------------------------------------
(*                     Steps of the player that flush                         *)

(* Whoever is waited for has a decoder.                                       *)
LEMMA WaitedFor ==
    ASSUME WaitedForHasDecoder, NEW t \in AV, InFlush(flushing[t]) \/ flushing[t] = "SHUTTING_DOWN_DECODER"
    PROVE  t \in decoders
  BY DEF WaitedForHasDecoder, Flushing, IsFlushingState, InFlush

LEMMA BooksTakeHead ==
    ASSUME BooksNow, mainQ # <<>>,
           \/ Head(mainQ).to = "renderer"
           \/ Head(mainQ).what \notin {"Flush", "FlushCompleted", "Shutdown", "ShutdownCompleted", "Setup"}
    PROVE  Books(flushing, decoders, Tail(mainQ), videoQ, codec)
<1>1. Head(mainQ) \in Calm
  BY HeadTailProperties DEF BooksNow, Books, Calm
<1> QED
  BY <1>1, BooksTake DEF BooksNow

LEMMA BResets ==
    ASSUME BooksNow, TypeOK, OnReset
    PROVE  BooksNow'
<1> DEFINE live == AV \cap decoders
           awaiting == \E t \in AV : flushing[t] = "AWAITING_DISCONTINUITY"
           notes == IF awaiting THEN ToRenderer("Resume", "-") ELSE <<>>
           q == Tail(mainQ) \o notes
           wrong == FailedFlushCheck(live, flushing, decoders)
           busy == \E t \in live : IsFlushingState(flushing[t])
<1>0. flushing \in [AV -> FlushStatus]
  BY DEF TypeOK
<1>1. mainQ # <<>> /\ Head(mainQ).what = "Reset"
  BY DEF OnReset, PlayerDue, Due
<1>2. notes \in Seq(Calm)
  BY RendererToldDoes, CalmNotes DEF Usual, Plain, Whats
<1> HIDE DEF notes
<1>3. Books(flushing, decoders, q, videoQ, codec)
  <2>1. Books(flushing, decoders, Tail(mainQ), videoQ, codec)
    BY <1>1, BooksTakeHead
  <2>2. Books(flushing, decoders, Tail(mainQ) \o notes, videoQ \o <<>>, codec)
    BY <1>2, <2>1, CalmNotes, BooksPost
  <2> QED
    BY <2>2, VideoQueueStays
<1>4. CASE busy
  <2>1. mainQ' = q /\ UNCHANGED <<videoQ, codec, decoders, flushing>>
    BY <1>4 DEF OnReset, notes
  <2> QED
    BY <1>3, <2>1 DEF BooksNow
<1>5. CASE \E check : Abort(check)
  BY <1>5, BooksAbort
<1>6. CASE ~busy /\ live = {} /\ ~\E check : Abort(check)
  <2>1. FinishReset(q, videoQ) /\ UNCHANGED flushing
    BY <1>6 DEF OnReset, notes
  <2> HIDE DEF q
  <2>2. mainQ' = Obsolete(q) /\ videoQ' = videoQ /\ decoders' = {} /\ UNCHANGED <<codec, flushing>>
    BY <2>1 DEF FinishReset
  <2>3. Books(flushing, {}, q, videoQ, codec)
    BY <1>3, <1>6, BooksStatus
  <2> QED
    BY <2>2, <2>3, BooksObsolete DEF BooksNow
<1>7. CASE ~busy /\ live # {} /\ ~\E check : Abort(check)
  <2>1. /\ wrong = "none"
        /\ mainQ' = Obsolete(q) \o FlushPosts(live, Audio) \o FlushPosts(live, Video)
        /\ videoQ' = videoQ \o VideoFlushPosts(live)
        /\ flushing' = StatusAfterFlush(live, TRUE, flushing, decoders)
        /\ UNCHANGED <<codec, decoders>>
    BY <1>7 DEF OnReset, notes
  <2>2. \A t \in live : Flushable(flushing[t])
    BY <2>1 DEF FailedFlushCheck
  <2>3. live \subseteq AV
    OBVIOUS
  <2> HIDE DEF q, live, wrong
  <2> DEFINE a == FlushPosts(live, Audio)
             b == FlushPosts(live, Video)
  <2>4. FlushNotes(live, a \o b)
    BY <2>3, FlushNotesAre
  <2>5. Books(flushing, decoders, Obsolete(q), videoQ, codec)
    BY <1>3, BooksObsolete
  <2>6. a \in Seq(Message) /\ b \in Seq(Message) /\ Obsolete(q) \in Seq(Message)
    BY <2>5, HarmlessFlush, HarmlessDoes DEF AV, Books
  <2>7. mainQ' = Obsolete(q) \o a \o b
    BY <2>1
  <2> HIDE DEF a, b
  <2>8. mainQ' = Obsolete(q) \o (a \o b)
    BY <2>6, <2>7, ConcatAssociative
  <2>9. Books(StatusAfterFlush(live, TRUE, flushing, decoders), decoders, Obsolete(q) \o (a \o b),
              videoQ \o VideoFlushPosts(live), codec)
    BY <1>0, <2>2, <2>3, <2>4, <2>5, BooksFlush
  <2> QED
    BY <2>1, <2>8, <2>9 DEF BooksNow
<1> QED
  BY <1>4, <1>5, <1>6, <1>7

LEMMA BSeeks ==
    ASSUME BooksNow, TypeOK, WaitedForHasDecoder, OnSeek
    PROVE  BooksNow'
<1>0. flushing \in [AV -> FlushStatus]
  BY DEF TypeOK
<1>1. mainQ # <<>> /\ Head(mainQ).what = "Seek"
  BY DEF OnSeek, PlayerDue, Due
<1>2. PICK res \in SeekResults : SeekWith(res)
  BY DEF OnSeek
<1> DEFINE S == IF res = "ok" THEN {t \in AV \cap decoders : Flushable(flushing[t])} ELSE {}
           flushed == IF S = {} THEN flushing ELSE StatusAfterFlush(S, TRUE, flushing, decoders)
           wrong == IF ~source THEN "null source" ELSE IF ~renderer.on THEN "null renderer"
                    ELSE FailedFlushCheck(S, flushing, decoders)
           gone == [t \in AV |-> IF t \in decoders THEN flushed[t] ELSE "SHUT_DOWN"]
<1>3. CASE wrong # "none"
  BY <1>2, <1>3, BooksAbort DEF SeekWith
<1>4. CASE wrong = "none"
  <2>1. /\ UNCHANGED <<codec, decoders>>
        /\ flushing' = IF res = "ok" THEN gone ELSE flushing
        /\ videoQ' = videoQ \o VideoFlushPosts(S)
        /\ S = {} => mainQ' = Tail(mainQ) \o <<>>
        /\ S # {} => mainQ' = Obsolete(Tail(mainQ)) \o FlushPosts(S, Video) \o FlushPosts(S, Audio)
    BY <1>2, <1>4 DEF SeekWith, Posts
  <2>2. S \subseteq AV /\ (\A t \in S : Flushable(flushing[t])) /\ (res # "ok" => S = {})
    OBVIOUS
  <2>3. /\ S = {} => flushed = flushing
        /\ S # {} => flushed = StatusAfterFlush(S, TRUE, flushing, decoders)
    OBVIOUS
  <2> HIDE DEF S, wrong, flushed
  <2>4. Books(flushing, decoders, Tail(mainQ), videoQ, codec)
    BY <1>1, BooksTakeHead
  <2>5. Books(flushed, decoders, mainQ', videoQ', codec)
    <3>1. CASE S = {}
      <4>1. VideoFlushPosts(S) = <<>> /\ <<>> \in Seq(Calm)
        BY <3>1, CalmNotes DEF VideoFlushPosts
      <4> QED
        BY <2>1, <2>3, <2>4, <3>1, <4>1, BooksPost
    <3>2. CASE S # {}
      <4> DEFINE a == FlushPosts(S, Video)
                 b == FlushPosts(S, Audio)
      <4>1. FlushNotes(S, a \o b)
        BY <2>2, FlushNotesAre
      <4>2. Books(flushing, decoders, Obsolete(Tail(mainQ)), videoQ, codec)
        BY <2>4, BooksObsolete
      <4>3. a \in Seq(Message) /\ b \in Seq(Message) /\ Obsolete(Tail(mainQ)) \in Seq(Message)
        BY <4>2, HarmlessFlush, HarmlessDoes DEF AV, Books
      <4>4. mainQ' = Obsolete(Tail(mainQ)) \o a \o b
        BY <2>1, <3>2
      <4> HIDE DEF a, b
      <4>5. mainQ' = Obsolete(Tail(mainQ)) \o (a \o b)
        BY <4>3, <4>4, ConcatAssociative
      <4>6. Books(StatusAfterFlush(S, TRUE, flushing, decoders), decoders,
                  Obsolete(Tail(mainQ)) \o (a \o b), videoQ \o VideoFlushPosts(S), codec)
        BY <1>0, <2>2, <4>1, <4>2, BooksFlush
      <4> QED
        BY <2>1, <2>3, <3>2, <4>5, <4>6
    <3> QED
      BY <3>1, <3>2
  <2>6. CASE res = "ok"
    <3>1. ASSUME NEW t \in AV
          PROVE  /\ InFlush(gone[t]) <=> InFlush(flushed[t])
                 /\ gone[t] = "SHUTTING_DOWN_DECODER" <=> flushed[t] = "SHUTTING_DOWN_DECODER"
      <4>1. CASE t \in decoders
        BY <4>1
      <4>2. CASE t \notin decoders
        <5>1. ~InFlush(flushing[t]) /\ flushing[t] # "SHUTTING_DOWN_DECODER"
          BY <4>2, WaitedFor
        <5>2. t \notin S
          BY <4>2 DEF S
        <5>3. ~InFlush(flushed[t]) /\ flushed[t] # "SHUTTING_DOWN_DECODER"
          BY <2>3, <5>1, <5>2 DEF StatusAfterFlush, InFlush
        <5>4. gone[t] = "SHUT_DOWN"
          BY <4>2
        <5> QED
          BY <5>3, <5>4 DEF InFlush
      <4> QED
        BY <4>1, <4>2
    <3> HIDE DEF gone
    <3>2. Books(gone, decoders, mainQ', videoQ', codec)
      BY <2>5, <3>1, BooksStatus
    <3> QED
      BY <2>1, <2>6, <3>2 DEF BooksNow
  <2>7. CASE res # "ok"
    BY <2>1, <2>2, <2>3, <2>5, <2>7 DEF BooksNow
  <2> QED
    BY <2>6, <2>7
<1> QED
  BY <1>3, <1>4

LEMMA BFills ==
    ASSUME BooksNow, TypeOK, NEW t \in AV, OnFillThisBuffer(t)
    PROVE  BooksNow'
<1> DEFINE d == Head(disc[t])
<1>0. flushing \in [AV -> FlushStatus]
  BY DEF TypeOK
<1>1. mainQ # <<>> /\ Head(mainQ).what = "FillThisBuffer"
  BY DEF OnFillThisBuffer, DueFor, PlayerDue, Due
<1>2. Books(flushing, decoders, Tail(mainQ), videoQ, codec)
  BY <1>1, BooksTakeHead
<1>3. ASSUME NEW res \in {"ok", "eos", "err"}, Reply(t, Filled(t, res)) PROVE BooksNow'
  <2>1. /\ UNCHANGED <<flushing, decoders, codec>>
        /\ mainQ' = Tail(mainQ) \o MainPart(t, Filled(t, res))
        /\ videoQ' = videoQ \o VideoPart(t, Filled(t, res))
    BY <1>3 DEF Reply, Posts, playerVars
  <2> QED
    BY <1>1, <2>1, CalmReplies, BTakes
<1>4. CASE Posts(<<>>) /\ UNCHANGED <<videoQ, scanTimers, codec, renderer, playerVars, driver, failed, disc>>
  <2>1. UNCHANGED <<flushing, decoders, codec, videoQ>> /\ mainQ' = Tail(mainQ) \o <<>>
    BY <1>4 DEF Posts, playerVars
  <2> QED
    BY <1>1, <2>1, CalmNotes, VideoQueueStays, BTakes
<1>5. CASE FeedChange(t, d) /\ ~\E check : Abort(check)
  <2>1. /\ FailedFlushCheck({t}, flushing, decoders) = "none"
        /\ mainQ' = Obsolete(Tail(mainQ)) \o FlushPosts({t}, t) \o MainPart(t, Filled(t, "err"))
        /\ videoQ' = videoQ \o VideoFlushPosts({t}) \o VideoPart(t, Filled(t, "err"))
        /\ flushing' = StatusAfterFlush({t}, t \in d.format, flushing, decoders)
        /\ UNCHANGED <<codec, decoders>>
    BY <1>5 DEF FeedChange
  <2>2. Flushable(flushing[t])
    BY <2>1 DEF FailedFlushCheck
  <2>3. FlushNotes({t}, FlushPosts({t}, t))
    <3>1. FlushNotes({t} \cap {t}, FlushPosts({t}, t))
      BY FlushNotesOne
    <3> QED
      BY <3>1
  <2>4. Books(flushing, decoders, Obsolete(Tail(mainQ)), videoQ, codec)
    BY <1>2, BooksObsolete
  <2>5. Books(StatusAfterFlush({t}, t \in d.format, flushing, decoders), decoders,
              Obsolete(Tail(mainQ)) \o FlushPosts({t}, t), videoQ \o VideoFlushPosts({t}), codec)
    BY <1>0, <2>2, <2>3, <2>4, BooksFlush
  <2>6. MainPart(t, Filled(t, "err")) \in Seq(Calm) /\ VideoPart(t, Filled(t, "err")) \in Seq(Calm)
    BY CalmReplies
  <2>7. Books(StatusAfterFlush({t}, t \in d.format, flushing, decoders), decoders,
              Obsolete(Tail(mainQ)) \o FlushPosts({t}, t) \o MainPart(t, Filled(t, "err")),
              videoQ \o VideoFlushPosts({t}) \o VideoPart(t, Filled(t, "err")), codec)
    BY <2>5, <2>6, BooksPost
  <2> QED
    BY <2>1, <2>7 DEF BooksNow
<1>6. CASE FeedUnaffected(t) /\ ~IsFlushingState(flushing[t])
  <2> DEFINE f == [flushing EXCEPT ![t] = "FLUSHED"]
  <2>1. FinishFlushIfPossible(f, decoders, Tail(mainQ), videoQ)
    BY <1>6 DEF FeedUnaffected
  <2>2. f \in [AV -> FlushStatus] /\ f[t] = "FLUSHED" /\ \A u \in AV : u # t => f[u] = flushing[u]
    BY <1>0 DEF FlushStatus
  <2> HIDE DEF f
  <2>3. \A u \in AV : /\ InFlush(f[u]) <=> InFlush(flushing[u])
                      /\ f[u] = "SHUTTING_DOWN_DECODER" <=> flushing[u] = "SHUTTING_DOWN_DECODER"
    <3> SUFFICES ASSUME NEW u \in AV
                 PROVE  /\ InFlush(f[u]) <=> InFlush(flushing[u])
                        /\ f[u] = "SHUTTING_DOWN_DECODER" <=> flushing[u] = "SHUTTING_DOWN_DECODER"
      OBVIOUS
    <3>1. CASE u = t
      BY <1>6, <2>2, <3>1 DEF InFlush, IsFlushingState
    <3>2. CASE u # t
      BY <2>2, <3>2
    <3> QED
      BY <3>1, <3>2
  <2>4. Books(f, decoders, Tail(mainQ), videoQ, codec)
    BY <1>2, <2>3, BooksStatus
  <2> QED
    BY <2>1, <2>2, <2>4, BooksFinish
<1>7. CASE \E check : Abort(check)
  BY <1>7, BooksAbort
<1> QED
  BY <1>3, <1>4, <1>5, <1>6, <1>7 DEF OnFillThisBuffer, FeedDiscontinuity

-----------------------------------------------------------------------------
(*                     Answers, and decoders that come and go                 *)

(* The head of a queue that something is owed by: nobody else owes it.          *)
LEMMA HeadOwes ==
    ASSUME NEW n \in Nat, NEW works, NEW waits, Owed(n, works, waits), NEW k \in Nat, n = k + 1
    PROVE  waits /\ ~works /\ k = 0
  BY DEF Owed

LEMMA MainHeadOwes ==
    ASSUME BooksNow, mainQ # <<>>, NEW t \in AV
    PROVE  /\ Head(mainQ) \in Flushes(t) =>
                  /\ InFlush(flushing[t]) /\ codec[t].st # "flushing"
                  /\ InQueues(Tail(mainQ), videoQ, Flushes(t)) = 0
           /\ Head(mainQ) \in Stops(t) =>
                  /\ flushing[t] = "SHUTTING_DOWN_DECODER" /\ ~Stopping(codec[t])
                  /\ InQueues(Tail(mainQ), videoQ, Stops(t)) = 0
           /\ Head(mainQ) \in Gones(t) => NoneOf(OnLooper(mainQ, videoQ, t), Setups(t))
<1>1. /\ mainQ \in Seq(Message) /\ videoQ \in Seq(Message)
      /\ Owed(InQueues(mainQ, videoQ, Flushes(t)), codec[t].st = "flushing", InFlush(flushing[t]))
      /\ Owed(InQueues(mainQ, videoQ, Stops(t)), Stopping(codec[t]), flushing[t] = "SHUTTING_DOWN_DECODER")
      /\ SetUpFirst(decoders, mainQ, videoQ, codec)
  BY DEF BooksNow, Books, Accounts
<1>2. \A S : Head(mainQ) \in S => /\ InQueues(mainQ, videoQ, S) \in Nat
                                  /\ InQueues(Tail(mainQ), videoQ, S) \in Nat
                                  /\ InQueues(mainQ, videoQ, S) = InQueues(Tail(mainQ), videoQ, S) + 1
  BY <1>1, QueuesServed, SMTT(60)
<1>3. Head(mainQ) \in Flushes(t) =>
          /\ InFlush(flushing[t]) /\ codec[t].st # "flushing"
          /\ InQueues(Tail(mainQ), videoQ, Flushes(t)) = 0
  <2> SUFFICES ASSUME Head(mainQ) \in Flushes(t)
               PROVE  InFlush(flushing[t]) /\ ~(codec[t].st = "flushing")
                      /\ InQueues(Tail(mainQ), videoQ, Flushes(t)) = 0
    OBVIOUS
  <2>1. /\ InQueues(mainQ, videoQ, Flushes(t)) \in Nat
        /\ InQueues(Tail(mainQ), videoQ, Flushes(t)) \in Nat
        /\ InQueues(mainQ, videoQ, Flushes(t)) = InQueues(Tail(mainQ), videoQ, Flushes(t)) + 1
    BY <1>2
  <2> QED
    BY <1>1, <2>1, HeadOwes
<1>4. Head(mainQ) \in Stops(t) =>
          /\ flushing[t] = "SHUTTING_DOWN_DECODER" /\ ~Stopping(codec[t])
          /\ InQueues(Tail(mainQ), videoQ, Stops(t)) = 0
  <2> SUFFICES ASSUME Head(mainQ) \in Stops(t)
               PROVE  flushing[t] = "SHUTTING_DOWN_DECODER" /\ ~Stopping(codec[t])
                      /\ InQueues(Tail(mainQ), videoQ, Stops(t)) = 0
    OBVIOUS
  <2>1. /\ InQueues(mainQ, videoQ, Stops(t)) \in Nat
        /\ InQueues(Tail(mainQ), videoQ, Stops(t)) \in Nat
        /\ InQueues(mainQ, videoQ, Stops(t)) = InQueues(Tail(mainQ), videoQ, Stops(t)) + 1
    BY <1>2
  <2> QED
    BY <1>1, <2>1, HeadOwes
<1>5. Head(mainQ) \in Gones(t) => NoneOf(OnLooper(mainQ, videoQ, t), Setups(t))
  <2>1. NoneOf(mainQ, Gones(t)) => Head(mainQ) \notin Gones(t)
    BY <1>1, NoneOfTail
  <2> QED
    BY <1>1, <2>1 DEF SetUpFirst
<1> QED
  BY <1>3, <1>4, <1>5

(* What a Decoder passes on is still owed; what it drops nobody waits for.        *)
LEMMA BForwards ==
    ASSUME BooksNow, RInv, DecoderForwards
    PROVE  BooksNow'
<1> DEFINE m == Head(mainQ)
           f == [m EXCEPT !.to = "player"]
<1>1. /\ UNCHANGED <<flushing, decoders, codec, videoQ>>
      /\ mainQ # <<>> /\ m.to = "decoder"
      /\ m.trk \in decoders => mainQ' = Tail(mainQ) \o <<f>>
      /\ m.trk \notin decoders => mainQ' = Tail(mainQ) \o <<>>
  BY DEF DecoderForwards, Posts, playerVars
<1>2. /\ mainQ \in Seq(Message) /\ videoQ \in Seq(Message) /\ Tail(mainQ) \in Seq(Message)
      /\ Accounts(flushing, mainQ, videoQ, codec) /\ SetUpFirst(decoders, mainQ, videoQ, codec)
      /\ m \in Message /\ m \notin Strange
  BY <1>1, NoneOfTail DEF BooksNow, Books, RInv
<1>3. f \in Message /\ \A t, whats : f \in About(t, whats) <=> m \in About(t, whats)
  <2>1. f \in Message /\ f.to = "player" /\ f.what = m.what /\ f.trk = m.trk
    BY <1>2 DEF Message, Handlers
  <2> HIDE DEF f, m
  <2> QED
    BY <1>1, <1>2, <2>1 DEF About
<1>4. \A t \in AV : m \notin Setups(t)
  BY <1>1, <1>2 DEF Setups, About, Strange, Reported
<1>5. SetUpFirst(decoders, Tail(mainQ), videoQ, codec)
  BY <1>1, <1>2, SetUpServed
<1>6. \A S : /\ InQueues(Tail(mainQ), videoQ, S) \in Nat
             /\ m \in S => InQueues(mainQ, videoQ, S) = InQueues(Tail(mainQ), videoQ, S) + 1
             /\ m \notin S => InQueues(mainQ, videoQ, S) = InQueues(Tail(mainQ), videoQ, S)
  <2> SUFFICES ASSUME NEW S
               PROVE  /\ InQueues(Tail(mainQ), videoQ, S) \in Nat
                      /\ Head(mainQ) \in S => InQueues(mainQ, videoQ, S) = InQueues(Tail(mainQ), videoQ, S) + 1
                      /\ Head(mainQ) \notin S => InQueues(mainQ, videoQ, S) = InQueues(Tail(mainQ), videoQ, S)
    OBVIOUS
  <2>1. mainQ \in Seq(Message) /\ videoQ \in Seq(Message) /\ mainQ # <<>>
    BY <1>1, <1>2
  <2> HIDE DEF m, f
  <2> QED
    BY <2>1, QueuesServed
<1>7. \A t \in AV : m \in Gones(t) => NoneOf(OnLooper(Tail(mainQ), videoQ, t), Setups(t))
  <2> SUFFICES ASSUME NEW t \in AV, m \in Gones(t)
               PROVE  NoneOf(OnLooper(Tail(mainQ), videoQ, t), Setups(t))
    OBVIOUS
  <2>1. NoneOf(OnLooper(mainQ, videoQ, t), Setups(t))
    BY <1>1, MainHeadOwes
  <2>2. \A S : NoneOf(mainQ, S) => NoneOf(Tail(mainQ), S)
    BY <1>1, <1>2, NoneOfTail
  <2> QED
    BY <2>1, <2>2 DEF OnLooper
<1> HIDE DEF f
<1>8. CASE m.trk \in decoders
  <2> DEFINE s == <<f>>
  <2>0. s \in Seq(Message) /\ <<>> \in Seq(Message) /\ videoQ \o <<>> = videoQ /\ mainQ' = Tail(mainQ) \o s
    BY <1>1, <1>3, <1>8, OneMessageDoes, VideoQueueStays
  <2>1. \A S : /\ f \in S => Hits(s, S) = 1
               /\ f \notin S => Hits(s, S) = 0 /\ NoneOf(s, S)
               /\ Hits(<<>>, S) = 0 /\ NoneOf(<<>>, S)
    BY <1>3, OneMessageDoes, HitsEmpty DEF NoneOf
  <2> DEFINE e == <<>>
  <2> HIDE DEF s
  <2>2. ASSUME NEW t \in AV, NEW whats
        PROVE  InQueues(mainQ', videoQ', About(t, whats)) = InQueues(mainQ, videoQ, About(t, whats))
    <3>0. e \in Seq(Message) /\ videoQ \o e = videoQ /\ Hits(e, About(t, whats)) = 0
      BY <2>0, <2>1
    <3> HIDE DEF e
    <3>1. /\ InQueues(Tail(mainQ) \o s, videoQ \o e, About(t, whats))
               = InQueues(Tail(mainQ), videoQ, About(t, whats)) + InQueues(s, e, About(t, whats))
          /\ InQueues(Tail(mainQ), videoQ, About(t, whats)) \in Nat
      <4> DEFINE p == Tail(mainQ)
                 S == About(t, whats)
      <4>1. p \in Seq(Message) /\ videoQ \in Seq(Message) /\ s \in Seq(Message) /\ e \in Seq(Message)
        BY <1>2, <2>0, <3>0
      <4> HIDE DEF p, S
      <4>2. InQueues(p \o s, videoQ \o e, S) = InQueues(p, videoQ, S) + InQueues(s, e, S)
        BY <4>1, QueuesJoin
      <4>3. InQueues(p, videoQ, S) \in Nat
        BY <4>1, QueuesServed
      <4> QED
        BY <4>2, <4>3 DEF p, S
    <3>2. /\ m \in About(t, whats) => InQueues(s, e, About(t, whats)) = 1
          /\ m \notin About(t, whats) => InQueues(s, e, About(t, whats)) = 0
      BY <1>3, <2>1, <3>0 DEF InQueues
    <3>3. /\ InQueues(mainQ', videoQ', About(t, whats))
               = InQueues(Tail(mainQ), videoQ, About(t, whats)) + InQueues(s, e, About(t, whats))
      BY <1>1, <2>0, <3>0, <3>1
    <3> QED
      BY <1>6, <3>1, <3>2, <3>3
  <2>3. Accounts(flushing, mainQ', videoQ', codec)
    <3>1. \A t \in AV : /\ InQueues(mainQ', videoQ', Flushes(t)) = InQueues(mainQ, videoQ, Flushes(t))
                        /\ InQueues(mainQ', videoQ', Stops(t)) = InQueues(mainQ, videoQ, Stops(t))
      BY <2>2 DEF Flushes, Stops
    <3> QED
      BY <1>2, <3>1, AccountsSame
  <2>4. \A t \in AV : /\ NoneOf(s, Setups(t)) /\ NoneOf(<<>>, Setups(t))
                      /\ NoneOf(s, Gones(t)) \/ NoneOf(OnLooper(Tail(mainQ), videoQ, t), Setups(t))
    BY <1>3, <1>4, <1>7, <2>1 DEF Setups, Gones
  <2>5. SetUpFirst(decoders, Tail(mainQ) \o s, videoQ \o <<>>, codec)
    BY <1>2, <1>5, <2>0, <2>4, SetUpPosts
  <2>6. mainQ' \in Seq(Message) /\ videoQ' \in Seq(Message)
    BY <1>1, <1>2, <2>0, ConcatProperties
  <2> QED
    BY <1>1, <2>0, <2>3, <2>5, <2>6 DEF BooksNow, Books
<1>9. CASE m.trk \notin decoders
  <2>1. mainQ' = Tail(mainQ)
    BY <1>1, <1>2, <1>9, ConcatEmptySeq
  <2>2. \A t \in AV : m \notin Flushes(t) /\ m \notin Stops(t)
    <3> SUFFICES ASSUME NEW t \in AV, m \in Flushes(t) \/ m \in Stops(t) PROVE FALSE
      OBVIOUS
    <3>1. m.trk = t
      BY DEF Flushes, Stops, About
    <3>2. InFlush(flushing[t]) \/ flushing[t] = "SHUTTING_DOWN_DECODER"
      BY <1>1, MainHeadOwes
    <3>3. t \in decoders
      BY <3>2, WaitedFor DEF RInv
    <3> QED
      BY <1>9, <3>1, <3>3
  <2>3. Accounts(flushing, Tail(mainQ), videoQ, codec)
    <3>1. \A t \in AV : /\ InQueues(Tail(mainQ), videoQ, Flushes(t)) = InQueues(mainQ, videoQ, Flushes(t))
                        /\ InQueues(Tail(mainQ), videoQ, Stops(t)) = InQueues(mainQ, videoQ, Stops(t))
      BY <1>6, <2>2
    <3> QED
      BY <1>2, <3>1, AccountsSame
  <2> QED
    BY <1>1, <1>2, <1>5, <2>1, <2>3 DEF BooksNow, Books
<1> QED
  BY <1>8, <1>9

(* The flush is over for t: it is done, or its decoder is shut down.             *)
LEMMA BFlushCompleted ==
    ASSUME BooksNow, TypeOK, NEW t \in AV, OnFlushCompleted(t)
    PROVE  BooksNow'
<1> DEFINE stop == ToCodec(t, "Shutdown")
           m == Head(mainQ)
<1>0. flushing \in [AV -> FlushStatus]
  BY DEF TypeOK
<1>1. mainQ # <<>> /\ m.to = "player" /\ m.what = "FlushCompleted" /\ m.trk = t
  BY DEF OnFlushCompleted, DueFor, PlayerDue, Due
<1>2. /\ mainQ \in Seq(Message) /\ videoQ \in Seq(Message) /\ Tail(mainQ) \in Seq(Message)
      /\ Accounts(flushing, mainQ, videoQ, codec) /\ SetUpFirst(decoders, mainQ, videoQ, codec)
      /\ m \in Message
  BY <1>1, NoneOfTail DEF BooksNow, Books
<1>3. /\ m \in Flushes(t)
      /\ \A w \in AV : m \notin Stops(w)
      /\ \A w \in AV : w # t => m \notin Flushes(w)
  BY <1>1, <1>2 DEF Flushes, Stops, About
<1>4. /\ InFlush(flushing[t]) /\ codec[t].st # "flushing"
      /\ InQueues(Tail(mainQ), videoQ, Flushes(t)) = 0
  BY <1>1, <1>3, MainHeadOwes
<1>5. ASSUME NEW S
      PROVE  /\ InQueues(Tail(mainQ), videoQ, S) \in Nat
             /\ m \notin S => InQueues(mainQ, videoQ, S) = InQueues(Tail(mainQ), videoQ, S)
  BY <1>1, <1>2, QueuesServed, SMTT(60)
<1>6. SetUpFirst(decoders, Tail(mainQ), videoQ, codec)
  BY <1>1, <1>2, SetUpServed
<1>7. ASSUME NEW u \in AV
      PROVE  /\ u # t => Owed(InQueues(Tail(mainQ), videoQ, Flushes(u)), codec[u].st = "flushing",
                              InFlush(flushing[u]))
             /\ Owed(InQueues(Tail(mainQ), videoQ, Stops(u)), Stopping(codec[u]),
                     flushing[u] = "SHUTTING_DOWN_DECODER")
  <2>1. /\ Owed(InQueues(mainQ, videoQ, Flushes(u)), codec[u].st = "flushing", InFlush(flushing[u]))
        /\ Owed(InQueues(mainQ, videoQ, Stops(u)), Stopping(codec[u]), flushing[u] = "SHUTTING_DOWN_DECODER")
    BY <1>2 DEF Accounts
  <2> HIDE DEF m
  <2>0. m \notin Stops(u) /\ (u # t => m \notin Flushes(u))
    BY <1>3
  <2>2. InQueues(mainQ, videoQ, Stops(u)) = InQueues(Tail(mainQ), videoQ, Stops(u))
    BY <1>5, <2>0
  <2>3. u # t => InQueues(mainQ, videoQ, Flushes(u)) = InQueues(Tail(mainQ), videoQ, Flushes(u))
    BY <1>5, <2>0
  <2> QED
    BY <2>1, <2>2, <2>3
<1> HIDE DEF m
<1>8. CASE \E check : Abort(check)
  BY <1>8, BooksAbort
<1>9. CASE ~NeedShutdown(flushing[t]) /\ ~\E check : Abort(check)
  <2> DEFINE g == [flushing EXCEPT ![t] = "FLUSHED"]
  <2>1. FinishFlushIfPossible(g, decoders, Tail(mainQ), videoQ)
    BY <1>9 DEF OnFlushCompleted
  <2>2. g \in [AV -> FlushStatus] /\ g[t] = "FLUSHED" /\ \A u \in AV : u # t => g[u] = flushing[u]
    BY <1>0 DEF FlushStatus
  <2> HIDE DEF g
  <2>3. Accounts(g, Tail(mainQ), videoQ, codec)
    <3> SUFFICES ASSUME NEW u \in AV
                 PROVE  /\ Owed(InQueues(Tail(mainQ), videoQ, Flushes(u)), codec[u].st = "flushing", InFlush(g[u]))
                        /\ Owed(InQueues(Tail(mainQ), videoQ, Stops(u)), Stopping(codec[u]),
                                g[u] = "SHUTTING_DOWN_DECODER")
      BY DEF Accounts
    <3>1. CASE u # t
      BY <1>7, <2>2, <3>1
    <3>2. CASE u = t
      <4>1. ~InFlush(g[t]) /\ ~(g[t] = "SHUTTING_DOWN_DECODER") /\ ~(flushing[t] = "SHUTTING_DOWN_DECODER")
        BY <1>4, <2>2 DEF InFlush
      <4> QED
        BY <1>4, <1>7, <3>2, <4>1 DEF Owed
    <3> QED
      BY <3>1, <3>2
  <2>4. Books(g, decoders, Tail(mainQ), videoQ, codec)
    BY <1>2, <1>6, <2>3 DEF Books
  <2> QED
    BY <2>1, <2>2, <2>4, BooksFinish
<1>10. CASE NeedShutdown(flushing[t]) /\ ~\E check : Abort(check)
  <2> DEFINE g == [flushing EXCEPT ![t] = "SHUTTING_DOWN_DECODER"]
             a == MainPart(t, stop)
             b == VideoPart(t, stop)
  <2>1. FinishFlushIfPossible(g, decoders, Tail(mainQ) \o a, videoQ \o b)
    BY <1>10 DEF OnFlushCompleted
  <2>2. /\ g \in [AV -> FlushStatus] /\ g[t] = "SHUTTING_DOWN_DECODER"
        /\ \A u \in AV : u # t => g[u] = flushing[u]
    BY <1>0 DEF FlushStatus
  <2>3. stop \in Message
    BY NotesType DEF Plain, Whats
  <2>4. /\ stop \in Stops(t) /\ \A u \in AV : /\ stop \notin Flushes(u) /\ stop \notin Setups(u)
                                              /\ stop \notin Gones(u)
                                              /\ u # t => stop \notin Stops(u)
    BY <2>3 DEF ToCodec, Msg, Flushes, Stops, Setups, Gones, About
  <2>5. (a = <<stop>> /\ b = <<>>) \/ (a = <<>> /\ b = <<stop>>)
    BY DEF MainPart, VideoPart, AV, Audio, Video
  <2> HIDE DEF g, a, b, stop
  <2>6. /\ a \in Seq(Message) /\ b \in Seq(Message)
        /\ \A S : /\ stop \in S => InQueues(a, b, S) = 1
                  /\ stop \notin S => InQueues(a, b, S) = 0 /\ NoneOf(a, S) /\ NoneOf(b, S)
    <3>1. /\ <<>> \in Seq(Message) /\ <<stop>> \in Seq(Message)
          /\ \A S : /\ Hits(<<>>, S) = 0 /\ NoneOf(<<>>, S)
                    /\ stop \in S => Hits(<<stop>>, S) = 1
                    /\ stop \notin S => Hits(<<stop>>, S) = 0 /\ NoneOf(<<stop>>, S)
      BY <2>3, OneMessageDoes, HitsEmpty DEF NoneOf
    <3>2. a \in Seq(Message) /\ b \in Seq(Message)
      BY <2>5, <3>1
    <3>3. ASSUME NEW S
          PROVE  /\ stop \in S => InQueues(a, b, S) = 1
                 /\ stop \notin S => InQueues(a, b, S) = 0 /\ NoneOf(a, S) /\ NoneOf(b, S)
      <4> DEFINE e == <<>>
                 s == <<stop>>
      <4>1. (a = s /\ b = e) \/ (a = e /\ b = s)
        BY <2>5
      <4>2. /\ Hits(e, S) = 0 /\ NoneOf(e, S)
            /\ stop \in S => Hits(s, S) = 1
            /\ stop \notin S => Hits(s, S) = 0 /\ NoneOf(s, S)
        BY <3>1
      <4> HIDE DEF e, s
      <4>3. stop \in S => Hits(a, S) + Hits(b, S) = 1
        BY <4>1, <4>2
      <4>4. stop \notin S => Hits(a, S) + Hits(b, S) = 0 /\ NoneOf(a, S) /\ NoneOf(b, S)
        BY <4>1, <4>2
      <4> QED
        BY <4>3, <4>4 DEF InQueues
    <3> QED
      BY <3>2, <3>3
  <2>7. ASSUME NEW S
        PROVE  InQueues(Tail(mainQ) \o a, videoQ \o b, S) = InQueues(Tail(mainQ), videoQ, S) + InQueues(a, b, S)
    <3> DEFINE p == Tail(mainQ)
    <3>1. p \in Seq(Message) /\ videoQ \in Seq(Message) /\ a \in Seq(Message) /\ b \in Seq(Message)
      BY <1>2, <2>6
    <3> HIDE DEF p
    <3>2. InQueues(p \o a, videoQ \o b, S) = InQueues(p, videoQ, S) + InQueues(a, b, S)
      BY <3>1, QueuesJoin
    <3> QED
      BY <3>2 DEF p
  <2>8. ASSUME NEW S, stop \notin S
        PROVE  InQueues(Tail(mainQ) \o a, videoQ \o b, S) = InQueues(Tail(mainQ), videoQ, S)
    <3>1. InQueues(a, b, S) = 0
      BY <2>6, <2>8
    <3> QED
      BY <1>5, <2>7, <3>1
  <2>9. Accounts(g, Tail(mainQ) \o a, videoQ \o b, codec)
    <3> SUFFICES ASSUME NEW u \in AV
                 PROVE  /\ Owed(InQueues(Tail(mainQ) \o a, videoQ \o b, Flushes(u)),
                                codec[u].st = "flushing", InFlush(g[u]))
                        /\ Owed(InQueues(Tail(mainQ) \o a, videoQ \o b, Stops(u)), Stopping(codec[u]),
                                g[u] = "SHUTTING_DOWN_DECODER")
      BY DEF Accounts
    <3>0. InQueues(Tail(mainQ) \o a, videoQ \o b, Flushes(u)) = InQueues(Tail(mainQ), videoQ, Flushes(u))
      BY <2>4, <2>8
    <3>1. CASE u # t
      <4>1. InQueues(Tail(mainQ) \o a, videoQ \o b, Stops(u)) = InQueues(Tail(mainQ), videoQ, Stops(u))
        BY <2>4, <2>8, <3>1
      <4> QED
        BY <1>7, <2>2, <3>0, <3>1, <4>1
    <3>2. CASE u = t
      <4>1. ~InFlush(g[t]) /\ g[t] = "SHUTTING_DOWN_DECODER" /\ ~(flushing[t] = "SHUTTING_DOWN_DECODER")
        BY <1>4, <2>2 DEF InFlush
      <4>2. InQueues(Tail(mainQ), videoQ, Stops(t)) = 0 /\ ~Stopping(codec[t])
        BY <1>7, <4>1 DEF Owed
      <4>3. InQueues(a, b, Stops(t)) = 1
        BY <2>4, <2>6
      <4>4. InQueues(Tail(mainQ) \o a, videoQ \o b, Stops(t)) = 1
        BY <2>7, <4>2, <4>3
      <4> QED
        BY <1>4, <3>0, <3>2, <4>1, <4>2, <4>4 DEF Owed
    <3> QED
      BY <3>1, <3>2
  <2>10. SetUpFirst(decoders, Tail(mainQ) \o a, videoQ \o b, codec)
    <3>1. \A u \in AV : NoneOf(a, Setups(u)) /\ NoneOf(b, Setups(u)) /\ NoneOf(a, Gones(u))
      BY <2>4, <2>6
    <3> QED
      BY <1>2, <1>6, <2>6, <3>1, SetUpPosts
  <2>11. Books(g, decoders, Tail(mainQ) \o a, videoQ \o b, codec)
    BY <1>2, <2>6, <2>9, <2>10, ConcatProperties DEF Books
  <2> QED
    BY <2>1, <2>2, <2>11, BooksFinish
<1> QED
  BY <1>8, <1>9, <1>10

(* The decoder of t is gone.                                                  *)
LEMMA BShutdownCompleted ==
    ASSUME BooksNow, TypeOK, NEW t \in AV, OnShutdownCompleted(t)
    PROVE  BooksNow'
<1> DEFINE m == Head(mainQ)
           g == [flushing EXCEPT ![t] = "SHUT_DOWN"]
           decs == decoders \ {t}
<1>0. flushing \in [AV -> FlushStatus]
  BY DEF TypeOK
<1>1. mainQ # <<>> /\ m.to = "player" /\ m.what = "ShutdownCompleted" /\ m.trk = t
  BY DEF OnShutdownCompleted, DueFor, PlayerDue, Due
<1>2. /\ mainQ \in Seq(Message) /\ videoQ \in Seq(Message) /\ Tail(mainQ) \in Seq(Message)
      /\ Accounts(flushing, mainQ, videoQ, codec) /\ SetUpFirst(decoders, mainQ, videoQ, codec)
      /\ m \in Message
  BY <1>1, NoneOfTail DEF BooksNow, Books
<1>3. /\ m \in Stops(t) /\ m \in Gones(t)
      /\ \A w \in AV : m \notin Flushes(w)
      /\ \A w \in AV : w # t => m \notin Stops(w)
  BY <1>1, <1>2 DEF Flushes, Stops, Gones, About
<1>4. /\ flushing[t] = "SHUTTING_DOWN_DECODER" /\ ~Stopping(codec[t])
      /\ InQueues(Tail(mainQ), videoQ, Stops(t)) = 0
      /\ NoneOf(OnLooper(mainQ, videoQ, t), Setups(t))
  BY <1>1, <1>3, MainHeadOwes
<1>5. ASSUME NEW S, m \notin S
      PROVE  InQueues(mainQ, videoQ, S) = InQueues(Tail(mainQ), videoQ, S)
  BY <1>1, <1>2, <1>5, QueuesServed
<1>6. SetUpFirst(decoders, Tail(mainQ), videoQ, codec)
  BY <1>1, <1>2, SetUpServed
<1>7. SetUpFirst(decs, Tail(mainQ), videoQ, codec)
  <2>1. NoneOf(OnLooper(Tail(mainQ), videoQ, t), Setups(t))
    <3>1. NoneOf(mainQ, Setups(t)) => NoneOf(Tail(mainQ), Setups(t))
      BY <1>1, <1>2, NoneOfTail
    <3> QED
      BY <1>4, <3>1 DEF OnLooper
  <2>2. \A u \in AV : ~NoneOf(OnLooper(Tail(mainQ), videoQ, u), Setups(u)) => (u \in decoders => u \in decs)
    BY <2>1
  <2> HIDE DEF decs
  <2> QED
    BY <1>6, <2>2, SetUpSame
<1>8. FinishFlushIfPossible(g, decs, Tail(mainQ), videoQ)
  BY <1>4 DEF OnShutdownCompleted
<1>9. g \in [AV -> FlushStatus] /\ g[t] = "SHUT_DOWN" /\ \A u \in AV : u # t => g[u] = flushing[u]
  BY <1>0 DEF FlushStatus
<1> HIDE DEF m, g, decs
<1>10. Accounts(g, Tail(mainQ), videoQ, codec)
  <2> SUFFICES ASSUME NEW u \in AV
               PROVE  /\ Owed(InQueues(Tail(mainQ), videoQ, Flushes(u)), codec[u].st = "flushing", InFlush(g[u]))
                      /\ Owed(InQueues(Tail(mainQ), videoQ, Stops(u)), Stopping(codec[u]),
                              g[u] = "SHUTTING_DOWN_DECODER")
    BY DEF Accounts
  <2>1. /\ Owed(InQueues(mainQ, videoQ, Flushes(u)), codec[u].st = "flushing", InFlush(flushing[u]))
        /\ Owed(InQueues(mainQ, videoQ, Stops(u)), Stopping(codec[u]), flushing[u] = "SHUTTING_DOWN_DECODER")
    BY <1>2 DEF Accounts
  <2>0. m \notin Flushes(u) /\ (u # t => m \notin Stops(u))
    BY <1>3
  <2>2. InQueues(Tail(mainQ), videoQ, Flushes(u)) = InQueues(mainQ, videoQ, Flushes(u))
    BY <1>5, <2>0
  <2>3. CASE u # t
    <3>1. InQueues(Tail(mainQ), videoQ, Stops(u)) = InQueues(mainQ, videoQ, Stops(u))
      BY <1>5, <2>0, <2>3
    <3> QED
      BY <1>9, <2>1, <2>2, <2>3, <3>1
  <2>4. CASE u = t
    <3>1. ~InFlush(g[t]) /\ ~(g[t] = "SHUTTING_DOWN_DECODER") /\ ~InFlush(flushing[t])
      BY <1>4, <1>9 DEF InFlush
    <3>2. InQueues(Tail(mainQ), videoQ, Flushes(t)) = 0 /\ ~(codec[t].st = "flushing")
      BY <2>1, <2>2, <2>4, <3>1 DEF Owed
    <3> QED
      BY <1>4, <2>4, <3>1, <3>2 DEF Owed
  <2> QED
    BY <2>3, <2>4
<1>11. Books(g, decs, Tail(mainQ), videoQ, codec)
  BY <1>2, <1>7, <1>10 DEF Books
<1> QED
  BY <1>8, <1>9, <1>11, BooksFinish

-----------------------------------------------------------------------------
(*                            Steps of the codecs                             *)

(* A codec that has not been set up stays that way, unless nothing sets it up.     *)
LEMMA SetUpCodec ==
    ASSUME TypeOK, NEW t \in AV, NEW c, NEW q, NEW vq, SetUpFirst(decoders, q, vq, codec),
           \/ NoneOf(OnLooper(q, vq, t), Setups(t))
           \/ codec[t].st = "idle" /\ ~codec[t].defer => c.st = "idle" /\ ~c.defer
    PROVE  SetUpFirst(decoders, q, vq, [codec EXCEPT ![t] = c])
<1> DEFINE f == [codec EXCEPT ![t] = c]
<1>1. f[t] = c /\ \A u \in AV : u # t => f[u] = codec[u]
  BY DEF TypeOK, CodecTypeOK
<1> HIDE DEF f
<1> SUFFICES ASSUME NEW u \in AV
             PROVE  LET cq == OnLooper(q, vq, u)
                    IN  /\ \/ NoneOf(cq, Setups(u))
                           \/ u \in decoders /\ f[u].st = "idle" /\ ~f[u].defer /\ NoneOf(q, Gones(u))
                        /\ Never(cq, Setups(u) \cup Stops(u), Setups(u))
  BY DEF SetUpFirst, f
<1> DEFINE cq == OnLooper(q, vq, u)
<1>2. /\ \/ NoneOf(cq, Setups(u))
         \/ u \in decoders /\ codec[u].st = "idle" /\ ~codec[u].defer /\ NoneOf(q, Gones(u))
      /\ Never(cq, Setups(u) \cup Stops(u), Setups(u))
  BY DEF SetUpFirst
<1>3. CASE u = t
  BY <1>1, <1>2, <1>3
<1>4. CASE u # t
  BY <1>1, <1>2, <1>4
<1> QED
  BY <1>3, <1>4

(* The books are right if they are for the codec that takes the step.            *)
LEMMA BAnswers ==
    ASSUME BooksNow, TypeOK, NEW t \in AV, NEW c,
           UNCHANGED <<flushing, decoders>>, codec' = [codec EXCEPT ![t] = c],
           mainQ' \in Seq(Message), videoQ' \in Seq(Message),
           \A u \in AV : u # t => /\ InQueues(mainQ', videoQ', Flushes(u)) = InQueues(mainQ, videoQ, Flushes(u))
                                  /\ InQueues(mainQ', videoQ', Stops(u)) = InQueues(mainQ, videoQ, Stops(u)),
           Owed(InQueues(mainQ', videoQ', Flushes(t)), c.st = "flushing", InFlush(flushing[t])),
           Owed(InQueues(mainQ', videoQ', Stops(t)), Stopping(c), flushing[t] = "SHUTTING_DOWN_DECODER"),
           SetUpFirst(decoders, mainQ', videoQ', codec),
           \/ NoneOf(OnLooper(mainQ', videoQ', t), Setups(t))
           \/ codec[t].st = "idle" /\ ~codec[t].defer => c.st = "idle" /\ ~c.defer
    PROVE  BooksNow'
<1> DEFINE f == [codec EXCEPT ![t] = c]
<1>1. f[t] = c /\ \A u \in AV : u # t => f[u] = codec[u]
  BY DEF TypeOK, CodecTypeOK
<1>2. SetUpFirst(decoders, mainQ', videoQ', f)
  BY SetUpCodec
<1>3. codec' = f
  OBVIOUS
<1> HIDE DEF f
<1>4. Accounts(flushing, mainQ', videoQ', f)
  <2> SUFFICES ASSUME NEW u \in AV
               PROVE  /\ Owed(InQueues(mainQ', videoQ', Flushes(u)), f[u].st = "flushing", InFlush(flushing[u]))
                      /\ Owed(InQueues(mainQ', videoQ', Stops(u)), Stopping(f[u]),
                              flushing[u] = "SHUTTING_DOWN_DECODER")
    BY DEF Accounts
  <2>1. CASE u = t
    BY <1>1, <2>1
  <2>2. CASE u # t
    BY <1>1, <2>2 DEF BooksNow, Books, Accounts
  <2> QED
    BY <2>1, <2>2
<1> QED
  BY <1>2, <1>3, <1>4 DEF BooksNow, Books

(* What is left on the two loopers when the codec of t has taken its message.     *)
Rest(t)      == IF t = Video THEN mainQ ELSE Tail(mainQ)
VideoRest(t) == IF t = Video THEN Tail(videoQ) ELSE videoQ

LEMMA RestDoes ==
    ASSUME BooksNow, NEW t \in AV, NEW what, CodecDue(t, what)
    PROVE  /\ Rest(t) \in Seq(Message) /\ VideoRest(t) \in Seq(Message)
           /\ Head(CodecQueue(t)) \in Message
           /\ Head(CodecQueue(t)).to = "codec" /\ Head(CodecQueue(t)).what = what
           /\ Head(CodecQueue(t)).trk = t
           /\ \A notes : CodecTakes(t, notes) => mainQ' = Rest(t) \o notes /\ videoQ' = VideoRest(t)
           /\ SetUpFirst(decoders, Rest(t), VideoRest(t), codec)
<1>1. /\ mainQ \in Seq(Message) /\ videoQ \in Seq(Message)
      /\ SetUpFirst(decoders, mainQ, videoQ, codec)
  BY DEF BooksNow, Books
<1>2. /\ CodecQueue(t) # <<>> /\ Head(CodecQueue(t)).to = "codec"
      /\ Head(CodecQueue(t)).what = what /\ Head(CodecQueue(t)).trk = t
  BY DEF CodecDue
<1>3. CASE t = Video
  BY <1>1, <1>2, <1>3, NoneOfTail, SetUpServed DEF CodecQueue, Rest, VideoRest, CodecTakes
<1>4. CASE t # Video
  BY <1>1, <1>2, <1>4, NoneOfTail, SetUpServed DEF CodecQueue, Rest, VideoRest, CodecTakes
<1> QED
  BY <1>3, <1>4

LEMMA RestCounts ==
    ASSUME BooksNow, NEW t \in AV, NEW what, CodecDue(t, what), NEW S
    PROVE  /\ InQueues(Rest(t), VideoRest(t), S) \in Nat /\ InQueues(mainQ, videoQ, S) \in Nat
           /\ Head(CodecQueue(t)) \in S
                => InQueues(mainQ, videoQ, S) = InQueues(Rest(t), VideoRest(t), S) + 1
           /\ Head(CodecQueue(t)) \notin S
                => InQueues(mainQ, videoQ, S) = InQueues(Rest(t), VideoRest(t), S)
<1>1. mainQ \in Seq(Message) /\ videoQ \in Seq(Message)
  BY DEF BooksNow, Books
<1>2. CodecQueue(t) # <<>>
  BY DEF CodecDue
<1>3. CASE t = Video
  BY <1>1, <1>2, <1>3, QueuesServed DEF CodecQueue, Rest, VideoRest
<1>4. CASE t # Video
  BY <1>1, <1>2, <1>4, QueuesServed DEF CodecQueue, Rest, VideoRest
<1> QED
  BY <1>3, <1>4

(* A request that a codec takes is owed, and by nobody else.                     *)
LEMMA RestOwes ==
    ASSUME BooksNow, NEW t \in AV, NEW what, CodecDue(t, what)
    PROVE  /\ what = "Flush" =>
                  /\ InFlush(flushing[t]) /\ codec[t].st # "flushing"
                  /\ InQueues(Rest(t), VideoRest(t), Flushes(t)) = 0
           /\ what = "Shutdown" =>
                  /\ flushing[t] = "SHUTTING_DOWN_DECODER" /\ ~Stopping(codec[t])
                  /\ InQueues(Rest(t), VideoRest(t), Stops(t)) = 0
                  /\ NoneOf(OnLooper(Rest(t), VideoRest(t), t), Setups(t))
           /\ what = "Setup" =>
                  /\ codec[t].st = "idle" /\ ~codec[t].defer
                  /\ NoneOf(OnLooper(Rest(t), VideoRest(t), t), Setups(t))
<1> DEFINE m == Head(CodecQueue(t))
<1>1. /\ m \in Message /\ m.to = "codec" /\ m.what = what /\ m.trk = t
      /\ CodecQueue(t) # <<>> /\ CodecQueue(t) \in Seq(Message)
  BY RestDoes DEF CodecDue, CodecQueue, BooksNow, Books
<1>2. /\ what = "Flush" => m \in Flushes(t)
      /\ what = "Shutdown" => m \in Stops(t)
      /\ what = "Setup" => m \in Setups(t)
  BY <1>1 DEF Flushes, Stops, Setups, About
<1>3. /\ Owed(InQueues(mainQ, videoQ, Flushes(t)), codec[t].st = "flushing", InFlush(flushing[t]))
      /\ Owed(InQueues(mainQ, videoQ, Stops(t)), Stopping(codec[t]), flushing[t] = "SHUTTING_DOWN_DECODER")
  BY DEF BooksNow, Books, Accounts
<1>4. /\ \/ NoneOf(CodecQueue(t), Setups(t))
         \/ t \in decoders /\ codec[t].st = "idle" /\ ~codec[t].defer /\ NoneOf(mainQ, Gones(t))
      /\ Never(CodecQueue(t), Setups(t) \cup Stops(t), Setups(t))
  BY DEF BooksNow, Books, SetUpFirst, OnLooper, CodecQueue
<1>5. what \in {"Shutdown", "Setup"} => NoneOf(OnLooper(Rest(t), VideoRest(t), t), Setups(t))
  <2>1. OnLooper(Rest(t), VideoRest(t), t) = Tail(CodecQueue(t))
    BY DEF OnLooper, Rest, VideoRest, CodecQueue
  <2> HIDE DEF m
  <2>2. what \in {"Shutdown", "Setup"} => m \in Setups(t) \cup Stops(t)
    BY <1>2
  <2>3. Head(CodecQueue(t)) \in Setups(t) \cup Stops(t) => NoneOf(Tail(CodecQueue(t)), Setups(t))
    BY <1>1, <1>4, NeverDoes
  <2> QED
    BY <2>1, <2>2, <2>3 DEF m
<1>6. what = "Setup" => codec[t].st = "idle" /\ ~codec[t].defer
  <2>1. NoneOf(CodecQueue(t), Setups(t)) => m \notin Setups(t)
    BY <1>1, NoneOfTail
  <2> QED
    BY <1>2, <1>4, <2>1
<1>7. ASSUME what = "Flush"
      PROVE  InFlush(flushing[t]) /\ ~(codec[t].st = "flushing") /\ InQueues(Rest(t), VideoRest(t), Flushes(t)) = 0
  <2>1. /\ InQueues(mainQ, videoQ, Flushes(t)) \in Nat /\ InQueues(Rest(t), VideoRest(t), Flushes(t)) \in Nat
        /\ InQueues(mainQ, videoQ, Flushes(t)) = InQueues(Rest(t), VideoRest(t), Flushes(t)) + 1
    BY <1>2, <1>7, RestCounts
  <2> QED
    BY <1>3, <2>1, HeadOwes
<1>8. ASSUME what = "Shutdown"
      PROVE  /\ flushing[t] = "SHUTTING_DOWN_DECODER" /\ ~Stopping(codec[t])
             /\ InQueues(Rest(t), VideoRest(t), Stops(t)) = 0
  <2>1. /\ InQueues(mainQ, videoQ, Stops(t)) \in Nat /\ InQueues(Rest(t), VideoRest(t), Stops(t)) \in Nat
        /\ InQueues(mainQ, videoQ, Stops(t)) = InQueues(Rest(t), VideoRest(t), Stops(t)) + 1
    BY <1>2, <1>8, RestCounts
  <2> QED
    BY <1>3, <2>1, HeadOwes
<1> QED
  BY <1>5, <1>6, <1>7, <1>8

(* What a codec reports about itself is about nobody else.                       *)
AboutOnly(t, notes) ==
    /\ notes \in Seq(Message)
    /\ \A u \in AV : /\ NoneOf(notes, Setups(u))
                     /\ u # t => /\ NoneOf(notes, Gones(u))
                                 /\ Hits(notes, Flushes(u)) = 0 /\ Hits(notes, Stops(u)) = 0

LEMMA CalmIsAboutNobody ==
    ASSUME NEW t, NEW notes \in Seq(Calm)
    PROVE  AboutOnly(t, notes)
  BY CalmDoes DEF AboutOnly

LEMMA AnswersDo ==
    ASSUME NEW t \in AV
    PROVE  /\ AboutOnly(t, <<Notify(t, "FlushCompleted", "-")>>)
           /\ Hits(<<Notify(t, "FlushCompleted", "-")>>, Flushes(t)) = 1
           /\ Hits(<<Notify(t, "FlushCompleted", "-")>>, Stops(t)) = 0
           /\ NoneOf(<<Notify(t, "FlushCompleted", "-")>>, Gones(t))
           /\ AboutOnly(t, <<Notify(t, "ShutdownCompleted", "-")>>)
           /\ Hits(<<Notify(t, "ShutdownCompleted", "-")>>, Flushes(t)) = 0
           /\ Hits(<<Notify(t, "ShutdownCompleted", "-")>>, Stops(t)) = 1
<1> DEFINE f == Notify(t, "FlushCompleted", "-")
           s == Notify(t, "ShutdownCompleted", "-")
<1>1. f \in Message /\ s \in Message
  BY MsgType DEF Notify, Handlers, Whats, Args
<1>2. /\ f.what = "FlushCompleted" /\ f.trk = t /\ f.to = "decoder"
      /\ s.what = "ShutdownCompleted" /\ s.trk = t /\ s.to = "decoder"
  BY DEF Notify, Msg
<1> HIDE DEF f, s
<1>3. /\ f \in Flushes(t) /\ f \notin Stops(t) /\ f \notin Gones(t)
      /\ s \notin Flushes(t) /\ s \in Stops(t)
      /\ \A u : f \notin Setups(u) /\ s \notin Setups(u)
      /\ \A u : u # t => /\ f \notin Flushes(u) /\ f \notin Stops(u) /\ f \notin Gones(u)
                         /\ s \notin Flushes(u) /\ s \notin Stops(u) /\ s \notin Gones(u)
  BY <1>1, <1>2 DEF Flushes, Stops, Setups, Gones, About
<1>4. ASSUME NEW m \in Message, \A u : m \notin Setups(u),
             \A u : u # t => m \notin Flushes(u) /\ m \notin Stops(u) /\ m \notin Gones(u)
      PROVE  AboutOnly(t, <<m>>)
  BY <1>4, OneMessageDoes DEF AboutOnly
<1>5. AboutOnly(t, <<f>>) /\ AboutOnly(t, <<s>>)
  BY <1>1, <1>3, <1>4
<1>6. /\ Hits(<<f>>, Flushes(t)) = 1 /\ Hits(<<f>>, Stops(t)) = 0 /\ NoneOf(<<f>>, Gones(t))
      /\ Hits(<<s>>, Flushes(t)) = 0 /\ Hits(<<s>>, Stops(t)) = 1
  BY <1>1, <1>3, OneMessageDoes
<1> QED
  BY <1>5, <1>6 DEF f, s

(* The codec of t takes a message and reports something.                        *)
LEMMA HearsDoes ==
    ASSUME BooksNow, NEW t \in AV, NEW what, CodecDue(t, what), NEW c, NEW notes,
           AboutOnly(t, notes), CodecHears(t, c, notes)
    PROVE  /\ mainQ' \in Seq(Message) /\ videoQ' \in Seq(Message)
           /\ codec' = [codec EXCEPT ![t] = c]
           /\ \A S : /\ InQueues(Rest(t), VideoRest(t), S) \in Nat /\ Hits(notes, S) \in Nat
                     /\ InQueues(mainQ', videoQ', S) = InQueues(Rest(t), VideoRest(t), S) + Hits(notes, S)
           /\ \A u \in AV : u # t => /\ InQueues(mainQ', videoQ', Flushes(u)) = InQueues(mainQ, videoQ, Flushes(u))
                                     /\ InQueues(mainQ', videoQ', Stops(u)) = InQueues(mainQ, videoQ, Stops(u))
           /\ NoneOf(notes, Gones(t)) \/ NoneOf(OnLooper(Rest(t), VideoRest(t), t), Setups(t))
                => SetUpFirst(decoders, mainQ', videoQ', codec)
           /\ NoneOf(OnLooper(Rest(t), VideoRest(t), t), Setups(t))
                => NoneOf(OnLooper(mainQ', videoQ', t), Setups(t))
<1> DEFINE q == Rest(t)
           vq == VideoRest(t)
           m == Head(CodecQueue(t))
           e == <<>>
<1>1. /\ q \in Seq(Message) /\ vq \in Seq(Message) /\ m \in Message /\ m.trk = t
      /\ SetUpFirst(decoders, q, vq, codec)
  BY RestDoes
<1>2. /\ mainQ' = q \o notes /\ videoQ' = vq
      /\ codec' = [codec EXCEPT ![t] = c]
  BY RestDoes DEF CodecHears
<1>3. notes \in Seq(Message) /\ e \in Seq(Message) /\ vq \o e = vq
      /\ \A S : Hits(e, S) = 0 /\ NoneOf(e, S)
  BY <1>1, ConcatEmptySeq, HitsEmpty DEF AboutOnly, NoneOf
<1> HIDE DEF q, vq, e, m
<1>4. mainQ' \in Seq(Message) /\ videoQ' \in Seq(Message)
  BY <1>1, <1>2, <1>3, ConcatProperties
<1>5. ASSUME NEW S
      PROVE  /\ InQueues(q, vq, S) \in Nat /\ Hits(notes, S) \in Nat
             /\ InQueues(mainQ', videoQ', S) = InQueues(q, vq, S) + Hits(notes, S)
  <2>0. /\ q \in Seq(Message) /\ vq \in Seq(Message)
        /\ notes \in Seq(Message) /\ e \in Seq(Message)
    BY <1>1, <1>3
  <2>1. /\ InQueues(q \o notes, vq \o e, S) = InQueues(q, vq, S) + InQueues(notes, e, S)
        /\ InQueues(q, vq, S) \in Nat
    BY <2>0, QueuesJoin
  <2>2. Hits(notes, S) \in Nat /\ Hits(e, S) = 0
    BY <1>3, HitsType
  <2>3. InQueues(notes, e, S) = Hits(notes, S)
    BY <2>2 DEF InQueues
  <2> QED
    BY <1>2, <1>3, <2>1, <2>2, <2>3
<1>6. ASSUME NEW u \in AV, u # t
      PROVE  /\ InQueues(mainQ', videoQ', Flushes(u)) = InQueues(mainQ, videoQ, Flushes(u))
             /\ InQueues(mainQ', videoQ', Stops(u)) = InQueues(mainQ, videoQ, Stops(u))
  <2>1. m \notin Flushes(u) /\ m \notin Stops(u)
    BY <1>1, <1>6 DEF Flushes, Stops, About
  <2>2. Hits(notes, Flushes(u)) = 0 /\ Hits(notes, Stops(u)) = 0
    BY <1>6 DEF AboutOnly
  <2>3. /\ InQueues(mainQ, videoQ, Flushes(u)) = InQueues(q, vq, Flushes(u))
        /\ InQueues(mainQ, videoQ, Stops(u)) = InQueues(q, vq, Stops(u))
    BY <2>1, RestCounts DEF q, vq, m
  <2>4. /\ InQueues(q, vq, Flushes(u)) \in Nat /\ InQueues(q, vq, Stops(u)) \in Nat
        /\ InQueues(mainQ', videoQ', Flushes(u)) = InQueues(q, vq, Flushes(u)) + Hits(notes, Flushes(u))
        /\ InQueues(mainQ', videoQ', Stops(u)) = InQueues(q, vq, Stops(u)) + Hits(notes, Stops(u))
    BY <1>5
  <2> QED
    BY <2>2, <2>3, <2>4
<1>7. ASSUME NoneOf(notes, Gones(t)) \/ NoneOf(OnLooper(q, vq, t), Setups(t))
      PROVE  SetUpFirst(decoders, mainQ', videoQ', codec)
  <2>1. \A u \in AV : /\ NoneOf(notes, Setups(u)) /\ NoneOf(e, Setups(u))
                      /\ NoneOf(notes, Gones(u)) \/ NoneOf(OnLooper(q, vq, u), Setups(u))
    BY <1>3, <1>7 DEF AboutOnly
  <2>2. SetUpFirst(decoders, q \o notes, vq \o e, codec)
    BY <1>1, <1>3, <2>1, SetUpPosts
  <2> QED
    BY <1>2, <1>3, <2>2
<1>8. ASSUME NoneOf(OnLooper(q, vq, t), Setups(t)) PROVE NoneOf(OnLooper(mainQ', videoQ', t), Setups(t))
  <2>1. NoneOf(q, Setups(t)) => NoneOf(q \o notes, Setups(t))
    BY <1>1, <1>3, NoneOfJoin DEF AboutOnly
  <2> QED
    BY <1>2, <1>8, <2>1 DEF OnLooper
<1> QED
  BY <1>2, <1>4, <1>5, <1>6, <1>7, <1>8 DEF q, vq

LEMMA ActsDoes ==
    ASSUME BooksNow, NEW t \in AV, NEW c, NEW notes, AboutOnly(t, notes), CodecActs(t, c, notes)
    PROVE  /\ mainQ' \in Seq(Message) /\ videoQ' \in Seq(Message)
           /\ codec' = [codec EXCEPT ![t] = c]
           /\ \A S : /\ InQueues(mainQ, videoQ, S) \in Nat /\ Hits(notes, S) \in Nat
                     /\ InQueues(mainQ', videoQ', S) = InQueues(mainQ, videoQ, S) + Hits(notes, S)
           /\ \A u \in AV : u # t => /\ InQueues(mainQ', videoQ', Flushes(u)) = InQueues(mainQ, videoQ, Flushes(u))
                                     /\ InQueues(mainQ', videoQ', Stops(u)) = InQueues(mainQ, videoQ, Stops(u))
           /\ NoneOf(notes, Gones(t)) \/ NoneOf(OnLooper(mainQ, videoQ, t), Setups(t))
                => SetUpFirst(decoders, mainQ', videoQ', codec)
           /\ NoneOf(OnLooper(mainQ, videoQ, t), Setups(t))
                => NoneOf(OnLooper(mainQ', videoQ', t), Setups(t))
<1> DEFINE e == <<>>
<1>1. /\ mainQ \in Seq(Message) /\ videoQ \in Seq(Message)
      /\ SetUpFirst(decoders, mainQ, videoQ, codec)
  BY DEF BooksNow, Books
<1>2. /\ mainQ' = mainQ \o notes /\ videoQ' = videoQ
      /\ codec' = [codec EXCEPT ![t] = c]
  BY DEF CodecActs
<1>3. notes \in Seq(Message) /\ e \in Seq(Message) /\ videoQ \o e = videoQ
      /\ \A S : Hits(e, S) = 0 /\ NoneOf(e, S)
  BY <1>1, ConcatEmptySeq, HitsEmpty DEF AboutOnly, NoneOf
<1> HIDE DEF e
<1>4. mainQ' \in Seq(Message) /\ videoQ' \in Seq(Message)
  BY <1>1, <1>2, <1>3, ConcatProperties
<1>5. ASSUME NEW S
      PROVE  /\ InQueues(mainQ, videoQ, S) \in Nat /\ Hits(notes, S) \in Nat
             /\ InQueues(mainQ', videoQ', S) = InQueues(mainQ, videoQ, S) + Hits(notes, S)
  <2>0. /\ mainQ \in Seq(Message) /\ videoQ \in Seq(Message)
        /\ notes \in Seq(Message) /\ e \in Seq(Message)
    BY <1>1, <1>3
  <2>1. /\ InQueues(mainQ \o notes, videoQ \o e, S) = InQueues(mainQ, videoQ, S) + InQueues(notes, e, S)
        /\ InQueues(mainQ, videoQ, S) \in Nat
    BY <2>0, QueuesJoin
  <2>2. Hits(notes, S) \in Nat /\ Hits(e, S) = 0
    BY <1>3, HitsType
  <2>3. InQueues(notes, e, S) = Hits(notes, S)
    BY <2>2 DEF InQueues
  <2> QED
    BY <1>2, <1>3, <2>1, <2>2, <2>3
<1>6. ASSUME NEW u \in AV, u # t
      PROVE  /\ InQueues(mainQ', videoQ', Flushes(u)) = InQueues(mainQ, videoQ, Flushes(u))
             /\ InQueues(mainQ', videoQ', Stops(u)) = InQueues(mainQ, videoQ, Stops(u))
  <2>1. Hits(notes, Flushes(u)) = 0 /\ Hits(notes, Stops(u)) = 0
    BY <1>6 DEF AboutOnly
  <2>2. /\ InQueues(mainQ, videoQ, Flushes(u)) \in Nat /\ InQueues(mainQ, videoQ, Stops(u)) \in Nat
        /\ InQueues(mainQ', videoQ', Flushes(u)) = InQueues(mainQ, videoQ, Flushes(u)) + Hits(notes, Flushes(u))
        /\ InQueues(mainQ', videoQ', Stops(u)) = InQueues(mainQ, videoQ, Stops(u)) + Hits(notes, Stops(u))
    BY <1>5
  <2> QED
    BY <2>1, <2>2
<1>7. ASSUME NoneOf(notes, Gones(t)) \/ NoneOf(OnLooper(mainQ, videoQ, t), Setups(t))
      PROVE  SetUpFirst(decoders, mainQ', videoQ', codec)
  <2>1. \A u \in AV : /\ NoneOf(notes, Setups(u)) /\ NoneOf(e, Setups(u))
                      /\ NoneOf(notes, Gones(u)) \/ NoneOf(OnLooper(mainQ, videoQ, u), Setups(u))
    BY <1>3, <1>7 DEF AboutOnly
  <2>2. SetUpFirst(decoders, mainQ \o notes, videoQ \o e, codec)
    BY <1>1, <1>3, <2>1, SetUpPosts
  <2> QED
    BY <1>2, <1>3, <2>2
<1>8. ASSUME NoneOf(OnLooper(mainQ, videoQ, t), Setups(t)) PROVE NoneOf(OnLooper(mainQ', videoQ', t), Setups(t))
  <2>1. NoneOf(mainQ, Setups(t)) => NoneOf(mainQ \o notes, Setups(t))
    BY <1>1, <1>3, NoneOfJoin DEF AboutOnly
  <2> QED
    BY <1>2, <1>8, <2>1 DEF OnLooper
<1> QED
  BY <1>2, <1>4, <1>5, <1>6, <1>7, <1>8

(* Steps of a codec that neither take nor give an answer.                        *)
SameDuties(c, d) ==
    /\ c.st = "flushing" <=> d.st = "flushing"
    /\ Stopping(c) <=> Stopping(d)
    /\ d.st = "idle" /\ ~d.defer => c.st = "idle" /\ ~c.defer

LEMMA BCalmHears ==
    ASSUME BooksNow, TypeOK, UNCHANGED <<flushing, decoders>>, NEW t \in AV, NEW what, CodecDue(t, what),
           what \notin {"Flush", "FlushCompleted", "Shutdown", "ShutdownCompleted", "Setup"},
           NEW c, SameDuties(c, codec[t]), NEW notes \in Seq(Calm), CodecHears(t, c, notes)
    PROVE  BooksNow'
<1> DEFINE m == Head(CodecQueue(t))
<1>1. AboutOnly(t, notes) /\ NoneOf(notes, Gones(t)) /\ Hits(notes, Flushes(t)) = 0 /\ Hits(notes, Stops(t)) = 0
  BY CalmIsAboutNobody, CalmDoes
<1>2. /\ mainQ' \in Seq(Message) /\ videoQ' \in Seq(Message) /\ codec' = [codec EXCEPT ![t] = c]
      /\ \A u \in AV : u # t => /\ InQueues(mainQ', videoQ', Flushes(u)) = InQueues(mainQ, videoQ, Flushes(u))
                                /\ InQueues(mainQ', videoQ', Stops(u)) = InQueues(mainQ, videoQ, Stops(u))
      /\ SetUpFirst(decoders, mainQ', videoQ', codec)
  BY <1>1, HearsDoes
<1>3. \A S : /\ InQueues(Rest(t), VideoRest(t), S) \in Nat /\ Hits(notes, S) \in Nat
             /\ InQueues(mainQ', videoQ', S) = InQueues(Rest(t), VideoRest(t), S) + Hits(notes, S)
  BY <1>1, HearsDoes
<1>4. m \notin Flushes(t) /\ m \notin Stops(t)
  <2>1. m \in Message /\ m.what = what
    BY RestDoes
  <2> QED
    BY <2>1 DEF Flushes, Stops, About
<1>5. /\ InQueues(mainQ, videoQ, Flushes(t)) = InQueues(Rest(t), VideoRest(t), Flushes(t))
      /\ InQueues(mainQ, videoQ, Stops(t)) = InQueues(Rest(t), VideoRest(t), Stops(t))
  BY <1>4, RestCounts
<1>6. /\ InQueues(mainQ', videoQ', Flushes(t)) = InQueues(mainQ, videoQ, Flushes(t))
      /\ InQueues(mainQ', videoQ', Stops(t)) = InQueues(mainQ, videoQ, Stops(t))
  <2>1. \A n \in Nat : n + 0 = n
    OBVIOUS
  <2> QED
    BY <1>1, <1>3, <1>5, <2>1
<1>7. /\ Owed(InQueues(mainQ', videoQ', Flushes(t)), c.st = "flushing", InFlush(flushing[t]))
      /\ Owed(InQueues(mainQ', videoQ', Stops(t)), Stopping(c), flushing[t] = "SHUTTING_DOWN_DECODER")
  BY <1>6 DEF BooksNow, Books, Accounts, Owed, SameDuties
<1>8. codec[t].st = "idle" /\ ~codec[t].defer => c.st = "idle" /\ ~c.defer
  BY DEF SameDuties
<1> QED
  BY <1>2, <1>7, <1>8, BAnswers

LEMMA BCalmActs ==
    ASSUME BooksNow, TypeOK, UNCHANGED <<flushing, decoders>>, NEW t \in AV,
           NEW c, SameDuties(c, codec[t]), NEW notes \in Seq(Calm), CodecActs(t, c, notes)
    PROVE  BooksNow'
<1>1. AboutOnly(t, notes) /\ NoneOf(notes, Gones(t)) /\ Hits(notes, Flushes(t)) = 0 /\ Hits(notes, Stops(t)) = 0
  BY CalmIsAboutNobody, CalmDoes
<1>2. /\ mainQ' \in Seq(Message) /\ videoQ' \in Seq(Message) /\ codec' = [codec EXCEPT ![t] = c]
      /\ \A u \in AV : u # t => /\ InQueues(mainQ', videoQ', Flushes(u)) = InQueues(mainQ, videoQ, Flushes(u))
                                /\ InQueues(mainQ', videoQ', Stops(u)) = InQueues(mainQ, videoQ, Stops(u))
      /\ SetUpFirst(decoders, mainQ', videoQ', codec)
  BY <1>1, ActsDoes
<1>3. \A S : /\ InQueues(mainQ, videoQ, S) \in Nat /\ Hits(notes, S) \in Nat
             /\ InQueues(mainQ', videoQ', S) = InQueues(mainQ, videoQ, S) + Hits(notes, S)
  BY <1>1, ActsDoes
<1>4. /\ InQueues(mainQ', videoQ', Flushes(t)) = InQueues(mainQ, videoQ, Flushes(t))
      /\ InQueues(mainQ', videoQ', Stops(t)) = InQueues(mainQ, videoQ, Stops(t))
  <2>1. \A n \in Nat : n + 0 = n
    OBVIOUS
  <2> QED
    BY <1>1, <1>3, <2>1
<1>5. /\ Owed(InQueues(mainQ', videoQ', Flushes(t)), c.st = "flushing", InFlush(flushing[t]))
      /\ Owed(InQueues(mainQ', videoQ', Stops(t)), Stopping(c), flushing[t] = "SHUTTING_DOWN_DECODER")
  BY <1>4 DEF BooksNow, Books, Accounts, Owed, SameDuties
<1>6. codec[t].st = "idle" /\ ~codec[t].defer => c.st = "idle" /\ ~c.defer
  BY DEF SameDuties
<1> QED
  BY <1>2, <1>5, <1>6, BAnswers

(* The codecs at their buffers, at their output ports, and on their way up.        *)
LEMMA BCodecWorks ==
    ASSUME BooksNow, TypeOK, UNCHANGED <<flushing, decoders>>, NEW t \in AV,
           \/ CodecAsks(t) \/ CodecDrains(t) \/ CodecDecodes(t) \/ CodecEnds(t)
           \/ CodecPortChanges(t) \/ CodecPortFlushed(t) \/ CodecError(t)
           \/ CodecStarted(t)
    PROVE  BooksNow'
<1> DEFINE c == codec[t]
<1>0. c \in Codec
  BY DEF TypeOK, CodecTypeOK
<1>1. /\ <<>> \in Seq(Calm)
      /\ \A what \in {"FillThisBuffer", "DrainThisBuffer", "Error"} : <<Notify(t, what, "-")>> \in Seq(Calm)
      /\ \A res \in {"eos", "err"} : <<Notify(t, "EOS", res)>> \in Seq(Calm)
      /\ \A d : Ask(t, d) \in Seq(Calm)
  BY CalmNotes, CalmReports
<1>2. CASE CodecAsks(t)
  <2>1. SameDuties(Asked(c), c)
    BY <1>0 DEF SameDuties, Asked, Stopping, Codec
  <2> QED
    BY <1>1, <1>2, <2>1, BCalmActs DEF CodecAsks
<1>3. CASE CodecDrains(t)
  <2>1. SameDuties([c EXCEPT !.out = "down"], c)
    BY <1>0 DEF SameDuties, Stopping, Codec
  <2> QED
    BY <1>1, <1>3, <2>1, BCalmActs DEF CodecDrains
<1>4. CASE CodecDecodes(t)
  <2>1. SameDuties(Asked([c EXCEPT !.out = "down"]), c)
    BY <1>0 DEF SameDuties, Asked, Stopping, Codec
  <2>2. <<Notify(t, "DrainThisBuffer", "-")>> \o Ask(t, c) \in Seq(Calm)
    BY <1>1, ConcatProperties
  <2> QED
    BY <1>4, <2>1, <2>2, BCalmActs DEF CodecDecodes
<1>5. CASE CodecEnds(t)
  <2>1. SameDuties([c EXCEPT !.oeos = TRUE], c)
    BY <1>0 DEF SameDuties, Stopping, Codec
  <2>2. c.eos \in {"eos", "err"}
    BY <1>0, <1>5 DEF CodecEnds, Codec
  <2> QED
    BY <1>1, <1>5, <2>1, <2>2, BCalmActs DEF CodecEnds
<1>6. CASE CodecPortChanges(t)
  <2>1. SameDuties([c EXCEPT !.chg = "flushing"], c)
    BY <1>0 DEF SameDuties, Stopping, Codec
  <2> QED
    BY <1>1, <1>6, <2>1, BCalmActs DEF CodecPortChanges
<1>7. CASE CodecPortFlushed(t)
  <2>1. \A kept \in BOOLEAN : SameDuties(Disabled(c, kept), c)
    BY <1>0 DEF SameDuties, Disabled, Stopping, Codec
  <2> QED
    BY <1>1, <1>7, <2>1, BCalmActs DEF CodecPortFlushed
<1>8. CASE CodecError(t)
  <2>1. SameDuties(c, c)
    BY DEF SameDuties
  <2> QED
    BY <1>1, <1>8, <2>1, BCalmActs DEF CodecError
<1>9. CASE CodecStarted(t)
  <2>1. SameDuties(TakeDeferred(Activated(c)), c)
    BY <1>0, <1>9 DEF SameDuties, CodecStarted, TakeDeferred, Activated, Asked, Stopping, Codec
  <2> QED
    BY <1>1, <1>9, <2>1, BCalmActs DEF CodecStarted
<1> QED
  BY <1>2, <1>3, <1>4, <1>5, <1>6, <1>7, <1>8, <1>9

LEMMA BPortDone ==
    ASSUME BooksNow, TypeOK, UNCHANGED <<flushing, decoders>>, NEW t \in AV, NEW again \in BOOLEAN,
           CodecPortDone(t, again)
    PROVE  BooksNow'
<1> DEFINE c == codec[t]
           next == [c EXCEPT !.chg = IF again THEN "flushing" ELSE "no"]
<1>0. c \in Codec
  BY DEF TypeOK, CodecTypeOK
<1>1. <<>> \in Seq(Calm) /\ Ask(t, c) \in Seq(Calm)
  BY CalmNotes, CalmReports
<1>2. \/ c.st = "waking" /\ CodecActs(t, Activated(next), Ask(t, c))
      \/ c.st = "waking" /\ CodecActs(t, [next EXCEPT !.st = "stopped"], <<>>)
      \/ c.st = "flushing" /\ CodecActs(t, Asked(next), Ask(t, c))
      \/ CodecActs(t, next, <<>>)
  BY DEF CodecPortDone
<1>3. next \in Codec /\ next.st = c.st /\ next.defer = c.defer
  BY <1>0 DEF Codec
<1> HIDE DEF next
<1>4. /\ c.st = "waking" => SameDuties(Activated(next), c)
      /\ c.st = "waking" => SameDuties([next EXCEPT !.st = "stopped"], c)
      /\ SameDuties(Asked(next), c)
      /\ SameDuties(next, c)
  BY <1>0, <1>3 DEF SameDuties, Activated, Asked, Stopping, Codec
<1> QED
  BY <1>1, <1>2, <1>4, BCalmActs

LEMMA BCodecListens ==
    ASSUME BooksNow, TypeOK, UNCHANGED <<flushing, decoders>>, NEW t \in AV,
           CodecResume(t) \/ CodecInputFilled(t) \/ CodecOutputDrained(t) \/ CodecOutputDrainedFails(t)
    PROVE  BooksNow'
<1> DEFINE c == codec[t]
<1>0. c \in Codec
  BY DEF TypeOK, CodecTypeOK
<1>1. <<>> \in Seq(Calm) /\ Ask(t, c) \in Seq(Calm) /\ <<Notify(t, "Error", "-")>> \in Seq(Calm)
  BY CalmNotes, CalmReports
<1>2. ASSUME CodecResume(t) PROVE BooksNow'
  <2>1. /\ CodecDue(t, "Resume")
        /\ \/ c.st = "stopped" /\ CodecHears(t, Activated(c), Ask(t, c))
           \/ c.st = "stopped" /\ CodecHears(t, [c EXCEPT !.st = "waking"], <<>>)
           \/ CodecHears(t, c, <<>>)
    BY <1>2 DEF CodecResume
  <2>2. /\ c.st = "stopped" => SameDuties(Activated(c), c) /\ SameDuties([c EXCEPT !.st = "waking"], c)
        /\ SameDuties(c, c)
    BY <1>0 DEF SameDuties, Activated, Asked, Stopping, Codec
  <2> QED
    BY <1>1, <2>1, <2>2, BCalmHears
<1>3. ASSUME CodecInputFilled(t) PROVE BooksNow'
  <2>1. PICK ends, res :
            /\ CodecDue(t, "InputBufferFilled")
            /\ CodecHears(t, [c EXCEPT !.in = "us", !.ieos = @ \/ ends, !.eos = IF ends THEN res ELSE @], <<>>)
    BY <1>3 DEF CodecInputFilled
  <2>2. SameDuties([c EXCEPT !.in = "us", !.ieos = @ \/ ends, !.eos = IF ends THEN res ELSE @], c)
    BY <1>0 DEF SameDuties, Stopping, Codec
  <2> QED
    BY <1>1, <2>1, <2>2, BCalmHears
<1>4. ASSUME CodecOutputDrained(t) \/ CodecOutputDrainedFails(t) PROVE BooksNow'
  <2>1. SameDuties([c EXCEPT !.out = "us"], c)
    BY <1>0 DEF SameDuties, Stopping, Codec
  <2> QED
    BY <1>1, <1>4, <2>1, BCalmHears DEF CodecOutputDrained, CodecOutputDrainedFails
<1> QED
  BY <1>2, <1>3, <1>4

(* Setting up.                                                                *)
LEMMA BCodecSetup ==
    ASSUME BooksNow, TypeOK, UNCHANGED <<flushing, decoders>>, NEW t \in AV,
           CodecSetup(t) \/ CodecSetupFails(t)
    PROVE  BooksNow'
<1> DEFINE m == Head(CodecQueue(t))
<1>1. CodecDue(t, "Setup")
  BY DEF CodecSetup, CodecSetupFails
<1>2. PICK c \in {[NewCodec EXCEPT !.st = "starting"], NewCodec}, notes \in {<<>>, <<Notify(t, "Error", "-")>>} :
          CodecHears(t, c, notes)
  BY DEF CodecSetup, CodecSetupFails
<1>3. ~(c.st = "flushing") /\ ~Stopping(c)
  BY DEF NewCodec, Stopping
<1>4. notes \in Seq(Calm)
  BY CalmNotes, CalmReports
<1>5. AboutOnly(t, notes) /\ NoneOf(notes, Gones(t)) /\ Hits(notes, Flushes(t)) = 0 /\ Hits(notes, Stops(t)) = 0
  BY <1>4, CalmIsAboutNobody, CalmDoes
<1>6. codec[t].st = "idle" /\ ~codec[t].defer /\ NoneOf(OnLooper(Rest(t), VideoRest(t), t), Setups(t))
  BY <1>1, RestOwes
<1>7. /\ mainQ' \in Seq(Message) /\ videoQ' \in Seq(Message) /\ codec' = [codec EXCEPT ![t] = c]
      /\ \A u \in AV : u # t => /\ InQueues(mainQ', videoQ', Flushes(u)) = InQueues(mainQ, videoQ, Flushes(u))
                                /\ InQueues(mainQ', videoQ', Stops(u)) = InQueues(mainQ, videoQ, Stops(u))
      /\ SetUpFirst(decoders, mainQ', videoQ', codec)
      /\ NoneOf(OnLooper(mainQ', videoQ', t), Setups(t))
  BY <1>1, <1>2, <1>5, <1>6, HearsDoes
<1>8. \A S : /\ InQueues(Rest(t), VideoRest(t), S) \in Nat /\ Hits(notes, S) \in Nat
             /\ InQueues(mainQ', videoQ', S) = InQueues(Rest(t), VideoRest(t), S) + Hits(notes, S)
  BY <1>1, <1>2, <1>5, HearsDoes
<1>9. m \notin Flushes(t) /\ m \notin Stops(t)
  <2>1. m \in Message /\ m.what = "Setup"
    BY <1>1, RestDoes
  <2> QED
    BY <2>1 DEF Flushes, Stops, About
<1>10. /\ InQueues(mainQ, videoQ, Flushes(t)) = InQueues(Rest(t), VideoRest(t), Flushes(t))
       /\ InQueues(mainQ, videoQ, Stops(t)) = InQueues(Rest(t), VideoRest(t), Stops(t))
  BY <1>1, <1>9, RestCounts
<1>11. /\ InQueues(mainQ', videoQ', Flushes(t)) = InQueues(mainQ, videoQ, Flushes(t))
       /\ InQueues(mainQ', videoQ', Stops(t)) = InQueues(mainQ, videoQ, Stops(t))
  <2>1. \A n \in Nat : n + 0 = n
    OBVIOUS
  <2> QED
    BY <1>5, <1>8, <1>10, <2>1
<1>12. /\ Owed(InQueues(mainQ', videoQ', Flushes(t)), c.st = "flushing", InFlush(flushing[t]))
       /\ Owed(InQueues(mainQ', videoQ', Stops(t)), Stopping(c), flushing[t] = "SHUTTING_DOWN_DECODER")
  <2>1. ~(codec[t].st = "flushing") /\ ~Stopping(codec[t])
    BY <1>6 DEF Stopping
  <2> QED
    BY <1>3, <1>11, <2>1 DEF BooksNow, Books, Accounts, Owed
<1> QED
  BY <1>7, <1>12, BAnswers

(* Told to flush.                                                             *)
LEMMA BCodecFlush ==
    ASSUME BooksNow, TypeOK, UNCHANGED <<flushing, decoders>>, NEW t \in AV, CodecFlush(t)
    PROVE  BooksNow'
<1> DEFINE c == codec[t]
           d == [c EXCEPT !.st = "flushing"]
           m == Head(CodecQueue(t))
           none == <<>>
           done == <<Notify(t, "FlushCompleted", "-")>>
<1>0. c \in Codec
  BY DEF TypeOK, CodecTypeOK
<1>1. CodecDue(t, "Flush")
  BY DEF CodecFlush
<1>2. /\ InFlush(flushing[t]) /\ ~(c.st = "flushing")
      /\ InQueues(Rest(t), VideoRest(t), Flushes(t)) = 0
  BY <1>1, RestOwes
<1>3. \/ c.st \in {"running", "stopped", "waking"} /\ CodecHears(t, d, none)
      \/ CodecHears(t, c, done)
  BY <1>2 DEF CodecFlush
<1>4. m \notin Stops(t)
  <2>1. m \in Message /\ m.what = "Flush"
    BY <1>1, RestDoes
  <2> QED
    BY <2>1 DEF Stops, About
<1>5. /\ InQueues(mainQ, videoQ, Stops(t)) = InQueues(Rest(t), VideoRest(t), Stops(t))
      /\ Owed(InQueues(mainQ, videoQ, Stops(t)), Stopping(c), flushing[t] = "SHUTTING_DOWN_DECODER")
  BY <1>1, <1>4, RestCounts DEF BooksNow, Books, Accounts
<1>6. /\ AboutOnly(t, none) /\ Hits(none, Flushes(t)) = 0 /\ Hits(none, Stops(t)) = 0 /\ NoneOf(none, Gones(t))
      /\ AboutOnly(t, done) /\ Hits(done, Flushes(t)) = 1 /\ Hits(done, Stops(t)) = 0 /\ NoneOf(done, Gones(t))
  BY AnswersDo, CalmNotes, CalmIsAboutNobody, CalmDoes
<1>7. /\ d.st = "flushing" /\ d.defer = c.defer
  BY <1>0 DEF Codec
<1> HIDE DEF d, none, done, m
<1>8. ASSUME NEW e, NEW notes, AboutOnly(t, notes), Hits(notes, Stops(t)) = 0, NoneOf(notes, Gones(t)),
             CodecHears(t, e, notes), Stopping(e) <=> Stopping(c),
             c.st = "idle" /\ ~c.defer => e.st = "idle" /\ ~e.defer,
             \/ e.st = "flushing" /\ Hits(notes, Flushes(t)) = 0
             \/ ~(e.st = "flushing") /\ Hits(notes, Flushes(t)) = 1
      PROVE  BooksNow'
  <2>1. /\ mainQ' \in Seq(Message) /\ videoQ' \in Seq(Message) /\ codec' = [codec EXCEPT ![t] = e]
        /\ \A u \in AV : u # t => /\ InQueues(mainQ', videoQ', Flushes(u)) = InQueues(mainQ, videoQ, Flushes(u))
                                  /\ InQueues(mainQ', videoQ', Stops(u)) = InQueues(mainQ, videoQ, Stops(u))
        /\ SetUpFirst(decoders, mainQ', videoQ', codec)
    BY <1>1, <1>8, HearsDoes
  <2>2. \A S : /\ InQueues(Rest(t), VideoRest(t), S) \in Nat /\ Hits(notes, S) \in Nat
               /\ InQueues(mainQ', videoQ', S) = InQueues(Rest(t), VideoRest(t), S) + Hits(notes, S)
    BY <1>1, <1>8, HearsDoes
  <2>3. \A n \in Nat : n + 0 = n /\ 0 + n = n
    OBVIOUS
  <2>4. /\ InQueues(mainQ', videoQ', Flushes(t)) = Hits(notes, Flushes(t))
        /\ InQueues(mainQ', videoQ', Stops(t)) = InQueues(mainQ, videoQ, Stops(t))
    BY <1>2, <1>5, <1>8, <2>2, <2>3
  <2>5. Owed(InQueues(mainQ', videoQ', Flushes(t)), e.st = "flushing", InFlush(flushing[t]))
    BY <1>2, <1>8, <2>4 DEF Owed
  <2>6. Owed(InQueues(mainQ', videoQ', Stops(t)), Stopping(e), flushing[t] = "SHUTTING_DOWN_DECODER")
    BY <1>5, <1>8, <2>4 DEF Owed
  <2> QED
    BY <1>8, <2>1, <2>5, <2>6, BAnswers
<1>9. CASE c.st \in {"running", "stopped", "waking"} /\ CodecHears(t, d, none)
  <2>1. Stopping(d) <=> Stopping(c)
    BY <1>7, <1>9 DEF Stopping
  <2> QED
    BY <1>6, <1>7, <1>8, <1>9, <2>1
<1>10. CASE CodecHears(t, c, done)
  BY <1>2, <1>6, <1>8, <1>10
<1> QED
  BY <1>3, <1>9, <1>10

LEMMA BCodecFlushDone ==
    ASSUME BooksNow, TypeOK, UNCHANGED <<flushing, decoders>>, NEW t \in AV, NEW again \in BOOLEAN,
           CodecFlushDone(t, again)
    PROVE  BooksNow'
<1> DEFINE c == codec[t]
           d == Flushed(c, again)
           done == <<Notify(t, "FlushCompleted", "-")>>
<1>0. c \in Codec
  BY DEF TypeOK, CodecTypeOK
<1>1. c.st = "flushing" /\ CodecActs(t, d, done)
  BY DEF CodecFlushDone
<1>2. ~(d.st = "flushing") /\ (Stopping(d) <=> Stopping(c))
  BY <1>0, <1>1 DEF Flushed, TakeDeferred, Stopping, Codec
<1>3. AboutOnly(t, done) /\ Hits(done, Flushes(t)) = 1 /\ Hits(done, Stops(t)) = 0 /\ NoneOf(done, Gones(t))
  BY AnswersDo
<1>4. /\ Owed(InQueues(mainQ, videoQ, Flushes(t)), c.st = "flushing", InFlush(flushing[t]))
      /\ Owed(InQueues(mainQ, videoQ, Stops(t)), Stopping(c), flushing[t] = "SHUTTING_DOWN_DECODER")
  BY DEF BooksNow, Books, Accounts
<1> HIDE DEF d, done
<1>5. InQueues(mainQ, videoQ, Flushes(t)) = 0 /\ InFlush(flushing[t])
  BY <1>1, <1>4 DEF Owed
<1>6. /\ mainQ' \in Seq(Message) /\ videoQ' \in Seq(Message) /\ codec' = [codec EXCEPT ![t] = d]
      /\ \A u \in AV : u # t => /\ InQueues(mainQ', videoQ', Flushes(u)) = InQueues(mainQ, videoQ, Flushes(u))
                                /\ InQueues(mainQ', videoQ', Stops(u)) = InQueues(mainQ, videoQ, Stops(u))
      /\ SetUpFirst(decoders, mainQ', videoQ', codec)
  BY <1>1, <1>3, ActsDoes
<1>7. \A S : /\ InQueues(mainQ, videoQ, S) \in Nat /\ Hits(done, S) \in Nat
             /\ InQueues(mainQ', videoQ', S) = InQueues(mainQ, videoQ, S) + Hits(done, S)
  BY <1>1, <1>3, ActsDoes
<1>8. /\ InQueues(mainQ', videoQ', Flushes(t)) = 1
      /\ InQueues(mainQ', videoQ', Stops(t)) = InQueues(mainQ, videoQ, Stops(t))
  <2>1. 0 + 1 = 1 /\ \A n \in Nat : n + 0 = n
    OBVIOUS
  <2> QED
    BY <1>3, <1>5, <1>7, <2>1
<1>9. /\ Owed(InQueues(mainQ', videoQ', Flushes(t)), d.st = "flushing", InFlush(flushing[t]))
      /\ Owed(InQueues(mainQ', videoQ', Stops(t)), Stopping(d), flushing[t] = "SHUTTING_DOWN_DECODER")
  BY <1>2, <1>4, <1>5, <1>8 DEF Owed
<1>10. c.st # "idle"
  BY <1>1
<1> QED
  BY <1>6, <1>9, <1>10, BAnswers

(* Told to shut down.                                                         *)
LEMMA BCodecShutdown ==
    ASSUME BooksNow, TypeOK, UNCHANGED <<flushing, decoders>>, NEW t \in AV, CodecShutdown(t)
    PROVE  BooksNow'
<1> DEFINE c == codec[t]
           later == [c EXCEPT !.defer = TRUE]
           now   == [c EXCEPT !.st = "stopping"]
           m == Head(CodecQueue(t))
           none == <<>>
           done == <<Notify(t, "ShutdownCompleted", "-")>>
<1>0. c \in Codec
  BY DEF TypeOK, CodecTypeOK
<1>1. CodecDue(t, "Shutdown")
  BY DEF CodecShutdown
<1>2. /\ flushing[t] = "SHUTTING_DOWN_DECODER" /\ ~Stopping(c)
      /\ InQueues(Rest(t), VideoRest(t), Stops(t)) = 0
      /\ NoneOf(OnLooper(Rest(t), VideoRest(t), t), Setups(t))
  BY <1>1, RestOwes
<1>3. \/ c.st \in {"starting", "flushing"} /\ CodecHears(t, later, none)
      \/ c.st \in {"running", "stopped", "waking", "stopping"} /\ CodecHears(t, now, none)
      \/ CodecHears(t, c, done)
  BY DEF CodecShutdown
<1>4. m \notin Flushes(t)
  <2>1. m \in Message /\ m.what = "Shutdown"
    BY <1>1, RestDoes
  <2> QED
    BY <2>1 DEF Flushes, About
<1>5. /\ InQueues(mainQ, videoQ, Flushes(t)) = InQueues(Rest(t), VideoRest(t), Flushes(t))
      /\ Owed(InQueues(mainQ, videoQ, Flushes(t)), c.st = "flushing", InFlush(flushing[t]))
  BY <1>1, <1>4, RestCounts DEF BooksNow, Books, Accounts
<1>6. /\ AboutOnly(t, none) /\ Hits(none, Flushes(t)) = 0 /\ Hits(none, Stops(t)) = 0
      /\ AboutOnly(t, done) /\ Hits(done, Flushes(t)) = 0 /\ Hits(done, Stops(t)) = 1
  BY AnswersDo, CalmNotes, CalmIsAboutNobody, CalmDoes
<1>7. /\ Stopping(later) /\ later.st = c.st
      /\ Stopping(now) /\ now.st = "stopping"
  BY <1>0 DEF Codec, Stopping
<1> HIDE DEF later, now, none, done, m
<1>8. ASSUME NEW e, NEW notes, AboutOnly(t, notes), Hits(notes, Flushes(t)) = 0,
             CodecHears(t, e, notes), e.st = "flushing" <=> c.st = "flushing",
             \/ Stopping(e) /\ Hits(notes, Stops(t)) = 0
             \/ ~Stopping(e) /\ Hits(notes, Stops(t)) = 1
      PROVE  BooksNow'
  <2>1. /\ mainQ' \in Seq(Message) /\ videoQ' \in Seq(Message) /\ codec' = [codec EXCEPT ![t] = e]
        /\ \A u \in AV : u # t => /\ InQueues(mainQ', videoQ', Flushes(u)) = InQueues(mainQ, videoQ, Flushes(u))
                                  /\ InQueues(mainQ', videoQ', Stops(u)) = InQueues(mainQ, videoQ, Stops(u))
        /\ SetUpFirst(decoders, mainQ', videoQ', codec)
        /\ NoneOf(OnLooper(mainQ', videoQ', t), Setups(t))
    BY <1>1, <1>2, <1>8, HearsDoes
  <2>2. \A S : /\ InQueues(Rest(t), VideoRest(t), S) \in Nat /\ Hits(notes, S) \in Nat
               /\ InQueues(mainQ', videoQ', S) = InQueues(Rest(t), VideoRest(t), S) + Hits(notes, S)
    BY <1>1, <1>8, HearsDoes
  <2>3. \A n \in Nat : n + 0 = n /\ 0 + n = n
    OBVIOUS
  <2>4. /\ InQueues(mainQ', videoQ', Stops(t)) = Hits(notes, Stops(t))
        /\ InQueues(mainQ', videoQ', Flushes(t)) = InQueues(mainQ, videoQ, Flushes(t))
    BY <1>2, <1>5, <1>8, <2>2, <2>3
  <2>5. Owed(InQueues(mainQ', videoQ', Flushes(t)), e.st = "flushing", InFlush(flushing[t]))
    BY <1>5, <1>8, <2>4 DEF Owed
  <2>6. Owed(InQueues(mainQ', videoQ', Stops(t)), Stopping(e), flushing[t] = "SHUTTING_DOWN_DECODER")
    BY <1>2, <1>8, <2>4 DEF Owed
  <2> QED
    BY <2>1, <2>5, <2>6, BAnswers
<1>9. CASE c.st \in {"starting", "flushing"} /\ CodecHears(t, later, none)
  BY <1>6, <1>7, <1>8, <1>9
<1>10. CASE c.st \in {"running", "stopped", "waking", "stopping"} /\ CodecHears(t, now, none)
  BY <1>6, <1>7, <1>8, <1>10
<1>11. CASE CodecHears(t, c, done)
  BY <1>2, <1>6, <1>8, <1>11
<1> QED
  BY <1>3, <1>9, <1>10, <1>11

LEMMA BCodecShutdownDone ==
    ASSUME BooksNow, TypeOK, UNCHANGED <<flushing, decoders>>, NEW t \in AV, CodecShutdownDone(t)
    PROVE  BooksNow'
<1> DEFINE c == codec[t]
           done == <<Notify(t, "ShutdownCompleted", "-")>>
<1>1. c.st = "stopping" /\ CodecActs(t, NewCodec, done)
  BY DEF CodecShutdownDone
<1>2. /\ ~(NewCodec.st = "flushing") /\ ~Stopping(NewCodec)
      /\ ~(c.st = "flushing") /\ Stopping(c)
  BY <1>1 DEF NewCodec, Stopping
<1>3. AboutOnly(t, done) /\ Hits(done, Flushes(t)) = 0 /\ Hits(done, Stops(t)) = 1
  BY AnswersDo
<1>4. /\ Owed(InQueues(mainQ, videoQ, Flushes(t)), c.st = "flushing", InFlush(flushing[t]))
      /\ Owed(InQueues(mainQ, videoQ, Stops(t)), Stopping(c), flushing[t] = "SHUTTING_DOWN_DECODER")
      /\ NoneOf(OnLooper(mainQ, videoQ, t), Setups(t))
  BY <1>1 DEF BooksNow, Books, Accounts, SetUpFirst
<1> HIDE DEF done
<1>5. InQueues(mainQ, videoQ, Stops(t)) = 0 /\ flushing[t] = "SHUTTING_DOWN_DECODER"
  BY <1>2, <1>4 DEF Owed
<1>6. /\ mainQ' \in Seq(Message) /\ videoQ' \in Seq(Message) /\ codec' = [codec EXCEPT ![t] = NewCodec]
      /\ \A u \in AV : u # t => /\ InQueues(mainQ', videoQ', Flushes(u)) = InQueues(mainQ, videoQ, Flushes(u))
                                /\ InQueues(mainQ', videoQ', Stops(u)) = InQueues(mainQ, videoQ, Stops(u))
      /\ SetUpFirst(decoders, mainQ', videoQ', codec)
      /\ NoneOf(OnLooper(mainQ', videoQ', t), Setups(t))
  BY <1>1, <1>3, <1>4, ActsDoes
<1>7. \A S : /\ InQueues(mainQ, videoQ, S) \in Nat /\ Hits(done, S) \in Nat
             /\ InQueues(mainQ', videoQ', S) = InQueues(mainQ, videoQ, S) + Hits(done, S)
  BY <1>1, <1>3, ActsDoes
<1>8. /\ InQueues(mainQ', videoQ', Stops(t)) = 1
      /\ InQueues(mainQ', videoQ', Flushes(t)) = InQueues(mainQ, videoQ, Flushes(t))
  <2>1. 0 + 1 = 1 /\ \A n \in Nat : n + 0 = n
    OBVIOUS
  <2> QED
    BY <1>3, <1>5, <1>7, <2>1
<1>9. /\ Owed(InQueues(mainQ', videoQ', Flushes(t)), NewCodec.st = "flushing", InFlush(flushing[t]))
      /\ Owed(InQueues(mainQ', videoQ', Stops(t)), Stopping(NewCodec), flushing[t] = "SHUTTING_DOWN_DECODER")
  BY <1>2, <1>4, <1>5, <1>8 DEF Owed
<1> QED
  BY <1>6, <1>9, BAnswers

-----------------------------------------------------------------------------
(*                             New decoders                                   *)

(* What a scan posts to the loopers for the new decoders of N.                    *)
SetupNotes(N, a, b) ==
    /\ a \in Seq(Message) /\ b \in Seq(Message)
    /\ \A t \in AV : /\ Hits(a, Flushes(t)) = 0 /\ Hits(b, Flushes(t)) = 0
                     /\ Hits(a, Stops(t)) = 0 /\ Hits(b, Stops(t)) = 0
                     /\ NoneOf(a, Gones(t))
                     /\ Never(OnLooper(a, b, t), Setups(t) \cup Stops(t), Setups(t))
                     /\ t \notin N => NoneOf(OnLooper(a, b, t), Setups(t))

LEMMA SetupNotesAre ==
    ASSUME NEW N
    PROVE  SetupNotes(N, IF Audio \in N THEN <<ToCodec(Audio, "Setup")>> ELSE <<>>,
                      IF Video \in N THEN <<ToCodec(Video, "Setup")>> ELSE <<>>)
<1> DEFINE a == IF Audio \in N THEN <<ToCodec(Audio, "Setup")>> ELSE <<>>
           b == IF Video \in N THEN <<ToCodec(Video, "Setup")>> ELSE <<>>
<1>1. ASSUME NEW u \in AV
      PROVE  /\ ToCodec(u, "Setup") \in Message
             /\ \A t \in AV : /\ ToCodec(u, "Setup") \notin Flushes(t)
                              /\ ToCodec(u, "Setup") \notin Stops(t) /\ ToCodec(u, "Setup") \notin Gones(t)
                              /\ t # u => ToCodec(u, "Setup") \notin Setups(t)
  <2>1. ToCodec(u, "Setup") \in Message
    BY NotesType DEF Plain, Whats
  <2> QED
    BY <2>1 DEF ToCodec, Msg, Flushes, Stops, Setups, Gones, About
<1>2. ASSUME NEW u \in AV, NEW s, s = IF u \in N THEN <<ToCodec(u, "Setup")>> ELSE <<>>
      PROVE  /\ s \in Seq(Message)
             /\ \A t \in AV : /\ Hits(s, Flushes(t)) = 0 /\ Hits(s, Stops(t)) = 0 /\ NoneOf(s, Gones(t))
                              /\ t # u \/ u \notin N => NoneOf(s, Setups(t))
             /\ \A X, Y : Never(s, X, Y)
  <2>0. <<>> \in Seq(Message) /\ \A S : Hits(<<>>, S) = 0 /\ NoneOf(<<>>, S)
    BY HitsEmpty DEF NoneOf
  <2>1. CASE u \in N
    <3>1. s = <<ToCodec(u, "Setup")>>
      BY <1>2, <2>1
    <3>2. \A X, Y : Never(s, X, Y)
      BY <3>1 DEF Never
    <3> QED
      BY <1>1, <2>1, <3>1, <3>2, OneMessageDoes
  <2>2. CASE u \notin N
    <3>1. s = <<>>
      BY <1>2, <2>2
    <3>2. \A X, Y : Never(s, X, Y)
      BY <3>1 DEF Never
    <3> QED
      BY <2>0, <3>1, <3>2
  <2> QED
    BY <2>1, <2>2
<1>3. /\ a \in Seq(Message) /\ \A X, Y : Never(a, X, Y)
      /\ \A t \in AV : /\ Hits(a, Flushes(t)) = 0 /\ Hits(a, Stops(t)) = 0 /\ NoneOf(a, Gones(t))
                       /\ t # Audio \/ Audio \notin N => NoneOf(a, Setups(t))
  BY <1>2 DEF AV
<1>4. /\ b \in Seq(Message) /\ \A X, Y : Never(b, X, Y)
      /\ \A t \in AV : /\ Hits(b, Flushes(t)) = 0 /\ Hits(b, Stops(t)) = 0
                       /\ t # Video \/ Video \notin N => NoneOf(b, Setups(t))
  BY <1>2 DEF AV
<1> HIDE DEF a, b
<1>5. ASSUME NEW t \in AV
      PROVE  /\ Never(OnLooper(a, b, t), Setups(t) \cup Stops(t), Setups(t))
             /\ t \notin N => NoneOf(OnLooper(a, b, t), Setups(t))
  <2>1. CASE t = Video
    BY <1>4, <2>1 DEF OnLooper
  <2>2. CASE t = Audio
    <3>1. OnLooper(a, b, t) = a
      BY <2>2 DEF OnLooper, Audio, Video
    <3> QED
      BY <1>3, <2>2, <3>1
  <2> QED
    BY <2>1, <2>2 DEF AV
<1> QED
  BY <1>3, <1>4, <1>5 DEF SetupNotes, a, b

(* A new decoder owes nothing, and nobody asked its predecessor for anything.      *)
LEMMA BooksNew ==
    ASSUME NEW status, NEW decs, NEW q, NEW vq, NEW cod, Books(status, decs, q, vq, cod),
           NEW N, \A t \in N \cap AV : /\ t \notin decs
                                       /\ ~InFlush(status[t]) /\ status[t] # "SHUTTING_DOWN_DECODER",
           NEW a, NEW b, SetupNotes(N, a, b)
    PROVE  Books([t \in AV |-> IF t \in N THEN "NONE" ELSE status[t]], decs \cup N, q \o a, vq \o b,
                 [t \in AV |-> IF t \in N THEN NewCodec ELSE cod[t]])
<1> DEFINE f == [t \in AV |-> IF t \in N THEN "NONE" ELSE status[t]]
           g == [t \in AV |-> IF t \in N THEN NewCodec ELSE cod[t]]
           more == decs \cup N
<1>1. /\ q \in Seq(Message) /\ vq \in Seq(Message) /\ Accounts(status, q, vq, cod)
      /\ SetUpFirst(decs, q, vq, cod)
  BY DEF Books
<1>2. a \in Seq(Message) /\ b \in Seq(Message)
  BY DEF SetupNotes
<1>3. ASSUME NEW t \in AV
      PROVE  /\ t \in N => f[t] = "NONE" /\ g[t] = NewCodec /\ t \in more
             /\ t \notin N => f[t] = status[t] /\ g[t] = cod[t] /\ (t \in decs => t \in more)
  OBVIOUS
<1> HIDE DEF f, g, more
<1>4. ASSUME NEW S, Hits(a, S) = 0, Hits(b, S) = 0
      PROVE  InQueues(q \o a, vq \o b, S) = InQueues(q, vq, S)
  <2>1. InQueues(q \o a, vq \o b, S) = InQueues(q, vq, S) + InQueues(a, b, S) /\ InQueues(q, vq, S) \in Nat
    BY <1>1, <1>2, QueuesJoin
  <2>2. InQueues(a, b, S) = 0
    BY <1>4 DEF InQueues
  <2> QED
    BY <2>1, <2>2
<1>5. ASSUME NEW t \in AV
      PROVE  /\ Owed(InQueues(q, vq, Flushes(t)), cod[t].st = "flushing", InFlush(status[t]))
             /\ Owed(InQueues(q, vq, Stops(t)), Stopping(cod[t]), status[t] = "SHUTTING_DOWN_DECODER")
  BY <1>1 DEF Accounts
<1>6. Accounts(f, q \o a, vq \o b, g)
  <2> SUFFICES ASSUME NEW t \in AV
               PROVE  /\ Owed(InQueues(q \o a, vq \o b, Flushes(t)), g[t].st = "flushing", InFlush(f[t]))
                      /\ Owed(InQueues(q \o a, vq \o b, Stops(t)), Stopping(g[t]), f[t] = "SHUTTING_DOWN_DECODER")
    BY DEF Accounts
  <2>1. /\ InQueues(q \o a, vq \o b, Flushes(t)) = InQueues(q, vq, Flushes(t))
        /\ InQueues(q \o a, vq \o b, Stops(t)) = InQueues(q, vq, Stops(t))
    BY <1>4 DEF SetupNotes
  <2>2. CASE t \in N
    <3>1. /\ ~(g[t].st = "flushing") /\ ~Stopping(g[t])
          /\ ~InFlush(f[t]) /\ ~(f[t] = "SHUTTING_DOWN_DECODER")
      BY <1>3, <2>2 DEF NewCodec, Stopping, InFlush
    <3>2. InQueues(q, vq, Flushes(t)) = 0 /\ InQueues(q, vq, Stops(t)) = 0
      BY <1>5, <2>2 DEF Owed
    <3> QED
      BY <2>1, <3>1, <3>2 DEF Owed
  <2>3. CASE t \notin N
    BY <1>3, <1>5, <2>1, <2>3
  <2> QED
    BY <2>2, <2>3
<1>7. SetUpFirst(more, q \o a, vq \o b, g)
  <2> SUFFICES ASSUME NEW t \in AV
               PROVE  LET cq == OnLooper(q \o a, vq \o b, t)
                      IN  /\ \/ NoneOf(cq, Setups(t))
                             \/ t \in more /\ g[t].st = "idle" /\ ~g[t].defer /\ NoneOf(q \o a, Gones(t))
                          /\ Never(cq, Setups(t) \cup Stops(t), Setups(t))
    BY DEF SetUpFirst
  <2> DEFINE cq == OnLooper(q, vq, t)
             s  == OnLooper(a, b, t)
             X  == Setups(t) \cup Stops(t)
  <2>1. OnLooper(q \o a, vq \o b, t) = cq \o s
    BY DEF OnLooper
  <2>2. cq \in Seq(Message) /\ s \in Seq(Message)
    BY <1>1, <1>2 DEF OnLooper
  <2>3. /\ \/ NoneOf(cq, Setups(t))
           \/ t \in decs /\ cod[t].st = "idle" /\ ~cod[t].defer /\ NoneOf(q, Gones(t))
        /\ Never(cq, X, Setups(t))
    BY <1>1 DEF SetUpFirst
  <2>4. /\ Never(s, X, Setups(t)) /\ (t \notin N => NoneOf(s, Setups(t))) /\ NoneOf(a, Gones(t))
    BY DEF SetupNotes
  <2>5. ASSUME t \in N PROVE NoneOf(cq, X) /\ NoneOf(cq, Setups(t)) /\ NoneOf(q, Gones(t))
    <3>1. InQueues(q, vq, Stops(t)) = 0 /\ t \notin decs
      BY <1>5, <2>5 DEF Owed
    <3>2. Hits(q, Stops(t)) \in Nat /\ Hits(vq, Stops(t)) \in Nat
      BY <1>1, HitsType
    <3>3. Hits(q, Stops(t)) = 0 /\ Hits(vq, Stops(t)) = 0
      BY <3>1, <3>2 DEF InQueues
    <3>4. NoneOf(q, Stops(t)) /\ NoneOf(vq, Stops(t))
      BY <1>1, <3>3, HitsNone DEF NoneOf
    <3>5. NoneOf(cq, Stops(t))
      BY <3>4 DEF OnLooper
    <3>6. NoneOf(cq, Setups(t))
      BY <2>3, <3>1
    <3>7. NoneOf(cq, X)
      BY <3>5, <3>6 DEF NoneOf
    <3>8. NoneOf(q, Gones(t))
      <4>1. Gones(t) \subseteq Stops(t)
        BY DEF Gones, Stops, About
      <4> QED
        BY <3>4, <4>1 DEF NoneOf
    <3> QED
      BY <3>6, <3>7, <3>8
  <2> HIDE DEF cq, s, X
  <2>6. NoneOf(q, Gones(t)) => NoneOf(q \o a, Gones(t))
    BY <1>1, <1>2, <2>4, NoneOfJoin
  <2>7. CASE t \in N
    <3>1. Never(cq \o s, X, Setups(t))
      BY <2>2, <2>4, <2>5, <2>7, NeverDoes
    <3>2. t \in more /\ g[t].st = "idle" /\ ~g[t].defer /\ NoneOf(q \o a, Gones(t))
      BY <1>3, <2>5, <2>6, <2>7 DEF NewCodec
    <3> QED
      BY <2>1, <3>1, <3>2 DEF X
  <2>8. CASE t \notin N
    <3>1. NoneOf(s, Setups(t))
      BY <2>4, <2>8
    <3>2. Never(cq \o s, X, Setups(t))
      BY <2>2, <2>3, <3>1, NeverDoes
    <3>3. NoneOf(cq, Setups(t)) => NoneOf(cq \o s, Setups(t))
      BY <2>2, <3>1, NoneOfJoin
    <3> QED
      BY <1>3, <2>1, <2>3, <2>6, <2>8, <3>2, <3>3 DEF X
  <2> QED
    BY <2>7, <2>8
<1>8. q \o a \in Seq(Message) /\ vq \o b \in Seq(Message)
  BY <1>1, <1>2, ConcatProperties
<1> QED
  BY <1>6, <1>7, <1>8 DEF Books, f, g, more

LEMMA BScans ==
    ASSUME BooksNow, WaitedForHasDecoder, OnScanSources
    PROVE  BooksNow'
<1>1. mainQ # <<>> /\ Head(mainQ).what = "ScanSources"
  BY DEF OnScanSources, PlayerDue, Due
<1>2. CASE \E check : Abort(check)
  BY <1>2, BooksAbort
<1>3. CASE Posts(<<>>) /\ UNCHANGED <<videoQ, scanTimers, codec, renderer, playerVars, driver, failed>>
  <2>1. UNCHANGED <<flushing, decoders, codec, videoQ>> /\ mainQ' = Tail(mainQ) \o <<>>
    BY <1>3 DEF Posts, playerVars
  <2> QED
    BY <1>1, <2>1, CalmNotes, VideoQueueStays, BTakes
<1>4. ASSUME NEW N \in SUBSET ((Outputs \cup IF HasText THEN {Text} ELSE {}) \ decoders),
             NEW res \in FeedResults, ScanWith(N, res), ~\E check : Abort(check)
      PROVE  BooksNow'
  <2> DEFINE a == IF Audio \in N THEN <<ToCodec(Audio, "Setup")>> ELSE <<>>
             b == IF Video \in N THEN <<ToCodec(Video, "Setup")>> ELSE <<>>
  <2>1. PICK event :
            /\ decoders' = decoders \cup N
            /\ codec' = [t \in AV |-> IF t \in N THEN NewCodec ELSE codec[t]]
            /\ flushing' = [t \in AV |-> IF t \in N THEN "NONE" ELSE flushing[t]]
            /\ mainQ' = Tail(mainQ) \o (a \o PausePosts(event))
            /\ videoQ' = videoQ \o b
    BY <1>4 DEF ScanWith, Posts
  <2>2. SetupNotes(N, a, b)
    BY SetupNotesAre
  <2> HIDE DEF a, b
  <2>3. Books(flushing, decoders, Tail(mainQ), videoQ, codec)
    BY <1>1, BooksTakeHead
  <2>4. \A t \in N \cap AV : t \notin decoders /\ ~InFlush(flushing[t]) /\ flushing[t] # "SHUTTING_DOWN_DECODER"
    BY WaitedFor
  <2> DEFINE f == [t \in AV |-> IF t \in N THEN "NONE" ELSE flushing[t]]
             g == [t \in AV |-> IF t \in N THEN NewCodec ELSE codec[t]]
             p == PausePosts(event)
  <2>5. Books(f, decoders \cup N, Tail(mainQ) \o a, videoQ \o b, g)
    BY <2>2, <2>3, <2>4, BooksNew
  <2>6. decoders' = decoders \cup N /\ flushing' = f /\ codec' = g
        /\ mainQ' = Tail(mainQ) \o (a \o p) /\ videoQ' = videoQ \o b
    BY <2>1
  <2>7. p \in Seq(Calm) /\ p \in Seq(Message) /\ <<>> \in Seq(Calm)
    BY CalmNotes, CalmDoes
  <2> HIDE DEF f, g, p
  <2>8. Books(f, decoders \cup N, Tail(mainQ) \o a \o p, videoQ \o b \o <<>>, g)
    BY <2>5, <2>7, BooksPost
  <2>9. /\ Tail(mainQ) \in Seq(Message) /\ a \in Seq(Message) /\ videoQ \o b \in Seq(Message)
    BY <2>2, <2>3, <2>5 DEF Books, SetupNotes
  <2>10. Tail(mainQ) \o a \o p = Tail(mainQ) \o (a \o p) /\ videoQ \o b \o <<>> = videoQ \o b
    <3> DEFINE u == Tail(mainQ)
               v == videoQ \o b
    <3>1. u \in Seq(Message) /\ a \in Seq(Message) /\ p \in Seq(Message) /\ v \in Seq(Message)
      BY <2>7, <2>9
    <3> HIDE DEF u, v
    <3>2. u \o a \o p = u \o (a \o p)
      BY <3>1, ConcatAssociative, SMTT(60)
    <3>3. v \o <<>> = v
      BY <3>1, ConcatEmptySeq
    <3> QED
      BY <3>2, <3>3 DEF u, v
  <2> QED
    BY <2>6, <2>8, <2>10 DEF BooksNow
<1> QED
  BY <1>2, <1>3, <1>4 DEF OnScanSources

-----------------------------------------------------------------------------
(*                             The whole system                               *)

LEMMA BCodecs ==
    ASSUME BooksNow, TypeOK, NEW t \in AV, ~CodecPortFails(t),
           \/ CodecHandles(t) \/ ComponentAnswers(t)
           \/ ComponentWorks(t) /\ ~(RendererDrain(t) /\ RendererAlone)
           \/ ComponentChanges(t) \/ ComponentFails(t)
    PROVE  BooksNow'
<1>0. UNCHANGED <<flushing, decoders>>
  BY DEF CodecHandles, ComponentAnswers, ComponentWorks, ComponentChanges, ComponentFails,
         CodecAlone, Alone, Spends, playerVars
<1>1. CASE CodecHandles(t)
  BY <1>0, <1>1, BCodecSetup, BCodecFlush, BCodecShutdown, BCodecListens DEF CodecHandles
<1>2. CASE ComponentAnswers(t)
  BY <1>0, <1>2, BCodecWorks, BCodecFlushDone, BCodecShutdownDone, BPortDone DEF ComponentAnswers
<1>3. CASE ComponentWorks(t) /\ ~(RendererDrain(t) /\ RendererAlone)
  BY <1>0, <1>3, BCodecWorks DEF ComponentWorks
<1>4. CASE ComponentChanges(t)
  BY <1>0, <1>4, BCodecWorks, BCodecFlushDone, BPortDone DEF ComponentChanges
<1>5. CASE ComponentFails(t)
  BY <1>0, <1>5, BCodecSetup, BCodecWorks, BCodecListens DEF ComponentFails
<1> QED
  BY <1>1, <1>2, <1>3, <1>4, <1>5

LEMMA BInit == Init => BooksNow
<1> SUFFICES ASSUME Init PROVE BooksNow
  OBVIOUS
<1>1. /\ mainQ = <<>> /\ videoQ = <<>>
      /\ flushing = [t \in AV |-> "NONE"] /\ codec = [t \in AV |-> NewCodec]
  BY DEF Init, LoopersInit, CodecInit
<1>2. \A S : InQueues(<<>>, <<>>, S) = 0
  BY HitsEmpty DEF InQueues
<1>3. Accounts(flushing, mainQ, videoQ, codec)
  <2> SUFFICES ASSUME NEW t \in AV
               PROVE  /\ Owed(InQueues(mainQ, videoQ, Flushes(t)), codec[t].st = "flushing", InFlush(flushing[t]))
                      /\ Owed(InQueues(mainQ, videoQ, Stops(t)), Stopping(codec[t]),
                              flushing[t] = "SHUTTING_DOWN_DECODER")
    BY DEF Accounts
  <2>1. /\ ~(codec[t].st = "flushing") /\ ~Stopping(codec[t])
        /\ ~InFlush(flushing[t]) /\ ~(flushing[t] = "SHUTTING_DOWN_DECODER")
    BY <1>1 DEF NewCodec, Stopping, InFlush
  <2> QED
    BY <1>1, <1>2, <2>1 DEF Owed
<1>4. SetUpFirst(decoders, mainQ, videoQ, codec)
  BY <1>1 DEF SetUpFirst, OnLooper, NoneOf, Never
<1> QED
  BY <1>1, <1>3, <1>4 DEF BooksNow, Books

LEMMA BNext ==
    ASSUME RInv, BooksNow, [Next]_vars, \A t \in AV : ~CodecPortFails(t)
    PROVE  BooksNow'
<1>0. TypeOK /\ WaitedForHasDecoder
  BY DEF RInv
<1>1. CASE UNCHANGED vars
  BY <1>1, BIdles DEF vars, playerVars, looperVars
<1>2. CASE PlayerHandles
  BY <1>0, <1>2, BPlayerPasses, BResets, BSeeks, BScans, BForwards, BFills, BDecoderEnd,
     BFlushCompleted, BShutdownCompleted
     DEF PlayerHandles
<1>3. CASE RendererHandles
  BY <1>0, <1>3, BRenderer
<1>4. ASSUME NEW t \in AV,
             \/ CodecHandles(t) \/ ComponentAnswers(t) \/ ComponentWorks(t)
             \/ ComponentChanges(t) \/ ComponentFails(t)
      PROVE  BooksNow'
  <2>1. CASE RendererDrain(t) /\ RendererAlone
    BY <1>0, <2>1, BRenderer
  <2>2. CASE ~(RendererDrain(t) /\ RendererAlone)
    BY <1>0, <1>4, <2>2, BCodecs
  <2> QED
    BY <2>1, <2>2
<1>5. CASE TimerFires \/ AppCalls \/ ResetReturns \/ SourceDiscontinuity
  BY <1>5, BTimersAndCalls
<1> QED
  BY <1>1, <1>2, <1>3, <1>4, <1>5 DEF Next

LEMMA BooksAccount == ASSUME BooksNow PROVE FlushAccounted
<1>1. mainQ \in Seq(Message) /\ videoQ \in Seq(Message)
  BY DEF BooksNow, Books
<1>2. ASSUME NEW q \in Seq(Message), NEW t, NEW whats PROVE Count(q, whats, t) = Hits(q, About(t, whats))
  <2>1. \A i \in 1 .. Len(q) : q[i] \in Message
    BY ElementOfSeq
  <2>2. {i \in 1 .. Len(q) : q[i].what \in whats /\ q[i].trk = t /\ q[i].to # "renderer"}
          = {i \in 1 .. Len(q) : q[i] \in About(t, whats)}
    BY <2>1 DEF About
  <2> QED
    BY <2>2 DEF Count, Hits
<1>3. \A t \in AV : /\ InFlight({"Flush", "FlushCompleted"}, t) = InQueues(mainQ, videoQ, Flushes(t))
                    /\ InFlight({"Shutdown", "ShutdownCompleted"}, t) = InQueues(mainQ, videoQ, Stops(t))
  BY <1>1, <1>2 DEF InFlight, InQueues, Flushes, Stops
<1>4. ASSUME NEW n, NEW works \in BOOLEAN, NEW waits \in BOOLEAN, Owed(n, works, waits)
      PROVE  n + One(works) = One(waits)
  <2>1. CASE waits /\ ~works /\ n = 1
    BY <2>1 DEF One
  <2>2. CASE waits /\ works /\ n = 0
    BY <2>2 DEF One
  <2>3. CASE ~waits /\ ~works /\ n = 0
    BY <2>3 DEF One
  <2> QED
    BY <1>4, <2>1, <2>2, <2>3 DEF Owed
<1> SUFFICES ASSUME NEW t \in AV
             PROVE  /\ InFlight({"Flush", "FlushCompleted"}, t) + One(codec[t].st = "flushing")
                         = One(flushing[t] \in {"FLUSHING_DECODER", "FLUSHING_DECODER_SHUTDOWN"})
                    /\ InFlight({"Shutdown", "ShutdownCompleted"}, t)
                         + One(codec[t].st = "stopping" \/ codec[t].defer)
                         = One(flushing[t] = "SHUTTING_DOWN_DECODER")
  BY DEF FlushAccounted
<1>5. /\ Owed(InQueues(mainQ, videoQ, Flushes(t)), codec[t].st = "flushing", InFlush(flushing[t]))
      /\ Owed(InQueues(mainQ, videoQ, Stops(t)), Stopping(codec[t]), flushing[t] = "SHUTTING_DOWN_DECODER")
  BY DEF BooksNow, Books, Accounts
<1>6. /\ (codec[t].st = "flushing") \in BOOLEAN /\ InFlush(flushing[t]) \in BOOLEAN
      /\ (flushing[t] = "SHUTTING_DOWN_DECODER") \in BOOLEAN
  BY DEF InFlush
<1>7. InQueues(mainQ, videoQ, Flushes(t)) + One(codec[t].st = "flushing") = One(InFlush(flushing[t]))
  BY <1>4, <1>5, <1>6
<1>8. InQueues(mainQ, videoQ, Stops(t)) + One(Stopping(codec[t])) = One(flushing[t] = "SHUTTING_DOWN_DECODER")
  <2>1. Stopping(codec[t]) \in BOOLEAN
    BY DEF Stopping
  <2> QED
    BY <1>4, <1>5, <1>6, <2>1
<1> QED
  BY <1>3, <1>7, <1>8 DEF InFlush, Stopping

(* No codec gives up for want of buffers for the new settings of its output port,  *)
(* which it reports as a shutdown that nobody asked for (CodecPortFails).         *)
PortsHold == [][\A t \in AV : ~CodecPortFails(t)]_vars

(* While no codec gives up at its output port, a flush or a shutdown that the      *)
(* flush status of a track waits for is owed by exactly one party: the request     *)
(* queued for the codec, the codec at work on it, or the answer on its way back    *)
(* through the Decoder; and nobody owes one that the status does not wait for.     *)
(* So no answer is lost, none comes twice, and none reaches a decoder that took    *)
(* the place of the one that was asked.                                         *)
THEOREM FlushesAreAccounted == Spec /\ PortsHold => []FlushAccounted
<1>1. Init => RInv /\ BooksNow
  BY RInit, BInit
<1>2. /\ RInv /\ BooksNow /\ [Next]_vars /\ [\A t \in AV : ~CodecPortFails(t)]_vars
      => RInv' /\ BooksNow'
  <2> SUFFICES ASSUME RInv, BooksNow, [Next]_vars, [\A t \in AV : ~CodecPortFails(t)]_vars
               PROVE  RInv' /\ BooksNow'
    OBVIOUS
  <2>1. RInv'
    BY RNext
  <2>2. CASE UNCHANGED vars
    BY <2>1, <2>2, BIdles DEF vars, playerVars, looperVars
  <2>3. CASE \A t \in AV : ~CodecPortFails(t)
    BY <2>1, <2>3, BNext
  <2> QED
    BY <2>2, <2>3
<1>3. BooksNow => FlushAccounted
  BY BooksAccount
<1> QED
  BY <1>1, <1>2, <1>3, PTL DEF Spec, PortsHold

=============================================================================
