-------------------------- MODULE DashPlayer_proofs --------------------------
(***************************************************************************)
(* Proofs about DashPlayer, for any tracks, any answers of the source, any   *)
(* discontinuities and any number of calls of the application:               *)
(*                                                                         *)
(*   TypeCorrect               Spec => []TypeOK                              *)
(*   NobodyWaitsForNoDecoder   Spec => []WaitedForHasDecoder                 *)
(*                                                                         *)
(* TypeOK is inductive as it stands.  It is split in two, because a handler  *)
(* that aborts still says what becomes of the retries and of the source:     *)
(* CoreTypeOK types what a handler works on, SideTypeOK what it passes by.   *)
(* There is one lemma per action, and one per operator that several actions  *)
(* share.  WaitedForHasDecoder is inductive relative to TypeOK.              *)
(***************************************************************************)
EXTENDS DashPlayer, SequenceTheorems, TLAPS

(* A queue may hold a single message.                                        *)
LEMMA OneMessage ==
    ASSUME NEW m \in Message
    PROVE  <<m>> \in Seq(Message)
  OBVIOUS

(* Msg builds a message, if its payload fits its kind.                       *)
LEMMA MsgType ==
    ASSUME NEW to \in Handlers, NEW what \in Whats, NEW trk \in AV \cup {"-"}, NEW arg \in Args,
           what \in {"EOS", "QueueEOS"} => arg \in {"eos", "err"},
           what = "InputBufferFilled" => arg \in {"ok", "eos", "err"}
    PROVE  Msg(to, what, trk, arg) \in Message
  BY DEF Msg, Message

(* The messages that carry no result. *)
Plain == Whats \ {"EOS", "QueueEOS", "InputBufferFilled"}

(* What the player posts for its own looper, the codecs and the renderer is  *)
(* made of messages.                                                         *)
LEMMA NotesType ==
    /\ <<>> \in Seq(Message)
    /\ ScanNow \in Seq(Message)
    /\ \A what \in Plain, t \in AV \cup {"-"} : ToRenderer(what, t) \in Seq(Message)
    /\ \A what \in Plain, t \in AV : ToCodec(t, what) \in Message
    /\ \A m \in Message, t \in AV : MainPart(t, m) \in Seq(Message) /\ VideoPart(t, m) \in Seq(Message)
    /\ \A event : PausePosts(event) \in Seq(Message)
  <1>1. <<>> \in Seq(Message)
    OBVIOUS
  <1>2. ScanNow \in Seq(Message)
    BY MsgType, OneMessage DEF ScanNow, Handlers, Whats, Args
  <1>3. \A what \in Plain, t \in AV \cup {"-"} : ToRenderer(what, t) \in Seq(Message)
    BY MsgType, OneMessage, <1>1 DEF Plain, ToRenderer, Handlers, Args
  <1>4. \A what \in Plain, t \in AV : ToCodec(t, what) \in Message
    BY MsgType DEF Plain, ToCodec, Handlers, Args
  <1>5. \A m \in Message, t \in AV : MainPart(t, m) \in Seq(Message) /\ VideoPart(t, m) \in Seq(Message)
    BY OneMessage, <1>1 DEF MainPart, VideoPart
  <1>6. \A event : PausePosts(event) \in Seq(Message)
    BY MsgType, OneMessage, <1>1 DEF PausePosts, Handlers, Whats, Args
  <1> QED BY <1>1, <1>2, <1>3, <1>4, <1>5, <1>6

(* A new scan generation leaves a queue of messages a queue of messages.     *)
LEMMA ObsoleteType ==
    ASSUME NEW q \in Seq(Message)
    PROVE  Obsolete(q) \in Seq(Message)
  <1> DEFINE e(i) == IF q[i].what = "ScanSources" THEN [q[i] EXCEPT !.arg = "old"] ELSE q[i]
  <1>a. \A m \in Message : m.what = "ScanSources" => [m EXCEPT !.arg = "old"] \in Message
    BY DEF Message, Args
  <1>1. \A i \in 1..Len(q) : e(i) \in Message
    BY <1>a, ElementOfSeq
  <1>2. Obsolete(q) = [i \in 1..Len(q) |-> e(i)]
    BY DEF Obsolete
  <1>3. Len(q) \in Nat
    OBVIOUS
  <1> HIDE DEF e
  <1> QED BY <1>1, <1>2, <1>3, IsASeq

(* flushDecoder posts messages, whatever tracks it is called for.            *)
LEMMA FlushPostsType ==
    ASSUME NEW S, NEW t \in AV
    PROVE  FlushPosts(S, t) \in Seq(Message) /\ VideoFlushPosts(S) \in Seq(Message)
  <1>1. "Flush" \in Plain
    BY DEF Plain, Whats
  <1>2. ToCodec(t, "Flush") \in Message /\ ToCodec(Video, "Flush") \in Message
    BY <1>1, NotesType DEF AV
  <1>3. FlushPosts(S, t) \in Seq(Message)
    BY <1>1, <1>2, NotesType, ConcatProperties DEF FlushPosts
  <1>4. VideoFlushPosts(S) \in Seq(Message)
    BY <1>2, OneMessage, NotesType DEF VideoFlushPosts
  <1> QED BY <1>3, <1>4

(* flushDecoder leaves every track a flush status.                           *)
LEMMA StatusType ==
    ASSUME NEW S, NEW shutdown, NEW status \in [AV -> FlushStatus], NEW decs
    PROVE  StatusAfterFlush(S, shutdown, status, decs) \in [AV -> FlushStatus]
  BY DEF StatusAfterFlush, FlushStatus

(* DashPlayerDriver::notifyListener keeps the driver's type.                 *)
LEMMA DriverType ==
    ASSUME NEW event, driver \in Driver
    PROVE  DriverAfter(event) \in Driver
  BY DEF DriverAfter, Driver

CoreTypeOK ==
    /\ mainQ \in Seq(Message) /\ videoQ \in Seq(Message)
    /\ scanTimers \in [{"cur", "old"} -> Nat]
    /\ codec \in [AV -> Codec]
    /\ renderer \in Renderer
    /\ source \in BOOLEAN
    /\ decoders \subseteq AV \cup {Text}
    /\ flushing \in [AV -> FlushStatus]
    /\ timePending \in BOOLEAN
    /\ resetInProgress \in BOOLEAN /\ resetPostponed \in BOOLEAN
    /\ scanPending \in BOOLEAN /\ pauseIndication \in BOOLEAN
    /\ endOfStream \in [AV -> BOOLEAN]
    /\ driver \in Driver
    /\ failed \in Checks

SideTypeOK ==
    /\ fillTimers \subseteq AV
    /\ disc \in [AV -> Seq(Discontinuity)]
    /\ left \in [Spendable -> Nat]

(* TypeOK in the two parts the handlers are proved by.                       *)
LEMMA TypeSplit == TypeOK <=> CoreTypeOK /\ SideTypeOK
  BY DEF TypeOK, CoreTypeOK, SideTypeOK, LoopersTypeOK, CodecTypeOK, RendererTypeOK

(* The same of the next state.                                               *)
LEMMA TypeSplitPrime == TypeOK' <=> CoreTypeOK' /\ SideTypeOK'
  BY DEF TypeOK, CoreTypeOK, SideTypeOK, LoopersTypeOK, CodecTypeOK, RendererTypeOK

(* A handler that passes by the retries, the source and the budget keeps     *)
(* their types.                                                              *)
LEMMA SideSame == ASSUME SideTypeOK, UNCHANGED sideVars PROVE SideTypeOK'
  BY DEF SideTypeOK, sideVars, envVars

(* A failed CHECK stops everything and keeps the types.                      *)
LEMMA AbortType ==
    ASSUME CoreTypeOK, NEW check \in Checks, Abort(check)
    PROVE  CoreTypeOK'
  BY DEF CoreTypeOK, Abort, playerVars, resetVars, modeVars

(* A new scan generation keeps the number of delayed scans a number.         *)
LEMMA ScanTimersType ==
    ASSUME scanTimers \in [{"cur", "old"} -> Nat]
    PROVE  ObsoleteTimers(scanTimers) \in [{"cur", "old"} -> Nat]
  BY DEF ObsoleteTimers

(* No renderer, a new one, and one that is being flushed all have the        *)
(* renderer's type.                                                          *)
LEMMA RendererTypes ==
    /\ NoRenderer \in Renderer /\ NewRenderer \in Renderer
    /\ \A S \in SUBSET AV : renderer \in Renderer => RaiseFlush(S) \in Renderer
  <1>1. NoRenderer \in Renderer
    BY DEF NoRenderer, Renderer
  <1>2. NewRenderer \in Renderer
    BY <1>1 DEF NewRenderer, Renderer
  <1>3. ASSUME NEW S \in SUBSET AV, renderer \in Renderer PROVE RaiseFlush(S) \in Renderer
    BY <1>3 DEF RaiseFlush, Renderer
  <1> QED BY <1>1, <1>2, <1>3

(* finishReset keeps the types.                                              *)
LEMMA FinishResetType ==
    ASSUME CoreTypeOK, NEW q \in Seq(Message), NEW vq \in Seq(Message), FinishReset(q, vq),
           flushing' \in [AV -> FlushStatus], timePending' \in BOOLEAN,
           resetInProgress' \in BOOLEAN, resetPostponed' \in BOOLEAN
    PROVE  CoreTypeOK'
  <1>1. [driver EXCEPT !.reset = "woken"] \in Driver
    BY DEF CoreTypeOK, Driver
  <1> QED BY <1>1, ObsoleteType, ScanTimersType, RendererTypes
          DEF CoreTypeOK, FinishReset, DropScans, modeVars

(* The end of a flush keeps the types, whichever way it carries on.          *)
LEMMA AllFlushedType ==
    ASSUME CoreTypeOK, NEW q \in Seq(Message), NEW vq \in Seq(Message),
           NEW decs \in SUBSET (AV \cup {Text}), AllFlushed(q, vq, decs)
    PROVE  CoreTypeOK'
  <1> DEFINE rq == IF Audio \in Survivors(decs) THEN Append(q, ToCodec(Audio, "Resume")) ELSE q
             rv == IF Video \in Survivors(decs) THEN Append(vq, ToCodec(Video, "Resume")) ELSE vq
             rescan == ScanAfterFlush(decs)
  <1>1. rq \in Seq(Message) /\ rv \in Seq(Message)
    <2>1. "Resume" \in Plain /\ Audio \in AV /\ Video \in AV
      BY DEF Plain, Whats, AV
    <2> QED BY <2>1, NotesType, AppendProperties
  <1>2. CASE renderer.on /\ timePending /\ ~QueuesEmpty
    BY <1>2, AbortType DEF AllFlushed, Checks
  <1>3. CASE resetInProgress /\ FailedResetCheck(decs) # "none" /\ ~(renderer.on /\ timePending /\ ~QueuesEmpty)
    <2>1. Abort(FailedResetCheck(decs))
      BY <1>3 DEF AllFlushed
    <2>2. FailedResetCheck(decs) \in Checks
      BY DEF FailedResetCheck, Checks
    <2> QED BY <2>1, <2>2, AbortType
  <1>4. CASE /\ ~(renderer.on /\ timePending /\ ~QueuesEmpty)
             /\ ~(resetInProgress /\ FailedResetCheck(decs) # "none")
    <2>0. renderer.on \in BOOLEAN /\ timePending \in BOOLEAN
      BY DEF CoreTypeOK, Renderer
    <2>1. /\ flushing' \in [AV -> FlushStatus] /\ timePending' \in BOOLEAN
          /\ resetInProgress' \in BOOLEAN
      BY <1>4, <2>0 DEF AllFlushed, FlushStatus
    <2>2. CASE resetInProgress
      <3>1. FinishReset(rq, rv) /\ UNCHANGED resetPostponed
        BY <1>4, <2>2 DEF AllFlushed
      <3> HIDE DEF rq, rv
      <3> QED BY <1>1, <2>1, <3>1, FinishResetType DEF CoreTypeOK
    <2>3. CASE ~resetInProgress
      <3>1. /\ mainQ' = rq \o PostedAfterFlush(decs)
            /\ videoQ' = rv
            /\ resetPostponed' = FALSE
            /\ decoders' = IF rescan THEN decs \ {Text} ELSE decs
            /\ scanPending' = (scanPending \/ rescan)
            /\ UNCHANGED <<scanTimers, codec, renderer, source, modeVars, driver, failed>>
        BY <1>4, <2>3 DEF AllFlushed
      <3>2. PostedAfterFlush(decs) \in Seq(Message)
        <4>1. Msg("player", "Reset", "-", "-") \in Message
          BY MsgType DEF Handlers, Whats, Args
        <4> QED BY <4>1, OneMessage, NotesType DEF PostedAfterFlush
      <3>3. mainQ' \in Seq(Message)
        BY <1>1, <3>1, <3>2, ConcatProperties
      <3>4. rescan \in BOOLEAN
        BY DEF ScanAfterFlush, CoreTypeOK
      <3> HIDE DEF rq, rv, rescan
      <3> QED BY <1>1, <2>1, <3>1, <3>3, <3>4 DEF CoreTypeOK, modeVars
    <2> QED BY <2>2, <2>3 DEF CoreTypeOK
  <1> QED BY <1>2, <1>3, <1>4

(* The CHECK a flushDecoder fails on is one of the CHECKs.                   *)
LEMMA FlushCheckType ==
    ASSUME NEW S, NEW status, NEW decs
    PROVE  FailedFlushCheck(S, status, decs) \in Checks
  BY DEF FailedFlushCheck, Checks

(* finishFlushIfPossible keeps the types.                                    *)
LEMMA FinishFlushType ==
    ASSUME CoreTypeOK, NEW status \in [AV -> FlushStatus], NEW decs \in SUBSET (AV \cup {Text}),
           NEW q \in Seq(Message), NEW vq \in Seq(Message),
           FinishFlushIfPossible(status, decs, q, vq)
    PROVE  CoreTypeOK'
  <1> DEFINE again == FlushedForReset(status, decs)
             wrong == FailedFlushCheck(again, status, decs)
  <1>0. again \subseteq AV
    BY DEF FlushedForReset
  <1>1. CASE wrong # "none"
    BY <1>1, FlushCheckType, AbortType DEF FinishFlushIfPossible
  <1>2. CASE wrong = "none" /\ again # {}
    <2>1. /\ mainQ' = Obsolete(q) \o FlushPosts(again, Audio) \o FlushPosts(again, Video)
          /\ videoQ' = vq \o VideoFlushPosts(again)
          /\ DropScans
          /\ flushing' = StatusAfterFlush(again, TRUE, status, decs)
          /\ renderer' = RaiseFlush(again)
          /\ decoders' = decs
          /\ UNCHANGED <<codec, source, timePending, resetVars, modeVars, driver, failed>>
      BY <1>2 DEF FinishFlushIfPossible
    <2>2. Audio \in AV /\ Video \in AV
      BY DEF AV
    <2> HIDE DEF again
    <2>3. mainQ' \in Seq(Message) /\ videoQ' \in Seq(Message)
      BY <2>1, <2>2, FlushPostsType, ObsoleteType, ConcatProperties
    <2>4. flushing' \in [AV -> FlushStatus] /\ renderer' \in Renderer
      BY <1>0, <2>1, StatusType, RendererTypes DEF CoreTypeOK
    <2> QED BY <2>1, <2>3, <2>4, ScanTimersType DEF CoreTypeOK, DropScans, resetVars, modeVars
  <1>3. CASE wrong = "none" /\ again = {} /\ \E t \in AV : status[t] \notin {"FLUSHED", "SHUT_DOWN"}
    <2>1. /\ mainQ' = q
          /\ videoQ' = vq
          /\ flushing' = status
          /\ decoders' = decs
          /\ UNCHANGED <<scanTimers, codec, renderer, source, timePending, resetVars,
                         scanPending, modeVars, driver, failed>>
      BY <1>3 DEF FinishFlushIfPossible
    <2> QED BY <2>1 DEF CoreTypeOK, resetVars, modeVars
  <1>4. CASE wrong = "none" /\ again = {} /\ ~\E t \in AV : status[t] \notin {"FLUSHED", "SHUT_DOWN"}
    <2>1. AllFlushed(q, vq, decs)
      BY <1>4 DEF FinishFlushIfPossible
    <2> QED BY <2>1, AllFlushedType
  <1> QED BY <1>1, <1>2, <1>3, <1>4

(* The message a looper takes, and what it leaves, have their types.         *)
LEMMA TakenType ==
    ASSUME CoreTypeOK, mainQ # <<>>
    PROVE  /\ Head(mainQ) \in Message /\ Tail(mainQ) \in Seq(Message)
           /\ \A notes \in Seq(Message) : Posts(notes) => mainQ' \in Seq(Message)
  <1>1. Head(mainQ) \in Message /\ Tail(mainQ) \in Seq(Message)
    BY HeadTailProperties DEF CoreTypeOK
  <1> QED BY <1>1, ConcatProperties DEF Posts

(* The discontinuity a source hands out, and what it leaves, have their      *)
(* types.                                                                    *)
LEMMA DiscType ==
    ASSUME SideTypeOK, NEW t \in AV, disc[t] # <<>>
    PROVE  /\ Head(disc[t]) \in Discontinuity
           /\ [disc EXCEPT ![t] = Tail(@)] \in [AV -> Seq(Discontinuity)]
  BY HeadTailProperties DEF SideTypeOK

-----------------------------------------------------------------------------
(* kWhatSetDataSource keeps the types.                                       *)
LEMMA SetDataSourceType == ASSUME TypeOK, OnSetDataSource PROVE TypeOK'
  <1> USE TypeSplit, TypeSplitPrime
  <1>1. SideTypeOK'
    BY EmptySeq DEF OnSetDataSource, SideTypeOK
  <1>2. CASE source
    BY <1>1, <1>2, AbortType DEF OnSetDataSource, Checks
  <1>3. CASE ~source
    <2>1. mainQ' \in Seq(Message)
      BY <1>3, TakenType, NotesType DEF OnSetDataSource, PlayerDue, Due
    <2> QED BY <1>1, <1>3, <2>1 DEF OnSetDataSource, CoreTypeOK, resetVars, modeVars
  <1> QED BY <1>2, <1>3

(* kWhatStart keeps the types.                                               *)
LEMMA StartType == ASSUME TypeOK, OnStart PROVE TypeOK'
  <1> USE TypeSplit, TypeSplitPrime
  <1>1. SideTypeOK'
    BY SideSame DEF OnStart
  <1>2. mainQ' \in Seq(Message)
    BY TakenType, NotesType DEF OnStart, PlayerDue, Due
  <1> QED BY <1>1, <1>2, RendererTypes DEF OnStart, CoreTypeOK, resetVars

(* kWhatPause keeps the types.                                               *)
LEMMA PauseType == ASSUME TypeOK, OnPause PROVE TypeOK'
  <1> USE TypeSplit, TypeSplitPrime
  <1>1. SideTypeOK'
    BY SideSame DEF OnPause
  <1>2. CASE ~renderer.on
    BY <1>1, <1>2, AbortType DEF OnPause, Checks
  <1>3. CASE renderer.on
    <2>1. ToRenderer("Pause", "-") \in Seq(Message)
      BY NotesType DEF Plain, Whats
    <2>2. mainQ' \in Seq(Message)
      BY <1>3, <2>1, TakenType DEF OnPause, PlayerDue, Due
    <2> QED BY <1>1, <1>3, <2>2 DEF OnPause, CoreTypeOK, resetVars
  <1> QED BY <1>2, <1>3

(* kWhatResume keeps the types.                                              *)
LEMMA ResumeType == ASSUME TypeOK, OnResume PROVE TypeOK'
  <1> USE TypeSplit, TypeSplitPrime
  <1> DEFINE scan == ~(AV \cup {Text} \subseteq decoders)
             notes == ToRenderer("Resume", "-") \o IF scan THEN ScanNow ELSE <<>>
  <1>1. SideTypeOK'
    BY SideSame DEF OnResume
  <1>2. CASE ~renderer.on
    BY <1>1, <1>2, AbortType DEF OnResume, Checks
  <1>3. CASE renderer.on
    <2>1. notes \in Seq(Message)
      <3>1. ToRenderer("Resume", "-") \in Seq(Message)
        BY NotesType DEF Plain, Whats
      <3> QED BY <3>1, NotesType, ConcatProperties
    <2>2. Posts(notes)
      BY <1>3 DEF OnResume
    <2>3. mainQ' \in Seq(Message)
      BY <2>1, <2>2, TakenType DEF OnResume, PlayerDue, Due
    <2>4. scanPending' \in BOOLEAN
      BY <1>3 DEF OnResume, CoreTypeOK
    <2> QED BY <1>1, <1>3, <2>3, <2>4 DEF OnResume, CoreTypeOK, resetVars
  <1> QED BY <1>2, <1>3

(* kWhatSeek keeps the types.                                                *)
LEMMA SeekType == ASSUME TypeOK, OnSeek PROVE TypeOK'
  <1> USE TypeSplit, TypeSplitPrime
  <1>1. PICK res \in SeekResults : /\ SeekWith(res)
                                  /\ disc' = IF res = "ok" THEN [t \in AV |-> <<>>] ELSE disc
    BY DEF OnSeek
  <1> DEFINE S == IF res = "ok" THEN {t \in AV \cap decoders : Flushable(flushing[t])} ELSE {}
             flushed == IF S = {} THEN flushing ELSE StatusAfterFlush(S, TRUE, flushing, decoders)
             wrong == IF ~source THEN "null source" ELSE IF ~renderer.on THEN "null renderer"
                      ELSE FailedFlushCheck(S, flushing, decoders)
  <1>2. SideTypeOK'
    BY <1>1, EmptySeq DEF OnSeek, SideTypeOK
  <1>3. S \subseteq AV /\ Audio \in AV /\ Video \in AV
    BY DEF AV
  <1>4. CASE wrong # "none"
    <2>1. wrong \in Checks
      BY FlushCheckType DEF Checks
    <2>2. Abort(wrong)
      BY <1>1, <1>4 DEF SeekWith
    <2> QED BY <1>2, <2>1, <2>2, AbortType
  <1>5. CASE wrong = "none"
    <2>1. /\ timePending' = TRUE
          /\ flushing' = IF res = "ok"
                         THEN [t \in AV |-> IF t \in decoders THEN flushed[t] ELSE "SHUT_DOWN"]
                         ELSE flushing
          /\ videoQ' = videoQ \o VideoFlushPosts(S)
          /\ renderer' = RaiseFlush(S)
          /\ IF S = {}
             THEN Posts(<<>>) /\ UNCHANGED <<scanTimers, scanPending>>
             ELSE /\ mainQ' = Obsolete(Tail(mainQ)) \o FlushPosts(S, Video) \o FlushPosts(S, Audio)
                  /\ DropScans
          /\ UNCHANGED <<codec, source, decoders, resetVars, modeVars, driver, failed>>
      BY <1>1, <1>5 DEF SeekWith
    <2>2. flushed \in [AV -> FlushStatus]
      BY StatusType DEF CoreTypeOK
    <2>3. flushing' \in [AV -> FlushStatus]
      BY <2>1, <2>2 DEF CoreTypeOK, FlushStatus
    <2> HIDE DEF S, flushed, wrong
    <2>4. mainQ # <<>>
      BY DEF OnSeek, PlayerDue, Due
    <2>5. mainQ' \in Seq(Message) /\ scanTimers' \in [{"cur", "old"} -> Nat] /\ scanPending' \in BOOLEAN
      <3>1. CASE S = {}
        BY <2>1, <2>4, <3>1, TakenType, NotesType DEF CoreTypeOK
      <3>2. CASE S # {}
        <4>1. Obsolete(Tail(mainQ)) \in Seq(Message)
          BY <2>4, TakenType, ObsoleteType
        <4>2. FlushPosts(S, Video) \in Seq(Message) /\ FlushPosts(S, Audio) \in Seq(Message)
          BY <1>3, FlushPostsType
        <4>3. mainQ' \in Seq(Message)
          BY ZenonT(60), <2>1, <3>2, <4>1, <4>2, ConcatProperties
        <4> QED BY <2>1, <3>2, <4>3, ScanTimersType DEF DropScans, CoreTypeOK
      <3> QED BY <3>1, <3>2
    <2>6. videoQ' \in Seq(Message)
      BY <1>3, <2>1, FlushPostsType, ConcatProperties DEF CoreTypeOK
    <2>7. renderer' \in Renderer
      BY <1>3, <2>1, RendererTypes DEF CoreTypeOK
    <2> QED BY <1>2, <2>1, <2>3, <2>5, <2>6, <2>7 DEF CoreTypeOK, resetVars, modeVars
  <1> QED BY <1>4, <1>5

(* kWhatReset keeps the types.                                               *)
LEMMA ResetType == ASSUME TypeOK, OnReset PROVE TypeOK'
  <1> USE TypeSplit, TypeSplitPrime
  <1> DEFINE live == AV \cap decoders
             awaiting == \E t \in AV : flushing[t] = "AWAITING_DISCONTINUITY"
             q == Tail(mainQ) \o IF awaiting THEN ToRenderer("Resume", "-") ELSE <<>>
             wrong == FailedFlushCheck(live, flushing, decoders)
             busy == \E t \in live : IsFlushingState(flushing[t])
  <1>1. SideTypeOK'
    BY SideSame DEF OnReset
  <1>2. q \in Seq(Message)
    <2>1. Tail(mainQ) \in Seq(Message)
      BY TakenType DEF OnReset, PlayerDue, Due
    <2>2. ToRenderer("Resume", "-") \in Seq(Message)
      BY NotesType DEF Plain, Whats
    <2> QED BY <2>1, <2>2, NotesType, ConcatProperties
  <1>3. CASE busy
    <2>1. /\ resetPostponed' = TRUE
          /\ mainQ' = q
          /\ UNCHANGED <<videoQ, scanTimers, codec, renderer, source, decoders, flushing,
                         timePending, resetInProgress, scanPending, modeVars, driver, failed>>
      BY <1>3 DEF OnReset
    <2> QED BY <1>1, <1>2, <2>1 DEF CoreTypeOK, modeVars
  <1>4. CASE ~busy /\ live = {}
    <2>1. CASE FailedResetCheck(decoders) # "none"
      BY <1>1, <1>4, <2>1, AbortType DEF OnReset, FailedResetCheck, Checks
    <2>2. CASE FailedResetCheck(decoders) = "none"
      <3>1. FinishReset(q, videoQ) /\ UNCHANGED <<flushing, timePending, resetVars>>
        BY <1>4, <2>2 DEF OnReset
      <3> HIDE DEF q
      <3> QED BY <1>1, <1>2, <3>1, FinishResetType DEF CoreTypeOK, resetVars
    <2> QED BY <2>1, <2>2
  <1>5. CASE ~busy /\ live # {} /\ wrong # "none"
    BY <1>1, <1>5, FlushCheckType, AbortType DEF OnReset
  <1>6. CASE ~busy /\ live # {} /\ wrong = "none"
    <2>1. /\ timePending' = TRUE
          /\ mainQ' = Obsolete(q) \o FlushPosts(live, Audio) \o FlushPosts(live, Video)
          /\ videoQ' = videoQ \o VideoFlushPosts(live)
          /\ DropScans
          /\ flushing' = StatusAfterFlush(live, TRUE, flushing, decoders)
          /\ renderer' = RaiseFlush(live)
          /\ resetInProgress' = TRUE
          /\ UNCHANGED <<codec, source, decoders, resetPostponed, modeVars, driver, failed>>
      BY <1>6 DEF OnReset
    <2>2. Audio \in AV /\ Video \in AV
      BY DEF AV
    <2> HIDE DEF q
    <2>3. mainQ' \in Seq(Message) /\ videoQ' \in Seq(Message)
      BY <1>2, <2>1, <2>2, FlushPostsType, ObsoleteType, ConcatProperties DEF CoreTypeOK
    <2>4. flushing' \in [AV -> FlushStatus] /\ renderer' \in Renderer
      BY <2>1, StatusType, RendererTypes DEF CoreTypeOK
    <2> QED BY <1>1, <2>1, <2>3, <2>4, ScanTimersType DEF CoreTypeOK, DropScans, modeVars
  <1> QED BY <1>3, <1>4, <1>5, <1>6

(* kWhatScanSources keeps the types.                                         *)
LEMMA ScanType == ASSUME TypeOK, OnScanSources PROVE TypeOK'
  <1> USE TypeSplit, TypeSplitPrime
  <1>1. SideTypeOK'
    BY SideSame DEF OnScanSources
  <1>2. CASE pauseIndication \/ Head(mainQ).arg = "old"
    <2>1. mainQ' \in Seq(Message)
      BY <1>2, TakenType, NotesType DEF OnScanSources, PlayerDue, Due
    <2> QED BY <1>1, <1>2, <2>1 DEF OnScanSources, CoreTypeOK, playerVars, resetVars, modeVars
  <1>3. CASE ~(pauseIndication \/ Head(mainQ).arg = "old") /\ ~source
    BY <1>1, <1>3, AbortType DEF OnScanSources, Checks
  <1>4. CASE ~(pauseIndication \/ Head(mainQ).arg = "old") /\ source
    <2>1. PICK N \in SUBSET ((Outputs \cup IF HasText THEN {Text} ELSE {}) \ decoders),
               res \in FeedResults : ScanWith(N, res)
      BY <1>4 DEF OnScanSources
    <2> DEFINE after == decoders \cup N
               event == IF res = "ok" \/ after \cap AV # {} THEN "none"
                        ELSE IF res = "eos" THEN "complete" ELSE "error"
               again == res = "ok" /\ ScanAgain(after)
               tell  == res = "ok" /\ renderer.on /\ timePending
               notes == (IF Audio \in N THEN <<ToCodec(Audio, "Setup")>> ELSE <<>>) \o PausePosts(event)
               vnotes == IF Video \in N THEN <<ToCodec(Video, "Setup")>> ELSE <<>>
    <2>2. CASE tell /\ ~QueuesEmpty
      BY <1>1, <2>1, <2>2, AbortType DEF ScanWith, Checks
    <2>3. CASE ~(tell /\ ~QueuesEmpty)
      <3>1. /\ decoders' = after
            /\ codec' = [t \in AV |-> IF t \in N THEN NewCodec ELSE codec[t]]
            /\ flushing' = [t \in AV |-> IF t \in N THEN "NONE" ELSE flushing[t]]
            /\ Posts(notes)
            /\ videoQ' = videoQ \o vnotes
            /\ scanTimers' = IF again THEN [scanTimers EXCEPT !["cur"] = @ + 1] ELSE scanTimers
            /\ scanPending' = again
            /\ timePending' = (timePending /\ ~tell)
            /\ driver' = DriverAfter(event)
            /\ UNCHANGED <<renderer, source, resetVars, modeVars, failed>>
        BY <2>1, <2>3 DEF ScanWith
      <3>2. decoders' \subseteq AV \cup {Text}
        BY <3>1, ConstantsAssumption DEF CoreTypeOK
      <3>3. codec' \in [AV -> Codec] /\ flushing' \in [AV -> FlushStatus]
        BY <3>1 DEF CoreTypeOK, NewCodec, Codec, States, FlushStatus
      <3>4. notes \in Seq(Message) /\ vnotes \in Seq(Message)
        <4>1. "Setup" \in Plain /\ Audio \in AV /\ Video \in AV
          BY DEF Plain, Whats, AV
        <4>2. ToCodec(Audio, "Setup") \in Message /\ ToCodec(Video, "Setup") \in Message
          BY <4>1, NotesType
        <4> HIDE DEF event
        <4> QED BY <4>2, OneMessage, NotesType, ConcatProperties
      <3>5. mainQ' \in Seq(Message) /\ videoQ' \in Seq(Message)
        <4> HIDE DEF notes, vnotes
        <4> QED BY <3>1, <3>4, TakenType, ConcatProperties DEF OnScanSources, PlayerDue, Due, CoreTypeOK
      <3>6. scanTimers' \in [{"cur", "old"} -> Nat]
        BY <3>1 DEF CoreTypeOK
      <3>7. scanPending' \in BOOLEAN /\ timePending' \in BOOLEAN
        BY <3>1 DEF ScanAgain, CoreTypeOK
      <3>8. driver' \in Driver
        BY <3>1, DriverType DEF CoreTypeOK
      <3> QED BY <1>1, <3>1, <3>2, <3>3, <3>5, <3>6, <3>7, <3>8 DEF CoreTypeOK, resetVars, modeVars
    <2> QED BY <2>2, <2>3
  <1> QED BY <1>2, <1>3, <1>4

(* A Decoder passing on a message of its codec keeps the types.              *)
LEMMA ForwardsType == ASSUME TypeOK, DecoderForwards PROVE TypeOK'
  <1> USE TypeSplit, TypeSplitPrime
  <1>1. SideTypeOK'
    BY SideSame DEF DecoderForwards
  <1>2. Head(mainQ) \in Message
    BY TakenType DEF DecoderForwards
  <1>3. [Head(mainQ) EXCEPT !.to = "player"] \in Message
    BY <1>2 DEF Message, Handlers
  <1>4. mainQ' \in Seq(Message)
    BY <1>3, OneMessage, TakenType, NotesType DEF DecoderForwards
  <1> QED BY <1>1, <1>4 DEF DecoderForwards, CoreTypeOK, playerVars, resetVars, modeVars

(* A reply to a codec keeps the types.                                       *)
LEMMA ReplyType ==
    ASSUME CoreTypeOK, mainQ # <<>>, NEW t \in AV, NEW m \in Message, Reply(t, m)
    PROVE  CoreTypeOK'
  <1>1. MainPart(t, m) \in Seq(Message) /\ VideoPart(t, m) \in Seq(Message)
    BY NotesType
  <1>2. mainQ' \in Seq(Message) /\ videoQ' \in Seq(Message)
    BY <1>1, TakenType, ConcatProperties DEF Reply, CoreTypeOK
  <1> QED BY <1>2 DEF Reply, CoreTypeOK, playerVars, resetVars, modeVars

(* The replies to the two buffer requests are messages.                      *)
LEMMA ReplyMessages ==
    ASSUME NEW t \in AV
    PROVE  Drained(t) \in Message /\ \A res \in Results : Filled(t, res) \in Message
  BY MsgType DEF Drained, Filled, Handlers, Whats, Args, Results

(* Only kVideo and kAudio are ever retried.                                  *)
LEMMA RetryType ==
    ASSUME fillTimers \subseteq AV, NEW t \in AV, RetryFill(t)
    PROVE  fillTimers' \subseteq AV
  BY DEF RetryFill

(* A discontinuity that flushes its track keeps the types.                   *)
LEMMA FeedChangeType ==
    ASSUME CoreTypeOK, mainQ # <<>>, NEW t \in AV, NEW d \in Discontinuity, FeedChange(t, d)
    PROVE  CoreTypeOK'
  <1> DEFINE wrong == FailedFlushCheck({t}, flushing, decoders)
             shutdown == t \in d.format
             err == Filled(t, "err")
  <1>1. CASE wrong # "none"
    BY <1>1, FlushCheckType, AbortType DEF FeedChange
  <1>2. CASE wrong = "none"
    <2>1. /\ timePending' = (timePending \/ d.time)
          /\ mainQ' = Obsolete(Tail(mainQ)) \o FlushPosts({t}, t) \o MainPart(t, err)
          /\ videoQ' = videoQ \o VideoFlushPosts({t}) \o VideoPart(t, err)
          /\ DropScans
          /\ flushing' = StatusAfterFlush({t}, shutdown, flushing, decoders)
          /\ renderer' = RaiseFlush({t})
          /\ UNCHANGED <<codec, source, decoders, resetVars, modeVars, driver, failed>>
      BY <1>2 DEF FeedChange
    <2>2. err \in Message
      BY ReplyMessages DEF Results
    <2> HIDE DEF err
    <2>3. MainPart(t, err) \in Seq(Message) /\ VideoPart(t, err) \in Seq(Message)
      BY <2>2, NotesType
    <2>4. Obsolete(Tail(mainQ)) \in Seq(Message)
      BY TakenType, ObsoleteType
    <2>5. FlushPosts({t}, t) \in Seq(Message) /\ VideoFlushPosts({t}) \in Seq(Message)
      BY FlushPostsType
    <2>6. mainQ' \in Seq(Message)
      BY <2>1, <2>3, <2>4, <2>5, ConcatProperties
    <2>7. videoQ' \in Seq(Message)
      BY <2>1, <2>3, <2>5, ConcatProperties DEF CoreTypeOK
    <2>8. timePending' \in BOOLEAN
      BY <2>1 DEF CoreTypeOK, Discontinuity
    <2>9. flushing' \in [AV -> FlushStatus] /\ renderer' \in Renderer
      BY <2>1, StatusType, RendererTypes DEF CoreTypeOK
    <2> QED BY <2>1, <2>6, <2>7, <2>8, <2>9, ScanTimersType
            DEF CoreTypeOK, DropScans, resetVars, modeVars
  <1> QED BY <1>1, <1>2

(* feedDecoderInputData keeps the types.                                     *)
LEMMA FillType == ASSUME TypeOK, NEW t \in AV, OnFillThisBuffer(t) PROVE TypeOK'
  <1> USE TypeSplit, TypeSplitPrime
  <1>0. mainQ # <<>> /\ UNCHANGED left
    BY DEF OnFillThisBuffer, DueFor, PlayerDue, Due
  <1>1. CASE IsFlushingState(flushing[t])
    BY <1>0, <1>1, ReplyMessages, ReplyType DEF OnFillThisBuffer, Results, SideTypeOK
  <1>2. CASE ~IsFlushingState(flushing[t]) /\ ~source
    BY <1>0, <1>2, AbortType DEF OnFillThisBuffer, Checks, SideTypeOK
  <1>3. CASE ~IsFlushingState(flushing[t]) /\ source
    <2>1. CASE /\ Posts(<<>>)
               /\ RetryFill(t)
               /\ UNCHANGED <<videoQ, scanTimers, codec, renderer, playerVars, driver, failed, disc>>
      <3>1. mainQ' \in Seq(Message)
        BY <1>0, <2>1, TakenType, NotesType
      <3>2. SideTypeOK'
        BY <1>0, <2>1, RetryType DEF SideTypeOK
      <3> QED BY <2>1, <3>1, <3>2 DEF CoreTypeOK, playerVars, resetVars, modeVars
    <2>2. ASSUME NEW res \in DataResults \cap {"ok", "eos"}, Reply(t, Filled(t, res)),
                 UNCHANGED <<fillTimers, disc>>
          PROVE  TypeOK'
      <3>1. Filled(t, res) \in Message
        BY ReplyMessages DEF Results
      <3> QED BY <1>0, <2>2, <3>1, ReplyType DEF SideTypeOK
    <2>3. CASE FeedDiscontinuity(t)
      <3> DEFINE d == Head(disc[t])
      <3>1. d \in Discontinuity /\ disc' \in [AV -> Seq(Discontinuity)]
        BY <2>3, DiscType DEF FeedDiscontinuity
      <3>2. CASE t \in d.format \/ d.time
        <4>1. FeedChange(t, d) /\ UNCHANGED fillTimers
          BY <2>3, <3>2 DEF FeedDiscontinuity
        <4> HIDE DEF d
        <4> QED BY <1>0, <3>1, <4>1, FeedChangeType DEF SideTypeOK
      <3>3. CASE ~(t \in d.format \/ d.time)
        <4>1. FeedUnaffected(t) /\ RetryFill(t)
          BY <2>3, <3>3 DEF FeedDiscontinuity
        <4>2. [flushing EXCEPT ![t] = "FLUSHED"] \in [AV -> FlushStatus]
          BY DEF CoreTypeOK, FlushStatus
        <4>3. CoreTypeOK'
          BY <1>0, <4>1, <4>2, TakenType, FinishFlushType DEF FeedUnaffected, CoreTypeOK
        <4> QED BY <1>0, <3>1, <4>1, <4>3, RetryType DEF SideTypeOK
      <3> QED BY <3>2, <3>3
    <2> QED BY <1>3, <2>1, <2>2, <2>3 DEF OnFillThisBuffer
  <1> QED BY <1>1, <1>2, <1>3

(* renderBuffer keeps the types.                                             *)
LEMMA DrainType == ASSUME TypeOK, NEW t \in AV, OnDrainThisBuffer(t) PROVE TypeOK'
  <1> USE TypeSplit, TypeSplitPrime
  <1>0. mainQ # <<>>
    BY DEF OnDrainThisBuffer, DueFor, PlayerDue, Due
  <1>1. SideTypeOK'
    BY SideSame DEF OnDrainThisBuffer
  <1>2. CASE Reply(t, Drained(t))
    BY <1>0, <1>1, <1>2, ReplyMessages, ReplyType
  <1>3. CASE /\ Posts(ToRenderer("QueueBuffer", t))
             /\ UNCHANGED <<videoQ, scanTimers, codec, renderer, playerVars, driver, failed>>
    <2>1. ToRenderer("QueueBuffer", t) \in Seq(Message)
      BY NotesType DEF Plain, Whats
    <2>2. mainQ' \in Seq(Message)
      BY <1>0, <1>3, <2>1, TakenType
    <2> QED BY <1>1, <1>3, <2>2 DEF CoreTypeOK, playerVars, resetVars, modeVars
  <1> QED BY <1>2, <1>3 DEF OnDrainThisBuffer

(* kWhatEOS and kWhatError of a codec keep the types.                        *)
LEMMA DecoderEndType == ASSUME TypeOK, NEW t \in AV, OnDecoderEnd(t) PROVE TypeOK'
  <1> USE TypeSplit, TypeSplitPrime
  <1> DEFINE m == Head(mainQ)
             res == IF m.what = "Error" THEN "err" ELSE m.arg
             notes == IF renderer.on /\ ~IsFlushingState(flushing[t])
                      THEN <<Msg("renderer", "QueueEOS", t, res)>> ELSE <<>>
  <1>0. mainQ # <<>> /\ Posts(notes)
    BY DEF OnDecoderEnd, DueFor, PlayerDue, Due
  <1>1. SideTypeOK'
    BY SideSame DEF OnDecoderEnd
  <1>2. res \in {"eos", "err"}
    <2>1. m \in Message
      BY <1>0, TakenType
    <2> QED BY <2>1 DEF Message, OnDecoderEnd, DueFor, PlayerDue, Due
  <1>3. notes \in Seq(Message)
    <2> HIDE DEF res
    <2>1. Msg("renderer", "QueueEOS", t, res) \in Message
      BY <1>2, MsgType DEF Handlers, Whats, Args
    <2> QED BY <2>1, OneMessage, NotesType
  <1>4. mainQ' \in Seq(Message)
    BY <1>0, <1>3, TakenType
  <1> QED BY <1>1, <1>4 DEF OnDecoderEnd, CoreTypeOK, playerVars, resetVars, modeVars

(* kWhatFlushCompleted keeps the types.                                      *)
LEMMA FlushCompletedType == ASSUME TypeOK, NEW t \in AV, OnFlushCompleted(t) PROVE TypeOK'
  <1> USE TypeSplit, TypeSplitPrime
  <1> DEFINE stop == ToCodec(t, "Shutdown")
             stopping == [flushing EXCEPT ![t] = "SHUTTING_DOWN_DECODER"]
             flushed == [flushing EXCEPT ![t] = "FLUSHED"]
  <1>0. mainQ # <<>>
    BY DEF OnFlushCompleted, DueFor, PlayerDue, Due
  <1>1. SideTypeOK'
    BY SideSame DEF OnFlushCompleted
  <1>2. stopping \in [AV -> FlushStatus] /\ flushed \in [AV -> FlushStatus]
    BY DEF CoreTypeOK, FlushStatus
  <1>3. Tail(mainQ) \in Seq(Message) /\ videoQ \in Seq(Message)
    BY <1>0, TakenType DEF CoreTypeOK
  <1>4. MainPart(t, stop) \in Seq(Message) /\ VideoPart(t, stop) \in Seq(Message)
    BY NotesType DEF Plain, Whats
  <1>5. Tail(mainQ) \o MainPart(t, stop) \in Seq(Message) /\ videoQ \o VideoPart(t, stop) \in Seq(Message)
    BY <1>3, <1>4, ConcatProperties
  <1>6. \/ Abort("FlushCompleted: not flushing")
        \/ Abort("null decoder")
        \/ FinishFlushIfPossible(stopping, decoders, Tail(mainQ) \o MainPart(t, stop),
                                 videoQ \o VideoPart(t, stop))
        \/ FinishFlushIfPossible(flushed, decoders, Tail(mainQ), videoQ)
    BY DEF OnFlushCompleted
  <1>7. "FlushCompleted: not flushing" \in Checks /\ "null decoder" \in Checks
    BY DEF Checks
  <1>8. decoders \in SUBSET (AV \cup {Text})
    BY DEF CoreTypeOK
  <1> HIDE DEF stop, stopping, flushed
  <1> QED BY <1>1, <1>2, <1>3, <1>5, <1>6, <1>7, <1>8, AbortType, FinishFlushType

(* kWhatShutdownCompleted keeps the types.                                   *)
LEMMA ShutdownCompletedType == ASSUME TypeOK, NEW t \in AV, OnShutdownCompleted(t) PROVE TypeOK'
  <1> USE TypeSplit, TypeSplitPrime
  <1> DEFINE down == [flushing EXCEPT ![t] = "SHUT_DOWN"]
  <1>0. mainQ # <<>>
    BY DEF OnShutdownCompleted, DueFor, PlayerDue, Due
  <1>1. SideTypeOK'
    BY SideSame DEF OnShutdownCompleted
  <1>2. down \in [AV -> FlushStatus] /\ decoders \ {t} \in SUBSET (AV \cup {Text})
    BY DEF CoreTypeOK, FlushStatus
  <1>3. Tail(mainQ) \in Seq(Message) /\ videoQ \in Seq(Message)
    BY <1>0, TakenType DEF CoreTypeOK
  <1>4. \/ Abort("ShutdownCompleted: not shutting down")
        \/ FinishFlushIfPossible(down, decoders \ {t}, Tail(mainQ), videoQ)
    BY DEF OnShutdownCompleted
  <1>5. "ShutdownCompleted: not shutting down" \in Checks
    BY DEF Checks
  <1> HIDE DEF down
  <1> QED BY <1>1, <1>2, <1>3, <1>4, <1>5, AbortType, FinishFlushType

(* The renderer's kWhatEOS keeps the types.                                  *)
LEMMA RendererEOSType == ASSUME TypeOK, OnRendererEOS PROVE TypeOK'
  <1> USE TypeSplit, TypeSplitPrime
  <1> DEFINE m == Head(mainQ)
             ended == [endOfStream EXCEPT ![m.trk] = TRUE]
             event == IF m.arg = "err" THEN "error" ELSE IF AllEnded(ended) THEN "complete" ELSE "none"
  <1>0. mainQ # <<>>
    BY DEF OnRendererEOS, PlayerDue, Due
  <1>1. SideTypeOK'
    BY SideSame DEF OnRendererEOS
  <1>2. /\ endOfStream' = ended
        /\ driver' = DriverAfter(event)
        /\ Posts(PausePosts(event))
        /\ UNCHANGED <<videoQ, scanTimers, codec, renderer, source, decoders, flushing, timePending,
                       resetVars, scanPending, pauseIndication, failed>>
    BY DEF OnRendererEOS
  <1> HIDE DEF event
  <1>3. mainQ' \in Seq(Message)
    BY <1>0, <1>2, NotesType, TakenType
  <1>4. driver' \in Driver
    BY <1>2, DriverType DEF CoreTypeOK
  <1>5. endOfStream' \in [AV -> BOOLEAN]
    BY <1>2 DEF CoreTypeOK
  <1> QED BY <1>1, <1>2, <1>3, <1>4, <1>5 DEF CoreTypeOK, resetVars

(* Renderer::onPause keeps the types.                                        *)
LEMMA RendererPauseType == ASSUME TypeOK, RendererPause PROVE TypeOK'
  <1> USE TypeSplit, TypeSplitPrime
  <1>1. SideTypeOK'
    BY SideSame DEF RendererPause
  <1>2. CASE renderer.on /\ renderer.paused
    BY <1>1, <1>2, AbortType DEF RendererPause, Checks
  <1>3. CASE ~(renderer.on /\ renderer.paused)
    <2>1. mainQ' \in Seq(Message)
      BY <1>3, TakenType, NotesType DEF RendererPause, Due
    <2>2. renderer' \in Renderer
      BY <1>3 DEF RendererPause, CoreTypeOK, Renderer
    <2> QED BY <1>1, <1>3, <2>1, <2>2 DEF RendererPause, CoreTypeOK, playerVars, resetVars, modeVars
  <1> QED BY <1>2, <1>3

-----------------------------------------------------------------------------
(* A step that is typed for the queues and the renderer, and leaves the      *)
(* player alone, keeps the types.                                            *)
LEMMA RendererStepType ==
    ASSUME TypeOK, RendererAlone, renderer' \in Renderer,
           mainQ' \in Seq(Message), videoQ' \in Seq(Message), UNCHANGED <<scanTimers, fillTimers>>
    PROVE  TypeOK'
  BY TypeSplit, TypeSplitPrime
     DEF RendererAlone, Alone, CoreTypeOK, SideTypeOK, playerVars, resetVars, modeVars, envVars

(* The renderer taking its message leaves queues of messages.                *)
LEMMA RendererTakesType ==
    ASSUME CoreTypeOK, mainQ # <<>>, NEW a \in Seq(Message), NEW b \in Seq(Message),
           RendererTakes(a, b)
    PROVE  mainQ' \in Seq(Message) /\ videoQ' \in Seq(Message) /\ UNCHANGED <<scanTimers, fillTimers>>
  BY TakenType, ConcatProperties DEF RendererTakes, CoreTypeOK

(* notifyConsumed is a message, on the looper of its codec.                  *)
LEMMA ConsumedType ==
    ASSUME NEW t \in AV \cup {"-"}
    PROVE  /\ Consumed(t) \in Message
           /\ MainPart(t, Consumed(t)) \in Seq(Message)
           /\ VideoPart(t, Consumed(t)) \in Seq(Message)
  <1>1. Consumed(t) \in Message
    BY MsgType DEF Consumed, Handlers, Whats, Args
  <1> QED BY <1>1, OneMessage, NotesType DEF MainPart, VideoPart

(* Adding an entry to a queue, and dropping the head of the audio queue, leave *)
(* queues of entries.                                                       *)
LEMMA SyncedType ==
    ASSUME NEW queue \in [AV -> Seq(Entry)], NEW synced \in Synced(queue)
    PROVE  synced \in [AV -> Seq(Entry)]
  <1>1. CASE synced = queue
    BY <1>1
  <1>2. CASE synced # queue
    <2>1. synced = [queue EXCEPT ![Audio] = Tail(@)] /\ queue[Audio] # <<>>
      BY <1>2 DEF Synced
    <2>2. Tail(queue[Audio]) \in Seq(Entry)
      BY <2>1, HeadTailProperties DEF AV
    <2> QED BY <2>1, <2>2
  <1> QED BY <1>1, <1>2

(* Renderer::onQueueBuffer keeps the types.                                  *)
LEMMA RendererQueueBufferType ==
    ASSUME TypeOK, RendererQueueBuffer, RendererAlone PROVE TypeOK'
  <1> USE TypeSplit
  <1> DEFINE t == Head(mainQ).trk
             queue == [renderer.queue EXCEPT ![t] = Append(@, "buffer")]
  <1>0. mainQ # <<>>
    BY DEF RendererQueueBuffer, Due
  <1>1. t \in AV \cup {"-"}
    <2>1. Head(mainQ) \in Message
      BY <1>0, TakenType
    <2> QED BY <2>1 DEF Message
  <1>2. \/ renderer' = renderer
        \/ \E synced \in Synced(queue) : renderer' = [renderer EXCEPT !.queue = synced]
    BY DEF RendererQueueBuffer
  <1>3. queue \in [AV -> Seq(Entry)]
    <2>1. ASSUME NEW u \in AV PROVE Append(renderer.queue[u], "buffer") \in Seq(Entry)
      BY AppendProperties DEF CoreTypeOK, Renderer, Entry
    <2> QED BY <2>1 DEF CoreTypeOK, Renderer
  <1>4. \E a \in Seq(Message), b \in Seq(Message) : RendererTakes(a, b)
    <2>1. <<Consumed(Audio)>> \in Seq(Message)
      BY ConsumedType, OneMessage DEF AV
    <2> QED BY <1>1, <2>1, ConsumedType, NotesType DEF RendererQueueBuffer
  <1> HIDE DEF queue
  <1>5. renderer' \in Renderer
    <2>1. CASE renderer' = renderer
      BY <2>1 DEF CoreTypeOK
    <2>2. ASSUME NEW synced \in Synced(queue), renderer' = [renderer EXCEPT !.queue = synced]
          PROVE  renderer' \in Renderer
      <3>1. synced \in [AV -> Seq(Entry)]
        BY <1>3, <2>2, SyncedType
      <3> QED BY <2>2, <3>1 DEF CoreTypeOK, Renderer
    <2> QED BY <1>2, <2>1, <2>2
  <1> QED BY <1>0, <1>4, <1>5, RendererTakesType, RendererStepType

(* Renderer::onQueueEOS keeps the types.                                     *)
LEMMA RendererQueueEOSType ==
    ASSUME TypeOK, RendererQueueEOS, RendererAlone PROVE TypeOK'
  <1> USE TypeSplit
  <1> DEFINE m == Head(mainQ)
  <1>0. mainQ # <<>> /\ m.what = "QueueEOS"
    BY DEF RendererQueueEOS, Due
  <1>1. m.arg \in Entry
    <2>1. m \in Message
      BY <1>0, TakenType
    <2> QED BY <1>0, <2>1 DEF Message, Entry
  <1>2. renderer' \in Renderer
    <2>1. CASE renderer' = [renderer EXCEPT !.queue[m.trk] = Append(@, m.arg)]
      <3>1. ASSUME NEW u \in AV PROVE Append(renderer.queue[u], m.arg) \in Seq(Entry)
        BY <1>1, AppendProperties DEF CoreTypeOK, Renderer
      <3> QED BY <2>1, <3>1 DEF CoreTypeOK, Renderer
    <2>2. CASE renderer' = renderer
      BY <2>2 DEF CoreTypeOK
    <2> QED BY <2>1, <2>2 DEF RendererQueueEOS
  <1>3. RendererTakes(<<>>, <<>>)
    BY DEF RendererQueueEOS
  <1> QED BY <1>0, <1>2, <1>3, NotesType, RendererTakesType, RendererStepType

(* Renderer::onFlush keeps the types.                                        *)
LEMMA RendererFlushType ==
    ASSUME TypeOK, RendererFlush, RendererAlone PROVE TypeOK'
  <1> USE TypeSplit
  <1> DEFINE t == Head(mainQ).trk
             held == IF \E i \in 1..Len(renderer.queue[t]) : renderer.queue[t][i] = "buffer"
                     THEN <<Consumed(t)>> ELSE <<>>
  <1>0. mainQ # <<>>
    BY DEF RendererFlush, Due
  <1>1. t \in AV \cup {"-"}
    <2>1. Head(mainQ) \in Message
      BY <1>0, TakenType
    <2> QED BY <2>1 DEF Message
  <1>2. held \in Seq(Message)
    BY <1>1, ConsumedType, OneMessage, NotesType
  <1>3. renderer' \in Renderer
    <2>1. CASE renderer' = [renderer EXCEPT !.queue[t] = <<>>, !.flushing = @ \ {t}]
      BY <2>1, EmptySeq DEF CoreTypeOK, Renderer
    <2>2. CASE renderer' = renderer
      BY <2>2 DEF CoreTypeOK
    <2> QED BY <2>1, <2>2 DEF RendererFlush
  <1>4. \/ RendererTakes(IF t = Audio THEN held ELSE <<>>, IF t = Video THEN held ELSE <<>>)
        \/ RendererTakes(<<>>, <<>>)
    BY DEF RendererFlush
  <1>5. \E a \in Seq(Message), b \in Seq(Message) : RendererTakes(a, b)
    <2> HIDE DEF held
    <2> QED BY <1>2, <1>4, NotesType
  <1> QED BY <1>0, <1>3, <1>5, RendererTakesType, RendererStepType

(* Renderer::onResume keeps the types.                                       *)
LEMMA RendererResumeType ==
    ASSUME TypeOK, RendererResume, RendererAlone PROVE TypeOK'
  <1> USE TypeSplit
  <1>1. renderer' \in Renderer
    BY DEF RendererResume, CoreTypeOK, Renderer
  <1> QED BY <1>1, NotesType, RendererTakesType, RendererStepType DEF RendererResume, Due

(* Draining a queue of the renderer keeps the types.                         *)
LEMMA RendererDrainType ==
    ASSUME TypeOK, NEW t \in AV, RendererDrain(t), RendererAlone PROVE TypeOK'
  <1> USE TypeSplit
  <1> DEFINE e == Head(renderer.queue[t])
  <1>1. e \in Entry /\ Tail(renderer.queue[t]) \in Seq(Entry)
    BY HeadTailProperties DEF RendererDrain, CoreTypeOK, Renderer
  <1>2. renderer' \in Renderer
    <2>1. renderer' = [renderer EXCEPT !.queue[t] = Tail(@)]
      BY DEF RendererDrain
    <2>2. Tail(renderer.queue[t]) \in Seq(Entry)
      BY <1>1
    <2> HIDE DEF e
    <2> QED BY <2>1, <2>2 DEF CoreTypeOK, Renderer
  <1>3. CASE e = "buffer"
    <2>1. /\ mainQ' = mainQ \o MainPart(t, Consumed(t))
          /\ videoQ' = videoQ \o VideoPart(t, Consumed(t))
      BY <1>3 DEF RendererDrain
    <2>2. mainQ' \in Seq(Message)
      BY <2>1, ConsumedType, ConcatProperties DEF CoreTypeOK
    <2>3. videoQ' \in Seq(Message)
      BY <2>1, ConsumedType, ConcatProperties DEF CoreTypeOK
    <2> QED BY <1>2, <2>2, <2>3, RendererStepType DEF RendererDrain
  <1>4. CASE e # "buffer"
    <2>1. Msg("player", "RendererEOS", t, e) \in Message
      BY <1>1, <1>4, MsgType DEF Entry, Handlers, Whats, Args
    <2> HIDE DEF e
    <2>2. mainQ' = Append(mainQ, Msg("player", "RendererEOS", t, e)) /\ videoQ' = videoQ
      BY <1>4 DEF RendererDrain, e
    <2>3. mainQ' \in Seq(Message) /\ videoQ' \in Seq(Message)
      BY <2>1, <2>2, AppendProperties DEF CoreTypeOK
    <2> QED BY <1>2, <2>3, RendererStepType DEF RendererDrain
  <1> QED BY <1>3, <1>4

-----------------------------------------------------------------------------
(* A step of a codec passes the rest of the player by.                        *)
Aside == CodecAlone \/ \E what \in Spendable : Spends(what)

(* A step that is typed for the queues and the codecs, and passes the player   *)
(* by, keeps the types.                                                      *)
LEMMA CodecStepType ==
    ASSUME TypeOK, Aside, codec' \in [AV -> Codec],
           mainQ' \in Seq(Message), videoQ' \in Seq(Message), UNCHANGED <<scanTimers, fillTimers>>
    PROVE  TypeOK'
  <1>1. left' \in [Spendable -> Nat]
    BY TypeSplit DEF Aside, CodecAlone, Alone, envVars, Spends, Spend, SideTypeOK
  <1>2. UNCHANGED <<renderer, playerVars, driver, disc, failed>>
    BY DEF Aside, CodecAlone, Alone, envVars, Spends
  <1> QED BY <1>1, <1>2, TypeSplit, TypeSplitPrime
          DEF CoreTypeOK, SideTypeOK, playerVars, resetVars, modeVars

(* A codec taking its message leaves queues of messages.                     *)
LEMMA CodecTakesType ==
    ASSUME CoreTypeOK, NEW t \in AV, CodecQueue(t) # <<>>, NEW notes \in Seq(Message),
           CodecTakes(t, notes)
    PROVE  mainQ' \in Seq(Message) /\ videoQ' \in Seq(Message)
  <1>1. CASE t = Video
    <2>1. videoQ' = Tail(videoQ) /\ videoQ # <<>> /\ mainQ' = mainQ \o notes
      BY <1>1 DEF CodecTakes, CodecQueue
    <2> QED BY <2>1, HeadTailProperties, ConcatProperties DEF CoreTypeOK
  <1>2. CASE t # Video
    <2>1. mainQ' = Tail(mainQ) \o notes /\ mainQ # <<>> /\ videoQ' = videoQ
      BY <1>2 DEF CodecTakes, CodecQueue
    <2>2. Tail(mainQ) \in Seq(Message)
      BY <2>1, HeadTailProperties DEF CoreTypeOK
    <2> QED BY <2>1, <2>2, ConcatProperties DEF CoreTypeOK
  <1> QED BY <1>1, <1>2

(* What every step of a codec is: it becomes c and posts notes, after taking  *)
(* a message or of its own accord.                                          *)
StepsTo(t, c, notes) ==
    CodecActs(t, c, notes) \/ (CodecQueue(t) # <<>> /\ CodecHears(t, c, notes))

(* Such a step keeps the types, if c is a codec and the notes are messages.    *)
LEMMA StepsToType ==
    ASSUME TypeOK, Aside, NEW t \in AV, NEW c \in Codec, NEW notes \in Seq(Message),
           StepsTo(t, c, notes)
    PROVE  TypeOK'
  <1>1. CoreTypeOK
    BY TypeSplit
  <1>2. codec' = [codec EXCEPT ![t] = c] /\ UNCHANGED <<scanTimers, fillTimers>>
    BY DEF StepsTo, CodecActs, CodecHears
  <1>3. codec' \in [AV -> Codec]
    BY <1>1, <1>2 DEF CoreTypeOK
  <1>4. mainQ' \in Seq(Message) /\ videoQ' \in Seq(Message)
    <2>1. CASE CodecActs(t, c, notes)
      BY <1>1, <2>1, ConcatProperties DEF CodecActs, CoreTypeOK
    <2>2. CASE CodecQueue(t) # <<>> /\ CodecHears(t, c, notes)
      BY <1>1, <2>2, CodecTakesType DEF CodecHears
    <2> QED BY <2>1, <2>2 DEF StepsTo
  <1> QED BY <1>2, <1>3, <1>4, CodecStepType

(* What a codec notifies its Decoder of is a message.                        *)
LEMMA NotifyType ==
    ASSUME NEW t \in AV
    PROVE  /\ \A what \in Plain : <<Notify(t, what, "-")>> \in Seq(Message)
           /\ \A res \in {"eos", "err"} : <<Notify(t, "EOS", res)>> \in Seq(Message)
           /\ \A c : Ask(t, c) \in Seq(Message)
  <1>1. \A what \in Plain : <<Notify(t, what, "-")>> \in Seq(Message)
    BY MsgType, OneMessage DEF Notify, Plain, Handlers, Args
  <1>2. \A res \in {"eos", "err"} : <<Notify(t, "EOS", res)>> \in Seq(Message)
    BY MsgType, OneMessage DEF Notify, Handlers, Whats, Args
  <1>3. <<Notify(t, "FillThisBuffer", "-")>> \in Seq(Message)
    BY <1>1 DEF Plain, Whats
  <1>4. \A c : Ask(t, c) \in Seq(Message)
    BY <1>3, NotesType DEF Ask
  <1> QED BY <1>1, <1>2, <1>4

(* What the codecs report.                                                   *)
LEMMA ReportTypes ==
    ASSUME NEW t \in AV
    PROVE  /\ <<Notify(t, "Error", "-")>> \in Seq(Message)
           /\ <<Notify(t, "FlushCompleted", "-")>> \in Seq(Message)
           /\ <<Notify(t, "ShutdownCompleted", "-")>> \in Seq(Message)
           /\ <<Notify(t, "DrainThisBuffer", "-")>> \in Seq(Message)
           /\ <<>> \in Seq(Message)
  BY NotifyType, NotesType DEF Plain, Whats

(* The operators on a codec keep its type.                                   *)
LEMMA CodecTypes ==
    /\ NewCodec \in Codec
    /\ \A c \in Codec : Asked(c) \in Codec /\ Activated(c) \in Codec /\ TakeDeferred(c) \in Codec
    /\ \A c \in Codec : \A again \in BOOLEAN : Flushed(c, again) \in Codec
    /\ \A c \in Codec : \A kept \in BOOLEAN : Disabled(c, kept) \in Codec
    /\ \A c \in Codec : \A st \in States : [c EXCEPT !.st = st] \in Codec
    /\ \A c \in Codec : \A chg \in {"no", "flushing", "enabling"} : [c EXCEPT !.chg = chg] \in Codec
    /\ \A c \in Codec : \A own \in {"us", "down"} : [c EXCEPT !.out = own] \in Codec
    /\ \A c \in Codec : [c EXCEPT !.defer = TRUE] \in Codec /\ [c EXCEPT !.oeos = TRUE] \in Codec
  <1>1. NewCodec \in Codec
    BY DEF NewCodec, Codec, States
  <1>2. ASSUME NEW c \in Codec PROVE Asked(c) \in Codec
    BY DEF Codec, Asked
  <1>3. ASSUME NEW c \in Codec PROVE Activated(c) \in Codec
    BY <1>2 DEF Codec, States, Activated
  <1>4. ASSUME NEW c \in Codec PROVE TakeDeferred(c) \in Codec
    BY DEF Codec, States, TakeDeferred
  <1>5. ASSUME NEW c \in Codec, NEW again \in BOOLEAN PROVE Flushed(c, again) \in Codec
    <2> DEFINE rest == [c EXCEPT !.st = "stopped", !.ieos = FALSE, !.eos = "no", !.oeos = FALSE,
                                 !.chg = IF again THEN "flushing" ELSE "no"]
    <2>1. rest \in Codec
      BY DEF Codec, States
    <2> HIDE DEF rest
    <2>2. TakeDeferred(rest) \in Codec
      BY <1>4, <2>1
    <2> QED BY <2>2 DEF Flushed, rest
  <1>6. ASSUME NEW c \in Codec, NEW kept \in BOOLEAN PROVE Disabled(c, kept) \in Codec
    BY DEF Codec, Disabled
  <1>7. ASSUME NEW c \in Codec
        PROVE  /\ \A st \in States : [c EXCEPT !.st = st] \in Codec
               /\ \A chg \in {"no", "flushing", "enabling"} : [c EXCEPT !.chg = chg] \in Codec
               /\ \A own \in {"us", "down"} : [c EXCEPT !.out = own] \in Codec
               /\ [c EXCEPT !.defer = TRUE] \in Codec /\ [c EXCEPT !.oeos = TRUE] \in Codec
    BY DEF Codec
  <1> QED BY <1>1, <1>2, <1>3, <1>4, <1>5, <1>6, <1>7

(* The states and the stages of a change of the port, by name.                *)
LEMMA StateNames ==
    /\ {"starting", "running", "stopped", "waking", "flushing", "stopping"} \subseteq States
  BY DEF States

(* kWhatSetup keeps the types, also when it fails.                            *)
LEMMA CodecSetupType ==
    ASSUME TypeOK, NEW t \in AV, CodecSetup(t) \/ CodecSetupFails(t), Aside PROVE TypeOK'
  <1>1. [NewCodec EXCEPT !.st = "starting"] \in Codec /\ NewCodec \in Codec
    BY CodecTypes, StateNames
  <1>2. \/ StepsTo(t, [NewCodec EXCEPT !.st = "starting"], <<>>)
        \/ StepsTo(t, NewCodec, <<Notify(t, "Error", "-")>>)
    BY DEF CodecSetup, CodecSetupFails, CodecDue, StepsTo
  <1> QED BY <1>1, <1>2, ReportTypes, StepsToType

(* The component reaching Executing keeps the types.                         *)
LEMMA CodecStartedType ==
    ASSUME TypeOK, NEW t \in AV, CodecStarted(t), Aside PROVE TypeOK'
  <1>1. TakeDeferred(Activated(codec[t])) \in Codec
    BY TypeSplit, CodecTypes DEF CoreTypeOK
  <1>2. StepsTo(t, TakeDeferred(Activated(codec[t])), Ask(t, codec[t]))
    BY DEF CodecStarted, StepsTo
  <1> QED BY <1>1, <1>2, NotifyType, StepsToType

(* The codec's kWhatFlush keeps the types.                                   *)
LEMMA CodecFlushType ==
    ASSUME TypeOK, NEW t \in AV, CodecFlush(t), Aside PROVE TypeOK'
  <1>1. codec[t] \in Codec /\ [codec[t] EXCEPT !.st = "flushing"] \in Codec
    BY TypeSplit, CodecTypes, StateNames DEF CoreTypeOK
  <1>2. \/ StepsTo(t, [codec[t] EXCEPT !.st = "flushing"], <<>>)
        \/ StepsTo(t, codec[t], <<>>)
        \/ StepsTo(t, codec[t], <<Notify(t, "FlushCompleted", "-")>>)
    BY DEF CodecFlush, CodecDue, StepsTo
  <1> QED BY <1>1, <1>2, ReportTypes, StepsToType

(* The end of a codec's flush keeps the types.                               *)
LEMMA CodecFlushDoneType ==
    ASSUME TypeOK, NEW t \in AV, NEW again \in BOOLEAN, CodecFlushDone(t, again), Aside
    PROVE  TypeOK'
  <1>1. Flushed(codec[t], again) \in Codec
    BY TypeSplit, CodecTypes DEF CoreTypeOK
  <1>2. StepsTo(t, Flushed(codec[t], again), <<Notify(t, "FlushCompleted", "-")>>)
    BY DEF CodecFlushDone, StepsTo
  <1> QED BY <1>1, <1>2, ReportTypes, StepsToType

(* The codec's kWhatShutdown, and its end, keep the types.                    *)
LEMMA CodecShutdownType ==
    ASSUME TypeOK, NEW t \in AV, CodecShutdown(t) \/ CodecShutdownDone(t), Aside PROVE TypeOK'
  <1>1. /\ codec[t] \in Codec /\ [codec[t] EXCEPT !.st = "stopping"] \in Codec
        /\ [codec[t] EXCEPT !.defer = TRUE] \in Codec /\ NewCodec \in Codec
    BY TypeSplit, CodecTypes, StateNames DEF CoreTypeOK
  <1>2. \/ StepsTo(t, [codec[t] EXCEPT !.defer = TRUE], <<>>)
        \/ StepsTo(t, [codec[t] EXCEPT !.st = "stopping"], <<>>)
        \/ StepsTo(t, codec[t], <<Notify(t, "ShutdownCompleted", "-")>>)
        \/ StepsTo(t, NewCodec, <<Notify(t, "ShutdownCompleted", "-")>>)
    BY DEF CodecShutdown, CodecShutdownDone, CodecDue, StepsTo
  <1> QED BY <1>1, <1>2, ReportTypes, StepsToType

(* The codec's kWhatResume keeps the types.                                  *)
LEMMA CodecResumeType ==
    ASSUME TypeOK, NEW t \in AV, CodecResume(t), Aside PROVE TypeOK'
  <1>1. /\ codec[t] \in Codec /\ [codec[t] EXCEPT !.st = "waking"] \in Codec
        /\ Activated(codec[t]) \in Codec
    BY TypeSplit, CodecTypes, StateNames DEF CoreTypeOK
  <1>2. \/ StepsTo(t, Activated(codec[t]), Ask(t, codec[t]))
        \/ StepsTo(t, [codec[t] EXCEPT !.st = "waking"], <<>>)
        \/ StepsTo(t, codec[t], <<>>)
    BY DEF CodecResume, CodecDue, StepsTo
  <1> QED BY <1>1, <1>2, ReportTypes, NotifyType, StepsToType

(* kWhatInputBufferFilled keeps the types: its result is one the codec knows.  *)
LEMMA CodecInputFilledType ==
    ASSUME TypeOK, NEW t \in AV, CodecInputFilled(t), Aside PROVE TypeOK'
  <1> DEFINE c == codec[t]
             res == Head(CodecQueue(t)).arg
             ends == res # "ok" /\ ~c.ieos /\ c.st # "idle"
             next == [c EXCEPT !.in = "us", !.ieos = @ \/ ends, !.eos = IF ends THEN res ELSE @]
  <1>1. CodecQueue(t) # <<>> /\ Head(CodecQueue(t)).what = "InputBufferFilled"
    BY DEF CodecInputFilled, CodecDue
  <1>2. res \in {"ok", "eos", "err"}
    <2>1. Head(CodecQueue(t)) \in Message
      BY <1>1, TypeSplit, HeadTailProperties DEF CodecQueue, CoreTypeOK
    <2> QED BY <1>1, <2>1 DEF Message
  <1>3. c \in Codec
    BY TypeSplit DEF CoreTypeOK
  <1>4. StepsTo(t, next, <<>>)
    BY <1>1 DEF CodecInputFilled, StepsTo
  <1>5. ends => res \in {"eos", "err"}
    BY <1>2
  <1> HIDE DEF res
  <1>6. ends \in BOOLEAN
    OBVIOUS
  <1> HIDE DEF ends
  <1>7. (IF ends THEN res ELSE c.eos) \in {"no", "eos", "err"}
    BY <1>3, <1>5 DEF Codec
  <1>8. next \in Codec
    BY <1>3, <1>6, <1>7 DEF Codec
  <1> HIDE DEF next
  <1> QED BY <1>4, <1>8, ReportTypes, StepsToType

(* kWhatOutputBufferDrained keeps the types, also when it fails.              *)
LEMMA CodecOutputDrainedType ==
    ASSUME TypeOK, NEW t \in AV, CodecOutputDrained(t) \/ CodecOutputDrainedFails(t), Aside
    PROVE  TypeOK'
  <1>1. [codec[t] EXCEPT !.out = "us"] \in Codec
    BY TypeSplit, CodecTypes DEF CoreTypeOK
  <1>2. \/ StepsTo(t, [codec[t] EXCEPT !.out = "us"], <<>>)
        \/ StepsTo(t, [codec[t] EXCEPT !.out = "us"], <<Notify(t, "Error", "-")>>)
    BY DEF CodecOutputDrained, CodecOutputDrainedFails, CodecDue, StepsTo
  <1> QED BY <1>1, <1>2, ReportTypes, StepsToType

(* EMPTY_BUFFER_DONE and FILL_BUFFER_DONE keep the types.                    *)
LEMMA CodecWorksType ==
    ASSUME TypeOK, NEW t \in AV, CodecAsks(t) \/ CodecDrains(t) \/ CodecDecodes(t) \/ CodecEnds(t),
           Aside
    PROVE  TypeOK'
  <1> DEFINE c == codec[t]
             drained == [c EXCEPT !.out = "down"]
  <1>1. /\ c \in Codec /\ Asked(c) \in Codec /\ drained \in Codec /\ Asked(drained) \in Codec
        /\ [c EXCEPT !.oeos = TRUE] \in Codec
    <2>1. c \in Codec /\ drained \in Codec
      BY TypeSplit, CodecTypes DEF CoreTypeOK
    <2> HIDE DEF drained, c
    <2> QED BY <2>1, CodecTypes
  <1>2. <<Notify(t, "DrainThisBuffer", "-")>> \o Ask(t, c) \in Seq(Message)
    BY ReportTypes, NotifyType, ConcatProperties
  <1>3. c.eos # "no" => <<Notify(t, "EOS", c.eos)>> \in Seq(Message)
    BY <1>1, NotifyType DEF Codec
  <1>4. \/ StepsTo(t, Asked(c), Ask(t, c))
        \/ StepsTo(t, drained, <<Notify(t, "DrainThisBuffer", "-")>>)
        \/ StepsTo(t, Asked(drained), <<Notify(t, "DrainThisBuffer", "-")>> \o Ask(t, c))
        \/ c.eos # "no" /\ StepsTo(t, [c EXCEPT !.oeos = TRUE], <<Notify(t, "EOS", c.eos)>>)
    BY DEF CodecAsks, CodecDrains, CodecDecodes, CodecEnds, StepsTo
  <1> HIDE DEF drained, c
  <1> QED BY <1>1, <1>2, <1>3, <1>4, ReportTypes, NotifyType, StepsToType

(* A change of the output port keeps the types at each of its stages.         *)
LEMMA CodecPortType ==
    ASSUME TypeOK, NEW t \in AV,
           \/ CodecPortChanges(t) \/ CodecPortFlushed(t) \/ CodecPortFails(t) \/ CodecError(t)
           \/ \E again \in BOOLEAN : CodecPortDone(t, again),
           Aside
    PROVE  TypeOK'
  <1>0. codec[t] \in Codec
    BY TypeSplit DEF CoreTypeOK
  <1>1. ASSUME CodecPortChanges(t) PROVE TypeOK'
    <2>1. [codec[t] EXCEPT !.chg = "flushing"] \in Codec
      BY <1>0, CodecTypes
    <2>2. StepsTo(t, [codec[t] EXCEPT !.chg = "flushing"], <<>>)
      BY <1>1 DEF CodecPortChanges, StepsTo
    <2> QED BY <2>1, <2>2, ReportTypes, StepsToType
  <1>2. ASSUME CodecPortFlushed(t) PROVE TypeOK'
    <2>1. PICK kept \in BOOLEAN : StepsTo(t, Disabled(codec[t], kept), <<>>)
      BY <1>2 DEF CodecPortFlushed, StepsTo
    <2>2. Disabled(codec[t], kept) \in Codec
      BY <1>0, CodecTypes
    <2> QED BY <2>1, <2>2, ReportTypes, StepsToType
  <1>3. ASSUME CodecPortFails(t) PROVE TypeOK'
    <2> DEFINE next == [NewCodec EXCEPT !.in = codec[t].in, !.out = codec[t].out]
               notes == <<Notify(t, "Error", "-"), Notify(t, "ShutdownCompleted", "-")>>
    <2>1. next \in Codec
      BY <1>0 DEF NewCodec, Codec, States
    <2>2. notes = <<Notify(t, "Error", "-")>> \o <<Notify(t, "ShutdownCompleted", "-")>>
      OBVIOUS
    <2>3. StepsTo(t, next, notes)
      BY <1>3 DEF CodecPortFails, StepsTo
    <2> HIDE DEF next, notes
    <2>4. notes \in Seq(Message)
      BY <2>2, ReportTypes, ConcatProperties
    <2> QED BY <2>1, <2>3, <2>4, StepsToType
  <1>4. ASSUME CodecError(t) PROVE TypeOK'
    <2>1. StepsTo(t, codec[t], <<Notify(t, "Error", "-")>>)
      BY <1>4 DEF CodecError, StepsTo
    <2> QED BY <1>0, <2>1, ReportTypes, StepsToType
  <1>5. ASSUME NEW again \in BOOLEAN, CodecPortDone(t, again) PROVE TypeOK'
    <2> DEFINE next == [codec[t] EXCEPT !.chg = IF again THEN "flushing" ELSE "no"]
    <2>1. next \in Codec
      BY <1>0, CodecTypes
    <2>2. \/ StepsTo(t, Activated(next), Ask(t, codec[t]))
          \/ StepsTo(t, [next EXCEPT !.st = "stopped"], <<>>)
          \/ StepsTo(t, Asked(next), Ask(t, codec[t]))
          \/ StepsTo(t, next, <<>>)
      BY <1>5 DEF CodecPortDone, StepsTo
    <2> HIDE DEF next
    <2>3. Activated(next) \in Codec /\ [next EXCEPT !.st = "stopped"] \in Codec /\ Asked(next) \in Codec
      BY <2>1, CodecTypes, StateNames
    <2> QED BY <2>1, <2>2, <2>3, ReportTypes, NotifyType, StepsToType
  <1> QED BY <1>1, <1>2, <1>3, <1>4, <1>5

-----------------------------------------------------------------------------
(* A delayed scan falling due keeps the types: no timer is counted below     *)
(* zero.                                                                     *)
LEMMA ScanTimerType ==
    ASSUME TypeOK, NEW g \in {"cur", "old"}, ScanTimerFires(g), TimersAlone PROVE TypeOK'
  <1>1. Msg("player", "ScanSources", "-", g) \in Message
    BY MsgType DEF Handlers, Whats, Args
  <1>2. mainQ' \in Seq(Message)
    BY <1>1, TypeSplit, AppendProperties DEF ScanTimerFires, CoreTypeOK
  <1>3. scanTimers' \in [{"cur", "old"} -> Nat]
    BY TypeSplit DEF ScanTimerFires, CoreTypeOK
  <1> QED BY <1>2, <1>3, TypeSplit, TypeSplitPrime
          DEF ScanTimerFires, TimersAlone, Alone, CoreTypeOK, SideTypeOK, playerVars, resetVars,
              modeVars, envVars

(* A retry falling due keeps the types.                                      *)
LEMMA FillTimerType ==
    ASSUME TypeOK, NEW t \in AV, FillTimerFires(t), TimersAlone PROVE TypeOK'
  <1>1. Msg("player", "FillThisBuffer", t, "-") \in Message
    BY MsgType DEF Handlers, Whats, Args
  <1>2. mainQ' \in Seq(Message)
    BY <1>1, TypeSplit, AppendProperties DEF FillTimerFires, CoreTypeOK
  <1> QED BY <1>2, TypeSplit, TypeSplitPrime
          DEF FillTimerFires, TimersAlone, Alone, CoreTypeOK, SideTypeOK, playerVars, resetVars,
              modeVars, envVars

(* Spending leaves the budget a budget.                                      *)
LEMMA SpendType ==
    ASSUME TypeOK, NEW what \in Spendable, Spend(what)
    PROVE  left' \in [Spendable -> Nat]
  BY TypeSplit DEF Spend, SideTypeOK

(* A call of the driver leaves a queue of messages.                          *)
LEMMA CallsType ==
    ASSUME TypeOK, NEW notes \in Seq(Message), Calls(notes), driver' \in Driver,
           left' \in [Spendable -> Nat]
    PROVE  TypeOK'
  <1>1. mainQ' \in Seq(Message)
    BY TypeSplit, ConcatProperties DEF Calls, CoreTypeOK
  <1> QED BY <1>1, TypeSplit, TypeSplitPrime
          DEF Calls, CoreTypeOK, SideTypeOK, playerVars, resetVars, modeVars

(* The driver's calls are messages.                                          *)
LEMMA CallType ==
    ASSUME NEW what \in Plain
    PROVE  Call(what) \in Seq(Message)
  <1>1. Msg("player", what, "-", "-") \in Message
    BY MsgType DEF Plain, Handlers, Args
  <1> QED BY <1>1, OneMessage DEF Call

(* The application's calls keep the types.                                   *)
LEMMA AppCallsType == ASSUME TypeOK, AppCalls PROVE TypeOK'
  <1>0. driver \in Driver /\ <<>> \in Seq(Message)
    BY TypeSplit, NotesType DEF CoreTypeOK
  <1>1. /\ Call("SetDataSource") \in Seq(Message) /\ Call("Start") \in Seq(Message)
        /\ Call("Seek") \in Seq(Message) /\ Call("Resume") \in Seq(Message)
        /\ Call("Pause") \in Seq(Message) /\ Call("Reset") \in Seq(Message)
    BY CallType DEF Plain, Whats
  <1>2. ASSUME NEW what \in Spendable, Spend(what),
               driver' \in Driver, \E notes \in Seq(Message) : Calls(notes)
        PROVE  TypeOK'
    BY <1>2, SpendType, CallsType
  <1>3. "open" \in Spendable /\ "start" \in Spendable /\ "pause" \in Spendable
          /\ "seek" \in Spendable /\ "reset" \in Spendable
    BY DEF Spendable
  <1>4. ASSUME AppSetDataSource PROVE TypeOK'
    <2>1. driver' \in Driver
      BY <1>0, <1>4 DEF AppSetDataSource, Driver
    <2> QED BY <1>1, <1>2, <1>3, <1>4, <2>1 DEF AppSetDataSource
  <1>5. ASSUME AppStart PROVE TypeOK'
    <2>1. driver' \in Driver
      BY <1>0, <1>5 DEF AppStart, Driver
    <2>2. /\ Call("Start") \o (IF driver.seek THEN Call("Seek") ELSE <<>>) \in Seq(Message)
          /\ (IF driver.atEOS THEN Call("Seek") ELSE <<>>) \o Call("Resume") \in Seq(Message)
      BY <1>0, <1>1, ConcatProperties
    <2>3. \E notes \in Seq(Message) : Calls(notes)
      BY <1>5, <2>2 DEF AppStart
    <2> QED BY <1>2, <1>3, <1>5, <2>1, <2>3 DEF AppStart
  <1>6. ASSUME AppPause PROVE TypeOK'
    <2>1. driver' \in Driver
      BY <1>0, <1>6 DEF AppPause, Driver
    <2> QED BY <1>1, <1>2, <1>3, <1>6, <2>1 DEF AppPause
  <1>7. ASSUME AppSeek PROVE TypeOK'
    <2>1. driver' \in Driver
      BY <1>0, <1>7 DEF AppSeek, Driver
    <2>2. \E notes \in Seq(Message) : Calls(notes)
      BY <1>0, <1>1, <1>7 DEF AppSeek
    <2> QED BY <1>2, <1>3, <1>7, <2>1, <2>2 DEF AppSeek
  <1>8. ASSUME AppReset PROVE TypeOK'
    <2>1. driver' \in Driver
      BY <1>0, <1>8 DEF AppReset, Driver
    <2> QED BY <1>1, <1>2, <1>3, <1>8, <2>1 DEF AppReset
  <1> QED BY <1>4, <1>5, <1>6, <1>7, <1>8 DEF AppCalls

(* reset() returning keeps the types.                                        *)
LEMMA ResetReturnsType == ASSUME TypeOK, ResetReturns PROVE TypeOK'
  <1>1. driver' \in Driver
    BY TypeSplit DEF ResetReturns, CoreTypeOK, Driver
  <1> QED BY <1>1, TypeSplit, TypeSplitPrime
          DEF ResetReturns, CoreTypeOK, SideTypeOK, looperVars, playerVars, resetVars, modeVars, envVars

(* The source queueing a discontinuity keeps the types.                      *)
LEMMA SourceDiscontinuityType == ASSUME TypeOK, SourceDiscontinuity PROVE TypeOK'
  <1>1. left' \in [Spendable -> Nat]
    BY SpendType DEF SourceDiscontinuity, Spendable
  <1>2. PICK d \in DiscTypes : disc' = [t \in AV |-> Append(disc[t], d)]
    BY DEF SourceDiscontinuity
  <1>3. disc' \in [AV -> Seq(Discontinuity)]
    BY <1>2, ConstantsAssumption, TypeSplit, AppendProperties DEF SideTypeOK
  <1> QED BY <1>1, <1>3, TypeSplit, TypeSplitPrime
          DEF SourceDiscontinuity, CoreTypeOK, SideTypeOK, looperVars, playerVars, resetVars, modeVars

-----------------------------------------------------------------------------
(* The initial state has its types.                                          *)
LEMMA InitType == Init => TypeOK
  <1> SUFFICES ASSUME Init PROVE TypeOK
    OBVIOUS
  <1>1. CoreTypeOK
    BY RendererTypes, CodecTypes, EmptySeq
       DEF Init, LoopersInit, CodecInit, RendererInit, CoreTypeOK, FlushStatus, Driver, Checks
  <1>2. SideTypeOK
    BY EmptySeq, ConstantsAssumption DEF Init, LoopersInit, SideTypeOK
  <1> QED BY <1>1, <1>2, TypeSplit

(* Stuttering keeps the types.                                               *)
LEMMA UnchangedType == ASSUME TypeOK, UNCHANGED vars PROVE TypeOK'
  BY TypeSplit, TypeSplitPrime
     DEF vars, CoreTypeOK, SideTypeOK, looperVars, playerVars, resetVars, modeVars, envVars

(* Every step keeps the types: one case per group of Next, one lemma per     *)
(* action.                                                                   *)
LEMMA NextType == ASSUME TypeOK, Next PROVE TypeOK'
  <1>1. CASE PlayerHandles
    BY <1>1, SetDataSourceType, StartType, PauseType, ResumeType, ResetType, SeekType, ScanType,
       ForwardsType, FillType, DrainType, DecoderEndType, FlushCompletedType,
       ShutdownCompletedType, RendererEOSType
       DEF PlayerHandles
  <1>2. CASE RendererHandles
    BY <1>2, RendererQueueBufferType, RendererQueueEOSType, RendererFlushType, RendererPauseType,
       RendererResumeType
       DEF RendererHandles
  <1>a. CodecAlone => Aside
    BY DEF Aside
  <1>b. Spends("port") \/ Spends("error") => Aside
    BY DEF Aside, Spendable
  <1>3. ASSUME NEW t \in AV, CodecHandles(t) PROVE TypeOK'
    BY <1>3, <1>a, CodecSetupType, CodecFlushType, CodecShutdownType, CodecResumeType,
       CodecInputFilledType, CodecOutputDrainedType
       DEF CodecHandles
  <1>4. ASSUME NEW t \in AV, ComponentAnswers(t) PROVE TypeOK'
    BY <1>4, <1>a, CodecStartedType, CodecFlushDoneType, CodecShutdownType, CodecPortType
       DEF ComponentAnswers
  <1>5. ASSUME NEW t \in AV, ComponentWorks(t) PROVE TypeOK'
    BY <1>5, <1>a, CodecWorksType, RendererDrainType DEF ComponentWorks
  <1>6. ASSUME NEW t \in AV, ComponentChanges(t) \/ ComponentFails(t) PROVE TypeOK'
    BY <1>6, <1>b, CodecSetupType, CodecFlushDoneType, CodecOutputDrainedType, CodecPortType
       DEF ComponentChanges, ComponentFails
  <1>7. CASE TimerFires
    BY <1>7, ScanTimerType, FillTimerType DEF TimerFires
  <1> QED BY <1>1, <1>2, <1>3, <1>4, <1>5, <1>6, <1>7, AppCallsType, ResetReturnsType,
             SourceDiscontinuityType
          DEF Next

(* Every variable keeps its type, whatever the tracks, the source and the      *)
(* application do: in particular no message carries a result its handler does *)
(* not know, and no timer is counted below zero.                             *)
THEOREM TypeCorrect == Spec => []TypeOK
  <1>1. TypeOK /\ [Next]_vars => TypeOK'
    BY NextType, UnchangedType
  <1> QED BY InitType, <1>1, PTL DEF Spec

-----------------------------------------------------------------------------
(* Nobody waits for a track without a decoder: WaitedForHasDecoder is         *)
(* inductive once the types are known.  Waits says it of any flush status.    *)
Pending(status) == IsFlushingState(status) \/ status = "AWAITING_DISCONTINUITY"

Waits(status, decs) ==
    (\E t \in AV : Pending(status[t]))
        => \A t \in AV : status[t] \notin {"FLUSHED", "SHUT_DOWN"} => t \in decs

(* WaitedForHasDecoder is Waits of the player's own flush status.            *)
LEMMA WaitsIs ==
    /\ WaitedForHasDecoder <=> Waits(flushing, decoders)
    /\ WaitedForHasDecoder' <=> Waits(flushing', decoders')
  BY DEF WaitedForHasDecoder, Flushing, Waits, Pending

(* A step that touches neither flush status nor decoders preserves it.       *)
LEMMA WaitsSame ==
    ASSUME WaitedForHasDecoder, UNCHANGED <<flushing, decoders>>
    PROVE  WaitedForHasDecoder'
  BY WaitsIs

(* So does a failed CHECK.                                                   *)
LEMMA WaitsAbort ==
    ASSUME WaitedForHasDecoder, NEW check, Abort(check)
    PROVE  WaitedForHasDecoder'
  BY WaitsSame DEF Abort, playerVars

(* flushDecoder marks the other track FLUSHED if it has no decoder, so what it *)
(* leaves to be waited for has one.                                         *)
LEMMA WaitsFlush ==
    ASSUME NEW status \in [AV -> FlushStatus], NEW decs, Waits(status, decs),
           NEW S \in SUBSET decs, NEW shutdown
    PROVE  Waits(StatusAfterFlush(S, shutdown, status, decs), decs)
  <1> DEFINE after == StatusAfterFlush(S, shutdown, status, decs)
  <1>1. SUFFICES ASSUME NEW u \in AV, after[u] \notin {"FLUSHED", "SHUT_DOWN"}, u \notin decs
                 PROVE  FALSE
    BY DEF Waits
  <1>2. u \notin S
    BY <1>1
  <1>3. status[u] # "NONE" /\ after[u] = status[u]
    BY <1>1, <1>2 DEF StatusAfterFlush
  <1>4. status[u] \in FlushStatus
    OBVIOUS
  <1>5. Pending(status[u])
    BY <1>1, <1>3, <1>4 DEF FlushStatus, Pending, IsFlushingState
  <1> QED BY <1>1, <1>3, <1>5 DEF Waits

(* One track moves on: it is done, or it was waited for and has its decoder.  *)
LEMMA WaitsUpdate ==
    ASSUME TypeOK, WaitedForHasDecoder, NEW t \in AV, NEW s, NEW decs,
           decoders \ {t} \subseteq decs,
           s \in {"FLUSHED", "SHUT_DOWN"} \/ (t \in decs /\ Pending(flushing[t]))
    PROVE  Waits([flushing EXCEPT ![t] = s], decs)
  <1> DEFINE status == [flushing EXCEPT ![t] = s]
  <1>0. flushing \in [AV -> FlushStatus]
    BY DEF TypeOK
  <1>1. SUFFICES ASSUME NEW v \in AV, Pending(status[v]),
                        NEW u \in AV, status[u] \notin {"FLUSHED", "SHUT_DOWN"}
                 PROVE  u \in decs
    BY DEF Waits
  <1>2. \E w \in AV : Pending(flushing[w])
    <2>1. CASE v = t
      <3>1. s \notin {"FLUSHED", "SHUT_DOWN"}
        BY <1>0, <1>1, <2>1 DEF Pending, IsFlushingState
      <3> QED BY <3>1
    <2>2. CASE v # t
      BY <1>0, <1>1, <2>2
    <2> QED BY <2>1, <2>2
  <1>3. \A w \in AV : flushing[w] \notin {"FLUSHED", "SHUT_DOWN"} => w \in decoders
    BY <1>2, WaitsIs DEF Waits
  <1>4. CASE u = t
    BY <1>0, <1>1, <1>4
  <1>5. CASE u # t
    BY <1>0, <1>1, <1>3, <1>5
  <1> QED BY <1>4, <1>5

(* Once every track is done nobody is waited for, and a postponed reset flushes *)
(* live decoders only.                                                      *)
LEMMA WaitsFinish ==
    ASSUME WaitedForHasDecoder, NEW status \in [AV -> FlushStatus], NEW decs,
           NEW q, NEW vq, Waits(status, decs), FinishFlushIfPossible(status, decs, q, vq)
    PROVE  WaitedForHasDecoder'
  <1> DEFINE again == FlushedForReset(status, decs)
             wrong == FailedFlushCheck(again, status, decs)
             some  == \E t \in AV : status[t] \notin {"FLUSHED", "SHUT_DOWN"}
  <1>1. CASE wrong # "none"
    BY <1>1, WaitsAbort DEF FinishFlushIfPossible
  <1>2. CASE wrong = "none" /\ again # {}
    <2>1. flushing' = StatusAfterFlush(again, TRUE, status, decs) /\ decoders' = decs
      BY <1>2 DEF FinishFlushIfPossible
    <2>2. again \in SUBSET decs
      BY DEF FlushedForReset
    <2> QED BY <2>1, <2>2, WaitsFlush, WaitsIs
  <1>3. CASE wrong = "none" /\ again = {} /\ some
    BY <1>3, WaitsIs DEF FinishFlushIfPossible
  <1>4. CASE wrong = "none" /\ again = {} /\ ~some
    <2>1. AllFlushed(q, vq, decs)
      BY <1>4 DEF FinishFlushIfPossible
    <2>2. CASE flushing' = [t \in AV |-> "NONE"]
      BY <2>2 DEF WaitedForHasDecoder, Flushing, IsFlushingState
    <2>3. CASE flushing' # [t \in AV |-> "NONE"]
      BY <2>1, <2>3, WaitsAbort DEF AllFlushed
    <2> QED BY <2>2, <2>3
  <1> QED BY <1>1, <1>2, <1>3, <1>4

(* A reset that finds no decoder finds nobody waited for, and one that       *)
(* finds some flushes those.                                                 *)
LEMMA WaitsReset ==
    ASSUME TypeOK, WaitedForHasDecoder, OnReset
    PROVE  WaitedForHasDecoder'
  <1> DEFINE live == AV \cap decoders
             wrong == FailedFlushCheck(live, flushing, decoders)
             busy == \E t \in live : IsFlushingState(flushing[t])
  <1>1. CASE busy
    BY <1>1, WaitsSame DEF OnReset
  <1>2. CASE ~busy /\ live = {}
    <2>1. ~\E t \in AV : Pending(flushing[t])
      <3>1. ASSUME NEW t \in AV, Pending(flushing[t]) PROVE FALSE
        <4>1. t \in decoders
          BY <3>1, WaitsIs DEF Waits, Pending, IsFlushingState
        <4> QED BY <1>2, <4>1
      <3> QED BY <3>1
    <2>2. CASE FailedResetCheck(decoders) # "none"
      BY <1>2, <2>2, WaitsAbort DEF OnReset
    <2>3. CASE FailedResetCheck(decoders) = "none"
      <3>1. UNCHANGED flushing
        BY <1>2, <2>3 DEF OnReset
      <3> QED BY <2>1, <3>1, WaitsIs DEF Waits
    <2> QED BY <2>2, <2>3
  <1>3. CASE ~busy /\ live # {} /\ wrong # "none"
    BY <1>3, WaitsAbort DEF OnReset
  <1>4. CASE ~busy /\ live # {} /\ wrong = "none"
    <2>1. flushing' = StatusAfterFlush(live, TRUE, flushing, decoders) /\ UNCHANGED decoders
      BY <1>4 DEF OnReset
    <2>2. flushing \in [AV -> FlushStatus] /\ live \in SUBSET decoders
      BY DEF TypeOK
    <2> QED BY <2>1, <2>2, WaitsFlush, WaitsIs
  <1> QED BY <1>1, <1>2, <1>3, <1>4

(* A seek that is granted declares the tracks without decoder SHUT_DOWN.      *)
LEMMA WaitsSeek ==
    ASSUME WaitedForHasDecoder, OnSeek
    PROVE  WaitedForHasDecoder'
  <1>1. PICK res \in SeekResults : SeekWith(res)
    BY DEF OnSeek
  <1>2. CASE UNCHANGED <<flushing, decoders>>
    BY <1>2, WaitsSame
  <1>3. CASE ~UNCHANGED <<flushing, decoders>>
    <2> DEFINE S == IF res = "ok" THEN {t \in AV \cap decoders : Flushable(flushing[t])} ELSE {}
               flushed == IF S = {} THEN flushing ELSE StatusAfterFlush(S, TRUE, flushing, decoders)
               wrong == IF ~source THEN "null source" ELSE IF ~renderer.on THEN "null renderer"
                        ELSE FailedFlushCheck(S, flushing, decoders)
    <2>1. wrong = "none"
      BY <1>1, <1>3 DEF SeekWith, Abort, playerVars
    <2>2. /\ flushing' = IF res = "ok"
                         THEN [t \in AV |-> IF t \in decoders THEN flushed[t] ELSE "SHUT_DOWN"]
                         ELSE flushing
          /\ UNCHANGED decoders
      BY <1>1, <2>1 DEF SeekWith
    <2> HIDE DEF flushed
    <2>3. \A t \in AV : flushing'[t] \notin {"FLUSHED", "SHUT_DOWN"} => t \in decoders'
      BY <1>3, <2>2
    <2> QED BY <2>3, WaitsIs DEF Waits
  <1> QED BY <1>2, <1>3

(* A track that gets a decoder gets the status NONE.                         *)
LEMMA WaitsScan ==
    ASSUME TypeOK, WaitedForHasDecoder, OnScanSources
    PROVE  WaitedForHasDecoder'
  <1>1. CASE UNCHANGED <<flushing, decoders>>
    BY <1>1, WaitsSame
  <1>2. CASE ~UNCHANGED <<flushing, decoders>>
    <2>1. PICK N \in SUBSET ((Outputs \cup IF HasText THEN {Text} ELSE {}) \ decoders),
               res \in FeedResults : ScanWith(N, res)
      BY <1>2 DEF OnScanSources, Abort, playerVars
    <2>2. /\ flushing' = [t \in AV |-> IF t \in N THEN "NONE" ELSE flushing[t]]
          /\ decoders' = decoders \cup N
      BY <1>2, <2>1 DEF ScanWith, Abort, playerVars
    <2>3. ASSUME NEW v \in AV, Pending(flushing'[v]),
                 NEW u \in AV, flushing'[u] \notin {"FLUSHED", "SHUT_DOWN"}
          PROVE  u \in decoders'
      <3>1. Pending(flushing[v])
        BY <2>2, <2>3 DEF Pending, IsFlushingState
      <3>2. CASE u \in N
        BY <2>2, <3>2
      <3>3. CASE u \notin N
        BY <2>2, <2>3, <3>1, <3>3, WaitsIs DEF Waits
      <3> QED BY <3>2, <3>3
    <2> QED BY <2>3, WaitsIs DEF Waits
  <1> QED BY <1>1, <1>2

(* A discontinuity flushes a track that has a decoder, or marks it FLUSHED.  *)
LEMMA WaitsFill ==
    ASSUME TypeOK, WaitedForHasDecoder, NEW t \in AV, OnFillThisBuffer(t)
    PROVE  WaitedForHasDecoder'
  <1> DEFINE d == Head(disc[t])
  <1>0. flushing \in [AV -> FlushStatus]
    BY DEF TypeOK
  <1>1. CASE UNCHANGED <<flushing, decoders>>
    BY <1>1, WaitsSame
  <1>2. CASE FeedChange(t, d) /\ ~UNCHANGED <<flushing, decoders>>
    <2>1. FailedFlushCheck({t}, flushing, decoders) = "none"
      BY <1>2 DEF FeedChange, Abort, playerVars
    <2>2. /\ flushing' = StatusAfterFlush({t}, t \in d.format, flushing, decoders)
          /\ UNCHANGED decoders
      BY <1>2, <2>1 DEF FeedChange
    <2>3. {t} \in SUBSET decoders
      BY <2>1 DEF FailedFlushCheck
    <2> QED BY <1>0, <2>2, <2>3, WaitsFlush, WaitsIs
  <1>3. CASE FeedUnaffected(t)
    <2>1. Waits([flushing EXCEPT ![t] = "FLUSHED"], decoders)
      BY WaitsUpdate
    <2>2. [flushing EXCEPT ![t] = "FLUSHED"] \in [AV -> FlushStatus]
      BY <1>0 DEF FlushStatus
    <2> QED BY <1>3, <2>1, <2>2, WaitsFinish DEF FeedUnaffected
  <1> QED BY <1>1, <1>2, <1>3
          DEF OnFillThisBuffer, FeedDiscontinuity, Reply, Abort, playerVars

(* A track that goes on to its shutdown still has its decoder.               *)
LEMMA WaitsFlushCompleted ==
    ASSUME TypeOK, WaitedForHasDecoder, NEW t \in AV, OnFlushCompleted(t)
    PROVE  WaitedForHasDecoder'
  <1> DEFINE stop == ToCodec(t, "Shutdown")
  <1>0. flushing \in [AV -> FlushStatus]
    BY DEF TypeOK
  <1>1. CASE UNCHANGED <<flushing, decoders>>
    BY <1>1, WaitsSame
  <1>2. CASE FinishFlushIfPossible([flushing EXCEPT ![t] = "SHUTTING_DOWN_DECODER"], decoders,
                 Tail(mainQ) \o MainPart(t, stop), videoQ \o VideoPart(t, stop))
             /\ IsFlushingState(flushing[t]) /\ t \in decoders
    <2>1. Waits([flushing EXCEPT ![t] = "SHUTTING_DOWN_DECODER"], decoders)
      BY <1>2, WaitsUpdate DEF Pending
    <2>2. [flushing EXCEPT ![t] = "SHUTTING_DOWN_DECODER"] \in [AV -> FlushStatus]
      BY <1>0 DEF FlushStatus
    <2> QED BY <1>2, <2>1, <2>2, WaitsFinish
  <1>3. CASE FinishFlushIfPossible([flushing EXCEPT ![t] = "FLUSHED"], decoders, Tail(mainQ), videoQ)
    <2>1. Waits([flushing EXCEPT ![t] = "FLUSHED"], decoders)
      BY WaitsUpdate
    <2>2. [flushing EXCEPT ![t] = "FLUSHED"] \in [AV -> FlushStatus]
      BY <1>0 DEF FlushStatus
    <2> QED BY <1>3, <2>1, <2>2, WaitsFinish
  <1> QED BY <1>1, <1>2, <1>3 DEF OnFlushCompleted, Abort, playerVars

(* A track that loses its decoder is SHUT_DOWN in the same step.             *)
LEMMA WaitsShutdownCompleted ==
    ASSUME TypeOK, WaitedForHasDecoder, NEW t \in AV, OnShutdownCompleted(t)
    PROVE  WaitedForHasDecoder'
  <1>0. flushing \in [AV -> FlushStatus]
    BY DEF TypeOK
  <1>1. CASE UNCHANGED <<flushing, decoders>>
    BY <1>1, WaitsSame
  <1>2. CASE FinishFlushIfPossible([flushing EXCEPT ![t] = "SHUT_DOWN"], decoders \ {t},
                 Tail(mainQ), videoQ)
    <2>1. Waits([flushing EXCEPT ![t] = "SHUT_DOWN"], decoders \ {t})
      BY WaitsUpdate
    <2>2. [flushing EXCEPT ![t] = "SHUT_DOWN"] \in [AV -> FlushStatus]
      BY <1>0 DEF FlushStatus
    <2> QED BY <1>2, <2>1, <2>2, WaitsFinish
  <1> QED BY <1>1, <1>2 DEF OnShutdownCompleted, Abort, playerVars

(* The handlers of the player that touch neither flush status nor decoders.    *)
LEMMA WaitsOthers ==
    ASSUME WaitedForHasDecoder,
           \/ OnSetDataSource \/ OnStart \/ OnPause \/ OnResume \/ DecoderForwards \/ OnRendererEOS
           \/ \E t \in AV : OnDrainThisBuffer(t) \/ OnDecoderEnd(t)
    PROVE  WaitedForHasDecoder'
  <1>1. UNCHANGED <<flushing, decoders>>
    BY DEF OnSetDataSource, OnStart, OnPause, OnResume, DecoderForwards, OnRendererEOS,
           OnDrainThisBuffer, OnDecoderEnd, Reply, Abort, playerVars
  <1> QED BY <1>1, WaitsSame

(* No handler of the player breaks it.                                       *)
LEMMA WaitsPlayer ==
    ASSUME TypeOK, WaitedForHasDecoder, PlayerHandles
    PROVE  WaitedForHasDecoder'
  BY WaitsReset, WaitsSeek, WaitsScan, WaitsFill, WaitsFlushCompleted, WaitsShutdownCompleted,
     WaitsOthers
     DEF PlayerHandles

(* Steps of the others leave the player's variables alone.                    *)
LEMMA WaitsElsewhere ==
    ASSUME WaitedForHasDecoder,
           \/ RendererHandles \/ TimerFires \/ AppCalls \/ ResetReturns \/ SourceDiscontinuity
           \/ \E t \in AV : \/ CodecHandles(t) \/ ComponentAnswers(t)
                           \/ ComponentWorks(t) \/ ComponentChanges(t) \/ ComponentFails(t)
    PROVE  WaitedForHasDecoder'
  <1>1. CASE RendererHandles
    BY <1>1, WaitsSame DEF RendererHandles, RendererAlone, RendererPause, Alone, Abort, playerVars
  <1>2. CASE TimerFires
    BY <1>2, WaitsSame DEF TimerFires, TimersAlone, Alone, playerVars
  <1>3. CASE AppCalls
    BY <1>3, WaitsSame
       DEF AppCalls, AppSetDataSource, AppStart, AppPause, AppSeek, AppReset, Calls, playerVars
  <1>4. CASE ResetReturns \/ SourceDiscontinuity
    BY <1>4, WaitsSame DEF ResetReturns, SourceDiscontinuity, playerVars
  <1>5. ASSUME NEW t \in AV,
               \/ CodecHandles(t) \/ ComponentAnswers(t) \/ ComponentWorks(t)
               \/ ComponentChanges(t) \/ ComponentFails(t)
        PROVE  WaitedForHasDecoder'
    BY <1>5, WaitsSame
       DEF CodecHandles, ComponentAnswers, ComponentWorks, ComponentChanges, ComponentFails, Spends,
           CodecAlone, RendererAlone, Alone, playerVars
  <1> QED BY <1>1, <1>2, <1>3, <1>4, <1>5

(* At first nobody waits.                                                    *)
LEMMA WaitsInit == Init => WaitedForHasDecoder
  BY DEF Init, WaitedForHasDecoder, Flushing, IsFlushingState

(* No step breaks it.                                                        *)
LEMMA WaitsNext == ASSUME TypeOK, WaitedForHasDecoder, [Next]_vars PROVE WaitedForHasDecoder'
  <1>1. CASE UNCHANGED vars
    BY <1>1, WaitsSame DEF vars, playerVars
  <1>2. CASE Next
    BY <1>2, WaitsPlayer, WaitsElsewhere DEF Next
  <1> QED BY <1>1, <1>2

(* Every track that finishFlushIfPossible waits for has a decoder, whatever the *)
(* tracks, the source and the application do: flushDecoder, the seek and the   *)
(* shutdown handler never leave the player waiting for an answer that nobody   *)
(* can give.                                                                *)
THEOREM NobodyWaitsForNoDecoder == Spec => []WaitedForHasDecoder
  <1>1. TypeOK /\ WaitedForHasDecoder /\ [Next]_vars => WaitedForHasDecoder'
    BY WaitsNext
  <1> QED BY WaitsInit, <1>1, TypeCorrect, PTL DEF Spec

=============================================================================
