------------------------------ MODULE DashPlayer ------------------------------
(***************************************************************************)
(* DashPlayer (DashPlayer.cpp): the handler that scans the source for       *)
(* tracks, creates and destroys their decoders, moves access units to them  *)
(* and decoded buffers to the renderer, and runs the flush protocol behind   *)
(* seek, reset and stream discontinuities.  It is composed here with the    *)
(* contract of its DashCodecs, that of its Renderer, and the calls of        *)
(* DashPlayerDriver, each of which is one step.                             *)
(*                                                                         *)
(* A CHECK of the code that fails, or a call through a null sp<>, ends the   *)
(* process: `failed` names it and nothing happens afterwards.               *)
(***************************************************************************)
EXTENDS DashCodecContract, DashRendererContract

CONSTANTS
    Outputs,      \* the tracks with an output: mNativeWindow, mAudioSink not NULL
    HasText,      \* the stream has a text track
    FeedResults,  \* what Source::feedMoreTSData may return
    DataResults,  \* what Source::dequeueAccessUnit may return, discontinuities apart
    SeekResults,  \* what Source::seekTo may return
    DiscTypes,    \* the discontinuities the source may queue
    Coupled,      \* a bound: an output and the next request come together
    Budgets       \* how often each call of the application and each event of the source happens

Results == {"ok", "eos", "err"}

Spendable == {"open", "start", "pause", "seek", "reset", "disc", "error", "port"}

Discontinuity == [format : SUBSET AV, time : BOOLEAN]

ASSUME ConstantsAssumption ==
    /\ Outputs \subseteq AV
    /\ HasText \in BOOLEAN
    /\ FeedResults \subseteq Results
    /\ DataResults \subseteq {"wouldblock", "ok", "eos"}
    /\ SeekResults \subseteq {"ok", "err"}
    /\ DiscTypes \subseteq Discontinuity
    /\ Coupled \in BOOLEAN
    /\ Budgets \subseteq [Spendable -> Nat]

FlushStatus == {"NONE", "AWAITING_DISCONTINUITY", "FLUSHING_DECODER",
                "FLUSHING_DECODER_SHUTDOWN", "SHUTTING_DOWN_DECODER", "FLUSHED", "SHUT_DOWN"}

Checks == {"none", "setDataSource: mSource", "null source", "null renderer", "null decoder",
           "flushDecoder: flush status", "Renderer::flush: flushing",
           "signalTimeDiscontinuity: queues", "FlushCompleted: not flushing",
           "ShutdownCompleted: not shutting down", "finishReset: decoders",
           "notifyResetComplete: no reset", "Renderer::onPause: paused"}

Driver == [state : {"UNINITIALIZED", "STOPPED", "PLAYING", "PAUSED"},
           atEOS : BOOLEAN,
           seek  : BOOLEAN,                         \* mStartupSeekTimeUs > 0
           reset : {"no", "waiting", "woken"}]      \* the thread inside reset()

VARIABLES
    source,           \* mSource # NULL
    decoders,         \* the tracks whose Decoder exists
    flushing,         \* mFlushingAudio, mFlushingVideo
    timePending,      \* mTimeDiscontinuityPending
    resetInProgress,  \* mResetInProgress
    resetPostponed,   \* mResetPostponed
    scanPending,      \* mScanSourcesPending
    pauseIndication,  \* mPauseIndication
    endOfStream,      \* mAudioEOS, mVideoEOS
    driver,           \* DashPlayerDriver
    disc,             \* discontinuities the source has queued on each track
    left,             \* what is left of the budget
    failed            \* the CHECK that failed, or "none"

resetVars == <<resetInProgress, resetPostponed>>
modeVars  == <<pauseIndication, endOfStream>>
envVars   == <<disc, left>>
playerVars == <<source, decoders, flushing, timePending, resetVars, scanPending, modeVars>>
vars == <<looperVars, codec, renderer, playerVars, driver, envVars, failed>>

TypeOK ==
    /\ LoopersTypeOK /\ CodecTypeOK /\ RendererTypeOK
    /\ source \in BOOLEAN
    /\ decoders \subseteq AV \cup {Text}
    /\ flushing \in [AV -> FlushStatus]
    /\ timePending \in BOOLEAN
    /\ resetInProgress \in BOOLEAN /\ resetPostponed \in BOOLEAN
    /\ scanPending \in BOOLEAN /\ pauseIndication \in BOOLEAN
    /\ endOfStream \in [AV -> BOOLEAN]
    /\ driver \in Driver
    /\ disc \in [AV -> Seq(Discontinuity)]
    /\ left \in [Spendable -> Nat]
    /\ failed \in Checks

Init ==
    /\ LoopersInit /\ CodecInit /\ RendererInit
    /\ source = FALSE
    /\ decoders = {}
    /\ flushing = [t \in AV |-> "NONE"]
    /\ timePending = FALSE
    /\ resetInProgress = FALSE /\ resetPostponed = FALSE
    /\ scanPending = FALSE /\ pauseIndication = FALSE
    /\ endOfStream = [t \in AV |-> FALSE]
    /\ driver = [state |-> "UNINITIALIZED", atEOS |-> FALSE, seek |-> FALSE, reset |-> "no"]
    /\ disc = [t \in AV |-> <<>>]
    /\ left \in Budgets
    /\ failed = "none"

-----------------------------------------------------------------------------
(*                              Helpers                                     *)

(* Every handler says what becomes of the retries and of the environment.     *)
sideVars == <<fillTimers, envVars>>

Abort(check) ==
    /\ failed' = check
    /\ UNCHANGED <<mainQ, videoQ, scanTimers, codec, renderer, playerVars, driver>>

PlayerDue(what) == failed = "none" /\ Due("player", what)

(* The player takes its next message and posts messages for its own looper.  *)
Posts(notes) == mainQ' = Tail(mainQ) \o notes

(* Mutant: a decoder that is shutting down does not count as being flushed.   *)
IsFlushingState_FlushOnly(status) ==
    status \in {"FLUSHING_DECODER", "FLUSHING_DECODER_SHUTDOWN"}

(* IsFlushingState.                                                         *)
IsFlushingState(status) ==
    status \in {"FLUSHING_DECODER", "FLUSHING_DECODER_SHUTDOWN", "SHUTTING_DOWN_DECODER"}

(* IsFlushingState's needShutdown.                                          *)
NeedShutdown(status) == status \in {"FLUSHING_DECODER_SHUTDOWN", "SHUTTING_DOWN_DECODER"}

Flushable(status) == status \in {"NONE", "AWAITING_DISCONTINUITY"}

ToCodec(t, what)    == Msg("codec", what, t, "-")
ToRenderer(what, t) == IF renderer.on THEN <<Msg("renderer", what, t, "-")>> ELSE <<>>
ScanNow             == <<Msg("player", "ScanSources", "-", "cur")>>

(* Mutant: the other track is waited for even if it has no decoder.           *)
StatusAfterFlush_Awaits(S, shutdown, status, decs) ==
    [t \in AV |->
        IF t \in S THEN IF shutdown THEN "FLUSHING_DECODER_SHUTDOWN" ELSE "FLUSHING_DECODER"
        ELSE IF status[t] = "NONE" THEN "AWAITING_DISCONTINUITY"
        ELSE status[t]]

(* flushDecoder for every track of S, in the order the code calls it: the    *)
(* status afterwards, what is posted, and the CHECKs on the way.             *)
StatusAfterFlush(S, shutdown, status, decs) ==
    [t \in AV |->
        IF t \in S THEN IF shutdown THEN "FLUSHING_DECODER_SHUTDOWN" ELSE "FLUSHING_DECODER"
        ELSE IF status[t] = "NONE" THEN IF t \in decs THEN "AWAITING_DISCONTINUITY" ELSE "FLUSHED"
        ELSE status[t]]

FlushPosts(S, t) ==
    IF t \in S THEN MainPart(t, ToCodec(t, "Flush")) \o ToRenderer("Flush", t) ELSE <<>>

VideoFlushPosts(S) == IF Video \in S THEN <<ToCodec(Video, "Flush")>> ELSE <<>>

FailedFlushCheck(S, status, decs) ==
    IF ~(S \subseteq decs) THEN "null decoder"
    ELSE IF renderer.on /\ S \cap renderer.flushing # {} THEN "Renderer::flush: flushing"
    ELSE IF \E t \in S : ~Flushable(status[t]) THEN "flushDecoder: flush status"
    ELSE "none"

RaiseFlush(S) == [renderer EXCEPT !.flushing = IF renderer.on THEN @ \cup S ELSE @]

(* Mutant: a delayed scan keeps a valid generation.                           *)
DropScans_KeepTimers ==
    /\ UNCHANGED scanTimers
    /\ scanPending' = FALSE

(* ++mScanSourcesGeneration, mScanSourcesPending = false.                    *)
DropScans ==
    /\ scanTimers' = ObsoleteTimers(scanTimers)
    /\ scanPending' = FALSE

(* DashPlayerDriver::notifyListener for MEDIA_PLAYBACK_COMPLETE, which also   *)
(* pauses, and for MEDIA_ERROR.                                             *)
DriverAfter(event) ==
    CASE event = "complete" ->
            [driver EXCEPT !.atEOS = TRUE, !.state = IF @ = "PLAYING" THEN "PAUSED" ELSE @]
      [] event = "error" -> [driver EXCEPT !.atEOS = TRUE]
      [] OTHER -> driver

PausePosts(event) ==
    IF event = "complete" /\ driver.state = "PLAYING"
    THEN <<Msg("player", "Pause", "-", "-")>> ELSE <<>>

-----------------------------------------------------------------------------
(*                    finishReset and finishFlushIfPossible                 *)

(* finishReset.  q and vq are the looper queues so far.                      *)
FailedResetCheck(decs) ==
    IF decs \cap AV # {} THEN "finishReset: decoders"
    ELSE IF driver.reset # "waiting" THEN "notifyResetComplete: no reset"
    ELSE "none"

FinishReset(q, vq) ==
    /\ mainQ' = Obsolete(q)
    /\ videoQ' = vq
    /\ DropScans
    /\ renderer' = NoRenderer
    /\ source' = FALSE
    /\ decoders' = {}
    /\ driver' = [driver EXCEPT !.reset = "woken"]
    /\ UNCHANGED <<codec, modeVars, failed>>

(* A decoder was shut down: scan for its successor, unless a reset follows.    *)
ScanAfterFlush(decs) == ~resetPostponed /\ ~(AV \subseteq decs)

(* Mutant: the postponed reset is not posted again.                           *)
PostedAfterFlush_NoReset(decs) ==
    IF ScanAfterFlush(decs) /\ ~scanPending THEN ScanNow ELSE <<>>

PostedAfterFlush(decs) ==
    IF resetPostponed THEN <<Msg("player", "Reset", "-", "-")>>
    ELSE IF ScanAfterFlush(decs) /\ ~scanPending THEN ScanNow ELSE <<>>

(* Mutant: only the video decoder resumes.                                   *)
Survivors_VideoOnly(decs) == decs \cap {Video}

(* The decoders that were flushed without being shut down.                   *)
Survivors(decs) == decs \cap AV

(* What follows once every track is FLUSHED or SHUT_DOWN: the renderer is     *)
(* told, the surviving codecs resume, and then one of: the reset is done, the *)
(* postponed reset is posted again, the sources are scanned again.            *)
AllFlushed(q, vq, decs) ==
    LET rq == IF Audio \in Survivors(decs) THEN Append(q, ToCodec(Audio, "Resume")) ELSE q
        rv == IF Video \in Survivors(decs) THEN Append(vq, ToCodec(Video, "Resume")) ELSE vq
        rescan == ScanAfterFlush(decs)
    IN  IF renderer.on /\ timePending /\ ~QueuesEmpty
        THEN Abort("signalTimeDiscontinuity: queues")
        ELSE IF resetInProgress /\ FailedResetCheck(decs) # "none"
        THEN Abort(FailedResetCheck(decs))
        ELSE /\ flushing' = [t \in AV |-> "NONE"]
             /\ timePending' = (timePending /\ ~renderer.on)
             /\ resetInProgress' = FALSE
             /\ IF resetInProgress
                THEN FinishReset(rq, rv) /\ UNCHANGED resetPostponed
                ELSE /\ mainQ' = rq \o PostedAfterFlush(decs)
                     /\ videoQ' = rv
                     /\ resetPostponed' = FALSE
                     /\ decoders' = IF rescan THEN decs \ {Text} ELSE decs
                     /\ scanPending' = (scanPending \/ rescan)
                     /\ UNCHANGED <<scanTimers, codec, renderer, source, modeVars, driver, failed>>

(* Mutant: a track that still waits for its discontinuity is not flushed.      *)
FlushedForReset_None(status, decs) == {}

(* The decoders a postponed reset does not wait for any longer.              *)
FlushedForReset(status, decs) ==
    IF resetPostponed THEN {t \in AV \cap decs : Flushable(status[t])} ELSE {}

(* finishFlushIfPossible, after the handler has set the flush status to       *)
(* `status` and the decoders to decs, with the looper queues q and vq and     *)
(* mTimeDiscontinuityPending as it stands.                                    *)
FinishFlushIfPossible(status, decs, q, vq) ==
    LET again == FlushedForReset(status, decs)
        wrong == FailedFlushCheck(again, status, decs)
    IN  IF wrong # "none" THEN Abort(wrong)
        ELSE IF again # {}
        THEN /\ mainQ' = Obsolete(q) \o FlushPosts(again, Audio) \o FlushPosts(again, Video)
             /\ videoQ' = vq \o VideoFlushPosts(again)
             /\ DropScans
             /\ flushing' = StatusAfterFlush(again, TRUE, status, decs)
             /\ renderer' = RaiseFlush(again)
             /\ decoders' = decs
             /\ UNCHANGED <<codec, source, timePending, resetVars, modeVars, driver, failed>>
        ELSE IF \E t \in AV : status[t] \notin {"FLUSHED", "SHUT_DOWN"}
        THEN /\ mainQ' = q
             /\ videoQ' = vq
             /\ flushing' = status
             /\ decoders' = decs
             /\ UNCHANGED <<scanTimers, codec, renderer, source, timePending, resetVars,
                            scanPending, modeVars, driver, failed>>
        ELSE AllFlushed(q, vq, decs)

-----------------------------------------------------------------------------
(*                  Messages of the application's calls                     *)

(* kWhatSetDataSource.                                                      *)
OnSetDataSource ==
    /\ PlayerDue("SetDataSource")
    /\ IF source THEN Abort("setDataSource: mSource")
       ELSE /\ source' = TRUE
            /\ Posts(<<>>)
            /\ UNCHANGED <<videoQ, scanTimers, codec, renderer, decoders, flushing, timePending,
                           resetVars, scanPending, modeVars, driver, failed>>
    /\ disc' = [t \in AV |-> <<>>]
    /\ UNCHANGED <<fillTimers, left>>

(* kWhatStart: a new renderer, and the first scan.                          *)
OnStart ==
    /\ PlayerDue("Start")
    /\ endOfStream' = [t \in AV |-> FALSE]
    /\ renderer' = NewRenderer
    /\ Posts(IF scanPending THEN <<>> ELSE ScanNow)
    /\ scanPending' = TRUE
    /\ UNCHANGED <<videoQ, scanTimers, codec, source, decoders, flushing, timePending, resetVars,
                   pauseIndication, driver, failed, sideVars>>

(* kWhatPause.                                                              *)
OnPause ==
    /\ PlayerDue("Pause")
    /\ IF ~renderer.on THEN Abort("null renderer")
       ELSE /\ Posts(ToRenderer("Pause", "-"))
            /\ pauseIndication' = TRUE
            /\ UNCHANGED <<videoQ, scanTimers, codec, renderer, source, decoders, flushing,
                           timePending, resetVars, scanPending, endOfStream, driver, failed>>
    /\ UNCHANGED sideVars

(* kWhatResume: a track may have been left without decoder, scan again.       *)
OnResume ==
    LET scan == ~(AV \cup {Text} \subseteq decoders)
    IN  /\ PlayerDue("Resume")
        /\ IF ~renderer.on THEN Abort("null renderer")
           ELSE /\ Posts(ToRenderer("Resume", "-") \o IF scan THEN ScanNow ELSE <<>>)
                /\ pauseIndication' = FALSE
                /\ scanPending' = (scanPending \/ scan)
                /\ UNCHANGED <<videoQ, scanTimers, codec, renderer, source, decoders, flushing,
                               timePending, resetVars, endOfStream, driver, failed>>
        /\ UNCHANGED sideVars

(* kWhatReset: postponed while a decoder is being flushed, done at once when  *)
(* there is none, else every decoder is flushed and shut down first.          *)
OnReset ==
    LET live == AV \cap decoders
        awaiting == \E t \in AV : flushing[t] = "AWAITING_DISCONTINUITY"
        q == Tail(mainQ) \o IF awaiting THEN ToRenderer("Resume", "-") ELSE <<>>
        wrong == FailedFlushCheck(live, flushing, decoders)
    IN  /\ PlayerDue("Reset")
        /\ IF \E t \in live : IsFlushingState(flushing[t])
           THEN /\ resetPostponed' = TRUE
                /\ mainQ' = q
                /\ UNCHANGED <<videoQ, scanTimers, codec, renderer, source, decoders, flushing,
                               timePending, resetInProgress, scanPending, modeVars, driver, failed>>
           ELSE IF live = {}
           THEN IF FailedResetCheck(decoders) # "none" THEN Abort(FailedResetCheck(decoders))
                ELSE /\ FinishReset(q, videoQ)
                     /\ UNCHANGED <<flushing, timePending, resetVars>>
           ELSE IF wrong # "none" THEN Abort(wrong)
           ELSE /\ timePending' = TRUE
                /\ mainQ' = Obsolete(q) \o FlushPosts(live, Audio) \o FlushPosts(live, Video)
                /\ videoQ' = videoQ \o VideoFlushPosts(live)
                /\ DropScans
                /\ flushing' = StatusAfterFlush(live, TRUE, flushing, decoders)
                /\ renderer' = RaiseFlush(live)
                /\ resetInProgress' = TRUE
                /\ UNCHANGED <<codec, source, decoders, resetPostponed, modeVars, driver, failed>>
        /\ UNCHANGED sideVars

(* kWhatSeek, which the source grants or refuses.  A source that grants it    *)
(* drops what it has queued (DashPacketSource::queueDiscontinuity).          *)
SeekWith(res) ==
    LET S == IF res = "ok" THEN {t \in AV \cap decoders : Flushable(flushing[t])} ELSE {}
        flushed == IF S = {} THEN flushing ELSE StatusAfterFlush(S, TRUE, flushing, decoders)
        wrong == IF ~source THEN "null source" ELSE IF ~renderer.on THEN "null renderer"
                 ELSE FailedFlushCheck(S, flushing, decoders)
    IN  IF wrong # "none" THEN Abort(wrong)
        ELSE /\ timePending' = TRUE
             /\ flushing' = IF res = "ok"
                            THEN [t \in AV |-> IF t \in decoders THEN flushed[t] ELSE "SHUT_DOWN"]
                            ELSE flushing
             /\ videoQ' = videoQ \o VideoFlushPosts(S)
             /\ renderer' = RaiseFlush(S)
             /\ IF S = {}
                THEN Posts(<<>>) /\ UNCHANGED <<scanTimers, scanPending>>
                ELSE /\ mainQ' = Obsolete(Tail(mainQ)) \o FlushPosts(S, Video) \o FlushPosts(S, Audio)
                     /\ DropScans
             /\ UNCHANGED <<codec, source, decoders, resetVars, modeVars, driver, failed>>

(* kWhatSeek, with the answer of the source.                                *)
OnSeek ==
    /\ PlayerDue("Seek")
    /\ \E res \in SeekResults :
        /\ SeekWith(res)
        /\ disc' = IF res = "ok" THEN [t \in AV |-> <<>>] ELSE disc
    /\ UNCHANGED <<fillTimers, left>>

-----------------------------------------------------------------------------
(*                          kWhatScanSources                                *)

(* Mutant: the scan ends with the first decoder.                              *)
ScanAgain_UntilFirst(decs) == decs \cap AV = {}

ScanAgain(decs) == ~(Outputs \cup {Text} \subseteq decs)

(* Decoders are made for the tracks N whose format the source knows by now,   *)
(* and the scan comes back in 100 ms while some track has none.              *)
ScanWith(N, res) ==
    LET after == decoders \cup N
        event == IF res = "ok" \/ after \cap AV # {} THEN "none"
                 ELSE IF res = "eos" THEN "complete" ELSE "error"
        again == res = "ok" /\ ScanAgain(after)
        tell  == res = "ok" /\ renderer.on /\ timePending
    IN  IF tell /\ ~QueuesEmpty
        THEN Abort("signalTimeDiscontinuity: queues")
        ELSE /\ decoders' = after
             /\ codec' = [t \in AV |-> IF t \in N THEN NewCodec ELSE codec[t]]
             /\ flushing' = [t \in AV |-> IF t \in N THEN "NONE" ELSE flushing[t]]
             /\ Posts((IF Audio \in N THEN <<ToCodec(Audio, "Setup")>> ELSE <<>>) \o PausePosts(event))
             /\ videoQ' = videoQ \o IF Video \in N THEN <<ToCodec(Video, "Setup")>> ELSE <<>>
             /\ scanTimers' = IF again THEN [scanTimers EXCEPT !["cur"] = @ + 1] ELSE scanTimers
             /\ scanPending' = again
             /\ timePending' = (timePending /\ ~tell)
             /\ driver' = DriverAfter(event)
             /\ UNCHANGED <<renderer, source, resetVars, modeVars, failed>>

OnScanSources ==
    /\ PlayerDue("ScanSources")
    /\ IF pauseIndication \/ Head(mainQ).arg = "old"
       THEN /\ Posts(<<>>)
            /\ UNCHANGED <<videoQ, scanTimers, codec, renderer, playerVars, driver, failed>>
       ELSE IF ~source THEN Abort("null source")
       ELSE \E N \in SUBSET ((Outputs \cup IF HasText THEN {Text} ELSE {}) \ decoders) :
                \E res \in FeedResults : ScanWith(N, res)
    /\ UNCHANGED sideVars

-----------------------------------------------------------------------------
(*             kWhatVideoNotify, kWhatAudioNotify: the codecs               *)

(* Decoder::onMessageReceived: passed on to the player.  A message to a       *)
(* Decoder the player has unregistered is not delivered.                     *)
DecoderForwards ==
    LET m == Head(mainQ)
    IN  /\ failed = "none"
        /\ mainQ # <<>> /\ m.to = "decoder"
        /\ Posts(IF m.trk \in decoders THEN <<[m EXCEPT !.to = "player"]>> ELSE <<>>)
        /\ UNCHANGED <<videoQ, scanTimers, codec, renderer, playerVars, driver, failed, sideVars>>

DueFor(what, t) == PlayerDue(what) /\ Head(mainQ).trk = t

(* The reply to a kWhatFillThisBuffer or a kWhatDrainThisBuffer.              *)
Filled(t, res) == Msg("codec", "InputBufferFilled", t, res)
Drained(t)     == Msg("codec", "OutputBufferDrained", t, "-")

Reply(t, m) ==
    /\ Posts(MainPart(t, m))
    /\ videoQ' = videoQ \o VideoPart(t, m)
    /\ UNCHANGED <<scanTimers, codec, renderer, playerVars, driver, failed>>

(* -EWOULDBLOCK: the request is retried in 10 ms if the source has more.      *)
RetryFill(t) ==
    \E res \in FeedResults :
        fillTimers' = IF res = "ok" THEN fillTimers \cup {t} ELSE fillTimers

(* A discontinuity that changes the format of the track or the time: the      *)
(* decoder is flushed, and the buffer goes back without data.                *)
FeedChange(t, d) ==
    LET shutdown == t \in d.format
        wrong == FailedFlushCheck({t}, flushing, decoders)
    IN  IF wrong # "none" THEN Abort(wrong)
        ELSE /\ timePending' = (timePending \/ d.time)
             /\ mainQ' = Obsolete(Tail(mainQ)) \o FlushPosts({t}, t) \o MainPart(t, Filled(t, "err"))
             /\ videoQ' = videoQ \o VideoFlushPosts({t}) \o VideoPart(t, Filled(t, "err"))
             /\ DropScans
             /\ flushing' = StatusAfterFlush({t}, shutdown, flushing, decoders)
             /\ renderer' = RaiseFlush({t})
             /\ UNCHANGED <<codec, source, decoders, resetVars, modeVars, driver, failed>>

(* A discontinuity of the other track only: this one counts as flushed.       *)
FeedUnaffected(t) ==
    FinishFlushIfPossible([flushing EXCEPT ![t] = "FLUSHED"], decoders, Tail(mainQ), videoQ)

FeedDiscontinuity(t) ==
    LET d == Head(disc[t])
    IN  /\ disc[t] # <<>>
        /\ disc' = [disc EXCEPT ![t] = Tail(@)]
        /\ IF t \in d.format \/ d.time
           THEN FeedChange(t, d) /\ UNCHANGED fillTimers
           ELSE FeedUnaffected(t) /\ RetryFill(t)

(* kWhatFillThisBuffer: feedDecoderInputData.                                *)
OnFillThisBuffer(t) ==
    /\ DueFor("FillThisBuffer", t)
    /\ IF IsFlushingState(flushing[t])
       THEN Reply(t, Filled(t, "err")) /\ UNCHANGED <<fillTimers, disc>>
       ELSE IF ~source THEN Abort("null source") /\ UNCHANGED <<fillTimers, disc>>
       ELSE \/ /\ "wouldblock" \in DataResults
               /\ Posts(<<>>)
               /\ RetryFill(t)
               /\ UNCHANGED <<videoQ, scanTimers, codec, renderer, playerVars, driver, failed, disc>>
            \/ /\ \E res \in DataResults \cap {"ok", "eos"} :
                    /\ res = "eos" => disc[t] = <<>>
                    /\ Reply(t, Filled(t, res))
               /\ UNCHANGED <<fillTimers, disc>>
            \/ FeedDiscontinuity(t)
    /\ UNCHANGED left

(* Mutant: a buffer decoded before the flush still goes to the renderer.       *)
OnDrainThisBuffer_Unguarded(t) ==
    /\ DueFor("DrainThisBuffer", t)
    /\ Posts(ToRenderer("QueueBuffer", t))
    /\ UNCHANGED <<videoQ, scanTimers, codec, renderer, playerVars, driver, failed, sideVars>>

(* kWhatDrainThisBuffer: renderBuffer.  A buffer before the media time a      *)
(* discontinuity asked to resume at goes straight back.                      *)
OnDrainThisBuffer(t) ==
    /\ DueFor("DrainThisBuffer", t)
    /\ \/ Reply(t, Drained(t))
       \/ /\ ~IsFlushingState(flushing[t])
          /\ Posts(ToRenderer("QueueBuffer", t))
          /\ UNCHANGED <<videoQ, scanTimers, codec, renderer, playerVars, driver, failed>>
    /\ UNCHANGED sideVars

(* Mutant: the end of stream is queued while the decoder is being flushed.     *)
OnDecoderEnd_Unguarded(t) ==
    LET m == Head(mainQ)
    IN  /\ DueFor("EOS", t) \/ DueFor("Error", t)
        /\ Posts(IF renderer.on
                 THEN <<Msg("renderer", "QueueEOS", t, IF m.what = "Error" THEN "err" ELSE m.arg)>>
                 ELSE <<>>)
        /\ UNCHANGED <<videoQ, scanTimers, codec, renderer, playerVars, driver, failed, sideVars>>

(* kWhatEOS and kWhatError: an end of stream for the renderer, unless the      *)
(* decoder is being flushed.                                                *)
OnDecoderEnd(t) ==
    LET m == Head(mainQ)
        res == IF m.what = "Error" THEN "err" ELSE m.arg
    IN  /\ DueFor("EOS", t) \/ DueFor("Error", t)
        /\ Posts(IF renderer.on /\ ~IsFlushingState(flushing[t])
                 THEN <<Msg("renderer", "QueueEOS", t, res)>> ELSE <<>>)
        /\ UNCHANGED <<videoQ, scanTimers, codec, renderer, playerVars, driver, failed, sideVars>>

(* kWhatFlushCompleted: on to the shutdown if one is needed.                  *)
OnFlushCompleted(t) ==
    LET shutdown == NeedShutdown(flushing[t])
        stop == ToCodec(t, "Shutdown")
    IN  /\ DueFor("FlushCompleted", t)
        /\ IF ~IsFlushingState(flushing[t]) THEN Abort("FlushCompleted: not flushing")
           ELSE IF shutdown /\ t \notin decoders THEN Abort("null decoder")
           ELSE IF shutdown
           THEN FinishFlushIfPossible([flushing EXCEPT ![t] = "SHUTTING_DOWN_DECODER"], decoders,
                    Tail(mainQ) \o MainPart(t, stop), videoQ \o VideoPart(t, stop))
           ELSE FinishFlushIfPossible([flushing EXCEPT ![t] = "FLUSHED"], decoders,
                    Tail(mainQ), videoQ)
        /\ UNCHANGED sideVars

(* kWhatShutdownCompleted: the decoder is gone.                              *)
OnShutdownCompleted(t) ==
    /\ DueFor("ShutdownCompleted", t)
    /\ IF flushing[t] # "SHUTTING_DOWN_DECODER"
       THEN Abort("ShutdownCompleted: not shutting down")
       ELSE FinishFlushIfPossible([flushing EXCEPT ![t] = "SHUT_DOWN"], decoders \ {t},
                Tail(mainQ), videoQ)
    /\ UNCHANGED sideVars

-----------------------------------------------------------------------------
(*                         The renderer's side                              *)

(* Mutant: one ended track is enough.                                         *)
AllEnded_Any(ended) == \E t \in AV : ended[t]

AllEnded(ended) == \A t \in AV : ended[t] \/ t \notin decoders

(* kWhatRendererNotify, kWhatEOS: playback is complete once every track that  *)
(* has a decoder has ended.                                                 *)
OnRendererEOS ==
    LET m == Head(mainQ)
        ended == [endOfStream EXCEPT ![m.trk] = TRUE]
        event == IF m.arg = "err" THEN "error" ELSE IF AllEnded(ended) THEN "complete" ELSE "none"
    IN  /\ PlayerDue("RendererEOS")
        /\ endOfStream' = ended
        /\ driver' = DriverAfter(event)
        /\ Posts(PausePosts(event))
        /\ UNCHANGED <<videoQ, scanTimers, codec, renderer, source, decoders, flushing, timePending,
                       resetVars, scanPending, pauseIndication, failed, sideVars>>

(* Renderer::onPause.                                                       *)
RendererPause ==
    /\ failed = "none"
    /\ Due("renderer", "Pause")
    /\ IF renderer.on /\ renderer.paused THEN Abort("Renderer::onPause: paused")
       ELSE /\ renderer' = [renderer EXCEPT !.paused = renderer.on]
            /\ Posts(<<>>)
            /\ UNCHANGED <<videoQ, scanTimers, codec, playerVars, driver, failed>>
    /\ UNCHANGED sideVars

-----------------------------------------------------------------------------
(*      DashPlayerDriver, called by the application, and the source         *)

Spend(what) ==
    /\ left[what] > 0
    /\ left' = [left EXCEPT ![what] = @ - 1]

Calls(notes) ==
    /\ failed = "none"
    /\ driver.reset = "no"
    /\ mainQ' = mainQ \o notes
    /\ UNCHANGED <<videoQ, scanTimers, fillTimers, codec, renderer, playerVars, disc, failed>>

Call(what) == <<Msg("player", what, "-", "-")>>

AppSetDataSource ==
    /\ Spend("open")
    /\ driver.state = "UNINITIALIZED"
    /\ driver' = [driver EXCEPT !.state = "STOPPED"]
    /\ Calls(Call("SetDataSource"))

AppStart ==
    /\ Spend("start")
    /\ \/ /\ driver.state = "STOPPED"
          /\ driver' = [driver EXCEPT !.state = "PLAYING", !.atEOS = FALSE, !.seek = FALSE]
          /\ Calls(Call("Start") \o IF driver.seek THEN Call("Seek") ELSE <<>>)
       \/ /\ driver.state = "PAUSED"
          /\ driver' = [driver EXCEPT !.state = "PLAYING", !.atEOS = FALSE]
          /\ Calls((IF driver.atEOS THEN Call("Seek") ELSE <<>>) \o Call("Resume"))

AppPause ==
    /\ Spend("pause")
    /\ driver.state = "PLAYING"
    /\ driver' = [driver EXCEPT !.state = "PAUSED"]
    /\ Calls(Call("Pause"))

AppSeek ==
    /\ Spend("seek")
    /\ \/ /\ driver.state = "STOPPED"
          /\ \E later \in BOOLEAN : driver' = [driver EXCEPT !.seek = later]
          /\ Calls(<<>>)
       \/ /\ driver.state \in {"PLAYING", "PAUSED"}
          /\ driver' = [driver EXCEPT !.atEOS = FALSE]
          /\ Calls(Call("Seek"))

AppReset ==
    /\ Spend("reset")
    /\ driver' = [driver EXCEPT !.reset = "waiting"]
    /\ Calls(Call("Reset"))

(* The thread inside DashPlayerDriver::reset wakes up and returns.           *)
ResetReturns ==
    /\ failed = "none"
    /\ driver.reset = "woken"
    /\ driver' = [driver EXCEPT !.reset = "no", !.state = "UNINITIALIZED", !.seek = FALSE]
    /\ UNCHANGED <<looperVars, codec, renderer, playerVars, envVars, failed>>

(* The source queues the same discontinuity on both tracks.                  *)
SourceDiscontinuity ==
    /\ failed = "none" /\ source
    /\ Spend("disc")
    /\ \E d \in DiscTypes : disc' = [t \in AV |-> Append(disc[t], d)]
    /\ UNCHANGED <<looperVars, codec, renderer, playerVars, driver, failed>>

-----------------------------------------------------------------------------
(*                              The system                                  *)

(* A step of a codec, of the renderer or of a timer leaves the rest alone.     *)
Alone == failed = "none" /\ UNCHANGED <<playerVars, driver, envVars, failed>>

CodecAlone    == Alone /\ UNCHANGED renderer
RendererAlone == Alone /\ UNCHANGED codec
TimersAlone   == Alone /\ UNCHANGED <<codec, renderer>>

PlayerHandles ==
    \/ OnSetDataSource \/ OnStart \/ OnPause \/ OnResume \/ OnReset \/ OnSeek
    \/ OnScanSources
    \/ DecoderForwards
    \/ \E t \in AV : OnFillThisBuffer(t) \/ OnDrainThisBuffer(t) \/ OnDecoderEnd(t)
                    \/ OnFlushCompleted(t) \/ OnShutdownCompleted(t)
    \/ OnRendererEOS

RendererHandles ==
    \/ RendererQueueBuffer /\ RendererAlone
    \/ RendererQueueEOS /\ RendererAlone
    \/ RendererFlush /\ RendererAlone
    \/ RendererPause
    \/ RendererResume /\ RendererAlone

CodecHandles(t) ==
    \/ CodecSetup(t) /\ CodecAlone
    \/ CodecFlush(t) /\ CodecAlone
    \/ CodecShutdown(t) /\ CodecAlone
    \/ CodecResume(t) /\ CodecAlone
    \/ CodecInputFilled(t) /\ CodecAlone
    \/ CodecOutputDrained(t) /\ CodecAlone

(* What the OMX component owes: to start, to give its buffers back when it is   *)
(* flushed or stopped, and to change its output port.                         *)
ComponentAnswers(t) ==
    \/ CodecStarted(t) /\ CodecAlone
    \/ CodecFlushDone(t, FALSE) /\ CodecAlone
    \/ CodecShutdownDone(t) /\ CodecAlone
    \/ CodecPortFlushed(t) /\ CodecAlone
    \/ CodecPortDone(t, FALSE) /\ CodecAlone

ComponentWorks(t) ==
    \/ ~Coupled /\ CodecAsks(t) /\ CodecAlone
    \/ ~Coupled /\ CodecDrains(t) /\ CodecAlone
    \/ Coupled /\ CodecDecodes(t) /\ CodecAlone
    \/ CodecEnds(t) /\ CodecAlone
    \/ RendererDrain(t) /\ RendererAlone

(* A step of the codecs that the budget limits.                              *)
Spends(what) == failed = "none" /\ Spend(what)
                /\ UNCHANGED <<renderer, playerVars, driver, disc, failed>>

(* The component asks for another output port: now, or during a flush or a     *)
(* change that is under way, which defers it.                                *)
ComponentChanges(t) ==
    \/ CodecPortChanges(t) /\ Spends("port")
    \/ CodecFlushDone(t, TRUE) /\ Spends("port")
    \/ CodecPortDone(t, TRUE) /\ Spends("port")

ComponentFails(t) ==
    \/ CodecSetupFails(t) /\ Spends("error")
    \/ CodecError(t) /\ Spends("error")
    \/ CodecOutputDrainedFails(t) /\ Spends("error")
    \/ CodecPortFails(t) /\ Spends("error")

TimerFires ==
    \/ \E g \in {"cur", "old"} : ScanTimerFires(g) /\ TimersAlone
    \/ \E t \in AV : FillTimerFires(t) /\ TimersAlone

AppCalls == AppSetDataSource \/ AppStart \/ AppPause \/ AppSeek \/ AppReset

Next ==
    \/ PlayerHandles
    \/ RendererHandles
    \/ \E t \in AV : \/ CodecHandles(t)
                    \/ ComponentAnswers(t)
                    \/ ComponentWorks(t)
                    \/ ComponentChanges(t)
                    \/ ComponentFails(t)
    \/ TimerFires
    \/ AppCalls
    \/ ResetReturns
    \/ SourceDiscontinuity

Spec == Init /\ [][Next]_vars

-----------------------------------------------------------------------------
(*                             Properties                                   *)

(* How many messages of q are one of `whats` about track t, renderer's apart. *)
Count(q, whats, t) ==
    Cardinality({i \in 1..Len(q) : q[i].what \in whats /\ q[i].trk = t /\ q[i].to # "renderer"})

InFlight(whats, t) == Count(mainQ, whats, t) + Count(videoQ, whats, t)

One(b) == IF b THEN 1 ELSE 0

(* No CHECK of the player, the renderer or the driver fails, and none of them *)
(* calls through a null pointer.                                            *)
NoFailedCheck == failed = "none"

(* A flush or shutdown that the flush status of a track says is under way is  *)
(* owed by exactly one party: the request still queued, the codec at work, or *)
(* the answer on its way; and nobody owes one that the status does not show. *)
FlushAccounted ==
    \A t \in AV :
        LET flushes == InFlight({"Flush", "FlushCompleted"}, t) + One(codec[t].st = "flushing")
            stops   == InFlight({"Shutdown", "ShutdownCompleted"}, t)
                         + One(codec[t].st = "stopping" \/ codec[t].defer)
            status  == flushing[t]
        IN  /\ flushes = One(status \in {"FLUSHING_DECODER", "FLUSHING_DECODER_SHUTDOWN"})
            /\ stops = One(status = "SHUTTING_DOWN_DECODER")

(* A buffer a codec has given away is in exactly one place: in a request or a *)
(* reply, waiting for a retry, or in the renderer's queue.  A buffer that is   *)
(* lost keeps its codec from ever finishing a flush.                        *)
BuffersConserved ==
    \A t \in AV :
        LET queued == {i \in 1..Len(renderer.queue[t]) : renderer.queue[t][i] = "buffer"}
            sent   == {i \in 1..Len(mainQ) : mainQ[i].what = "QueueBuffer" /\ mainQ[i].trk = t}
        IN  /\ InFlight({"FillThisBuffer", "InputBufferFilled"}, t) + One(t \in fillTimers)
                  = One(codec[t].in = "up")
            /\ InFlight({"DrainThisBuffer", "OutputBufferDrained"}, t)
                  + Cardinality(queued) + Cardinality(sent) = One(codec[t].out = "down")

(* Once a track's decoder has been flushed on the way to its shutdown, the     *)
(* renderer holds nothing of that track and nothing is on its way there, so    *)
(* that signalTimeDiscontinuity finds empty queues.                          *)
FlushedTrackIsQuiet ==
    \A t \in AV :
        flushing[t] \in {"SHUTTING_DOWN_DECODER", "SHUT_DOWN"} =>
            /\ renderer.queue[t] = <<>>
            /\ \A i \in 1..Len(mainQ) :
                    ~(mainQ[i].what \in {"QueueBuffer", "QueueEOS"} /\ mainQ[i].trk = t)

(* A reset that is not done has a decoder whose flush or shutdown will call    *)
(* finishFlushIfPossible, the only place that carries it on.                  *)
ResetHasOwner ==
    resetInProgress \/ resetPostponed => \E t \in AV : IsFlushingState(flushing[t])

(* A kWhatScanSources that will not be dropped is queued or will fall due.     *)
ScanOnItsWay ==
    \/ scanTimers["cur"] > 0
    \/ \E i \in 1..Len(mainQ) : mainQ[i].what = "ScanSources" /\ mainQ[i].arg = "cur"

Flushing == \E t \in AV : IsFlushingState(flushing[t]) \/ flushing[t] = "AWAITING_DISCONTINUITY"

(* Every track that finishFlushIfPossible waits for has a decoder: only a      *)
(* decoder can answer a flush or come to a discontinuity, so waiting for a     *)
(* track without one is waiting forever.                                    *)
WaitedForHasDecoder ==
    Flushing => \A t \in AV : flushing[t] \notin {"FLUSHED", "SHUT_DOWN"} => t \in decoders

(* The player is playing: no flush is under way and no reset lies ahead.       *)
Playing ==
    /\ renderer.on /\ ~pauseIndication /\ ~Flushing
    /\ \A i \in 1..Len(mainQ) : mainQ[i].what # "Reset"

(* While a track, the text track as well, has no decoder and no flush is under  *)
(* way, the sources are being scanned for it: nothing else brings it back.    *)
MissingTrackIsScanned == Playing /\ ~(Outputs \cup {Text} \subseteq decoders) => ScanOnItsWay

(* A codec that the player takes for running runs, or is about to be resumed:  *)
(* nobody would look after it again.                                        *)
ResumedCodecRuns ==
    \A t \in AV \cap decoders :
        flushing[t] = "NONE" /\ codec[t].st = "stopped" => InFlight({"Resume"}, t) > 0

(* No decoder is made while another one is still being flushed.              *)
NoDecoderDuringFlush ==
    [][decoders' \cap AV \subseteq decoders \/ \A t \in AV : ~IsFlushingState(flushing[t])]_vars

(* Playback is reported complete, which pauses the driver, only when every     *)
(* decoder has seen the end of its input.                                    *)
CompleteOnlyAtTheEnd ==
    [][driver.state = "PLAYING" /\ driver'.state = "PAUSED" /\ endOfStream' # endOfStream
         => \A t \in AV \cap decoders : codec[t].eos # "no"]_vars

-----------------------------------------------------------------------------
(*                              Liveness                                    *)

(* A looper delivers what is posted to it, a timer falls due, the OMX          *)
(* component answers its commands, and a woken thread runs.                   *)
Fairness ==
    /\ WF_vars(PlayerHandles \/ RendererHandles \/ CodecHandles(Audio))
    /\ WF_vars(CodecHandles(Video))
    /\ \A t \in AV : WF_vars(ComponentAnswers(t))
    /\ \A t \in AV : WF_vars(FillTimerFires(t) /\ TimersAlone)
    /\ WF_vars(ScanTimerFires("cur") /\ TimersAlone)
    /\ WF_vars(ResetReturns)

FairSpec == Spec /\ Fairness

(* DashPlayer.h, resetAsync: the driver is told once the reset is finished, so *)
(* the thread waiting in DashPlayerDriver::reset returns, unless a CHECK ends  *)
(* the process first.                                                       *)
ResetCompletes == driver.reset = "waiting" ~> driver.reset = "no" \/ failed # "none"

(* A decoder that is being flushed is flushed, and shut down if it has to be.  *)
FlushCompletes ==
    \A t \in AV : IsFlushingState(flushing[t]) ~> ~IsFlushingState(flushing[t]) \/ failed # "none"

=============================================================================
