------------------------------ MODULE DashRenderer ------------------------------
(***************************************************************************)
(* DashPlayer::Renderer (DashPlayerRenderer.cpp): when the head of a queue is *)
(* taken.  Modelled are the delayed drain messages with their generations,    *)
(* the pause, the synchronisation of the queues, the audio sink that takes    *)
(* as much as it has room for, and which anchor a video frame is timed by.    *)
(* A time is reduced to what the code asks of it: whether audio starts more   *)
(* than 100 ms before video, and whether the anchor is older than a pause.    *)
(*                                                                         *)
(* The renderer's messages come by the looper it shares with the player      *)
(* (mainQ); `r` is its state.  The player's side keeps to what DashPlayer      *)
(* does: a track that has ended is flushed before it is fed again, and a       *)
(* pause is followed by a resume.                                            *)
(***************************************************************************)
EXTENDS DashLoopers

CONSTANTS
    NumBuffers,   \* output buffers of each track
    Limits        \* how often the player pauses, flushes, seeks and changes the sink, and how often
                  \* the sink fails: any of these

Calls == {"pause", "flush", "seek", "sink", "failure"}

ASSUME RendererAssumption == NumBuffers \in Nat \ {0} /\ Limits \subseteq [Calls -> Nat]

Entry == {"buffer", "eos", "err"}

VARIABLES
    r,        \* the renderer
    hand,     \* the buffers of a track its codec has in hand
    ended,    \* the tracks whose end was queued
    resting,  \* the player has asked for a pause, and not for the resume yet
    left      \* what is left of the limits

rvars == <<r, hand, ended, resting, left, looperVars>>

Renderer ==
    [queue    : [AV -> Seq(Entry)],       \* mAudioQueue, mVideoQueue
     begun    : BOOLEAN,                  \* mOffset # 0 for the head of mAudioQueue
     pending  : SUBSET AV,                \* mDrainAudioQueuePending, mDrainVideoQueuePending
     posted   : [AV -> Nat],              \* kWhatDrain messages of the current generation
     stale    : [AV -> Nat],              \* and of older ones
     flushing : SUBSET AV,                \* mFlushingAudio, mFlushingVideo
     has      : SUBSET AV,                \* mHasAudio, mHasVideo
     sync     : BOOLEAN,                  \* mSyncQueues
     paused   : BOOLEAN,                  \* mPaused
     wasPaused : BOOLEAN,                 \* mWasPaused
     anchor   : {"none", "new", "old"},   \* mAnchorTimeMediaUs; "old" is from before a pause
     mute     : BOOLEAN,                  \* history: the last drain of mAudioQueue found the sink
                                          \* without a position, and posted none
     failed   : {"none", "onPause", "onAudioSinkChanged", "audioSink"}]

NewRenderer ==
    [queue |-> [t \in AV |-> <<>>], begun |-> FALSE, pending |-> {},
     posted |-> [t \in AV |-> 0], stale |-> [t \in AV |-> 0], flushing |-> {}, has |-> {},
     sync |-> FALSE, paused |-> FALSE, wasPaused |-> FALSE, anchor |-> "none",
     mute |-> FALSE, failed |-> "none"]

Init ==
    /\ r = NewRenderer
    /\ hand = [t \in AV |-> NumBuffers]
    /\ ended = {} /\ resting = FALSE /\ left \in Limits
    /\ LoopersInit

TypeOK ==
    /\ r \in Renderer /\ hand \in [AV -> Nat] /\ ended \subseteq AV /\ resting \in BOOLEAN
    /\ left \in [Calls -> Nat]

-----------------------------------------------------------------------------
(*                              Helpers                                     *)

Consumed(t) == Msg("codec", "OutputBufferDrained", t, "-")

(* A video frame is timed by the anchor; without audio it sets one itself,     *)
(* the first time and after a pause.                                         *)
Anchored(k) ==
    IF Head(k.queue[Video]) # "buffer" \/ Audio \in k.has THEN k
    ELSE IF k.anchor = "none" THEN [k EXCEPT !.anchor = "new"]
    ELSE IF Video \in k.has /\ k.wasPaused THEN [k EXCEPT !.anchor = "new", !.wasPaused = FALSE]
    ELSE k

(* postDrainAudioQueue, postDrainVideoQueue.                                *)
PostDrain(k, t) ==
    IF t \in k.pending \/ k.sync \/ k.paused \/ k.queue[t] = <<>> THEN k
    ELSE [(IF t = Video THEN Anchored(k) ELSE k)
            EXCEPT !.pending = @ \cup {t}, !.posted[t] = @ + 1, !.mute = @ /\ t # Audio]

(* syncQueuesDone.                                                          *)
SyncQueuesDone(k) ==
    IF k.sync THEN PostDrain(PostDrain([k EXCEPT !.sync = FALSE], Audio), Video) ELSE k

(* Mutant: a drain still counts as pending.                                  *)
NewGeneration_Pending(k, t) ==
    [k EXCEPT !.stale[t] = @ + k.posted[t], !.posted[t] = 0]

(* mDrainXQueuePending = false, ++mXQueueGeneration.                         *)
NewGeneration(k, t) ==
    [k EXCEPT !.pending = @ \ {t}, !.stale[t] = @ + k.posted[t], !.posted[t] = 0,
              !.mute = @ /\ t # Audio]

(* How many of the entries q are buffers, not the end of the stream.          *)
Buffers(q) == Cardinality({i \in 1..Len(q) : q[i] = "buffer"})

(* Mutant: an end of the stream is replied to like a buffer.                   *)
Replies_Every(t, q) == [i \in 1..Len(q) |-> Consumed(t)]

(* The replies, one for each buffer among the entries q of track t.           *)
Replies(t, q) == [i \in 1..Buffers(q) |-> Consumed(t)]

(* The renderer becomes k, after taking a message or at a timer, and replies.  *)
Becomes(k, rest, mainPart, videoPart) ==
    /\ r.failed = "none"
    /\ r' = k
    /\ mainQ' = rest \o mainPart
    /\ videoQ' = videoQ \o videoPart
    /\ UNCHANGED <<scanTimers, fillTimers, hand, ended, resting, left>>

Gives(k, rest, t, q) ==
    Becomes(k, rest, IF t = Audio THEN Replies(t, q) ELSE <<>>,
                     IF t = Video THEN Replies(t, q) ELSE <<>>)

Spend(what) == left[what] > 0 /\ left' = [left EXCEPT ![what] = @ - 1]

-----------------------------------------------------------------------------
(*                              Messages                                    *)

(* With both queues filled, the synchronisation ends, or the head of the audio *)
(* queue, which is too early, is dropped.                                    *)
InSync(k) == \/ ~k.sync \/ k.queue[Audio] = <<>> \/ k.queue[Video] = <<>>

Mismatch(k) == Head(k.queue[Audio]) = "buffer" /\ Head(k.queue[Video]) = "buffer"

(* onQueueBuffer.                                                           *)
OnQueueBuffer ==
    LET t == Head(mainQ).trk
        known == [r EXCEPT !.has = @ \cup {t}]
        k == PostDrain([known EXCEPT !.queue[t] = Append(@, "buffer")], t)
        rest == Tail(mainQ)
    IN  /\ Due("renderer", "QueueBuffer")
        /\ \/ /\ t \in r.flushing
              /\ Gives(known, rest, t, <<"buffer">>)
           \/ /\ t \notin r.flushing /\ InSync(k)
              /\ Gives(k, rest, t, <<>>)
           \/ /\ t \notin r.flushing /\ ~InSync(k)
              /\ Gives(SyncQueuesDone(k), rest, t, <<>>)
           \/ /\ t \notin r.flushing /\ ~InSync(k) /\ Mismatch(k)
              /\ Gives([k EXCEPT !.queue[Audio] = Tail(@)], rest, Audio, <<"buffer">>)

(* onQueueEOS.                                                              *)
OnQueueEOS ==
    LET t == Head(mainQ).trk
    IN  /\ Due("renderer", "QueueEOS")
        /\ Gives(IF t \in r.flushing THEN r
                 ELSE PostDrain([r EXCEPT !.queue[t] = Append(@, Head(mainQ).arg)], t),
                 Tail(mainQ), t, <<>>)

(* onFlush.                                                                 *)
OnFlush ==
    LET t == Head(mainQ).trk
    IN  /\ Due("renderer", "Flush")
        /\ Gives(NewGeneration([SyncQueuesDone(r) EXCEPT !.queue[t] = <<>>, !.flushing = @ \ {t},
                                                         !.begun = @ /\ t # Audio], t),
                 Tail(mainQ), t, r.queue[t])

(* Mutant: mWasPaused is not set.                                           *)
OnPause_NotNoted ==
    LET k == NewGeneration(NewGeneration(r, Audio), Video)
    IN  /\ Due("renderer", "Pause")
        /\ Gives([k EXCEPT !.paused = TRUE, !.anchor = IF @ = "new" THEN "old" ELSE @],
                 Tail(mainQ), Audio, <<>>)

(* onPause.                                                                 *)
OnPause ==
    LET k == NewGeneration(NewGeneration(r, Audio), Video)
    IN  /\ Due("renderer", "Pause")
        /\ Gives(IF r.paused THEN [r EXCEPT !.failed = "onPause"]
                 ELSE [k EXCEPT !.paused = TRUE, !.wasPaused = TRUE,
                                !.anchor = IF @ = "new" THEN "old" ELSE @],
                 Tail(mainQ), Audio, <<>>)

(* Mutant: only the video queue is drained again.                            *)
OnResume_VideoOnly ==
    /\ Due("renderer", "Resume")
    /\ Gives(IF r.paused THEN PostDrain([r EXCEPT !.paused = FALSE], Video) ELSE r,
             Tail(mainQ), Audio, <<>>)

(* onResume.                                                                *)
OnResume ==
    /\ Due("renderer", "Resume")
    /\ Gives(IF r.paused THEN PostDrain(PostDrain([r EXCEPT !.paused = FALSE], Audio), Video) ELSE r,
             Tail(mainQ), Audio, <<>>)

(* onAudioSinkChanged.                                                      *)
OnAudioSinkChanged ==
    /\ Due("renderer", "AudioSinkChanged")
    /\ Gives(IF Audio \in r.pending THEN [r EXCEPT !.failed = "onAudioSinkChanged"] ELSE r,
             Tail(mainQ), Audio, <<>>)

-----------------------------------------------------------------------------
(*                          Delayed messages                                *)

(* A drain of an older generation is ignored.                                *)
StaleDrain(t) ==
    /\ r.stale[t] > 0
    /\ Gives([r EXCEPT !.stale[t] = @ - 1], mainQ, t, <<>>)

Falls(t) == r.posted[t] > 0
Fired(t) == [r EXCEPT !.posted[t] = @ - 1, !.pending = @ \ {t}]

(* onDrainAudioQueue: the sink has room for n buffers, and for part of another *)
(* one.                                                                     *)
DrainAudio(n, part) ==
    LET q == r.queue[Audio]
        starts == IF r.begun THEN n > 1 \/ (n = 1 /\ part) ELSE n > 0 \/ part
        k == [Fired(Audio) EXCEPT !.queue[Audio] = SubSeq(q, n + 1, Len(q)),
                                  !.begun = part \/ (n = 0 /\ @),
                                  !.anchor = IF starts THEN "new" ELSE @]
    IN  /\ Falls(Audio)
        /\ n + (IF part THEN 1 ELSE 0) <= Len(q)
        /\ \A i \in 1..(n + IF part THEN 1 ELSE 0) : q[i] = "buffer"
        /\ Gives(PostDrain(k, Audio), mainQ, Audio, SubSeq(q, 1, n))

(* The sink cannot tell its position: nothing is played, and no further drain is   *)
(* posted, whatever is queued.  A sink that fails later in the drain meets a CHECK. *)
DrainAudioFails ==
    /\ r.failed = "none" /\ Falls(Audio)
    /\ \/ r' = [Fired(Audio) EXCEPT !.mute = TRUE]
       \/ r.queue[Audio] # <<>> /\ r' = [r EXCEPT !.failed = "audioSink"]
    /\ Spend("failure")
    /\ UNCHANGED <<hand, ended, resting, looperVars>>

(* With room to spare the end of the stream is reported, and no further drain  *)
(* is posted.                                                               *)
DrainAudioEnd ==
    LET q == r.queue[Audio]
        n == Len(q) - 1
        k == [Fired(Audio) EXCEPT !.queue[Audio] = <<>>, !.begun = FALSE,
                                  !.anchor = IF n > (IF r.begun THEN 1 ELSE 0) THEN "new" ELSE @]
    IN  /\ Falls(Audio)
        /\ q # <<>> /\ q[Len(q)] # "buffer"
        /\ Becomes(k, mainQ, Replies(Audio, q) \o <<Msg("player", "RendererEOS", Audio, q[Len(q)])>>, <<>>)

(* kWhatDrainVideoQueue: the head is shown, dropped as too late, or reported;  *)
(* then the next one is timed.                                               *)
DrainVideo ==
    LET q == r.queue[Video]
        shown == [Fired(Video) EXCEPT !.queue[Video] = Tail(@)]
    IN  /\ Falls(Video)
        /\ IF q = <<>> THEN Gives(Fired(Video), mainQ, Video, <<>>)
           ELSE IF Head(q) = "buffer" THEN Gives(PostDrain(shown, Video), mainQ, Video, <<"buffer">>)
           ELSE Becomes(PostDrain(shown, Video), mainQ,
                        <<Msg("player", "RendererEOS", Video, Head(q))>>, <<>>)

-----------------------------------------------------------------------------
(*                 The player's side, and the other loopers                  *)

(* A call of the renderer that posts a message.                              *)
Tells(m) ==
    /\ r.failed = "none"
    /\ mainQ' = Append(mainQ, m)
    /\ UNCHANGED <<videoQ, scanTimers, fillTimers>>

(* queueBuffer.                                                             *)
QueueBuffer(t) ==
    /\ hand[t] > 0 /\ t \notin ended \cup r.flushing
    /\ Tells(Msg("renderer", "QueueBuffer", t, "-"))
    /\ hand' = [hand EXCEPT ![t] = @ - 1]
    /\ UNCHANGED <<r, ended, resting, left>>

(* Mutant: the synchronisation goes on.                                      *)
QueueEOS_KeepsSync(t) ==
    /\ t \notin ended \cup r.flushing
    /\ Tells(Msg("renderer", "QueueEOS", t, "eos"))
    /\ ended' = ended \cup {t}
    /\ UNCHANGED <<r, hand, resting, left>>

(* queueEOS, which ends the synchronisation at once.                         *)
QueueEOS(t) ==
    /\ t \notin ended \cup r.flushing
    /\ Tells(Msg("renderer", "QueueEOS", t, "eos"))
    /\ r' = SyncQueuesDone(r)
    /\ ended' = ended \cup {t}
    /\ UNCHANGED <<hand, resting, left>>

(* flush.                                                                   *)
Flush(t) ==
    /\ t \notin r.flushing
    /\ Tells(Msg("renderer", "Flush", t, "-"))
    /\ r' = [r EXCEPT !.flushing = @ \cup {t}]
    /\ ended' = ended \ {t}
    /\ Spend("flush")
    /\ UNCHANGED <<hand, resting>>

(* signalTimeDiscontinuity, after both tracks were flushed.                  *)
SignalTimeDiscontinuity ==
    /\ r.failed = "none" /\ ended = {} /\ \A t \in AV : r.queue[t] = <<>>
    /\ r' = [r EXCEPT !.anchor = "none", !.wasPaused = FALSE, !.sync = r.has = AV]
    /\ Spend("seek")
    /\ UNCHANGED <<hand, ended, resting, looperVars>>

(* kWhatSeek of the player: setMediaPresence for each track, then its flush.    *)
SeekFlushes ==
    /\ r.failed = "none" /\ r.flushing = {}
    /\ mainQ' = mainQ \o <<Msg("renderer", "Flush", Video, "-"), Msg("renderer", "Flush", Audio, "-")>>
    /\ \E has \in SUBSET AV : r' = [r EXCEPT !.has = has, !.flushing = AV]
    /\ ended' = {}
    /\ Spend("seek")
    /\ UNCHANGED <<hand, resting, videoQ, scanTimers, fillTimers>>

Pause ==
    /\ ~resting /\ resting' = TRUE
    /\ Tells(Msg("renderer", "Pause", "-", "-"))
    /\ Spend("pause")
    /\ UNCHANGED <<r, hand, ended>>

Resume ==
    /\ resting /\ resting' = FALSE
    /\ Tells(Msg("renderer", "Resume", "-", "-"))
    /\ UNCHANGED <<r, hand, ended, left>>

(* A new audio format: the codec has every buffer of the old one back.         *)
SignalAudioSinkChanged ==
    /\ hand[Audio] = NumBuffers /\ Audio \notin ended
    /\ Tells(Msg("renderer", "AudioSinkChanged", "-", "-"))
    /\ Spend("sink")
    /\ UNCHANGED <<r, hand, ended, resting>>

(* A reply reaches its codec, a report the player.                           *)
MainHeard ==
    /\ mainQ # <<>> /\ Head(mainQ).to # "renderer"
    /\ mainQ' = Tail(mainQ)
    /\ hand' = IF Head(mainQ).to = "codec" THEN [hand EXCEPT ![Audio] = @ + 1] ELSE hand
    /\ UNCHANGED <<videoQ, scanTimers, fillTimers, r, ended, resting, left>>

VideoHeard ==
    /\ videoQ # <<>>
    /\ videoQ' = Tail(videoQ)
    /\ hand' = [hand EXCEPT ![Video] = @ + 1]
    /\ UNCHANGED <<mainQ, scanTimers, fillTimers, r, ended, resting, left>>

-----------------------------------------------------------------------------
Handles ==
    \/ OnQueueBuffer \/ OnQueueEOS \/ OnFlush \/ OnPause \/ OnResume \/ OnAudioSinkChanged
    \/ MainHeard

Drains ==
    \/ \E n \in 0..NumBuffers, part \in BOOLEAN : DrainAudio(n, part)
    \/ DrainAudioFails \/ DrainAudioEnd \/ DrainVideo

PlayerCalls ==
    \/ \E t \in AV : QueueBuffer(t) \/ QueueEOS(t) \/ Flush(t)
    \/ SignalTimeDiscontinuity \/ SeekFlushes \/ Pause \/ Resume \/ SignalAudioSinkChanged

Next ==
    \/ Handles
    \/ Drains
    \/ \E t \in AV : StaleDrain(t)
    \/ PlayerCalls
    \/ VideoHeard

Spec == Init /\ [][Next]_rvars

-----------------------------------------------------------------------------
(*                             Properties                                   *)

(* No CHECK fails but those that ask the sink itself whether it works: in        *)
(* particular the sink is never replaced while a drain of the old one is to come.  *)
NoFailedCheck == r.failed \in {"none", "audioSink"}

(* onDrainAudioQueue has given up (getPosition failed), and since then nothing has   *)
(* been queued, flushed, paused or synchronised: nobody drains the audio.          *)
Abandoned(t) == t = Audio /\ r.mute

(* A queue with entries is going to be drained, unless the renderer is paused   *)
(* or synchronising, or the drain of the audio has given up and no new one was   *)
(* posted since: exactly one drain of the current generation is under way, and  *)
(* mDrainXQueuePending says so.                                              *)
DrainIsPosted ==
    \A t \in AV :
        /\ r.posted[t] = IF t \in r.pending THEN 1 ELSE 0
        /\ r.queue[t] # <<>> /\ ~r.paused /\ ~r.sync => t \in r.pending \/ Abandoned(t)

HowMany(q, what, t) == Cardinality({i \in 1..Len(q) : q[i].what = what /\ q[i].trk = t})

(* A buffer is in its codec's hands, queued, or in one message: none is lost or *)
(* given back twice, whichever way it leaves the queue.                       *)
BufferInOneHand ==
    \A t \in AV :
        hand[t] + HowMany(mainQ, "QueueBuffer", t)
                + Buffers(r.queue[t])
                + HowMany(mainQ, "OutputBufferDrained", t)
                + HowMany(videoQ, "OutputBufferDrained", t) = NumBuffers

NoBufferLost == TypeOK /\ BufferInOneHand

VideoFrameDrained ==
    /\ r.queue[Video] # <<>> /\ Head(r.queue[Video]) = "buffer"
    /\ r'.queue[Video] = Tail(r.queue[Video]) /\ r'.flushing = r.flushing

(* Without audio, no video frame is timed by an anchor from before a pause: it  *)
(* would come late by the length of the pause.                                *)
TimedAfterPause ==
    [][VideoFrameDrained /\ Audio \notin r.has /\ Video \notin r.flushing => r.anchor # "old"]_rvars

(* The loopers deliver, a drain falls due, the sink has room again and again,   *)
(* both codecs go on giving buffers, and the audio catches up with the video.   *)
Fairness ==
    /\ WF_rvars(Handles) /\ WF_rvars(VideoHeard)
    /\ WF_rvars(DrainVideo)
    /\ SF_rvars(DrainAudio(1, FALSE)) /\ SF_rvars(DrainAudioEnd)
    /\ \A t \in AV : WF_rvars(QueueBuffer(t))
    /\ SF_rvars(OnQueueBuffer /\ r.sync /\ ~r'.sync)

FairSpec == Spec /\ Fairness

(* Unless the player rests, or the sink has left the audio without a drain, a     *)
(* codec whose buffers are all with the renderer gets one back: the queues do not   *)
(* wait for each other for ever, and the video never for a sink that failed.      *)
BuffersComeBack ==
    \A t \in AV : hand[t] = 0 ~> hand[t] > 0 \/ resting \/ r.failed # "none" \/ Abandoned(t)

=============================================================================
