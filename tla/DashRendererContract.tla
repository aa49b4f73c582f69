------------------------- MODULE DashRendererContract -------------------------
(***************************************************************************)
(* What the player relies on from its Renderer (DashPlayerRenderer.cpp):     *)
(* two queues of decoded buffers and end-of-stream marks, a flush flag per   *)
(* queue that is raised by the caller and lowered by the kWhatFlush it       *)
(* posts, and a pause flag.  Presentation times, the synchronisation of the *)
(* queues and the audio sink decide WHEN the head of a queue is taken; here  *)
(* it may be taken at any time while the renderer is not paused.            *)
(***************************************************************************)
EXTENDS DashLoopers

VARIABLE renderer

Entry == {"buffer", "eos", "err"}

Renderer == [on       : BOOLEAN,               \* the player holds one
             paused   : BOOLEAN,               \* mPaused
             flushing : SUBSET AV,             \* mFlushingAudio, mFlushingVideo
             queue    : [AV -> Seq(Entry)]]    \* mAudioQueue, mVideoQueue

RendererTypeOK == renderer \in Renderer

NoRenderer == [on |-> FALSE, paused |-> FALSE, flushing |-> {}, queue |-> [t \in AV |-> <<>>]]

NewRenderer == [NoRenderer EXCEPT !.on = TRUE]

RendererInit == renderer = NoRenderer

QueuesEmpty == \A t \in AV : renderer.queue[t] = <<>>

-----------------------------------------------------------------------------
(* notifyConsumed: the reply that hands an output buffer back to its codec.  *)
Consumed(t) == Msg("codec", "OutputBufferDrained", t, "-")

(* The renderer is done with its next message; it posts replies for codecs.   *)
RendererTakes(mainPart, videoPart) ==
    /\ mainQ' = Tail(mainQ) \o mainPart
    /\ videoQ' = videoQ \o videoPart
    /\ UNCHANGED <<scanTimers, fillTimers>>

(* Mutant: a buffer that arrives during a flush is dropped without a reply.   *)
RendererQueueBuffer_Lost ==
    LET t == Head(mainQ).trk
    IN  /\ Due("renderer", "QueueBuffer")
        /\ renderer' = IF renderer.on /\ t \notin renderer.flushing
                       THEN [renderer EXCEPT !.queue[t] = Append(@, "buffer")] ELSE renderer
        /\ RendererTakes(<<>>, <<>>)

(* syncQueuesIfNecessary may drop the head of the audio queue, to be where    *)
(* the video queue starts.                                                   *)
Synced(queue) ==
    IF queue[Audio] # <<>> /\ Head(queue[Audio]) = "buffer"
            /\ queue[Video] # <<>> /\ Head(queue[Video]) = "buffer"
    THEN {queue, [queue EXCEPT ![Audio] = Tail(@)]} ELSE {queue}

(* A message to a renderer the player has unregistered is not delivered.     *)
RendererQueueBuffer ==
    LET t == Head(mainQ).trk
        queue == [renderer.queue EXCEPT ![t] = Append(@, "buffer")]
    IN  /\ Due("renderer", "QueueBuffer")
        /\ IF renderer.on /\ t \notin renderer.flushing
           THEN \E synced \in Synced(queue) :
                    /\ renderer' = [renderer EXCEPT !.queue = synced]
                    /\ RendererTakes(IF synced = queue THEN <<>> ELSE <<Consumed(Audio)>>, <<>>)
           ELSE /\ IF renderer.on
                   THEN RendererTakes(MainPart(t, Consumed(t)), VideoPart(t, Consumed(t)))
                   ELSE RendererTakes(<<>>, <<>>)
                /\ UNCHANGED renderer

RendererQueueEOS ==
    LET m == Head(mainQ)
    IN  /\ Due("renderer", "QueueEOS")
        /\ IF renderer.on /\ m.trk \notin renderer.flushing
           THEN renderer' = [renderer EXCEPT !.queue[m.trk] = Append(@, m.arg)]
           ELSE UNCHANGED renderer
        /\ RendererTakes(<<>>, <<>>)

(* Mutant: the buffers go back, but stay in the queue.                        *)
RendererFlush_KeepsQueue ==
    LET t == Head(mainQ).trk
    IN  /\ Due("renderer", "Flush")
        /\ renderer' = [renderer EXCEPT !.flushing = @ \ {t}]
        /\ RendererTakes(IF renderer.queue[t] = <<>> THEN <<>> ELSE MainPart(t, Consumed(t)),
                         IF renderer.queue[t] = <<>> THEN <<>> ELSE VideoPart(t, Consumed(t)))

(* onFlush: every buffer of the queue goes back to its codec.                *)
RendererFlush ==
    LET t == Head(mainQ).trk
        held == IF \E i \in 1..Len(renderer.queue[t]) : renderer.queue[t][i] = "buffer"
                THEN <<Consumed(t)>> ELSE <<>>
    IN  /\ Due("renderer", "Flush")
        /\ IF renderer.on
           THEN /\ renderer' = [renderer EXCEPT !.queue[t] = <<>>, !.flushing = @ \ {t}]
                /\ RendererTakes(IF t = Audio THEN held ELSE <<>>, IF t = Video THEN held ELSE <<>>)
           ELSE /\ RendererTakes(<<>>, <<>>)
                /\ UNCHANGED renderer

RendererResume ==
    /\ Due("renderer", "Resume")
    /\ renderer' = [renderer EXCEPT !.paused = FALSE]
    /\ RendererTakes(<<>>, <<>>)

(* The head of a queue is rendered, dropped as too late, or reported.         *)
RendererDrain(t) ==
    LET e == Head(renderer.queue[t])
    IN  /\ renderer.on /\ ~renderer.paused
        /\ renderer.queue[t] # <<>>
        /\ renderer' = [renderer EXCEPT !.queue[t] = Tail(@)]
        /\ IF e = "buffer"
           THEN /\ mainQ' = mainQ \o MainPart(t, Consumed(t))
                /\ videoQ' = videoQ \o VideoPart(t, Consumed(t))
           ELSE /\ mainQ' = Append(mainQ, Msg("player", "RendererEOS", t, e))
                /\ UNCHANGED videoQ
        /\ UNCHANGED <<scanTimers, fillTimers>>

=============================================================================
