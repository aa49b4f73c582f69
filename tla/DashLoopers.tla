----------------------------- MODULE DashLoopers -----------------------------
(***************************************************************************)
(* The event loops of the player.  DashPlayer, its Renderer, its Decoders  *)
(* and the audio DashCodec are handlers of ONE ALooper; the video DashCodec *)
(* has an ALooper of its own (DashPlayerDecoder.cpp, Decoder::configure).   *)
(* A looper delivers the messages posted to it one at a time, in the order *)
(* they were posted; a message posted with a delay is delivered later, in  *)
(* an order of its own, so it is kept aside until it falls due.             *)
(*                                                                         *)
(* A message is [to, what, trk, arg]: the handler, the message, the track  *)
(* it is about and one word of payload.                                    *)
(***************************************************************************)
EXTENDS Integers, Sequences, FiniteSets

Video == "video"
Audio == "audio"
Text  == "text"

(* kVideo and kAudio: the tracks that have a flush status and a DashCodec.  *)
AV == {Video, Audio}

Handlers == {"player", "renderer", "decoder", "codec"}

Whats == {"SetDataSource", "Start", "ScanSources", "Reset", "Seek", "Pause", "Resume",
          "FillThisBuffer", "DrainThisBuffer", "EOS", "FlushCompleted",
          "ShutdownCompleted", "Error", "RendererEOS",
          "QueueBuffer", "QueueEOS", "Flush",
          "AudioSinkChanged", "Setup", "Shutdown", "InputBufferFilled", "OutputBufferDrained"}

Args == {"-", "ok", "eos", "err", "cur", "old"}

(* The end of a stream carries its reason, a filled buffer its result.        *)
Message ==
    {m \in [to : Handlers, what : Whats, trk : AV \cup {"-"}, arg : Args] :
        /\ m.what \in {"EOS", "QueueEOS"} => m.arg \in {"eos", "err"}
        /\ m.what = "InputBufferFilled" => m.arg \in {"ok", "eos", "err"}}

Msg(to, what, trk, arg) == [to |-> to, what |-> what, trk |-> trk, arg |-> arg]

VARIABLES
    mainQ,       \* messages posted to the player's looper, oldest first
    videoQ,      \* messages posted to the video DashCodec's looper
    scanTimers,  \* delayed kWhatScanSources: how many of the current generation, how many older
    fillTimers   \* tracks whose kWhatFillThisBuffer waits to be retried

looperVars == <<mainQ, videoQ, scanTimers, fillTimers>>

LoopersTypeOK ==
    /\ mainQ \in Seq(Message)
    /\ videoQ \in Seq(Message)
    /\ scanTimers \in [{"cur", "old"} -> Nat]
    /\ fillTimers \subseteq AV

LoopersInit ==
    /\ mainQ = <<>>
    /\ videoQ = <<>>
    /\ scanTimers = [g \in {"cur", "old"} |-> 0]
    /\ fillTimers = {}

-----------------------------------------------------------------------------
(* A message for the DashCodec of track t: the part of it that goes to the  *)
(* player's looper and the part that goes to the video codec's.             *)
MainPart(t, m)  == IF t = Audio THEN <<m>> ELSE <<>>
VideoPart(t, m) == IF t = Video THEN <<m>> ELSE <<>>

(* The next message of the player's looper is `what` for handler `to`.      *)
Due(to, what) ==
    /\ mainQ # <<>>
    /\ Head(mainQ).to = to
    /\ Head(mainQ).what = what

(* The queue of the looper that runs the DashCodec of track t.              *)
CodecQueue(t) == IF t = Video THEN videoQ ELSE mainQ

(* The next message for the DashCodec of track t is `what`.                 *)
CodecDue(t, what) ==
    LET q == CodecQueue(t)
    IN  q # <<>> /\ Head(q).to = "codec" /\ Head(q).what = what /\ Head(q).trk = t

(* The DashCodec of t takes the next message of its looper and posts notes,  *)
(* messages for handlers of the player's looper.                            *)
CodecTakes(t, notes) ==
    IF t = Video
    THEN /\ videoQ' = Tail(videoQ)
         /\ mainQ' = mainQ \o notes
    ELSE /\ mainQ' = Tail(mainQ) \o notes
         /\ UNCHANGED videoQ

(* The messages with a generation older than mScanSourcesGeneration, after   *)
(* an increment of it: every kWhatScanSources posted so far.                *)
Obsolete(q) ==
    [i \in 1..Len(q) |-> IF q[i].what = "ScanSources" THEN [q[i] EXCEPT !.arg = "old"] ELSE q[i]]

ObsoleteTimers(tm) ==
    [g \in {"cur", "old"} |-> IF g = "cur" THEN 0 ELSE tm["cur"] + tm["old"]]

(* Mutant: a scan is delivered that was never posted.                       *)
ScanTimerFires_Unposted(g) ==
    /\ scanTimers' = [scanTimers EXCEPT ![g] = @ - 1]
    /\ mainQ' = Append(mainQ, Msg("player", "ScanSources", "-", g))
    /\ UNCHANGED <<videoQ, fillTimers>>

(* A delayed kWhatScanSources of generation g falls due.                    *)
ScanTimerFires(g) ==
    /\ scanTimers[g] > 0
    /\ scanTimers' = [scanTimers EXCEPT ![g] = @ - 1]
    /\ mainQ' = Append(mainQ, Msg("player", "ScanSources", "-", g))
    /\ UNCHANGED <<videoQ, fillTimers>>

(* The retry of a kWhatFillThisBuffer falls due.                            *)
FillTimerFires(t) ==
    /\ t \in fillTimers
    /\ fillTimers' = fillTimers \ {t}
    /\ mainQ' = Append(mainQ, Msg("player", "FillThisBuffer", t, "-"))
    /\ UNCHANGED <<videoQ, scanTimers>>

=============================================================================
