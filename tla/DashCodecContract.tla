-------------------------- MODULE DashCodecContract --------------------------
(***************************************************************************)
(* What the player relies on from one DashCodec (DashCodec.cpp): when it    *)
(* hands out buffers, and when it answers a flush or a shutdown.  The OMX   *)
(* component behind it is left open: it may return a buffer at any time.    *)
(* A port stands for one buffer.  Module DashCodec models the codec in       *)
(* full and is shown to implement this contract.                            *)
(*                                                                         *)
(* The states of the code's state machine that differ in what they answer  *)
(* are kept: "idle" stands for Uninitialized and Loaded, "starting" for     *)
(* LoadedToIdle and IdleToExecuting, "running" and "stopped" for Executing  *)
(* with mActive set or not, "flushing" for Flushing, "stopping" for         *)
(* ExecutingToIdle and IdleToLoaded.  A change of the output port            *)
(* (FlushingOutput, then OutputPortSettingsChanged) runs beside them: it     *)
(* defers what arrives, so the state is the one the codec will be in; a       *)
(* codec that will resume is "waking".                                      *)
(***************************************************************************)
EXTENDS DashLoopers

VARIABLE codec

States == {"idle", "starting", "running", "stopped", "waking", "flushing", "stopping"}

Codec == [st    : States,
          in    : {"us", "up"},                 \* is the input buffer upstream
          out   : {"us", "down"},               \* is the output buffer downstream
          ieos  : BOOLEAN,                      \* mPortEOS[input]
          eos   : {"no", "eos", "err"},         \* mInputEOSResult
          oeos  : BOOLEAN,                      \* mPortEOS[output]
          defer : BOOLEAN,                      \* a deferred kWhatShutdown
          chg   : {"no", "flushing", "enabling"}]  \* the change of the output port

CodecTypeOK == codec \in [AV -> Codec]

NewCodec == [st |-> "idle", in |-> "us", out |-> "us", ieos |-> FALSE, eos |-> "no",
             oeos |-> FALSE, defer |-> FALSE, chg |-> "no"]

CodecInit == codec = [t \in AV |-> NewCodec]

-----------------------------------------------------------------------------
(* mNotify: a message to the Decoder of track t.                            *)
Notify(t, what, arg) == Msg("decoder", what, t, arg)

(* The codec of t takes a step of its own accord and posts notes.            *)
CodecActs(t, c, notes) ==
    /\ codec' = [codec EXCEPT ![t] = c]
    /\ mainQ' = mainQ \o notes
    /\ UNCHANGED <<videoQ, scanTimers, fillTimers>>

(* The codec of t takes its next message and posts notes.                    *)
CodecHears(t, c, notes) ==
    /\ codec' = [codec EXCEPT ![t] = c]
    /\ CodecTakes(t, notes)
    /\ UNCHANGED <<scanTimers, fillTimers>>

(* postFillThisBuffer, unless the input port has seen its end.               *)
Asked(c)   == [c EXCEPT !.in = IF c.ieos THEN @ ELSE "up"]
Ask(t, c)  == IF c.ieos THEN <<>> ELSE <<Notify(t, "FillThisBuffer", "-")>>

(* ExecutingState::resume: the first input buffer is posted.                 *)
Activated(c) == [Asked(c) EXCEPT !.st = "running"]

(* Mutant: a deferred shutdown is forgotten.                                *)
TakeDeferred_Forgets(c) == [c EXCEPT !.defer = FALSE]

(* A deferred shutdown is taken up as soon as Executing is entered.         *)
TakeDeferred(c) == IF c.defer THEN [c EXCEPT !.st = "stopping", !.defer = FALSE] ELSE c

(* kWhatSetup: the component is found, configured and told to go Idle.      *)
CodecSetup(t) ==
    /\ CodecDue(t, "Setup")
    /\ CodecHears(t, [NewCodec EXCEPT !.st = "starting"], <<>>)

(* kWhatSetup fails: no component, a format it refuses, no memory.           *)
CodecSetupFails(t) ==
    /\ CodecDue(t, "Setup")
    /\ CodecHears(t, NewCodec, <<Notify(t, "Error", "-")>>)

(* The component reports Executing.                                         *)
CodecStarted(t) ==
    /\ codec[t].st = "starting"
    /\ CodecActs(t, TakeDeferred(Activated(codec[t])), Ask(t, codec[t]))

(* kWhatFlush: at once when nothing is running, else after the component    *)
(* and both neighbours have given the buffers back.                         *)
CodecFlush(t) ==
    LET c == codec[t]
    IN  /\ CodecDue(t, "Flush")
        /\ IF c.st \in {"running", "stopped", "waking"}
           THEN CodecHears(t, [c EXCEPT !.st = "flushing"], <<>>)
           ELSE CodecHears(t, c, IF c.st = "flushing" THEN <<>>
                                 ELSE <<Notify(t, "FlushCompleted", "-")>>)

(* allYourBuffersAreBelongToUs, once the component has returned its own.    *)
OwnsAllBuffers(c) == c.in # "up" /\ c.out # "down"

(* Flushing is left.  A change of the output port that the component asked     *)
(* for meanwhile is taken up on entering Executing.                          *)
Flushed(c, again) ==
    TakeDeferred([c EXCEPT !.st = "stopped", !.ieos = FALSE, !.eos = "no", !.oeos = FALSE,
                           !.chg = IF again THEN "flushing" ELSE "no"])

(* FlushingState::changeStateIfWeOwnAllBuffers.                             *)
CodecFlushDone(t, again) ==
    LET c == codec[t]
    IN  /\ c.st = "flushing" /\ c.chg = "no"
        /\ OwnsAllBuffers(c)
        /\ CodecActs(t, Flushed(c, again), <<Notify(t, "FlushCompleted", "-")>>)

(* kWhatShutdown.                                                           *)
CodecShutdown(t) ==
    LET c == codec[t]
    IN  /\ CodecDue(t, "Shutdown")
        /\ CASE c.st \in {"starting", "flushing"} -> CodecHears(t, [c EXCEPT !.defer = TRUE], <<>>)
             [] c.st \in {"running", "stopped", "waking", "stopping"} ->
                    CodecHears(t, [c EXCEPT !.st = "stopping"], <<>>)
             [] OTHER -> CodecHears(t, c, <<Notify(t, "ShutdownCompleted", "-")>>)

(* The component is Idle, then Loaded, and every buffer is back.            *)
CodecShutdownDone(t) ==
    LET c == codec[t]
    IN  /\ c.st = "stopping" /\ c.chg = "no"
        /\ OwnsAllBuffers(c)
        /\ CodecActs(t, NewCodec, <<Notify(t, "ShutdownCompleted", "-")>>)

(* kWhatResume: Executing obeys it, OutputPortSettingsChanged defers it, and  *)
(* every other state, FlushingOutput too, does not know it.                   *)
CodecResume(t) ==
    LET c == codec[t]
    IN  /\ CodecDue(t, "Resume")
        /\ CASE c.st = "stopped" /\ c.chg = "no" -> CodecHears(t, Activated(c), Ask(t, c))
             [] c.st = "stopped" /\ c.chg = "enabling" ->
                    CodecHears(t, [c EXCEPT !.st = "waking"], <<>>)
             [] OTHER -> CodecHears(t, c, <<>>)

(* kWhatInputBufferFilled: an access unit, or the reason there is none.      *)
CodecInputFilled(t) ==
    LET c == codec[t]
        res == Head(CodecQueue(t)).arg
        ends == res # "ok" /\ ~c.ieos /\ c.st # "idle"
    IN  /\ CodecDue(t, "InputBufferFilled")
        /\ CodecHears(t, [c EXCEPT !.in = "us", !.ieos = @ \/ ends,
                                   !.eos = IF ends THEN res ELSE @], <<>>)

(* kWhatOutputBufferDrained.                                                *)
CodecOutputDrained(t) ==
    /\ CodecDue(t, "OutputBufferDrained")
    /\ CodecHears(t, [codec[t] EXCEPT !.out = "us"], <<>>)

(* The native window refuses the buffer, or has none to give in exchange.    *)
CodecOutputDrainedFails(t) ==
    /\ CodecDue(t, "OutputBufferDrained")
    /\ CodecHears(t, [codec[t] EXCEPT !.out = "us"], <<Notify(t, "Error", "-")>>)

(* EMPTY_BUFFER_DONE while buffers are resubmitted: a request for more data.  *)
CodecAsks(t) ==
    LET c == codec[t]
    IN  /\ c.st = "running" \/ (c.st \in {"flushing", "stopping"} /\ c.chg # "no")
        /\ c.in = "us" /\ ~c.ieos
        /\ CodecActs(t, Asked(c), Ask(t, c))

Decoding(c) == c.st = "running" /\ c.chg = "no" /\ c.out = "us" /\ ~c.oeos

(* FILL_BUFFER_DONE in Executing: a decoded buffer for the renderer.         *)
CodecDrains(t) ==
    /\ Decoding(codec[t])
    /\ CodecActs(t, [codec[t] EXCEPT !.out = "down"], <<Notify(t, "DrainThisBuffer", "-")>>)

(* Both at once, in one access unit and one decoded buffer: a bound on how the *)
(* callbacks of the component interleave.                                    *)
CodecDecodes(t) ==
    LET c == codec[t]
    IN  /\ Decoding(c) /\ c.in = "us"
        /\ CodecActs(t, Asked([c EXCEPT !.out = "down"]),
                <<Notify(t, "DrainThisBuffer", "-")>> \o Ask(t, c))

(* FILL_BUFFER_DONE that ends the output, after the end of the input.        *)
CodecEnds(t) ==
    /\ Decoding(codec[t])
    /\ codec[t].eos # "no"
    /\ CodecActs(t, [codec[t] EXCEPT !.oeos = TRUE], <<Notify(t, "EOS", codec[t].eos)>>)

(* OMX_EventPortSettingsChanged: the output port is flushed first.           *)
CodecPortChanges(t) ==
    LET c == codec[t]
    IN  /\ c.st \in {"running", "stopped"} /\ c.chg = "no"
        /\ CodecActs(t, [c EXCEPT !.chg = "flushing"], <<>>)

(* The port is disabled and both ports forget that they have seen their end;   *)
(* an end that arrived in this state was deferred and is not forgotten.        *)
Disabled(c, kept) == [c EXCEPT !.chg = "enabling", !.oeos = FALSE, !.ieos = @ /\ kept]

(* FlushingOutputState::changeStateIfWeOwnAllBuffers.                        *)
CodecPortFlushed(t) ==
    LET c == codec[t]
    IN  /\ c.chg = "flushing" /\ c.out # "down"
        /\ \E kept \in BOOLEAN : CodecActs(t, Disabled(c, kept), <<>>)

(* The output port is enabled again and Executing entered, where the deferred  *)
(* messages are taken up: a resume that was followed by a flush posts its      *)
(* request, and another change of the port makes a resume get lost.            *)
CodecPortDone(t, again) ==
    LET c == codec[t]
        next == [c EXCEPT !.chg = IF again THEN "flushing" ELSE "no"]
    IN  /\ c.chg = "enabling"
        /\ CASE c.st = "waking" /\ ~again -> CodecActs(t, Activated(next), Ask(t, c))
             [] c.st = "waking" /\ again -> CodecActs(t, [next EXCEPT !.st = "stopped"], <<>>)
             [] c.st = "flushing" /\ c.in = "us" ->
                    CodecActs(t, Asked(next), Ask(t, c)) \/ CodecActs(t, next, <<>>)
             [] OTHER -> CodecActs(t, next, <<>>)

(* No buffers for the new settings: the codec gives up and says it has shut    *)
(* down, though nobody asked it to.                                         *)
CodecPortFails(t) ==
    LET c == codec[t]
    IN  /\ c.chg = "enabling"
        /\ CodecActs(t, [NewCodec EXCEPT !.in = c.in, !.out = c.out],
                <<Notify(t, "Error", "-"), Notify(t, "ShutdownCompleted", "-")>>)

(* OMX_EventError: signalError, the state stays.  The state that enables the   *)
(* output port does not look at errors.                                      *)
CodecError(t) ==
    /\ codec[t].st # "idle" /\ codec[t].chg # "enabling"
    /\ CodecActs(t, codec[t], <<Notify(t, "Error", "-")>>)

-----------------------------------------------------------------------------
(* The contract on its own: one codec, with anybody around it.  Others may     *)
(* post to its looper, and handle what it posts.  The handler that gets the    *)
(* last buffer back also changes the state; the player cannot tell that from   *)
(* the two steps it is composed with.                                       *)
LastReturned(t) ==
    LET c == codec[t]
        back == IF CodecDue(t, "InputBufferFilled") THEN [c EXCEPT !.in = "us"]
                ELSE [c EXCEPT !.out = "us"]
    IN  /\ CodecDue(t, "InputBufferFilled") \/ CodecDue(t, "OutputBufferDrained")
        /\ \E notes \in {<<>>, <<Notify(t, "Error", "-")>>} :
            \/ /\ c.st = "flushing" /\ c.chg = "no" /\ OwnsAllBuffers(back)
               /\ \E again \in BOOLEAN :
                    CodecHears(t, Flushed(back, again),
                               Append(notes, Notify(t, "FlushCompleted", "-")))
            \/ /\ c.chg = "flushing" /\ back.out # "down"
               /\ \E kept \in BOOLEAN : CodecHears(t, Disabled(back, kept), notes)

EnvPosts(t) ==
    /\ t = Video
    /\ \E m \in Message : m.to = "codec" /\ m.trk = t /\ videoQ' = Append(videoQ, m)
    /\ UNCHANGED <<codec, mainQ, scanTimers, fillTimers>>

EnvHandles ==
    /\ mainQ # <<>> /\ Head(mainQ).to # "codec"
    /\ mainQ' = Tail(mainQ)
    /\ UNCHANGED <<codec, videoQ, scanTimers, fillTimers>>

CodecNext(t) ==
    \/ CodecSetup(t) \/ CodecSetupFails(t) \/ CodecStarted(t)
    \/ CodecFlush(t) \/ (\E again \in BOOLEAN : CodecFlushDone(t, again))
    \/ CodecShutdown(t) \/ CodecShutdownDone(t) \/ CodecResume(t)
    \/ CodecInputFilled(t) \/ CodecOutputDrained(t) \/ CodecOutputDrainedFails(t)
    \/ CodecAsks(t) \/ CodecDrains(t) \/ CodecEnds(t)
    \/ CodecPortChanges(t) \/ CodecPortFlushed(t) \/ CodecPortFails(t)
    \/ (\E again \in BOOLEAN : CodecPortDone(t, again))
    \/ CodecError(t) \/ LastReturned(t)
    \/ EnvPosts(t) \/ EnvHandles

VideoStart == CodecInit /\ videoQ = <<Msg("codec", "Setup", Video, "-")>> /\ mainQ = <<>>

VideoNext == CodecNext(Video)

VideoSpec == VideoStart /\ [][VideoNext]_<<codec, looperVars>>

=============================================================================
