------------------------------ MODULE DashCodec ------------------------------
(***************************************************************************)
(* DashCodec (DashCodec.cpp): the state machine that drives one OMX          *)
(* component.  Its ten states, the owner of every buffer, the deferred       *)
(* messages, the change of the output port and the exchange of buffers with  *)
(* the native window are modelled; the formats are in DashCodecFormats.      *)
(*                                                                         *)
(* A handler is an operator on the record `c`: what it posts to the Decoder  *)
(* is collected in c.post.  The component is external: it obeys one command  *)
(* at a time, and returns the buffers of a port before it reports the port   *)
(* flushed or itself idle.  Its callbacks are handled when it makes them.    *)
(***************************************************************************)
EXTENDS Integers, Sequences, SequencesExt, FiniteSets

CONSTANTS
    NumInput,       \* buffers of the input port
    NumOutput,      \* buffers of the output port
    HasWindow,      \* mNativeWindow # NULL
    MinUndequeued,  \* buffers the native window always keeps
    Budget,         \* how often the player flushes, the component changes its port or fails, and
                    \* the window has no buffer to give
    Assumed         \* what the environment is trusted with, see Trusts

Events == {"flush", "port", "error", "window"}

(* "final": a codec whose stream has ended is shut down and not resumed.       *)
Trusts == {"final"}

ASSUME CodecAssumption ==
    /\ NumInput \in Nat \ {0} /\ NumOutput \in Nat \ {0}
    /\ HasWindow \in BOOLEAN /\ Assumed \subseteq Trusts
    /\ MinUndequeued \in 0..(NumOutput - 1)
    /\ Budget \in [Events -> Nat]

Inputs  == 1..NumInput
Outputs == 1..NumOutput

StateNames == {"Uninitialized", "Loaded", "LoadedToIdle", "IdleToExecuting", "Executing",
               "FlushingOutput", "OutputPortSettingsChanged", "Flushing",
               "ExecutingToIdle", "IdleToLoaded"}

Commands == {"none", "Idle", "Executing", "Loaded", "Flush", "FlushOutput", "Disable", "Enable"}

\* A message to the codec, or of the codec to its Decoder.
Mesg(what, buf, arg) == [what |-> what, buf |-> buf, arg |-> arg]
Plain(what) == Mesg(what, 0, "-")

VARIABLES
    c,       \* the codec
    inbox,   \* the messages of its looper that are for it
    outbox,  \* what it has posted to the Decoder
    player,  \* where the player is in its protocol
    held,    \* the buffers the player has in hand, and whether it has sent the end
    left     \* what is left of the budget

vars == <<c, inbox, outbox, player, held, left>>

NoBuffers == [b \in {} |-> "us"]

(* missed is history: the codec was in FlushingOutput when it was resumed.      *)
NewCodec ==
    [state |-> "Uninitialized", active |-> FALSE, in |-> NoBuffers, out |-> NoBuffers,
     ieos |-> FALSE, oeos |-> FALSE, res |-> "no", shutdown |-> FALSE, nowIdle |-> FALSE,
     flushed |-> {}, deferred |-> <<>>, post |-> <<>>, missed |-> FALSE,
     cmd |-> "none", ending |-> FALSE, bad |-> "none"]

Init ==
    /\ c = NewCodec
    /\ inbox = <<Plain("Setup")>> /\ outbox = <<>>
    /\ player = "playing"
    /\ held = [in |-> {}, out |-> {}, ended |-> FALSE]
    /\ left = Budget

TypeOK ==
    /\ c.state \in StateNames /\ c.cmd \in Commands /\ c.post = <<>>
    /\ c.in \in [DOMAIN c.in -> {"us", "up", "component"}] /\ DOMAIN c.in \in {{}, Inputs}
    /\ c.out \in [DOMAIN c.out -> {"us", "down", "component", "window"}]
    /\ DOMAIN c.out \in SUBSET Outputs
    /\ c.res \in {"no", "eos", "err"} /\ c.flushed \subseteq {"in", "out"}
    /\ player \in {"playing", "flushing", "flushed", "stopping", "gone"}
    /\ held.in \subseteq Inputs /\ held.out \subseteq Outputs
    /\ left \in [Events -> Nat]

-----------------------------------------------------------------------------
(*                              Helpers                                     *)

Posts(k, m) == [k EXCEPT !.post = Append(@, m)]

Defers(k, m) == [k EXCEPT !.deferred = Append(@, m)]

Fails(k, check) == [k EXCEPT !.bad = check]

(* sendCommand: the component obeys one command at a time.                   *)
Sends(k, cmd) == IF k.cmd = "none" THEN [k EXCEPT !.cmd = cmd] ELSE Fails(k, "sendCommand")

SignalsError(k) == Posts(k, Plain("Error"))

(* Mutant: a buffer at the window is taken for somebody else's.               *)
Ours_NotWindow(ports) == \A b \in DOMAIN ports : ports[b] = "us"

Ours(ports) == \A b \in DOMAIN ports : ports[b] \in {"us", "window"}

(* Mutant: a buffer that is downstream counts as ours.                       *)
AllOurs_InputOnly(k) == Ours(k.in)

(* allYourBuffersAreBelongToUs.                                             *)
AllOurs(k) == Ours(k.in) /\ Ours(k.out)

(* postFillThisBuffer.                                                      *)
PostFill(k, b) ==
    IF k.ieos THEN k
    ELSE IF k.in[b] # "us" THEN Fails(k, "postFillThisBuffer: status")
    ELSE Posts([k EXCEPT !.in[b] = "up"], Mesg("FillThisBuffer", b, "-"))

(* getMoreInputDataIfPossible: the last buffer of ours.                      *)
MoreInput(k) ==
    LET ours == {b \in DOMAIN k.in : k.in[b] = "us"}
    IN  IF ours = {} THEN k ELSE PostFill(k, CHOOSE b \in ours : \A d \in ours : d <= b)

(* emptyBuffer: the component gets an access unit, or the end of the stream.  *)
EmptyBuffer(k, b, res) ==
    IF res = "ok" THEN [k EXCEPT !.in[b] = "component"]
    ELSE [k EXCEPT !.in[b] = "component", !.ieos = TRUE, !.res = res, !.ending = TRUE]

(* Mutant: the buffers that are at the window are submitted too.              *)
SubmitOutputs_All(k) == [k EXCEPT !.out = [b \in DOMAIN @ |-> "component"]]

(* submitOutputBuffers: all but those at the window.                         *)
SubmitOutputs(k) ==
    IF \E b \in DOMAIN k.out : k.out[b] \notin {"us", "window"}
    THEN Fails(k, "submitOutputBuffers: status")
    ELSE [k EXCEPT !.out = [b \in DOMAIN @ |-> IF @[b] = "window" THEN "window" ELSE "component"]]

(* ExecutingState::resume.                                                  *)
Resumed(k) ==
    IF k.active THEN k ELSE [PostFill(SubmitOutputs(k), 1) EXCEPT !.active = TRUE]

(* The native window gives one of its buffers back, but the last ones.        *)
Spare(k) ==
    LET there == {b \in DOMAIN k.out : k.out[b] = "window"}
    IN  IF Cardinality(there) > MinUndequeued THEN there ELSE {}

(* LoadedState::onShutdown(false): the node is freed.                        *)
FreesNode(k) ==
    Posts([k EXCEPT !.state = "Uninitialized", !.shutdown = FALSE], Plain("ShutdownCompleted"))

(* allocateBuffersOnPort: the window gets back the last ones.                *)
AllocateOutputs(k) ==
    [k EXCEPT !.out = [b \in Outputs |-> IF HasWindow /\ b > NumOutput - MinUndequeued
                                         THEN "window" ELSE "us"]]

AllocateInputs(k) == [k EXCEPT !.in = [b \in Inputs |-> "us"]]

-----------------------------------------------------------------------------
(*              Messages, in each state of the state machine                *)

(* BaseState::onInputBufferFilled.                                          *)
InputFilled(k, m) ==
    LET back == [k EXCEPT !.in[m.buf] = "us"]
        resubmit == k.state \in {"Executing", "OutputPortSettingsChanged"}
        fed == EmptyBuffer(back, m.buf, m.arg)
    IN  IF m.buf \notin DOMAIN k.in \/ k.in[m.buf] # "up" THEN Fails(k, "onInputBufferFilled: status")
        ELSE IF k.ieos THEN back
        ELSE IF resubmit THEN IF m.arg = "ok" THEN MoreInput(fed) ELSE fed
        ELSE IF m.arg = "ok" THEN back ELSE [back EXCEPT !.ieos = TRUE, !.res = m.arg]

(* Mutant: a flush that arrives during a change of the port is forgotten.     *)
OnFlush_Forgets(k, m) ==
    CASE k.state = "Executing" ->
            Sends([k EXCEPT !.state = "Flushing", !.active = FALSE, !.flushed = {}], "Flush")
      [] k.state \in {"FlushingOutput", "OutputPortSettingsChanged", "Flushing"} -> k
      [] OTHER -> Posts(k, Plain("FlushCompleted"))

OnFlush(k, m) ==
    CASE k.state = "Executing" ->
            Sends([k EXCEPT !.state = "Flushing", !.active = FALSE, !.flushed = {}, !.missed = FALSE],
                  "Flush")
      [] k.state \in {"FlushingOutput", "OutputPortSettingsChanged"} -> Defers(k, m)
      [] k.state = "Flushing" -> k
      [] OTHER -> Posts(k, Plain("FlushCompleted"))

OnShutdown(k, m) ==
    CASE k.state = "Executing" ->
            Sends([k EXCEPT !.state = "ExecutingToIdle", !.active = FALSE,
                            !.shutdown = TRUE, !.nowIdle = FALSE], "Idle")
      [] k.state = "Uninitialized" -> Posts(k, Plain("ShutdownCompleted"))
      [] k.state = "Loaded" -> FreesNode(k)
      [] k.state \in {"ExecutingToIdle", "IdleToLoaded"} -> k
      [] OTHER -> Defers(k, m)

(* Mutant: a resume that arrives while the port is enabled again is forgotten. *)
OnResume_Forgets(k, m) ==
    CASE k.state = "Executing" -> Resumed(k)
      [] k.state = "FlushingOutput" -> [k EXCEPT !.missed = TRUE]
      [] OTHER -> k

(* FlushingOutput is the one state with a port change under way that does not  *)
(* know the message, and drops it.                                           *)
OnResume(k, m) ==
    CASE k.state = "Executing" -> Resumed(k)
      [] k.state = "OutputPortSettingsChanged" -> Defers(k, m)
      [] k.state = "FlushingOutput" -> [k EXCEPT !.missed = TRUE]
      [] OTHER -> k

(* OMX_EventPortSettingsChanged of the output port.                          *)
OnPortChanged(k, m) ==
    CASE k.state = "Executing" ->
            Sends([k EXCEPT !.state = "FlushingOutput", !.flushed = {}], "FlushOutput")
      [] k.state \in {"Flushing", "FlushingOutput"} -> Defers(k, m)
      [] OTHER -> k

(* A message in the state the codec is in, up to the change of state that     *)
(* owning every buffer brings.                                               *)
Deliver(k, m) ==
    CASE m.what = "Flush" -> OnFlush(k, m)
      [] m.what = "Shutdown" -> OnShutdown(k, m)
      [] m.what = "Resume" -> OnResume(k, m)
      [] m.what = "PortSettingsChanged" -> OnPortChanged(k, m)
      [] m.what = "InputBufferFilled" ->
            IF k.state = "FlushingOutput" THEN Defers(k, m) ELSE InputFilled(k, m)

(* Mutant: what was deferred is forgotten.                                   *)
EnterExecuting_Forgets(k) == [k EXCEPT !.state = "Executing", !.deferred = <<>>]

(* ExecutingState::stateEntered, processDeferredMessages.                    *)
EnterExecuting(k) ==
    FoldLeft(Deliver, [k EXCEPT !.state = "Executing", !.deferred = <<>>], k.deferred)

(* FlushingOutputState: the port is disabled and its buffers freed.           *)
DisablesPort(k) ==
    Sends([k EXCEPT !.state = "OutputPortSettingsChanged", !.ieos = FALSE, !.oeos = FALSE,
                    !.out = NoBuffers], "Disable")

(* changeStateIfWeOwnAllBuffers of the three states that have it.             *)
ChangeState(k) ==
    CASE k.state = "Flushing" /\ k.flushed = {"in", "out"} /\ AllOurs(k) ->
            EnterExecuting(Posts([k EXCEPT !.ieos = FALSE, !.oeos = FALSE, !.res = "no"],
                                 Plain("FlushCompleted")))
      [] k.state = "FlushingOutput" /\ k.flushed = {"out"} /\ Ours(k.out) -> DisablesPort(k)
      [] k.state = "ExecutingToIdle" /\ k.nowIdle /\ AllOurs(k) ->
            Sends([k EXCEPT !.state = "IdleToLoaded", !.in = NoBuffers, !.out = NoBuffers], "Loaded")
      [] OTHER -> k

-----------------------------------------------------------------------------
(*                          Steps of the looper                             *)

(* The codec becomes k, and what it has posted goes to the Decoder's looper.   *)
Becomes(k) ==
    /\ c' = [k EXCEPT !.post = <<>>]
    /\ outbox' = outbox \o k.post

Running == c.bad = "none"

Spend(what) == left[what] > 0 /\ left' = [left EXCEPT ![what] = @ - 1]

Takes(what) ==
    /\ Running /\ inbox # <<>> /\ Head(inbox).what = what
    /\ inbox' = Tail(inbox)
    /\ UNCHANGED <<player, held>>

(* kWhatSetup: a node is allocated and configured, and starts.               *)
Setup ==
    /\ Takes("Setup")
    /\ Becomes(Sends(AllocateOutputs(AllocateInputs([c EXCEPT !.state = "LoadedToIdle"])), "Idle"))
    /\ UNCHANGED left

(* There is no node; or it is there and cannot be configured; or there is no  *)
(* memory.                                                                  *)
SetupFails ==
    /\ Takes("Setup")
    /\ \E state \in {"Uninitialized", "Loaded"} : Becomes(SignalsError([c EXCEPT !.state = state]))
    /\ Spend("error")

Control ==
    /\ \E what \in {"Flush", "Shutdown", "Resume"} : Takes(what)
    /\ Becomes(Deliver(c, Head(inbox)))
    /\ UNCHANGED left

InputBufferFilled ==
    /\ Takes("InputBufferFilled")
    /\ Becomes(ChangeState(Deliver(c, Head(inbox))))
    /\ UNCHANGED left

(* A buffer that is ours again goes to the component while output continues.  *)
Refill(k, b) ==
    IF k.state = "Executing" /\ ~k.oeos THEN [k EXCEPT !.out[b] = "component"] ELSE k

(* The window takes the buffer, and a spare comes in exchange: at once in the  *)
(* states that keep buffers, and in Executing unless the output has ended.     *)
Rendered(k, b) ==
    LET shown == [k EXCEPT !.out[b] = "window"]
    IN  IF k.state = "Executing" /\ k.oeos THEN {shown}
        ELSE {Refill([shown EXCEPT !.out[d] = "us"], d) : d \in Spare(shown)}

(* onOutputBufferDrained, with a buffer to show or to drop.                   *)
OutputBufferDrained ==
    LET m == Head(inbox)
    IN  /\ Takes("OutputBufferDrained")
        /\ IF m.buf \notin DOMAIN c.out \/ c.out[m.buf] # "down"
           THEN Becomes(Fails(c, "onOutputBufferDrained: status"))
           ELSE \E k \in IF HasWindow /\ m.arg = "render" THEN Rendered(c, m.buf)
                         ELSE {Refill([c EXCEPT !.out[m.buf] = "us"], m.buf)} :
                    Becomes(ChangeState(k))
        /\ UNCHANGED left

(* The window takes the buffer, and dequeueBufferFromNativeWindow gets none for  *)
(* it: one buffer more stays at the window.                                  *)
DequeueFails ==
    LET m == Head(inbox)
    IN  /\ Takes("OutputBufferDrained")
        /\ HasWindow /\ m.arg = "render"
        /\ m.buf \in DOMAIN c.out /\ c.out[m.buf] = "down"
        /\ ~(c.state = "Executing" /\ c.oeos)
        /\ Becomes(ChangeState([c EXCEPT !.out[m.buf] = "window"]))
        /\ Spend("window")

(* The window refuses the buffer, which is then ours.                        *)
RenderFails ==
    LET m == Head(inbox)
    IN  /\ Takes("OutputBufferDrained")
        /\ HasWindow /\ m.arg = "render"
        /\ m.buf \in DOMAIN c.out /\ c.out[m.buf] = "down"
        /\ Becomes(ChangeState(Refill([SignalsError(c) EXCEPT !.out[m.buf] = "us"], m.buf)))
        /\ Spend("error")

-----------------------------------------------------------------------------
(*                     Callbacks of the OMX component                       *)

Callback == Running /\ UNCHANGED <<inbox, player, held>>

(* EMPTY_BUFFER_DONE.                                                       *)
EmptyBufferDone(b) ==
    LET back == [c EXCEPT !.in[b] = "us"]
        resubmit == c.state \in {"Executing", "FlushingOutput", "OutputPortSettingsChanged"}
    IN  /\ Callback
        /\ b \in DOMAIN c.in /\ c.in[b] = "component"
        /\ Becomes(IF resubmit THEN PostFill(back, b) ELSE back)
        /\ UNCHANGED left

(* FILL_BUFFER_DONE with data.                                              *)
FillBufferDone(b) ==
    /\ Callback
    /\ b \in DOMAIN c.out /\ c.out[b] = "component"
    /\ Becomes(IF c.state = "Executing"
               THEN Posts([c EXCEPT !.out[b] = "down"], Mesg("DrainThisBuffer", b, "-"))
               ELSE [c EXCEPT !.out[b] = "us"])
    /\ UNCHANGED left

(* FILL_BUFFER_DONE with the end of the stream, in Executing.                 *)
FillBufferDoneEOS(b) ==
    /\ Callback
    /\ c.ending /\ c.state = "Executing"
    /\ b \in DOMAIN c.out /\ c.out[b] = "component"
    /\ Becomes(Posts([c EXCEPT !.out[b] = "us", !.oeos = TRUE, !.ending = FALSE],
                     Mesg("EOS", 0, c.res)))
    /\ UNCHANGED left

Returned(port) == \A b \in DOMAIN port : port[b] # "component"

(* The commands each state CHECKs the CmdComplete against.                     *)
CommandOf ==
    [LoadedToIdle |-> {"Idle"}, IdleToExecuting |-> {"Executing"}, ExecutingToIdle |-> {"Idle"},
     IdleToLoaded |-> {"Loaded"}, Flushing |-> {"Flush"}, FlushingOutput |-> {"FlushOutput"},
     OutputPortSettingsChanged |-> {"Disable", "Enable"}]

Completes(cmd) ==
    /\ Callback
    /\ c.cmd = cmd
    /\ c.state \in DOMAIN CommandOf /\ cmd \in CommandOf[c.state]
    /\ UNCHANGED left

Obeyed == [c EXCEPT !.cmd = "none"]

NowIdle ==
    /\ Completes("Idle")
    /\ IF c.state = "LoadedToIdle"
       THEN Becomes(Sends([Obeyed EXCEPT !.state = "IdleToExecuting"], "Executing"))
       ELSE Returned(c.in) /\ Returned(c.out) /\ Becomes(ChangeState([Obeyed EXCEPT !.nowIdle = TRUE]))

NowExecuting ==
    /\ Completes("Executing")
    /\ Becomes(EnterExecuting(Resumed(Obeyed)))

(* Loaded is entered while mShutdownInProgress.                              *)
NowLoaded ==
    /\ Completes("Loaded")
    /\ Becomes(IF c.shutdown THEN FreesNode(Obeyed) ELSE [Obeyed EXCEPT !.state = "Loaded"])

(* The two ports are reported one by one; after the input port the component   *)
(* has forgotten the end of its stream.                                      *)
NowFlushed(port) ==
    LET last == c.flushed \cup {port} = {"in", "out"}
        k == [IF last THEN Obeyed ELSE c EXCEPT !.flushed = @ \cup {port},
                                                !.ending = @ /\ port # "in"]
    IN  /\ Completes("Flush")
        /\ port \notin c.flushed
        /\ Returned(IF port = "in" THEN c.in ELSE c.out)
        /\ Becomes(IF last THEN ChangeState(k) ELSE k)

NowOutputFlushed ==
    /\ Completes("FlushOutput")
    /\ Returned(c.out)
    /\ Becomes(ChangeState([Obeyed EXCEPT !.flushed = {"out"}]))

(* The port is disabled: it is enabled again with new buffers.               *)
NowDisabled ==
    /\ Completes("Disable")
    /\ Becomes(IF DOMAIN c.out # {} THEN Fails(c, "port disabled: buffers")
               ELSE AllocateOutputs(Sends(Obeyed, "Enable")))

(* There are no new buffers: the node is freed, whatever it was doing.         *)
NowDisabledFails ==
    /\ Running /\ UNCHANGED <<inbox, player, held>>
    /\ c.cmd = "Disable" /\ c.state = "OutputPortSettingsChanged" /\ DOMAIN c.out = {}
    /\ Becomes(FreesNode(SignalsError(Obeyed)))
    /\ Spend("error")

(* Mutant: an active codec does not get the new buffers.                      *)
NowEnabled_Starved ==
    /\ Completes("Enable")
    /\ Becomes(EnterExecuting(Obeyed))

NowEnabled ==
    /\ Completes("Enable")
    /\ Becomes(EnterExecuting(IF c.active THEN SubmitOutputs(Obeyed) ELSE Obeyed))

(* OMX_EventPortSettingsChanged.                                            *)
PortSettingsChanged ==
    /\ Running /\ UNCHANGED <<inbox, player, held>>
    /\ c.state \in {"Executing", "Flushing", "FlushingOutput"}
    /\ Becomes(Deliver(c, Plain("PortSettingsChanged")))
    /\ Spend("port")

(* OMX_EventError, in the states that look at it.                            *)
ComponentError ==
    /\ Running /\ UNCHANGED <<inbox, player, held>>
    /\ c.state \notin {"Uninitialized", "Loaded", "OutputPortSettingsChanged"}
    /\ Becomes(SignalsError(c))
    /\ Spend("error")

-----------------------------------------------------------------------------
(*        The player's side, as DashPlayer and its Decoder behave           *)

Asks(m) == inbox' = Append(inbox, m) /\ UNCHANGED <<c, outbox>>

(* A note is taken from the looper: a request is kept until it is answered.   *)
Hears ==
    LET m == Head(outbox)
    IN  /\ Running /\ outbox # <<>>
        /\ outbox' = Tail(outbox)
        /\ held' = CASE m.what = "FillThisBuffer" -> [held EXCEPT !.in = @ \cup {m.buf}]
                     [] m.what = "DrainThisBuffer" -> [held EXCEPT !.out = @ \cup {m.buf}]
                     [] OTHER -> held
        /\ player' = CASE m.what = "FlushCompleted" /\ player = "flushing" -> "flushed"
                       [] m.what = "ShutdownCompleted" /\ player = "stopping" -> "gone"
                       [] OTHER -> player
        /\ UNCHANGED <<c, inbox, left>>

Signals(what, from, to) ==
    /\ Running /\ player = from
    /\ player' = to
    /\ Asks(Plain(what))
    /\ UNCHANGED held

PlayerFlushes == Signals("Flush", "playing", "flushing") /\ Spend("flush")
PlayerResumes ==
    /\ "final" \in Assumed => ~held.ended
    /\ Signals("Resume", "flushed", "playing") /\ UNCHANGED left
PlayerShutsDown == Signals("Shutdown", "flushed", "stopping") /\ UNCHANGED left

(* feedDecoderInputData; during a flush the answer is an error.               *)
Fills(b) ==
    /\ Running /\ b \in held.in
    /\ \E res \in IF player \in {"flushing", "stopping"} THEN {"err"} ELSE {"ok", "eos"} :
            /\ Asks(Mesg("InputBufferFilled", b, res))
            /\ held' = [held EXCEPT !.in = @ \ {b}, !.ended = @ \/ res = "eos"]
    /\ UNCHANGED <<player, left>>

(* The renderer is done with a buffer.                                       *)
Drains(b) ==
    /\ Running /\ b \in held.out
    /\ held' = [held EXCEPT !.out = @ \ {b}]
    /\ \E how \in {"render", "drop"} : Asks(Mesg("OutputBufferDrained", b, how))
    /\ UNCHANGED <<player, left>>

-----------------------------------------------------------------------------
Handles == Setup \/ Control \/ InputBufferFilled \/ OutputBufferDrained

Returns == (\E b \in Inputs : EmptyBufferDone(b)) \/ (\E b \in Outputs : FillBufferDone(b))

Obeys ==
    \/ NowIdle \/ NowExecuting \/ NowLoaded
    \/ \E port \in {"in", "out"} : NowFlushed(port)
    \/ NowOutputFlushed \/ NowDisabled \/ NowEnabled

Goes == SetupFails \/ RenderFails \/ DequeueFails \/ NowDisabledFails \/ ComponentError \/ PortSettingsChanged

PlayerActs ==
    \/ Hears \/ PlayerFlushes \/ PlayerResumes \/ PlayerShutsDown
    \/ \E b \in Inputs : Fills(b)
    \/ \E b \in Outputs : Drains(b)

Next ==
    \/ Handles \/ Returns
    \/ \E b \in Outputs : FillBufferDoneEOS(b)
    \/ Obeys \/ Goes \/ PlayerActs

Spec == Init /\ [][Next]_vars

-----------------------------------------------------------------------------
(*                             Properties                                   *)

One(b) == IF b THEN 1 ELSE 0

HowMany(q, what, buf) == Cardinality({i \in 1..Len(q) : q[i].what = what /\ q[i].buf = buf})

Queued(what, buf) == HowMany(inbox, what, buf) + HowMany(c.deferred, what, buf)

(* No CHECK of the codec fails: in particular the component reports a command   *)
(* only to a state that waits for it, and is given none while it obeys another.  *)
NoFailedCheck ==
    /\ c.bad = "none"
    /\ c.cmd # "none" => c.state \in DOMAIN CommandOf /\ c.cmd \in CommandOf[c.state]

(* A flush or a shutdown the player waits for is owed by exactly one party:    *)
(* it is queued, deferred, being carried out, or its answer is on the way.     *)
AnswerOwed ==
    /\ Queued("Flush", 0) + One(c.state = "Flushing") + HowMany(outbox, "FlushCompleted", 0)
            = One(player = "flushing")
    /\ Queued("Shutdown", 0) + One(c.state \in {"ExecutingToIdle", "IdleToLoaded"})
            + HowMany(outbox, "ShutdownCompleted", 0) = One(player = "stopping")

(* A buffer the codec has given to the player is in exactly one place, so that *)
(* it comes back, and only once.                                             *)
BufferInOnePlace ==
    /\ \A b \in Inputs :
            HowMany(outbox, "FillThisBuffer", b) + One(b \in held.in) + Queued("InputBufferFilled", b)
                = One(b \in DOMAIN c.in /\ c.in[b] = "up")
    /\ \A b \in Outputs :
            HowMany(outbox, "DrainThisBuffer", b) + One(b \in held.out)
                + Queued("OutputBufferDrained", b) = One(b \in DOMAIN c.out /\ c.out[b] = "down")

AtWindow == Cardinality({b \in DOMAIN c.out : c.out[b] = "window"})

(* An active codec keeps decoding: no output buffer lies idle while output is   *)
(* to come, and the player is asked for input while it may come.               *)
ActiveIsBusy ==
    c.state = "Executing" /\ c.active =>
        /\ c.oeos \/ \A b \in DOMAIN c.out : c.out[b] # "us"
        /\ c.res # "no" \/ \E b \in DOMAIN c.in : c.in[b] # "us"

(* Every other buffer goes around: whatever was flushed, changed or dropped, the *)
(* window of a codec that decodes has its minimum of them, and at most one more  *)
(* for each time it has failed to give one.                                  *)
NoneStaysAtWindow ==
    HasWindow /\ c.state = "Executing" /\ c.active /\ ~c.oeos =>
        AtWindow \in MinUndequeued .. MinUndequeued + (Budget["window"] - left["window"])

(* Buffers go around, wherever they are.                                     *)
BuffersGoAround == TypeOK /\ BufferInOnePlace /\ NoneStaysAtWindow

(* A codec the player has resumed, and does not flush, is active once it is in  *)
(* Executing, since nobody would resume it again: whatever changes of the port   *)
(* meet the flush and the resume, a resume is lost only to FlushingOutput.       *)
ResumedIsActive ==
    player = "playing" /\ c.state = "Executing" => c.active \/ Queued("Resume", 0) = 1 \/ c.missed

-----------------------------------------------------------------------------
(*                              Liveness                                    *)

(* The looper delivers, the component obeys and gives back what a command asks *)
(* it to, and a player that flushes answers every request.                    *)
Fairness ==
    /\ WF_vars(Handles)
    /\ WF_vars(Obeys)
    /\ \A b \in Inputs : WF_vars(c.cmd # "none" /\ EmptyBufferDone(b))
    /\ \A b \in Outputs : WF_vars(c.cmd # "none" /\ FillBufferDone(b))
    /\ WF_vars(Hears)
    /\ \A b \in Inputs : WF_vars(player # "playing" /\ Fills(b))
    /\ \A b \in Outputs : WF_vars(player # "playing" /\ Drains(b))

FairSpec == Spec /\ Fairness

(* A flush is answered, also when it meets a change of the output port.        *)
FlushAnswered == player = "flushing" ~> player # "flushing"

(* A shutdown is answered.                                                  *)
ShutdownAnswered == player = "stopping" ~> player = "gone"

=============================================================================
