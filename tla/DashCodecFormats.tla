--------------------------- MODULE DashCodecFormats ---------------------------
(***************************************************************************)
(* How DashCodec tells of a change of the output format (DashCodec.cpp).  The   *)
(* component changes its format and posts an event; buffers it fills afterwards   *)
(* have the new one, and both reach the codec in order, later.  Ordinarily the    *)
(* codec announces the format with the first buffer it hands on; for adaptive     *)
(* playback it marks that buffer, and announces the format when the renderer       *)
(* gives it back, just before the window shows it.  Formats are numbered.       *)
(***************************************************************************)
EXTENDS Integers, Sequences, SequencesExt

CONSTANTS
    Trusted,         \* what the component and the stream are trusted with, see below
    LastFormat,      \* a bound: how often the format changes
    Depth            \* a bound: the buffers that hold a frame

(* "settled"   the format changes only when the codec is done with the last change; *)
(* "one port"  with adaptive playback every size fits the buffers there are.       *)
ASSUME FormatAssumption ==
    Trusted \subseteq {"settled", "one port"} /\ LastFormat \in Nat /\ Depth \in Nat

VARIABLES
    current,         \* the component's output format
    stream,          \* what it has posted and the codec has not handled: frames and events
    codec,           \* the codec's fields, see FormatsInit
    downstream,      \* the buffers the client has
    last             \* the frame that was handed on last, and the format announced for it

formatVars == <<current, stream, codec, downstream, last>>

Frame(f)   == [what |-> "frame", format |-> f]
Event(e)   == [what |-> e, format |-> 0]
IsFrame(x) == x.what = "frame"

(* Formats are cached with their crop: mFormats stands for mOutputCrops as well.  *)
FormatsInit ==
    /\ current = 1 /\ stream = <<>> /\ downstream = <<>>
    /\ codec \in [mAdaptivePlayback : BOOLEAN, state : {"Executing"}, deferred : {<<>>},
                  mSentFormat : {FALSE}, mPostFormat : {FALSE}, mFormats : {<<>>}, told : {0}]
    /\ last = [format |-> 0, told |-> 0]

-----------------------------------------------------------------------------
(*                             The component                                *)

Events == {"crop", "port", "index"}
Settled == /\ codec.told = current /\ codec.mFormats = <<>>
           /\ IF codec.mAdaptivePlayback THEN codec.mPostFormat ELSE codec.mSentFormat
           /\ \A i \in DOMAIN downstream : ~downstream[i].resChange
           /\ \A i \in DOMAIN (stream \o codec.deferred) : IsFrame((stream \o codec.deferred)[i])

(* It waits for the codec once the port has changed.                          *)
MayProduce ==
    /\ codec.state # "FlushingOutput"
    /\ \A i \in DOMAIN (stream \o codec.deferred) : (stream \o codec.deferred)[i].what # "port"
    /\ Len(SelectSeq(stream, IsFrame)) + Len(downstream) < Depth

ProducesFrame ==
    /\ MayProduce
    /\ stream' = Append(stream, Frame(current))
    /\ UNCHANGED <<current, codec, downstream, last>>

ChangesFormat ==
    /\ MayProduce /\ current < LastFormat
    /\ "settled" \in Trusted => Settled
    /\ current' = current + 1
    /\ \E e \in {"crop", "port"} :
        /\ e = "port" /\ "one port" \in Trusted => ~codec.mAdaptivePlayback
        /\ stream' = Append(stream, Event(e))
    /\ UNCHANGED <<codec, downstream, last>>

ChangesIndex ==
    /\ MayProduce /\ Len(stream) < Depth
    /\ "settled" \in Trusted => Settled
    /\ stream' = Append(stream, Event("index"))
    /\ UNCHANGED <<current, codec, downstream, last>>

-----------------------------------------------------------------------------
(*                               The codec                                  *)

(* The oldest cached format, or the one the component has now.                 *)
sendFormatChange(c) ==
    [c EXCEPT !.told = IF c.mFormats = <<>> THEN current ELSE Head(c.mFormats),
              !.mFormats = IF @ = <<>> THEN @ ELSE Tail(@),
              !.mSentFormat = TRUE]

(* The format is read when the event is handled, whatever it was when posted.    *)
queueNextFormat(c) == [c EXCEPT !.mFormats = Append(@, current)]

clearCachedFormats(c) == [c EXCEPT !.mFormats = <<>>]

DefersEvent(c, e) == [c EXCEPT !.deferred = Append(@, Event(e))]

(* Mutant: the flags are left as they are.                                     *)
OnPortSettingsChanged_Unmarked(c, e) ==
    IF c.state # "Executing" THEN DefersEvent(c, e)
    ELSE IF e = "port" THEN [c EXCEPT !.state = "FlushingOutput"]
    ELSE queueNextFormat(c)

OnPortSettingsChanged(c, e) ==
    IF c.state # "Executing" THEN DefersEvent(c, e)
    ELSE IF e = "port" THEN [c EXCEPT !.state = "FlushingOutput"]
    ELSE queueNextFormat([c EXCEPT !.mSentFormat = FALSE, !.mPostFormat = FALSE])

(* The messages that were deferred are delivered to the state that is entered.    *)
EnterExecutingState(c) ==
    FoldLeft(LAMBDA d, x : OnPortSettingsChanged(d, x.what),
             [c EXCEPT !.state = "Executing", !.deferred = <<>>], c.deferred)

Takes == stream # <<>> /\ stream' = Tail(stream) /\ UNCHANGED current

OnEvent ==
    /\ Takes
    /\ \/ /\ Head(stream).what \in {"crop", "port"}
          /\ codec' = OnPortSettingsChanged(codec, Head(stream).what)
       \/ /\ Head(stream).what = "index"
          /\ codec' = [codec EXCEPT !.mSentFormat = @ /\ codec.state # "Executing"]
    /\ UNCHANGED <<downstream, last>>

(* A buffer that comes back while the codec keeps its buffers is not handed on.   *)
OnFillBufferDone ==
    /\ Takes /\ IsFrame(Head(stream))
    /\ LET f == Head(stream).format
           c == IF ~codec.mAdaptivePlayback /\ ~codec.mSentFormat THEN sendFormatChange(codec) ELSE codec
           resChange == c.mAdaptivePlayback /\ ~c.mPostFormat
       IN  IF codec.state = "Executing"
           THEN /\ codec' = [c EXCEPT !.mPostFormat = @ \/ resChange]
                /\ downstream' = Append(downstream, [format |-> f, resChange |-> resChange])
                /\ last' = IF c.mAdaptivePlayback THEN last ELSE [format |-> f, told |-> c.told]
           ELSE UNCHANGED <<codec, downstream, last>>

(* The renderer gives buffers back in order, whether it renders them or not.      *)
OnOutputBufferDrained ==
    /\ downstream # <<>> /\ downstream' = Tail(downstream)
    /\ LET d == Head(downstream)
           c == IF codec.mAdaptivePlayback /\ d.resChange THEN sendFormatChange(codec) ELSE codec
       IN  /\ codec' = c
           /\ \E render \in BOOLEAN :
                last' = IF render /\ c.mAdaptivePlayback THEN [format |-> d.format, told |-> c.told] ELSE last
    /\ UNCHANGED <<current, stream>>

OnFlush ==
    /\ codec.state = "Executing"
    /\ codec' = clearCachedFormats([codec EXCEPT !.state = "Flushing"])
    /\ UNCHANGED <<current, stream, downstream, last>>

(* All buffers are back: the flush of both ports, or the one before a change of    *)
(* the output port, and with it that change, is complete.                       *)
AllOursAgain == downstream = <<>> /\ \A i \in DOMAIN stream : ~IsFrame(stream[i])

FlushCompletes ==
    /\ codec.state = "Flushing" /\ AllOursAgain
    /\ codec' = EnterExecutingState(codec)
    /\ UNCHANGED <<current, stream, downstream, last>>

PortReenabled ==
    /\ codec.state = "FlushingOutput" /\ AllOursAgain
    /\ codec' = EnterExecutingState([codec EXCEPT !.mSentFormat = FALSE])
    /\ UNCHANGED <<current, stream, downstream, last>>

FormatsNext ==
    \/ ProducesFrame \/ ChangesFormat \/ ChangesIndex
    \/ OnEvent \/ OnFillBufferDone \/ OnOutputBufferDrained
    \/ OnFlush \/ FlushCompletes \/ PortReenabled

FormatsSpec == FormatsInit /\ [][FormatsNext]_formatVars

-----------------------------------------------------------------------------
(* A frame is shown in its own format: ordinarily the client has been told of it    *)
(* when the frame is handed on, and for adaptive playback the window is cropped to   *)
(* it when the frame is queued there (DashCodec.cpp:3033, "Resolution will change     *)
(* from this buffer"), whatever is flushed or deferred between the two.          *)
FormatFitsFrame == last.told = last.format
=============================================================================
