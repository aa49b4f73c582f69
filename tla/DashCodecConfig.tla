--------------------------- MODULE DashCodecConfig ---------------------------
(***************************************************************************)
(* How DashCodec configures its component (DashCodec.cpp, configureCodec and   *)
(* the setup functions it calls): a sequence of requests the component may      *)
(* refuse one by one.  Each function below is the sequence of steps it takes,   *)
(* each step with what becomes of a refusal:                                 *)
(*   "configure"  configureCodec returns the error at once;                   *)
(*   "setup"      the setup function returns it, and configureCodec goes on     *)
(*                with the size of the input buffers;                         *)
(*   "size"       it is the result of setMinBufferSize;                       *)
(*   "adaptive"   another way to change the size of the video is looked for;   *)
(*   "optional"   the setup function returns OK;                             *)
(*   "CHECK"      the process aborts.                                       *)
(* A loop over the formats or profiles of the component, which ends when one    *)
(* fits or the component has no more, is one step.  The values that are set     *)
(* are those the message gives, by name.                                    *)
(***************************************************************************)
EXTENDS Naturals, Sequences

CONSTANTS
    Messages,        \* the AMessages configureCodec is called with, see Message
    RefusalBudget    \* a bound: how many requests the component refuses

VideoMimes == {"avc", "mpeg4", "h263", "vp8", "mpeg2"}
AudioMimes == {"mp3", "aac", "amr-nb", "amr-wb", "g711", "flac", "raw"}

(* What a message lacks, what it asks for besides, and the numbers that decide   *)
(* something.                                                              *)
Needed   == {"none", "bitrate", "size", "color-format", "frame-rate", "i-frame-interval", "level",
             "channels"}
Extras   == {"metadata", "prepend", "window", "profile", "adts", "max-input-size"}
Message  == [mime : VideoMimes \cup AudioMimes, encoder : BOOLEAN, lacks : Needed, asks : SUBSET Extras,
             channels : {"stereo", "nine"}, interval : {"never", "each", "second"}, rate : {1, 30}]

ASSUME ConfigAssumption == Messages \subseteq Message /\ RefusalBudget \in Nat

-----------------------------------------------------------------------------
(*                               Steps                                      *)

Get(index, port, else)        == [does |-> "get", what |-> <<index, port>>, value |-> "-", else |-> else]
Set(index, port, value, else) == [does |-> "set", what |-> <<index, port>>, value |-> value, else |-> else]
Refuse(else)                  == [does |-> "refuse", what |-> <<"-", "-">>, value |-> "-", else |-> else]

(* getParameter, a change, setParameter: the common pair.                     *)
Change(index, port, value) == <<Get(index, port, "setup"), Set(index, port, value, "setup")>>

When(condition, steps) == IF condition THEN steps ELSE <<>>

RawPort(m)   == IF m.encoder THEN "in" ELSE "out"
CodedPort(m) == IF m.encoder THEN "out" ELSE "in"

-----------------------------------------------------------------------------
(*                          Audio components                                *)

(* OMX_ErrorNone is what a number of channels without a mapping gets.           *)
Mapped(channels) == channels # "nine"

(* Mutant: the sample format is left as it is.                               *)
setupRawAudioFormat_NoMode(port, channels, rate) == Change("PortDefinition", port, "pcm")

setupRawAudioFormat(port, channels, rate) ==
    Change("PortDefinition", port, "pcm")
    \o <<Get("AudioPcm", port, "setup")>>
    \o When(Mapped(channels), <<Set("AudioPcm", port, <<channels, rate>>, "setup")>>)

selectAudioPortFormat(port, coding) == Change("AudioPortFormat", port, coding)

setupAACCodec(m) ==
    When(m.encoder /\ "adts" \in m.asks, <<Refuse("setup")>>)
    \o setupRawAudioFormat(RawPort(m), m.channels, "asked")
    \o When(m.encoder, selectAudioPortFormat("out", "aac") \o Change("PortDefinition", "out", "aac"))
    \o Change("AudioAac", CodedPort(m), <<m.channels, "asked">>)

(* The mode pickModeFromBitRate picks goes with the bit rate that is asked for.  *)
setupAMRCodec(m) ==
    Change("AudioAmr", CodedPort(m), m.mime)
    \o setupRawAudioFormat(RawPort(m), "mono", IF m.mime = "amr-wb" THEN "16000" ELSE "8000")

setupG711Codec(m) ==
    When(m.encoder, <<Refuse("CHECK")>>) \o setupRawAudioFormat("in", m.channels, "8000")

(* A decoder's number of channels and sample rate are never read from the        *)
(* message: the variables that are passed have no value.                     *)
setupFlacCodec(m) ==
    When(m.encoder, Change("AudioFlac", "out", "asked"))
    \o IF m.encoder THEN setupRawAudioFormat("in", m.channels, "asked")
       ELSE setupRawAudioFormat("out", "undefined", "undefined")

-----------------------------------------------------------------------------
(*                          Video components                                *)

setVideoPortFormatType(port, coding) == Change("VideoPortFormat", port, coding)

setSupportedOutputFormat ==
    <<Get("VideoPortFormat", "out", "CHECK"), Set("VideoPortFormat", "out", "first", "setup")>>

(* The frame size is the message's, or the largest for adaptive playback.        *)
setVideoFormatOnPort(port) ==
    <<Get("PortDefinition", port, "CHECK"), Set("PortDefinition", port, "frame", "setup")>>

GetVideoCodingTypeFromMime(mime) == IF mime = "vp8" THEN "unused" ELSE mime

setupVideoDecoder(m) ==
    setVideoPortFormatType("in", GetVideoCodingTypeFromMime(m.mime))
    \o setSupportedOutputFormat
    \o setVideoFormatOnPort("in") \o setVideoFormatOnPort("out")

(* setPFramesSpacing: CHECK(ret > 1) for the product of the two numbers.         *)
setPFramesSpacing(m) == When(m.interval = "second" /\ m.rate = 1, <<Refuse("CHECK")>>)

PFrames(m) == IF m.interval = "second" THEN "rate" ELSE m.interval

(* verifySupportForProfileAndLevel, asked for when the message has a profile.    *)
verifySupportForProfileAndLevel(m) ==
    When("profile" \in m.asks,
         When(m.lacks = "level", <<Refuse("setup")>>) \o <<Get("ProfileLevelQuery", "out", "setup")>>)

configureBitrate == Change("VideoBitrate", "out", "asked")

setupErrorCorrectionParameters ==
    <<Get("ErrorCorrection", "out", "optional"), Set("ErrorCorrection", "out", "resync", "setup")>>

LacksTiming(m) == When(m.lacks \in {"bitrate", "i-frame-interval", "frame-rate"}, <<Refuse("setup")>>)

setupMPEG4EncoderParameters(m) ==
    LacksTiming(m) \o <<Get("VideoMpeg4", "out", "setup")>>
    \o setPFramesSpacing(m) \o verifySupportForProfileAndLevel(m)
    \o <<Set("VideoMpeg4", "out", PFrames(m), "setup")>>
    \o configureBitrate \o setupErrorCorrectionParameters

setupH263EncoderParameters(m) ==
    LacksTiming(m) \o <<Get("VideoH263", "out", "setup")>>
    \o setPFramesSpacing(m) \o verifySupportForProfileAndLevel(m)
    \o <<Set("VideoH263", "out", PFrames(m), "setup")>>
    \o configureBitrate \o setupErrorCorrectionParameters

(* Whatever the profile, it is the baseline that is set.                      *)
setupAVCEncoderParameters(m) ==
    LacksTiming(m) \o <<Get("VideoAvc", "out", "setup")>>
    \o verifySupportForProfileAndLevel(m) \o setPFramesSpacing(m)
    \o <<Set("VideoAvc", "out", PFrames(m), "setup")>>
    \o configureBitrate

setupVideoEncoder(m) ==
    When(m.lacks = "color-format", <<Refuse("setup")>>)
    \o setVideoPortFormatType("in", "unused")
    \o <<Get("PortDefinition", "in", "setup")>>
    \o When(m.lacks \in {"size", "bitrate", "frame-rate"}, <<Refuse("setup")>>)
    \o <<Set("PortDefinition", "in", "frame", "setup")>>
    \o setVideoPortFormatType("out", GetVideoCodingTypeFromMime(m.mime))
    \o Change("PortDefinition", "out", "frame")
    \o CASE m.mime = "mpeg4" -> setupMPEG4EncoderParameters(m)
         [] m.mime = "h263"  -> setupH263EncoderParameters(m)
         [] m.mime = "avc"   -> setupAVCEncoderParameters(m)
         [] OTHER            -> <<>>

-----------------------------------------------------------------------------
(*                           configureCodec                                 *)

(* There is no role for MPEG-2 video.                                       *)
setComponentRole(m) ==
    IF m.mime = "mpeg2" THEN <<Refuse("configure")>>
    ELSE <<Set("StandardComponentRole", "-", <<m.mime, m.encoder>>, "configure")>>

Beginning(m) ==
    setComponentRole(m)
    \o When(m.encoder /\ m.mime # "flac" /\ m.lacks = "bitrate", <<Refuse("configure")>>)
    \o When(m.encoder /\ "metadata" \in m.asks, <<Set("StoreMetaData", "in", "on", "configure")>>)
    \o When(m.encoder /\ "prepend" \in m.asks,
            <<Get("PrependSPSPPS", "-", "configure"), Set("PrependSPSPPS", "-", "on", "configure")>>)
    \o When(~m.encoder /\ m.mime \in VideoMimes /\ "window" \in m.asks,
            <<Set("StoreMetaData", "out", "on", "adaptive")>>)

Setup(m) ==
    CASE m.mime \in VideoMimes /\ m.encoder  -> setupVideoEncoder(m)
      [] m.mime \in VideoMimes /\ ~m.encoder -> When(m.lacks = "size", <<Refuse("setup")>>) \o setupVideoDecoder(m)
      [] m.mime = "aac" -> When(m.lacks = "channels", <<Refuse("setup")>>) \o setupAACCodec(m)
      [] m.mime \in {"amr-nb", "amr-wb"} -> setupAMRCodec(m)
      [] m.mime = "g711" -> When(m.lacks = "channels", <<Refuse("setup")>>) \o setupG711Codec(m)
      [] m.mime = "flac" -> When(m.encoder /\ m.lacks = "channels", <<Refuse("setup")>>) \o setupFlacCodec(m)
      [] m.mime = "raw"  -> When(m.encoder \/ m.lacks = "channels", <<Refuse("setup")>>)
                            \o setupRawAudioFormat("in", m.channels, "asked")
      [] OTHER -> <<>>

(* The buffers may be large enough; and if not, the port must take the size.     *)
setMinBufferSize(port) ==
    <<Get("PortDefinition", port, "size"), Set("BufferSize", port, "asked", "size"),
      Get("PortDefinition", port, "size")>>

-----------------------------------------------------------------------------
VARIABLES
    message,         \* what is asked for
    part,            \* "begin", "setup", "size" or "end"
    todo,            \* the steps left of the part
    err,             \* "OK", or "error"
    adaptive,        \* mAdaptivePlayback
    settings,        \* what the component has been told: a set of <<<<index, port>>, value>>
    aborted,
    refusals         \* how many requests the component has refused

configVars == <<message, part, todo, err, adaptive, settings, aborted, refusals>>

ConfigInit ==
    /\ message \in Messages
    /\ part = "begin" /\ todo = Beginning(message)
    /\ err = "OK" /\ adaptive = FALSE /\ settings = {}
    /\ aborted = FALSE /\ refusals = 0

(* A part is over: what comes next.                                         *)
PartEnds ==
    /\ ~aborted /\ todo = <<>> /\ part # "end"
    /\ CASE part = "begin" -> part' = "setup" /\ todo' = Setup(message)
         [] part = "setup" -> /\ part' = "size"
                              /\ todo' = When("max-input-size" \in message.asks, setMinBufferSize("in"))
         [] part = "size"  -> part' = "end" /\ todo' = <<>>
    /\ err' = IF part' = "size" /\ todo' # <<>> THEN "OK" ELSE err
    /\ UNCHANGED <<message, adaptive, settings, aborted, refusals>>

Step == Head(todo)

Value == IF Step.value = "frame" /\ adaptive THEN "largest frame" ELSE Step.value

Accepts ==
    /\ ~aborted /\ todo # <<>> /\ Step.does # "refuse"
    /\ settings' = IF Step.does # "set" THEN settings
                   ELSE {s \in settings : s[1] # Step.what} \cup {<<Step.what, Value>>}
    /\ todo' = Tail(todo)
    /\ UNCHANGED <<message, part, err, adaptive, aborted, refusals>>

(* What becomes of a refusal.                                               *)
Refused ==
    CASE Step.else = "configure" ->
            part' = "end" /\ todo' = <<>> /\ err' = "error" /\ UNCHANGED <<adaptive, aborted>>
      [] Step.else \in {"setup", "size"} ->
            todo' = <<>> /\ err' = "error" /\ UNCHANGED <<part, adaptive, aborted>>
      [] Step.else = "optional" ->
            todo' = <<>> /\ UNCHANGED <<part, err, adaptive, aborted>>
      [] Step.else = "adaptive" ->
            todo' = Tail(todo) /\ adaptive' \in BOOLEAN /\ UNCHANGED <<part, err, aborted>>
      [] Step.else = "CHECK" ->
            aborted' = TRUE /\ UNCHANGED <<part, todo, err, adaptive>>

ComponentRefuses ==
    /\ ~aborted /\ todo # <<>> /\ Step.does # "refuse"
    /\ refusals < RefusalBudget /\ refusals' = refusals + 1
    /\ Refused
    /\ UNCHANGED <<message, settings>>

CodecRefuses ==
    /\ ~aborted /\ todo # <<>> /\ Step.does = "refuse"
    /\ Refused
    /\ UNCHANGED <<message, settings, refusals>>

(* setMinBufferSize: the port's buffers are large enough as they are.          *)
LargeEnough ==
    /\ ~aborted /\ part = "size" /\ Len(todo) = 2
    /\ todo' = <<>>
    /\ UNCHANGED <<message, part, err, adaptive, settings, aborted, refusals>>

ConfigNext == PartEnds \/ Accepts \/ ComponentRefuses \/ CodecRefuses \/ LargeEnough

ConfigSpec == ConfigInit /\ [][ConfigNext]_configVars

-----------------------------------------------------------------------------
(* The parameters a component must have been given before it decodes or          *)
(* encodes what the message describes.                                      *)
FrameSize == IF adaptive THEN "largest frame" ELSE "frame"

Asked(m) ==
    CASE m.mime \in VideoMimes ->
            {<<<<"PortDefinition", "in">>, FrameSize>>, <<<<"PortDefinition", "out">>, FrameSize>>}
            \cup (IF m.encoder /\ m.mime \in {"avc", "mpeg4", "h263"}
                  THEN {<<<<"VideoBitrate", "out">>, "asked">>} ELSE {})
      [] m.mime \in {"aac", "flac"} -> {<<<<"AudioPcm", RawPort(m)>>, <<m.channels, "asked">>>>}
      [] m.mime \in {"amr-nb", "amr-wb"} ->
            {<<<<"AudioPcm", RawPort(m)>>, <<"mono", IF m.mime = "amr-wb" THEN "16000" ELSE "8000">>>>,
             <<<<"AudioAmr", CodedPort(m)>>, m.mime>>}
      [] m.mime = "g711" -> {<<<<"AudioPcm", "in">>, <<m.channels, "8000">>>>}
      [] m.mime = "raw"  -> {<<<<"AudioPcm", "in">>, <<m.channels, "asked">>>>}
      [] OTHER -> {}

Configured == part = "end" /\ err = "OK" => Asked(message) \subseteq settings

(* A codec that reports itself configured has given its component everything     *)
(* the message asks for, whatever the component refused on the way.  The code    *)
(* has three exceptions: a max-input-size replaces the error of the setup, a     *)
(* number of channels without a mapping is passed over, and a FLAC decoder gets  *)
(* a sample rate and a number of channels that nobody has read.                *)
ConfiguredAsAsked ==
    \/ Configured
    \/ "max-input-size" \in message.asks
    \/ ~Mapped(message.channels) /\ message.mime \notin VideoMimes
    \/ message.mime = "flac" /\ ~message.encoder
=============================================================================
