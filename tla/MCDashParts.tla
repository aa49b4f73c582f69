---------------------------- MODULE MCDashParts ----------------------------
(* The parts that run on their own, one in each behaviour: `running` is chosen at  *)
(* the start, and the others stay in one of their initial states.               *)
EXTENDS DashPacketSource, ArmFFT, DashCodecConfig, DashCodecFormats, DashCodecWindow, Ext4Resize

VARIABLE running

(* Every codec, with one thing missing or one asked for besides.              *)
Extra == {{}} \cup {{e} : e \in Extras}
AMessages ==
    {m \in Message :
        /\ m.asks \in Extra
        /\ m.lacks = "none" \/ m.asks = {} \/ (m.lacks = "level" /\ m.asks = {"profile"})
        /\ m.mime \in AudioMimes \/ ~m.encoder => m.interval = "each" /\ m.rate = 1
        /\ m.mime \in VideoMimes => m.channels = "stereo"}

(* Around the sizes at which the last group is kept or left out.               *)
DataPartitions == 280..460

PartsInit ==
    /\ running \in {"packets", "fft", "config", "formats", "window", "resize"}
    /\ IF running = "fft" THEN FFTStart
       ELSE variant = "C_SC16" /\ order = 0 /\ FFTStart
    /\ IF running = "config" THEN ConfigInit
       ELSE message = (CHOOSE m \in Messages : TRUE) /\ ConfigInit
    /\ IF running = "formats" THEN FormatsInit
       ELSE FormatsInit /\ codec.mAdaptivePlayback
    /\ IF running = "window" THEN WindowInit
       ELSE WindowInit /\ toFree = 0
    /\ IF running = "resize" THEN ResizeInit
       ELSE partition = 300 /\ ResizeInit /\ fs.blocks = 90
    /\ PacketInit

PartsNext ==
    \/ /\ running = "packets" /\ PacketNext
       /\ UNCHANGED <<running, fftVars, configVars, formatVars, windowVars, resizeVars>>
    \/ /\ running = "fft" /\ FFTNext
       /\ UNCHANGED <<running, packetVars, configVars, formatVars, windowVars, resizeVars>>
    \/ /\ running = "config" /\ ConfigNext
       /\ UNCHANGED <<running, packetVars, fftVars, formatVars, windowVars, resizeVars>>
    \/ /\ running = "formats" /\ FormatsNext
       /\ UNCHANGED <<running, packetVars, fftVars, configVars, windowVars, resizeVars>>
    \/ /\ running = "window" /\ WindowNext
       /\ UNCHANGED <<running, packetVars, fftVars, configVars, formatVars, resizeVars>>
    \/ /\ running = "resize" /\ ResizeNext
       /\ UNCHANGED <<running, packetVars, fftVars, configVars, formatVars, windowVars>>

PartsSpec ==
    PartsInit /\ [][PartsNext]_<<running, packetVars, fftVars, configVars, formatVars, windowVars, resizeVars>>
=============================================================================
