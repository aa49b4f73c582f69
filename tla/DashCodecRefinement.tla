-------------------------- MODULE DashCodecRefinement --------------------------
(***************************************************************************)
(* DashCodec with one buffer on each port implements DashCodecContract, the  *)
(* codec DashPlayer is composed with.                                       *)
(***************************************************************************)
EXTENDS DashCodec

Track == "video"

Has(what) == \E i \in 1..Len(c.deferred) : c.deferred[i].what = what

(* What was deferred has, for the contract, already happened: a buffer has     *)
(* come back, and the stream has ended.                                      *)
DeferredEnds == {c.deferred[i].arg : i \in {j \in 1..Len(c.deferred) :
                    c.deferred[j].what = "InputBufferFilled" /\ c.deferred[j].arg # "ok"}}

Changing == c.state \in {"FlushingOutput", "OutputPortSettingsChanged"}

StateView ==
    CASE c.state \in {"Uninitialized", "Loaded"} -> "idle"
      [] c.state \in {"LoadedToIdle", "IdleToExecuting"} -> "starting"
      [] c.state \in {"ExecutingToIdle", "IdleToLoaded"} -> "stopping"
      [] c.state = "Flushing" -> "flushing"
      [] Changing /\ Has("Shutdown") -> "stopping"
      [] Changing /\ ~Has("Shutdown") /\ Has("Flush") -> "flushing"
      [] OTHER -> IF c.active THEN "running"
                  ELSE IF Changing /\ Has("Resume") THEN "waking" ELSE "stopped"

ChangeView ==
    CASE c.state = "FlushingOutput" -> "flushing"
      [] c.state = "OutputPortSettingsChanged" -> "enabling"
      [] OTHER -> "no"

BufferView(port, owner) == IF 1 \in DOMAIN port /\ port[1] = owner THEN owner ELSE "us"

(* The contract has no codec left to remember anything once it is idle.        *)
CodecView ==
    LET idle == StateView = "idle"
        ends == DeferredEnds # {} /\ ~c.ieos
    IN  [st    |-> StateView,
         in    |-> IF Has("InputBufferFilled") THEN "us" ELSE BufferView(c.in, "up"),
         out   |-> BufferView(c.out, "down"),
         ieos  |-> ~idle /\ (c.ieos \/ ends),
         eos   |-> IF idle THEN "no" ELSE IF ends THEN CHOOSE res \in DeferredEnds : TRUE ELSE c.res,
         oeos  |-> ~idle /\ c.oeos,
         defer |-> ~idle /\ ~Changing /\ Has("Shutdown"),
         chg   |-> ChangeView]

NoCodec == [st |-> "idle", in |-> "us", out |-> "us", ieos |-> FALSE, eos |-> "no",
            oeos |-> FALSE, defer |-> FALSE, chg |-> "no"]

MessageTo(who, m) == [to |-> who, what |-> m.what, trk |-> Track,
                      arg |-> IF m.arg \in {"ok", "eos", "err"} THEN m.arg ELSE "-"]

Contract == INSTANCE DashCodecContract WITH
    codec      <- [t \in {"video", "audio"} |-> IF t = Track THEN CodecView ELSE NoCodec],
    videoQ     <- [i \in 1..Len(inbox) |-> MessageTo("codec", inbox[i])],
    mainQ      <- [i \in 1..Len(outbox) |-> MessageTo("decoder", outbox[i])],
    scanTimers <- [g \in {"cur", "old"} |-> 0],
    fillTimers <- {}

(* The codec does nothing the contract does not allow it.                     *)
ImplementsContract == Contract!VideoSpec

=============================================================================
