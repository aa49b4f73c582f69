----------------------------- MODULE MCDashPlayer -----------------------------
(***************************************************************************)
(* Instances of DashPlayer for TLC: how often the application calls each     *)
(* operation, and which discontinuities the source queues.                  *)
(***************************************************************************)
EXTENDS DashPlayer

Times(open, start, pause, seek, reset, discs, errors, ports) ==
    [open |-> open, start |-> start, pause |-> pause, seek |-> seek,
     reset |-> reset, disc |-> discs, error |-> errors, port |-> ports]

SeekAndReset   == {Times(1, 1, 0, 1, 1, 0, 0, 0)}
DiscAndReset   == {Times(1, 1, 0, 0, 1, 1, 0, 0)}
OneDisc        == {Times(1, 1, 0, 0, 0, 1, 0, 0)}
PauseSeekReset == {Times(1, 2, 1, 1, 1, 0, 0, 0)}
ErrorAndReset  == {Times(1, 1, 0, 0, 1, 0, 1, 0)}
PortAndReset   == {Times(1, 1, 0, 0, 1, 0, 0, 1)}
PortFails      == {Times(1, 1, 0, 0, 1, 0, 1, 1)}

(* A reset follows a seek or a discontinuity.                                *)
Teardowns      == SeekAndReset \cup DiscAndReset

(* Every call on one track; the player is opened again; the port changes.     *)
VideoCalls     == PauseSeekReset \cup {Times(2, 2, 0, 0, 1, 0, 1, 0), Times(1, 1, 0, 1, 1, 0, 0, 1), Times(1, 1, 0, 1, 0, 0, 0, 2)}

(* A flush meets a pause, or a codec that gives up at its output port.         *)
PauseCalls     == PauseSeekReset \cup PortFails

(* A reset meets a seek, a discontinuity that the tracks come to at different     *)
(* times, a codec that gives up, or a change of a port.                        *)
LiveCalls      == Teardowns \cup ErrorAndReset \cup PortAndReset

(* A change of format, of time, or of both, on both tracks.                  *)
NewFormat  == [format |-> AV, time |-> FALSE]
NewTime    == [format |-> {}, time |-> TRUE]
NewPeriod  == [format |-> AV, time |-> TRUE]

NoDisc     == {}
AnyDisc    == {NewFormat, NewTime, NewPeriod}
FormatDisc == {NewFormat}
TimeDisc   == {NewTime}

=============================================================================
