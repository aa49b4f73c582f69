-------------------------- MODULE MCDashPlayerDriver --------------------------
(* Budgets of DashPlayerDriver for TLC.                                     *)
EXTENDS DashPlayerDriver

Times(open, pause, start, seek, reset, complete, ticks) ==
    [open |-> open, pause |-> pause, start |-> start, seek |-> seek, reset |-> reset,
     complete |-> complete, tick |-> ticks, poll |-> open]

(* The application pauses, or the playback ends; it seeks, or it resets.      *)
Separately ==
    {Times(1, 2, 3, 2, 0, 0, 1), Times(1, 0, 3, 2, 0, 1, 1),
     Times(2, 2, 3, 0, 2, 0, 1), Times(2, 0, 3, 0, 2, 1, 1)}

Together == {Times(1, 1, 2, 0, 0, 1, 0)}

SeekThenReset == {Times(1, 0, 1, 1, 1, 0, 0)}
=============================================================================
