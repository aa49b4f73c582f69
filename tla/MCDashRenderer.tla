---------------------------- MODULE MCDashRenderer ----------------------------
(* Limits of DashRenderer for TLC.                                          *)
EXTENDS DashRenderer

Times(pause, flush, seek, sink, failure) ==
    [pause |-> pause, flush |-> flush, seek |-> seek, sink |-> sink, failure |-> failure]

(* Two calls in every pair, and a sink that fails around each of them.            *)
Few == {Times(1, 0, 0, 1, 0), Times(0, 1, 1, 0, 0), Times(0, 0, 2, 0, 0), Times(0, 1, 0, 1, 0),
        Times(1, 0, 0, 0, 1), Times(0, 0, 1, 0, 1), Times(0, 1, 0, 1, 1)}
=============================================================================
