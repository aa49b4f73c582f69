------------------------------ MODULE MCDashCodec ------------------------------
EXTENDS DashCodecRefinement

Ports == [flush |-> 2, port |-> 1, error |-> 0, window |-> 1]
Small == [flush |-> 2, port |-> 2, error |-> 1, window |-> 1]
=============================================================================
