--------------------------- MODULE DashCodecWindow ---------------------------
(***************************************************************************)
(* How a secure codec leaves its native window (DashCodec.cpp,                *)
(* ExecutingToIdleState): it gives back the buffers it holds, and               *)
(* pushBlankBuffersToNativeWindow pushes blank ones until no frame of the video   *)
(* can be on the screen.  Every call it makes may fail, those that clean up after   *)
(* a failure included.  The window is external: its queue, and a consumer that      *)
(* shows the queued buffers in order and keeps up to MinUndequeued of them.        *)
(***************************************************************************)
EXTENDS Integers

CONSTANTS
    MinUndequeued,   \* NATIVE_WINDOW_MIN_UNDEQUEUED_BUFFERS
    Outputs          \* the most buffers of the output port

ASSUME WindowAssumption == MinUndequeued \in Nat \ {0} /\ Outputs \in Nat

NumBufs == MinUndequeued + 1

VARIABLES
    call,            \* the call pushBlankBuffersToNativeWindow makes next
    pushed,          \* how many buffers it has queued
    anb,             \* whether anb points to a buffer
    failed,          \* history: the calls that have failed; it returns the error of the first
    toFree,          \* the codec's buffers that are neither freed nor at the window
    window           \* the native window, see WindowInit

windowVars == <<call, pushed, anb, failed, toFree, window>>

(* api: the API that is connected; held: the buffers dequeued from it; free,        *)
(* queued and kept: the blank buffers in its slots; shows: what is on the screen.   *)
WindowInit ==
    /\ call = "freeBuffers" /\ pushed = 0 /\ anb = FALSE /\ failed = {}
    /\ \E n \in 0..Outputs :
        /\ toFree = n
        /\ window = [api |-> "media", held |-> n, free |-> 0, queued |-> 0, kept |-> 0, shows |-> "video"]

-----------------------------------------------------------------------------
(* The calls before the loop: each is made if the one before it succeeded.        *)
NextCall ==
    [disconnectMedia |-> "connectCPU", connectCPU |-> "set_buffers_geometry",
     set_buffers_geometry |-> "set_usage", set_usage |-> "query", query |-> "set_buffer_count",
     set_buffer_count |-> "dequeue"]

(* freeBuffersOnPort: freeBuffer gives the window what the codec owns, and CHECKs that *)
(* it takes it.                                                             *)
FreeBuffers ==
    /\ call = "freeBuffers" /\ toFree > 0
    /\ toFree' = toFree - 1
    /\ window' = [window EXCEPT !.held = @ - 1]
    /\ UNCHANGED <<call, pushed, anb, failed>>

AllFreed ==
    /\ call = "freeBuffers" /\ toFree = 0
    /\ call' = "disconnectMedia"
    /\ UNCHANGED <<pushed, anb, failed, toFree, window>>

Fails == failed' = failed \cup {call}

(* What a call that succeeds does to the window.                               *)
WindowAfter(s) ==
    CASE s \in {"disconnectMedia", "disconnectCPU"} ->
            [window EXCEPT !.api = "none", !.free = 0, !.queued = 0, !.kept = 0]
      [] s = "connectCPU"       -> [window EXCEPT !.api = "cpu"]
      [] s = "connectMedia"     -> [window EXCEPT !.api = "media"]
      [] s = "set_buffer_count" -> [window EXCEPT !.free = NumBufs, !.queued = 0, !.kept = 0]
      [] OTHER                  -> window

PreparesWindow ==
    /\ call \in DOMAIN NextCall
    /\ \/ /\ call' = NextCall[call] /\ window' = WindowAfter(call)
          /\ UNCHANGED <<pushed, anb, failed, toFree>>
       \/ /\ Fails
          /\ call' = IF call \in {"disconnectMedia", "connectCPU"} THEN "return" ELSE "cancel"
          /\ UNCHANGED <<pushed, anb, toFree, window>>

(* native_window_dequeue_buffer_and_wait.                                    *)
DequeuesBuffer ==
    /\ call = "dequeue"
    /\ \/ /\ window.free > 0
          /\ window' = [window EXCEPT !.free = @ - 1, !.held = @ + 1]
          /\ anb' = TRUE /\ call' = "draw" /\ UNCHANGED failed
       \/ /\ Fails /\ call' = "cancel" /\ UNCHANGED <<anb, window>>
    /\ UNCHANGED <<pushed, toFree>>

(* lock, *img = 0 and unlock.                                               *)
DrawsBlank ==
    /\ call = "draw"
    /\ \/ call' = "queue" /\ UNCHANGED failed
       \/ call' = "cancel" /\ Fails
    /\ UNCHANGED <<pushed, anb, toFree, window>>

(* "We push numBufs + 1 buffers to ensure that we've drawn into the same buffer   *)
(* twice."                                                                 *)
EnoughPushed(n) == n = NumBufs + 1

QueuesBlank ==
    /\ call = "queue"
    /\ \/ /\ window' = [window EXCEPT !.held = @ - 1, !.queued = @ + 1]
          /\ anb' = FALSE /\ pushed' = pushed + 1
          /\ call' = IF EnoughPushed(pushed + 1) THEN "disconnectCPU" ELSE "dequeue"
          /\ UNCHANGED failed
       \/ /\ Fails /\ call' = "cancel" /\ UNCHANGED <<pushed, anb, window>>
    /\ UNCHANGED toFree

(* The buffer that was dequeued, if any, goes back; what cancelBuffer returns is      *)
(* ignored.                                                                *)
CancelsBuffer ==
    /\ call = "cancel" /\ call' = "disconnectCPU"
    /\ \/ ~anb /\ UNCHANGED <<window, failed>>
       \/ anb /\ window' = [window EXCEPT !.held = @ - 1, !.free = @ + 1] /\ UNCHANGED failed
       \/ anb /\ Fails /\ UNCHANGED window
    /\ UNCHANGED <<pushed, anb, toFree>>

(* Mutant: an error of disconnecting ends the cleaning up after an error, too.     *)
ReconnectsMedia_GivesUp ==
    /\ call \in {"disconnectCPU", "connectMedia"}
    /\ \/ /\ window' = WindowAfter(call)
          /\ call' = IF call = "disconnectCPU" /\ failed = {} THEN "connectMedia" ELSE "return"
          /\ UNCHANGED failed
       \/ /\ call' = "return" /\ Fails /\ UNCHANGED window
    /\ UNCHANGED <<pushed, anb, toFree>>

(* After an error the window is connected again whatever the first call returns.   *)
ReconnectsMedia ==
    /\ call \in {"disconnectCPU", "connectMedia"}
    /\ \/ /\ window' = WindowAfter(call)
          /\ call' = IF call = "disconnectCPU" THEN "connectMedia" ELSE "return"
          /\ UNCHANGED failed
       \/ /\ call' = IF call = "disconnectCPU" /\ failed # {} THEN "connectMedia" ELSE "return"
          /\ Fails /\ UNCHANGED window
    /\ UNCHANGED <<pushed, anb, toFree>>

(* The consumer: a queued buffer is shown, one that was shown before is released.    *)
ConsumerShows ==
    /\ window.queued > 0 /\ window.kept < MinUndequeued
    /\ window' = [window EXCEPT !.queued = @ - 1, !.kept = @ + 1, !.shows = "blank"]
    /\ UNCHANGED <<call, pushed, anb, failed, toFree>>

ConsumerReleases ==
    /\ window.kept > 1 \/ (window.kept = 1 /\ window.queued > 0)
    /\ window' = IF window.kept > 1 THEN [window EXCEPT !.kept = @ - 1, !.free = @ + 1]
                 ELSE [window EXCEPT !.queued = @ - 1, !.free = @ + 1]
    /\ UNCHANGED <<call, pushed, anb, failed, toFree>>

WindowNext ==
    \/ FreeBuffers \/ AllFreed \/ PreparesWindow
    \/ DequeuesBuffer \/ DrawsBlank \/ QueuesBlank \/ CancelsBuffer \/ ReconnectsMedia
    \/ ConsumerShows \/ ConsumerReleases

WindowSpec == WindowInit /\ [][WindowNext]_windowVars

-----------------------------------------------------------------------------
(* "We push enough 1x1 blank buffers to ensure that one of them has made it to the   *)
(* display": when the codec is told that it worked, no frame of the video is on it,  *)
(* and the component may clear its protected buffers.                           *)
BlankIsShown == call = "return" /\ failed = {} => window.shows = "blank"

(* Whatever fails, no buffer of the window is kept back, but one that the window     *)
(* itself refused to take.                                                   *)
NothingIsHeld == call = "return" => window.held = IF "cancel" \in failed THEN 1 ELSE 0

(* Whatever fails, the codec that follows finds the window connected to the media     *)
(* API; it is left unconnected only by a call that was to connect it, and to the     *)
(* CPU API only by the call that was to disconnect it from that.                 *)
StaysConnected ==
    call = "return" =>
        \/ window.api = "media"
        \/ window.api = "none" /\ failed \cap {"connectCPU", "connectMedia"} # {}
        \/ window.api = "cpu" /\ "disconnectCPU" \in failed

WindowIsLeftClean == BlankIsShown /\ NothingIsHeld /\ StaysConnected
=============================================================================
