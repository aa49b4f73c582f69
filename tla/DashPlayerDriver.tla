--------------------------- MODULE DashPlayerDriver ---------------------------
(***************************************************************************)
(* DashPlayerDriver (DashPlayerDriver.cpp) with its two threads: the one the *)
(* application calls on, and the looper's, which handles DashPlayer's        *)
(* messages and calls back.  mState and mAtEOS have no lock: a call reads     *)
(* them, posts to the player and writes them in separate steps.  mLock and    *)
(* mCondition protect the rest and block the application inside reset().      *)
(*                                                                         *)
(* DashPlayer is reduced to what the driver can tell of it: the source it     *)
(* holds, its renderer, whether it has decoders, and its message queue.       *)
(***************************************************************************)
EXTENDS Naturals, Sequences

CONSTANT Budgets      \* how often the application makes each call and each event happens

Spendable == {"open", "pause", "start", "seek", "reset", "complete", "tick", "poll"}

ASSUME BudgetsAssumption == Budgets \subseteq [Spendable -> Nat]

Threads == {"app", "looper"}
States  == {"UNINITIALIZED", "STOPPED", "PLAYING", "PAUSED"}

(* What a thread is doing: the call, and the step of it that comes next.      *)
Idle == [call |-> "none", at |-> "-"]
Calls == {Idle} \cup [call : {"pause", "start"}, at : {"switch", "check", "seek", "write"}]
                \cup [call : {"reset"}, at : {"wait"}]

Messages == {"SetDataSource", "PrepareAsync", "IsPrepareDone", "Start", "Scan", "Pause", "Resume",
             "Seek", "Reset", "Flush", "FlushCompleted", "ShutdownCompleted", "Position",
             "RendererEOS"}

VARIABLES
    thread,      \* what each thread is doing
    mState, mAtEOS,
    startupSeek, \* mStartupSeekTimeUs: "none", "zero" or "later"
    position,    \* mPositionUs: whose position it is, 0 if unknown
    duration,    \* mDurationUs, likewise
    resetting,   \* mResetInProgress
    queue,       \* the messages posted to the player
    polling,     \* a kWhatIsPrepareDone that falls due in 100 ms
    source,      \* mSource: which content, 0 if NULL
    renderer,    \* mRenderer: "none", "on" or "paused"
    decoders,    \* mAudioDecoder and mVideoDecoder: "none", "running", or "flushed" for a reset
    content,     \* how many contents have been opened
    prepared,    \* the application was told MEDIA_PREPARED
    seeks,       \* the seeks no MEDIA_SEEK_COMPLETE has answered
    budget, halted

fields  == <<mState, mAtEOS, startupSeek>>
locked  == <<position, duration, resetting>>
player  == <<polling, source, renderer, decoders>>
history == <<content, prepared, seeks>>
driverVars == <<thread, fields, locked, queue, player, history, budget, halted>>

DriverTypeOK ==
    /\ thread \in [Threads -> Calls]
    /\ mState \in States /\ mAtEOS \in BOOLEAN
    /\ startupSeek \in {"none", "zero", "later"}
    /\ position \in Nat /\ duration \in Nat /\ resetting \in BOOLEAN
    /\ queue \in Seq(Messages) /\ polling \in BOOLEAN
    /\ source \in Nat /\ renderer \in {"none", "on", "paused"} /\ decoders \in {"none", "running", "flushed"}
    /\ content \in Nat /\ prepared \in BOOLEAN /\ seeks \in Nat
    /\ budget \in [Spendable -> Nat] /\ halted \in BOOLEAN

DriverInit ==
    /\ thread = [t \in Threads |-> Idle]
    /\ mState = "UNINITIALIZED" /\ mAtEOS = FALSE /\ startupSeek = "none"
    /\ position = 0 /\ duration = 0 /\ resetting = FALSE
    /\ queue = <<>> /\ polling = FALSE
    /\ source = 0 /\ renderer = "none" /\ decoders = "none"
    /\ content = 0 /\ prepared = FALSE /\ seeks = 0
    /\ budget \in Budgets
    /\ halted = FALSE

-----------------------------------------------------------------------------
(*                              Helpers                                     *)

Post(m)      == queue' = Append(queue, m)
Goes(t, at)  == thread' = [thread EXCEPT ![t].at = at]
Returns(t)   == thread' = [thread EXCEPT ![t] = Idle]
At(t, c, at) == ~halted /\ thread[t] = [call |-> c, at |-> at]

(* A CHECK fails, or a call is made through a null pointer.                  *)
Halts == halted' = TRUE /\ UNCHANGED <<thread, fields, locked, queue, player, history>>

Spends(what) == budget[what] > 0 /\ budget' = [budget EXCEPT ![what] = @ - 1]

(* The application makes one call at a time.                                *)
Called(what) == ~halted /\ thread["app"] = Idle /\ Spends(what) /\ UNCHANGED halted

-----------------------------------------------------------------------------
(*                    pause(), by either thread                             *)

(* Mutant: a paused driver pauses the player again.                          *)
PauseSwitch_Again(t) ==
    /\ At(t, "pause", "switch")
    /\ IF mState \in {"PLAYING", "PAUSED"}
       THEN Post("Pause") /\ Goes(t, "write")
       ELSE UNCHANGED queue /\ Returns(t)
    /\ UNCHANGED <<fields, locked, player, history, budget, halted>>

(* switch (mState): only a PLAYING driver has the player pause.              *)
PauseSwitch(t) ==
    /\ At(t, "pause", "switch")
    /\ CASE mState = "PLAYING" -> Post("Pause") /\ Goes(t, "write")
         [] mState = "PAUSED"  -> UNCHANGED queue /\ Goes(t, "check")
         [] OTHER              -> UNCHANGED queue /\ Returns(t)
    /\ UNCHANGED <<fields, locked, player, history, budget, halted>>

(* CHECK_EQ(mState, PAUSED): the build may read mState again, or not.          *)
PauseCheck(t) ==
    /\ At(t, "pause", "check")
    /\ \/ /\ Returns(t)
          /\ UNCHANGED <<fields, locked, queue, player, history, halted>>
       \/ mState # "PAUSED" /\ Halts
    /\ UNCHANGED budget

PauseWrite(t) ==
    /\ At(t, "pause", "write")
    /\ mState' = "PAUSED"
    /\ Returns(t)
    /\ UNCHANGED <<mAtEOS, startupSeek, locked, queue, player, history, budget, halted>>

-----------------------------------------------------------------------------
(*                      The application's calls                             *)

(* setDataSource: the driver is STOPPED even if the URL is refused.           *)
SetDataSource ==
    /\ Called("open")
    /\ mState = "UNINITIALIZED"
    /\ content' = content + 1
    /\ prepared' = FALSE
    /\ mState' = "STOPPED"
    /\ \E accepted \in BOOLEAN : IF accepted THEN Post("SetDataSource") ELSE UNCHANGED queue
    /\ UNCHANGED <<thread, mAtEOS, startupSeek, locked, player, seeks>>

(* The content is the player's, or on its way to it.                         *)
Accepted == source = content \/ \E i \in 1..Len(queue) : queue[i] = "SetDataSource"

PrepareAsync ==
    /\ Called("poll")
    /\ mState = "STOPPED" /\ Accepted /\ ~prepared
    /\ Post("PrepareAsync")
    /\ UNCHANGED <<thread, fields, locked, player, history>>

AppPause ==
    /\ Called("pause")
    /\ mState # "UNINITIALIZED"
    /\ thread' = [thread EXCEPT !["app"] = [call |-> "pause", at |-> "switch"]]
    /\ UNCHANGED <<fields, locked, queue, player, history>>

AppStart ==
    /\ Called("start")
    /\ prepared
    /\ thread' = [thread EXCEPT !["app"] = [call |-> "start", at |-> "switch"]]
    /\ UNCHANGED <<fields, locked, queue, player, history>>

StartSwitch ==
    /\ At("app", "start", "switch")
    /\ \/ /\ mState = "STOPPED"
          /\ mAtEOS' = FALSE
          /\ Post("Start")
          /\ Goes("app", "seek")
       \/ /\ mState = "PAUSED"
          /\ Goes("app", "check")
          /\ UNCHANGED <<mAtEOS, queue>>
       \/ /\ mState \in {"UNINITIALIZED", "PLAYING"}
          /\ Returns("app")
          /\ UNCHANGED <<mAtEOS, queue>>
    /\ UNCHANGED <<mState, startupSeek, locked, player, history, budget, halted>>

(* A seek made before the start: nothing to do for position 0.               *)
StartSeeks ==
    /\ At("app", "start", "seek")
    /\ IF startupSeek = "later" THEN Post("Seek") ELSE UNCHANGED queue
    /\ seeks' = IF startupSeek = "zero" THEN seeks - 1 ELSE seeks
    /\ startupSeek' = "none"
    /\ Goes("app", "write")
    /\ UNCHANGED <<mState, mAtEOS, locked, player, content, prepared, budget, halted>>

(* From the end the playback starts over: seekTo(0), and then resume().        *)
StartResumes ==
    /\ At("app", "start", "check")
    /\ \/ /\ queue' = queue \o IF mAtEOS THEN <<"Seek", "Resume">> ELSE <<"Resume">>
          /\ seeks' = IF mAtEOS THEN seeks + 1 ELSE seeks
          /\ mAtEOS' = FALSE
          /\ Goes("app", "write")
          /\ UNCHANGED <<mState, startupSeek, locked, player, content, prepared, halted>>
       \/ mState # "PAUSED" /\ Halts
    /\ UNCHANGED budget

StartWrite ==
    /\ At("app", "start", "write")
    /\ mState' = "PLAYING"
    /\ Returns("app")
    /\ UNCHANGED <<mAtEOS, startupSeek, locked, queue, player, history, budget, halted>>

(* seekTo: kept for start() while STOPPED, else the player's.  A later seek     *)
(* replaces one that start() has not seen yet.                               *)
SeekTo ==
    /\ Called("seek")
    /\ prepared
    /\ \/ /\ mState = "STOPPED"
          /\ startupSeek' \in {"zero", "later"}
          /\ seeks' = IF startupSeek = "none" THEN seeks + 1 ELSE seeks
          /\ UNCHANGED <<mAtEOS, queue>>
       \/ /\ mState \in {"PLAYING", "PAUSED"}
          /\ mAtEOS' = FALSE
          /\ Post("Seek")
          /\ seeks' = seeks + 1
          /\ UNCHANGED startupSeek
    /\ UNCHANGED <<thread, mState, locked, player, content, prepared>>

(* reset(): the thread holds mLock until it waits, and again once woken.       *)
ResetCalled ==
    /\ Called("reset")
    /\ mState # "UNINITIALIZED"
    /\ resetting' = TRUE
    /\ Post("Reset")
    /\ thread' = [thread EXCEPT !["app"] = [call |-> "reset", at |-> "wait"]]
    /\ UNCHANGED <<fields, position, duration, player, history>>

(* Mutant: the position is left as it is.                                    *)
ResetReturns_KeepsPosition ==
    /\ At("app", "reset", "wait") /\ ~resetting
    /\ duration' = 0
    /\ mState' = "UNINITIALIZED" /\ startupSeek' = "none"
    /\ seeks' = 0 /\ prepared' = FALSE
    /\ Returns("app")
    /\ UNCHANGED <<mAtEOS, position, resetting, queue, player, content, budget, halted>>

ResetReturns ==
    /\ At("app", "reset", "wait") /\ ~resetting
    /\ position' = 0 /\ duration' = 0
    /\ mState' = "UNINITIALIZED" /\ startupSeek' = "none"
    /\ seeks' = 0 /\ prepared' = FALSE
    /\ Returns("app")
    /\ UNCHANGED <<mAtEOS, resetting, queue, player, content, budget, halted>>

-----------------------------------------------------------------------------
(*                        The looper's thread                               *)

(* The looper takes a message when it has returned from the one before.        *)
Takes(m, notes) ==
    /\ ~halted
    /\ thread["looper"] = Idle
    /\ queue # <<>> /\ Head(queue) = m
    /\ queue' = Tail(queue) \o notes

OnSetDataSource ==
    /\ Takes("SetDataSource", <<>>)
    /\ source' = content
    /\ UNCHANGED <<thread, fields, locked, polling, renderer, decoders, history, budget, halted>>

(* kWhatPrepareAsync; the message must not meet a player without source.       *)
OnPrepareAsync ==
    /\ Takes("PrepareAsync", IF source = 0 THEN <<>> ELSE <<"IsPrepareDone">>)
    /\ UNCHANGED <<thread, fields, locked, player, history, budget, halted>>

(* kWhatIsPrepareDone: the driver learns the duration, the application that     *)
(* the content is prepared; or the message comes again in 100 ms.             *)
OnIsPrepareDone ==
    /\ Takes("IsPrepareDone", <<>>)
    /\ \/ /\ source = 0
          /\ UNCHANGED <<duration, prepared, polling>>
       \/ /\ source # 0
          /\ duration' = source
          /\ prepared' = TRUE
          /\ UNCHANGED polling
       \/ /\ source # 0
          /\ polling' = TRUE
          /\ UNCHANGED <<duration, prepared>>
    /\ UNCHANGED <<thread, fields, position, resetting, source, renderer, decoders, content, seeks,
                   budget, halted>>

PollFallsDue ==
    /\ ~halted /\ polling
    /\ polling' = FALSE
    /\ Post("IsPrepareDone")
    /\ UNCHANGED <<thread, fields, locked, source, renderer, decoders, history, budget, halted>>

OnStart ==
    /\ Takes("Start", <<"Scan">>)
    /\ renderer' = "on"
    /\ UNCHANGED <<thread, fields, locked, polling, source, decoders, history, budget, halted>>

(* The scan makes the decoders, unless it came after a reset.                *)
OnScan ==
    /\ Takes("Scan", <<>>)
    /\ decoders' = IF source = 0 THEN decoders ELSE "running"
    /\ UNCHANGED <<thread, fields, locked, polling, source, renderer, history, budget, halted>>

(* kWhatPause and Renderer::onPause.                                        *)
OnPause ==
    /\ IF renderer = "on"
       THEN /\ Takes("Pause", <<>>)
            /\ renderer' = "paused"
            /\ UNCHANGED <<thread, fields, locked, polling, source, decoders, history, halted>>
       ELSE /\ Takes("Pause", <<>>)
            /\ halted' = TRUE
            /\ UNCHANGED <<thread, fields, locked, player, history>>
    /\ UNCHANGED budget

OnResume ==
    /\ Takes("Resume", <<>>)
    /\ renderer' = IF renderer = "none" THEN "none" ELSE "on"
    /\ halted' = (renderer = "none")
    /\ UNCHANGED <<thread, fields, locked, polling, source, decoders, history, budget>>

(* Mutant: the application is not told.                                      *)
OnSeek_Silent ==
    /\ Takes("Seek", <<"Position">>)
    /\ source # 0 /\ renderer # "none"
    /\ position' = source
    /\ UNCHANGED <<thread, fields, duration, resetting, player, history, budget, halted>>

(* kWhatSeek: Renderer::notifySeekPosition posts the new position, which the     *)
(* driver is told as well; then the seek is complete.                        *)
OnSeek ==
    /\ Takes("Seek", <<"Position">>)
    /\ IF source = 0 \/ renderer = "none"
       THEN halted' = TRUE /\ UNCHANGED <<position, seeks>>
       ELSE position' = source /\ seeks' = seeks - 1 /\ UNCHANGED halted
    /\ UNCHANGED <<thread, fields, duration, resetting, player, content, prepared, budget>>

(* kWhatRendererNotify, kWhatPosition.                                      *)
OnPosition ==
    /\ Takes("Position", <<>>)
    /\ position' = IF source = 0 THEN content ELSE source
    /\ halted' = (source = 0)
    /\ UNCHANGED <<thread, fields, duration, resetting, player, history, budget>>

(* finishReset, and notifyResetComplete, which wakes the application.         *)
Finished ==
    /\ source' = 0 /\ renderer' = "none" /\ decoders' = "none"
    /\ resetting' = FALSE
    /\ halted' = ~resetting
    /\ UNCHANGED <<thread, fields, position, duration, polling, history, budget>>

(* kWhatReset: at once without decoders, else the decoders and the renderer     *)
(* are flushed first.                                                       *)
OnReset ==
    \/ Takes("Reset", <<>>) /\ decoders = "none" /\ Finished
    \/ /\ Takes("Reset", <<"Flush">>)
       /\ decoders # "none"
       /\ UNCHANGED <<thread, fields, locked, player, history, budget, halted>>

(* Renderer::onFlush: its queues are empty, the codec's flush can end.         *)
OnFlush ==
    /\ Takes("Flush", <<"FlushCompleted">>)
    /\ decoders' = "flushed"
    /\ UNCHANGED <<thread, fields, locked, polling, source, renderer, history, budget, halted>>

(* kWhatFlushCompleted asks for the shutdown.                                *)
OnFlushCompleted ==
    /\ Takes("FlushCompleted", <<"ShutdownCompleted">>)
    /\ UNCHANGED <<thread, fields, locked, player, history, budget, halted>>

(* kWhatShutdownCompleted of the last decoder.                               *)
OnShutdownCompleted == Takes("ShutdownCompleted", <<>>) /\ Finished

(* Mutant: the end of playback is noted, the driver not paused.               *)
OnRendererEOS_NoPause ==
    /\ Takes("RendererEOS", <<>>)
    /\ mAtEOS' = TRUE
    /\ mState' = "PAUSED"
    /\ UNCHANGED <<thread, startupSeek, locked, player, history, budget, halted>>

(* notifyListener(MEDIA_PLAYBACK_COMPLETE), on the looper's thread.            *)
OnRendererEOS ==
    /\ Takes("RendererEOS", <<>>)
    /\ mAtEOS' = TRUE
    /\ thread' = [thread EXCEPT !["looper"] = [call |-> "pause", at |-> "switch"]]
    /\ UNCHANGED <<mState, startupSeek, locked, player, history, budget, halted>>

(* A running renderer reports the position, and the end.                      *)
RendererPosts(what, m) ==
    /\ ~halted
    /\ Spends(what)
    /\ renderer = "on" /\ decoders = "running"
    /\ Post(m)
    /\ UNCHANGED <<thread, fields, locked, player, history, halted>>

-----------------------------------------------------------------------------
AppSteps ==
    \/ PauseSwitch("app") \/ PauseCheck("app") \/ PauseWrite("app")
    \/ StartSwitch \/ StartSeeks \/ StartResumes \/ StartWrite
    \/ ResetReturns

LooperSteps ==
    \/ PauseSwitch("looper") \/ PauseCheck("looper") \/ PauseWrite("looper")
    \/ OnSetDataSource \/ OnPrepareAsync \/ OnIsPrepareDone
    \/ OnStart \/ OnScan \/ OnPause \/ OnResume \/ OnSeek \/ OnPosition
    \/ OnReset \/ OnFlush \/ OnFlushCompleted \/ OnShutdownCompleted \/ OnRendererEOS

DriverNext ==
    \/ AppSteps \/ LooperSteps \/ PollFallsDue
    \/ SetDataSource \/ PrepareAsync \/ AppPause \/ AppStart \/ SeekTo \/ ResetCalled
    \/ RendererPosts("tick", "Position") \/ RendererPosts("complete", "RendererEOS")

(* Both threads keep running, and a delayed message falls due.               *)
DriverFairness == WF_driverVars(AppSteps) /\ WF_driverVars(LooperSteps) /\ WF_driverVars(PollFallsDue)

DriverSpec == DriverInit /\ [][DriverNext]_driverVars /\ DriverFairness

-----------------------------------------------------------------------------
(* No CHECK of the driver, the player or the renderer fails, and no message    *)
(* of the player finds the source or the renderer gone, however the calls      *)
(* of the application and the callbacks of the looper interleave -- as long as  *)
(* the playback does not end while the application pauses, and no seek is on     *)
(* its way when it resets: Budgets says so.                                 *)
DriverNeverHalts == DriverTypeOK /\ ~halted

(* When both threads are idle and nothing is queued, the renderer does what     *)
(* the state of the driver says: isPlaying() tells the truth.                *)
DriverAgrees ==
    queue = <<>> /\ ~halted /\ (\A t \in Threads : thread[t] = Idle) =>
        CASE mState = "PLAYING" -> renderer = "on"
          [] mState = "PAUSED"  -> renderer = "paused"
          [] OTHER              -> renderer = "none"

(* Nothing of a content outlives its reset: the position and the duration       *)
(* that getCurrentPosition and getDuration give are those of the content that  *)
(* is open, or none, as long as the process lives.                           *)
PositionIsCurrent ==
    mState = "UNINITIALIZED" /\ ~halted => position = 0 /\ duration = 0

(* Every seek the player is asked for is answered by MEDIA_SEEK_COMPLETE,       *)
(* unless the content is reset.                                             *)
SeekIsAnswered ==
    seeks > 0 /\ mState \in {"PLAYING", "PAUSED"} ~> seeks = 0 \/ halted
=============================================================================
