# A verification development of `dashplayer` and its neighbours

The repository is the Android device tree of the Amazon "Ariel" tablet. Most of it is
configuration, boot scripts, vendor headers and patches. Its one large program of its own
is `src/dashplayer`: a streaming (DASH) media player in C++, a sibling of AOSP's NuPlayer,
made of message handlers on event loops. This development models that player, and two smaller
programs with logic of their own: the specification structures of the OpenMAX FFTs, and the tool
that grows the data partition at boot.

## 1. The system

```
 application thread                    player's ALooper                    video codec's ALooper
 ------------------                    ----------------                    ---------------------
 DashPlayerDriver  --async messages--> DashPlayer <--- Decoder(video) <--- DashCodec(video) <-> OMX
       ^                                |   ^    ^---- Decoder(audio) <--- DashCodec(audio) <-> OMX
       |---- notifyListener ------------|   |                              (on the player's looper)
       |     notifyResetComplete            |---- Renderer (same looper)
                                        |---> Source (DASH library; DashPacketSource per track)
```

| Component | State it keeps | Operations | Hard behaviour | What makes it correct |
|---|---|---|---|---|
| **DashPlayer** (`DashPlayer.cpp`) | source, renderer, decoders; flush status per track; `mTimeDiscontinuityPending`, `mResetInProgress`, `mResetPostponed`; scan pending flag and generation; `mPauseIndication`; end of stream per track | handlers of `kWhatSetDataSource`, `Start`, `Pause`, `Resume`, `Reset`, `Seek`, `ScanSources`, `Video/AudioNotify`, `RendererNotify` | the flush protocol below, run for two tracks at once, from three triggers (seek, reset, discontinuity) in any interleaving | no CHECK fails; flush requests and answers pair up; a reset is carried on by somebody; missing decoders are scanned for |
| **Renderer** (`DashPlayerRenderer.cpp`) | audio and video queue, flush flags (under `mFlushLock`), pause flag, drain generations, `mSyncQueues`, anchors | `queueBuffer`, `queueEOS`, `flush`, `signalTimeDiscontinuity`, `pause`, `resume`, drains | flags are raised by the player at once, lowered by a message later; stale drains; two queues that wait for each other | every buffer goes back to its codec exactly once; a queue with entries is going to be drained |
| **DashCodec** (`DashCodec.cpp`) | its ten states, buffer ownership per port, deferred messages, end of stream per port, formats still to be told | `initiateSetup`, `signalFlush`, `signalResume`, `initiateShutdown`; OMX callbacks | a flush ends only when everybody returned every buffer; a port change defers what arrives; dozens of requests the component may refuse | each request is answered once; buffers are conserved; a frame is shown in its format |
| **Decoder** (`DashPlayerDecoder.cpp`) | its codec and the codec's looper | configures, forwards notifications | a second hop between codec and player | keeps the codec's order |
| **DashPlayerDriver** (`DashPlayerDriver.cpp`) | `mState`, `mAtEOS`, `mStartupSeekTimeUs`, position, duration, reset flag + condition | `setDataSource`, `prepareAsync`, `start`, `pause`, `seekTo`, `reset`, `notifyListener` | called by the application's threads and by the looper's; `mState` has no lock; `reset` blocks | no call meets a player in a state it CHECKs against; the state tells the truth; nothing of one content outlives its reset |
| **DashPacketSource** (`DashPacketSource.cpp`) | queue of access units and discontinuities, format, EOS result | `queueAccessUnit`, `queueDiscontinuity`, `dequeueAccessUnit`, `read`, `signalEOS` | filled by a downloader's thread, read by others; one signal for many readers | order kept, no lost wake-up, no stale format |
| **ALooper / AMessage** (external) | message queue, delayed messages | post, deliver | delayed messages overtake and outlive what they are about | FIFO per looper |
| **DASH source library** (external) | formats known, access units | `feedMoreTSData`, `getFormat`, `dequeueAccessUnit`, `seekTo` | may answer anything | - |
| **OpenMAX FFT** (`openmax_dl/dl/sp/src`) | the specification structure of a transform | `GetBufSize`, `Init` of six variants | the size is computed in one function and used in another; octant symmetries in fixed point | the layout fits wherever the memory begins; every twiddle factor is right |
| **ext4_resize** (`proprietary/external/ext4_resize/main.c`) | the superblock on the disk | one run per boot: statistics, `resize2fs`, `e2fsck` | power failure between or in the steps; two programs that must round alike | a few boots without a failure leave nothing to do |

What is not modelled is in section 6, and in `PROJECT.json` with status `not_modelled`.

### The flush protocol

Seek, reset and a stream discontinuity all go through `flushDecoder`:

1. `flushDecoder(track, needShutdown)`: the generation of the scans is advanced and
   `mScanSourcesPending` cleared; the codec is told to flush; the renderer's flush flag of the
   track is raised and a `kWhatFlush` posted to it; the track becomes `FLUSHING_DECODER[_SHUTDOWN]`,
   and the other track, when it was `NONE`, becomes `AWAITING_DISCONTINUITY` if it has a decoder,
   else `FLUSHED`.
2. While a track is flushing, input requests are answered with an error, output buffers go
   straight back, and ends of stream are dropped.
3. The codec reports `FlushCompleted` once it owns all its buffers again (so after the renderer's
   `kWhatFlush` gave back those it held); with shutdown, `initiateShutdown` follows and then
   `ShutdownCompleted`, at which the decoder is dropped.
4. `finishFlushIfPossible`: when both tracks are `FLUSHED` or `SHUT_DOWN`, the renderer gets its
   `signalTimeDiscontinuity` (it CHECKs that its queues are empty), surviving codecs resume, and one of
   three continuations runs: `finishReset`, the postponed `kWhatReset` is posted again, or
   the sources are scanned for the decoders that were shut down.

Two facts the protocol leans on: the codec's notification takes two hops (codec, Decoder, player)
and the video codec is on another looper, yet `kWhatFlush` posted in step 1 is always handled
before `FlushCompleted`, because the player's looper is FIFO; and a codec that is not Executing
answers a flush at once, so a flush may overtake a starting codec.

## 2. Modules

| Module | Models |
|---|---|
| `DashLoopers` | the two event loops: `mainQ` (player, renderer, decoders, audio codec) and `videoQ` (video codec) as FIFO sequences, and the delayed messages: `scanTimers` (the 100 ms scans, by generation) and `fillTimers` (the 10 ms retries) |
| `DashCodecContract` | a DashCodec as its player sees it: what it answers and who owns the input and the output buffer, including a change of the output port |
| `DashRendererContract` | the Renderer as player and codecs see it: flush flags, pause flag, the two queues |
| `DashPlayer` | every handler of the playback and flush protocol, composed with the two contracts, the driver's calls and the source's discontinuities |
| `MCDashPlayer` | budgets and discontinuity sets of its TLC runs |
| `DashPlayer_proofs`, `DashPlayerFlush_proofs` | theorems about `DashPlayer`: types and waits; who owns a reset, who owes a flush |
| `DashCodec`, `DashCodec_proofs` | the codec itself: ten states, every buffer of both ports, deferred messages, port changes, the native window |
| `DashCodecRefinement`, `MCDashCodec` | the mapping of `DashCodec` to `DashCodecContract`, and the budgets of its runs |
| `DashRenderer`, `MCDashRenderer`, `DashRenderer_proofs` | the Renderer itself: drain messages, generations, `mSyncQueues`, audio sink, anchors |
| `DashPlayerDriver`, `MCDashPlayerDriver`, `DashPlayerDriver_proofs` | the driver with its two threads, each call and callback cut where the other thread can come in between |
| `DashPacketSource`, `DashPacketSource_proofs` | the queue, its lock and its condition |
| `DashCodecConfig` | `configureCodec` and the setup functions, as sequences of requests the component may refuse |
| `DashCodecFormats` | how a change of the output format travels from the component to the client |
| `DashCodecWindow` | `pushBlankBuffersToNativeWindow` and the window it leaves |
| `ArmFFT` | sizes, layout and twiddle factors of the six FFT variants |
| `Ext4Resize` | the resizing of the data partition over a sequence of boots |
| `DashParts_proofs` | theorems about the last three |
| `SequenceLemmas` | what the proofs need of sequences: induction, loops over them, counting, what a queue has yet to settle, what in it is behind what |
| `MCDashParts` | one instance of the six modules that run on their own |

### How state and actions correspond to the code

One action is one `onMessageReceived` case, from delivery to return, with everything it calls
(`flushDecoder`, `finishFlushIfPossible`, `finishReset`, `postScanSources`,
`feedDecoderInputData`, `renderBuffer`, ...). Handlers on one looper do not interleave;
handlers of the two loopers, delayed messages, the application's calls and the OMX component do.

`DashPlayer`:

* `source`, `decoders`, `renderer.on` say which of `mSource`, `mVideoDecoder`/`mAudioDecoder`/
  text decoder, `mRenderer` are not NULL. `flushing[t]` is `mFlushingAudio/Video`.
* A scan generation is `"cur"` or `"old"`: advancing the generation turns every scan on its way
  into an old one (`Obsolete`, `ObsoleteTimers`), so the counter needs no bound.
* `failed` names a failed `CHECK` or a call through a null `sp<>`; the process has then ended and
  no action is enabled. In particular nothing can be hidden by going on after a failed CHECK.
* A message to a handler the player has unregistered is dropped, as `ALooperRoster` does.
* `driver.reset` is the thread inside `DashPlayerDriver::reset`: "waiting" on the condition,
  "woken" by `notifyResetComplete`. While it is inside, the application makes no other call.
* `OnScanSources` chooses the tracks whose format is known by now and what
  `feedMoreTSData` answers; `OnFillThisBuffer` chooses between an access unit, `-EWOULDBLOCK`, an
  end of stream and the discontinuity at the head of the track's queue.

`DashCodec`: the record `c` is the object, `inbox` the messages to it, `outbox` those to its
Decoder; `held` and `player` are the client's side. A handler is an operator on `c`, one per state and
message; a message a state does not handle is dropped, as `onMessageReceived` does.

`DashRenderer`: the record `r` is the object. Its messages and the player's share `mainQ`. A drain
message is counted by generation (`posted` current, `stale` old) and may fall due at any time.

`DashPlayerDriver`: `thread` says which call each thread is in and which step of it comes next; the
driver's unlocked fields are read and written in separate steps. The player is reduced to its
source, its renderer, whether it has decoders, and its queue.

### Abstractions

* `DashPlayer` is composed with the contracts, in which a port has one buffer: what a flush waits for is
  the last buffer to come back. `DashCodec` has any number of buffers, and with one per port it is shown to
  implement the contract (run `codec_refines`), so the contract invents nothing and forgets nothing
  the player could see.
* No time. A timer may fall due at once or very late; a paused renderer drains nothing and an
  unpaused one may drain at any moment. Every timing of the code is a behaviour of the model.
  `DashRenderer` keeps of times only what the code asks: whether audio starts more than 100 ms before video,
  and whether the anchor is older than a pause.
* Access units, formats and settings are numbers or names; a frame is late, or dropped, by free choice.
* Only the DASH source: `kWhatSetDataSource` variants for other sources do not exist in this tree.
* `ArmFFT` replaces the cosine by a wave of straight lines with the same symmetries and zeros. It takes a
  value twice only where the cosine does, so a factor is right for one iff it is right for the other. `Saturated`
  is the last entry whose cosine rounds to -32768 in 16 bits.
* `Coupled` bounds interleavings of one codec: its output and its next request then come in one step. Run
  `video` does without it.

What the environment is trusted with is written down as constants, so that it can be taken away:

* `Assumed` of `DashCodec`: "final", a codec whose stream has ended is shut down and not resumed. Run `codec`
  needs it; run `codec_refines` and the theorems do not. The component may change its port at any time.
* `Trusted` of `DashCodecFormats`: "settled", the component changes its format only when the last change
  is dealt with; "one port", with adaptive playback every size fits the buffers there are. Without either,
  `FormatFitsFrame` fails (finding 13 is about the second).
* `Budgets` of `DashPlayerDriver` never let the application pause while the playback ends, nor seek
  before a reset in one behaviour: findings 5 and 6 say what happens then. The definitions `Together` and
  `SeekThenReset` of `MCDashPlayerDriver` are the budgets that show it.

## 3. Runs

No symmetry is used: audio and video differ (loopers, order of flushes), and the buffers of a codec
matter little at these sizes. Deadlock checking is off in every run: once the budget is spent and
nothing is queued the system may really rest, a part that has returned has ended, and after a
failed CHECK the process has.

| Run | Instance | States | Shows |
|---|---|---|---|
| `control` | both tracks and text; a seek or a format discontinuity, and a reset, at any moment of startup, playback or flush | 2.0 M | no CHECK fails; every flush and shutdown is owed by exactly one party (`FlushAccounted`); a reset always has somebody to carry it on (`ResetHasOwner`); a wait always has a decoder behind it (`WaitedForHasDecoder`); a missing track is scanned for (`MissingTrackIsScanned`); no decoder is made during a flush (`NoDecoderDuringFlush`) |
| `video` | one output, input and output of the codec moving separately; pause, seek, reset; two lives of the player and an error; port changes with seek and reset | 0.97 M | no CHECK fails; a buffer a codec gave away is in exactly one place (`BuffersConserved`) |
| `disc` | one discontinuity of format, time or both, ends of stream, dry source | 0.87 M | the discontinuity reaches the two tracks at different times: a flushed track is quiet in the renderer (`FlushedTrackIsQuiet`), a codec taken for running runs (`ResumedCodecRuns`), completion is reported only at the end (`CompleteOnlyAtTheEnd`) |
| `pause` | fair; one output, nothing need be rendered; pause, resume, seek, reset; or a reset, an error and a port change | 0.24 M | a paused renderer gives its buffers back: every flush ends and the reset returns, also when the codec fails, or has no memory for its changed port (`CodecPortFails`) |
| `live` | fair; both tracks, a source with nothing to give; a reset, and one of: a seek, a change of format that the tracks meet at different times, a codec error, a port change | 0.81 M | `ResetCompletes`, with each of them before or during the reset |
| `codec` | fair; one input and three output buffers, a window that keeps one and fails once to give one; two flushes, one port change at any time | 0.31 M | no CHECK fails, and the component gets one command at a time from a state that waits for its report; answers are owed by exactly one party (`AnswerOwed`); buffers go around, but for one that a failed dequeue leaves at the window (`BuffersGoAround`); an active codec keeps decoding (`ActiveIsBusy`); a resumed one is active, or met the resume in `FlushingOutput` (`ResumedIsActive`, finding 19); flushes and shutdowns are answered |
| `codec_refines` | one buffer per port; two flushes, two port changes, an error, a window that fails once; nothing assumed | 0.21 M | `DashCodec` implements `DashCodecContract` |
| `renderer` | fair; one buffer per track; pairs of pause, flush, seek (which flushes both tracks and may change which are there) and change of the sink, and a sink that fails around each of them | 0.28 M | a queue with entries has exactly one live drain, unless the audio drain gave up on its sink (`DrainIsPosted`); no buffer is lost (`NoBufferLost`); no frame is timed by an anchor from before a pause (`TimedAfterPause`); the queues do not wait for each other for ever, nor the video for a failed sink (`BuffersComeBack`) |
| `driver` | fair; one or two contents, two pauses or one end of playback, two seeks or two resets | 50 k | no CHECK fails; `isPlaying()` tells the truth at rest (`DriverAgrees`); no position outlives its content (`PositionIsCurrent`); every seek is answered (`SeekIsAnswered`) |
| `parts` | one of six modules per behaviour, chosen at the start | 0.22 M | see below |
| `reset_after_flush` | violation expected | | finding 3 |
| `lost_request` | violation expected, fair | | finding 4 |

`parts` runs six small modules, which share nothing, in one instance: `SomebodyIsTold` and
`StreamIsTrue` (packet source: two readers, six calls of the producer), `LayoutFits` and `TwiddlesRight`
(FFT: eleven orders including both ends, four alignments), `ConfiguredAsAsked` (every codec, with one
thing missing or one asked for besides, two refusals at any place), `FormatFitsFrame` (four formats, four
buffers), `WindowIsLeftClean` (a window that keeps two, three buffers, any calls failing, `cancelBuffer` and those
that clean up included) and `ResizeSettles`
(181 partition sizes around a group's end, three images, four boots).

**Why the bounds are enough.** The flush protocol has two participants per trigger and three
triggers. Every hazard found in the code needs at most two triggers in flight, plus a stale
delayed message: the runs together allow every order of two triggers at every point of the others'
progress. In `codec`, three output buffers and one kept by the window are the least with which a buffer
can be with the component, downstream and at the window at once; one failed dequeue and one port change can meet
both flushes, before, during and between them. In `renderer`, each pair of calls can
meet each drain. In `ResizeSettles` two boots can fail in any step before two that do not. Third triggers
meet only combinations of flush statuses that the two-trigger runs reach already, except a second
discontinuity on one track, and a codec that fails while its track is `FLUSHED` and the other awaits: these
end in the CHECKs of finding 3 and are listed as hazards. One state is out of reach: in the fair runs no paused renderer
holds the buffers of a track that AWAITS its discontinuity while the other is flushed, which `kWhatReset` resumes the
renderer for (`DashPlayer.cpp:674`). With two tracks that decode, a discontinuity, a pause and a reset have more than 3 million states.

**Fairness.** All of it is weak unless said otherwise.

* `DashPlayer`: each looper delivers what is queued; a 10 ms retry and a current-generation scan
  fall due (when nothing else is left to do); the OMX component answers a start, a flush and a stop; a thread woken on
  the condition runs. Looper threads always run, the timers are messages with
  a delay, OMX commands complete. *Not* assumed: that the application calls anything, that the
  component decodes, that the renderer drains, or that an old-generation scan ever comes.
* `DashCodec`: the codec handles its messages, the component obeys a command and returns the buffers it
  has to return for it, the client hears, and gives buffers back while it flushes or stops the codec: `Renderer::flush` and
  the answers to input requests do that at once.
* `DashRenderer`: its looper delivers, the drains fall due, the codecs go on queueing. *Not* assumed: that a drain of the audio
  finds a sink that works. It may always end in `DrainAudioFails`, which posts no further drain. Strong fairness is needed where the
  audio sink's room comes and goes while the hardware plays, and where a message's payload
  decides whether it ends the synchronisation of the queues.
* `DashPlayerDriver`: both threads finish the call they are in, and the polling of `prepareAsync` falls due.

## 4. Proofs

`DashPlayer_proofs` proves, for all values of the constants that satisfy `ConstantsAssumption`
(any outputs, budgets, discontinuity types and answers of the source):

* `TypeCorrect`: `Spec => []TypeOK`. `TypeOK` is inductive. It is split into a core part and a side
  part; one lemma per action shows that the action keeps both, on top of lemmas
  on the helpers (`Obsolete`, `StatusAfterFlush`, `FinishFlushIfPossible`, ...). The message type carries
  one relation that matters: an end of stream says why, a filled buffer says how it went; the
  types of the codec's `eos` and of the renderer's queues rest on it.
* `NobodyWaitsForNoDecoder`: `Spec => []WaitedForHasDecoder`. While a flush is going on, every track
  that `finishFlushIfPossible` waits for has a decoder: were there none, nobody could complete the wait and
  the player would hang. The invariant is inductive relative to `TypeOK` when it is stated for
  an arbitrary status and set of decoders (`Waits`, `Pending`): `flushDecoder` creates waits only for
  live decoders (`WaitsFlush`), an update of one track's status keeps them (`WaitsUpdate`),
  `finishFlushIfPossible` either leaves, extends or ends them (`WaitsFinish`), and only
  `ShutdownCompleted` removes a decoder, setting its track to `SHUT_DOWN` in the same step.

`DashPlayerFlush_proofs` proves, for the same constants:

* `ResetsHaveAnOwner`: `Spec => []ResetHasOwner`. A reset in progress or postponed has a decoder whose answer carries it on.
  The invariant `RInv` says how a reset comes to be alone. It is in ONE place (`OneReset`: posted, in progress,
  postponed, counted over the queue, or nowhere); behind a posted one nothing follows that starts the player
  (`Behind`, because the application waits), so that during one no scan of the current generation is queued or
  timed and no track can be flushed any more (`NoScanInReset`). Then whichever track is not done when
  `finishFlushIfPossible` looks is being flushed, and `WaitedForHasDecoder` gives it a decoder. A scan in the middle of
  a reset would be the way to lose it: the new decoder's track is `NONE` and nobody answers for it. Most handlers are dealt
  with by one lemma, since what they post is `Harmless` (`RTakes`, `RPosts`). Since `driver.reset` is `"waiting"` in each of
  the places a reset is in, the CHECK of `notifyResetComplete` cannot fail either.
  TLC checked `RInv` on 13 million states first.
* `FlushesAreAccounted`: `Spec /\ PortsHold => []FlushAccounted`. A flush or shutdown that a track's status waits for
  is owed by exactly one party (the queued request, the codec at work, or the answer on its way), and nobody owes one
  that is not waited for. The hypothesis `PortsHold` says that no `CodecPortFails` step happens: a codec that gives up at its output port
  reports a shutdown nobody asked for, so the statement is false without it; every other failure of a codec is allowed.
  The invariant is `RInv /\ BooksNow`. `Accounts` counts, over both loopers and the codec's state, who owes a track's
  answer (`Owed`) and says it is one party exactly when the status waits. `SetUpFirst` is what keeps that true when a
  decoder is made: a codec that is not set up yet is idle and owes nothing, and on its looper no `Setup` comes behind
  another one or behind a shutdown request, so a new decoder never meets an old request. A message the books do not mention (`Calm`)
  is dealt with by one lemma for all handlers (`BTakes`, `BPosts`, `BCalmHears`, `BCalmActs`). An answer of a decoder
  that the player has unregistered is dropped; `WaitedForHasDecoder` shows that nobody waited for it.
  TLC met no counterexample to the invariant in random behaviours through 30 million states first.

`DashParts_proofs` proves, for every `MinUndequeued` and `Outputs` that satisfy `WindowAssumption`:

* `LeftClean`: `WindowSpec => []WindowIsLeftClean`, where any number of calls may fail, those at `error:` included.
  `failed` is the history of them. When `pushBlankBuffersToNativeWindow` returns, it holds no buffer of the window but
  the one a failed `cancelBuffer` left with it; the media API is connected again, unless a call that was to connect an
  API failed (it is then unconnected) or the one that was to disconnect the CPU API did (that one stays); and if nothing failed
  a blank buffer is on the screen. The last needs a counting argument: the loop pushes one buffer
  more than the window may keep, so not all of them can still be queued, and the dequeue of the last had to wait
  until one of them was shown. The inductive invariant `WindowInv` says what is held at each call (`Holding`),
  which calls can have failed by then (`Errors`), which API is connected (`Connected`) and where the pushed buffers
  are (`Counting`).

`DashRenderer_proofs` proves, for every `NumBuffers` and `Limits` that satisfy `RendererAssumption`:

* `NoCheckFails`, `DrainsArePosted`, `NoBufferIsLost`: `Spec => []Inv` for the three invariants of run `renderer`;
  `FramesAreTimedAfterPause`: its action property `TimedAfterPause`. All four follow from one inductive
  invariant, `IInv`. Types aside, it has two kinds of parts.
* About the object alone (`Running`): `mDrainXQueuePending` counts one posted drain (`Driven`), an anchor from before
  a pause is there only while `mWasPaused` says so, and a video buffer is in the queue only
  when video has come (`Timed`).
* About object and looper together: one `kWhatFlush` per flag of `mFlushing` (`OneFlush`), every buffer in one hand, and three
  facts on the ORDER of what is still queued (`Pauses`, `Sinks`, `Ends`). A CHECK fails only if a pause is handled while
  paused, or a sink change while audio is in the queue; when it is posted that is no
  matter of the renderer's state but of the messages in between. Each fact has the form of
  `SettledAtAll(q, b, X, Z, Y)` of `SequenceLemmas`: before any message of Y, what b or a message
  of X begins has been settled by a message of Z (a pause by a resume, queued audio by a flush). Taking the head and
  appending at the end keep that form, which is what one lemma per action needs.
  `IInv` was model-checked on 11 million states first, without the failures of the sink.
* The sink may fail at any drain. A `getPosition` that fails before anything was written makes `onDrainAudioQueue` give up: the drain
  is no longer pending, none is posted, and `mute` (history) remembers it until the next audio drain is posted. `DrainIsPosted`
  excepts exactly that. Every later failure meets a `CHECK_EQ` on the sink, which ends the process (`failed = "audioSink"`); `Steady` is what
  holds even then, `Working` that no CHECK has failed yet.
* The loops that give every buffer of a queue back (`onFlush`, the drop of early audio) are folds in the model: that
  they post one answer per buffer is proved by induction over the queue (below).

`DashPlayerDriver_proofs` proves, for any budget of the application's calls, the ends of playback and the reports:

* `DriverTellsTheTruth`: `DriverSpec => []DriverAgrees`, and `NothingOutlivesAReset`: `DriverSpec => []PositionIsCurrent`.
  The inductive invariant `DriverInv` holds until a CHECK fails. `Agree` compares `mState` not with the renderer but with what
  the queue will make of it (`Promised`: the last `kWhatStart`, `kWhatPause` or `kWhatResume` decides), or with what a
  thread that has posted one of them is about to write. When both threads pause at once it breaks, and `AgreeOK`
  then says what comes of it: the queue is `Doomed`, since the second `kWhatPause` behind the first meets a renderer that is
  not playing, whose CHECK ends the process (finding 5). So no such state is ever at rest.
  `StepsOK`, `DecodersOK` and `SourceOK` follow a reset through its four messages: while one is queued the application waits, the
  end of playback comes before the flush has completed, and when the source is gone nothing is left that would
  start, pause or resume a renderer. `BeginOK` says that a content is started once.
  The handlers of the messages the invariant is not about (positions, seeks, prepare) are dealt with by one lemma
  (`NothingOfNote`). `DriverInv` was model-checked on 4.4 million states first, with budgets that let everything meet.

`DashCodec_proofs` proves, for every `NumInput`, `NumOutput`, `HasWindow`, `MinUndequeued`, `Budget` and `Assumed` that satisfy
`CodecAssumption`, an empty `Assumed` included:

* `NoCheckFails`: `Spec => []NoFailedCheck`; `ActiveCodecIsBusy`: `Spec => []ActiveIsBusy`; `BuffersAreInOnePlace`:
  `Spec => []BufferInOnePlace`, the part of `BuffersGoAround` that needs no trust. They follow from one inductive invariant,
  `IInv`, which was model-checked on 640 000 states first, without the failures of the window. Handlers are operators on the codec, so its main part is a relation
  `Fits(k, q)` of a codec and the messages it has still to handle. `Sound(k)` says which command each state waits for
  (`Commanded`), that a codec that is not active has every buffer (`Resting`, without which `resume` would submit a
  buffer that is elsewhere), and that an active one keeps output and input going (`Busy`). `Balanced(k, q)` keeps a book per
  buffer and one of the flushes: what is posted, deferred, in the player's hands and on its way back.
* `EnterExecuting` handles every deferred message before it returns, each of them in the state the one before has left. `EntersByOne`
  unfolds that loop: `Fits` holds of the codec so far and of the deferred messages left, put before the inbox.
* `AnswersAreOwed`: `Spec /\ [][~NowDisabledFails]_vars => []AnswerOwed`. Without memory for a port that is enabled again, the
  code frees the node on the spot and answers a shutdown nobody has asked for (`PortsHold` excludes the same of the
  player), and a shutdown that is then asked for is answered once more. The book of the shutdowns (`Stops`) balances in every
  other case, refused output and errors of the component included.
* `ResumedCodecIsActive`: `Spec => []ResumedIsActive`, for a component that changes its port whenever it likes. A port change
  that reaches a codec in Flushing is deferred and taken up when the codec is back in Executing and not yet active; the
  player's resume then meets `FlushingOutput`, which drops it, or `OutputPortSettingsChanged`, which defers it. `missed` (history,
  cleared by the next flush) marks the first (finding 19). The theorem says that a resume is lost nowhere else: a codec in
  Executing that the player has resumed is active, or exactly one resume is still to come, or `missed` holds. The inductive invariant `RInv`
  adds to `IInv` the order of the calls (`Ordered`): over the inbox and the deferred messages together, behind a resume comes neither a
  flush nor a second resume, a resume is deferred only while the port is being enabled again, and none is
  anywhere unless the player is playing or flushes once more; and `Awake`, the statement itself for the states of a port change as well.
  `ChangeState` and `EnterExecuting` may handle a deferred flush, port change, resume and shutdown in one step; `EnterInOrder`
  follows that loop message by message, as `EntersByOne` does for `Fits`.

`DashPacketSource_proofs` proves, for any finite, non-empty set of `Readers`, any `Times` and any budget:

* `ReadersAreTold`: `PacketSpec => []SomebodyIsTold`. The condition is signalled once per call, for whoever comes
  first. Inductive is `EnoughTold`: while somebody waits, the buffers are no more than the readers woken, and after
  the end of the stream not all of them wait. The seek that throws several buffers away and signals once only lowers
  the left side.
* `ReadersLearnTheTruth`: `PacketSpec => []StreamIsTrue`. It rests on what the two loops compute: the first part of the
  module proves, for a queue of any length, what is left of it after a discontinuity and what
  `getBufferedDurationUs` returns.

`DashParts_proofs` proves `LayoutsFit`: `FFTSpec => []LayoutFits` under `FFTAssumption`, for any table of order at least 3 and
for orders and addresses out of all the naturals. The 62 bytes that GetBufSize adds pay for both
alignments, and 3N/4 and 5N/8 round alike in GetBufSize and in Init. The inductive invariant is that the structure is
the layout of the order that was asked for.

`DashParts_proofs` proves `Settles`: `ResizeSpec => []ResizeSettles` under `ResizeAssumption`, for any sizes of the images, the
partition, the groups and the reserve. A boot without a failure leaves one of two sizes (`OneOfTwo`), of which the
reserved blocks choose the one `main` asks for next; a growth takes reserved blocks away and a shrink gives some
back, so that the choice does not change again (`Settled`). `TargetIsAsked` is the part about a boot cut off
half-way.

**Induction over data.** The library's induction theorems take an operator as a parameter, which no installed prover can
instantiate. `SequenceLemmas` states induction for a SET of numbers or sequences instead ("a set that
contains `<<>>` and with q every `Append(q, e)` contains every sequence"), derives from it that a function
defined step by step along 0 .. n exists, and thereby what a fold of the model computes (`HitsConcat`,
`HitsAppend`, ... for counting). Nothing there is assumed.

The refinement of `DashCodecContract` by `DashCodec`, its property `NoneStaysAtWindow` (of `BuffersGoAround`)
and all properties not named above are only model-checked. `NoFailedCheck` of the player cannot be a theorem, since the
findings violate it for some constants; the same holds of `DriverNeverHalts` and of `FormatFitsFrame` without
their trust. Liveness under fairness and `ENABLED` are out of the prover's reach and stay with TLC.

## 5. Findings

The two with a run are found by TLC in the project as it is; the others were met while modelling, and
where TLC shows one the instance is named. `PROJECT.json` quotes the lines they contradict.

1. **Scan during a flush** (`DashPlayer.cpp:843`). `kWhatResume` posts a scan of the current
   generation whenever a decoder is missing, even while a flush is under way, and a decoder is
   made in the middle of it.
2. **Failed seek** (`DashPlayer.cpp:737`). `mTimeDiscontinuityPending` is set although `seekTo` failed and
   nothing was flushed; the next scan runs into the renderer's CHECK on empty queues.
3. **Reset after a half-done discontinuity** (`DashPlayer.cpp:705`, run `reset_after_flush`). `kWhatReset`
   flushes a track that is already `FLUSHED`, which `flushDecoder` CHECKs against.
4. **Lost input request** (`DashPlayer.cpp:413`, run `lost_request`). A request that would block while
   `feedMoreTSData` does not answer OK is dropped for good: the codec waits for its buffer, and
   the reset never returns.
5. **Two pauses** (`DashPlayerRenderer.cpp:670`). `notifyListener` and the application both pause; the second
   `onPause` CHECKs. Budget `Together` of `MCDashPlayerDriver`.
6. **A seek behind a reset** (`DashPlayer.cpp:646`) calls through the null source. Budget `SeekThenReset`.
7. **A refused setup reported as success** (`DashCodec.cpp:1120`) when the message has a max-input-size.
8. **FLAC decoder** (`DashCodec.cpp:1073`) configured with uninitialised channels and sample rate.
9. **A number of channels without a mapping** (`DashCodec.cpp:1443`) counts as success.
10. **`CHECK(ret > 1)`** (`DashCodec.cpp:1755`) fails for one frame and one key frame per second.
11. **Window left disconnected** (`DashCodec.cpp:2398`) when connecting it to the CPU API fails.
12. **Checkerboard** (`DashCodec.cpp:2448`): the comment promises one, the code draws one pixel.
13. **Frames after a port change are not marked** (`DashCodec.cpp:3819`) with adaptive playback. TLC finds
    `FormatFitsFrame` violated without "one port".
14. **16-bit twiddle factors** (`omxSP_FFTInit_C_SC16.c:147`): from order 11 on some have the wrong sign. TLC
    finds `TwiddlesExact` violated for `C_SC16` at orders 11 and 12.
15. **e2fsck skipped** (`ext4_resize/main.c:93`) for good after a power failure behind `resize2fs`.
16. **A failed size is taken for a size** (`ext4_resize/main.c:155`): -1 in an unsigned variable.
17. **A counter always 0** (`DashPlayerStats.cpp:176`).
18. **An assignment in a condition** (`DashPlayer.cpp:1732`).
19. **A dropped resume** (`DashCodec.cpp:4124`). `FlushingOutputState` defers a flush and a shutdown but does not know
    `kWhatResume`; the next state of the same port change defers it. The codec stays inactive. TLC finds `ResumedIsActive`
    violated without its last disjunct, `c.missed`.
20. **A shutdown nobody asked for** (`DashCodec.cpp:3800`). A codec without memory for its changed output port reports
    `ShutdownCompleted`, and the player's CHECK on the flush status ends the process. TLC finds `NoFailedCheck` violated with
    the budget `PortFails` of `MCDashPlayer`.

Seen as well, without a line that promises otherwise: playback reported complete too early after a seek near the end
(`endOfStream` is cleared by `kWhatStart` only); the text scan dropped for good by a time discontinuity; a scan
that ends with an end of stream queues a pause behind a reset; a player reset while paused drops the scans
of its next life; a second discontinuity on a `FLUSHED` track; an audio queue that nobody drains once
`getPosition` has failed (`DashPlayerRenderer.cpp:236`), until the next audio buffer is queued or the renderer is resumed. They are
listed as hazards.

## 6. Not modelled

* `DashFactory`, `DashPlayerStats`: no state the player reads.
* The OMX node buffer handler, the Bluetooth vendor library, the Wi-Fi driver commands: straight-line calls into
  vendor code and ioctls, without a protocol of their own. The Bluedroid overlay patches a program that is not here.
* Boot scripts, device configuration, vendor headers and prebuilt libraries: no program logic, or no source.
* The FFTs themselves: assembly.
* Of `DashPlayer`: buffering events of the source, get/setParameter, the contents of text packets. Of the codec: the choice
  of a component by name, the contents of codec-specific data, timestamps. Of the renderer: presentation times as numbers. Of
  the packet source: `nextBufferTime`, which nothing in the repository calls.
* That `DashRenderer` implements `DashRendererContract` is argued, not checked: the contract allows every order of
  drains while the renderer is not paused, and its flush flags and answers are those of `DashRenderer`. The fairness of
  `DashPlayer` asks for no drain, so a sink that gives up is one of its behaviours; one that meets a `CHECK_EQ` of the renderer ends the
  process and is in `DashRenderer` only.
* The process restarting after a crash: nothing of the player is persistent. Only `ext4_resize` has a state that
  survives one, and its module starts over at any point.

## 7. What is left to prove

Of the player, in this order: `BuffersConserved` (under `PortsHold`, and with a source whose `feedMoreTSData` answers OK, finding 4),
`FlushedTrackIsQuiet`, `ResumedCodecRuns`, `MissingTrackIsScanned`; `NoDecoderDuringFlush` holds only without a resume during a
flush (finding 1). Then `DriverNeverHalts` of the driver with budgets that keep findings 5 and 6 apart, `FormatFitsFrame` of the formats,
`NoneStaysAtWindow` of `DashCodec` under what is assumed of the component and the player, and that it implements its contract.
