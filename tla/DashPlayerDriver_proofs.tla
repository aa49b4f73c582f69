----------------------- MODULE DashPlayerDriver_proofs -----------------------
(***************************************************************************)
(* Proofs about the driver and its two threads, for any number of calls,       *)
(* seeks, ends of playback and resets, in any order:                          *)
(*                                                                         *)
(*   DriverTellsTheTruth   DriverSpec => []DriverAgrees                       *)
(*   NothingOutlivesAReset DriverSpec => []PositionIsCurrent                  *)
(*                                                                         *)
(* mState is what the messages in the queue will make of the renderer, or what  *)
(* a thread that has posted one of them is about to write.  When both threads   *)
(* pause at once the later write may be wrong; but then two kWhatPause follow    *)
(* each other in the queue, and the second stops the process in a CHECK before   *)
(* the queue is empty.                                                       *)
(***************************************************************************)
EXTENDS DashPlayerDriver, SequenceLemmas

-----------------------------------------------------------------------------
(*                    The messages, and what they will do                     *)

Open      == {"SetDataSource"}
Controls  == {"Start", "Pause", "Resume"}
Beginners == {"Start", "Scan"}
Ends      == {"RendererEOS"}

(* The steps of a reset, and the last of them.                                 *)
ResetSteps == {"Reset", "Flush", "FlushCompleted", "ShutdownCompleted"}
LaterSteps == {"Flush", "FlushCompleted", "ShutdownCompleted"}
Stopping   == {"FlushCompleted", "ShutdownCompleted"}

(* What is never posted behind a step of a reset, since the application waits.    *)
NotInReset == ResetSteps \cup {"SetDataSource", "Start", "Resume"}

(* Messages that change nothing the driver's state is about.                    *)
Plain == {"PrepareAsync", "IsPrepareDone", "Seek", "Position"}

(* What a control message makes of the renderer.                               *)
Makes(m) == IF m = "Pause" THEN "paused" ELSE "on"

(* After the messages of q the renderer is x.                                  *)
Promised(q, rend, x) ==
    \/ NoneOf(q, Controls) /\ rend = x
    \/ \E i \in 1 .. Len(q) : /\ q[i] \in Controls /\ Makes(q[i]) = x
                              /\ \A j \in i + 1 .. Len(q) : q[j] \notin Controls

(* One of the messages of q will ask a renderer that is not playing to pause.      *)
Doomed(q, rend) ==
    \E j \in 1 .. Len(q) :
        /\ q[j] = "Pause"
        /\ \/ \E i \in 1 .. j - 1 : q[i] = "Pause" /\ \A k \in i + 1 .. j - 1 : q[k] \notin Controls
           \/ rend # "on" /\ \A k \in 1 .. j - 1 : q[k] \notin Controls

LEMMA PromisedServed ==
    ASSUME NEW E, NEW q \in Seq(E), q # <<>>, NEW r, NEW x, Promised(q, r, x),
           NEW r2, r2 = IF Head(q) \in Controls THEN Makes(Head(q)) ELSE r
    PROVE  Promised(Tail(q), r2, x)
<1> DEFINE u == Tail(q)
<1>1. /\ Head(q) = q[1] /\ Len(q) \in Nat \ {0} /\ Len(u) = Len(q) - 1
      /\ \A i \in 1 .. Len(u) : u[i] = q[i + 1] /\ i + 1 \in 1 .. Len(q)
  BY HeadTailProperties, LenProperties, EmptySeq
<1>2. NoneOf(q, Controls) <=> Head(q) \notin Controls /\ NoneOf(u, Controls)
  BY Served
<1> HIDE DEF u
<1>3. CASE NoneOf(q, Controls) /\ r = x
  BY <1>2, <1>3 DEF Promised, u
<1>4. CASE \E i \in 1 .. Len(q) : /\ q[i] \in Controls /\ Makes(q[i]) = x
                                  /\ \A j \in i + 1 .. Len(q) : q[j] \notin Controls
  <2>1. PICK i \in 1 .. Len(q) : /\ q[i] \in Controls /\ Makes(q[i]) = x
                                 /\ \A j \in i + 1 .. Len(q) : q[j] \notin Controls
    BY <1>4
  <2>2. CASE i = 1
    <3>1. r2 = x
      BY <1>1, <2>1, <2>2
    <3>2. NoneOf(u, Controls)
      <4> SUFFICES ASSUME NEW j \in 1 .. Len(u) PROVE u[j] \notin Controls
        BY DEF NoneOf
      <4>1. u[j] = q[j + 1] /\ j + 1 \in 2 .. Len(q)
        BY <1>1
      <4> QED
        BY <2>1, <2>2, <4>1
    <3> QED
      BY <3>1, <3>2 DEF Promised, u
  <2>3. CASE i # 1
    <3>1. i - 1 \in 1 .. Len(u) /\ u[i - 1] = q[i]
      BY <1>1, <2>3
    <3>2. ASSUME NEW j \in i .. Len(u) PROVE u[j] \notin Controls
      <4>1. j \in 1 .. Len(u) /\ j + 1 \in i + 1 .. Len(q)
        BY <1>1, <3>2
      <4> QED
        BY <1>1, <2>1, <4>1
    <3>3. (i - 1) + 1 = i
      BY <1>1
    <3> QED
      BY <2>1, <3>1, <3>2, <3>3 DEF Promised, u
  <2> QED
    BY <2>2, <2>3
<1> QED
  BY <1>3, <1>4 DEF Promised

LEMMA PromisedPosted ==
    ASSUME NEW E, NEW q \in Seq(E), NEW e \in E, NEW r, NEW x,
           \/ e \notin Controls /\ Promised(q, r, x)
           \/ e \in Controls /\ Makes(e) = x
    PROVE  Promised(Append(q, e), r, x)
<1> DEFINE u == Append(q, e)
           n == Len(q) + 1
<1>1. /\ Len(q) \in Nat /\ Len(u) = n /\ u[n] = e /\ \A i \in 1 .. Len(q) : u[i] = q[i]
  BY AppendProperties, LenProperties
<1>2. NoneOf(u, Controls) <=> NoneOf(q, Controls) /\ e \notin Controls
  BY Posted
<1> HIDE DEF u
<1>3. CASE e \in Controls /\ Makes(e) = x
  <2>1. n \in 1 .. Len(u) /\ n + 1 .. Len(u) = {}
    BY <1>1
  <2> QED
    BY <1>1, <1>3, <2>1 DEF Promised, u
<1>4. CASE e \notin Controls /\ Promised(q, r, x)
  <2>1. CASE NoneOf(q, Controls) /\ r = x
    BY <1>2, <1>4, <2>1 DEF Promised, u
  <2>2. CASE \E i \in 1 .. Len(q) : /\ q[i] \in Controls /\ Makes(q[i]) = x
                                    /\ \A j \in i + 1 .. Len(q) : q[j] \notin Controls
    <3>1. PICK i \in 1 .. Len(q) : /\ q[i] \in Controls /\ Makes(q[i]) = x
                                   /\ \A j \in i + 1 .. Len(q) : q[j] \notin Controls
      BY <2>2
    <3>2. i \in 1 .. Len(u) /\ u[i] = q[i]
      BY <1>1
    <3>3. ASSUME NEW j \in i + 1 .. Len(u) PROVE u[j] \notin Controls
      <4>1. j = n \/ (j \in i + 1 .. Len(q) /\ j \in 1 .. Len(q))
        BY <1>1
      <4> QED
        BY <1>1, <1>4, <3>1, <4>1
    <3> QED
      BY <3>1, <3>2, <3>3 DEF Promised, u
  <2> QED
    BY <1>4, <2>1, <2>2 DEF Promised
<1> QED
  BY <1>3, <1>4

(* What the doom comes from in a queue, at place j.                              *)
Dooms(q, rend, j) ==
    /\ q[j] = "Pause"
    /\ \/ \E i \in 1 .. j - 1 : q[i] = "Pause" /\ \A k \in i + 1 .. j - 1 : q[k] \notin Controls
       \/ rend # "on" /\ \A k \in 1 .. j - 1 : q[k] \notin Controls

LEMMA DoomedServed ==
    ASSUME NEW E, NEW q \in Seq(E), q # <<>>, NEW r, NEW r2, Doomed(q, r),
           \/ Head(q) \notin Controls /\ (r2 = r \/ r2 # "on")
           \/ Head(q) \in Controls /\ r2 = Makes(Head(q)) /\ ~(Head(q) = "Pause" /\ r # "on")
    PROVE  Doomed(Tail(q), r2)
<1> DEFINE u == Tail(q)
<1>1. /\ Head(q) = q[1] /\ Len(q) \in Nat \ {0} /\ Len(u) = Len(q) - 1
      /\ \A i \in 1 .. Len(u) : u[i] = q[i + 1] /\ i + 1 \in 1 .. Len(q)
  BY HeadTailProperties, LenProperties, EmptySeq
<1> HIDE DEF u
<1>2. PICK j \in 1 .. Len(q) : Dooms(q, r, j)
  BY DEF Doomed, Dooms
<1>3. q[j] = "Pause" /\ "Pause" \in Controls
  BY <1>2 DEF Dooms, Controls
<1>4. SUFFICES /\ j # 1
               /\ \/ \E i \in 1 .. j - 2 : u[i] = "Pause" /\ \A k \in i + 1 .. j - 2 : u[k] \notin Controls
                  \/ r2 # "on" /\ \A k \in 1 .. j - 2 : u[k] \notin Controls
  <2>1. j # 1 => j - 1 \in 1 .. Len(u) /\ u[j - 1] = q[j] /\ (j - 1) - 1 = j - 2
    BY <1>1
  <2> QED
    BY <1>3, <1>4, <2>1 DEF Doomed, u
<1>5. CASE \E i \in 1 .. j - 1 : q[i] = "Pause" /\ \A k \in i + 1 .. j - 1 : q[k] \notin Controls
  <2>1. PICK i \in 1 .. j - 1 : q[i] = "Pause" /\ \A k \in i + 1 .. j - 1 : q[k] \notin Controls
    BY <1>5
  <2>2. j # 1
    BY <2>1
  <2>3. CASE i = 1
    <3>1. r2 = "paused"
      BY <1>1, <1>3, <2>1, <2>3 DEF Makes
    <3>2. ASSUME NEW k \in 1 .. j - 2 PROVE u[k] \notin Controls
      <4>1. k \in 1 .. Len(u) /\ k + 1 \in i + 1 .. j - 1
        BY <1>1, <2>3
      <4> QED
        BY <1>1, <2>1, <4>1
    <3> QED
      BY <2>2, <3>1, <3>2
  <2>4. CASE i # 1
    <3>1. i - 1 \in 1 .. j - 2 /\ i - 1 \in 1 .. Len(u) /\ u[i - 1] = q[i] /\ (i - 1) + 1 = i
      BY <1>1, <2>4
    <3>2. ASSUME NEW k \in i .. j - 2 PROVE u[k] \notin Controls
      <4>1. k \in 1 .. Len(u) /\ k + 1 \in i + 1 .. j - 1
        BY <1>1
      <4> QED
        BY <1>1, <2>1, <4>1
    <3> QED
      BY <2>1, <2>2, <3>1, <3>2
  <2> QED
    BY <2>3, <2>4
<1>6. CASE r # "on" /\ \A k \in 1 .. j - 1 : q[k] \notin Controls
  <2>1. j # 1
    BY <1>1, <1>3, <1>6
  <2>2. Head(q) \notin Controls
    <3>1. 1 \in 1 .. j - 1
      BY <2>1
    <3> QED
      BY <1>1, <1>6, <3>1
  <2>3. ASSUME NEW k \in 1 .. j - 2 PROVE u[k] \notin Controls
    <3>1. k \in 1 .. Len(u) /\ k + 1 \in 1 .. j - 1
      BY <1>1
    <3> QED
      BY <1>1, <1>6, <3>1
  <2> QED
    BY <1>6, <2>1, <2>2, <2>3
<1> QED
  BY <1>2, <1>5, <1>6 DEF Dooms

LEMMA DoomedPosted ==
    ASSUME NEW E, NEW q \in Seq(E), NEW e \in E, NEW r,
           Doomed(q, r) \/ (e = "Pause" /\ Promised(q, r, "paused"))
    PROVE  Doomed(Append(q, e), r)
<1> DEFINE u == Append(q, e)
           n == Len(q) + 1
<1>1. /\ Len(q) \in Nat /\ Len(u) = n /\ u[n] = e /\ \A i \in 1 .. Len(q) : u[i] = q[i]
  BY AppendProperties, LenProperties
<1> HIDE DEF u
<1>2. CASE Doomed(q, r)
  <2>1. PICK j \in 1 .. Len(q) : Dooms(q, r, j)
    BY <1>2 DEF Doomed, Dooms
  <2>2. j \in 1 .. Len(u) /\ u[j] = q[j] /\ \A k \in 1 .. j - 1 : u[k] = q[k]
    BY <1>1
  <2>3. Dooms(u, r, j)
    BY <2>1, <2>2 DEF Dooms
  <2> QED
    BY <2>2, <2>3 DEF Doomed, Dooms, u
<1>3. CASE e = "Pause" /\ Promised(q, r, "paused")
  <2>1. n \in 1 .. Len(u) /\ n - 1 = Len(q)
    BY <1>1
  <2>2. CASE NoneOf(q, Controls) /\ r = "paused"
    <3>1. \A k \in 1 .. n - 1 : u[k] \notin Controls
      BY <1>1, <2>1, <2>2 DEF NoneOf
    <3>2. Dooms(u, r, n)
      BY <1>1, <1>3, <2>2, <3>1 DEF Dooms
    <3> QED
      BY <2>1, <3>2 DEF Doomed, Dooms, u
  <2>3. CASE \E i \in 1 .. Len(q) : /\ q[i] \in Controls /\ Makes(q[i]) = "paused"
                                    /\ \A j \in i + 1 .. Len(q) : q[j] \notin Controls
    <3>1. PICK i \in 1 .. Len(q) : /\ q[i] \in Controls /\ Makes(q[i]) = "paused"
                                   /\ \A j \in i + 1 .. Len(q) : q[j] \notin Controls
      BY <2>3
    <3>2. q[i] = "Pause"
      BY <3>1 DEF Makes
    <3>3. i \in 1 .. n - 1 /\ u[i] = "Pause" /\ \A k \in i + 1 .. n - 1 : u[k] \notin Controls
      BY <1>1, <2>1, <3>1, <3>2
    <3>4. Dooms(u, r, n)
      BY <1>1, <1>3, <3>3 DEF Dooms
    <3> QED
      BY <2>1, <3>4 DEF Doomed, Dooms, u
  <2> QED
    BY <1>3, <2>2, <2>3 DEF Promised
<1> QED
  BY <1>2, <1>3

(* An empty queue makes nothing of the renderer.                                *)
LEMMA NothingQueued == \A r, x : /\ ~Doomed(<<>>, r)
                                 /\ Promised(<<>>, r, x) => r = x
                                 /\ \A S : NoneOf(<<>>, S)
                                 /\ \A X, Y : Never(<<>>, X, Y)
  BY DEF Doomed, Promised, NoneOf, Never

-----------------------------------------------------------------------------
(*                        The inductive invariant                            *)

First    == {"Reset"}
Flushed  == {"FlushCompleted"}
Shut     == {"ShutdownCompleted"}
Contents == {"Scan", "SetDataSource"}

App    == thread["app"]
Looper == thread["looper"]
AppAt(c, S) == App.call = c /\ App.at \in S

(* Where the application is: in reset(), or out of its wait for it; and where the   *)
(* looper's thread has posted a kWhatPause and not written mState yet.             *)
Waits      == App.call = "reset"
AfterReset == Waits /\ ~resetting
Writes     == Looper.at = "write"

DriverTypes ==
    /\ thread \in [Threads -> Calls]
    /\ mState \in States /\ resetting \in BOOLEAN
    /\ queue \in Seq(Messages)
    /\ renderer \in {"none", "on", "paused"} /\ decoders \in {"none", "running", "flushed"}

(* mState where a thread has read it: nothing has changed what it found.            *)
ThreadOK ==
    /\ Looper \in {Idle} \cup [call : {"pause"}, at : {"switch", "check", "write"}]
    /\ App.at = "seek" => App.call = "start" /\ mState = "STOPPED"
    /\ App.at = "check" => mState = "PAUSED"
    /\ AppAt("start", {"write"}) => mState \in {"STOPPED", "PAUSED"}
    /\ AppAt("pause", {"write"}) => mState \in {"PLAYING", "PAUSED"}
    /\ Writes => mState \in {"PLAYING", "PAUSED"}
    /\ Waits => mState # "UNINITIALIZED"

(* The queue holds one step of a reset while one is in progress, and it is the       *)
(* last but for what the looper's thread posts; the decoders say which it can be.    *)
StepsOK ==
    /\ resetting <=> ~NoneOf(queue, ResetSteps)
    /\ resetting => Waits
    /\ Never(queue, ResetSteps, NotInReset)
    /\ Never(queue, Flushed, Ends)
    /\ Never(queue, Shut, Controls)
    /\ NoneOf(queue, Shut) \/ (Looper = Idle /\ NoneOf(queue, Ends))

DecodersOK ==
    /\ decoders = "none" => /\ Looper = Idle
                            /\ NoneOf(queue, Ends) /\ NoneOf(queue, LaterSteps)
                            /\ Never(queue, First, Controls)
    /\ decoders # "flushed" => NoneOf(queue, Stopping)

(* Without a source nothing plays, and nothing that would make it play is queued.     *)
SourceOK ==
    /\ source = 0 => /\ decoders = "none" /\ renderer = "none" /\ NoneOf(queue, Controls)
                     /\ AfterReset \/ (~prepared /\ mState \in {"UNINITIALIZED", "STOPPED"})
                     /\ App.call # "start"
    /\ NoneOf(queue, Open) \/ (source = 0 /\ mState = "STOPPED" /\ ~AfterReset)
    /\ Never(queue, Open, Contents)
    /\ mState = "UNINITIALIZED" \/ AfterReset => source = 0

(* A content is started once.                                                   *)
Unstarted == mState \in {"UNINITIALIZED", "STOPPED"} /\ ~AppAt("start", {"seek", "write"})

BeginOK ==
    source # 0 =>
        /\ Never(queue, Beginners, Beginners)
        /\ decoders # "none" => NoneOf(queue, Beginners)
        /\ Unstarted => /\ NoneOf(queue, Beginners) /\ NoneOf(queue, Controls)
                        /\ decoders = "none" /\ renderer = "none"

(* mState is what the queue promises, or a thread is about to write what it does.     *)
Agree ==
    /\ Writes => /\ Promised(queue, renderer, "paused") /\ mState = "PLAYING"
                 /\ App.at \in {"-", "switch"}
    /\ AppAt("pause", {"write"}) => Promised(queue, renderer, "paused") /\ mState = "PLAYING"
    /\ AppAt("start", {"seek", "write"}) => Promised(queue, renderer, "on")
    /\ ~Writes /\ App.at \in {"-", "switch", "check"} =>
          /\ mState = "PLAYING" => Promised(queue, renderer, "on")
          /\ mState = "PAUSED" => Promised(queue, renderer, "paused")

AgreeOK == Waits \/ Doomed(queue, renderer) \/ Agree

Healthy == ThreadOK /\ StepsOK /\ DecodersOK /\ SourceOK /\ BeginOK /\ AgreeOK /\ PositionIsCurrent

(* Until a CHECK fails.                                                         *)
DriverInv == halted \/ (DriverTypes /\ Healthy)

-----------------------------------------------------------------------------
(*                          What a step does                                 *)

(* The sets of messages, compared.                                              *)
LEMMA SetsCompared ==
    ASSUME NEW q
    PROVE  /\ NoneOf(q, ResetSteps) <=> NoneOf(q, First) /\ NoneOf(q, LaterSteps)
           /\ NoneOf(q, LaterSteps) => NoneOf(q, Stopping)
           /\ NoneOf(q, Stopping) <=> NoneOf(q, Flushed) /\ NoneOf(q, Shut)
           /\ NoneOf(q, NotInReset) => NoneOf(q, ResetSteps) /\ NoneOf(q, Open)
           /\ NoneOf(q, Contents) => NoneOf(q, Open)
           /\ NoneOf(q, Contents) /\ NoneOf(q, Controls) => NoneOf(q, Beginners)
<1>1. \A S, T : S \subseteq T /\ NoneOf(q, T) => NoneOf(q, S)
  BY DEF NoneOf
<1>2. \A S, T, U : U \subseteq S \cup T /\ NoneOf(q, S) /\ NoneOf(q, T) => NoneOf(q, U)
  BY DEF NoneOf
<1>3. /\ First \subseteq ResetSteps /\ LaterSteps \subseteq ResetSteps
      /\ ResetSteps \subseteq First \cup LaterSteps
      /\ Stopping \subseteq LaterSteps
      /\ Flushed \subseteq Stopping /\ Shut \subseteq Stopping /\ Stopping \subseteq Flushed \cup Shut
      /\ ResetSteps \subseteq NotInReset /\ Open \subseteq NotInReset
      /\ Open \subseteq Contents /\ Beginners \subseteq Contents \cup Controls
  BY DEF First, ResetSteps, LaterSteps, Stopping, Flushed, Shut, NotInReset, Open, Contents, Beginners, Controls
<1> QED
  BY <1>1, <1>2, <1>3

(* A message is taken, and nothing is posted.                                    *)
LEMMA TakesOne ==
    ASSUME DriverTypes, NEW m, Takes(m, <<>>)
    PROVE  /\ ~halted /\ Looper = Idle /\ queue' \in Seq(Messages)
           /\ \A S : NoneOf(queue, S) <=> m \notin S /\ NoneOf(queue', S)
           /\ \A X, Y : Never(queue, X, Y) <=> /\ m \in X => NoneOf(queue', Y)
                                               /\ Never(queue', X, Y)
           /\ \A r, x : Promised(queue, r, x) =>
                  Promised(queue', IF m \in Controls THEN Makes(m) ELSE r, x)
           /\ m \notin Controls => \A r : Doomed(queue, r) => Doomed(queue', r)
           /\ m \in Controls => \A r : Doomed(queue, r) /\ ~(m = "Pause" /\ r # "on")
                                          => Doomed(queue', Makes(m))
<1>1. /\ queue \in Seq(Messages) /\ queue # <<>> /\ Head(queue) = m
      /\ ~halted /\ Looper = Idle /\ queue' = Tail(queue) \o <<>>
  BY DEF DriverTypes, Takes, Looper
<1>2. /\ Tail(queue) \in Seq(Messages)
      /\ \A S : NoneOf(queue, S) <=> m \notin S /\ NoneOf(Tail(queue), S)
      /\ \A X, Y : Never(queue, X, Y) <=> (m \in X => NoneOf(Tail(queue), Y)) /\ Never(Tail(queue), X, Y)
  BY <1>1, Served
<1>3. queue' = Tail(queue)
  BY <1>1, <1>2
<1>4. ASSUME NEW r, NEW x, Promised(queue, r, x)
      PROVE  Promised(queue', IF m \in Controls THEN Makes(m) ELSE r, x)
  BY <1>1, <1>3, <1>4, PromisedServed
<1>5. ASSUME m \notin Controls, NEW r, Doomed(queue, r) PROVE Doomed(queue', r)
  BY <1>1, <1>3, <1>5, DoomedServed
<1>6. ASSUME m \in Controls, NEW r, Doomed(queue, r), ~(m = "Pause" /\ r # "on")
      PROVE  Doomed(queue', Makes(m))
  BY <1>1, <1>3, <1>6, DoomedServed
<1> QED
  BY <1>1, <1>2, <1>3, <1>4, <1>5, <1>6

(* A message is posted.                                                        *)
LEMMA PostsOne ==
    ASSUME NEW q \in Seq(Messages), NEW m \in Messages, NEW u, u = Append(q, m)
    PROVE  /\ u \in Seq(Messages)
           /\ \A S : NoneOf(u, S) <=> NoneOf(q, S) /\ m \notin S
           /\ \A X, Y : Never(u, X, Y) <=> Never(q, X, Y) /\ (NoneOf(q, X) \/ m \notin Y)
           /\ m \notin Controls => \A r, x : Promised(q, r, x) => Promised(u, r, x)
           /\ m \in Controls => \A r : Promised(u, r, Makes(m))
           /\ \A r : Doomed(q, r) => Doomed(u, r)
           /\ m = "Pause" => \A r : Promised(q, r, "paused") => Doomed(u, r)
<1>1. /\ u \in Seq(Messages)
      /\ \A S : NoneOf(u, S) <=> NoneOf(q, S) /\ m \notin S
      /\ \A X, Y : Never(u, X, Y) <=> Never(q, X, Y) /\ (NoneOf(q, X) \/ m \notin Y)
  BY Posted
<1>2. ASSUME m \notin Controls, NEW r, NEW x, Promised(q, r, x) PROVE Promised(u, r, x)
  BY <1>2, PromisedPosted
<1>3. ASSUME m \in Controls, NEW r PROVE Promised(u, r, Makes(m))
  BY <1>3, PromisedPosted
<1>4. ASSUME NEW r, Doomed(q, r) PROVE Doomed(u, r)
  BY <1>4, DoomedPosted
<1>5. ASSUME m = "Pause", NEW r, Promised(q, r, "paused") PROVE Doomed(u, r)
  BY <1>5, DoomedPosted
<1> QED
  BY <1>1, <1>2, <1>3, <1>4, <1>5

(* A message with which no set of the invariant is concerned.                      *)
Calm(S) == \A m \in Plain : m \notin S

LEMMA CalmSets ==
    /\ Calm(ResetSteps) /\ Calm(LaterSteps) /\ Calm(Stopping) /\ Calm(First) /\ Calm(Flushed) /\ Calm(Shut)
    /\ Calm(NotInReset) /\ Calm(Open) /\ Calm(Contents) /\ Calm(Beginners) /\ Calm(Controls) /\ Calm(Ends)
  BY DEF Calm, Plain, ResetSteps, LaterSteps, Stopping, First, Flushed, Shut, NotInReset, Open, Contents,
         Beginners, Controls, Ends

(* To the invariant u is what q is.                                              *)
Like(u, q) ==
    /\ \A S : Calm(S) => (NoneOf(u, S) <=> NoneOf(q, S))
    /\ \A X, Y : Calm(X) /\ Calm(Y) => (Never(u, X, Y) <=> Never(q, X, Y))
    /\ \A r, x : Promised(q, r, x) => Promised(u, r, x)
    /\ \A r : Doomed(q, r) => Doomed(u, r)

LEMMA PlainTaken ==
    ASSUME DriverTypes, NEW m \in Plain, Takes(m, <<>>)
    PROVE  queue' \in Seq(Messages) /\ Like(queue', queue)
<1>1. m \notin Controls /\ \A S : Calm(S) => m \notin S
  BY CalmSets DEF Calm
<1>2. /\ queue' \in Seq(Messages)
      /\ \A S : NoneOf(queue, S) <=> m \notin S /\ NoneOf(queue', S)
      /\ \A X, Y : Never(queue, X, Y) <=> (m \in X => NoneOf(queue', Y)) /\ Never(queue', X, Y)
      /\ \A r, x : Promised(queue, r, x) =>
             Promised(queue', IF m \in Controls THEN Makes(m) ELSE r, x)
      /\ m \notin Controls => \A r : Doomed(queue, r) => Doomed(queue', r)
  BY TakesOne
<1> QED
  BY <1>1, <1>2 DEF Like

LEMMA PlainPosted ==
    ASSUME NEW q \in Seq(Messages), NEW m \in Plain, NEW u, u = Append(q, m)
    PROVE  u \in Seq(Messages) /\ Like(u, q)
<1>1. m \in Messages /\ m \notin Controls /\ \A S : Calm(S) => m \notin S
  BY CalmSets DEF Calm, Plain, Messages
<1>2. /\ u \in Seq(Messages)
      /\ \A S : NoneOf(u, S) <=> NoneOf(q, S) /\ m \notin S
      /\ \A X, Y : Never(u, X, Y) <=> Never(q, X, Y) /\ (NoneOf(q, X) \/ m \notin Y)
      /\ m \notin Controls => \A r, x : Promised(q, r, x) => Promised(u, r, x)
      /\ \A r : Doomed(q, r) => Doomed(u, r)
  BY <1>1, PostsOne
<1> QED
  BY <1>1, <1>2 DEF Like

(* A step that does no more than take or post such messages.                       *)
LEMMA NothingOfNote ==
    ASSUME DriverTypes, ~halted, Healthy, queue' \in Seq(Messages), Like(queue', queue),
           thread' = thread, mState' = mState, resetting' = resetting, source' = source,
           renderer' = renderer, decoders' = decoders,
           source = 0 => prepared' = prepared /\ position' = position /\ duration' = duration
    PROVE  DriverTypes' /\ Healthy'
<1>1. DriverTypes'
  BY DEF DriverTypes
<1>2. App' = App /\ Looper' = Looper
  BY DEF App, Looper
<1>3. /\ Waits' = Waits /\ AfterReset' = AfterReset /\ Writes' = Writes /\ Unstarted' = Unstarted
      /\ \A c, S : AppAt(c, S)' = AppAt(c, S)
  BY <1>2 DEF Waits, AfterReset, Writes, Unstarted, AppAt
<1>4. ThreadOK'
  BY <1>2, <1>3 DEF Healthy, ThreadOK
<1>5. StepsOK'
  BY <1>2, <1>3, CalmSets DEF Healthy, StepsOK, Like
<1>6. DecodersOK'
  BY <1>2, CalmSets DEF Healthy, DecodersOK, Like
<1>7. SourceOK'
  BY <1>2, <1>3, CalmSets DEF Healthy, SourceOK, Like
<1>8. BeginOK'
  BY <1>2, <1>3, CalmSets DEF Healthy, BeginOK, Like
<1>9. AgreeOK'
  BY <1>2, <1>3 DEF Healthy, AgreeOK, Agree, Like
<1>10. PositionIsCurrent'
  BY <1>2 DEF Healthy, PositionIsCurrent, SourceOK
<1> QED
  BY <1>1, <1>4, <1>5, <1>6, <1>7, <1>8, <1>9, <1>10 DEF Healthy

(* Where a thread goes next.                                                    *)
LEMMA Going ==
    ASSUME DriverTypes, NEW t \in Threads, NEW c, NEW b, NEW a, thread[t] = [call |-> c, at |-> b],
           [call |-> c, at |-> a] \in Calls, Goes(t, a)
    PROVE  /\ thread' \in [Threads -> Calls]
           /\ t = "app" => App' = [call |-> c, at |-> a] /\ Looper' = Looper
           /\ t = "looper" => Looper' = [call |-> c, at |-> a] /\ App' = App
<1>1. thread' = [thread EXCEPT ![t] = [call |-> c, at |-> a]]
  <2>1. [thread[t] EXCEPT !.at = a] = [call |-> c, at |-> a]
    OBVIOUS
  <2> QED
    BY <2>1 DEF Goes
<1> QED
  BY <1>1 DEF DriverTypes, App, Looper, Threads

LEMMA Returning ==
    ASSUME DriverTypes, NEW t \in Threads, NEW v \in Calls, thread' = [thread EXCEPT ![t] = v]
    PROVE  /\ thread' \in [Threads -> Calls]
           /\ t = "app" => App' = v /\ Looper' = Looper
           /\ t = "looper" => Looper' = v /\ App' = App
  BY DEF DriverTypes, App, Looper, Threads

LEMMA IdleIsACall == Idle \in Calls /\ Idle.call = "none" /\ Idle.at = "-"
  BY DEF Idle, Calls

-----------------------------------------------------------------------------
(*                          pause(), by either thread                        *)

LEMMA KeepsPauseSwitchApp ==
    ASSUME DriverTypes, Healthy, PauseSwitch("app"), ~halted'
    PROVE  DriverTypes' /\ Healthy'
<1>1. /\ ~halted /\ App = [call |-> "pause", at |-> "switch"] /\ App.call = "pause" /\ App.at = "switch"
      /\ thread["app"] = App /\ "app" \in Threads
      /\ mState' = mState /\ resetting' = resetting /\ source' = source /\ renderer' = renderer
      /\ decoders' = decoders /\ prepared' = prepared /\ position' = position /\ duration' = duration
  BY DEF PauseSwitch, At, App, fields, locked, player, history, Threads
<1>2. ~Waits /\ ~resetting /\ ~AfterReset /\ ~AppAt("start", {"seek", "write"}) /\ NoneOf(queue, ResetSteps)
  BY <1>1 DEF Waits, AfterReset, AppAt, Healthy, StepsOK
<1>3. CASE mState = "PLAYING" /\ Post("Pause") /\ Goes("app", "write")
  <2>1. /\ thread' \in [Threads -> Calls] /\ App' = [call |-> "pause", at |-> "write"]
        /\ Looper' = Looper
        /\ App'.call = "pause" /\ App'.at = "write"
    BY <1>1, <1>3, Going DEF Calls
  <2>2. /\ ~Waits' /\ ~AfterReset'
        /\ ~AppAt("start", {"seek", "write"})' /\ ~AppAt("start", {"write"})'
        /\ AppAt("pause", {"write"})' /\ Writes' = Writes
    BY <2>1 DEF Waits, AfterReset, AppAt, Writes
  <2>3. "Pause" \in Messages /\ queue \in Seq(Messages) /\ queue' = Append(queue, "Pause")
    BY <1>3 DEF Messages, Post, DriverTypes
  <2>4. "Pause" \in Controls /\ Makes("Pause") = "paused"
    BY DEF Controls, Makes
  <2>5. /\ queue' \in Seq(Messages)
        /\ \A S : NoneOf(queue', S) <=> NoneOf(queue, S) /\ "Pause" \notin S
        /\ \A X, Y : Never(queue', X, Y) <=> Never(queue, X, Y) /\ (NoneOf(queue, X) \/ "Pause" \notin Y)
        /\ \A r : Doomed(queue, r) => Doomed(queue', r)
        /\ \A r : Promised(queue', r, Makes("Pause"))
        /\ \A r : Promised(queue, r, "paused") => Doomed(queue', r)
    BY <2>3, <2>4, PostsOne
  <2>6. DriverTypes'
    BY <1>1, <1>2, <1>3, <2>1, <2>2, <2>4, <2>5 DEF DriverTypes, States
  <2>7. ThreadOK'
    BY <1>1, <1>2, <1>3, <2>1, <2>2, <2>4, <2>5 DEF Healthy, ThreadOK, Writes, Idle, AppAt
  <2>8. StepsOK'
    BY <1>1, <1>2, <1>3, <2>1, <2>2, <2>4, <2>5, SetsCompared
       DEF Healthy, StepsOK, ResetSteps, NotInReset, Flushed, Ends, Shut, Controls
  <2>9. DecodersOK'
    BY <1>1, <1>2, <1>3, <2>1, <2>2, <2>4, <2>5, SetsCompared
       DEF Healthy, DecodersOK, Ends, LaterSteps, Stopping, First, Controls
  <2>10. SourceOK'
    BY <1>1, <1>2, <1>3, <2>1, <2>2, <2>4, <2>5 DEF Healthy, SourceOK, Open, Contents, Controls
  <2>11. BeginOK'
    BY <1>1, <1>2, <1>3, <2>1, <2>2, <2>4, <2>5
       DEF Healthy, BeginOK, Unstarted, SourceOK, Beginners, Controls
  <2>12. AgreeOK'
    BY <1>1, <1>2, <1>3, <2>1, <2>2, <2>4, <2>5 DEF Healthy, AgreeOK, Agree, Controls, Makes
  <2>13. PositionIsCurrent'
    BY <1>1, <1>2, <1>3, <2>1, <2>2, <2>4, <2>5 DEF Healthy, PositionIsCurrent, SourceOK
  <2> QED
    BY <2>6, <2>7, <2>8, <2>9, <2>10, <2>11, <2>12, <2>13 DEF Healthy
<1>4. CASE mState = "PAUSED" /\ UNCHANGED queue /\ Goes("app", "check")
  <2>1. /\ thread' \in [Threads -> Calls] /\ App' = [call |-> "pause", at |-> "check"]
        /\ Looper' = Looper
        /\ App'.call = "pause" /\ App'.at = "check"
    BY <1>1, <1>4, Going DEF Calls
  <2>2. /\ ~Waits' /\ ~AfterReset'
        /\ ~AppAt("start", {"seek", "write"})' /\ ~AppAt("start", {"write"})'
        /\ ~AppAt("pause", {"write"})' /\ Writes' = Writes
    BY <2>1 DEF Waits, AfterReset, AppAt, Writes
  <2>3. DriverTypes'
    BY <1>1, <1>2, <1>4, <2>1, <2>2 DEF DriverTypes, States
  <2>4. ThreadOK'
    BY <1>1, <1>2, <1>4, <2>1, <2>2 DEF Healthy, ThreadOK, Writes, Idle, AppAt
  <2>5. StepsOK'
    BY <1>1, <1>2, <1>4, <2>1, <2>2 DEF Healthy, StepsOK
  <2>6. DecodersOK'
    BY <1>1, <1>2, <1>4, <2>1, <2>2 DEF Healthy, DecodersOK
  <2>7. SourceOK'
    BY <1>1, <1>2, <1>4, <2>1, <2>2 DEF Healthy, SourceOK
  <2>8. BeginOK'
    BY <1>1, <1>2, <1>4, <2>1, <2>2 DEF Healthy, BeginOK, Unstarted, SourceOK
  <2>9. AgreeOK'
    BY <1>1, <1>2, <1>4, <2>1, <2>2 DEF Healthy, AgreeOK, Agree
  <2>10. PositionIsCurrent'
    BY <1>1, <1>2, <1>4, <2>1, <2>2 DEF Healthy, PositionIsCurrent, SourceOK
  <2> QED
    BY <2>3, <2>4, <2>5, <2>6, <2>7, <2>8, <2>9, <2>10 DEF Healthy
<1>5. CASE mState \notin {"PLAYING", "PAUSED"} /\ UNCHANGED queue /\ Returns("app")
  <2>1. /\ thread' \in [Threads -> Calls] /\ App' = Idle /\ Looper' = Looper
        /\ App'.call = "none" /\ App'.at = "-"
    BY <1>1, <1>5, Returning, IdleIsACall DEF Returns
  <2>2. /\ ~Waits' /\ ~AfterReset'
        /\ ~AppAt("start", {"seek", "write"})' /\ ~AppAt("start", {"write"})'
        /\ ~AppAt("pause", {"write"})' /\ Writes' = Writes
    BY <2>1 DEF Waits, AfterReset, AppAt, Writes
  <2>3. DriverTypes'
    BY <1>1, <1>2, <1>5, <2>1, <2>2 DEF DriverTypes, States
  <2>4. ThreadOK'
    BY <1>1, <1>2, <1>5, <2>1, <2>2 DEF Healthy, ThreadOK, Writes, Idle, AppAt
  <2>5. StepsOK'
    BY <1>1, <1>2, <1>5, <2>1, <2>2 DEF Healthy, StepsOK
  <2>6. DecodersOK'
    BY <1>1, <1>2, <1>5, <2>1, <2>2 DEF Healthy, DecodersOK
  <2>7. SourceOK'
    BY <1>1, <1>2, <1>5, <2>1, <2>2 DEF Healthy, SourceOK
  <2>8. BeginOK'
    BY <1>1, <1>2, <1>5, <2>1, <2>2 DEF Healthy, BeginOK, Unstarted, SourceOK
  <2>9. AgreeOK'
    BY <1>1, <1>2, <1>5, <2>1, <2>2 DEF Healthy, AgreeOK, Agree
  <2>10. PositionIsCurrent'
    BY <1>1, <1>2, <1>5, <2>1, <2>2 DEF Healthy, PositionIsCurrent, SourceOK
  <2> QED
    BY <2>3, <2>4, <2>5, <2>6, <2>7, <2>8, <2>9, <2>10 DEF Healthy
<1> QED
  BY <1>3, <1>4, <1>5, SMT DEF PauseSwitch

LEMMA KeepsPauseSwitchLooper ==
    ASSUME DriverTypes, Healthy, PauseSwitch("looper"), ~halted'
    PROVE  DriverTypes' /\ Healthy'
<1>1. /\ ~halted /\ Looper = [call |-> "pause", at |-> "switch"] /\ Looper # Idle /\ Looper.at = "switch"
      /\ thread["looper"] = Looper /\ "looper" \in Threads
      /\ mState' = mState /\ resetting' = resetting /\ source' = source /\ renderer' = renderer
      /\ decoders' = decoders /\ prepared' = prepared /\ position' = position /\ duration' = duration
  BY DEF PauseSwitch, At, Looper, fields, locked, player, history, Threads, Idle
<1>2. /\ decoders # "none" /\ source # 0 /\ ~Writes
      /\ NoneOf(queue, Shut) /\ NoneOf(queue, Open)
  BY <1>1 DEF Writes, Healthy, StepsOK, DecodersOK, SourceOK
<1>3. CASE mState = "PLAYING" /\ Post("Pause") /\ Goes("looper", "write")
  <2>1. /\ thread' \in [Threads -> Calls] /\ Looper' = [call |-> "pause", at |-> "write"]
        /\ App' = App /\ Looper'.at = "write"
    BY <1>1, <1>3, Going DEF Calls
  <2>2. /\ Waits' = Waits
        /\ Unstarted' = (mState' \in {"UNINITIALIZED", "STOPPED"} /\ ~AppAt("start", {"seek", "write"}))
        
        /\ resetting' = resetting => AfterReset' = AfterReset
        /\ \A c, S : AppAt(c, S)' = AppAt(c, S)
        /\ Writes'
    BY <2>1 DEF Waits, AfterReset, AppAt, Writes, Unstarted
  <2>3. "Pause" \in Messages /\ queue \in Seq(Messages) /\ queue' = Append(queue, "Pause")
    BY <1>3 DEF Messages, Post, DriverTypes
  <2>4. "Pause" \in Controls /\ Makes("Pause") = "paused"
    BY DEF Controls, Makes
  <2>5. /\ queue' \in Seq(Messages)
        /\ \A S : NoneOf(queue', S) <=> NoneOf(queue, S) /\ "Pause" \notin S
        /\ \A X, Y : Never(queue', X, Y) <=> Never(queue, X, Y) /\ (NoneOf(queue, X) \/ "Pause" \notin Y)
        /\ \A r : Doomed(queue, r) => Doomed(queue', r)
        /\ \A r : Promised(queue', r, Makes("Pause"))
        /\ \A r : Promised(queue, r, "paused") => Doomed(queue', r)
    BY <2>3, <2>4, PostsOne
  <2>6. \/ Waits \/ AppAt("pause", {"write"})
        \/ App.at \in {"-", "switch"} /\ ~AppAt("start", {"seek", "write"}) /\ ~AppAt("pause", {"write"})
    <3>1. App \in Calls
      BY DEF DriverTypes, App, Threads
    <3>2. App.at \in {"-", "switch", "check", "seek", "write"} \/ App.call = "reset"
      BY <3>1 DEF Calls, Idle
    <3>3. App.at = "write" => App.call \in {"start", "pause", "reset"}
      BY <3>1 DEF Calls, Idle
    <3> QED
      BY <1>3, <3>2, <3>3 DEF Healthy, ThreadOK, Waits, AppAt
  <2>7. DriverTypes'
    BY <1>1, <1>2, <1>3, <2>1, <2>2, <2>4, <2>5, <2>6 DEF DriverTypes, States
  <2>8. ThreadOK'
    BY <1>1, <1>2, <1>3, <2>1, <2>2, <2>4, <2>5, <2>6
       DEF Healthy, ThreadOK, Writes, Idle, AppAt, Waits
  <2>9. StepsOK'
    BY <1>1, <1>2, <1>3, <2>1, <2>2, <2>4, <2>5, <2>6, SetsCompared
       DEF Healthy, StepsOK, ResetSteps, NotInReset, Flushed, Ends, Shut, Controls
  <2>10. DecodersOK'
    BY <1>1, <1>2, <1>3, <2>1, <2>2, <2>4, <2>5, <2>6, SetsCompared
       DEF Healthy, DecodersOK, Ends, LaterSteps, Stopping, First, Controls
  <2>11. SourceOK'
    BY <1>1, <1>2, <1>3, <2>1, <2>2, <2>4, <2>5, <2>6
       DEF Healthy, SourceOK, Open, Contents, Controls
  <2>12. BeginOK'
    BY <1>1, <1>2, <1>3, <2>1, <2>2, <2>4, <2>5, <2>6
       DEF Healthy, BeginOK, Unstarted, SourceOK, Beginners, Controls
  <2>13. AgreeOK'
    BY <1>1, <1>2, <1>3, <2>1, <2>2, <2>4, <2>5, <2>6 DEF Healthy, AgreeOK, Agree, Controls, Makes
  <2>14. PositionIsCurrent'
    BY <1>1, <1>2, <1>3, <2>1, <2>2, <2>4, <2>5, <2>6 DEF Healthy, PositionIsCurrent, SourceOK
  <2> QED
    BY <2>7, <2>8, <2>9, <2>10, <2>11, <2>12, <2>13, <2>14 DEF Healthy
<1>4. CASE mState = "PAUSED" /\ UNCHANGED queue /\ Goes("looper", "check")
  <2>1. /\ thread' \in [Threads -> Calls] /\ Looper' = [call |-> "pause", at |-> "check"]
        /\ App' = App /\ Looper'.at = "check"
    BY <1>1, <1>4, Going DEF Calls
  <2>2. /\ Waits' = Waits
        /\ Unstarted' = (mState' \in {"UNINITIALIZED", "STOPPED"} /\ ~AppAt("start", {"seek", "write"}))
        
        /\ resetting' = resetting => AfterReset' = AfterReset
        /\ \A c, S : AppAt(c, S)' = AppAt(c, S)
        /\ ~Writes'
    BY <2>1 DEF Waits, AfterReset, AppAt, Writes, Unstarted
  <2>3. DriverTypes'
    BY <1>1, <1>2, <1>4, <2>1, <2>2 DEF DriverTypes, States
  <2>4. ThreadOK'
    BY <1>1, <1>2, <1>4, <2>1, <2>2 DEF Healthy, ThreadOK, Writes, Idle, AppAt
  <2>5. StepsOK'
    BY <1>1, <1>2, <1>4, <2>1, <2>2 DEF Healthy, StepsOK
  <2>6. DecodersOK'
    BY <1>1, <1>2, <1>4, <2>1, <2>2 DEF Healthy, DecodersOK
  <2>7. SourceOK'
    BY <1>1, <1>2, <1>4, <2>1, <2>2 DEF Healthy, SourceOK
  <2>8. BeginOK'
    BY <1>1, <1>2, <1>4, <2>1, <2>2 DEF Healthy, BeginOK, Unstarted, SourceOK
  <2>9. AgreeOK'
    BY <1>1, <1>2, <1>4, <2>1, <2>2 DEF Healthy, AgreeOK, Agree
  <2>10. PositionIsCurrent'
    BY <1>1, <1>2, <1>4, <2>1, <2>2 DEF Healthy, PositionIsCurrent, SourceOK
  <2> QED
    BY <2>3, <2>4, <2>5, <2>6, <2>7, <2>8, <2>9, <2>10 DEF Healthy
<1>5. CASE mState \notin {"PLAYING", "PAUSED"} /\ UNCHANGED queue /\ Returns("looper")
  <2>1. /\ thread' \in [Threads -> Calls] /\ Looper' = Idle /\ App' = App /\ Looper'.at = "-"
    BY <1>1, <1>5, Returning, IdleIsACall DEF Returns
  <2>2. /\ Waits' = Waits
        /\ Unstarted' = (mState' \in {"UNINITIALIZED", "STOPPED"} /\ ~AppAt("start", {"seek", "write"}))
        
        /\ resetting' = resetting => AfterReset' = AfterReset
        /\ \A c, S : AppAt(c, S)' = AppAt(c, S)
        /\ ~Writes'
    BY <2>1 DEF Waits, AfterReset, AppAt, Writes, Unstarted
  <2>3. DriverTypes'
    BY <1>1, <1>2, <1>5, <2>1, <2>2 DEF DriverTypes, States
  <2>4. ThreadOK'
    BY <1>1, <1>2, <1>5, <2>1, <2>2 DEF Healthy, ThreadOK, Writes, Idle, AppAt
  <2>5. StepsOK'
    BY <1>1, <1>2, <1>5, <2>1, <2>2 DEF Healthy, StepsOK
  <2>6. DecodersOK'
    BY <1>1, <1>2, <1>5, <2>1, <2>2 DEF Healthy, DecodersOK
  <2>7. SourceOK'
    BY <1>1, <1>2, <1>5, <2>1, <2>2 DEF Healthy, SourceOK
  <2>8. BeginOK'
    BY <1>1, <1>2, <1>5, <2>1, <2>2 DEF Healthy, BeginOK, Unstarted, SourceOK
  <2>9. AgreeOK'
    BY <1>1, <1>2, <1>5, <2>1, <2>2 DEF Healthy, AgreeOK, Agree
  <2>10. PositionIsCurrent'
    BY <1>1, <1>2, <1>5, <2>1, <2>2 DEF Healthy, PositionIsCurrent, SourceOK
  <2> QED
    BY <2>3, <2>4, <2>5, <2>6, <2>7, <2>8, <2>9, <2>10 DEF Healthy
<1> QED
  BY <1>3, <1>4, <1>5, SMT DEF PauseSwitch

LEMMA KeepsPauseCheckApp ==
    ASSUME DriverTypes, Healthy, PauseCheck("app"), ~halted'
    PROVE  DriverTypes' /\ Healthy'
<1>1. /\ ~halted /\ App = [call |-> "pause", at |-> "check"] /\ App.call = "pause" /\ App.at = "check"
      /\ thread["app"] = App /\ "app" \in Threads
      /\ mState' = mState /\ resetting' = resetting /\ source' = source /\ renderer' = renderer
      /\ decoders' = decoders /\ prepared' = prepared /\ position' = position /\ duration' = duration
      /\ queue' = queue /\ Returns("app")
  BY DEF PauseCheck, Halts, At, App, fields, locked, player, history, Threads
<1>2. /\ ~Waits /\ ~resetting /\ ~AfterReset /\ NoneOf(queue, ResetSteps)
      /\ ~AppAt("start", {"seek", "write"})
      /\ ~AppAt("start", {"write"})
      /\ ~AppAt("pause", {"write"})
  BY <1>1 DEF Waits, AfterReset, AppAt, Healthy, StepsOK
<1>3. /\ thread' \in [Threads -> Calls] /\ App' = Idle /\ Looper' = Looper
      /\ App'.call = "none" /\ App'.at = "-"
  BY <1>1, Returning, IdleIsACall DEF Returns
<1>4. /\ ~Waits' /\ ~AfterReset' /\ ~AppAt("start", {"seek", "write"})' /\ ~AppAt("start", {"write"})'
      /\ ~AppAt("pause", {"write"})' /\ Writes' = Writes
  BY <1>3 DEF Waits, AfterReset, AppAt, Writes
<1>5. DriverTypes'
  BY <1>1, <1>2, <1>3, <1>4 DEF DriverTypes, States
<1>6. ThreadOK'
  BY <1>1, <1>2, <1>3, <1>4 DEF Healthy, ThreadOK, Writes, Idle, AppAt
<1>7. StepsOK'
  BY <1>1, <1>2, <1>3, <1>4 DEF Healthy, StepsOK
<1>8. DecodersOK'
  BY <1>1, <1>2, <1>3, <1>4 DEF Healthy, DecodersOK
<1>9. SourceOK'
  BY <1>1, <1>2, <1>3, <1>4 DEF Healthy, SourceOK
<1>10. BeginOK'
  BY <1>1, <1>2, <1>3, <1>4 DEF Healthy, BeginOK, Unstarted, SourceOK
<1>11. AgreeOK'
  BY <1>1, <1>2, <1>3, <1>4 DEF Healthy, AgreeOK, Agree
<1>12. PositionIsCurrent'
  BY <1>1, <1>2, <1>3, <1>4 DEF Healthy, PositionIsCurrent, SourceOK
<1> QED
  BY <1>5, <1>6, <1>7, <1>8, <1>9, <1>10, <1>11, <1>12 DEF Healthy

LEMMA KeepsPauseCheckLooper ==
    ASSUME DriverTypes, Healthy, PauseCheck("looper"), ~halted'
    PROVE  DriverTypes' /\ Healthy'
<1>1. /\ ~halted /\ Looper = [call |-> "pause", at |-> "check"] /\ Looper # Idle /\ Looper.at = "check"
      /\ thread["looper"] = Looper /\ "looper" \in Threads
      /\ mState' = mState /\ resetting' = resetting /\ source' = source /\ renderer' = renderer
      /\ decoders' = decoders /\ prepared' = prepared /\ position' = position /\ duration' = duration
      /\ queue' = queue /\ Returns("looper")
  BY DEF PauseCheck, Halts, At, Looper, fields, locked, player, history, Threads, Idle
<1>2. /\ decoders # "none" /\ source # 0 /\ ~Writes
      /\ NoneOf(queue, Shut) /\ NoneOf(queue, Open)
  BY <1>1 DEF Writes, Healthy, StepsOK, DecodersOK, SourceOK
<1>3. /\ thread' \in [Threads -> Calls] /\ Looper' = Idle /\ App' = App /\ Looper'.at = "-"
  BY <1>1, Returning, IdleIsACall DEF Returns
<1>4. /\ Waits' = Waits
      /\ Unstarted' = (mState' \in {"UNINITIALIZED", "STOPPED"} /\ ~AppAt("start", {"seek", "write"}))
      /\ resetting' = resetting => AfterReset' = AfterReset
      /\ \A c, S : AppAt(c, S)' = AppAt(c, S)
      /\ ~Writes'
  BY <1>3 DEF Waits, AfterReset, AppAt, Writes, Unstarted
<1>5. DriverTypes'
  BY <1>1, <1>2, <1>3, <1>4 DEF DriverTypes, States
<1>6. ThreadOK'
  BY <1>1, <1>2, <1>3, <1>4 DEF Healthy, ThreadOK, Writes, Idle, AppAt
<1>7. StepsOK'
  BY <1>1, <1>2, <1>3, <1>4 DEF Healthy, StepsOK
<1>8. DecodersOK'
  BY <1>1, <1>2, <1>3, <1>4 DEF Healthy, DecodersOK
<1>9. SourceOK'
  BY <1>1, <1>2, <1>3, <1>4 DEF Healthy, SourceOK
<1>10. BeginOK'
  BY <1>1, <1>2, <1>3, <1>4 DEF Healthy, BeginOK, Unstarted, SourceOK
<1>11. AgreeOK'
  BY <1>1, <1>2, <1>3, <1>4 DEF Healthy, AgreeOK, Agree
<1>12. PositionIsCurrent'
  BY <1>1, <1>2, <1>3, <1>4 DEF Healthy, PositionIsCurrent, SourceOK
<1> QED
  BY <1>5, <1>6, <1>7, <1>8, <1>9, <1>10, <1>11, <1>12 DEF Healthy

LEMMA KeepsPauseWriteApp ==
    ASSUME DriverTypes, Healthy, PauseWrite("app"), ~halted'
    PROVE  DriverTypes' /\ Healthy'
<1>1. /\ ~halted /\ App = [call |-> "pause", at |-> "write"] /\ App.call = "pause" /\ App.at = "write"
      /\ thread["app"] = App /\ "app" \in Threads
      /\ resetting' = resetting /\ source' = source /\ renderer' = renderer
      /\ decoders' = decoders /\ prepared' = prepared /\ position' = position /\ duration' = duration
      /\ queue' = queue /\ Returns("app") /\ mState' = "PAUSED"
  BY DEF PauseWrite, At, App, locked, player, history, Threads
<1>2. /\ ~Waits /\ ~resetting /\ ~AfterReset /\ NoneOf(queue, ResetSteps)
      /\ ~AppAt("start", {"seek", "write"})
      /\ ~AppAt("start", {"write"})
      /\ AppAt("pause", {"write"})
  BY <1>1 DEF Waits, AfterReset, AppAt, Healthy, StepsOK
<1>3. /\ thread' \in [Threads -> Calls] /\ App' = Idle /\ Looper' = Looper
      /\ App'.call = "none" /\ App'.at = "-"
  BY <1>1, Returning, IdleIsACall DEF Returns
<1>4. /\ ~Waits' /\ ~AfterReset' /\ ~AppAt("start", {"seek", "write"})' /\ ~AppAt("start", {"write"})'
      /\ ~AppAt("pause", {"write"})' /\ Writes' = Writes
  BY <1>3 DEF Waits, AfterReset, AppAt, Writes
<1>5. DriverTypes'
  BY <1>1, <1>2, <1>3, <1>4 DEF DriverTypes, States
<1>6. ThreadOK'
  BY <1>1, <1>2, <1>3, <1>4 DEF Healthy, ThreadOK, Writes, Idle, AppAt
<1>7. StepsOK'
  BY <1>1, <1>2, <1>3, <1>4 DEF Healthy, StepsOK
<1>8. DecodersOK'
  BY <1>1, <1>2, <1>3, <1>4 DEF Healthy, DecodersOK
<1>9. SourceOK'
  BY <1>1, <1>2, <1>3, <1>4 DEF Healthy, SourceOK, ThreadOK
<1>10. BeginOK'
  BY <1>1, <1>2, <1>3, <1>4 DEF Healthy, BeginOK, Unstarted, SourceOK, ThreadOK
<1>11. AgreeOK'
  BY <1>1, <1>2, <1>3, <1>4 DEF Healthy, AgreeOK, Agree, ThreadOK
<1>12. PositionIsCurrent'
  BY <1>1, <1>2, <1>3, <1>4 DEF Healthy, PositionIsCurrent, SourceOK
<1> QED
  BY <1>5, <1>6, <1>7, <1>8, <1>9, <1>10, <1>11, <1>12 DEF Healthy

LEMMA KeepsPauseWriteLooper ==
    ASSUME DriverTypes, Healthy, PauseWrite("looper"), ~halted'
    PROVE  DriverTypes' /\ Healthy'
<1>1. /\ ~halted /\ Looper = [call |-> "pause", at |-> "write"] /\ Looper # Idle /\ Looper.at = "write"
      /\ thread["looper"] = Looper /\ "looper" \in Threads
      /\ resetting' = resetting /\ source' = source /\ renderer' = renderer
      /\ decoders' = decoders /\ prepared' = prepared /\ position' = position /\ duration' = duration
      /\ queue' = queue /\ Returns("looper") /\ mState' = "PAUSED"
  BY DEF PauseWrite, At, Looper, locked, player, history, Threads, Idle
<1>2. /\ decoders # "none" /\ source # 0 /\ Writes
      /\ NoneOf(queue, Shut) /\ NoneOf(queue, Open)
  BY <1>1 DEF Writes, Healthy, StepsOK, DecodersOK, SourceOK
<1>3. /\ thread' \in [Threads -> Calls] /\ Looper' = Idle /\ App' = App /\ Looper'.at = "-"
  BY <1>1, Returning, IdleIsACall DEF Returns
<1>4. /\ Waits' = Waits
      /\ Unstarted' = (mState' \in {"UNINITIALIZED", "STOPPED"} /\ ~AppAt("start", {"seek", "write"}))
      /\ resetting' = resetting => AfterReset' = AfterReset
      /\ \A c, S : AppAt(c, S)' = AppAt(c, S)
      /\ ~Writes'
  BY <1>3 DEF Waits, AfterReset, AppAt, Writes, Unstarted
<1>5. DriverTypes'
  BY <1>1, <1>2, <1>3, <1>4 DEF DriverTypes, States
<1>6. ThreadOK'
  BY <1>1, <1>2, <1>3, <1>4 DEF Healthy, ThreadOK, Writes, Idle, AppAt, Agree, AgreeOK
<1>7. StepsOK'
  BY <1>1, <1>2, <1>3, <1>4 DEF Healthy, StepsOK
<1>8. DecodersOK'
  BY <1>1, <1>2, <1>3, <1>4 DEF Healthy, DecodersOK
<1>9. SourceOK'
  BY <1>1, <1>2, <1>3, <1>4 DEF Healthy, SourceOK, ThreadOK
<1>10. BeginOK'
  BY <1>1, <1>2, <1>3, <1>4 DEF Healthy, BeginOK, Unstarted, SourceOK, ThreadOK
<1>11. AgreeOK'
  BY <1>1, <1>2, <1>3, <1>4 DEF Healthy, AgreeOK, Agree, ThreadOK, AppAt
<1>12. PositionIsCurrent'
  BY <1>1, <1>2, <1>3, <1>4 DEF Healthy, PositionIsCurrent, SourceOK
<1> QED
  BY <1>5, <1>6, <1>7, <1>8, <1>9, <1>10, <1>11, <1>12 DEF Healthy

-----------------------------------------------------------------------------
(*                          The application's calls                          *)

LEMMA KeepsSetDataSource ==
    ASSUME DriverTypes, Healthy, SetDataSource, ~halted'
    PROVE  DriverTypes' /\ Healthy'
<1>1. /\ ~halted /\ App = Idle /\ App.call = "none" /\ App.at = "-" /\ thread["app"] = App /\ "app" \in Threads
      /\ resetting' = resetting /\ source' = source /\ renderer' = renderer
      /\ decoders' = decoders /\ prepared' = FALSE /\ position' = position /\ duration' = duration
      /\ mState = "UNINITIALIZED" /\ mState' = "STOPPED" /\ thread' = thread
  BY IdleIsACall DEF SetDataSource, Called, App, locked, player, Threads
<1>2. /\ ~Waits /\ ~resetting /\ ~AfterReset /\ NoneOf(queue, ResetSteps)
      /\ ~AppAt("start", {"seek", "write"}) /\ ~AppAt("start", {"write"}) /\ ~AppAt("pause", {"write"})
  BY <1>1 DEF Waits, AfterReset, AppAt, Healthy, StepsOK
<1>3. /\ App' = App /\ Looper' = Looper /\ Waits' = Waits /\ AfterReset' = AfterReset /\ Writes' = Writes
      /\ \A c, S : AppAt(c, S)' = AppAt(c, S)
  BY <1>1 DEF App, Looper, Waits, AfterReset, Writes, AppAt
<1>4. source = 0 /\ NoneOf(queue, Open) /\ ~Writes
  BY <1>1, <1>2 DEF Healthy, SourceOK, ThreadOK
<1>5. CASE Post("SetDataSource")
  <2>1. "SetDataSource" \in Messages /\ queue \in Seq(Messages) /\ queue' = Append(queue, "SetDataSource")
    BY <1>5 DEF Messages, Post, DriverTypes
  <2>2. "SetDataSource" \notin Controls
    BY DEF Controls
  <2>3. /\ queue' \in Seq(Messages)
        /\ \A S : NoneOf(queue', S) <=> NoneOf(queue, S) /\ "SetDataSource" \notin S
        /\ \A X, Y : Never(queue', X, Y) <=> Never(queue, X, Y) /\ (NoneOf(queue, X) \/ "SetDataSource" \notin Y)
        /\ \A r : Doomed(queue, r) => Doomed(queue', r)
        /\ \A r, x : Promised(queue, r, x) => Promised(queue', r, x)
    BY <2>1, <2>2, PostsOne
  <2>4. DriverTypes'
    BY <1>1, <1>2, <1>3, <1>4, <2>2, <2>3 DEF DriverTypes, States
  <2>5. ThreadOK'
    BY <1>1, <1>2, <1>3, <1>4, <2>2, <2>3 DEF Healthy, ThreadOK, Writes, Idle, AppAt
  <2>6. StepsOK'
    BY <1>1, <1>2, <1>3, <1>4, <2>2, <2>3, SetsCompared
       DEF Healthy, StepsOK, ResetSteps, NotInReset, Flushed, Ends, Shut, Controls
  <2>7. DecodersOK'
    BY <1>1, <1>2, <1>3, <1>4, <2>2, <2>3, SetsCompared
       DEF Healthy, DecodersOK, Ends, LaterSteps, Stopping, First, Controls
  <2>8. SourceOK'
    BY <1>1, <1>2, <1>3, <1>4, <2>2, <2>3 DEF Healthy, SourceOK, Open, Contents, Controls
  <2>9. BeginOK'
    BY <1>1, <1>2, <1>3, <1>4, <2>2, <2>3
       DEF Healthy, BeginOK, Unstarted, SourceOK, Beginners, Controls
  <2>10. AgreeOK'
    BY <1>1, <1>2, <1>3, <1>4, <2>2, <2>3 DEF Healthy, AgreeOK, Agree, Controls
  <2>11. PositionIsCurrent'
    BY <1>1, <1>2, <1>3, <1>4, <2>2, <2>3 DEF Healthy, PositionIsCurrent, SourceOK
  <2> QED
    BY <2>4, <2>5, <2>6, <2>7, <2>8, <2>9, <2>10, <2>11 DEF Healthy
<1>6. CASE queue' = queue
  <2>1. DriverTypes'
    BY <1>1, <1>2, <1>3, <1>4, <1>6 DEF DriverTypes, States
  <2>2. ThreadOK'
    BY <1>1, <1>2, <1>3, <1>4, <1>6 DEF Healthy, ThreadOK, Writes, Idle, AppAt
  <2>3. StepsOK'
    BY <1>1, <1>2, <1>3, <1>4, <1>6 DEF Healthy, StepsOK
  <2>4. DecodersOK'
    BY <1>1, <1>2, <1>3, <1>4, <1>6 DEF Healthy, DecodersOK
  <2>5. SourceOK'
    BY <1>1, <1>2, <1>3, <1>4, <1>6 DEF Healthy, SourceOK
  <2>6. BeginOK'
    BY <1>1, <1>2, <1>3, <1>4, <1>6 DEF Healthy, BeginOK, Unstarted, SourceOK
  <2>7. AgreeOK'
    BY <1>1, <1>2, <1>3, <1>4, <1>6 DEF Healthy, AgreeOK, Agree
  <2>8. PositionIsCurrent'
    BY <1>1, <1>2, <1>3, <1>4, <1>6 DEF Healthy, PositionIsCurrent, SourceOK
  <2> QED
    BY <2>1, <2>2, <2>3, <2>4, <2>5, <2>6, <2>7, <2>8 DEF Healthy
<1> QED
  BY <1>5, <1>6 DEF SetDataSource

LEMMA KeepsAppPause ==
    ASSUME DriverTypes, Healthy, AppPause, ~halted'
    PROVE  DriverTypes' /\ Healthy'
<1>1. /\ ~halted /\ App = Idle /\ App.call = "none" /\ App.at = "-" /\ thread["app"] = App /\ "app" \in Threads
      /\ mState' = mState /\ resetting' = resetting /\ source' = source /\ renderer' = renderer
      /\ decoders' = decoders /\ prepared' = prepared /\ position' = position /\ duration' = duration
      /\ queue' = queue /\ thread' = [thread EXCEPT !["app"] = [call |-> "pause", at |-> "switch"]]
  BY IdleIsACall DEF AppPause, Called, App, fields, locked, player, history, Threads
<1>2. /\ ~Waits /\ ~resetting /\ ~AfterReset /\ NoneOf(queue, ResetSteps)
      /\ ~AppAt("start", {"seek", "write"}) /\ ~AppAt("start", {"write"}) /\ ~AppAt("pause", {"write"})
  BY <1>1 DEF Waits, AfterReset, AppAt, Healthy, StepsOK
<1>3. [call |-> "pause", at |-> "switch"] \in Calls
  BY DEF Calls
<1>4. /\ thread' \in [Threads -> Calls] /\ App' = [call |-> "pause", at |-> "switch"] /\ Looper' = Looper
      /\ App'.call = "pause" /\ App'.at = "switch"
  BY <1>1, <1>3 DEF DriverTypes, App, Looper, Threads
<1>5. /\ ~Waits' /\ ~AfterReset' /\ ~AppAt("start", {"seek", "write"})' /\ ~AppAt("start", {"write"})'
      /\ ~AppAt("pause", {"write"})' /\ Writes' = Writes
  BY <1>4 DEF Waits, AfterReset, AppAt, Writes
<1>6. DriverTypes'
  BY <1>1, <1>2, <1>4, <1>5 DEF DriverTypes, States
<1>7. ThreadOK'
  BY <1>1, <1>2, <1>4, <1>5 DEF Healthy, ThreadOK, Writes, Idle, AppAt
<1>8. StepsOK'
  BY <1>1, <1>2, <1>4, <1>5 DEF Healthy, StepsOK
<1>9. DecodersOK'
  BY <1>1, <1>2, <1>4, <1>5 DEF Healthy, DecodersOK
<1>10. SourceOK'
  BY <1>1, <1>2, <1>4, <1>5 DEF Healthy, SourceOK
<1>11. BeginOK'
  BY <1>1, <1>2, <1>4, <1>5 DEF Healthy, BeginOK, Unstarted, SourceOK
<1>12. AgreeOK'
  BY <1>1, <1>2, <1>4, <1>5 DEF Healthy, AgreeOK, Agree
<1>13. PositionIsCurrent'
  BY <1>1, <1>2, <1>4, <1>5 DEF Healthy, PositionIsCurrent, SourceOK
<1> QED
  BY <1>6, <1>7, <1>8, <1>9, <1>10, <1>11, <1>12, <1>13 DEF Healthy

LEMMA KeepsAppStart ==
    ASSUME DriverTypes, Healthy, AppStart, ~halted'
    PROVE  DriverTypes' /\ Healthy'
<1>1. /\ ~halted /\ App = Idle /\ App.call = "none" /\ App.at = "-" /\ thread["app"] = App /\ "app" \in Threads
      /\ mState' = mState /\ resetting' = resetting /\ source' = source /\ renderer' = renderer
      /\ decoders' = decoders /\ prepared' = prepared /\ position' = position /\ duration' = duration
      /\ queue' = queue /\ thread' = [thread EXCEPT !["app"] = [call |-> "start", at |-> "switch"]] /\ prepared
  BY IdleIsACall DEF AppStart, Called, App, fields, locked, player, history, Threads
<1>2. /\ ~Waits /\ ~resetting /\ ~AfterReset /\ NoneOf(queue, ResetSteps)
      /\ ~AppAt("start", {"seek", "write"}) /\ ~AppAt("start", {"write"}) /\ ~AppAt("pause", {"write"})
  BY <1>1 DEF Waits, AfterReset, AppAt, Healthy, StepsOK
<1>3. [call |-> "start", at |-> "switch"] \in Calls
  BY DEF Calls
<1>4. /\ thread' \in [Threads -> Calls] /\ App' = [call |-> "start", at |-> "switch"] /\ Looper' = Looper
      /\ App'.call = "start" /\ App'.at = "switch"
  BY <1>1, <1>3 DEF DriverTypes, App, Looper, Threads
<1>5. /\ ~Waits' /\ ~AfterReset' /\ ~AppAt("start", {"seek", "write"})' /\ ~AppAt("start", {"write"})'
      /\ ~AppAt("pause", {"write"})' /\ Writes' = Writes
  BY <1>4 DEF Waits, AfterReset, AppAt, Writes
<1>6. DriverTypes'
  BY <1>1, <1>2, <1>4, <1>5 DEF DriverTypes, States
<1>7. ThreadOK'
  BY <1>1, <1>2, <1>4, <1>5 DEF Healthy, ThreadOK, Writes, Idle, AppAt
<1>8. StepsOK'
  BY <1>1, <1>2, <1>4, <1>5 DEF Healthy, StepsOK
<1>9. DecodersOK'
  BY <1>1, <1>2, <1>4, <1>5 DEF Healthy, DecodersOK
<1>10. SourceOK'
  BY <1>1, <1>2, <1>4, <1>5 DEF Healthy, SourceOK
<1>11. BeginOK'
  BY <1>1, <1>2, <1>4, <1>5 DEF Healthy, BeginOK, Unstarted, SourceOK
<1>12. AgreeOK'
  BY <1>1, <1>2, <1>4, <1>5 DEF Healthy, AgreeOK, Agree
<1>13. PositionIsCurrent'
  BY <1>1, <1>2, <1>4, <1>5 DEF Healthy, PositionIsCurrent, SourceOK
<1> QED
  BY <1>6, <1>7, <1>8, <1>9, <1>10, <1>11, <1>12, <1>13 DEF Healthy

LEMMA KeepsStartSwitch ==
    ASSUME DriverTypes, Healthy, StartSwitch, ~halted'
    PROVE  DriverTypes' /\ Healthy'
<1>1. /\ ~halted /\ App = [call |-> "start", at |-> "switch"] /\ App.call = "start" /\ App.at = "switch"
      /\ thread["app"] = App /\ "app" \in Threads
      /\ mState' = mState /\ resetting' = resetting /\ source' = source /\ renderer' = renderer
      /\ decoders' = decoders /\ prepared' = prepared /\ position' = position /\ duration' = duration
  BY DEF StartSwitch, At, App, fields, locked, player, history, Threads
<1>2. /\ ~Waits /\ ~resetting /\ ~AfterReset /\ NoneOf(queue, ResetSteps)
      /\ ~AppAt("start", {"seek", "write"})
      /\ ~AppAt("start", {"write"})
      /\ ~AppAt("pause", {"write"})
  BY <1>1 DEF Waits, AfterReset, AppAt, Healthy, StepsOK
<1>3. source # 0
  BY <1>1 DEF Healthy, SourceOK
<1>4. CASE mState = "STOPPED" /\ Post("Start") /\ Goes("app", "seek")
  <2>1. /\ thread' \in [Threads -> Calls] /\ App' = [call |-> "start", at |-> "seek"]
        /\ Looper' = Looper
        /\ App'.call = "start" /\ App'.at = "seek"
    BY <1>1, <1>4, Going DEF Calls
  <2>2. /\ ~Waits' /\ ~AfterReset'
        /\ AppAt("start", {"seek", "write"})' /\ ~AppAt("start", {"write"})'
        /\ ~AppAt("pause", {"write"})' /\ Writes' = Writes
    BY <2>1 DEF Waits, AfterReset, AppAt, Writes
  <2>3. "Start" \in Messages /\ queue \in Seq(Messages) /\ queue' = Append(queue, "Start")
    BY <1>4 DEF Messages, Post, DriverTypes
  <2>4. "Start" \in Controls /\ Makes("Start") = "on"
    BY DEF Controls, Makes
  <2>5. /\ queue' \in Seq(Messages)
        /\ \A S : NoneOf(queue', S) <=> NoneOf(queue, S) /\ "Start" \notin S
        /\ \A X, Y : Never(queue', X, Y) <=> Never(queue, X, Y) /\ (NoneOf(queue, X) \/ "Start" \notin Y)
        /\ \A r : Doomed(queue, r) => Doomed(queue', r)
        /\ \A r : Promised(queue', r, Makes("Start"))
    BY <2>3, <2>4, PostsOne
  <2>6. DriverTypes'
    BY <1>1, <1>2, <1>3, <1>4, <2>1, <2>2, <2>4, <2>5 DEF DriverTypes, States
  <2>7. ThreadOK'
    BY <1>1, <1>2, <1>3, <1>4, <2>1, <2>2, <2>4, <2>5 DEF Healthy, ThreadOK, Writes, Idle, AppAt
  <2>8. StepsOK'
    BY <1>1, <1>2, <1>3, <1>4, <2>1, <2>2, <2>4, <2>5, SetsCompared
       DEF Healthy, StepsOK, ResetSteps, NotInReset, Flushed, Ends, Shut, Controls
  <2>9. DecodersOK'
    BY <1>1, <1>2, <1>3, <1>4, <2>1, <2>2, <2>4, <2>5, SetsCompared
       DEF Healthy, DecodersOK, Ends, LaterSteps, Stopping, First, Controls
  <2>10. SourceOK'
    BY <1>1, <1>2, <1>3, <1>4, <2>1, <2>2, <2>4, <2>5
       DEF Healthy, SourceOK, Open, Contents, Controls
  <2>11. BeginOK'
    BY <1>1, <1>2, <1>3, <1>4, <2>1, <2>2, <2>4, <2>5
       DEF Healthy, BeginOK, Unstarted, SourceOK, Beginners, Controls
  <2>12. AgreeOK'
    BY <1>1, <1>2, <1>3, <1>4, <2>1, <2>2, <2>4, <2>5
       DEF Healthy, AgreeOK, Agree, Controls, Makes, ThreadOK
  <2>13. PositionIsCurrent'
    BY <1>1, <1>2, <1>3, <1>4, <2>1, <2>2, <2>4, <2>5 DEF Healthy, PositionIsCurrent, SourceOK
  <2> QED
    BY <2>6, <2>7, <2>8, <2>9, <2>10, <2>11, <2>12, <2>13 DEF Healthy
<1>5. CASE mState = "PAUSED" /\ queue' = queue /\ Goes("app", "check")
  <2>1. /\ thread' \in [Threads -> Calls] /\ App' = [call |-> "start", at |-> "check"]
        /\ Looper' = Looper
        /\ App'.call = "start" /\ App'.at = "check"
    BY <1>1, <1>5, Going DEF Calls
  <2>2. /\ ~Waits' /\ ~AfterReset'
        /\ ~AppAt("start", {"seek", "write"})' /\ ~AppAt("start", {"write"})'
        /\ ~AppAt("pause", {"write"})' /\ Writes' = Writes
    BY <2>1 DEF Waits, AfterReset, AppAt, Writes
  <2>3. DriverTypes'
    BY <1>1, <1>2, <1>3, <1>5, <2>1, <2>2 DEF DriverTypes, States
  <2>4. ThreadOK'
    BY <1>1, <1>2, <1>3, <1>5, <2>1, <2>2 DEF Healthy, ThreadOK, Writes, Idle, AppAt
  <2>5. StepsOK'
    BY <1>1, <1>2, <1>3, <1>5, <2>1, <2>2 DEF Healthy, StepsOK
  <2>6. DecodersOK'
    BY <1>1, <1>2, <1>3, <1>5, <2>1, <2>2 DEF Healthy, DecodersOK
  <2>7. SourceOK'
    BY <1>1, <1>2, <1>3, <1>5, <2>1, <2>2 DEF Healthy, SourceOK
  <2>8. BeginOK'
    BY <1>1, <1>2, <1>3, <1>5, <2>1, <2>2 DEF Healthy, BeginOK, Unstarted, SourceOK
  <2>9. AgreeOK'
    BY <1>1, <1>2, <1>3, <1>5, <2>1, <2>2 DEF Healthy, AgreeOK, Agree
  <2>10. PositionIsCurrent'
    BY <1>1, <1>2, <1>3, <1>5, <2>1, <2>2 DEF Healthy, PositionIsCurrent, SourceOK
  <2> QED
    BY <2>3, <2>4, <2>5, <2>6, <2>7, <2>8, <2>9, <2>10 DEF Healthy
<1>6. CASE mState \in {"UNINITIALIZED", "PLAYING"} /\ queue' = queue /\ Returns("app")
  <2>1. /\ thread' \in [Threads -> Calls] /\ App' = Idle /\ Looper' = Looper
        /\ App'.call = "none" /\ App'.at = "-"
    BY <1>1, <1>6, Returning, IdleIsACall DEF Returns
  <2>2. /\ ~Waits' /\ ~AfterReset'
        /\ ~AppAt("start", {"seek", "write"})' /\ ~AppAt("start", {"write"})'
        /\ ~AppAt("pause", {"write"})' /\ Writes' = Writes
    BY <2>1 DEF Waits, AfterReset, AppAt, Writes
  <2>3. DriverTypes'
    BY <1>1, <1>2, <1>3, <1>6, <2>1, <2>2 DEF DriverTypes, States
  <2>4. ThreadOK'
    BY <1>1, <1>2, <1>3, <1>6, <2>1, <2>2 DEF Healthy, ThreadOK, Writes, Idle, AppAt
  <2>5. StepsOK'
    BY <1>1, <1>2, <1>3, <1>6, <2>1, <2>2 DEF Healthy, StepsOK
  <2>6. DecodersOK'
    BY <1>1, <1>2, <1>3, <1>6, <2>1, <2>2 DEF Healthy, DecodersOK
  <2>7. SourceOK'
    BY <1>1, <1>2, <1>3, <1>6, <2>1, <2>2 DEF Healthy, SourceOK
  <2>8. BeginOK'
    BY <1>1, <1>2, <1>3, <1>6, <2>1, <2>2 DEF Healthy, BeginOK, Unstarted, SourceOK
  <2>9. AgreeOK'
    BY <1>1, <1>2, <1>3, <1>6, <2>1, <2>2 DEF Healthy, AgreeOK, Agree
  <2>10. PositionIsCurrent'
    BY <1>1, <1>2, <1>3, <1>6, <2>1, <2>2 DEF Healthy, PositionIsCurrent, SourceOK
  <2> QED
    BY <2>3, <2>4, <2>5, <2>6, <2>7, <2>8, <2>9, <2>10 DEF Healthy
<1> QED
  BY <1>4, <1>5, <1>6 DEF StartSwitch

(* Two messages are posted one after the other.                                     *)
LEMMA AppendTwice ==
    ASSUME NEW q \in Seq(Messages), NEW a \in Messages, NEW b \in Messages
    PROVE  q \o <<a, b>> = Append(Append(q, a), b)
<1>1. <<a>> \in Seq(Messages) /\ <<b>> \in Seq(Messages) /\ <<a>> \o <<b>> = <<a, b>>
  <2>1. <<a>> \in Seq(Messages) /\ <<b>> \in Seq(Messages)
    OBVIOUS
  <2>2. Append(<<a>>, b) = <<a, b>>
    <3>1. <<a, b>> \in Seq(Messages) /\ Len(<<a, b>>) = 2 /\ Len(<<a>>) = 1
          /\ <<a, b>>[1] = a /\ <<a, b>>[2] = b /\ <<a>>[1] = a
      OBVIOUS
    <3>2. /\ Append(<<a>>, b) \in Seq(Messages) /\ Len(Append(<<a>>, b)) = 2
          /\ Append(<<a>>, b)[1] = a /\ Append(<<a>>, b)[2] = b
      BY <2>1, <3>1, AppendProperties
    <3>3. \A i \in 1 .. 2 : i = 1 \/ i = 2
      OBVIOUS
    <3> QED
      BY <3>1, <3>2, <3>3, SeqEqual
  <2>3. Append(<<a>>, b) = <<a>> \o <<b>>
    BY <2>1, AppendIsConcat
  <2> QED
    BY <2>1, <2>2, <2>3
<1>2. Append(q, a) = q \o <<a>> /\ Append(q, a) \in Seq(Messages)
  BY AppendIsConcat
<1>3. Append(Append(q, a), b) = (q \o <<a>>) \o <<b>>
  BY <1>2, AppendIsConcat
<1>4. (q \o <<a>>) \o <<b>> = q \o (<<a>> \o <<b>>)
  BY <1>1, ConcatAssociative
<1> QED
  BY <1>1, <1>3, <1>4

LEMMA KeepsStartSeeks ==
    ASSUME DriverTypes, Healthy, StartSeeks, ~halted'
    PROVE  DriverTypes' /\ Healthy'
<1>1. /\ ~halted /\ App = [call |-> "start", at |-> "seek"] /\ App.call = "start" /\ App.at = "seek"
      /\ thread["app"] = App /\ "app" \in Threads
      /\ mState' = mState /\ resetting' = resetting /\ source' = source /\ renderer' = renderer
      /\ decoders' = decoders /\ prepared' = prepared /\ position' = position /\ duration' = duration
  BY DEF StartSeeks, At, App, fields, locked, player, history, Threads
<1>2. /\ ~Waits /\ ~resetting /\ ~AfterReset /\ NoneOf(queue, ResetSteps)
      /\ AppAt("start", {"seek", "write"})
      /\ ~AppAt("start", {"write"})
      /\ ~AppAt("pause", {"write"})
  BY <1>1 DEF Waits, AfterReset, AppAt, Healthy, StepsOK
<1>3. source # 0 /\ mState = "STOPPED"
  BY <1>1 DEF Healthy, SourceOK, ThreadOK
<1>4. Goes("app", "write")
  BY DEF StartSeeks
<1>5. /\ thread' \in [Threads -> Calls] /\ App' = [call |-> "start", at |-> "write"] /\ Looper' = Looper
      /\ App'.call = "start" /\ App'.at = "write"
  BY <1>1, <1>4, Going DEF Calls
<1>6. /\ ~Waits' /\ ~AfterReset' /\ AppAt("start", {"seek", "write"})' /\ AppAt("start", {"write"})'
      /\ ~AppAt("pause", {"write"})' /\ Writes' = Writes
  BY <1>5 DEF Waits, AfterReset, AppAt, Writes
<1>7. queue' \in Seq(Messages) /\ Like(queue', queue)
  <2>1. CASE queue' = queue
    BY <2>1 DEF Like, DriverTypes
  <2>2. CASE Post("Seek")
    BY <2>2, PlainPosted DEF Plain, Post, DriverTypes
  <2> QED
    BY <2>1, <2>2 DEF StartSeeks
<1>8. DriverTypes'
  BY <1>1, <1>2, <1>3, <1>5, <1>6, <1>7 DEF DriverTypes, States
<1>9. ThreadOK'
  BY <1>1, <1>2, <1>3, <1>5, <1>6, <1>7 DEF Healthy, ThreadOK, Writes, Idle, AppAt
<1>10. StepsOK'
  BY <1>1, <1>2, <1>3, <1>5, <1>6, <1>7, CalmSets DEF Healthy, StepsOK, Like
<1>11. DecodersOK'
  BY <1>1, <1>2, <1>3, <1>5, <1>6, <1>7, CalmSets DEF Healthy, DecodersOK, Like
<1>12. SourceOK'
  BY <1>1, <1>2, <1>3, <1>5, <1>6, <1>7, CalmSets DEF Healthy, SourceOK, Like
<1>13. BeginOK'
  BY <1>1, <1>2, <1>3, <1>5, <1>6, <1>7, CalmSets DEF Healthy, BeginOK, Unstarted, SourceOK, Like
<1>14. AgreeOK'
  BY <1>1, <1>2, <1>3, <1>5, <1>6, <1>7 DEF Healthy, AgreeOK, Agree, Like
<1>15. PositionIsCurrent'
  BY <1>1, <1>2, <1>3, <1>5, <1>6, <1>7 DEF Healthy, PositionIsCurrent, SourceOK
<1> QED
  BY <1>8, <1>9, <1>10, <1>11, <1>12, <1>13, <1>14, <1>15 DEF Healthy

LEMMA KeepsStartResumes ==
    ASSUME DriverTypes, Healthy, StartResumes, ~halted'
    PROVE  DriverTypes' /\ Healthy'
<1>1. /\ ~halted /\ Goes("app", "write") /\ App = [call |-> "start", at |-> "check"] /\ App.call = "start" /\ App.at = "check"
      /\ thread["app"] = App /\ "app" \in Threads
      /\ mState' = mState /\ resetting' = resetting /\ source' = source /\ renderer' = renderer
      /\ decoders' = decoders /\ prepared' = prepared /\ position' = position /\ duration' = duration
  BY DEF StartResumes, Halts, At, App, fields, locked, player, history, Threads
<1>2. /\ ~Waits /\ ~resetting /\ ~AfterReset /\ NoneOf(queue, ResetSteps)
      /\ ~AppAt("start", {"seek", "write"})
      /\ ~AppAt("start", {"write"})
      /\ ~AppAt("pause", {"write"})
  BY <1>1 DEF Waits, AfterReset, AppAt, Healthy, StepsOK
<1>3. source # 0 /\ mState = "PAUSED"
  BY <1>1 DEF Healthy, SourceOK, ThreadOK
<1>4. PICK q : /\ q \in Seq(Messages) /\ Like(q, queue) /\ queue' = Append(q, "Resume")
  <2>1. queue \in Seq(Messages) /\ queue' = queue \o IF mAtEOS THEN <<"Seek", "Resume">> ELSE <<"Resume">>
    BY DEF StartResumes, Halts, DriverTypes
  <2>2. CASE mAtEOS
    <3>1. queue' = Append(Append(queue, "Seek"), "Resume")
      BY <2>1, <2>2, AppendTwice DEF Messages
    <3> QED
      BY <2>1, <3>1, PlainPosted DEF Plain
  <2>3. CASE ~mAtEOS
    <3>1. queue' = Append(queue, "Resume")
      BY <2>1, <2>3, AppendIsConcat DEF Messages
    <3> QED
      BY <2>1, <3>1 DEF Like
  <2> QED
    BY <2>2, <2>3
<1>5. "Resume" \in Messages /\ "Resume" \in Controls /\ Makes("Resume") = "on"
  BY DEF Messages, Controls, Makes
<1>6. /\ queue' \in Seq(Messages)
      /\ \A S : NoneOf(queue', S) <=> NoneOf(q, S) /\ "Resume" \notin S
      /\ \A X, Y : Never(queue', X, Y) <=> Never(q, X, Y) /\ (NoneOf(q, X) \/ "Resume" \notin Y)
      /\ \A r : Doomed(q, r) => Doomed(queue', r)
      /\ \A r : Promised(queue', r, Makes("Resume"))
  BY <1>4, <1>5, PostsOne
<1>7. /\ \A S : Calm(S) => (NoneOf(queue', S) <=> NoneOf(queue, S) /\ "Resume" \notin S)
      /\ \A X, Y : Calm(X) /\ Calm(Y) =>
             (Never(queue', X, Y) <=> Never(queue, X, Y) /\ (NoneOf(queue, X) \/ "Resume" \notin Y))
      /\ \A r : Doomed(queue, r) => Doomed(queue', r)
      /\ \A r : Promised(queue', r, "on")
  BY <1>4, <1>5, <1>6 DEF Like
<1>8. /\ thread' \in [Threads -> Calls] /\ App' = [call |-> "start", at |-> "write"] /\ Looper' = Looper
      /\ App'.call = "start" /\ App'.at = "write"
  BY <1>1, Going DEF Calls
<1>9. /\ ~Waits' /\ ~AfterReset' /\ AppAt("start", {"seek", "write"})' /\ AppAt("start", {"write"})'
      /\ ~AppAt("pause", {"write"})' /\ Writes' = Writes
  BY <1>8 DEF Waits, AfterReset, AppAt, Writes
<1>10. DriverTypes'
  BY <1>1, <1>2, <1>3, <1>6, <1>7, <1>8, <1>9 DEF DriverTypes, States
<1>11. ThreadOK'
  BY <1>1, <1>2, <1>3, <1>6, <1>7, <1>8, <1>9 DEF Healthy, ThreadOK, Writes, Idle, AppAt
<1>12. StepsOK'
  BY <1>1, <1>2, <1>3, <1>6, <1>7, <1>8, <1>9, SetsCompared, CalmSets
     DEF Healthy, StepsOK, ResetSteps, NotInReset, Flushed, Ends, Shut, Controls
<1>13. DecodersOK'
  BY <1>1, <1>2, <1>3, <1>6, <1>7, <1>8, <1>9, SetsCompared, CalmSets
     DEF Healthy, DecodersOK, Ends, LaterSteps, Stopping, First, Controls
<1>14. SourceOK'
  BY <1>1, <1>2, <1>3, <1>6, <1>7, <1>8, <1>9, CalmSets
     DEF Healthy, SourceOK, Open, Contents, Controls
<1>15. BeginOK'
  BY <1>1, <1>2, <1>3, <1>6, <1>7, <1>8, <1>9, CalmSets
     DEF Healthy, BeginOK, Unstarted, SourceOK, Beginners, Controls
<1>16. AgreeOK'
  BY <1>1, <1>2, <1>3, <1>6, <1>7, <1>8, <1>9 DEF Healthy, AgreeOK, Agree, Controls
<1>17. PositionIsCurrent'
  BY <1>1, <1>2, <1>3, <1>6, <1>7, <1>8, <1>9 DEF Healthy, PositionIsCurrent, SourceOK
<1> QED
  BY <1>10, <1>11, <1>12, <1>13, <1>14, <1>15, <1>16, <1>17 DEF Healthy

LEMMA KeepsStartWrite ==
    ASSUME DriverTypes, Healthy, StartWrite, ~halted'
    PROVE  DriverTypes' /\ Healthy'
<1>1. /\ ~halted /\ App = [call |-> "start", at |-> "write"] /\ App.call = "start" /\ App.at = "write"
      /\ thread["app"] = App /\ "app" \in Threads
      /\ resetting' = resetting /\ source' = source /\ renderer' = renderer
      /\ decoders' = decoders /\ prepared' = prepared /\ position' = position /\ duration' = duration
      /\ queue' = queue /\ Returns("app") /\ mState' = "PLAYING"
  BY DEF StartWrite, At, App, locked, player, history, Threads
<1>2. /\ ~Waits /\ ~resetting /\ ~AfterReset /\ NoneOf(queue, ResetSteps)
      /\ AppAt("start", {"seek", "write"})
      /\ AppAt("start", {"write"})
      /\ ~AppAt("pause", {"write"})
  BY <1>1 DEF Waits, AfterReset, AppAt, Healthy, StepsOK
<1>3. source # 0 /\ mState \in {"STOPPED", "PAUSED"} /\ ~Unstarted
  BY <1>1, <1>2 DEF Healthy, SourceOK, ThreadOK, Unstarted
<1>4. /\ thread' \in [Threads -> Calls] /\ App' = Idle /\ Looper' = Looper
      /\ App'.call = "none" /\ App'.at = "-"
  BY <1>1, Returning, IdleIsACall DEF Returns
<1>5. /\ ~Waits' /\ ~AfterReset' /\ ~AppAt("start", {"seek", "write"})' /\ ~AppAt("start", {"write"})'
      /\ ~AppAt("pause", {"write"})' /\ Writes' = Writes
  BY <1>4 DEF Waits, AfterReset, AppAt, Writes
<1>6. DriverTypes'
  BY <1>1, <1>2, <1>3, <1>4, <1>5 DEF DriverTypes, States
<1>7. ThreadOK'
  BY <1>1, <1>2, <1>3, <1>4, <1>5 DEF Healthy, ThreadOK, Writes, Idle, AppAt
<1>8. StepsOK'
  BY <1>1, <1>2, <1>3, <1>4, <1>5 DEF Healthy, StepsOK
<1>9. DecodersOK'
  BY <1>1, <1>2, <1>3, <1>4, <1>5 DEF Healthy, DecodersOK
<1>10. SourceOK'
  BY <1>1, <1>2, <1>3, <1>4, <1>5 DEF Healthy, SourceOK
<1>11. BeginOK'
  BY <1>1, <1>2, <1>3, <1>4, <1>5 DEF Healthy, BeginOK, Unstarted, SourceOK
<1>12. AgreeOK'
  BY <1>1, <1>2, <1>3, <1>4, <1>5 DEF Healthy, AgreeOK, Agree
<1>13. PositionIsCurrent'
  BY <1>1, <1>2, <1>3, <1>4, <1>5 DEF Healthy, PositionIsCurrent, SourceOK
<1> QED
  BY <1>6, <1>7, <1>8, <1>9, <1>10, <1>11, <1>12, <1>13 DEF Healthy

LEMMA KeepsSeekTo ==
    ASSUME DriverTypes, Healthy, SeekTo, ~halted'
    PROVE  DriverTypes' /\ Healthy'
<1>1. /\ ~halted /\ thread' = thread
      /\ mState' = mState /\ resetting' = resetting /\ source' = source /\ renderer' = renderer
      /\ decoders' = decoders /\ prepared' = prepared /\ position' = position /\ duration' = duration
  BY DEF SeekTo, Called, locked, player
<1>2. queue' \in Seq(Messages) /\ Like(queue', queue)
  <2>1. CASE queue' = queue
    BY <2>1 DEF Like, DriverTypes
  <2>2. CASE Post("Seek")
    BY <2>2, PlainPosted DEF Plain, Post, DriverTypes
  <2> QED
    BY <2>1, <2>2 DEF SeekTo
<1> QED
  BY <1>1, <1>2, NothingOfNote

LEMMA KeepsPrepareAsync ==
    ASSUME DriverTypes, Healthy, PrepareAsync, ~halted'
    PROVE  DriverTypes' /\ Healthy'
<1>1. /\ ~halted /\ thread' = thread
      /\ mState' = mState /\ resetting' = resetting /\ source' = source /\ renderer' = renderer
      /\ decoders' = decoders /\ prepared' = prepared /\ position' = position /\ duration' = duration
  BY DEF PrepareAsync, Called, fields, locked, player, history
<1>2. queue' \in Seq(Messages) /\ Like(queue', queue)
  BY PlainPosted DEF PrepareAsync, Plain, Post, DriverTypes
<1> QED
  BY <1>1, <1>2, NothingOfNote

LEMMA KeepsResetCalled ==
    ASSUME DriverTypes, Healthy, ResetCalled, ~halted'
    PROVE  DriverTypes' /\ Healthy'
<1>1. /\ ~halted /\ App = Idle /\ App.call = "none" /\ App.at = "-" /\ thread["app"] = App /\ "app" \in Threads
      /\ mState' = mState /\ resetting' = TRUE /\ source' = source /\ renderer' = renderer
      /\ decoders' = decoders /\ prepared' = prepared /\ position' = position /\ duration' = duration
      /\ mState # "UNINITIALIZED" /\ Post("Reset")
      /\ thread' = [thread EXCEPT !["app"] = [call |-> "reset", at |-> "wait"]]
  BY IdleIsACall DEF ResetCalled, Called, App, fields, player, history, Threads
<1>2. /\ ~Waits /\ ~resetting /\ ~AfterReset /\ NoneOf(queue, ResetSteps)
      /\ ~AppAt("start", {"seek", "write"}) /\ ~AppAt("start", {"write"}) /\ ~AppAt("pause", {"write"})
  BY <1>1 DEF Waits, AfterReset, AppAt, Healthy, StepsOK
<1>3. [call |-> "reset", at |-> "wait"] \in Calls
  BY DEF Calls
<1>4. /\ thread' \in [Threads -> Calls] /\ App' = [call |-> "reset", at |-> "wait"] /\ Looper' = Looper
      /\ App'.call = "reset" /\ App'.at = "wait"
  BY <1>1, <1>3 DEF DriverTypes, App, Looper, Threads
<1>5. /\ Waits' /\ ~AppAt("start", {"seek", "write"})' /\ ~AppAt("start", {"write"})' /\ ~AppAt("pause", {"write"})'
      /\ Writes' = Writes
  BY <1>4 DEF Waits, AfterReset, AppAt, Writes
<1>6. "Reset" \in Messages /\ queue \in Seq(Messages) /\ queue' = Append(queue, "Reset")
  BY <1>1 DEF Messages, Post, DriverTypes
<1>7. "Reset" \notin Controls
  BY DEF Controls
<1>8. /\ queue' \in Seq(Messages)
      /\ \A S : NoneOf(queue', S) <=> NoneOf(queue, S) /\ "Reset" \notin S
      /\ \A X, Y : Never(queue', X, Y) <=> Never(queue, X, Y) /\ (NoneOf(queue, X) \/ "Reset" \notin Y)
      /\ \A r : Doomed(queue, r) => Doomed(queue', r)
      /\ \A r, x : Promised(queue, r, x) => Promised(queue', r, x)
  BY <1>6, <1>7, PostsOne
<1>9. ~AfterReset' /\ Unstarted' = Unstarted
  BY <1>1, <1>2, <1>5 DEF AfterReset, Unstarted
<1>10. DriverTypes'
  BY <1>1, <1>2, <1>4, <1>5, <1>7, <1>8, <1>9 DEF DriverTypes, States
<1>11. ThreadOK'
  BY <1>1, <1>2, <1>4, <1>5, <1>7, <1>8, <1>9 DEF Healthy, ThreadOK, Writes, Idle, AppAt
<1>12. StepsOK'
  BY <1>1, <1>2, <1>4, <1>5, <1>7, <1>8, <1>9, SetsCompared
     DEF Healthy, StepsOK, ResetSteps, NotInReset, Flushed, Ends, Shut, Controls
<1>13. DecodersOK'
  BY <1>1, <1>2, <1>4, <1>5, <1>7, <1>8, <1>9, SetsCompared
     DEF Healthy, DecodersOK, Ends, LaterSteps, Stopping, First, Controls
<1>14. SourceOK'
  BY <1>1, <1>2, <1>4, <1>5, <1>7, <1>8, <1>9 DEF Healthy, SourceOK, Open, Contents, Controls
<1>15. BeginOK'
  BY <1>1, <1>2, <1>4, <1>5, <1>7, <1>8, <1>9
     DEF Healthy, BeginOK, Unstarted, SourceOK, Beginners, Controls
<1>16. AgreeOK'
  BY <1>1, <1>2, <1>4, <1>5, <1>7, <1>8, <1>9 DEF Healthy, AgreeOK, Agree, Controls
<1>17. PositionIsCurrent'
  BY <1>1, <1>2, <1>4, <1>5, <1>7, <1>8, <1>9 DEF Healthy, PositionIsCurrent, SourceOK
<1> QED
  BY <1>10, <1>11, <1>12, <1>13, <1>14, <1>15, <1>16, <1>17 DEF Healthy

LEMMA KeepsResetReturns ==
    ASSUME DriverTypes, Healthy, ResetReturns, ~halted'
    PROVE  DriverTypes' /\ Healthy'
<1>1. /\ ~halted /\ App = [call |-> "reset", at |-> "wait"] /\ App.call = "reset" /\ App.at = "wait"
      /\ thread["app"] = App /\ "app" \in Threads
      /\ ~resetting /\ mState' = "UNINITIALIZED" /\ resetting' = resetting /\ source' = source
      /\ renderer' = renderer /\ decoders' = decoders /\ prepared' = FALSE /\ position' = 0 /\ duration' = 0
      /\ queue' = queue /\ Returns("app")
  BY DEF ResetReturns, At, App, player, Threads
<1>2. AfterReset /\ source = 0 /\ NoneOf(queue, Open) /\ Looper = Idle /\ ~Writes
  BY <1>1, IdleIsACall DEF Waits, AfterReset, Healthy, SourceOK, DecodersOK, Writes
<1>3. /\ thread' \in [Threads -> Calls] /\ App' = Idle /\ Looper' = Looper
      /\ App'.call = "none" /\ App'.at = "-"
  BY <1>1, Returning, IdleIsACall DEF Returns
<1>4. /\ ~Waits' /\ ~AfterReset' /\ ~AppAt("start", {"seek", "write"})' /\ ~AppAt("start", {"write"})'
      /\ ~AppAt("pause", {"write"})' /\ Writes' = Writes
  BY <1>3 DEF Waits, AfterReset, AppAt, Writes
<1>5. DriverTypes'
  BY <1>1, <1>2, <1>3, <1>4 DEF DriverTypes, States
<1>6. ThreadOK'
  BY <1>1, <1>2, <1>3, <1>4 DEF Healthy, ThreadOK, Writes, Idle, AppAt
<1>7. StepsOK'
  BY <1>1, <1>2, <1>3, <1>4 DEF Healthy, StepsOK
<1>8. DecodersOK'
  BY <1>1, <1>2, <1>3, <1>4 DEF Healthy, DecodersOK
<1>9. SourceOK'
  BY <1>1, <1>2, <1>3, <1>4 DEF Healthy, SourceOK
<1>10. BeginOK'
  BY <1>1, <1>2, <1>3, <1>4 DEF Healthy, BeginOK, Unstarted, SourceOK
<1>11. AgreeOK'
  BY <1>1, <1>2, <1>3, <1>4 DEF Healthy, AgreeOK, Agree
<1>12. PositionIsCurrent'
  BY <1>1, <1>2, <1>3, <1>4 DEF Healthy, PositionIsCurrent, SourceOK
<1> QED
  BY <1>5, <1>6, <1>7, <1>8, <1>9, <1>10, <1>11, <1>12 DEF Healthy

-----------------------------------------------------------------------------
(*                        The looper's messages                              *)

(* A message is taken, and one that is no control is posted.                        *)
LEMMA TakesAndPosts ==
    ASSUME DriverTypes, NEW m, NEW n \in Messages, n \notin Controls, Takes(m, <<n>>)
    PROVE  /\ ~halted /\ Looper = Idle /\ queue' \in Seq(Messages)
           /\ \A S : NoneOf(queue, S) <=> m \notin S /\ NoneOf(Tail(queue), S)
           /\ \A X, Y : Never(queue, X, Y) <=> /\ m \in X => NoneOf(Tail(queue), Y)
                                               /\ Never(Tail(queue), X, Y)
           /\ \A S : NoneOf(queue', S) <=> NoneOf(Tail(queue), S) /\ n \notin S
           /\ \A X, Y : Never(queue', X, Y) <=> /\ Never(Tail(queue), X, Y)
                                                /\ NoneOf(Tail(queue), X) \/ n \notin Y
           /\ \A r, x : Promised(queue, r, x) =>
                  Promised(queue', IF m \in Controls THEN Makes(m) ELSE r, x)
           /\ m \notin Controls => \A r : Doomed(queue, r) => Doomed(queue', r)
           /\ m \in Controls => \A r : Doomed(queue, r) /\ ~(m = "Pause" /\ r # "on")
                                          => Doomed(queue', Makes(m))
<1> DEFINE u == Tail(queue)
<1>1. /\ queue \in Seq(Messages) /\ queue # <<>> /\ Head(queue) = m
      /\ ~halted /\ Looper = Idle /\ queue' = u \o <<n>>
  BY DEF DriverTypes, Takes, Looper
<1>2. /\ u \in Seq(Messages)
      /\ \A S : NoneOf(queue, S) <=> m \notin S /\ NoneOf(u, S)
      /\ \A X, Y : Never(queue, X, Y) <=> (m \in X => NoneOf(u, Y)) /\ Never(u, X, Y)
  BY <1>1, Served
<1>3. ASSUME NEW r, NEW x, Promised(queue, r, x)
      PROVE  Promised(u, IF m \in Controls THEN Makes(m) ELSE r, x)
  BY <1>1, <1>3, PromisedServed
<1>4. ASSUME m \notin Controls, NEW r, Doomed(queue, r) PROVE Doomed(u, r)
  BY <1>1, <1>4, DoomedServed
<1>5. ASSUME m \in Controls, NEW r, Doomed(queue, r), ~(m = "Pause" /\ r # "on")
      PROVE  Doomed(u, Makes(m))
  BY <1>1, <1>5, DoomedServed
<1>6. queue' = Append(u, n)
  <2> HIDE DEF u
  <2> QED
    BY <1>1, <1>2, AppendIsConcat
<1> HIDE DEF u
<1>7. /\ queue' \in Seq(Messages)
      /\ \A S : NoneOf(queue', S) <=> NoneOf(u, S) /\ n \notin S
      /\ \A X, Y : Never(queue', X, Y) <=> Never(u, X, Y) /\ (NoneOf(u, X) \/ n \notin Y)
      /\ \A r, x : Promised(u, r, x) => Promised(queue', r, x)
      /\ \A r : Doomed(u, r) => Doomed(queue', r)
  BY <1>2, <1>6, PostsOne
<1> QED
  BY <1>1, <1>2, <1>3, <1>4, <1>5, <1>7 DEF u

LEMMA PlainAnswered ==
    ASSUME DriverTypes, NEW m \in Plain, NEW n \in Plain, Takes(m, <<n>>)
    PROVE  queue' \in Seq(Messages) /\ Like(queue', queue)
<1>1. /\ m \notin Controls /\ n \notin Controls /\ n \in Messages
      /\ \A S : Calm(S) => m \notin S /\ n \notin S
  BY CalmSets DEF Calm, Plain, Messages
<1>2. /\ queue' \in Seq(Messages)
      /\ \A S : NoneOf(queue, S) <=> m \notin S /\ NoneOf(Tail(queue), S)
      /\ \A X, Y : Never(queue, X, Y) <=> /\ m \in X => NoneOf(Tail(queue), Y)
                                          /\ Never(Tail(queue), X, Y)
      /\ \A S : NoneOf(queue', S) <=> NoneOf(Tail(queue), S) /\ n \notin S
      /\ \A X, Y : Never(queue', X, Y) <=> /\ Never(Tail(queue), X, Y)
                                           /\ NoneOf(Tail(queue), X) \/ n \notin Y
      /\ \A r, x : Promised(queue, r, x) =>
             Promised(queue', IF m \in Controls THEN Makes(m) ELSE r, x)
      /\ m \notin Controls => \A r : Doomed(queue, r) => Doomed(queue', r)
  BY <1>1, TakesAndPosts
<1>3. \A r, x : Promised(queue, r, x) => Promised(queue', r, x)
  BY <1>1, <1>2
<1> QED
  BY <1>1, <1>2, <1>3 DEF Like

LEMMA KeepsOnPrepareAsync ==
    ASSUME DriverTypes, Healthy, OnPrepareAsync, ~halted'
    PROVE  DriverTypes' /\ Healthy'
<1>1. /\ ~halted /\ thread' = thread
      /\ mState' = mState /\ resetting' = resetting /\ source' = source /\ renderer' = renderer
      /\ decoders' = decoders
      /\ source = 0 => prepared' = prepared /\ position' = position /\ duration' = duration
  BY DEF OnPrepareAsync, Takes, fields, locked, player, history
<1>2. CASE Takes("PrepareAsync", <<>>)
  BY <1>1, <1>2, PlainTaken, NothingOfNote DEF Plain
<1>3. CASE Takes("PrepareAsync", <<"IsPrepareDone">>)
  BY <1>1, <1>3, PlainAnswered, NothingOfNote DEF Plain
<1> QED
  BY <1>2, <1>3 DEF OnPrepareAsync

LEMMA KeepsOnIsPrepareDone ==
    ASSUME DriverTypes, Healthy, OnIsPrepareDone, ~halted'
    PROVE  DriverTypes' /\ Healthy'
<1>1. /\ ~halted /\ thread' = thread
      /\ mState' = mState /\ resetting' = resetting /\ source' = source /\ renderer' = renderer
      /\ decoders' = decoders
      /\ source = 0 => prepared' = prepared /\ position' = position /\ duration' = duration
  BY DEF OnIsPrepareDone, Takes, fields
<1>2. queue' \in Seq(Messages) /\ Like(queue', queue)
  BY PlainTaken DEF OnIsPrepareDone, Plain
<1> QED
  BY <1>1, <1>2, NothingOfNote

LEMMA KeepsPollFallsDue ==
    ASSUME DriverTypes, Healthy, PollFallsDue, ~halted'
    PROVE  DriverTypes' /\ Healthy'
<1>1. /\ ~halted /\ thread' = thread
      /\ mState' = mState /\ resetting' = resetting /\ source' = source /\ renderer' = renderer
      /\ decoders' = decoders
      /\ source = 0 => prepared' = prepared /\ position' = position /\ duration' = duration
  BY DEF PollFallsDue, fields, locked, history
<1>2. queue' \in Seq(Messages) /\ Like(queue', queue)
  BY PlainPosted DEF PollFallsDue, Post, Plain, DriverTypes
<1> QED
  BY <1>1, <1>2, NothingOfNote

LEMMA KeepsOnSeek ==
    ASSUME DriverTypes, Healthy, OnSeek, ~halted'
    PROVE  DriverTypes' /\ Healthy'
<1>1. /\ ~halted /\ thread' = thread
      /\ mState' = mState /\ resetting' = resetting /\ source' = source /\ renderer' = renderer
      /\ decoders' = decoders
      /\ source = 0 => prepared' = prepared /\ position' = position /\ duration' = duration
  BY DEF OnSeek, Takes, fields, player
<1>2. queue' \in Seq(Messages) /\ Like(queue', queue)
  BY PlainAnswered DEF OnSeek, Plain
<1> QED
  BY <1>1, <1>2, NothingOfNote

LEMMA KeepsOnPosition ==
    ASSUME DriverTypes, Healthy, OnPosition, ~halted'
    PROVE  DriverTypes' /\ Healthy'
<1>1. /\ ~halted /\ thread' = thread
      /\ mState' = mState /\ resetting' = resetting /\ source' = source /\ renderer' = renderer
      /\ decoders' = decoders
      /\ source = 0 => prepared' = prepared /\ position' = position /\ duration' = duration
  BY DEF OnPosition, Takes, fields, player, history
<1>2. queue' \in Seq(Messages) /\ Like(queue', queue)
  BY PlainTaken DEF OnPosition, Plain
<1> QED
  BY <1>1, <1>2, NothingOfNote

LEMMA KeepsTick ==
    ASSUME DriverTypes, Healthy, RendererPosts("tick", "Position"), ~halted'
    PROVE  DriverTypes' /\ Healthy'
<1>1. /\ ~halted /\ thread' = thread
      /\ mState' = mState /\ resetting' = resetting /\ source' = source /\ renderer' = renderer
      /\ decoders' = decoders
      /\ source = 0 => prepared' = prepared /\ position' = position /\ duration' = duration
  BY DEF RendererPosts, fields, locked, player, history
<1>2. queue' \in Seq(Messages) /\ Like(queue', queue)
  BY PlainPosted DEF RendererPosts, Post, Plain, DriverTypes
<1> QED
  BY <1>1, <1>2, NothingOfNote

LEMMA KeepsOnSetDataSource ==
    ASSUME DriverTypes, Healthy, OnSetDataSource, ~halted'
    PROVE  DriverTypes' /\ Healthy'
<1>1. /\ ~halted /\ thread' = thread
      /\ mState' = mState /\ resetting' = resetting /\ source' = content /\ renderer' = renderer
      /\ decoders' = decoders /\ prepared' = prepared /\ position' = position /\ duration' = duration
  BY DEF OnSetDataSource, Takes, fields, locked, history
<1>2. /\ App' = App /\ Looper' = Looper /\ Waits' = Waits /\ Writes' = Writes
      /\ \A c, S : AppAt(c, S)' = AppAt(c, S) /\ AfterReset' = AfterReset /\ Unstarted' = Unstarted
  BY <1>1 DEF App, Looper, Waits, AfterReset, Writes, AppAt, Unstarted
<1>3. "SetDataSource" \notin Controls
  BY DEF Controls
<1>4. /\ Looper = Idle /\ queue' \in Seq(Messages)
      /\ \A S : NoneOf(queue, S) <=> "SetDataSource" \notin S /\ NoneOf(queue', S)
      /\ \A X, Y : Never(queue, X, Y) <=> ("SetDataSource" \in X => NoneOf(queue', Y)) /\ Never(queue', X, Y)
      /\ \A r, x : Promised(queue, r, x) =>
             Promised(queue', IF "SetDataSource" \in Controls THEN Makes("SetDataSource") ELSE r, x)
      /\ \A r : Doomed(queue, r) => Doomed(queue', r)
  BY <1>3, TakesOne DEF OnSetDataSource
<1>5. source = 0 /\ mState = "STOPPED" /\ ~AfterReset /\ NoneOf(queue', Contents)
  BY <1>4 DEF Healthy, SourceOK, Open
<1>6. NoneOf(queue', Controls) /\ NoneOf(queue', Beginners) /\ NoneOf(queue', Open)
  BY <1>4, <1>5, SetsCompared DEF Healthy, SourceOK
<1>7. Never(queue', Beginners, Beginners)
  BY <1>6 DEF Never, NoneOf
<1>8. DriverTypes'
  BY <1>1, <1>2, <1>3, <1>4, <1>5, <1>6, <1>7 DEF DriverTypes, States
<1>9. ThreadOK'
  BY <1>1, <1>2, <1>3, <1>4, <1>5, <1>6, <1>7 DEF Healthy, ThreadOK, Writes, Idle, AppAt
<1>10. StepsOK'
  BY <1>1, <1>2, <1>3, <1>4, <1>5, <1>6, <1>7, SetsCompared
     DEF Healthy, StepsOK, ResetSteps, NotInReset, Flushed, Ends, Shut, Controls
<1>11. DecodersOK'
  BY <1>1, <1>2, <1>3, <1>4, <1>5, <1>6, <1>7, SetsCompared
     DEF Healthy, DecodersOK, Ends, LaterSteps, Stopping, First, Controls
<1>12. SourceOK'
  BY <1>1, <1>2, <1>3, <1>4, <1>5, <1>6, <1>7 DEF Healthy, SourceOK, Open, Contents, Controls
<1>13. BeginOK'
  BY <1>1, <1>2, <1>3, <1>4, <1>5, <1>6, <1>7
     DEF Healthy, BeginOK, Unstarted, SourceOK, Beginners, Controls
<1>14. AgreeOK'
  BY <1>1, <1>2, <1>3, <1>4, <1>5, <1>6, <1>7 DEF Healthy, AgreeOK, Agree, Controls
<1>15. PositionIsCurrent'
  BY <1>1, <1>2, <1>3, <1>4, <1>5, <1>6, <1>7 DEF Healthy, PositionIsCurrent, SourceOK
<1> QED
  BY <1>8, <1>9, <1>10, <1>11, <1>12, <1>13, <1>14, <1>15 DEF Healthy

LEMMA KeepsOnStart ==
    ASSUME DriverTypes, Healthy, OnStart, ~halted'
    PROVE  DriverTypes' /\ Healthy'
<1>1. /\ ~halted /\ thread' = thread
      /\ mState' = mState /\ resetting' = resetting /\ source' = source /\ renderer' = "on"
      /\ decoders' = decoders /\ prepared' = prepared /\ position' = position /\ duration' = duration
  BY DEF OnStart, Takes, fields, locked, history
<1>2. /\ App' = App /\ Looper' = Looper /\ Waits' = Waits /\ Writes' = Writes
      /\ \A c, S : AppAt(c, S)' = AppAt(c, S) /\ AfterReset' = AfterReset /\ Unstarted' = Unstarted
  BY <1>1 DEF App, Looper, Waits, AfterReset, Writes, AppAt, Unstarted
<1>3. "Start" \in Controls /\ "Scan" \notin Controls /\ "Scan" \in Messages
  BY DEF Controls, Messages
<1>4. /\ Looper = Idle /\ queue' \in Seq(Messages)
      /\ \A S : NoneOf(queue, S) <=> "Start" \notin S /\ NoneOf(Tail(queue), S)
      /\ \A X, Y : Never(queue, X, Y) <=> /\ "Start" \in X => NoneOf(Tail(queue), Y)
                                          /\ Never(Tail(queue), X, Y)
      /\ \A S : NoneOf(queue', S) <=> NoneOf(Tail(queue), S) /\ "Scan" \notin S
      /\ \A X, Y : Never(queue', X, Y) <=> /\ Never(Tail(queue), X, Y)
                                           /\ NoneOf(Tail(queue), X) \/ "Scan" \notin Y
      /\ \A r, x : Promised(queue, r, x) =>
             Promised(queue', IF "Start" \in Controls THEN Makes("Start") ELSE r, x)
      /\ \A r : Doomed(queue, r) /\ ~("Start" = "Pause" /\ r # "on") => Doomed(queue', Makes("Start"))
  BY <1>3, TakesAndPosts DEF OnStart
<1>5. source # 0 /\ ~Unstarted /\ decoders = "none" /\ Makes("Start") = "on" /\ NoneOf(queue, Open)
      /\ NoneOf(Tail(queue), Beginners)
  BY <1>3, <1>4 DEF Healthy, SourceOK, BeginOK, Beginners, Makes
<1>6. DriverTypes'
  BY <1>1, <1>2, <1>3, <1>4, <1>5 DEF DriverTypes, States
<1>7. ThreadOK'
  BY <1>1, <1>2, <1>3, <1>4, <1>5 DEF Healthy, ThreadOK, Writes, Idle, AppAt
<1>8. StepsOK'
  BY <1>1, <1>2, <1>3, <1>4, <1>5, SetsCompared
     DEF Healthy, StepsOK, ResetSteps, NotInReset, Flushed, Ends, Shut, Controls
<1>9. DecodersOK'
  BY <1>1, <1>2, <1>3, <1>4, <1>5, SetsCompared
     DEF Healthy, DecodersOK, Ends, LaterSteps, Stopping, First, Controls
<1>10. SourceOK'
  BY <1>1, <1>2, <1>3, <1>4, <1>5 DEF Healthy, SourceOK, Open, Contents, Controls
<1>11. BeginOK'
  BY <1>1, <1>2, <1>3, <1>4, <1>5 DEF Healthy, BeginOK, Unstarted, SourceOK, Beginners, Controls
<1>12. AgreeOK'
  BY <1>1, <1>2, <1>3, <1>4, <1>5 DEF Healthy, AgreeOK, Agree, Controls
<1>13. PositionIsCurrent'
  BY <1>1, <1>2, <1>3, <1>4, <1>5 DEF Healthy, PositionIsCurrent, SourceOK
<1> QED
  BY <1>6, <1>7, <1>8, <1>9, <1>10, <1>11, <1>12, <1>13 DEF Healthy

LEMMA KeepsOnScan ==
    ASSUME DriverTypes, Healthy, OnScan, ~halted'
    PROVE  DriverTypes' /\ Healthy'
<1>1. /\ ~halted /\ thread' = thread
      /\ mState' = mState /\ resetting' = resetting /\ source' = source /\ renderer' = renderer
      /\ decoders' = (IF source = 0 THEN decoders ELSE "running") /\ prepared' = prepared /\ position' = position /\ duration' = duration
  BY DEF OnScan, Takes, fields, locked, history
<1>2. /\ App' = App /\ Looper' = Looper /\ Waits' = Waits /\ Writes' = Writes
      /\ \A c, S : AppAt(c, S)' = AppAt(c, S) /\ AfterReset' = AfterReset /\ Unstarted' = Unstarted
  BY <1>1 DEF App, Looper, Waits, AfterReset, Writes, AppAt, Unstarted
<1>3. "Scan" \notin Controls
  BY DEF Controls
<1>4. /\ Looper = Idle /\ queue' \in Seq(Messages)
      /\ \A S : NoneOf(queue, S) <=> "Scan" \notin S /\ NoneOf(queue', S)
      /\ \A X, Y : Never(queue, X, Y) <=> ("Scan" \in X => NoneOf(queue', Y)) /\ Never(queue', X, Y)
      /\ \A r, x : Promised(queue, r, x) =>
             Promised(queue', IF "Scan" \in Controls THEN Makes("Scan") ELSE r, x)
      /\ \A r : Doomed(queue, r) => Doomed(queue', r)
  BY <1>3, TakesOne DEF OnScan
<1>5. source # 0 => ~Unstarted /\ decoders = "none" /\ NoneOf(queue', Beginners)
  BY <1>3, <1>4 DEF Healthy, SourceOK, BeginOK, Beginners
<1>6. NoneOf(queue, LaterSteps) /\ NoneOf(queue, Ends)
  BY <1>5 DEF Healthy, SourceOK, DecodersOK
<1>7. decoders' \in {"none", "running", "flushed"}
  BY <1>1 DEF DriverTypes
<1>8. DriverTypes'
  BY <1>1, <1>2, <1>3, <1>4, <1>5, <1>6, <1>7 DEF DriverTypes, States
<1>9. ThreadOK'
  BY <1>1, <1>2, <1>3, <1>4, <1>5, <1>6, <1>7 DEF Healthy, ThreadOK, Writes, Idle, AppAt
<1>10. StepsOK'
  BY <1>1, <1>2, <1>3, <1>4, <1>5, <1>6, <1>7, SetsCompared
     DEF Healthy, StepsOK, ResetSteps, NotInReset, Flushed, Ends, Shut, Controls
<1>11. DecodersOK'
  BY <1>1, <1>2, <1>3, <1>4, <1>5, <1>6, <1>7, SetsCompared
     DEF Healthy, DecodersOK, Ends, LaterSteps, Stopping, First, Controls
<1>12. SourceOK'
  BY <1>1, <1>2, <1>3, <1>4, <1>5, <1>6, <1>7 DEF Healthy, SourceOK, Open, Contents, Controls
<1>13. BeginOK'
  BY <1>1, <1>2, <1>3, <1>4, <1>5, <1>6, <1>7
     DEF Healthy, BeginOK, Unstarted, SourceOK, Beginners, Controls
<1>14. AgreeOK'
  BY <1>1, <1>2, <1>3, <1>4, <1>5, <1>6, <1>7 DEF Healthy, AgreeOK, Agree, Controls
<1>15. PositionIsCurrent'
  BY <1>1, <1>2, <1>3, <1>4, <1>5, <1>6, <1>7 DEF Healthy, PositionIsCurrent, SourceOK
<1> QED
  BY <1>8, <1>9, <1>10, <1>11, <1>12, <1>13, <1>14, <1>15 DEF Healthy

LEMMA KeepsOnPause ==
    ASSUME DriverTypes, Healthy, OnPause, ~halted'
    PROVE  DriverTypes' /\ Healthy'
<1>1. /\ ~halted /\ thread' = thread
      /\ mState' = mState /\ resetting' = resetting /\ source' = source /\ renderer = "on" /\ renderer' = "paused"
      /\ decoders' = decoders /\ prepared' = prepared /\ position' = position /\ duration' = duration
  BY DEF OnPause, Takes, fields, locked, history
<1>2. /\ App' = App /\ Looper' = Looper /\ Waits' = Waits /\ Writes' = Writes
      /\ \A c, S : AppAt(c, S)' = AppAt(c, S) /\ AfterReset' = AfterReset /\ Unstarted' = Unstarted
  BY <1>1 DEF App, Looper, Waits, AfterReset, Writes, AppAt, Unstarted
<1>3. "Pause" \in Controls
  BY DEF Controls
<1>4. /\ Looper = Idle /\ queue' \in Seq(Messages)
      /\ \A S : NoneOf(queue, S) <=> "Pause" \notin S /\ NoneOf(queue', S)
      /\ \A X, Y : Never(queue, X, Y) <=> ("Pause" \in X => NoneOf(queue', Y)) /\ Never(queue', X, Y)
      /\ \A r, x : Promised(queue, r, x) =>
             Promised(queue', IF "Pause" \in Controls THEN Makes("Pause") ELSE r, x)
      /\ \A r : Doomed(queue, r) /\ ~("Pause" = "Pause" /\ r # "on") => Doomed(queue', Makes("Pause"))
  BY <1>3, TakesOne DEF OnPause
<1>5. source # 0 /\ ~Unstarted /\ Makes("Pause") = "paused"
  BY <1>3, <1>4 DEF Healthy, SourceOK, BeginOK, Makes
<1>6. DriverTypes'
  BY <1>1, <1>2, <1>3, <1>4, <1>5 DEF DriverTypes, States
<1>7. ThreadOK'
  BY <1>1, <1>2, <1>3, <1>4, <1>5 DEF Healthy, ThreadOK, Writes, Idle, AppAt
<1>8. StepsOK'
  BY <1>1, <1>2, <1>3, <1>4, <1>5, SetsCompared
     DEF Healthy, StepsOK, ResetSteps, NotInReset, Flushed, Ends, Shut, Controls
<1>9. DecodersOK'
  BY <1>1, <1>2, <1>3, <1>4, <1>5, SetsCompared
     DEF Healthy, DecodersOK, Ends, LaterSteps, Stopping, First, Controls
<1>10. SourceOK'
  BY <1>1, <1>2, <1>3, <1>4, <1>5 DEF Healthy, SourceOK, Open, Contents, Controls
<1>11. BeginOK'
  BY <1>1, <1>2, <1>3, <1>4, <1>5 DEF Healthy, BeginOK, Unstarted, SourceOK, Beginners, Controls
<1>12. AgreeOK'
  BY <1>1, <1>2, <1>3, <1>4, <1>5 DEF Healthy, AgreeOK, Agree, Controls
<1>13. PositionIsCurrent'
  BY <1>1, <1>2, <1>3, <1>4, <1>5 DEF Healthy, PositionIsCurrent, SourceOK
<1> QED
  BY <1>6, <1>7, <1>8, <1>9, <1>10, <1>11, <1>12, <1>13 DEF Healthy

LEMMA KeepsOnResume ==
    ASSUME DriverTypes, Healthy, OnResume, ~halted'
    PROVE  DriverTypes' /\ Healthy'
<1>1. /\ ~halted /\ thread' = thread
      /\ mState' = mState /\ resetting' = resetting /\ source' = source /\ renderer' = "on"
      /\ decoders' = decoders /\ prepared' = prepared /\ position' = position /\ duration' = duration
  BY DEF OnResume, Takes, fields, locked, history
<1>2. /\ App' = App /\ Looper' = Looper /\ Waits' = Waits /\ Writes' = Writes
      /\ \A c, S : AppAt(c, S)' = AppAt(c, S) /\ AfterReset' = AfterReset /\ Unstarted' = Unstarted
  BY <1>1 DEF App, Looper, Waits, AfterReset, Writes, AppAt, Unstarted
<1>3. "Resume" \in Controls
  BY DEF Controls
<1>4. /\ Looper = Idle /\ queue' \in Seq(Messages)
      /\ \A S : NoneOf(queue, S) <=> "Resume" \notin S /\ NoneOf(queue', S)
      /\ \A X, Y : Never(queue, X, Y) <=> ("Resume" \in X => NoneOf(queue', Y)) /\ Never(queue', X, Y)
      /\ \A r, x : Promised(queue, r, x) =>
             Promised(queue', IF "Resume" \in Controls THEN Makes("Resume") ELSE r, x)
      /\ \A r : Doomed(queue, r) /\ ~("Resume" = "Pause" /\ r # "on") => Doomed(queue', Makes("Resume"))
  BY <1>3, TakesOne DEF OnResume
<1>5. source # 0 /\ ~Unstarted /\ Makes("Resume") = "on"
  BY <1>3, <1>4 DEF Healthy, SourceOK, BeginOK, Makes
<1>6. DriverTypes'
  BY <1>1, <1>2, <1>3, <1>4, <1>5 DEF DriverTypes, States
<1>7. ThreadOK'
  BY <1>1, <1>2, <1>3, <1>4, <1>5 DEF Healthy, ThreadOK, Writes, Idle, AppAt
<1>8. StepsOK'
  BY <1>1, <1>2, <1>3, <1>4, <1>5, SetsCompared
     DEF Healthy, StepsOK, ResetSteps, NotInReset, Flushed, Ends, Shut, Controls
<1>9. DecodersOK'
  BY <1>1, <1>2, <1>3, <1>4, <1>5, SetsCompared
     DEF Healthy, DecodersOK, Ends, LaterSteps, Stopping, First, Controls
<1>10. SourceOK'
  BY <1>1, <1>2, <1>3, <1>4, <1>5 DEF Healthy, SourceOK, Open, Contents, Controls
<1>11. BeginOK'
  BY <1>1, <1>2, <1>3, <1>4, <1>5 DEF Healthy, BeginOK, Unstarted, SourceOK, Beginners, Controls
<1>12. AgreeOK'
  BY <1>1, <1>2, <1>3, <1>4, <1>5 DEF Healthy, AgreeOK, Agree, Controls
<1>13. PositionIsCurrent'
  BY <1>1, <1>2, <1>3, <1>4, <1>5 DEF Healthy, PositionIsCurrent, SourceOK
<1> QED
  BY <1>6, <1>7, <1>8, <1>9, <1>10, <1>11, <1>12, <1>13 DEF Healthy

(* finishReset leaves nothing: what is still queued is not about the content.          *)
LEMMA Finishing ==
    ASSUME DriverTypes, Healthy, ~halted, Finished, ~halted', Waits, queue' \in Seq(Messages), Looper = Idle,
           NoneOf(queue', NotInReset), NoneOf(queue', Controls), NoneOf(queue', Ends)
    PROVE  DriverTypes' /\ Healthy'
<1>1. /\ thread' = thread /\ mState' = mState /\ position' = position /\ duration' = duration
      /\ source' = 0 /\ renderer' = "none" /\ decoders' = "none" /\ resetting' = FALSE
  BY DEF Finished, fields, history
<1>2. /\ App' = App /\ Looper' = Looper /\ Waits' = Waits /\ AfterReset' /\ App.call # "start"
  BY <1>1 DEF App, Looper, Waits, AfterReset
<1>3. /\ NoneOf(queue', ResetSteps) /\ NoneOf(queue', First) /\ NoneOf(queue', LaterSteps)
      /\ NoneOf(queue', Stopping) /\ NoneOf(queue', Flushed) /\ NoneOf(queue', Shut) /\ NoneOf(queue', Open)
  BY SetsCompared
<1>4. \A X, Y : NoneOf(queue', X) => Never(queue', X, Y)
  BY DEF Never, NoneOf
<1>5. DriverTypes'
  BY <1>1, <1>2, <1>3, <1>4 DEF DriverTypes, States
<1>6. ThreadOK'
  BY <1>1, <1>2, <1>3, <1>4 DEF Healthy, ThreadOK, Writes, Idle, AppAt, Waits
<1>7. StepsOK'
  BY <1>1, <1>2, <1>3, <1>4 DEF Healthy, StepsOK
<1>8. DecodersOK'
  BY <1>1, <1>2, <1>3, <1>4 DEF Healthy, DecodersOK
<1>9. SourceOK'
  BY <1>1, <1>2, <1>3, <1>4 DEF Healthy, SourceOK
<1>10. BeginOK'
  BY <1>1, <1>2, <1>3, <1>4 DEF Healthy, BeginOK, Unstarted, SourceOK
<1>11. AgreeOK'
  BY <1>1, <1>2, <1>3, <1>4 DEF Healthy, AgreeOK, Agree
<1>12. PositionIsCurrent'
  BY <1>1, <1>2, <1>3, <1>4 DEF Healthy, PositionIsCurrent, SourceOK
<1> QED
  BY <1>5, <1>6, <1>7, <1>8, <1>9, <1>10, <1>11, <1>12 DEF Healthy

LEMMA KeepsOnReset ==
    ASSUME DriverTypes, Healthy, OnReset, ~halted'
    PROVE  DriverTypes' /\ Healthy'
<1>1. CASE Takes("Reset", <<>>) /\ decoders = "none" /\ Finished
  <2>1. "Reset" \notin Controls /\ "Reset" \in ResetSteps /\ "Reset" \in First /\ "Reset" \notin Ends
    BY DEF Controls, ResetSteps, First, Ends
  <2>2. /\ ~halted /\ Looper = Idle /\ queue' \in Seq(Messages)
        /\ \A S : NoneOf(queue, S) <=> "Reset" \notin S /\ NoneOf(queue', S)
        /\ \A X, Y : Never(queue, X, Y) <=> ("Reset" \in X => NoneOf(queue', Y)) /\ Never(queue', X, Y)
    BY <1>1, TakesOne
  <2>3. Waits /\ NoneOf(queue', NotInReset)
    BY <2>1, <2>2 DEF Healthy, StepsOK
  <2>4. NoneOf(queue', Controls) /\ NoneOf(queue', Ends)
    BY <1>1, <2>1, <2>2 DEF Healthy, DecodersOK
  <2> QED
    BY <1>1, <2>2, <2>3, <2>4, Finishing
<1>2. CASE /\ Takes("Reset", <<"Flush">>) /\ decoders # "none"
           /\ UNCHANGED <<thread, fields, locked, player, history, budget, halted>>
  <2>1. /\ thread' = thread
        /\ mState' = mState /\ resetting' = resetting /\ source' = source /\ renderer' = renderer
        /\ decoders' = decoders /\ prepared' = prepared /\ position' = position /\ duration' = duration
    BY <1>2 DEF fields, locked, player, history
  <2>2. /\ App' = App /\ Looper' = Looper /\ Waits' = Waits /\ Writes' = Writes
        /\ \A c, S : AppAt(c, S)' = AppAt(c, S) /\ AfterReset' = AfterReset /\ Unstarted' = Unstarted
    BY <2>1 DEF App, Looper, Waits, AfterReset, Writes, AppAt, Unstarted
  <2>3. "Reset" \notin Controls /\ "Flush" \notin Controls /\ "Flush" \in Messages
    BY DEF Controls, Messages
  <2>4. /\ Looper = Idle /\ queue' \in Seq(Messages)
        /\ \A S : NoneOf(queue, S) <=> "Reset" \notin S /\ NoneOf(Tail(queue), S)
        /\ \A X, Y : Never(queue, X, Y) <=> /\ "Reset" \in X => NoneOf(Tail(queue), Y)
                                            /\ Never(Tail(queue), X, Y)
        /\ \A S : NoneOf(queue', S) <=> NoneOf(Tail(queue), S) /\ "Flush" \notin S
        /\ \A X, Y : Never(queue', X, Y) <=> /\ Never(Tail(queue), X, Y)
                                             /\ NoneOf(Tail(queue), X) \/ "Flush" \notin Y
        /\ \A r, x : Promised(queue, r, x) =>
               Promised(queue', IF "Reset" \in Controls THEN Makes("Reset") ELSE r, x)
        /\ \A r : Doomed(queue, r) => Doomed(queue', r)
    BY <2>3, <1>2, TakesAndPosts
  <2>5. source # 0 /\ Waits /\ resetting /\ NoneOf(Tail(queue), NotInReset) /\ NoneOf(Tail(queue), ResetSteps)
    BY <1>2, <2>4, SetsCompared DEF Healthy, StepsOK, SourceOK, ResetSteps
  <2>6. DriverTypes'
    BY <1>2, <2>1, <2>2, <2>3, <2>4, <2>5 DEF DriverTypes, States
  <2>7. ThreadOK'
    BY <1>2, <2>1, <2>2, <2>3, <2>4, <2>5 DEF Healthy, ThreadOK, Writes, Idle, AppAt
  <2>8. StepsOK'
    BY <1>2, <2>1, <2>2, <2>3, <2>4, <2>5, SetsCompared
       DEF Healthy, StepsOK, ResetSteps, NotInReset, Flushed, Ends, Shut, Controls
  <2>9. DecodersOK'
    BY <1>2, <2>1, <2>2, <2>3, <2>4, <2>5, SetsCompared
       DEF Healthy, DecodersOK, Ends, LaterSteps, Stopping, First, Controls
  <2>10. SourceOK'
    BY <1>2, <2>1, <2>2, <2>3, <2>4, <2>5 DEF Healthy, SourceOK, Open, Contents, Controls
  <2>11. BeginOK'
    BY <1>2, <2>1, <2>2, <2>3, <2>4, <2>5
       DEF Healthy, BeginOK, Unstarted, SourceOK, Beginners, Controls
  <2>12. AgreeOK'
    BY <1>2, <2>1, <2>2, <2>3, <2>4, <2>5 DEF Healthy, AgreeOK, Agree, Controls
  <2>13. PositionIsCurrent'
    BY <1>2, <2>1, <2>2, <2>3, <2>4, <2>5 DEF Healthy, PositionIsCurrent, SourceOK
  <2> QED
    BY <2>6, <2>7, <2>8, <2>9, <2>10, <2>11, <2>12, <2>13 DEF Healthy
<1> QED
  BY <1>1, <1>2 DEF OnReset

LEMMA KeepsOnFlush ==
    ASSUME DriverTypes, Healthy, OnFlush, ~halted'
    PROVE  DriverTypes' /\ Healthy'
<1>1. /\ ~halted /\ thread' = thread
      /\ mState' = mState /\ resetting' = resetting /\ source' = source /\ renderer' = renderer
      /\ decoders' = "flushed" /\ prepared' = prepared /\ position' = position /\ duration' = duration
  BY DEF OnFlush, Takes, fields, locked, history
<1>2. /\ App' = App /\ Looper' = Looper /\ Waits' = Waits /\ Writes' = Writes
      /\ \A c, S : AppAt(c, S)' = AppAt(c, S) /\ AfterReset' = AfterReset /\ Unstarted' = Unstarted
  BY <1>1 DEF App, Looper, Waits, AfterReset, Writes, AppAt, Unstarted
<1>3. "Flush" \notin Controls /\ "FlushCompleted" \notin Controls /\ "FlushCompleted" \in Messages
  BY DEF Controls, Messages
<1>4. /\ Looper = Idle /\ queue' \in Seq(Messages)
      /\ \A S : NoneOf(queue, S) <=> "Flush" \notin S /\ NoneOf(Tail(queue), S)
      /\ \A X, Y : Never(queue, X, Y) <=> /\ "Flush" \in X => NoneOf(Tail(queue), Y)
                                          /\ Never(Tail(queue), X, Y)
      /\ \A S : NoneOf(queue', S) <=> NoneOf(Tail(queue), S) /\ "FlushCompleted" \notin S
      /\ \A X, Y : Never(queue', X, Y) <=> /\ Never(Tail(queue), X, Y)
                                           /\ NoneOf(Tail(queue), X) \/ "FlushCompleted" \notin Y
      /\ \A r, x : Promised(queue, r, x) =>
             Promised(queue', IF "Flush" \in Controls THEN Makes("Flush") ELSE r, x)
      /\ \A r : Doomed(queue, r) => Doomed(queue', r)
  BY <1>3, TakesAndPosts DEF OnFlush
<1>5. decoders # "none" /\ source # 0 /\ Waits /\ resetting /\ NoneOf(Tail(queue), NotInReset)
      /\ NoneOf(Tail(queue), ResetSteps)
  BY <1>4, SetsCompared DEF Healthy, StepsOK, DecodersOK, SourceOK, LaterSteps, ResetSteps
<1>6. DriverTypes'
  BY <1>1, <1>2, <1>3, <1>4, <1>5 DEF DriverTypes, States
<1>7. ThreadOK'
  BY <1>1, <1>2, <1>3, <1>4, <1>5 DEF Healthy, ThreadOK, Writes, Idle, AppAt
<1>8. StepsOK'
  BY <1>1, <1>2, <1>3, <1>4, <1>5, SetsCompared
     DEF Healthy, StepsOK, ResetSteps, NotInReset, Flushed, Ends, Shut, Controls
<1>9. DecodersOK'
  BY <1>1, <1>2, <1>3, <1>4, <1>5, SetsCompared
     DEF Healthy, DecodersOK, Ends, LaterSteps, Stopping, First, Controls
<1>10. SourceOK'
  BY <1>1, <1>2, <1>3, <1>4, <1>5 DEF Healthy, SourceOK, Open, Contents, Controls
<1>11. BeginOK'
  BY <1>1, <1>2, <1>3, <1>4, <1>5 DEF Healthy, BeginOK, Unstarted, SourceOK, Beginners, Controls
<1>12. AgreeOK'
  BY <1>1, <1>2, <1>3, <1>4, <1>5 DEF Healthy, AgreeOK, Agree, Controls
<1>13. PositionIsCurrent'
  BY <1>1, <1>2, <1>3, <1>4, <1>5 DEF Healthy, PositionIsCurrent, SourceOK
<1> QED
  BY <1>6, <1>7, <1>8, <1>9, <1>10, <1>11, <1>12, <1>13 DEF Healthy

LEMMA KeepsOnFlushCompleted ==
    ASSUME DriverTypes, Healthy, OnFlushCompleted, ~halted'
    PROVE  DriverTypes' /\ Healthy'
<1>1. /\ ~halted /\ thread' = thread
      /\ mState' = mState /\ resetting' = resetting /\ source' = source /\ renderer' = renderer
      /\ decoders' = decoders /\ prepared' = prepared /\ position' = position /\ duration' = duration
  BY DEF OnFlushCompleted, Takes, fields, locked, player, history
<1>2. /\ App' = App /\ Looper' = Looper /\ Waits' = Waits /\ Writes' = Writes
      /\ \A c, S : AppAt(c, S)' = AppAt(c, S) /\ AfterReset' = AfterReset /\ Unstarted' = Unstarted
  BY <1>1 DEF App, Looper, Waits, AfterReset, Writes, AppAt, Unstarted
<1>3. "FlushCompleted" \notin Controls /\ "ShutdownCompleted" \notin Controls /\ "ShutdownCompleted" \in Messages
  BY DEF Controls, Messages
<1>4. /\ Looper = Idle /\ queue' \in Seq(Messages)
      /\ \A S : NoneOf(queue, S) <=> "FlushCompleted" \notin S /\ NoneOf(Tail(queue), S)
      /\ \A X, Y : Never(queue, X, Y) <=> /\ "FlushCompleted" \in X => NoneOf(Tail(queue), Y)
                                          /\ Never(Tail(queue), X, Y)
      /\ \A S : NoneOf(queue', S) <=> NoneOf(Tail(queue), S) /\ "ShutdownCompleted" \notin S
      /\ \A X, Y : Never(queue', X, Y) <=> /\ Never(Tail(queue), X, Y)
                                           /\ NoneOf(Tail(queue), X) \/ "ShutdownCompleted" \notin Y
      /\ \A r, x : Promised(queue, r, x) =>
             Promised(queue', IF "FlushCompleted" \in Controls THEN Makes("FlushCompleted") ELSE r, x)
      /\ \A r : Doomed(queue, r) => Doomed(queue', r)
  BY <1>3, TakesAndPosts DEF OnFlushCompleted
<1>5. decoders = "flushed" /\ source # 0 /\ Waits /\ resetting /\ NoneOf(Tail(queue), NotInReset)
      /\ NoneOf(Tail(queue), ResetSteps) /\ NoneOf(Tail(queue), Ends)
  BY <1>4, SetsCompared DEF Healthy, StepsOK, DecodersOK, SourceOK, Stopping, ResetSteps, Flushed
<1>6. DriverTypes'
  BY <1>1, <1>2, <1>3, <1>4, <1>5 DEF DriverTypes, States
<1>7. ThreadOK'
  BY <1>1, <1>2, <1>3, <1>4, <1>5 DEF Healthy, ThreadOK, Writes, Idle, AppAt
<1>8. StepsOK'
  BY <1>1, <1>2, <1>3, <1>4, <1>5, SetsCompared
     DEF Healthy, StepsOK, ResetSteps, NotInReset, Flushed, Ends, Shut, Controls
<1>9. DecodersOK'
  BY <1>1, <1>2, <1>3, <1>4, <1>5, SetsCompared
     DEF Healthy, DecodersOK, Ends, LaterSteps, Stopping, First, Controls
<1>10. SourceOK'
  BY <1>1, <1>2, <1>3, <1>4, <1>5 DEF Healthy, SourceOK, Open, Contents, Controls
<1>11. BeginOK'
  BY <1>1, <1>2, <1>3, <1>4, <1>5 DEF Healthy, BeginOK, Unstarted, SourceOK, Beginners, Controls
<1>12. AgreeOK'
  BY <1>1, <1>2, <1>3, <1>4, <1>5 DEF Healthy, AgreeOK, Agree, Controls
<1>13. PositionIsCurrent'
  BY <1>1, <1>2, <1>3, <1>4, <1>5 DEF Healthy, PositionIsCurrent, SourceOK
<1> QED
  BY <1>6, <1>7, <1>8, <1>9, <1>10, <1>11, <1>12, <1>13 DEF Healthy

LEMMA KeepsOnShutdownCompleted ==
    ASSUME DriverTypes, Healthy, OnShutdownCompleted, ~halted'
    PROVE  DriverTypes' /\ Healthy'
<1>1. /\ "ShutdownCompleted" \notin Controls /\ "ShutdownCompleted" \in ResetSteps
      /\ "ShutdownCompleted" \in Shut /\ "ShutdownCompleted" \notin Ends
  BY DEF Controls, ResetSteps, Shut, Ends
<1>2. /\ ~halted /\ Looper = Idle /\ queue' \in Seq(Messages)
      /\ \A S : NoneOf(queue, S) <=> "ShutdownCompleted" \notin S /\ NoneOf(queue', S)
      /\ \A X, Y : Never(queue, X, Y) <=> /\ "ShutdownCompleted" \in X => NoneOf(queue', Y)
                                          /\ Never(queue', X, Y)
  BY TakesOne DEF OnShutdownCompleted
<1>3. Waits /\ NoneOf(queue', NotInReset) /\ NoneOf(queue', Controls) /\ NoneOf(queue', Ends)
  BY <1>1, <1>2 DEF Healthy, StepsOK
<1> QED
  BY <1>2, <1>3, Finishing DEF OnShutdownCompleted

LEMMA KeepsOnRendererEOS ==
    ASSUME DriverTypes, Healthy, OnRendererEOS, ~halted'
    PROVE  DriverTypes' /\ Healthy'
<1>1. /\ ~halted /\ thread' = [thread EXCEPT !["looper"] = [call |-> "pause", at |-> "switch"]]
      /\ mState' = mState /\ resetting' = resetting /\ source' = source /\ renderer' = renderer
      /\ decoders' = decoders /\ prepared' = prepared /\ position' = position /\ duration' = duration
  BY DEF OnRendererEOS, Takes, locked, player, history
<1>2. [call |-> "pause", at |-> "switch"] \in Calls
  BY DEF Calls
<1>3. /\ thread' \in [Threads -> Calls] /\ Looper' = [call |-> "pause", at |-> "switch"] /\ App' = App /\ Looper'.at = "switch"
  BY <1>1, <1>2 DEF DriverTypes, App, Looper, Threads
<1>4. /\ Waits' = Waits
      /\ Unstarted' = (mState' \in {"UNINITIALIZED", "STOPPED"} /\ ~AppAt("start", {"seek", "write"}))
      /\ resetting' = resetting => AfterReset' = AfterReset
      /\ \A c, S : AppAt(c, S)' = AppAt(c, S)
      /\ ~Writes'
  BY <1>3 DEF Waits, AfterReset, AppAt, Writes, Unstarted
<1>5. "RendererEOS" \notin Controls
  BY DEF Controls
<1>6. /\ Looper = Idle /\ queue' \in Seq(Messages)
      /\ \A S : NoneOf(queue, S) <=> "RendererEOS" \notin S /\ NoneOf(queue', S)
      /\ \A X, Y : Never(queue, X, Y) <=> ("RendererEOS" \in X => NoneOf(queue', Y)) /\ Never(queue', X, Y)
      /\ \A r, x : Promised(queue, r, x) =>
             Promised(queue', IF "RendererEOS" \in Controls THEN Makes("RendererEOS") ELSE r, x)
      /\ \A r : Doomed(queue, r) => Doomed(queue', r)
  BY <1>5, TakesOne DEF OnRendererEOS
<1>7. decoders # "none" /\ NoneOf(queue, Shut) /\ NoneOf(queue', Shut) /\ ~Writes
  BY <1>6, IdleIsACall DEF Healthy, StepsOK, DecodersOK, Ends, Writes
<1>8. DriverTypes'
  BY <1>1, <1>3, <1>4, <1>5, <1>6, <1>7 DEF DriverTypes, States
<1>9. ThreadOK'
  BY <1>1, <1>3, <1>4, <1>5, <1>6, <1>7 DEF Healthy, ThreadOK, Writes, Idle, AppAt
<1>10. StepsOK'
  BY <1>1, <1>3, <1>4, <1>5, <1>6, <1>7, SetsCompared
     DEF Healthy, StepsOK, ResetSteps, NotInReset, Flushed, Ends, Shut, Controls
<1>11. DecodersOK'
  BY <1>1, <1>3, <1>4, <1>5, <1>6, <1>7, SetsCompared
     DEF Healthy, DecodersOK, Ends, LaterSteps, Stopping, First, Controls
<1>12. SourceOK'
  BY <1>1, <1>3, <1>4, <1>5, <1>6, <1>7 DEF Healthy, SourceOK, Open, Contents, Controls
<1>13. BeginOK'
  BY <1>1, <1>3, <1>4, <1>5, <1>6, <1>7
     DEF Healthy, BeginOK, Unstarted, SourceOK, Beginners, Controls
<1>14. AgreeOK'
  BY <1>1, <1>3, <1>4, <1>5, <1>6, <1>7 DEF Healthy, AgreeOK, Agree, Controls
<1>15. PositionIsCurrent'
  BY <1>1, <1>3, <1>4, <1>5, <1>6, <1>7 DEF Healthy, PositionIsCurrent, SourceOK
<1> QED
  BY <1>8, <1>9, <1>10, <1>11, <1>12, <1>13, <1>14, <1>15 DEF Healthy

LEMMA KeepsComplete ==
    ASSUME DriverTypes, Healthy, RendererPosts("complete", "RendererEOS"), ~halted'
    PROVE  DriverTypes' /\ Healthy'
<1>1. /\ ~halted /\ thread' = thread /\ renderer = "on" /\ decoders = "running"
      /\ mState' = mState /\ resetting' = resetting /\ source' = source /\ renderer' = renderer
      /\ decoders' = decoders /\ prepared' = prepared /\ position' = position /\ duration' = duration
  BY DEF RendererPosts, fields, locked, player, history
<1>2. /\ App' = App /\ Looper' = Looper /\ Waits' = Waits /\ Writes' = Writes
      /\ \A c, S : AppAt(c, S)' = AppAt(c, S) /\ AfterReset' = AfterReset /\ Unstarted' = Unstarted
  BY <1>1 DEF App, Looper, Waits, AfterReset, Writes, AppAt, Unstarted
<1>3. "RendererEOS" \in Messages /\ queue \in Seq(Messages) /\ queue' = Append(queue, "RendererEOS")
  BY DEF RendererPosts, Messages, Post, DriverTypes
<1>4. "RendererEOS" \notin Controls
  BY DEF Controls
<1>5. /\ queue' \in Seq(Messages)
      /\ \A S : NoneOf(queue', S) <=> NoneOf(queue, S) /\ "RendererEOS" \notin S
      /\ \A X, Y : Never(queue', X, Y) <=> Never(queue, X, Y) /\ (NoneOf(queue, X) \/ "RendererEOS" \notin Y)
      /\ \A r : Doomed(queue, r) => Doomed(queue', r)
      /\ \A r, x : Promised(queue, r, x) => Promised(queue', r, x)
  BY <1>3, <1>4, PostsOne
<1>6. NoneOf(queue, Stopping) /\ NoneOf(queue, Flushed) /\ NoneOf(queue, Shut)
  BY <1>1, SetsCompared DEF Healthy, DecodersOK
<1>7. DriverTypes'
  BY <1>1, <1>2, <1>4, <1>5, <1>6 DEF DriverTypes, States
<1>8. ThreadOK'
  BY <1>1, <1>2, <1>4, <1>5, <1>6 DEF Healthy, ThreadOK, Writes, Idle, AppAt
<1>9. StepsOK'
  BY <1>1, <1>2, <1>4, <1>5, <1>6, SetsCompared
     DEF Healthy, StepsOK, ResetSteps, NotInReset, Flushed, Ends, Shut, Controls
<1>10. DecodersOK'
  BY <1>1, <1>2, <1>4, <1>5, <1>6, SetsCompared
     DEF Healthy, DecodersOK, Ends, LaterSteps, Stopping, First, Controls
<1>11. SourceOK'
  BY <1>1, <1>2, <1>4, <1>5, <1>6 DEF Healthy, SourceOK, Open, Contents, Controls
<1>12. BeginOK'
  BY <1>1, <1>2, <1>4, <1>5, <1>6 DEF Healthy, BeginOK, Unstarted, SourceOK, Beginners, Controls
<1>13. AgreeOK'
  BY <1>1, <1>2, <1>4, <1>5, <1>6 DEF Healthy, AgreeOK, Agree, Controls
<1>14. PositionIsCurrent'
  BY <1>1, <1>2, <1>4, <1>5, <1>6 DEF Healthy, PositionIsCurrent, SourceOK
<1> QED
  BY <1>7, <1>8, <1>9, <1>10, <1>11, <1>12, <1>13, <1>14 DEF Healthy

-----------------------------------------------------------------------------
(*                              The theorems                                 *)

LEMMA DriverStarts == DriverInit => DriverInv
<1> SUFFICES ASSUME DriverInit PROVE DriverTypes /\ Healthy
  BY DEF DriverInv
<1>1. /\ thread = [t \in Threads |-> Idle] /\ mState = "UNINITIALIZED" /\ resetting = FALSE
      /\ queue = <<>> /\ renderer = "none" /\ decoders = "none" /\ source = 0 /\ prepared = FALSE
      /\ position = 0 /\ duration = 0
  BY DEF DriverInit
<1>2. App = Idle /\ Looper = Idle /\ App.call = "none" /\ App.at = "-" /\ Looper.at = "-"
  BY <1>1, IdleIsACall DEF App, Looper, Threads
<1>3. /\ ~Waits /\ ~AfterReset /\ ~Writes
      /\ ~AppAt("start", {"seek", "write"}) /\ ~AppAt("start", {"write"}) /\ ~AppAt("pause", {"write"})
  BY <1>2 DEF Waits, AfterReset, Writes, AppAt
<1>4. (\A S : NoneOf(queue, S)) /\ (\A X, Y : Never(queue, X, Y))
  BY <1>1, NothingQueued
<1>5. DriverTypes
  <2>1. thread \in [Threads -> Calls] /\ queue \in Seq(Messages)
    BY <1>1, IdleIsACall
  <2> QED
    BY <1>1, <2>1 DEF DriverTypes, States
<1>6. ThreadOK /\ StepsOK /\ DecodersOK
  BY <1>1, <1>2, <1>3, <1>4 DEF ThreadOK, StepsOK, DecodersOK
<1>7. SourceOK /\ BeginOK /\ PositionIsCurrent
  BY <1>1, <1>2, <1>3, <1>4 DEF SourceOK, BeginOK, PositionIsCurrent
<1>8. AgreeOK
  BY <1>1, <1>3 DEF AgreeOK, Agree
<1> QED
  BY <1>5, <1>6, <1>7, <1>8 DEF Healthy

LEMMA StepsOfTheApplication ==
    ASSUME DriverTypes, Healthy, ~halted',
           \/ AppSteps
           \/ SetDataSource \/ PrepareAsync \/ AppPause \/ AppStart \/ SeekTo \/ ResetCalled
    PROVE  DriverTypes' /\ Healthy'
<1>1. CASE AppSteps
  BY <1>1, KeepsPauseSwitchApp, KeepsPauseCheckApp, KeepsPauseWriteApp, KeepsStartSwitch, KeepsStartSeeks,
     KeepsStartResumes, KeepsStartWrite, KeepsResetReturns DEF AppSteps
<1>2. CASE SetDataSource \/ PrepareAsync \/ AppPause \/ AppStart \/ SeekTo \/ ResetCalled
  BY <1>2, KeepsSetDataSource, KeepsPrepareAsync, KeepsAppPause, KeepsAppStart, KeepsSeekTo, KeepsResetCalled
<1> QED
  BY <1>1, <1>2

LEMMA StepsOfTheLooper ==
    ASSUME DriverTypes, Healthy, ~halted',
           \/ LooperSteps \/ PollFallsDue
           \/ RendererPosts("tick", "Position") \/ RendererPosts("complete", "RendererEOS")
    PROVE  DriverTypes' /\ Healthy'
<1>1. CASE PauseSwitch("looper") \/ PauseCheck("looper") \/ PauseWrite("looper")
  BY <1>1, KeepsPauseSwitchLooper, KeepsPauseCheckLooper, KeepsPauseWriteLooper
<1>2. CASE \/ OnSetDataSource \/ OnPrepareAsync \/ OnIsPrepareDone
           \/ OnStart \/ OnScan \/ OnPause \/ OnResume \/ OnSeek \/ OnPosition
  BY <1>2, KeepsOnSetDataSource, KeepsOnPrepareAsync, KeepsOnIsPrepareDone, KeepsOnStart, KeepsOnScan,
     KeepsOnPause, KeepsOnResume, KeepsOnSeek, KeepsOnPosition
<1>3. CASE OnReset \/ OnFlush \/ OnFlushCompleted \/ OnShutdownCompleted \/ OnRendererEOS
  BY <1>3, KeepsOnReset, KeepsOnFlush, KeepsOnFlushCompleted, KeepsOnShutdownCompleted, KeepsOnRendererEOS
<1>4. CASE PollFallsDue \/ RendererPosts("tick", "Position") \/ RendererPosts("complete", "RendererEOS")
  BY <1>4, KeepsPollFallsDue, KeepsTick, KeepsComplete
<1> QED
  BY <1>1, <1>2, <1>3, <1>4 DEF LooperSteps

(* A process that has stopped takes no step.                                      *)
LEMMA NoStepOnceHalted == DriverNext => ~halted
<1> SUFFICES ASSUME DriverNext PROVE ~halted
  OBVIOUS
<1>1. AppSteps => ~halted
  BY DEF AppSteps, PauseSwitch, PauseCheck, PauseWrite, StartSwitch, StartSeeks, StartResumes, StartWrite,
         ResetReturns, At
<1>2. LooperSteps => ~halted
  BY DEF LooperSteps, PauseSwitch, PauseCheck, PauseWrite, OnSetDataSource, OnPrepareAsync, OnIsPrepareDone,
         OnStart, OnScan, OnPause, OnResume, OnSeek, OnPosition, OnReset, OnFlush, OnFlushCompleted,
         OnShutdownCompleted, OnRendererEOS, Takes, At
<1>3. (SetDataSource \/ PrepareAsync \/ AppPause \/ AppStart \/ SeekTo \/ ResetCalled) => ~halted
  BY DEF SetDataSource, PrepareAsync, AppPause, AppStart, SeekTo, ResetCalled, Called
<1>4. (PollFallsDue \/ RendererPosts("tick", "Position") \/ RendererPosts("complete", "RendererEOS")) => ~halted
  BY DEF PollFallsDue, RendererPosts
<1> QED
  BY <1>1, <1>2, <1>3, <1>4 DEF DriverNext

LEMMA DriverInvIsKept == DriverInv /\ [DriverNext]_driverVars => DriverInv'
<1> SUFFICES ASSUME DriverInv, [DriverNext]_driverVars PROVE DriverInv'
  OBVIOUS
<1>1. CASE DriverNext
  <2>1. ~halted /\ DriverTypes /\ Healthy
    BY <1>1, NoStepOnceHalted DEF DriverInv
  <2>2. ~halted' => DriverTypes' /\ Healthy'
    BY <1>1, <2>1, StepsOfTheApplication, StepsOfTheLooper DEF DriverNext
  <2> QED
    BY <2>2 DEF DriverInv
<1>2. CASE UNCHANGED driverVars
  <2>1. /\ thread' = thread /\ mState' = mState /\ position' = position /\ duration' = duration
        /\ resetting' = resetting /\ queue' = queue /\ source' = source /\ renderer' = renderer
        /\ decoders' = decoders /\ prepared' = prepared /\ halted' = halted
    BY <1>2 DEF driverVars, fields, locked, player, history
  <2>2. CASE halted
    BY <2>1, <2>2 DEF DriverInv
  <2>3. CASE ~halted
    <3>1. queue' \in Seq(Messages) /\ Like(queue', queue)
      BY <2>1, <2>3 DEF Like, DriverInv, DriverTypes
    <3> QED
      BY <2>1, <2>3, <3>1, NothingOfNote DEF DriverInv
  <2> QED
    BY <2>2, <2>3
<1> QED
  BY <1>1, <1>2

LEMMA DriverIsHealthy == DriverSpec => []DriverInv
  BY DriverStarts, DriverInvIsKept, PTL DEF DriverSpec

(* DriverAgrees, whatever the application calls and however its thread and the       *)
(* looper's interleave: mState, which has no lock and is read, acted on and written   *)
(* in separate steps, ends up saying what the renderer does.  Where two pauses race   *)
(* and it would not, the CHECK of Renderer::onPause fails first.                     *)
THEOREM DriverTellsTheTruth == DriverSpec => []DriverAgrees
<1>1. DriverInv => DriverAgrees
  <2> SUFFICES ASSUME DriverTypes, Healthy, ~halted, queue = <<>>, \A t \in Threads : thread[t] = Idle
               PROVE  CASE mState = "PLAYING" -> renderer = "on"
                        [] mState = "PAUSED"  -> renderer = "paused"
                        [] OTHER              -> renderer = "none"
    BY DEF DriverInv, DriverAgrees
  <2>1. App = Idle /\ Looper = Idle /\ App.call = "none" /\ App.at = "-" /\ Looper.at = "-"
    BY IdleIsACall DEF App, Looper, Threads
  <2>2. ~Waits /\ ~AfterReset /\ ~Writes /\ ~AppAt("start", {"seek", "write"})
    BY <2>1 DEF Waits, AfterReset, Writes, AppAt
  <2>3. ~Doomed(queue, renderer) /\ \A x : Promised(queue, renderer, x) => renderer = x
    BY NothingQueued
  <2>4. /\ mState = "PLAYING" => renderer = "on"
        /\ mState = "PAUSED" => renderer = "paused"
    BY <2>1, <2>2, <2>3 DEF Healthy, AgreeOK, Agree
  <2>5. mState \in {"UNINITIALIZED", "STOPPED"} => renderer = "none"
    BY <2>2 DEF Healthy, SourceOK, BeginOK, Unstarted
  <2>6. mState \in {"UNINITIALIZED", "STOPPED", "PLAYING", "PAUSED"}
    BY DEF DriverTypes, States
  <2> QED
    BY <2>4, <2>5, <2>6
<1> QED
  BY <1>1, DriverIsHealthy, PTL

(* PositionIsCurrent, for any number of contents: whatever of the content before is   *)
(* still queued when reset() returns, none of it makes the driver give a position or  *)
(* a duration again before another content is open.                                *)
THEOREM NothingOutlivesAReset == DriverSpec => []PositionIsCurrent
<1>1. DriverInv => PositionIsCurrent
  BY DEF DriverInv, Healthy, PositionIsCurrent
<1> QED
  BY <1>1, DriverIsHealthy, PTL
=============================================================================
