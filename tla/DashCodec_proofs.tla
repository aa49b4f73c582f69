--------------------------- MODULE DashCodec_proofs ---------------------------
(*****************************************************************************)
(* Proofs about DashCodec, for any number of buffers, with and without a     *)
(* window, and any budget of flushes, port changes, errors and failures of   *)
(* the window; nothing is assumed of the component (Assumed may be empty):   *)
(*                                                                           *)
(*   NoCheckFails              Spec => []NoFailedCheck                       *)
(*   BuffersAreInOnePlace      Spec => []BufferInOnePlace                    *)
(*   ActiveCodecIsBusy         Spec => []ActiveIsBusy                        *)
(*   AnswersAreOwed            Spec /\ [][~NowDisabledFails]_vars            *)
(*                                  => []AnswerOwed                          *)
(*   ResumedCodecIsActive      Spec => []ResumedIsActive                     *)
(*                                                                           *)
(* They rest on one invariant, IInv, and the last on RInv, which adds the    *)
(* order of the messages.  A handler is an operator on the codec, so most of *)
(* IInv is a relation Fits(k, q) between a codec k and the messages q it has *)
(* still to handle, which every handler keeps: k is Sound, and with q the    *)
(* books are Balanced.  The books count what is posted, deferred, on its way *)
(* to the player, in its hands and on its way back.                          *)
(*                                                                           *)
(* EnterExecuting handles all deferred messages in one step.  It is followed *)
(* as a loop: before each of them Fits holds of the codec so far and of what *)
(* is left of the deferred messages, put in front of the inbox.              *)
(*****************************************************************************)
EXTENDS DashCodec, SequenceLemmas

-----------------------------------------------------------------------------
(*                               Messages                                   *)

Message ==
    [what : {"Setup", "Flush", "Shutdown", "Resume", "PortSettingsChanged"}, buf : {0}, arg : {"-"}]
    \cup [what : {"InputBufferFilled"}, buf : Inputs, arg : {"ok", "eos", "err"}]
    \cup [what : {"OutputBufferDrained"}, buf : Outputs, arg : {"render", "drop"}]

Deferrable ==
    [what : {"Flush", "Shutdown", "Resume", "PortSettingsChanged"}, buf : {0}, arg : {"-"}]
    \cup [what : {"InputBufferFilled"}, buf : Inputs, arg : {"ok", "eos", "err"}]

Note ==
    [what : {"FlushCompleted", "ShutdownCompleted", "Error"}, buf : {0}, arg : {"-"}]
    \cup [what : {"FillThisBuffer"}, buf : Inputs, arg : {"-"}]
    \cup [what : {"DrainThisBuffer"}, buf : Outputs, arg : {"-"}]
    \cup [what : {"EOS"}, buf : {0}, arg : {"no", "eos", "err"}]

AnyMessage == Message \cup Note

-----------------------------------------------------------------------------
(*                              The codec                                   *)

InPort  == [{} -> {"us", "up", "component"}] \cup [Inputs -> {"us", "up", "component"}]
OutPort == [{} -> {"us", "down", "component", "window"}]
               \cup [Outputs -> {"us", "down", "component", "window"}]

Codec ==
    [state : StateNames, active : BOOLEAN, in : InPort, out : OutPort, ieos : BOOLEAN, oeos : BOOLEAN,
     res : {"no", "eos", "err"}, shutdown : BOOLEAN, nowIdle : BOOLEAN, flushed : SUBSET {"in", "out"},
     deferred : Seq(Deferrable), post : Seq(Note), cmd : Commands, ending : BOOLEAN,
     missed : BOOLEAN, bad : {"none"}]

(* Which command the component obeys in a state.                               *)
Commanded(k) ==
    /\ k.state \in {"Uninitialized", "Loaded", "Executing"} => k.cmd = "none"
    /\ k.state = "LoadedToIdle" => k.cmd = "Idle"
    /\ k.state = "IdleToExecuting" => k.cmd = "Executing"
    /\ k.state = "IdleToLoaded" => k.cmd = "Loaded"
    /\ k.state = "Flushing" => \/ k.cmd = "none" /\ k.flushed = {"in", "out"}
                               \/ k.cmd = "Flush" /\ k.flushed # {"in", "out"}
    /\ k.state = "FlushingOutput" => \/ k.cmd = "none" /\ k.flushed = {"out"}
                                     \/ k.cmd = "FlushOutput" /\ k.flushed = {}
    /\ k.state = "ExecutingToIdle" => \/ k.cmd = "none" /\ k.nowIdle
                                      \/ k.cmd = "Idle" /\ ~k.nowIdle
    /\ k.state = "OutputPortSettingsChanged" => \/ k.cmd = "Disable" /\ k.out = NoBuffers
                                                \/ k.cmd = "Enable" /\ Ours(k.out)

(* A codec that is not active has its buffers, from the first to the last of them.     *)
Resting(k) ==
    /\ k.state \in {"LoadedToIdle", "IdleToExecuting", "Flushing"} => ~k.active
    /\ k.state \in {"LoadedToIdle", "IdleToExecuting", "Executing", "FlushingOutput",
                    "OutputPortSettingsChanged"} =>
            DOMAIN k.in = Inputs /\ (k.active \/ AllOurs(k))
    /\ k.state = "Flushing" => DOMAIN k.in = Inputs

(* An active one keeps them going.                                            *)
Busy(k) ==
    /\ k.ieos => k.res # "no"
    /\ k.active /\ k.state = "Executing" => k.oeos \/ \A b \in DOMAIN k.out : k.out[b] # "us"
    /\ k.active /\ k.state \in {"Executing", "FlushingOutput", "OutputPortSettingsChanged"} =>
            k.res # "no" \/ \E b \in DOMAIN k.in : k.in[b] # "us"

Sound(k) == k \in Codec /\ k.bad = "none" /\ Commanded(k) /\ Resting(k) /\ Busy(k)

(* What the codec alone contributes to each balance.                           *)
Up(k, b) == One(b \in DOMAIN k.in /\ k.in[b] = "up")
Down(k, b) == One(b \in DOMAIN k.out /\ k.out[b] = "down")
InSum(k, b) ==
    HowMany(k.post, "FillThisBuffer", b) + HowMany(k.deferred, "InputBufferFilled", b) - Up(k, b)
OutSum(k, b) == HowMany(k.post, "DrainThisBuffer", b) - Down(k, b)
FlushSum(k) ==
    HowMany(k.post, "FlushCompleted", 0) + HowMany(k.deferred, "Flush", 0) + One(k.state = "Flushing")
ShutdownSum(k) ==
    HowMany(k.post, "ShutdownCompleted", 0) + HowMany(k.deferred, "Shutdown", 0)
        + One(k.state \in {"ExecutingToIdle", "IdleToLoaded"})

(* The codec k has the messages q still to handle.                             *)
Balanced(k, q) ==
    /\ q \in Seq(Message)
    /\ \A b \in Inputs :
            InSum(k, b) + HowMany(outbox, "FillThisBuffer", b) + One(b \in held.in)
                + HowMany(q, "InputBufferFilled", b) = 0
    /\ \A b \in Outputs :
            OutSum(k, b) + HowMany(outbox, "DrainThisBuffer", b) + One(b \in held.out)
                + HowMany(q, "OutputBufferDrained", b) = 0
    /\ FlushSum(k) + HowMany(outbox, "FlushCompleted", 0) + HowMany(q, "Flush", 0)
            = One(player = "flushing")

Fits(k, q) == Sound(k) /\ Balanced(k, q)

Setups == {Plain("Setup")}

Typed ==
    /\ outbox \in Seq(Note)
    /\ player \in {"playing", "flushing", "flushed", "stopping", "gone"}
    /\ held \in [in : SUBSET Inputs, out : SUBSET Outputs, ended : BOOLEAN]
    /\ left \in [Events -> Nat]

SetUpOnce == NoneOf(inbox, Setups) \/ (c = NewCodec /\ inbox # <<>> /\ NoneOf(Tail(inbox), Setups))

IInv == Typed /\ SetUpOnce /\ c.post = <<>> /\ Fits(c, inbox)

(* A shutdown the player waits for is owed.                                   *)
Stops(k, q) ==
    /\ ShutdownSum(k) + HowMany(outbox, "ShutdownCompleted", 0) + HowMany(q, "Shutdown", 0)
            = One(player = "stopping")
    /\ k.state \in {"ExecutingToIdle", "IdleToLoaded"} => k.shutdown
-----------------------------------------------------------------------------
(*                        Counting messages                                 *)

LEMMA MessagesAreMessages ==
    /\ Message \subseteq AnyMessage /\ Note \subseteq AnyMessage /\ Deferrable \subseteq Message
    /\ Seq(Message) \subseteq Seq(AnyMessage)
    /\ Seq(Note) \subseteq Seq(AnyMessage)
    /\ Seq(Deferrable) \subseteq Seq(Message) /\ Seq(Deferrable) \subseteq Seq(AnyMessage)
<1>1. Message \subseteq AnyMessage /\ Note \subseteq AnyMessage
  BY DEF AnyMessage
<1>2. Deferrable \subseteq Message
  BY DEF Deferrable, Message
<1> QED
  BY <1>1, <1>2, SeqMonotonic

Of(what, buf) == {m \in AnyMessage : m.what = what /\ m.buf = buf}

LEMMA HowManyIsHits ==
    ASSUME NEW q \in Seq(AnyMessage), NEW what, NEW buf
    PROVE  HowMany(q, what, buf) = Hits(q, Of(what, buf))
<1>1. \A i \in 1 .. Len(q) : q[i] \in AnyMessage
  BY ElementOfSeq
<1>2. {i \in 1 .. Len(q) : q[i].what = what /\ q[i].buf = buf}
        = {i \in 1 .. Len(q) : q[i] \in Of(what, buf)}
  BY <1>1 DEF Of
<1> QED
  BY <1>2 DEF HowMany, Hits

LEMMA HowManyType ==
    ASSUME NEW q \in Seq(AnyMessage), NEW what, NEW buf
    PROVE  HowMany(q, what, buf) \in Nat
<1>1. Hits(q, Of(what, buf)) \in Nat
  BY HitsType
<1> QED
  BY <1>1, HowManyIsHits

LEMMA HowManyJoins ==
    ASSUME NEW q \in Seq(AnyMessage), NEW s \in Seq(AnyMessage), NEW what, NEW buf
    PROVE  HowMany(q \o s, what, buf) = HowMany(q, what, buf) + HowMany(s, what, buf)
<1>1. q \o s \in Seq(AnyMessage)
  BY ConcatProperties
<1>2. Hits(q \o s, Of(what, buf)) = Hits(q, Of(what, buf)) + Hits(s, Of(what, buf))
  BY HitsConcat
<1> QED
  BY <1>1, <1>2, HowManyIsHits

(* One(b) as a number the provers can add.                                     *)
LEMMA OneType == ASSUME NEW b PROVE One(b) \in 0 .. 1 /\ (b => One(b) = 1) /\ (~b => One(b) = 0)
  BY DEF One

Is(m, what, buf) == One(m.what = what /\ m.buf = buf)

LEMMA IsType ==
    ASSUME NEW m, NEW what, NEW buf
    PROVE  /\ Is(m, what, buf) \in 0 .. 1
           /\ m.what = what /\ m.buf = buf => Is(m, what, buf) = 1
           /\ m.what # what \/ m.buf # buf => Is(m, what, buf) = 0
  BY OneType DEF Is

LEMMA HowManyHead ==
    ASSUME NEW q \in Seq(AnyMessage), q # <<>>, NEW what, NEW buf
    PROVE  HowMany(q, what, buf) = Is(Head(q), what, buf) + HowMany(Tail(q), what, buf)
<1>1. Head(q) \in AnyMessage /\ Tail(q) \in Seq(AnyMessage)
  BY HeadTailProperties
<1>2. Hits(q, Of(what, buf)) = (IF Head(q) \in Of(what, buf) THEN 1 ELSE 0) + Hits(Tail(q), Of(what, buf))
  BY HitsHead
<1>3. (IF Head(q) \in Of(what, buf) THEN 1 ELSE 0) = Is(Head(q), what, buf)
  BY <1>1 DEF Of, Is, One
<1> QED
  BY <1>1, <1>2, <1>3, HowManyIsHits

LEMMA HowManyAppend ==
    ASSUME NEW q \in Seq(AnyMessage), NEW m \in AnyMessage, NEW what, NEW buf
    PROVE  HowMany(Append(q, m), what, buf) = HowMany(q, what, buf) + Is(m, what, buf)
<1>1. Append(q, m) \in Seq(AnyMessage)
  BY AppendProperties
<1>2. Hits(Append(q, m), Of(what, buf)) = Hits(q, Of(what, buf)) + (IF m \in Of(what, buf) THEN 1 ELSE 0)
  BY HitsAppend
<1>3. (IF m \in Of(what, buf) THEN 1 ELSE 0) = Is(m, what, buf)
  BY DEF Of, Is, One
<1> QED
  BY <1>1, <1>2, <1>3, HowManyIsHits

LEMMA HowManyEmpty == \A what, buf : HowMany(<<>>, what, buf) = 0
<1> SUFFICES ASSUME NEW what, NEW buf PROVE HowMany(<<>>, what, buf) = 0
  OBVIOUS
<1>1. <<>> \in Seq(AnyMessage)
  BY EmptySeq
<1> QED
  BY <1>1, HowManyIsHits, HitsEmpty

-----------------------------------------------------------------------------
(*                     What the helpers make of a codec                     *)

LEMMA CodecFields ==
    ASSUME NEW k \in Codec
    PROVE  /\ k.state \in StateNames /\ k.active \in BOOLEAN /\ k.in \in InPort /\ k.out \in OutPort
           /\ k.ieos \in BOOLEAN /\ k.oeos \in BOOLEAN /\ k.res \in {"no", "eos", "err"}
           /\ k.shutdown \in BOOLEAN /\ k.nowIdle \in BOOLEAN /\ k.flushed \in SUBSET {"in", "out"}
           /\ k.deferred \in Seq(Deferrable) /\ k.post \in Seq(Note) /\ k.cmd \in Commands
           /\ k.ending \in BOOLEAN /\ k.missed \in BOOLEAN /\ k.bad = "none"
  BY DEF Codec

LEMMA PortFields ==
    ASSUME NEW k \in Codec
    PROVE  /\ DOMAIN k.in \subseteq Inputs /\ DOMAIN k.out \subseteq Outputs
           /\ DOMAIN k.in = {} \/ DOMAIN k.in = Inputs
           /\ DOMAIN k.out = {} \/ DOMAIN k.out = Outputs
           /\ \A b \in DOMAIN k.in : k.in[b] \in {"us", "up", "component"}
           /\ \A b \in DOMAIN k.out : k.out[b] \in {"us", "down", "component", "window"}
           /\ \A b : k.in[b] \in {"us", "up", "component"} => [k.in EXCEPT ![b] = k.in[b]] = k.in
<1>1. k.in \in InPort /\ k.out \in OutPort
  BY CodecFields
<1> QED
  BY <1>1 DEF InPort, OutPort

LEMMA InPortExcept ==
    ASSUME NEW p \in InPort, NEW b, NEW x \in {"us", "up", "component"}
    PROVE  [p EXCEPT ![b] = x] \in InPort
  BY DEF InPort

LEMMA OutPortExcept ==
    ASSUME NEW p \in OutPort, NEW b, NEW x \in {"us", "down", "component", "window"}
    PROVE  [p EXCEPT ![b] = x] \in OutPort
  BY DEF OutPort

(* A change that no balance notices.                                          *)
Conserves(k, k2) ==
    /\ \A b \in Inputs : InSum(k2, b) = InSum(k, b)
    /\ \A b \in Outputs : OutSum(k2, b) = OutSum(k, b)
    /\ FlushSum(k2) = FlushSum(k)
    /\ ShutdownSum(k2) = ShutdownSum(k)

LEMMA ConservesBoth ==
    ASSUME NEW k, NEW k2, NEW k3, Conserves(k, k2), Conserves(k2, k3)
    PROVE  Conserves(k, k3)
  BY DEF Conserves

LEMMA SumTypes ==
    ASSUME NEW k \in Codec
    PROVE  /\ \A what, buf : /\ HowMany(k.post, what, buf) \in Nat
                             /\ HowMany(k.deferred, what, buf) \in Nat
           /\ \A b : InSum(k, b) \in Int /\ OutSum(k, b) \in Int /\ Up(k, b) \in 0 .. 1 /\ Down(k, b) \in 0 .. 1
           /\ FlushSum(k) \in Nat /\ ShutdownSum(k) \in Nat
<1>1. k.post \in Seq(AnyMessage) /\ k.deferred \in Seq(AnyMessage)
  BY CodecFields, MessagesAreMessages
<1>2. \A what, buf : HowMany(k.post, what, buf) \in Nat /\ HowMany(k.deferred, what, buf) \in Nat
  BY <1>1, HowManyType
<1>3. \A b : Up(k, b) \in 0 .. 1 /\ Down(k, b) \in 0 .. 1
  BY OneType DEF Up, Down
<1>4. One(k.state = "Flushing") \in 0 .. 1 /\ One(k.state \in {"ExecutingToIdle", "IdleToLoaded"}) \in 0 .. 1
  BY OneType
<1> QED
  BY <1>2, <1>3, <1>4 DEF InSum, OutSum, FlushSum, ShutdownSum

(* Flags may change, and buffers between owners that are not the player.            *)
Alike(k, k2) ==
    /\ k2.post = k.post /\ k2.deferred = k.deferred
    /\ \A b \in Inputs : (b \in DOMAIN k2.in /\ k2.in[b] = "up") <=> (b \in DOMAIN k.in /\ k.in[b] = "up")
    /\ \A b \in Outputs :
            (b \in DOMAIN k2.out /\ k2.out[b] = "down") <=> (b \in DOMAIN k.out /\ k.out[b] = "down")

Stopped == {"ExecutingToIdle", "IdleToLoaded"}

LEMMA AlikeConserves ==
    ASSUME NEW k, NEW k2, Alike(k, k2),
           k2.state = "Flushing" <=> k.state = "Flushing",
           k2.state \in Stopped <=> k.state \in Stopped
    PROVE  Conserves(k, k2)
<1>1. \A b \in Inputs : Up(k2, b) = Up(k, b)
  BY DEF Up, Alike, One
<1>2. \A b \in Outputs : Down(k2, b) = Down(k, b)
  BY DEF Down, Alike, One
<1>3. One(k2.state = "Flushing") = One(k.state = "Flushing") /\ One(k2.state \in Stopped) = One(k.state \in Stopped)
  BY DEF One
<1> QED
  BY <1>1, <1>2, <1>3 DEF Conserves, InSum, OutSum, FlushSum, ShutdownSum, Alike, Stopped

LEMMA PostsDoes ==
    ASSUME NEW k \in Codec, NEW m \in Note
    PROVE  /\ Posts(k, m) \in Codec
           /\ Posts(k, m) = [k EXCEPT !.post = Append(k.post, m)]
           /\ \A what, buf : HowMany(Posts(k, m).post, what, buf) = HowMany(k.post, what, buf) + Is(m, what, buf)
<1>1. k.post \in Seq(Note) /\ k.post \in Seq(AnyMessage) /\ m \in AnyMessage
  BY CodecFields, MessagesAreMessages
<1>2. Append(k.post, m) \in Seq(Note)
  BY <1>1, AppendProperties
<1>3. Posts(k, m) \in Codec /\ Posts(k, m) = [k EXCEPT !.post = Append(k.post, m)]
  BY <1>2 DEF Posts, Codec
<1>4. Posts(k, m).post = Append(k.post, m)
  BY <1>3 DEF Codec
<1> QED
  BY <1>1, <1>3, <1>4, HowManyAppend

LEMMA DefersDoes ==
    ASSUME NEW k \in Codec, NEW m \in Deferrable
    PROVE  /\ Defers(k, m) \in Codec
           /\ Defers(k, m) = [k EXCEPT !.deferred = Append(k.deferred, m)]
           /\ \A what, buf :
                HowMany(Defers(k, m).deferred, what, buf) = HowMany(k.deferred, what, buf) + Is(m, what, buf)
<1>1. k.deferred \in Seq(Deferrable) /\ k.deferred \in Seq(AnyMessage) /\ m \in AnyMessage
  BY CodecFields, MessagesAreMessages
<1>2. Append(k.deferred, m) \in Seq(Deferrable)
  BY <1>1, AppendProperties
<1>3. Defers(k, m) \in Codec /\ Defers(k, m) = [k EXCEPT !.deferred = Append(k.deferred, m)]
  BY <1>2 DEF Defers, Codec
<1>4. Defers(k, m).deferred = Append(k.deferred, m)
  BY <1>3 DEF Codec
<1> QED
  BY <1>1, <1>3, <1>4, HowManyAppend

(* Everything but the input port and the notes is as it was.                     *)
OnlyIn(k, k2) == k2 = [k EXCEPT !.in = k2.in, !.post = k2.post]

LEMMA PostFillDoes ==
    ASSUME NEW k \in Codec, NEW b \in DOMAIN k.in, k.ieos \/ k.in[b] = "us"
    PROVE  /\ PostFill(k, b) \in Codec
           /\ OnlyIn(k, PostFill(k, b))
           /\ DOMAIN PostFill(k, b).in = DOMAIN k.in
           /\ \A d \in DOMAIN k.in : d # b \/ k.ieos => PostFill(k, b).in[d] = k.in[d]
           /\ ~k.ieos => PostFill(k, b).in[b] = "up"
           /\ Conserves(k, PostFill(k, b))
<1>1. CASE k.ieos
  <2>1. PostFill(k, b) = k
    BY <1>1 DEF PostFill
  <2>2. OnlyIn(k, k)
    BY DEF OnlyIn, Codec
  <2> QED
    BY <1>1, <2>1, <2>2 DEF Conserves
<1>2. CASE ~k.ieos
  <2> DEFINE m == Mesg("FillThisBuffer", b, "-")
             u == [k EXCEPT !.in[b] = "up"]
             k2 == Posts(u, m)
  <2>1. PostFill(k, b) = k2
    BY <1>2 DEF PostFill
  <2>2. b \in Inputs
    BY PortFields
  <2>3. m \in Note /\ m.what = "FillThisBuffer" /\ m.buf = b
    BY <2>2 DEF Note, Mesg
  <2>4. u \in Codec /\ u = [k EXCEPT !.in = [k.in EXCEPT ![b] = "up"]]
    BY CodecFields, InPortExcept DEF Codec
  <2> HIDE DEF m, u
  <2>5. k2 \in Codec /\ k2 = [u EXCEPT !.post = Append(u.post, m)]
    BY <2>3, <2>4, PostsDoes
  <2>6. u.in = [k.in EXCEPT ![b] = "up"] /\ u.post = k.post /\ u.deferred = k.deferred /\ u.state = k.state
        /\ u.out = k.out
    BY <2>4 DEF Codec
  <2>7. k2.in = u.in /\ k2.out = k.out /\ k2.deferred = k.deferred /\ k2.state = k.state /\ k2.post = Append(k.post, m)
    BY <2>4, <2>5, <2>6 DEF Codec
  <2>8. OnlyIn(k, k2)
    BY <2>4, <2>5, <2>6 DEF OnlyIn, Codec
  <2>9. \A what, buf : HowMany(k2.post, what, buf) = HowMany(k.post, what, buf) + Is(m, what, buf)
    <3>1. \A what, buf : HowMany(k2.post, what, buf) = HowMany(u.post, what, buf) + Is(m, what, buf)
      BY <2>3, <2>4, PostsDoes
    <3> QED
      BY <2>6, <3>1
  <2> HIDE DEF k2
  <2>10. \A d \in Inputs : Up(k2, d) = Up(k, d) + Is(m, "FillThisBuffer", d)
    <3> SUFFICES ASSUME NEW d \in Inputs PROVE Up(k2, d) = Up(k, d) + Is(m, "FillThisBuffer", d)
      OBVIOUS
    <3>1. CASE d = b
      BY <1>2, <2>3, <2>6, <2>7, <3>1 DEF Up, Is, One
    <3>2. CASE d # b
      <4>1. (d \in DOMAIN k2.in /\ k2.in[d] = "up") <=> (d \in DOMAIN k.in /\ k.in[d] = "up")
        BY <2>6, <2>7, <3>2
      <4> QED
        BY <2>3, <3>2, <4>1 DEF Up, Is, One
    <3> QED
      BY <3>1, <3>2
  <2>11. \A d \in Outputs : Down(k2, d) = Down(k, d)
    BY <2>7 DEF Down
  <2>12. \A d : Is(m, "DrainThisBuffer", d) = 0 /\ Is(m, "FlushCompleted", d) = 0 /\ Is(m, "ShutdownCompleted", d) = 0
    BY <2>3, IsType
  <2>13. \A d : Is(m, "FillThisBuffer", d) \in Int
    BY IsType
  <2>14. \A what, buf : /\ HowMany(k.post, what, buf) \in Nat
                        /\ HowMany(k.deferred, what, buf) \in Nat
    BY SumTypes
  <2>15. \A d : Up(k, d) \in Int
    BY SumTypes
  <2>16. \A d \in Inputs : InSum(k2, d) = InSum(k, d)
    BY <2>7, <2>9, <2>10, <2>13, <2>14, <2>15 DEF InSum
  <2>17. \A d \in Outputs : OutSum(k2, d) = OutSum(k, d)
    BY <2>7, <2>9, <2>11, <2>12, <2>14 DEF OutSum
  <2>18. FlushSum(k2) = FlushSum(k) /\ ShutdownSum(k2) = ShutdownSum(k)
    BY <2>7, <2>9, <2>12, <2>14 DEF FlushSum, ShutdownSum
  <2>19. DOMAIN k2.in = DOMAIN k.in /\ k2.in[b] = "up" /\ \A d \in DOMAIN k.in : d # b => k2.in[d] = k.in[d]
    BY <2>6, <2>7
  <2> QED
    BY <1>2, <2>1, <2>5, <2>8, <2>16, <2>17, <2>18, <2>19 DEF Conserves
<1> QED
  BY <1>1, <1>2

(* Everything but the output port is as it was.                                *)
LEMMA SubmitOutputsDoes ==
    ASSUME NEW k \in Codec, Ours(k.out)
    PROVE  /\ SubmitOutputs(k) \in Codec
           /\ SubmitOutputs(k) = [k EXCEPT !.out = SubmitOutputs(k).out]
           /\ DOMAIN SubmitOutputs(k).out = DOMAIN k.out
           /\ \A b \in DOMAIN k.out :
                SubmitOutputs(k).out[b] = IF k.out[b] = "window" THEN "window" ELSE "component"
           /\ Conserves(k, SubmitOutputs(k))
<1> DEFINE p == [b \in DOMAIN k.out |-> IF k.out[b] = "window" THEN "window" ELSE "component"]
           k2 == [k EXCEPT !.out = p]
<1>1. SubmitOutputs(k) = k2
  BY DEF SubmitOutputs, Ours
<1>2. p \in OutPort
  BY PortFields DEF OutPort
<1> HIDE DEF p
<1>3. k2 \in Codec /\ k2.out = p /\ k2.in = k.in /\ k2.post = k.post /\ k2.deferred = k.deferred /\ k2.state = k.state
  BY <1>2 DEF Codec
<1>4. k2 = [k EXCEPT !.out = k2.out]
  BY <1>3
<1>5. DOMAIN p = DOMAIN k.out
      /\ \A b \in DOMAIN k.out : p[b] = IF k.out[b] = "window" THEN "window" ELSE "component"
  BY DEF p
<1> HIDE DEF k2
<1>6. Alike(k, k2)
  BY <1>3, <1>5 DEF Alike, Ours
<1>7. Conserves(k, k2)
  BY <1>3, <1>6, AlikeConserves
<1> QED
  BY <1>1, <1>3, <1>4, <1>5, <1>7

(* The codec as it resumes: what Resumed makes of one that is not active.           *)
Resumable(k) ==
    /\ k \in Codec /\ k.bad = "none" /\ DOMAIN k.in = Inputs /\ (k.ieos => k.res # "no")
    /\ k.active \/ AllOurs(k)

LEMMA ResumedDoes ==
    ASSUME NEW k, Resumable(k)
    PROVE  /\ Resumed(k) \in Codec
           /\ Resumed(k) = [k EXCEPT !.active = TRUE, !.in = Resumed(k).in, !.out = Resumed(k).out,
                                     !.post = Resumed(k).post]
           /\ k.active => Resumed(k) = k
           /\ DOMAIN Resumed(k).in = Inputs /\ DOMAIN Resumed(k).out = DOMAIN k.out
           /\ \A b \in DOMAIN k.out : Resumed(k).out[b] = "window" <=> k.out[b] = "window"
           /\ ~k.active => /\ \A b \in DOMAIN Resumed(k).out : Resumed(k).out[b] # "us"
                           /\ k.res # "no" \/ \E b \in DOMAIN Resumed(k).in : Resumed(k).in[b] # "us"
           /\ Conserves(k, Resumed(k))
<1>0. k \in Codec /\ k.bad = "none" /\ DOMAIN k.in = Inputs /\ (k.ieos => k.res # "no") /\ (k.active \/ AllOurs(k))
  BY DEF Resumable
<1>1. CASE k.active
  <2>1. Resumed(k) = k
    BY <1>1 DEF Resumed
  <2>2. k = [k EXCEPT !.active = TRUE, !.in = k.in, !.out = k.out, !.post = k.post]
    BY <1>0, <1>1 DEF Codec
  <2>3. Conserves(k, k)
    BY DEF Conserves
  <2> QED
    BY <1>0, <1>1, <2>1, <2>2, <2>3
<1>2. CASE ~k.active
  <2> DEFINE s == SubmitOutputs(k)
             p == PostFill(s, 1)
             k2 == [p EXCEPT !.active = TRUE]
  <2>1. Resumed(k) = k2
    BY <1>2 DEF Resumed
  <2>2. Ours(k.out) /\ Ours(k.in)
    BY <1>0, <1>2 DEF AllOurs
  <2>3. /\ s \in Codec /\ s = [k EXCEPT !.out = s.out] /\ DOMAIN s.out = DOMAIN k.out
        /\ \A b \in DOMAIN k.out : s.out[b] = IF k.out[b] = "window" THEN "window" ELSE "component"
        /\ Conserves(k, s)
    BY <1>0, <2>2, SubmitOutputsDoes
  <2>4. s.in = k.in /\ s.ieos = k.ieos /\ s.res = k.res /\ s.post = k.post /\ s.active = k.active
    BY <1>0, <2>3 DEF Codec
  <2>5. 1 \in DOMAIN s.in /\ s.in[1] = "us"
    <3>1. 1 \in Inputs
      BY CodecAssumption DEF Inputs
    <3>2. k.in[1] \in {"us", "up", "component"}
      BY <1>0, <3>1, PortFields
    <3> QED
      BY <1>0, <2>2, <2>4, <3>1, <3>2 DEF Ours
  <2> HIDE DEF s
  <2>6. /\ p \in Codec /\ OnlyIn(s, p) /\ DOMAIN p.in = DOMAIN s.in
        /\ ~s.ieos => p.in[1] = "up"
        /\ Conserves(s, p)
    BY <2>3, <2>5, PostFillDoes
  <2> HIDE DEF p
  <2>7. k2 \in Codec /\ k2.in = p.in /\ k2.out = p.out /\ k2.post = p.post /\ k2.deferred = p.deferred /\ k2.state = p.state
    BY <2>6 DEF Codec
  <2>8. p.out = s.out
    BY <2>3, <2>6 DEF OnlyIn, Codec
  <2>9. k2 = [k EXCEPT !.active = TRUE, !.in = k2.in, !.out = k2.out, !.post = k2.post]
    <3>1. p = [s EXCEPT !.in = p.in, !.post = p.post]
      BY <2>6 DEF OnlyIn
    <3>2. p = [k EXCEPT !.out = s.out, !.in = p.in, !.post = p.post]
      BY <1>0, <2>3, <3>1 DEF Codec
    <3>3. k2 = [k EXCEPT !.active = TRUE, !.out = s.out, !.in = p.in, !.post = p.post]
      BY <1>0, <3>2 DEF Codec
    <3> HIDE DEF k2
    <3>4. k2 = [k EXCEPT !.active = TRUE, !.out = k2.out, !.in = k2.in, !.post = k2.post]
      BY <2>7, <2>8, <3>3
    <3> QED
      BY <1>0, <3>4 DEF Codec
  <2>10. Alike(p, k2)
    BY <2>7 DEF Alike
  <2> HIDE DEF k2
  <2>11. Conserves(p, k2)
    BY <2>7, <2>10, AlikeConserves
  <2>12. Conserves(k, k2)
    BY <2>3, <2>6, <2>11, ConservesBoth
  <2>13. \A b \in DOMAIN k.out : k2.out[b] = "window" <=> k.out[b] = "window"
    BY <2>3, <2>7, <2>8
  <2>14. \A b \in DOMAIN k2.out : k2.out[b] # "us"
    BY <2>3, <2>7, <2>8
  <2>15. k.res # "no" \/ \E b \in DOMAIN k2.in : k2.in[b] # "us"
    BY <1>0, <2>4, <2>5, <2>6, <2>7
  <2> QED
    BY <1>0, <1>2, <2>1, <2>3, <2>4, <2>6, <2>7, <2>8, <2>9, <2>12, <2>13, <2>14, <2>15
<1> QED
  BY <1>1, <1>2

(* Nothing, or a request for the last buffer that is ours.                       *)
LEMMA MoreInputDoes ==
    ASSUME NEW k \in Codec
    PROVE  /\ MoreInput(k) \in Codec
           /\ OnlyIn(k, MoreInput(k))
           /\ DOMAIN MoreInput(k).in = DOMAIN k.in
           /\ \A d \in DOMAIN k.in : k.in[d] # "us" => MoreInput(k).in[d] = k.in[d]
           /\ Conserves(k, MoreInput(k))
<1> DEFINE ours == {b \in DOMAIN k.in : k.in[b] = "us"}
           last == CHOOSE b \in ours : \A d \in ours : d <= b
<1>1. CASE ours = {}
  <2>1. MoreInput(k) = k
    BY <1>1 DEF MoreInput
  <2>2. OnlyIn(k, k) /\ Conserves(k, k)
    BY DEF OnlyIn, Conserves, Codec
  <2> QED
    BY <2>1, <2>2
<1>2. CASE ours # {}
  <2>1. MoreInput(k) = PostFill(k, last)
    BY <1>2 DEF MoreInput
  <2>2. \E b \in ours : \A d \in ours : d <= b
    <3> DEFINE mirror == {i \in 0 .. NumInput : NumInput - i \in ours}
    <3>1. ours \subseteq 1 .. NumInput /\ NumInput \in Nat
      BY PortFields, CodecAssumption DEF Inputs
    <3>2. mirror \in SUBSET Nat /\ mirror # {}
      <4>1. PICK b \in ours : TRUE
        BY <1>2
      <4> HIDE DEF ours
      <4>2. NumInput - b \in 0 .. NumInput /\ NumInput - (NumInput - b) = b
        BY <3>1, <4>1
      <4>3. NumInput - b \in mirror
        BY <4>1, <4>2
      <4> QED
        BY <4>3
    <3> HIDE DEF ours
    <3>3. PICK i \in mirror : \A j \in mirror : i <= j
      <4> HIDE DEF mirror
      <4> QED
        BY <3>2, LeastNumber
    <3>4. \A d \in ours : NumInput - d \in mirror
      BY <3>1
    <3>5. \A d \in ours : d <= NumInput - i
      <4> SUFFICES ASSUME NEW d \in ours PROVE d <= NumInput - i
        OBVIOUS
      <4>1. i <= NumInput - d
        BY <3>3, <3>4
      <4>2. i \in 0 .. NumInput /\ d \in 1 .. NumInput
        BY <3>1
      <4> QED
        BY <3>1, <4>1, <4>2
    <3> HIDE DEF mirror
    <3>6. NumInput - i \in ours
      BY <3>3 DEF mirror
    <3> QED
      BY <3>5, <3>6
  <2>3. last \in ours
    <3> HIDE DEF ours
    <3> QED
      BY <2>2
  <2> HIDE DEF last
  <2>4. last \in DOMAIN k.in /\ k.in[last] = "us"
    BY <2>3
  <2> QED
    BY <2>1, <2>4, PostFillDoes
<1> QED
  BY <1>1, <1>2

-----------------------------------------------------------------------------
(*                       A message is handled                               *)

(* The balances after m: what it says is done, deferred, or answered.               *)
Absorbs(k, k2, m) ==
    /\ \A b \in Inputs : InSum(k2, b) = InSum(k, b) + Is(m, "InputBufferFilled", b)
    /\ \A b \in Outputs : OutSum(k2, b) = OutSum(k, b) + Is(m, "OutputBufferDrained", b)
    /\ FlushSum(k2) = FlushSum(k) + Is(m, "Flush", 0)
    /\ (m.what = "Shutdown" /\ k.state \in Stopped) \/ ShutdownSum(k2) = ShutdownSum(k) + Is(m, "Shutdown", 0)

LEMMA AbsorbsThenConserves ==
    ASSUME NEW k, NEW k2, NEW k3, NEW m, Absorbs(k, k2, m), Conserves(k2, k3)
    PROVE  Absorbs(k, k3, m)
  BY DEF Absorbs, Conserves

LEMMA AbsorbsNothing ==
    ASSUME NEW k \in Codec, NEW k2, NEW m, Conserves(k, k2),
           m.what \notin {"InputBufferFilled", "OutputBufferDrained", "Flush", "Shutdown"}
    PROVE  Absorbs(k, k2, m)
<1>1. \A b : /\ Is(m, "InputBufferFilled", b) = 0 /\ Is(m, "OutputBufferDrained", b) = 0
             /\ Is(m, "Flush", b) = 0 /\ Is(m, "Shutdown", b) = 0
  BY IsType
<1> QED
  BY <1>1, SumTypes DEF Absorbs, Conserves

LEMMA GivenBack ==
    ASSUME NEW k \in Codec, NEW m, m.what = "InputBufferFilled", m.buf \in DOMAIN k.in, k.in[m.buf] = "up",
           NEW x, x # "up",
           NEW k2, k2.in = [k.in EXCEPT ![m.buf] = x], k2.out = k.out, k2.post = k.post,
           k2.deferred = k.deferred, k2.state = k.state
    PROVE  Absorbs(k, k2, m)
<1>1. ASSUME NEW b \in Inputs PROVE Up(k2, b) + Is(m, "InputBufferFilled", b) = Up(k, b)
  <2>1. CASE b = m.buf
    BY <2>1 DEF Up, Is, One
  <2>2. CASE b # m.buf
    <3>1. (b \in DOMAIN k2.in /\ k2.in[b] = "up") <=> (b \in DOMAIN k.in /\ k.in[b] = "up")
      BY <2>2
    <3> QED
      BY <2>2, <3>1 DEF Up, Is, One
  <2> QED
    BY <2>1, <2>2
<1>2. \A b : Down(k2, b) = Down(k, b)
  BY DEF Down
<1>3. \A b : Is(m, "OutputBufferDrained", b) = 0 /\ Is(m, "Flush", b) = 0 /\ Is(m, "Shutdown", b) = 0
  BY IsType
<1>4. \A b : Up(k, b) \in Int /\ Is(m, "InputBufferFilled", b) \in Int /\ Up(k2, b) \in Int
  BY SumTypes, IsType, OneType DEF Up
<1>5. ASSUME NEW b \in Inputs
      PROVE  InSum(k2, b) = InSum(k, b) + Is(m, "InputBufferFilled", b)
  <2>1. /\ Up(k2, b) + Is(m, "InputBufferFilled", b) = Up(k, b)
        /\ Up(k, b) \in Int /\ Is(m, "InputBufferFilled", b) \in Int /\ Up(k2, b) \in Int
    BY <1>1, <1>4
  <2>2. HowMany(k.post, "FillThisBuffer", b) \in Int /\ HowMany(k.deferred, "InputBufferFilled", b) \in Int
    BY SumTypes
  <2> QED
    BY <2>1, <2>2 DEF InSum
<1>6. \A b \in Outputs : OutSum(k2, b) = OutSum(k, b) + Is(m, "OutputBufferDrained", b)
  BY <1>2, <1>3, SumTypes DEF OutSum
<1>7. FlushSum(k2) = FlushSum(k) /\ ShutdownSum(k2) = ShutdownSum(k)
  BY DEF FlushSum, ShutdownSum
<1> QED
  BY <1>3, <1>5, <1>6, <1>7, SumTypes DEF Absorbs

(* What is so of the codec k2 that k becomes when its buffer is filled: it is emptied, *)
(* or kept, and then another may be asked for.                                  *)
Again(k) == k.state \in {"Executing", "OutputPortSettingsChanged"}

Input(k, k2) ==
    k2 = [k EXCEPT !.in = k2.in, !.post = k2.post, !.ieos = k2.ieos, !.res = k2.res, !.ending = k2.ending]

TakesInput(k, k2, m) ==
    /\ k2 \in Codec /\ Input(k, k2)
    /\ DOMAIN k2.in = DOMAIN k.in
    /\ k2.ieos => k2.res # "no"
    /\ Again(k) => k2.res # "no" \/ \E b \in DOMAIN k2.in : k2.in[b] # "us"
    /\ k2.ending => k.ending \/ (Again(k) /\ m.arg # "ok")
    /\ Absorbs(k, k2, m)

LEMMA InputFilledDoes ==
    ASSUME NEW k \in Codec, NEW m \in Deferrable, m.what = "InputBufferFilled",
           m.buf \in DOMAIN k.in, k.in[m.buf] = "up", k.ieos => k.res # "no"
    PROVE  TakesInput(k, InputFilled(k, m), m)
<1> DEFINE b == m.buf
           back == [k EXCEPT !.in[b] = "us"]
           again == Again(k)
           fed == EmptyBuffer(back, b, m.arg)
           k2 == InputFilled(k, m)
<1>0. b \in Inputs /\ m.arg \in {"ok", "eos", "err"}
  BY PortFields DEF Deferrable
<1>1. k2 = IF k.ieos THEN back
           ELSE IF again THEN IF m.arg = "ok" THEN MoreInput(fed) ELSE fed
           ELSE IF m.arg = "ok" THEN back ELSE [back EXCEPT !.ieos = TRUE, !.res = m.arg]
  BY DEF InputFilled, Again
<1>2. /\ back \in Codec /\ back = [k EXCEPT !.in = back.in] /\ back.in = [k.in EXCEPT ![b] = "us"]
      /\ back.ieos = k.ieos /\ back.res = k.res /\ back.ending = k.ending
  BY CodecFields, InPortExcept DEF Codec
<1>3. Absorbs(k, back, m)
  <2>1. back.out = k.out /\ back.post = k.post /\ back.deferred = k.deferred /\ back.state = k.state
    BY DEF Codec
  <2> HIDE DEF back
  <2> QED
    BY <1>2, <2>1, GivenBack
<1>4. CASE k.ieos \/ (~again /\ m.arg = "ok")
  <2>1. k2 = back
    BY <1>1, <1>4
  <2>2. Input(k, back)
    BY DEF Input, Codec
  <2>3. DOMAIN back.in = DOMAIN k.in
    BY <1>2
  <2> HIDE DEF k2, back, fed
  <2>4. TakesInput(k, back, m)
    <3>1. back.ieos => back.res # "no"
      BY <1>2
    <3>2. Again(k) => back.res # "no"
      BY <1>2, <1>4
    <3> QED
      BY <1>2, <1>3, <2>2, <2>3, <3>1, <3>2 DEF TakesInput
  <2> QED
    BY <2>1, <2>4 DEF k2
<1>5. CASE ~k.ieos /\ ~again /\ m.arg # "ok"
  <2> DEFINE e == [back EXCEPT !.ieos = TRUE, !.res = m.arg]
  <2>1. k2 = e
    BY <1>1, <1>5
  <2>2. e \in Codec /\ e.in = back.in /\ e.ieos = TRUE /\ e.res = m.arg /\ e.ending = k.ending
    BY <1>0, <1>2, <1>5 DEF Codec
  <2>3. Input(k, e)
    BY <1>2 DEF Input, Codec
  <2>4. e.out = k.out /\ e.post = k.post /\ e.deferred = k.deferred /\ e.state = k.state
    BY DEF Codec
  <2> HIDE DEF e, back, k2, fed
  <2>5. Absorbs(k, e, m)
    BY <1>2, <2>2, <2>4, GivenBack
  <2>6. DOMAIN e.in = DOMAIN k.in
    BY <1>2, <2>2
  <2>7. TakesInput(k, e, m)
    BY <1>0, <1>5, <2>2, <2>3, <2>5, <2>6 DEF TakesInput, Again
  <2> QED
    BY <2>1, <2>7 DEF k2
<1>6. CASE ~k.ieos /\ again
  <2>1. /\ fed \in Codec /\ fed.in = [k.in EXCEPT ![b] = "component"]
        /\ fed.out = k.out /\ fed.post = k.post /\ fed.deferred = k.deferred /\ fed.state = k.state
        /\ m.arg = "ok" => fed.ieos = k.ieos /\ fed.res = k.res /\ fed.ending = k.ending
        /\ m.arg # "ok" => fed.ieos = TRUE /\ fed.res = m.arg /\ fed.ending = TRUE
    <3>1. CASE m.arg = "ok"
      <4>1. fed = [back EXCEPT !.in[b] = "component"]
        BY <3>1 DEF EmptyBuffer
      <4> HIDE DEF back
      <4>2. [back.in EXCEPT ![b] = "component"] \in InPort
        BY <1>2, CodecFields, InPortExcept
      <4>3. fed = [k EXCEPT !.in = [back.in EXCEPT ![b] = "component"]]
        BY <1>2, <4>1 DEF Codec
      <4>4. [back.in EXCEPT ![b] = "component"] = [k.in EXCEPT ![b] = "component"]
        BY <1>2
      <4> HIDE DEF fed
      <4> QED
        BY <3>1, <4>2, <4>3, <4>4 DEF Codec
    <3>2. CASE m.arg # "ok"
      <4>1. fed = [back EXCEPT !.in[b] = "component", !.ieos = TRUE, !.res = m.arg, !.ending = TRUE]
        BY <3>2 DEF EmptyBuffer
      <4> HIDE DEF back
      <4>2. [back.in EXCEPT ![b] = "component"] \in InPort
        BY <1>2, CodecFields, InPortExcept
      <4>3. fed = [k EXCEPT !.in = [back.in EXCEPT ![b] = "component"], !.ieos = TRUE, !.res = m.arg, !.ending = TRUE]
        BY ZenonT(60), <1>2, <4>1 DEF Codec
      <4>4. [back.in EXCEPT ![b] = "component"] = [k.in EXCEPT ![b] = "component"]
        BY <1>2
      <4> HIDE DEF fed
      <4> QED
        BY <1>0, <3>2, <4>2, <4>3, <4>4 DEF Codec
    <3> QED
      BY <3>1, <3>2
  <2>2. fed = [k EXCEPT !.in = fed.in, !.ieos = fed.ieos, !.res = fed.res, !.ending = fed.ending]
    BY ZenonT(60), <1>0, <1>2 DEF EmptyBuffer, Codec
  <2> HIDE DEF fed, back, k2
  <2>3. Absorbs(k, fed, m)
    BY <2>1, GivenBack
  <2>4. fed.in[b] = "component" /\ DOMAIN fed.in = DOMAIN k.in
    BY <2>1
  <2>5. CASE m.arg = "ok"
    <3> DEFINE p == MoreInput(fed)
    <3>1. k2 = p
      BY <1>1, <1>6, <2>5
    <3>2. /\ p \in Codec /\ OnlyIn(fed, p) /\ DOMAIN p.in = DOMAIN fed.in
          /\ p.in[b] = "component" /\ Conserves(fed, p)
      BY <2>1, <2>4, MoreInputDoes
    <3> HIDE DEF p
    <3>3. p.ieos = fed.ieos /\ p.res = fed.res /\ p.ending = fed.ending
      BY <2>1, <3>2 DEF OnlyIn, Codec
    <3>4. Input(k, p)
      BY ZenonT(60), <2>2, <3>2, <3>3 DEF OnlyIn, Input, Codec
    <3>5. Absorbs(k, p, m)
      BY <2>3, <3>2, AbsorbsThenConserves
    <3>6. TakesInput(k, p, m)
      <4>1. p.ieos => p.res # "no"
        BY <1>6, <2>1, <2>5, <3>3
      <4>2. \E d \in DOMAIN p.in : p.in[d] # "us"
        BY <2>4, <3>2
      <4>3. p.ending => k.ending
        BY <2>1, <2>5, <3>3
      <4> QED
        BY <2>4, <3>2, <3>4, <3>5, <4>1, <4>2, <4>3 DEF TakesInput
    <3> QED
      BY <3>1, <3>6 DEF k2
  <2>6. CASE m.arg # "ok"
    <3>1. k2 = fed
      BY <1>1, <1>6, <2>6
    <3>2. Input(k, fed)
      BY <2>1, <2>2 DEF Input, Codec
    <3>3. TakesInput(k, fed, m)
      BY <1>0, <1>6, <2>1, <2>3, <2>4, <2>6, <3>2 DEF TakesInput
    <3> QED
      BY <3>1, <3>3 DEF k2
  <2> QED
    BY <2>5, <2>6
<1> QED
  BY <1>4, <1>5, <1>6

(* The codec that has handled the next message fits the rest of them.                 *)
LEMMA FitsDelivered ==
    ASSUME Typed, NEW k, NEW q, Fits(k, q), q # <<>>, NEW k2, Sound(k2), Absorbs(k, k2, Head(q))
    PROVE  Fits(k2, Tail(q))
<1> DEFINE m == Head(q)
           r == Tail(q)
<1>1. k \in Codec /\ k2 \in Codec /\ q \in Seq(Message) /\ q \in Seq(AnyMessage)
  BY MessagesAreMessages DEF Fits, Balanced, Sound
<1>2. m \in Message /\ r \in Seq(Message) /\ r \in Seq(AnyMessage)
  BY <1>1, HeadTailProperties, MessagesAreMessages
<1>3. \A what, buf : HowMany(q, what, buf) = Is(m, what, buf) + HowMany(r, what, buf)
  BY <1>1, HowManyHead
<1>4. \A what, buf : HowMany(r, what, buf) \in Nat /\ Is(m, what, buf) \in Nat
  <2>1. \A what, buf : HowMany(r, what, buf) \in Nat
    BY <1>2, HowManyType
  <2>2. \A what, buf : Is(m, what, buf) \in Nat
    BY IsType
  <2> QED
    BY <2>1, <2>2
<1>5. \A what, buf : HowMany(outbox, what, buf) \in Nat
  BY HowManyType, MessagesAreMessages DEF Typed
<1>6. \A x : One(x) \in Nat
  BY OneType
<1> HIDE DEF m, r
<1>7. ASSUME NEW b \in Inputs
      PROVE  InSum(k2, b) + HowMany(outbox, "FillThisBuffer", b) + One(b \in held.in)
                + HowMany(r, "InputBufferFilled", b) = 0
  <2>1. InSum(k, b) + HowMany(outbox, "FillThisBuffer", b) + One(b \in held.in)
            + HowMany(q, "InputBufferFilled", b) = 0
    BY DEF Fits, Balanced
  <2>2. InSum(k2, b) = InSum(k, b) + Is(m, "InputBufferFilled", b)
    BY DEF Absorbs, m
  <2>3. InSum(k, b) \in Int
    BY <1>1, SumTypes
  <2>4. HowMany(q, "InputBufferFilled", b)
            = Is(m, "InputBufferFilled", b) + HowMany(r, "InputBufferFilled", b)
    BY <1>3
  <2>5. /\ Is(m, "InputBufferFilled", b) \in Nat /\ HowMany(r, "InputBufferFilled", b) \in Nat
        /\ HowMany(outbox, "FillThisBuffer", b) \in Nat /\ One(b \in held.in) \in Nat
    BY <1>4, <1>5, <1>6
  <2> QED
    BY <2>1, <2>2, <2>3, <2>4, <2>5
<1>8. ASSUME NEW b \in Outputs
      PROVE  OutSum(k2, b) + HowMany(outbox, "DrainThisBuffer", b) + One(b \in held.out)
                + HowMany(r, "OutputBufferDrained", b) = 0
  <2>1. OutSum(k, b) + HowMany(outbox, "DrainThisBuffer", b) + One(b \in held.out)
            + HowMany(q, "OutputBufferDrained", b) = 0
    BY DEF Fits, Balanced
  <2>2. OutSum(k2, b) = OutSum(k, b) + Is(m, "OutputBufferDrained", b)
    BY DEF Absorbs, m
  <2>3. OutSum(k, b) \in Int
    BY <1>1, SumTypes
  <2>4. HowMany(q, "OutputBufferDrained", b)
            = Is(m, "OutputBufferDrained", b) + HowMany(r, "OutputBufferDrained", b)
    BY <1>3
  <2>5. /\ Is(m, "OutputBufferDrained", b) \in Nat /\ HowMany(r, "OutputBufferDrained", b) \in Nat
        /\ HowMany(outbox, "DrainThisBuffer", b) \in Nat /\ One(b \in held.out) \in Nat
    BY <1>4, <1>5, <1>6
  <2> QED
    BY <2>1, <2>2, <2>3, <2>4, <2>5
<1>9. FlushSum(k2) + HowMany(outbox, "FlushCompleted", 0) + HowMany(r, "Flush", 0) = One(player = "flushing")
  <2>1. FlushSum(k) + HowMany(outbox, "FlushCompleted", 0) + HowMany(q, "Flush", 0) = One(player = "flushing")
    BY DEF Fits, Balanced
  <2>2. FlushSum(k2) = FlushSum(k) + Is(m, "Flush", 0)
    BY DEF Absorbs, m
  <2>3. FlushSum(k) \in Nat
    BY <1>1, SumTypes
  <2>4. HowMany(q, "Flush", 0) = Is(m, "Flush", 0) + HowMany(r, "Flush", 0)
    BY <1>3
  <2>5. /\ Is(m, "Flush", 0) \in Nat /\ HowMany(r, "Flush", 0) \in Nat
        /\ HowMany(outbox, "FlushCompleted", 0) \in Nat
    BY <1>4, <1>5
  <2> QED
    BY <2>1, <2>2, <2>3, <2>4, <2>5
<1> QED
  BY <1>2, <1>7, <1>8, <1>9 DEF Fits, Balanced, r

LEMMA FitsStill ==
    ASSUME NEW k, NEW q, Fits(k, q), NEW k2, Sound(k2), Conserves(k, k2)
    PROVE  Fits(k2, q)
  BY DEF Fits, Balanced, Conserves

(* What a message that is next in the queue says of the codec.                       *)
LEMMA HeadSays ==
    ASSUME Typed, NEW k, NEW q, Fits(k, q), q # <<>>
    PROVE  /\ Head(q) \in Message /\ Tail(q) \in Seq(Message)
           /\ Head(q).what = "InputBufferFilled" =>
                Head(q).buf \in DOMAIN k.in /\ k.in[Head(q).buf] = "up"
           /\ Head(q).what = "OutputBufferDrained" =>
                Head(q).buf \in DOMAIN k.out /\ k.out[Head(q).buf] = "down"
           /\ Head(q).what = "Flush" => k.state # "Flushing" /\ player = "flushing"
<1> DEFINE m == Head(q)
<1>1. k \in Codec /\ q \in Seq(Message) /\ q \in Seq(AnyMessage)
  BY MessagesAreMessages DEF Fits, Balanced, Sound
<1>2. m \in Message /\ Tail(q) \in Seq(Message) /\ Tail(q) \in Seq(AnyMessage)
  BY <1>1, HeadTailProperties, MessagesAreMessages
<1>3. \A what, buf : m.what = what /\ m.buf = buf => HowMany(q, what, buf) \in Nat \ {0}
  <2> SUFFICES ASSUME NEW what, NEW buf, m.what = what, m.buf = buf
               PROVE  HowMany(q, what, buf) \in Nat \ {0}
    OBVIOUS
  <2>1. HowMany(q, what, buf) = Is(m, what, buf) + HowMany(Tail(q), what, buf)
    BY <1>1, HowManyHead
  <2>2. Is(m, what, buf) = 1
    BY IsType
  <2>3. HowMany(Tail(q), what, buf) \in Nat
    BY <1>2, HowManyType
  <2> QED
    BY <2>1, <2>2, <2>3
<1>4. \A what, buf : /\ HowMany(outbox, what, buf) \in Nat
                     /\ HowMany(k.post, what, buf) \in Nat /\ HowMany(k.deferred, what, buf) \in Nat
  BY <1>1, HowManyType, MessagesAreMessages, SumTypes DEF Typed
<1> HIDE DEF m
<1>5. ASSUME m.what = "InputBufferFilled" PROVE m.buf \in DOMAIN k.in /\ k.in[m.buf] = "up"
  <2> DEFINE b == m.buf
  <2>1. b \in Inputs
    BY <1>2, <1>5 DEF Message
  <2> HIDE DEF b
  <2>2. InSum(k, b) + HowMany(outbox, "FillThisBuffer", b) + One(b \in held.in)
            + HowMany(q, "InputBufferFilled", b) = 0
    BY <2>1 DEF Fits, Balanced
  <2>3. HowMany(q, "InputBufferFilled", b) \in Nat \ {0}
    BY <1>3, <1>5 DEF b
  <2>4. One(b \in held.in) \in Nat /\ Up(k, b) \in 0 .. 1
    BY <1>1, OneType, SumTypes
  <2>5. Up(k, b) = 1
    BY <1>4, <2>2, <2>3, <2>4 DEF InSum
  <2> QED
    BY <2>5 DEF Up, One, b
<1>6. ASSUME m.what = "OutputBufferDrained" PROVE m.buf \in DOMAIN k.out /\ k.out[m.buf] = "down"
  <2> DEFINE b == m.buf
  <2>1. b \in Outputs
    BY <1>2, <1>6 DEF Message
  <2> HIDE DEF b
  <2>2. OutSum(k, b) + HowMany(outbox, "DrainThisBuffer", b) + One(b \in held.out)
            + HowMany(q, "OutputBufferDrained", b) = 0
    BY <2>1 DEF Fits, Balanced
  <2>3. HowMany(q, "OutputBufferDrained", b) \in Nat \ {0}
    BY <1>3, <1>6 DEF b
  <2>4. One(b \in held.out) \in Nat /\ Down(k, b) \in 0 .. 1
    BY <1>1, OneType, SumTypes
  <2>5. Down(k, b) = 1
    BY <1>4, <2>2, <2>3, <2>4 DEF OutSum
  <2> QED
    BY <2>5 DEF Down, One, b
<1>7. ASSUME m.what = "Flush" PROVE k.state # "Flushing" /\ player = "flushing"
  <2>1. m.buf = 0
    BY <1>2, <1>7 DEF Message
  <2>2. HowMany(q, "Flush", 0) \in Nat \ {0}
    BY <1>3, <1>7, <2>1
  <2>3. FlushSum(k) + HowMany(outbox, "FlushCompleted", 0) + HowMany(q, "Flush", 0) = One(player = "flushing")
    BY DEF Fits, Balanced
  <2>4. /\ One(player = "flushing") \in 0 .. 1 /\ (player # "flushing" => One(player = "flushing") = 0)
        /\ One(k.state = "Flushing") \in 0 .. 1 /\ (k.state = "Flushing" => One(k.state = "Flushing") = 1)
    BY OneType
  <2> QED
    BY <1>4, <2>2, <2>3, <2>4 DEF FlushSum
<1> QED
  BY <1>2, <1>5, <1>6, <1>7 DEF m

(* Notes and deferred messages, and flags that nothing depends on.                    *)
LEMMA SoundSame ==
    ASSUME NEW k, Sound(k), NEW k2 \in Codec, k2.bad = k.bad, k2.state = k.state, k2.cmd = k.cmd,
           k2.flushed = k.flushed, k2.nowIdle = k.nowIdle, k2.in = k.in, k2.out = k.out,
           k2.active = k.active, k2.ieos = k.ieos, k2.oeos = k.oeos, k2.res = k.res
    PROVE  Sound(k2)
<1>1. Commanded(k2)
  BY DEF Sound, Commanded
<1>2. Resting(k2)
  BY DEF Sound, Resting, AllOurs
<1>3. Busy(k2)
  BY DEF Sound, Busy
<1> QED
  BY <1>1, <1>2, <1>3 DEF Sound

LEMMA PostsIsSound ==
    ASSUME NEW k, Sound(k), NEW m \in Note
    PROVE  Sound(Posts(k, m))
<1>1. Posts(k, m) \in Codec /\ Posts(k, m) = [k EXCEPT !.post = Append(k.post, m)]
  BY PostsDoes DEF Sound
<1> DEFINE k2 == Posts(k, m)
<1> HIDE DEF k2
<1>2. k2 \in Codec /\ k2 = [k EXCEPT !.post = Append(k.post, m)]
  BY <1>1 DEF k2
<1>3. Sound(k2)
  BY <1>2, SoundSame DEF Sound, Codec
<1> QED
  BY <1>3 DEF k2

LEMMA DefersIsSound ==
    ASSUME NEW k, Sound(k), NEW m \in Deferrable
    PROVE  Sound(Defers(k, m))
<1> DEFINE k2 == Defers(k, m)
<1>1. k2 \in Codec /\ k2 = [k EXCEPT !.deferred = Append(k.deferred, m)]
  BY DefersDoes DEF Sound
<1> HIDE DEF k2
<1>3. Sound(k2)
  BY <1>1, SoundSame DEF Sound, Codec
<1> QED
  BY <1>3 DEF k2

(* A message that is put off is still there.                                    *)
LEMMA DefersAbsorbs ==
    ASSUME NEW k \in Codec, NEW m \in Deferrable
    PROVE  Absorbs(k, Defers(k, m), m)
<1> DEFINE k2 == Defers(k, m)
<1>1. k2 \in Codec /\ k2 = [k EXCEPT !.deferred = Append(k.deferred, m)]
  BY DefersDoes
<1>2. \A what, buf : HowMany(k2.deferred, what, buf) = HowMany(k.deferred, what, buf) + Is(m, what, buf)
  BY DefersDoes
<1> HIDE DEF k2
<1>3. k2.in = k.in /\ k2.out = k.out /\ k2.post = k.post /\ k2.state = k.state
  BY <1>1 DEF Codec
<1>4. \A b : Up(k2, b) = Up(k, b) /\ Down(k2, b) = Down(k, b)
  BY <1>3 DEF Up, Down
<1>5. \A what, buf : Is(m, what, buf) \in Int
  BY IsType
<1>6. \A b : Is(m, "OutputBufferDrained", b) = 0
  BY IsType DEF Deferrable
<1>7. \A what, buf : HowMany(k.post, what, buf) \in Int /\ HowMany(k.deferred, what, buf) \in Int
  BY SumTypes
<1>8. ASSUME NEW b \in Inputs PROVE InSum(k2, b) = InSum(k, b) + Is(m, "InputBufferFilled", b)
  <2>1. Up(k, b) \in Int
    BY SumTypes
  <2> QED
    BY <1>2, <1>3, <1>4, <1>5, <1>7, <2>1 DEF InSum
<1>9. ASSUME NEW b \in Outputs PROVE OutSum(k2, b) = OutSum(k, b) + Is(m, "OutputBufferDrained", b)
  <2>1. OutSum(k, b) \in Int /\ OutSum(k2, b) = OutSum(k, b)
    BY <1>3, <1>4, SumTypes DEF OutSum
  <2> QED
    BY <1>6, <2>1
<1>10. FlushSum(k2) = FlushSum(k) + Is(m, "Flush", 0)
  BY <1>2, <1>3, <1>5, <1>7, OneType DEF FlushSum
<1>11. ShutdownSum(k2) = ShutdownSum(k) + Is(m, "Shutdown", 0)
  BY <1>2, <1>3, <1>5, <1>7, OneType DEF ShutdownSum
<1> QED
  BY <1>8, <1>9, <1>10, <1>11 DEF Absorbs, k2

(* So is one that is answered at once.                                         *)
LEMMA AnswerAbsorbs ==
    ASSUME NEW k \in Codec, NEW n \in Note, NEW m, m.buf = 0,
           (m.what = "Flush" /\ n.what = "FlushCompleted") \/ (m.what = "Shutdown" /\ n.what = "ShutdownCompleted")
    PROVE  Absorbs(k, Posts(k, n), m)
<1> DEFINE k2 == Posts(k, n)
<1>1. k2 \in Codec /\ k2 = [k EXCEPT !.post = Append(k.post, n)]
  BY PostsDoes
<1>2. \A what, buf : HowMany(k2.post, what, buf) = HowMany(k.post, what, buf) + Is(n, what, buf)
  BY PostsDoes
<1> HIDE DEF k2
<1>3. k2.in = k.in /\ k2.out = k.out /\ k2.deferred = k.deferred /\ k2.state = k.state
  BY <1>1 DEF Codec
<1>4. \A b : Up(k2, b) = Up(k, b) /\ Down(k2, b) = Down(k, b)
  BY <1>3 DEF Up, Down
<1>5. \A b : /\ Is(m, "InputBufferFilled", b) = 0 /\ Is(m, "OutputBufferDrained", b) = 0
             /\ Is(n, "FillThisBuffer", b) = 0 /\ Is(n, "DrainThisBuffer", b) = 0
  BY IsType
<1>6. /\ Is(n, "FlushCompleted", 0) = Is(m, "Flush", 0)
      /\ Is(n, "ShutdownCompleted", 0) = Is(m, "Shutdown", 0)
      /\ Is(m, "Flush", 0) \in Int /\ Is(m, "Shutdown", 0) \in Int
  <2>1. n.buf = 0
    BY DEF Note
  <2> QED
    BY <2>1 DEF Is, One
<1>7. \A what, buf : HowMany(k.post, what, buf) \in Int /\ HowMany(k.deferred, what, buf) \in Int
  BY SumTypes
<1>8. \A b : InSum(k2, b) = InSum(k, b) /\ OutSum(k2, b) = OutSum(k, b)
  BY <1>2, <1>3, <1>4, <1>5, <1>7 DEF InSum, OutSum
<1>9. \A b : InSum(k, b) \in Int /\ OutSum(k, b) \in Int
  BY SumTypes
<1>10. FlushSum(k2) = FlushSum(k) + Is(m, "Flush", 0)
  BY <1>2, <1>3, <1>6, <1>7, OneType DEF FlushSum
<1>11. ShutdownSum(k2) = ShutdownSum(k) + Is(m, "Shutdown", 0)
  BY <1>2, <1>3, <1>6, <1>7, OneType DEF ShutdownSum
<1> QED
  BY <1>5, <1>8, <1>9, <1>10, <1>11 DEF Absorbs, k2

LEMMA PlainNotes ==
    /\ Plain("FlushCompleted") \in Note /\ Plain("ShutdownCompleted") \in Note /\ Plain("Error") \in Note
    /\ \A what \in {"Flush", "Shutdown", "Resume", "PortSettingsChanged"} :
            Plain(what) \in Deferrable /\ Plain(what).what = what /\ Plain(what).buf = 0
    /\ \A what : Plain(what).what = what /\ Plain(what).buf = 0
  BY DEF Plain, Mesg, Note, Deferrable

LEMMA OnFlushDoes ==
    ASSUME NEW k, Sound(k), NEW m \in Deferrable, m.what = "Flush", k.state # "Flushing"
    PROVE  Sound(OnFlush(k, m)) /\ Absorbs(k, OnFlush(k, m), m)
<1> DEFINE k2 == OnFlush(k, m)
<1>0. k \in Codec /\ m.buf = 0
  BY DEF Sound, Deferrable
<1>1. CASE k.state = "Executing"
  <2> DEFINE e == [k EXCEPT !.state = "Flushing", !.active = FALSE, !.flushed = {}, !.missed = FALSE,
                        !.cmd = "Flush"]
  <2>1. k2 = e
    BY <1>0, <1>1 DEF OnFlush, Sends, Sound, Commanded, Codec
  <2>2. /\ e \in Codec /\ e.state = "Flushing" /\ e.active = FALSE /\ e.flushed = {} /\ e.cmd = "Flush"
        /\ e.in = k.in /\ e.out = k.out /\ e.post = k.post /\ e.deferred = k.deferred /\ e.bad = k.bad
        /\ e.ieos = k.ieos /\ e.res = k.res /\ e.oeos = k.oeos
    BY <1>0 DEF Codec, StateNames, Commands
  <2> HIDE DEF e, k2
  <2>3. Sound(e)
    <3>1. Commanded(e)
      BY <2>2 DEF Commanded
    <3>2. Resting(e)
      BY <1>1, <2>2 DEF Sound, Resting
    <3>3. Busy(e)
      BY <2>2 DEF Sound, Busy
    <3> QED
      BY <2>2, <3>1, <3>2, <3>3 DEF Sound
  <2>4. Absorbs(k, e, m)
    <3>1. \A b : Up(e, b) = Up(k, b) /\ Down(e, b) = Down(k, b)
      BY <2>2 DEF Up, Down
    <3>2. \A b : Is(m, "InputBufferFilled", b) = 0 /\ Is(m, "OutputBufferDrained", b) = 0
                 /\ Is(m, "Shutdown", b) = 0
      BY IsType
    <3>3. Is(m, "Flush", 0) = 1
      BY <1>0, IsType
    <3>4. One(e.state = "Flushing") = 1 /\ One(k.state = "Flushing") = 0
          /\ One(e.state \in Stopped) = 0 /\ One(k.state \in Stopped) = 0
      BY <1>1, <2>2 DEF One, Stopped
    <3>5. \A b : InSum(e, b) = InSum(k, b) /\ OutSum(e, b) = OutSum(k, b)
                 /\ InSum(k, b) \in Int /\ OutSum(k, b) \in Int
      BY <1>0, <2>2, <3>1, SumTypes DEF InSum, OutSum
    <3>6. FlushSum(e) = FlushSum(k) + 1
      BY <1>0, <2>2, <3>4, SumTypes DEF FlushSum
    <3>7. ShutdownSum(e) = ShutdownSum(k) /\ ShutdownSum(k) \in Int
      BY <1>0, <2>2, <3>4, SumTypes DEF ShutdownSum, Stopped
    <3> QED
      BY <3>2, <3>3, <3>5, <3>6, <3>7 DEF Absorbs
  <2> QED
    BY <2>1, <2>3, <2>4 DEF k2
<1>2. CASE k.state \in {"FlushingOutput", "OutputPortSettingsChanged"}
  <2>1. k2 = Defers(k, m)
    BY <1>2 DEF OnFlush
  <2> QED
    BY <1>0, <2>1, DefersIsSound, DefersAbsorbs
<1>3. CASE k.state \notin {"Executing", "FlushingOutput", "OutputPortSettingsChanged"}
  <2>1. k2 = Posts(k, Plain("FlushCompleted"))
    BY <1>3 DEF OnFlush
  <2> QED
    BY <1>0, <2>1, PlainNotes, PostsIsSound, AnswerAbsorbs
<1> QED
  BY <1>1, <1>2, <1>3

LEMMA OnShutdownDoes ==
    ASSUME NEW k, Sound(k), NEW m \in Deferrable, m.what = "Shutdown"
    PROVE  /\ Sound(OnShutdown(k, m)) /\ Absorbs(k, OnShutdown(k, m), m)
           /\ OnShutdown(k, m).state \in Stopped => OnShutdown(k, m).shutdown \/ OnShutdown(k, m) = k
<1> DEFINE k2 == OnShutdown(k, m)
<1>0. k \in Codec /\ m.buf = 0 /\ k.state \in StateNames
  BY DEF Sound, Deferrable, Codec
<1>1. CASE k.state = "Executing"
  <2> DEFINE e == [k EXCEPT !.state = "ExecutingToIdle", !.active = FALSE, !.shutdown = TRUE,
                            !.nowIdle = FALSE, !.cmd = "Idle"]
  <2>1. k2 = e
    BY <1>0, <1>1 DEF OnShutdown, Sends, Sound, Commanded, Codec
  <2>2. /\ e \in Codec /\ e.state = "ExecutingToIdle" /\ e.active = FALSE /\ e.nowIdle = FALSE
        /\ e.cmd = "Idle" /\ e.shutdown = TRUE
        /\ e.in = k.in /\ e.out = k.out /\ e.post = k.post /\ e.deferred = k.deferred /\ e.bad = k.bad
        /\ e.ieos = k.ieos /\ e.res = k.res /\ e.oeos = k.oeos
    BY <1>0 DEF Codec, StateNames, Commands
  <2> HIDE DEF e, k2
  <2>3. Sound(e)
    <3>1. Commanded(e)
      BY <2>2 DEF Commanded
    <3>2. Resting(e)
      BY <1>1, <2>2 DEF Sound, Resting
    <3>3. Busy(e)
      BY <2>2 DEF Sound, Busy
    <3> QED
      BY <2>2, <3>1, <3>2, <3>3 DEF Sound
  <2>4. Absorbs(k, e, m)
    <3>1. \A b : Up(e, b) = Up(k, b) /\ Down(e, b) = Down(k, b)
      BY <2>2 DEF Up, Down
    <3>2. \A b : Is(m, "InputBufferFilled", b) = 0 /\ Is(m, "OutputBufferDrained", b) = 0
                 /\ Is(m, "Flush", b) = 0
      BY IsType
    <3>3. Is(m, "Shutdown", 0) = 1
      BY <1>0, IsType
    <3>4. One(e.state = "Flushing") = 0 /\ One(k.state = "Flushing") = 0
          /\ One(e.state \in Stopped) = 1 /\ One(k.state \in Stopped) = 0
      BY <1>1, <2>2 DEF One, Stopped
    <3>5. \A b : InSum(e, b) = InSum(k, b) /\ OutSum(e, b) = OutSum(k, b)
                 /\ InSum(k, b) \in Int /\ OutSum(k, b) \in Int
      BY <1>0, <2>2, <3>1, SumTypes DEF InSum, OutSum
    <3>6. FlushSum(e) = FlushSum(k) /\ FlushSum(k) \in Int
      BY <1>0, <2>2, <3>4, SumTypes DEF FlushSum
    <3>7. ShutdownSum(e) = ShutdownSum(k) + 1
      BY <1>0, <2>2, <3>4, SumTypes DEF ShutdownSum, Stopped
    <3> QED
      BY <3>2, <3>3, <3>5, <3>6, <3>7 DEF Absorbs
  <2> QED
    BY <2>1, <2>2, <2>3, <2>4 DEF k2
<1>2. CASE k.state = "Uninitialized"
  <2>1. k2 = Posts(k, Plain("ShutdownCompleted"))
    BY <1>2 DEF OnShutdown
  <2>2. k2.state = k.state
    BY <1>0, <2>1, PlainNotes, PostsDoes DEF Codec
  <2> QED
    BY <1>0, <1>2, <2>1, <2>2, PlainNotes, PostsIsSound, AnswerAbsorbs DEF Stopped
<1>3. CASE k.state = "Loaded"
  <2> DEFINE u == [k EXCEPT !.state = "Uninitialized", !.shutdown = FALSE]
  <2>1. k2 = Posts(u, Plain("ShutdownCompleted"))
    BY <1>3 DEF OnShutdown, FreesNode
  <2>2. /\ u \in Codec /\ u.state = "Uninitialized" /\ u.in = k.in /\ u.out = k.out /\ u.post = k.post
        /\ u.deferred = k.deferred /\ u.bad = k.bad /\ u.cmd = k.cmd /\ u.ieos = k.ieos /\ u.res = k.res
    BY <1>0 DEF Codec, StateNames
  <2> HIDE DEF u
  <2>3. Sound(u)
    <3>1. Commanded(u)
      BY <1>3, <2>2 DEF Sound, Commanded
    <3>2. Resting(u)
      BY <2>2 DEF Resting
    <3>3. Busy(u)
      BY <2>2 DEF Sound, Busy
    <3> QED
      BY <2>2, <3>1, <3>2, <3>3 DEF Sound
  <2>4. Conserves(k, u)
    <3>1. Alike(k, u)
      BY <2>2 DEF Alike
    <3> QED
      BY <1>3, <2>2, <3>1, AlikeConserves DEF Stopped
  <2>5. Absorbs(u, Posts(u, Plain("ShutdownCompleted")), m)
    BY <1>0, <2>2, PlainNotes, AnswerAbsorbs
  <2>6. Absorbs(k, Posts(u, Plain("ShutdownCompleted")), m)
    BY <1>3, <2>2, <2>4, <2>5 DEF Absorbs, Conserves, Stopped
  <2>7. k2.state = u.state
    BY <2>1, <2>2, PlainNotes, PostsDoes DEF Codec
  <2> QED
    BY <2>1, <2>2, <2>3, <2>6, <2>7, PlainNotes, PostsIsSound DEF Stopped
<1>4. CASE k.state \in Stopped
  <2>1. k2 = k
    BY <1>4 DEF OnShutdown, Stopped
  <2>2. \A b : Is(m, "InputBufferFilled", b) = 0 /\ Is(m, "OutputBufferDrained", b) = 0 /\ Is(m, "Flush", b) = 0
    BY IsType
  <2>3. Absorbs(k, k, m)
    BY <1>0, <1>4, <2>2, SumTypes DEF Absorbs
  <2> QED
    BY <2>1, <2>3
<1>5. CASE k.state \notin {"Executing", "Uninitialized", "Loaded"} \cup Stopped
  <2>1. k2 = Defers(k, m)
    BY <1>5 DEF OnShutdown, Stopped
  <2>2. k2.state = k.state
    BY <1>0, <2>1, DefersDoes DEF Codec
  <2> QED
    BY <1>0, <1>5, <2>1, <2>2, DefersIsSound, DefersAbsorbs
<1> QED
  BY <1>1, <1>2, <1>3, <1>4, <1>5

LEMMA OnResumeDoes ==
    ASSUME NEW k, Sound(k), NEW m \in Deferrable, m.what = "Resume"
    PROVE  Sound(OnResume(k, m)) /\ Absorbs(k, OnResume(k, m), m)
<1> DEFINE k2 == OnResume(k, m)
<1>0. k \in Codec
  BY DEF Sound
<1>1. CASE k.state = "Executing"
  <2> DEFINE e == Resumed(k)
  <2>1. k2 = e
    BY <1>1 DEF OnResume
  <2>2. Resumable(k)
    BY <1>1 DEF Resumable, Sound, Resting, Busy
  <2>3. /\ e \in Codec
        /\ e = [k EXCEPT !.active = TRUE, !.in = e.in, !.out = e.out, !.post = e.post]
        /\ k.active => e = k
        /\ DOMAIN e.in = Inputs
        /\ ~k.active => /\ \A b \in DOMAIN e.out : e.out[b] # "us"
                        /\ k.res # "no" \/ \E b \in DOMAIN e.in : e.in[b] # "us"
        /\ Conserves(k, e)
    BY <2>2, ResumedDoes
  <2> HIDE DEF e
  <2>4. /\ e.state = k.state /\ e.active = TRUE /\ e.cmd = k.cmd /\ e.bad = k.bad /\ e.ieos = k.ieos
        /\ e.res = k.res
    BY <1>0, <2>3 DEF Codec
  <2>5. Sound(e)
    <3>1. CASE k.active
      BY <2>3, <3>1
    <3>2. CASE ~k.active
      <4>1. Commanded(e)
        BY <1>1, <2>4 DEF Sound, Commanded
      <4>2. Resting(e)
        BY <1>1, <2>3, <2>4 DEF Resting
      <4>3. Busy(e)
        BY <2>3, <2>4, <3>2 DEF Sound, Busy
      <4> QED
        BY <2>3, <2>4, <4>1, <4>2, <4>3 DEF Sound
    <3> QED
      BY <3>1, <3>2
  <2> QED
    BY <1>0, <2>1, <2>3, <2>5, AbsorbsNothing
<1>2. CASE k.state = "OutputPortSettingsChanged"
  <2>1. k2 = Defers(k, m)
    BY <1>2 DEF OnResume
  <2> QED
    BY <1>0, <2>1, DefersIsSound, DefersAbsorbs
<1>4. CASE k.state = "FlushingOutput"
  <2> DEFINE e == [k EXCEPT !.missed = TRUE]
  <2>1. k2 = e
    BY <1>4 DEF OnResume
  <2>2. /\ e \in Codec /\ e.state = k.state /\ e.active = k.active /\ e.flushed = k.flushed /\ e.cmd = k.cmd
        /\ e.in = k.in /\ e.out = k.out /\ e.post = k.post /\ e.deferred = k.deferred /\ e.bad = k.bad
        /\ e.ieos = k.ieos /\ e.res = k.res /\ e.oeos = k.oeos /\ e.nowIdle = k.nowIdle
    BY <1>0 DEF Codec
  <2> HIDE DEF e, k2
  <2>3. Sound(e)
    BY <2>2 DEF Sound, Commanded, Resting, AllOurs, Busy
  <2>4. Alike(k, e)
    BY <2>2 DEF Alike
  <2>5. Conserves(k, e)
    BY <2>2, <2>4, AlikeConserves DEF Stopped
  <2> QED
    BY <1>0, <2>1, <2>3, <2>5, AbsorbsNothing DEF k2
<1>3. CASE k.state \notin {"Executing", "OutputPortSettingsChanged", "FlushingOutput"}
  <2>1. k2 = k
    BY <1>3 DEF OnResume
  <2>2. Conserves(k, k)
    BY DEF Conserves
  <2> QED
    BY <1>0, <2>1, <2>2, AbsorbsNothing
<1> QED
  BY <1>1, <1>2, <1>3, <1>4

LEMMA OnPortChangedDoes ==
    ASSUME NEW k, Sound(k), NEW m \in Deferrable, m.what = "PortSettingsChanged"
    PROVE  Sound(OnPortChanged(k, m)) /\ Absorbs(k, OnPortChanged(k, m), m)
<1> DEFINE k2 == OnPortChanged(k, m)
<1>0. k \in Codec
  BY DEF Sound
<1>1. CASE k.state = "Executing"
  <2> DEFINE e == [k EXCEPT !.state = "FlushingOutput", !.flushed = {}, !.cmd = "FlushOutput"]
  <2>1. k2 = e
    BY <1>0, <1>1 DEF OnPortChanged, Sends, Sound, Commanded, Codec
  <2>2. /\ e \in Codec /\ e.state = "FlushingOutput" /\ e.active = k.active /\ e.flushed = {}
        /\ e.cmd = "FlushOutput"
        /\ e.in = k.in /\ e.out = k.out /\ e.post = k.post /\ e.deferred = k.deferred /\ e.bad = k.bad
        /\ e.ieos = k.ieos /\ e.res = k.res /\ e.oeos = k.oeos
    BY <1>0 DEF Codec, StateNames, Commands
  <2> HIDE DEF e, k2
  <2>3. Sound(e)
    <3>1. Commanded(e)
      BY <2>2 DEF Commanded
    <3>2. Resting(e)
      BY <1>1, <2>2 DEF Sound, Resting, AllOurs
    <3>3. Busy(e)
      BY <1>1, <2>2 DEF Sound, Busy
    <3> QED
      BY <2>2, <3>1, <3>2, <3>3 DEF Sound
  <2>4. Conserves(k, e)
    <3>1. Alike(k, e)
      BY <2>2 DEF Alike
    <3> QED
      BY <1>1, <2>2, <3>1, AlikeConserves DEF Stopped
  <2> QED
    BY <1>0, <2>1, <2>3, <2>4, AbsorbsNothing DEF k2
<1>2. CASE k.state \in {"Flushing", "FlushingOutput"}
  <2>1. k2 = Defers(k, m)
    BY <1>2 DEF OnPortChanged
  <2> QED
    BY <1>0, <2>1, DefersIsSound, DefersAbsorbs
<1>3. CASE k.state \notin {"Executing", "Flushing", "FlushingOutput"}
  <2>1. k2 = k
    BY <1>3 DEF OnPortChanged
  <2>2. Conserves(k, k)
    BY DEF Conserves
  <2> QED
    BY <1>0, <2>1, <2>2, AbsorbsNothing
<1> QED
  BY <1>1, <1>2, <1>3

LEMMA OnInputFilledDoes ==
    ASSUME NEW k, Sound(k), NEW m \in Deferrable, m.what = "InputBufferFilled",
           m.buf \in DOMAIN k.in, k.in[m.buf] = "up", k.state # "FlushingOutput"
    PROVE  /\ Sound(InputFilled(k, m)) /\ Absorbs(k, InputFilled(k, m), m)
           /\ InputFilled(k, m).state = k.state /\ InputFilled(k, m).shutdown = k.shutdown
<1> DEFINE e == InputFilled(k, m)
<1>0. k \in Codec
  BY DEF Sound
<1>1. TakesInput(k, e, m)
  BY <1>0, InputFilledDoes DEF Sound, Busy
<1> HIDE DEF e
<1>2. e \in Codec /\ Absorbs(k, e, m) /\ DOMAIN e.in = DOMAIN k.in
  BY <1>1 DEF TakesInput
<1>3. /\ e.state = k.state /\ e.active = k.active /\ e.cmd = k.cmd /\ e.bad = k.bad /\ e.oeos = k.oeos
      /\ e.out = k.out /\ e.flushed = k.flushed /\ e.nowIdle = k.nowIdle /\ e.shutdown = k.shutdown
  BY <1>0, <1>1 DEF TakesInput, Input, Codec
<1>4. Commanded(e)
  BY <1>3 DEF Sound, Commanded
<1>5. ~AllOurs(k)
  BY DEF AllOurs, Ours
<1>6. Resting(e)
  BY <1>2, <1>3, <1>5 DEF Sound, Resting
<1>7. Busy(e)
  <2>1. e.ieos => e.res # "no"
    BY <1>1 DEF TakesInput
  <2>2. e.active /\ e.state = "Executing" => e.oeos \/ \A b \in DOMAIN e.out : e.out[b] # "us"
    BY <1>3 DEF Sound, Busy
  <2>3. ASSUME e.active, e.state \in {"Executing", "FlushingOutput", "OutputPortSettingsChanged"}
        PROVE  e.res # "no" \/ \E b \in DOMAIN e.in : e.in[b] # "us"
    <3>1. CASE Again(k)
      BY <1>1, <3>1 DEF TakesInput
    <3>2. CASE ~Again(k)
      BY <1>1, <1>3, <2>3, <3>2 DEF Again
    <3> QED
      BY <3>1, <3>2
  <2> QED
    BY <2>1, <2>2, <2>3 DEF Busy
<1>8. Sound(e)
  BY <1>2, <1>3, <1>4, <1>6, <1>7 DEF Sound
<1> QED
  BY <1>2, <1>3, <1>8 DEF e

LEMMA DeliverDoes ==
    ASSUME Typed, NEW k, NEW q, Fits(k, q), q # <<>>, Head(q) \in Deferrable
    PROVE  Sound(Deliver(k, Head(q))) /\ Absorbs(k, Deliver(k, Head(q)), Head(q))
<1> DEFINE m == Head(q)
           k2 == Deliver(k, m)
<1>1. Sound(k) /\ k \in Codec
  BY DEF Fits, Sound
<1>2. /\ m.what = "InputBufferFilled" => m.buf \in DOMAIN k.in /\ k.in[m.buf] = "up"
      /\ m.what = "Flush" => k.state # "Flushing"
  BY HeadSays
<1>3. m.what \in {"Flush", "Shutdown", "Resume", "PortSettingsChanged", "InputBufferFilled"}
  BY DEF Deferrable
<1>4. m \in Deferrable
  OBVIOUS
<1> HIDE DEF m
<1>5. Sound(k2) /\ Absorbs(k, k2, m)
  <2>1. CASE m.what = "Flush"
    BY <1>1, <1>2, <1>4, <2>1, OnFlushDoes DEF Deliver
  <2>2. CASE m.what = "Shutdown"
    BY <1>1, <1>4, <2>2, OnShutdownDoes DEF Deliver
  <2>3. CASE m.what = "Resume"
    BY <1>1, <1>4, <2>3, OnResumeDoes DEF Deliver
  <2>4. CASE m.what = "PortSettingsChanged"
    BY <1>1, <1>4, <2>4, OnPortChangedDoes DEF Deliver
  <2>5. CASE m.what = "InputBufferFilled" /\ k.state = "FlushingOutput"
    BY <1>1, <1>4, <2>5, DefersIsSound, DefersAbsorbs DEF Deliver
  <2>6. CASE m.what = "InputBufferFilled" /\ k.state # "FlushingOutput"
    BY <1>1, <1>2, <1>4, <2>6, OnInputFilledDoes DEF Deliver
  <2> QED
    BY <1>3, <2>1, <2>2, <2>3, <2>4, <2>5, <2>6
<1> QED
  BY <1>5 DEF m

LEMMA DeliverFits ==
    ASSUME Typed, NEW k, NEW q, Fits(k, q), q # <<>>, Head(q) \in Deferrable
    PROVE  Fits(Deliver(k, Head(q)), Tail(q))
  BY DeliverDoes, FitsDelivered

-----------------------------------------------------------------------------
(*                 The deferred messages, one by one                        *)

(* The codecs that k becomes as those messages of q are delivered whose places are     *)
(* in s.                                                                     *)
Run(g, k, q, n, s) ==
    /\ g[0] = k
    /\ \A i \in 1 .. n : g[i] = IF i \in s THEN Deliver(g[i - 1], q[i]) ELSE g[i - 1]

LEMMA RunExists ==
    ASSUME NEW k, NEW q, NEW n \in Nat, NEW s
    PROVE  \E g : Run(g, k, q, n, s)
<1> DEFINE P == {j \in 0 .. n : \E g : Run(g, k, q, j, s)}
<1>1. 0 \in P
  <2> DEFINE g == [i \in 0 .. 0 |-> k]
  <2>1. Run(g, k, q, 0, s)
    BY DEF Run
  <2> QED
    BY <2>1
<1>2. ASSUME NEW j \in 0 .. n, j \in P, j < n
      PROVE  j + 1 \in P
  <2>1. PICK g : Run(g, k, q, j, s)
    BY <1>2
  <2> DEFINE x == IF j + 1 \in s THEN Deliver(g[j], q[j + 1]) ELSE g[j]
             h == [i \in 0 .. j + 1 |-> IF i = j + 1 THEN x ELSE g[i]]
  <2> HIDE DEF x
  <2>2. h[0] = k
    BY <2>1 DEF Run
  <2>3. ASSUME NEW i \in 1 .. j + 1
        PROVE  h[i] = IF i \in s THEN Deliver(h[i - 1], q[i]) ELSE h[i - 1]
    <3>1. CASE i = j + 1
      <4>1. i - 1 = j /\ h[j] = g[j] /\ h[i] = x
        BY <3>1
      <4> HIDE DEF h
      <4> QED
        BY <3>1, <4>1 DEF x
    <3>2. CASE i # j + 1
      <4>1. i \in 1 .. j /\ h[i] = g[i] /\ h[i - 1] = g[i - 1]
        BY <3>2
      <4>2. g[i] = IF i \in s THEN Deliver(g[i - 1], q[i]) ELSE g[i - 1]
        BY <2>1, <4>1 DEF Run
      <4> HIDE DEF h
      <4> QED
        BY <4>1, <4>2
    <3> QED
      BY <3>1, <3>2
  <2> HIDE DEF h
  <2>4. Run(h, k, q, j + 1, s)
    BY <2>2, <2>3 DEF Run
  <2> QED
    BY <1>2, <2>4
<1> HIDE DEF P
<1>3. \A j \in 0 .. n : j \in P
  BY <1>1, <1>2, NumberInduction
<1>4. n \in P
  BY <1>3
<1> QED
  BY <1>4 DEF P

(* Before a place that only one of them delivers, two runs do not differ.               *)
LEMMA RunsAgree ==
    ASSUME NEW k, NEW q, NEW n \in Nat, NEW s, NEW t, NEW g, NEW h, Run(g, k, q, n, s), Run(h, k, q, n, t),
           NEW e \in 0 .. n, \A i \in 1 .. e : i \in s <=> i \in t
    PROVE  g[e] = h[e]
<1> DEFINE P == {j \in 0 .. n : j <= e => g[j] = h[j]}
<1>1. 0 \in P
  BY DEF Run
<1>2. ASSUME NEW j \in 0 .. n, j \in P, j < n
      PROVE  j + 1 \in P
  <2> SUFFICES ASSUME j + 1 <= e PROVE g[j + 1] = h[j + 1]
    BY <1>2
  <2>1. j + 1 \in 1 .. n /\ j + 1 \in 1 .. e /\ (j + 1) - 1 = j /\ g[j] = h[j]
    BY <1>2
  <2>2. g[j + 1] = IF j + 1 \in s THEN Deliver(g[j], q[j + 1]) ELSE g[j]
    BY <2>1 DEF Run
  <2>3. h[j + 1] = IF j + 1 \in t THEN Deliver(h[j], q[j + 1]) ELSE h[j]
    BY <2>1 DEF Run
  <2> QED
    BY <2>1, <2>2, <2>3
<1> HIDE DEF P
<1>3. \A j \in 0 .. n : j \in P
  BY <1>1, <1>2, NumberInduction
<1> QED
  BY <1>3 DEF P

(* Behind the last place that is delivered, nothing changes.                          *)
LEMMA RunRests ==
    ASSUME NEW k, NEW q, NEW n \in Nat, NEW s, NEW g, Run(g, k, q, n, s),
           NEW e \in 0 .. n, \A i \in 1 .. n : i > e => i \notin s
    PROVE  g[n] = g[e]
<1> DEFINE P == {j \in 0 .. n : j >= e => g[j] = g[e]}
<1>1. 0 \in P
  OBVIOUS
<1>2. ASSUME NEW j \in 0 .. n, j \in P, j < n
      PROVE  j + 1 \in P
  <2>1. CASE j + 1 <= e
    <3>1. j + 1 = e \/ ~(j + 1 >= e)
      BY <2>1
    <3> QED
      BY <1>2, <3>1
  <2>2. CASE j + 1 > e
    <3>1. j + 1 \in 1 .. n /\ (j + 1) - 1 = j /\ g[j] = g[e]
      BY <1>2, <2>2
    <3>2. g[j + 1] = g[j]
      BY <2>2, <3>1 DEF Run
    <3> QED
      BY <1>2, <3>1, <3>2
  <2> QED
    BY <2>1, <2>2
<1> HIDE DEF P
<1>3. \A j \in 0 .. n : j \in P
  BY <1>1, <1>2, NumberInduction
<1> QED
  BY <1>3 DEF P

Latest(s) == CHOOSE i \in s : \A j \in s : i >= j

LEMMA LastPlace ==
    ASSUME NEW n \in Nat, NEW s \in SUBSET (1 .. n), s # {}
    PROVE  Latest(s) \in s /\ \A j \in s : Latest(s) >= j
<1>1. \E i \in s : \A j \in s : i >= j
  <2> DEFINE M == {i \in 0 .. n : n - i \in s}
  <2>1. PICK a \in s : TRUE
    OBVIOUS
  <2>2. n - a \in M
    BY <2>1
  <2>3. M \in SUBSET Nat /\ M # {}
    <3>1. M \in SUBSET Nat
      OBVIOUS
    <3> HIDE DEF M
    <3> QED
      BY <2>2, <3>1
  <2>4. PICK i \in M : \A j \in M : i <= j
    <3> HIDE DEF M
    <3> QED
      BY <2>3, LeastNumber
  <2>5. ASSUME NEW j \in s PROVE n - i >= j
    <3>1. n - j \in M
      OBVIOUS
    <3>2. i <= n - j /\ i \in 0 .. n
      BY <2>4, <3>1
    <3> QED
      BY <3>2
  <2> QED
    BY <2>4, <2>5
<1> QED
  BY <1>1 DEF Latest

(* The last message that a run delivers makes the difference to the run without it.        *)
LEMMA RunOfMore ==
    ASSUME NEW k, NEW q, NEW n \in Nat, NEW s \in SUBSET (1 .. n), s # {},
           NEW t, t = s \ {Latest(s)},
           NEW g, NEW h, Run(g, k, q, n, s), Run(h, k, q, n, t)
    PROVE  g[n] = Deliver(h[n], q[Latest(s)])
<1>0. PICK i : i = Latest(s)
  OBVIOUS
<1>1. i \in s /\ (\A j \in s : i >= j) /\ i \in 1 .. n /\ t = s \ {i}
  BY <1>0, LastPlace
<1>2. g[n] = g[i]
  <2>1. i \in 0 .. n /\ \A j \in 1 .. n : j > i => j \notin s
    BY <1>1
  <2> QED
    BY <2>1, RunRests
<1>3. g[i] = Deliver(g[i - 1], q[i])
  BY <1>1 DEF Run
<1>4. PICK e : e = i - 1
  OBVIOUS
<1>5. e \in 0 .. n /\ (\A j \in 1 .. e : j \in s <=> j \in t) /\ \A j \in 1 .. n : j > e => j \notin t
  BY <1>1, <1>4
<1>6. g[e] = h[e]
  BY <1>5, RunsAgree
<1>7. h[n] = h[e]
  BY <1>5, RunRests
<1> QED
  BY <1>0, <1>2, <1>3, <1>4, <1>6, <1>7

LEMMA RunOfNone ==
    ASSUME NEW k, NEW q, NEW n \in Nat, NEW g, Run(g, k, q, n, {})
    PROVE  g[n] = k
<1>1. 0 \in 0 .. n /\ \A j \in 1 .. n : j > 0 => j \notin {}
  OBVIOUS
<1>2. PICK s : s = {}
  OBVIOUS
<1>3. PICK e : e = 0
  OBVIOUS
<1>4. Run(g, k, q, n, s) /\ e \in 0 .. n /\ \A j \in 1 .. n : j > e => j \notin s
  BY <1>1, <1>2, <1>3
<1>5. g[n] = g[e]
  BY <1>4, RunRests
<1> QED
  BY <1>3, <1>5 DEF Run

(* FoldLeft by Deliver, as the loop it stands for.                                *)
Over(f, k, q) ==
    f = [s \in SUBSET DOMAIN q |->
            IF s = {} THEN k ELSE LET i == Latest(s) IN Deliver(f[s \ {i}], q[i])]

LEMMA OverExists ==
    ASSUME NEW E, NEW q \in Seq(E), NEW k
    PROVE  \E f : Over(f, k, q)
<1> DEFINE n == Len(q)
           run(s) == CHOOSE g : Run(g, k, q, n, s)
           f == [s \in SUBSET DOMAIN q |-> run(s)[n]]
<1>1. n \in Nat /\ DOMAIN q = 1 .. n
  BY LenProperties
<1> HIDE DEF n
<1>2. \A s : Run(run(s), k, q, n, s)
  BY <1>1, RunExists
<1>3. ASSUME NEW s \in SUBSET DOMAIN q
      PROVE  run(s)[n] = IF s = {} THEN k ELSE LET i == Latest(s) IN Deliver(f[s \ {i}], q[i])
  <2>1. CASE s = {}
    <3>1. Run(run(s), k, q, n, {})
      BY <1>2, <2>1
    <3> HIDE DEF run
    <3> QED
      BY <1>1, <2>1, <3>1, RunOfNone
  <2>2. CASE s # {}
    <3>1. PICK t : t = s \ {Latest(s)}
      OBVIOUS
    <3>2. s \in SUBSET (1 .. n) /\ t \in SUBSET DOMAIN q
      BY <1>1, <3>1
    <3>3. Run(run(s), k, q, n, s) /\ Run(run(t), k, q, n, t)
      BY <1>2
    <3>4. f[t] = run(t)[n]
      BY <3>2
    <3> HIDE DEF run, f
    <3>5. run(s)[n] = Deliver(run(t)[n], q[Latest(s)])
      BY <1>1, <2>2, <3>1, <3>2, <3>3, RunOfMore
    <3> QED
      BY <2>2, <3>1, <3>4, <3>5
  <2> QED
    BY <2>1, <2>2
<1>4. Over(f, k, q)
  <2> HIDE DEF run
  <2>1. \A s \in SUBSET DOMAIN q :
            f[s] = IF s = {} THEN k ELSE LET i == Latest(s) IN Deliver(f[s \ {i}], q[i])
    BY <1>3
  <2>2. f = [s \in SUBSET DOMAIN q |-> f[s]]
    OBVIOUS
  <2> HIDE DEF f
  <2> QED
    BY <2>1, <2>2 DEF Over
<1> QED
  BY <1>4

LEMMA FoldDelivers ==
    ASSUME NEW E, NEW q \in Seq(E), NEW k
    PROVE  \E g : /\ g[0] = k
                  /\ \A i \in 1 .. Len(q) : g[i] = Deliver(g[i - 1], q[i])
                  /\ FoldLeft(Deliver, k, q) = g[Len(q)]
<1> DEFINE f == CHOOSE h : Over(h, k, q)
           g == [i \in 0 .. Len(q) |-> f[1 .. i]]
<1>1. Over(f, k, q)
  BY OverExists
<1>2. FoldLeft(Deliver, k, q) = f[DOMAIN q]
  BY DEF FoldLeft, MapThenFoldSet, Max, Over, Latest
<1>3. Len(q) \in Nat /\ DOMAIN q = 1 .. Len(q)
  BY LenProperties
<1> HIDE DEF f
<1>4. \A s \in SUBSET DOMAIN q :
        f[s] = IF s = {} THEN k ELSE LET i == Latest(s) IN Deliver(f[s \ {i}], q[i])
  <2> DEFINE F == [s \in SUBSET DOMAIN q |->
                    IF s = {} THEN k ELSE LET i == Latest(s) IN Deliver(f[s \ {i}], q[i])]
  <2>1. f = F
    BY <1>1 DEF Over
  <2>2. \A s \in SUBSET DOMAIN q : F[s] = IF s = {} THEN k ELSE LET i == Latest(s) IN Deliver(f[s \ {i}], q[i])
    OBVIOUS
  <2> HIDE DEF F
  <2> QED
    BY <2>1, <2>2
<1>5. g[0] = k
  <2>1. g[0] = f[1 .. 0]
    <3>1. 0 \in 0 .. Len(q)
      BY <1>3
    <3> QED
      BY <3>1
  <2>2. 1 .. 0 = {}
    OBVIOUS
  <2> QED
    BY <1>4, <2>1, <2>2
<1>6. ASSUME NEW i \in 1 .. Len(q) PROVE g[i] = Deliver(g[i - 1], q[i])
  <2>1. g[i] = f[1 .. i] /\ g[i - 1] = f[1 .. i - 1]
    BY <1>3
  <2>2. 1 .. i \in SUBSET DOMAIN q /\ 1 .. i # {} /\ i \in Nat
    <3>1. i \in 1 .. i /\ i \in Nat /\ \A j \in 1 .. i : j \in 1 .. Len(q)
      BY <1>3
    <3> QED
      BY <1>3, <3>1
  <2>3. Latest(1 .. i) = i
    <3>1. Latest(1 .. i) \in 1 .. i /\ \A j \in 1 .. i : Latest(1 .. i) >= j
      BY <2>2, LastPlace
    <3> QED
      BY <2>2, <3>1
  <2>4. (1 .. i) \ {i} = 1 .. i - 1
    BY <2>2
  <2>5. f[1 .. i] = Deliver(f[(1 .. i) \ {i}], q[i])
    BY <1>4, <2>2, <2>3
  <2> HIDE DEF g
  <2> QED
    BY <2>1, <2>4, <2>5
<1>7. g[Len(q)] = f[DOMAIN q]
  BY <1>3
<1> HIDE DEF g
<1> QED
  BY <1>2, <1>5, <1>6, <1>7

(* A codec that enters Executing, before it looks at what it has put off.              *)
Opened(k) == [k EXCEPT !.state = "Executing", !.deferred = <<>>]

(* It takes the messages one by one from a queue in which the others are behind them.    *)
Enters(k, q, n, g, w) ==
    /\ n \in Nat /\ g[0] = Opened(k) /\ w[0] = k.deferred \o q
    /\ \A i \in 1 .. n : /\ w[i - 1] # <<>> /\ Head(w[i - 1]) \in Deferrable
                         /\ w[i] = Tail(w[i - 1]) /\ g[i] = Deliver(g[i - 1], Head(w[i - 1]))
                         /\ \E j \in DOMAIN k.deferred : Head(w[i - 1]) = k.deferred[j]
    /\ g[n] = EnterExecuting(k) /\ w[n] = q

LEMMA EntersByOne ==
    ASSUME NEW k \in Codec, NEW q \in Seq(Message)
    PROVE  \E n, g, w : Enters(k, q, n, g, w)
<1> DEFINE d == k.deferred
           n == Len(d)
           w == [i \in 0 .. n |-> SubSeq(d, i + 1, n) \o q]
<1>1. d \in Seq(Deferrable) /\ d \in Seq(Message)
  BY CodecFields, MessagesAreMessages
<1>2. n \in Nat /\ DOMAIN d = 1 .. n
  BY <1>1, LenProperties
<1>3. PICK g : /\ g[0] = Opened(k)
               /\ \A i \in 1 .. n : g[i] = Deliver(g[i - 1], d[i])
               /\ FoldLeft(Deliver, Opened(k), d) = g[n]
  BY <1>1, FoldDelivers
<1>4. g[n] = EnterExecuting(k)
  BY <1>3 DEF EnterExecuting, Opened
<1> HIDE DEF d
<1>5. w[0] = d \o q
  <2>1. SubSeq(d, 1, n) = d
    BY <1>1, SubSeqProperties
  <2>2. w[0] = SubSeq(d, 0 + 1, n) \o q
    BY <1>2
  <2>3. PICK e : e = 0 + 1
    OBVIOUS
  <2>4. e = 1
    BY <2>3
  <2> HIDE DEF n, w
  <2> QED
    BY <2>1, <2>2, <2>3, <2>4
<1>6. w[n] = q
  <2>1. SubSeq(d, n + 1, n) = <<>>
    BY <1>1, <1>2, SubSeqProperties, EmptySeq
  <2>2. <<>> \o q = q
    BY ConcatEmptySeq
  <2>3. w[n] = SubSeq(d, n + 1, n) \o q
    BY <1>2
  <2> QED
    BY <2>1, <2>2, <2>3
<1>7. ASSUME NEW i \in 1 .. n
      PROVE  w[i - 1] # <<>> /\ Head(w[i - 1]) = d[i] /\ w[i] = Tail(w[i - 1])
  <2> DEFINE s == SubSeq(d, i, n)
             t == SubSeq(d, i + 1, n)
  <2>1. w[i - 1] = s \o q /\ w[i] = t \o q
    <3>1. i - 1 \in 0 .. n /\ i \in 0 .. n /\ (i - 1) + 1 = i
      BY <1>2
    <3> QED
      BY <3>1
  <2>2. /\ s \in Seq(Message) /\ Len(s) = n - i + 1 /\ \A j \in 1 .. n - i + 1 : s[j] = d[i + j - 1]
        /\ t \in Seq(Message) /\ Len(t) = n - i /\ \A j \in 1 .. n - i : t[j] = d[i + j]
    <3>1. /\ s \in Seq(Message) /\ Len(s) = n - i + 1 /\ \A j \in 1 .. n - i + 1 : s[j] = d[i + j - 1]
      BY <1>1, <1>2, SubSeqProperties
    <3>2. /\ t \in Seq(Message) /\ Len(t) = n - (i + 1) + 1
          /\ \A j \in 1 .. n - (i + 1) + 1 : t[j] = d[(i + 1) + j - 1]
      <4>1. i + 1 \in 1 .. n + 1
        BY <1>2
      <4> QED
        BY <1>1, <1>2, <4>1, SubSeqProperties
    <3>3. n - (i + 1) + 1 = n - i /\ \A j \in 1 .. n - i : (i + 1) + j - 1 = i + j
      BY <1>2
    <3> QED
      BY <3>1, <3>2, <3>3
  <2> HIDE DEF s, t
  <2>3. /\ s \o q \in Seq(Message) /\ Len(s \o q) = n - i + 1 + Len(q)
        /\ \A j \in 1 .. n - i + 1 + Len(q) :
                (s \o q)[j] = IF j <= n - i + 1 THEN s[j] ELSE q[j - (n - i + 1)]
    <3>1. /\ s \o q \in Seq(Message) /\ Len(s \o q) = Len(s) + Len(q)
          /\ \A j \in 1 .. Len(s) + Len(q) : (s \o q)[j] = IF j <= Len(s) THEN s[j] ELSE q[j - Len(s)]
      BY <2>2, ConcatProperties
    <3>2. PICK e : e = Len(s)
      OBVIOUS
    <3> QED
      BY <2>2, <3>1, <3>2
  <2>4. /\ t \o q \in Seq(Message) /\ Len(t \o q) = n - i + Len(q)
        /\ \A j \in 1 .. n - i + Len(q) : (t \o q)[j] = IF j <= n - i THEN t[j] ELSE q[j - (n - i)]
    <3>1. /\ t \o q \in Seq(Message) /\ Len(t \o q) = Len(t) + Len(q)
          /\ \A j \in 1 .. Len(t) + Len(q) : (t \o q)[j] = IF j <= Len(t) THEN t[j] ELSE q[j - Len(t)]
      BY <2>2, ConcatProperties
    <3>2. PICK e : e = Len(t)
      OBVIOUS
    <3> QED
      BY <2>2, <3>1, <3>2
  <2>5. Len(q) \in Nat
    BY LenProperties
  <2> DEFINE u == s \o q
             v == t \o q
  <2> HIDE DEF u, v
  <2>6. /\ u \in Seq(Message) /\ Len(u) = n - i + 1 + Len(q)
        /\ \A j \in 1 .. n - i + 1 + Len(q) : u[j] = IF j <= n - i + 1 THEN s[j] ELSE q[j - (n - i + 1)]
        /\ v \in Seq(Message) /\ Len(v) = n - i + Len(q)
        /\ \A j \in 1 .. n - i + Len(q) : v[j] = IF j <= n - i THEN t[j] ELSE q[j - (n - i)]
    BY <2>3, <2>4 DEF u, v
  <2>7. u # <<>>
    BY <1>2, <2>5, <2>6, EmptySeq
  <2>8. Head(u) = d[i]
    <3>1. Head(u) = u[1] /\ 1 \in 1 .. n - i + 1 + Len(q) /\ 1 <= n - i + 1
      BY <1>2, <2>5, <2>6, <2>7, HeadTailProperties
    <3>2. u[1] = s[1] /\ s[1] = d[i + 1 - 1]
      BY <1>2, <2>2, <2>6, <3>1
    <3> QED
      BY <1>2, <3>1, <3>2
  <2>9. Tail(u) = v
    <3>1. /\ Tail(u) \in Seq(Message) /\ Len(Tail(u)) = Len(u) - 1
          /\ \A j \in 1 .. Len(Tail(u)) : Tail(u)[j] = u[j + 1]
      BY <2>6, <2>7, HeadTailProperties
    <3>2. Len(Tail(u)) = Len(v)
      BY <1>2, <2>5, <2>6, <3>1
    <3>3. ASSUME NEW j \in 1 .. Len(v) PROVE Tail(u)[j] = v[j]
      <4>1. Tail(u)[j] = u[j + 1] /\ j \in 1 .. n - i + Len(q) /\ j + 1 \in 1 .. n - i + 1 + Len(q)
        BY <1>2, <2>5, <2>6, <3>1, <3>2
      <4>2. CASE j <= n - i
        <5>1. u[j + 1] = s[j + 1] /\ v[j] = t[j] /\ j \in 1 .. n - i /\ j + 1 \in 1 .. n - i + 1
          BY <1>2, <2>6, <4>1, <4>2
        <5>2. s[j + 1] = d[i + (j + 1) - 1] /\ t[j] = d[i + j]
          <6>1. s[j + 1] = d[i + (j + 1) - 1]
            BY <2>2, <5>1
          <6>2. t[j] = d[i + j]
            BY <2>2, <5>1
          <6> QED
            BY <6>1, <6>2
        <5>3. i + (j + 1) - 1 = i + j
          BY <1>2, <5>1
        <5> QED
          BY <4>1, <5>1, <5>2, <5>3
      <4>3. CASE j > n - i
        <5>1. u[j + 1] = q[(j + 1) - (n - i + 1)] /\ v[j] = q[j - (n - i)]
              /\ (j + 1) - (n - i + 1) = j - (n - i)
          BY <1>2, <2>6, <4>1, <4>3
        <5> QED
          BY <4>1, <5>1
      <4>4. j <= n - i \/ j > n - i
        BY <1>2, <2>5, <4>1
      <4> QED
        BY <4>2, <4>3, <4>4
    <3> QED
      BY <2>6, <3>1, <3>2, <3>3, SeqEqual
  <2> QED
    BY <2>1, <2>7, <2>8, <2>9 DEF u, v
<1> HIDE DEF w, n
<1>8. \A i \in 1 .. n : d[i] \in Deferrable
  BY <1>1, <1>2, ElementOfSeq DEF n
<1>9. Enters(k, q, n, g, w)
  <2>1. ASSUME NEW i \in 1 .. n
        PROVE  /\ w[i - 1] # <<>> /\ Head(w[i - 1]) \in Deferrable
               /\ w[i] = Tail(w[i - 1]) /\ g[i] = Deliver(g[i - 1], Head(w[i - 1]))
               /\ \E j \in DOMAIN d : Head(w[i - 1]) = d[j]
    BY <1>2, <1>3, <1>7, <1>8
  <2> QED
    BY <1>2, <1>3, <1>4, <1>5, <1>6, <2>1 DEF Enters, d
<1> QED
  BY <1>2, <1>9

(* What the codec owes to a shutdown, as messages are handled.                       *)
LEMMA StopsAbsorbed ==
    ASSUME Typed, NEW k \in Codec, NEW k2 \in Codec, NEW q \in Seq(Message), q # <<>>, Stops(k, q),
           Absorbs(k, k2, Head(q)), k2.state \in Stopped => k2.shutdown
    PROVE  Stops(k2, Tail(q))
<1> DEFINE m == Head(q)
           r == Tail(q)
<1>1. m \in Message /\ r \in Seq(Message) /\ r \in Seq(AnyMessage) /\ q \in Seq(AnyMessage)
  BY HeadTailProperties, MessagesAreMessages
<1>2. HowMany(q, "Shutdown", 0) = Is(m, "Shutdown", 0) + HowMany(r, "Shutdown", 0)
  BY <1>1, HowManyHead
<1>3. HowMany(r, "Shutdown", 0) \in Nat /\ Is(m, "Shutdown", 0) \in Nat
  <2>1. HowMany(r, "Shutdown", 0) \in Nat
    BY <1>1, HowManyType
  <2>2. Is(m, "Shutdown", 0) \in Nat
    BY IsType
  <2> QED
    BY <2>1, <2>2
<1>4. HowMany(outbox, "ShutdownCompleted", 0) \in Nat
  BY HowManyType, MessagesAreMessages DEF Typed
<1>5. ShutdownSum(k) \in Nat
  BY SumTypes
<1> HIDE DEF m, r
<1>6. ShutdownSum(k) + HowMany(outbox, "ShutdownCompleted", 0) + HowMany(q, "Shutdown", 0)
        = One(player = "stopping")
  BY DEF Stops
<1>7. One(player = "stopping") \in 0 .. 1
  BY OneType
<1>8. ~(m.what = "Shutdown" /\ k.state \in Stopped)
  <2> SUFFICES ASSUME m.what = "Shutdown", k.state \in Stopped PROVE FALSE
    OBVIOUS
  <2>1. m.buf = 0
    BY <1>1 DEF Message
  <2>2. Is(m, "Shutdown", 0) = 1
    BY <2>1, IsType
  <2>3. One(k.state \in Stopped) = 1
    BY OneType
  <2>4. HowMany(k.post, "ShutdownCompleted", 0) \in Nat /\ HowMany(k.deferred, "Shutdown", 0) \in Nat
    BY SumTypes
  <2>5. ShutdownSum(k) >= 1
    BY <2>3, <2>4 DEF ShutdownSum, Stopped
  <2> QED
    BY <1>2, <1>3, <1>4, <1>5, <1>6, <1>7, <2>2, <2>5
<1>9. ShutdownSum(k2) = ShutdownSum(k) + Is(m, "Shutdown", 0)
  BY <1>8 DEF Absorbs, m
<1>10. ShutdownSum(k2) + HowMany(outbox, "ShutdownCompleted", 0) + HowMany(r, "Shutdown", 0)
        = One(player = "stopping")
  BY <1>2, <1>3, <1>4, <1>5, <1>6, <1>9
<1> QED
  BY <1>10 DEF Stops, Stopped, r

LEMMA StopsStill ==
    ASSUME NEW k, NEW q, NEW k2, Stops(k, q), Conserves(k, k2), k2.state \in Stopped => k2.shutdown
    PROVE  Stops(k2, q)
  BY DEF Stops, Conserves, Stopped

LEMMA DeliverKeepsFlag ==
    ASSUME NEW k, Sound(k), NEW m \in Deferrable,
           m.what = "InputBufferFilled" => m.buf \in DOMAIN k.in /\ k.in[m.buf] = "up",
           k.state \in Stopped => k.shutdown
    PROVE  Deliver(k, m).state \in Stopped => Deliver(k, m).shutdown
<1> DEFINE k2 == Deliver(k, m)
<1>1. k \in Codec
  BY DEF Sound
<1>2. m.what \in {"Flush", "Shutdown", "Resume", "PortSettingsChanged", "InputBufferFilled"}
  BY DEF Deferrable
<1>3. \A n \in Note : Posts(k, n).state = k.state /\ Posts(k, n).shutdown = k.shutdown
  BY <1>1, PostsDoes DEF Codec
<1>4. Defers(k, m).state = k.state /\ Defers(k, m).shutdown = k.shutdown
  BY <1>1, DefersDoes DEF Codec
<1>6. CASE m.what = "Flush"
  <2>1. k2 = OnFlush(k, m)
    BY <1>6 DEF Deliver
  <2>2. CASE k.state = "Executing"
    <3>1. k2.state = "Flushing"
      BY <1>1, <2>1, <2>2 DEF OnFlush, Sends, Sound, Commanded, Codec
    <3> QED
      BY <3>1 DEF Stopped
  <2>3. CASE k.state # "Executing"
    <3>1. k2 \in {Defers(k, m), k, Posts(k, Plain("FlushCompleted"))}
      BY <2>1, <2>3 DEF OnFlush
    <3> HIDE DEF k2
    <3>2. k2.state = k.state /\ k2.shutdown = k.shutdown
      BY <1>3, <1>4, <3>1, PlainNotes
    <3>3. k2.state \in Stopped => k2.shutdown
      BY <3>2
    <3> QED
      BY <3>3 DEF k2
  <2> QED
    BY <2>2, <2>3
<1>7. CASE m.what = "Shutdown"
  BY <1>7, OnShutdownDoes DEF Deliver
<1>8. CASE m.what = "Resume"
  <2>1. k2 = OnResume(k, m)
    BY <1>8 DEF Deliver
  <2>2. CASE k.state = "Executing"
    <3>1. Resumable(k)
      BY <2>2 DEF Resumable, Sound, Resting, Busy
    <3>2. k2 = Resumed(k)
      BY <2>1, <2>2 DEF OnResume
    <3>3. Resumed(k).state = k.state
      <4>1. PICK e : e = Resumed(k)
        OBVIOUS
      <4>2. e = [k EXCEPT !.active = TRUE, !.in = e.in, !.out = e.out, !.post = e.post]
        BY <3>1, <4>1, ResumedDoes
      <4> QED
        BY <1>1, <4>1, <4>2 DEF Codec
    <3> QED
      BY <2>2, <3>2, <3>3 DEF Stopped
  <2>3. CASE k.state # "Executing"
    <3>1. k2 \in {Defers(k, m), k, [k EXCEPT !.missed = TRUE]}
      BY <2>1, <2>3 DEF OnResume
    <3> HIDE DEF k2
    <3>2. k2.state = k.state /\ k2.shutdown = k.shutdown
      BY <1>1, <1>4, <3>1 DEF Codec
    <3>3. k2.state \in Stopped => k2.shutdown
      BY <3>2
    <3> QED
      BY <3>3 DEF k2
  <2> QED
    BY <2>2, <2>3
<1>9. CASE m.what = "PortSettingsChanged"
  <2>1. k2 = OnPortChanged(k, m)
    BY <1>9 DEF Deliver
  <2>2. CASE k.state = "Executing"
    <3>1. k2.state = "FlushingOutput"
      BY <1>1, <2>1, <2>2 DEF OnPortChanged, Sends, Sound, Commanded, Codec
    <3> QED
      BY <3>1 DEF Stopped
  <2>3. CASE k.state # "Executing"
    <3>1. k2 \in {Defers(k, m), k}
      BY <2>1, <2>3 DEF OnPortChanged
    <3> HIDE DEF k2
    <3>2. k2.state = k.state /\ k2.shutdown = k.shutdown
      BY <1>4, <3>1
    <3>3. k2.state \in Stopped => k2.shutdown
      BY <3>2
    <3> QED
      BY <3>3 DEF k2
  <2> QED
    BY <2>2, <2>3
<1>10. CASE m.what = "InputBufferFilled"
  <2>1. CASE k.state = "FlushingOutput"
    <3>1. k2 = Defers(k, m)
      BY <1>10, <2>1 DEF Deliver
    <3> QED
      BY <1>4, <2>1, <3>1
  <2>2. CASE k.state # "FlushingOutput"
    <3>1. k2 = InputFilled(k, m)
      BY <1>10, <2>2 DEF Deliver
    <3> QED
      BY <1>10, <2>2, <3>1, OnInputFilledDoes
  <2> QED
    BY <2>1, <2>2
<1> QED
  BY <1>2, <1>6, <1>7, <1>8, <1>9, <1>10

LEMMA StopsDelivered ==
    ASSUME Typed, NEW k, NEW q, Fits(k, q), q # <<>>, Head(q) \in Deferrable, Stops(k, q)
    PROVE  Stops(Deliver(k, Head(q)), Tail(q))
<1>1. Sound(k) /\ k \in Codec /\ q \in Seq(Message) /\ (k.state \in Stopped => k.shutdown)
  BY DEF Fits, Balanced, Sound, Stops, Stopped
<1>2. Sound(Deliver(k, Head(q))) /\ Absorbs(k, Deliver(k, Head(q)), Head(q))
  BY DeliverDoes
<1>3. Head(q).what = "InputBufferFilled" => Head(q).buf \in DOMAIN k.in /\ k.in[Head(q).buf] = "up"
  BY HeadSays
<1>4. Deliver(k, Head(q)).state \in Stopped => Deliver(k, Head(q)).shutdown
  BY <1>1, <1>3, DeliverKeepsFlag
<1>5. Deliver(k, Head(q)) \in Codec
  BY <1>2 DEF Sound
<1> QED
  BY <1>1, <1>2, <1>4, <1>5, StopsAbsorbed

-----------------------------------------------------------------------------
(*                         Entering Executing                               *)

(* The messages that were put off are waiting again.                              *)
LEMMA OpenedBalance ==
    ASSUME NEW k \in Codec, NEW q \in Seq(Message)
    PROVE  /\ Opened(k) \in Codec /\ k.deferred \o q \in Seq(Message)
           /\ \A b \in Inputs : InSum(Opened(k), b) + HowMany(k.deferred \o q, "InputBufferFilled", b)
                                    = InSum(k, b) + HowMany(q, "InputBufferFilled", b)
           /\ \A b \in Outputs : OutSum(Opened(k), b) + HowMany(k.deferred \o q, "OutputBufferDrained", b)
                                    = OutSum(k, b) + HowMany(q, "OutputBufferDrained", b)
           /\ FlushSum(Opened(k)) + HowMany(k.deferred \o q, "Flush", 0)
                  = FlushSum(k) + HowMany(q, "Flush", 0) - One(k.state = "Flushing")
           /\ ShutdownSum(Opened(k)) + HowMany(k.deferred \o q, "Shutdown", 0)
                  = ShutdownSum(k) + HowMany(q, "Shutdown", 0) - One(k.state \in Stopped)
<1> DEFINE e == Opened(k)
           d == k.deferred
<1>1. d \in Seq(Deferrable) /\ d \in Seq(Message) /\ d \in Seq(AnyMessage) /\ q \in Seq(AnyMessage)
  BY CodecFields, MessagesAreMessages
<1>2. /\ e \in Codec /\ e.state = "Executing" /\ e.deferred = <<>> /\ e.in = k.in /\ e.out = k.out
      /\ e.post = k.post
  BY EmptySeq DEF Opened, Codec, StateNames
<1>3. \A what, buf : /\ HowMany(d \o q, what, buf) = HowMany(d, what, buf) + HowMany(q, what, buf)
                     /\ HowMany(<<>>, what, buf) = 0
                     /\ HowMany(q, what, buf) \in Nat
  BY <1>1, HowManyJoins, HowManyEmpty, HowManyType
<1>4. \A what, buf : HowMany(k.post, what, buf) \in Nat /\ HowMany(k.deferred, what, buf) \in Nat
  BY SumTypes
<1>5. \A b : Up(e, b) = Up(k, b) /\ Down(e, b) = Down(k, b) /\ Up(k, b) \in Int /\ Down(k, b) \in Int
  <2>1. \A b : Up(k, b) \in Int /\ Down(k, b) \in Int
    BY SumTypes
  <2> HIDE DEF e
  <2>2. \A b : Up(e, b) = Up(k, b) /\ Down(e, b) = Down(k, b)
    BY <1>2 DEF Up, Down
  <2> QED
    BY <2>1, <2>2
<1>6. \A b : HowMany(d, "OutputBufferDrained", b) = 0
  <2> SUFFICES ASSUME NEW b PROVE HowMany(d, "OutputBufferDrained", b) = 0
    OBVIOUS
  <2>1. \A i \in 1 .. Len(d) : d[i] \in Deferrable
    BY <1>1, ElementOfSeq
  <2>2. \A i \in 1 .. Len(d) : d[i] \notin Of("OutputBufferDrained", b)
    BY <2>1 DEF Deferrable, Of
  <2>3. Hits(d, Of("OutputBufferDrained", b)) = 0
    BY <1>1, <2>2, HitsNone
  <2> QED
    BY <1>1, <2>3, HowManyIsHits
<1>7. /\ One(e.state = "Flushing") = 0 /\ One(e.state \in Stopped) = 0
      /\ One(k.state = "Flushing") \in Nat /\ One(k.state \in Stopped) \in Nat
  BY <1>2, OneType DEF One, Stopped
<1>8. d \o q \in Seq(Message)
  BY <1>1, ConcatProperties
<1> DEFINE w == d \o q
<1> HIDE DEF w
<1>9. \A what, buf : HowMany(w, what, buf) = HowMany(d, what, buf) + HowMany(q, what, buf)
  BY <1>3 DEF w
<1> HIDE DEF e
<1>10. ASSUME NEW b \in Inputs
       PROVE  InSum(e, b) + HowMany(w, "InputBufferFilled", b) = InSum(k, b) + HowMany(q, "InputBufferFilled", b)
  BY <1>2, <1>3, <1>4, <1>5, <1>9 DEF InSum
<1>11. ASSUME NEW b \in Outputs
       PROVE  OutSum(e, b) + HowMany(w, "OutputBufferDrained", b) = OutSum(k, b) + HowMany(q, "OutputBufferDrained", b)
  BY <1>2, <1>3, <1>4, <1>5, <1>6, <1>9 DEF OutSum
<1>12. FlushSum(e) + HowMany(w, "Flush", 0) = FlushSum(k) + HowMany(q, "Flush", 0) - One(k.state = "Flushing")
  BY <1>2, <1>3, <1>4, <1>7, <1>9 DEF FlushSum
<1>13. ShutdownSum(e) + HowMany(w, "Shutdown", 0)
            = ShutdownSum(k) + HowMany(q, "Shutdown", 0) - One(k.state \in Stopped)
  BY <1>2, <1>3, <1>4, <1>7, <1>9 DEF ShutdownSum, Stopped
<1> QED
  BY <1>2, <1>8, <1>10, <1>11, <1>12, <1>13 DEF e, w

(* What k owes, when it leaves Flushing for Executing.                              *)
Owes(k, q) ==
    /\ q \in Seq(Message)
    /\ \A b \in Inputs :
            InSum(k, b) + HowMany(outbox, "FillThisBuffer", b) + One(b \in held.in)
                + HowMany(q, "InputBufferFilled", b) = 0
    /\ \A b \in Outputs :
            OutSum(k, b) + HowMany(outbox, "DrainThisBuffer", b) + One(b \in held.out)
                + HowMany(q, "OutputBufferDrained", b) = 0
    /\ FlushSum(k) + HowMany(outbox, "FlushCompleted", 0) + HowMany(q, "Flush", 0)
            = One(player = "flushing") + One(k.state = "Flushing")

LEMMA OpenedFits ==
    ASSUME Typed, NEW k \in Codec, NEW q, Owes(k, q), Sound(Opened(k))
    PROVE  /\ Fits(Opened(k), k.deferred \o q)
           /\ Stops(k, q) /\ k.state \notin Stopped => Stops(Opened(k), k.deferred \o q)
<1> DEFINE e == Opened(k)
           w == k.deferred \o q
<1>1. q \in Seq(Message) /\ q \in Seq(AnyMessage)
  BY MessagesAreMessages DEF Owes
<1>2. /\ e \in Codec /\ w \in Seq(Message)
      /\ \A b \in Inputs : InSum(e, b) + HowMany(w, "InputBufferFilled", b)
                               = InSum(k, b) + HowMany(q, "InputBufferFilled", b)
      /\ \A b \in Outputs : OutSum(e, b) + HowMany(w, "OutputBufferDrained", b)
                               = OutSum(k, b) + HowMany(q, "OutputBufferDrained", b)
      /\ FlushSum(e) + HowMany(w, "Flush", 0) = FlushSum(k) + HowMany(q, "Flush", 0) - One(k.state = "Flushing")
      /\ ShutdownSum(e) + HowMany(w, "Shutdown", 0)
             = ShutdownSum(k) + HowMany(q, "Shutdown", 0) - One(k.state \in Stopped)
  BY <1>1, OpenedBalance
<1>3. e.state = "Executing"
  BY DEF Opened, Codec
<1>4. Sound(e)
  OBVIOUS
<1> HIDE DEF e, w
<1>5. \A what, buf : HowMany(outbox, what, buf) \in Nat
  BY HowManyType, MessagesAreMessages DEF Typed
<1>6. \A what, buf : HowMany(q, what, buf) \in Nat
  BY <1>1, HowManyType
<1>7. \A what, buf : HowMany(w, what, buf) \in Nat
  BY <1>2, HowManyType, MessagesAreMessages
<1>8. ASSUME NEW b \in Inputs
      PROVE  InSum(e, b) + HowMany(outbox, "FillThisBuffer", b) + One(b \in held.in)
                + HowMany(w, "InputBufferFilled", b) = 0
  <2>1. InSum(k, b) + HowMany(outbox, "FillThisBuffer", b) + One(b \in held.in)
                + HowMany(q, "InputBufferFilled", b) = 0
    BY DEF Owes
  <2>2. InSum(k, b) \in Int /\ InSum(e, b) \in Int /\ One(b \in held.in) \in Nat
    BY <1>2, SumTypes, OneType
  <2> QED
    BY SMTT(60), <1>2, <1>5, <1>6, <1>7, <2>1, <2>2
<1>9. ASSUME NEW b \in Outputs
      PROVE  OutSum(e, b) + HowMany(outbox, "DrainThisBuffer", b) + One(b \in held.out)
                + HowMany(w, "OutputBufferDrained", b) = 0
  <2>1. OutSum(k, b) + HowMany(outbox, "DrainThisBuffer", b) + One(b \in held.out)
                + HowMany(q, "OutputBufferDrained", b) = 0
    BY DEF Owes
  <2>2. OutSum(k, b) \in Int /\ OutSum(e, b) \in Int /\ One(b \in held.out) \in Nat
    BY <1>2, SumTypes, OneType
  <2> QED
    BY SMTT(60), <1>2, <1>5, <1>6, <1>7, <2>1, <2>2
<1>10. FlushSum(e) + HowMany(outbox, "FlushCompleted", 0) + HowMany(w, "Flush", 0) = One(player = "flushing")
  <2>1. FlushSum(k) + HowMany(outbox, "FlushCompleted", 0) + HowMany(q, "Flush", 0)
            = One(player = "flushing") + One(k.state = "Flushing")
    BY DEF Owes
  <2>2. FlushSum(k) \in Nat /\ FlushSum(e) \in Nat /\ One(k.state = "Flushing") \in Nat
        /\ One(player = "flushing") \in Nat
    BY <1>2, SumTypes, OneType
  <2>3. /\ HowMany(outbox, "FlushCompleted", 0) \in Nat /\ HowMany(q, "Flush", 0) \in Nat
        /\ HowMany(w, "Flush", 0) \in Nat
    BY <1>5, <1>6, <1>7
  <2>4. FlushSum(e) + HowMany(w, "Flush", 0)
            = FlushSum(k) + HowMany(q, "Flush", 0) - One(k.state = "Flushing")
    BY <1>2
  <2>5. PICK fk \in Nat, fe \in Nat, x \in Nat, y \in Nat, o \in Nat, hq \in Nat, hw \in Nat :
            /\ fk = FlushSum(k) /\ fe = FlushSum(e)
            /\ x = One(player = "flushing") /\ y = One(k.state = "Flushing")
            /\ o = HowMany(outbox, "FlushCompleted", 0)
            /\ hq = HowMany(q, "Flush", 0) /\ hw = HowMany(w, "Flush", 0)
    BY <2>2, <2>3
  <2>6. fk + o + hq = x + y /\ fe + hw = fk + hq - y
    BY <2>1, <2>4, <2>5
  <2>7. fe + o + hw = x
    BY <2>6
  <2> QED
    BY <2>5, <2>7
<1>11. ASSUME Stops(k, q), k.state \notin Stopped PROVE Stops(e, w)
  <2>1. ShutdownSum(k) + HowMany(outbox, "ShutdownCompleted", 0) + HowMany(q, "Shutdown", 0)
            = One(player = "stopping")
    BY <1>11 DEF Stops
  <2>2. ShutdownSum(k) \in Nat /\ ShutdownSum(e) \in Nat /\ One(k.state \in Stopped) = 0
    BY <1>2, <1>11, SumTypes, OneType
  <2>3. ShutdownSum(e) + HowMany(outbox, "ShutdownCompleted", 0) + HowMany(w, "Shutdown", 0)
            = One(player = "stopping")
    BY <1>2, <1>5, <1>6, <1>7, <2>1, <2>2
  <2> QED
    BY <1>3, <2>3 DEF Stops
<1> QED
  BY <1>2, <1>4, <1>8, <1>9, <1>10, <1>11 DEF Fits, Balanced, e, w

LEMMA EnterFits ==
    ASSUME Typed, NEW k \in Codec, NEW q, Owes(k, q), Sound(Opened(k))
    PROVE  /\ Fits(EnterExecuting(k), q)
           /\ Stops(k, q) /\ k.state \notin Stopped => Stops(EnterExecuting(k), q)
<1>1. q \in Seq(Message)
  BY DEF Owes
<1>2a. PICK n, g, w : Enters(k, q, n, g, w)
  BY <1>1, EntersByOne
<1>2. n \in Nat /\ Enters(k, q, n, g, w)
  BY <1>2a DEF Enters
<1> DEFINE S == Stops(k, q) /\ k.state \notin Stopped
           P == {i \in 0 .. n : Fits(g[i], w[i]) /\ (S => Stops(g[i], w[i]))}
<1>3. 0 \in P
  <2>1. g[0] = Opened(k) /\ w[0] = k.deferred \o q
    BY <1>2 DEF Enters
  <2>2. Fits(g[0], w[0]) /\ (S => Stops(g[0], w[0]))
    BY <2>1, OpenedFits
  <2> HIDE DEF S
  <2>3. 0 \in 0 .. n
    BY <1>2
  <2> QED
    BY <2>2, <2>3
<1>4. ASSUME NEW i \in 0 .. n, i \in P, i < n
      PROVE  i + 1 \in P
  <2>1. i + 1 \in 1 .. n /\ (i + 1) - 1 = i
    BY <1>2, <1>4
  <2>2. /\ w[i] # <<>> /\ Head(w[i]) \in Deferrable
        /\ w[i + 1] = Tail(w[i]) /\ g[i + 1] = Deliver(g[i], Head(w[i]))
    BY <1>2, <2>1 DEF Enters
  <2>3. Fits(g[i], w[i]) /\ (S => Stops(g[i], w[i]))
    BY <1>4
  <2> HIDE DEF S
  <2>4. Fits(g[i + 1], w[i + 1])
    BY <2>2, <2>3, DeliverFits
  <2>5. S => Stops(g[i + 1], w[i + 1])
    BY <2>2, <2>3, StopsDelivered
  <2> QED
    BY <2>1, <2>4, <2>5
<1> HIDE DEF P
<1>5. \A i \in 0 .. n : i \in P
  BY <1>2, <1>3, <1>4, NumberInduction
<1>6. n \in P
  BY <1>2, <1>5
<1> QED
  BY <1>2, <1>6 DEF P, Enters


(* What a note adds to each balance.                                          *)
LEMMA NoteAdds ==
    ASSUME NEW k \in Codec, NEW m \in Note
    PROVE  /\ \A b : /\ InSum(Posts(k, m), b) = InSum(k, b) + Is(m, "FillThisBuffer", b)
                     /\ OutSum(Posts(k, m), b) = OutSum(k, b) + Is(m, "DrainThisBuffer", b)
           /\ FlushSum(Posts(k, m)) = FlushSum(k) + Is(m, "FlushCompleted", 0)
           /\ ShutdownSum(Posts(k, m)) = ShutdownSum(k) + Is(m, "ShutdownCompleted", 0)
<1> DEFINE k2 == Posts(k, m)
<1>1. /\ k2 \in Codec /\ k2 = [k EXCEPT !.post = Append(k.post, m)]
      /\ \A what, buf : HowMany(k2.post, what, buf) = HowMany(k.post, what, buf) + Is(m, what, buf)
  BY PostsDoes
<1> HIDE DEF k2
<1>2. k2.in = k.in /\ k2.out = k.out /\ k2.deferred = k.deferred /\ k2.state = k.state
  BY <1>1 DEF Codec
<1>3. \A b : Up(k2, b) = Up(k, b) /\ Down(k2, b) = Down(k, b)
  BY <1>2 DEF Up, Down
<1>4. \A what, buf : /\ HowMany(k.post, what, buf) \in Nat /\ HowMany(k.deferred, what, buf) \in Nat
                     /\ Is(m, what, buf) \in Nat
  BY SumTypes, IsType
<1>5. \A b : Up(k, b) \in Nat /\ Down(k, b) \in Nat
  BY SumTypes
<1>6. \A b : /\ InSum(k2, b) = InSum(k, b) + Is(m, "FillThisBuffer", b)
             /\ OutSum(k2, b) = OutSum(k, b) + Is(m, "DrainThisBuffer", b)
  <2> SUFFICES ASSUME NEW b
               PROVE  /\ InSum(k2, b) = InSum(k, b) + Is(m, "FillThisBuffer", b)
                      /\ OutSum(k2, b) = OutSum(k, b) + Is(m, "DrainThisBuffer", b)
    OBVIOUS
  <2>1. /\ HowMany(k2.post, "FillThisBuffer", b) = HowMany(k.post, "FillThisBuffer", b) + Is(m, "FillThisBuffer", b)
        /\ HowMany(k2.post, "DrainThisBuffer", b) = HowMany(k.post, "DrainThisBuffer", b) + Is(m, "DrainThisBuffer", b)
    BY <1>1
  <2>2. /\ HowMany(k.post, "FillThisBuffer", b) \in Nat /\ HowMany(k.post, "DrainThisBuffer", b) \in Nat
        /\ HowMany(k.deferred, "InputBufferFilled", b) \in Nat
        /\ Is(m, "FillThisBuffer", b) \in Nat /\ Is(m, "DrainThisBuffer", b) \in Nat
    BY <1>4
  <2>3. Up(k2, b) = Up(k, b) /\ Down(k2, b) = Down(k, b) /\ Up(k, b) \in Nat /\ Down(k, b) \in Nat
    BY <1>3, <1>5
  <2> QED
    BY <1>2, <2>1, <2>2, <2>3 DEF InSum, OutSum
<1>7. One(k.state = "Flushing") \in Nat /\ One(k.state \in {"ExecutingToIdle", "IdleToLoaded"}) \in Nat
  BY OneType
<1>8. FlushSum(k2) = FlushSum(k) + Is(m, "FlushCompleted", 0)
  BY <1>1, <1>2, <1>4, <1>7 DEF FlushSum
<1>9. ShutdownSum(k2) = ShutdownSum(k) + Is(m, "ShutdownCompleted", 0)
  BY <1>1, <1>2, <1>4, <1>7 DEF ShutdownSum
<1> QED
  BY <1>6, <1>8, <1>9 DEF k2

(* A note that no balance counts.                                             *)
LEMMA NoteConserves ==
    ASSUME NEW k \in Codec, NEW m \in Note, m.what \in {"Error", "EOS"}
    PROVE  Conserves(k, Posts(k, m))
<1>1. \A buf : /\ Is(m, "FillThisBuffer", buf) = 0 /\ Is(m, "DrainThisBuffer", buf) = 0
               /\ Is(m, "FlushCompleted", buf) = 0 /\ Is(m, "ShutdownCompleted", buf) = 0
  BY IsType
<1>2. \A b : InSum(k, b) \in Int /\ OutSum(k, b) \in Int
  BY SumTypes
<1>3. FlushSum(k) \in Int /\ ShutdownSum(k) \in Int
  BY SumTypes
<1>4. \A b : InSum(Posts(k, m), b) = InSum(k, b) /\ OutSum(Posts(k, m), b) = OutSum(k, b)
  BY <1>1, <1>2, NoteAdds
<1>5. FlushSum(Posts(k, m)) = FlushSum(k)
  <2>1. FlushSum(Posts(k, m)) = FlushSum(k) + Is(m, "FlushCompleted", 0)
    BY NoteAdds
  <2> QED
    BY <1>1, <1>3, <2>1
<1>6. ShutdownSum(Posts(k, m)) = ShutdownSum(k)
  <2>1. ShutdownSum(Posts(k, m)) = ShutdownSum(k) + Is(m, "ShutdownCompleted", 0)
    BY NoteAdds
  <2> QED
    BY <1>1, <1>3, <2>1
<1> QED
  BY <1>4, <1>5, <1>6 DEF Conserves

-----------------------------------------------------------------------------
(*                         Changes of state                                 *)

(* A codec whose flush is complete, not yet in Executing.                                         *)
FlushAnswer(k) ==
    Posts([k EXCEPT !.ieos = FALSE, !.oeos = FALSE, !.res = "no"], Plain("FlushCompleted"))

LEMMA FlushOpens ==
    ASSUME Typed, NEW k, NEW q, Fits(k, q), k.state = "Flushing", k.flushed = {"in", "out"}, AllOurs(k),
           NEW p, p = FlushAnswer(k)
    PROVE  /\ p \in Codec /\ Owes(p, q) /\ Sound(Opened(p)) /\ (Stops(k, q) => Stops(p, q))
           /\ p.state = k.state /\ p.active = k.active /\ p.deferred = k.deferred /\ p.out = k.out
           /\ p.oeos = FALSE /\ p.ending = k.ending /\ p.flushed = k.flushed /\ p.missed = k.missed
           /\ p.post = Append(k.post, Plain("FlushCompleted"))
<1>1. k \in Codec /\ Sound(k)
  BY DEF Fits, Sound
<1> DEFINE u == [k EXCEPT !.ieos = FALSE, !.oeos = FALSE, !.res = "no"]
           m == Plain("FlushCompleted")
<1>2. /\ u \in Codec /\ u.state = k.state /\ u.in = k.in /\ u.out = k.out /\ u.post = k.post
      /\ u.deferred = k.deferred /\ u.bad = k.bad /\ u.cmd = k.cmd /\ u.ieos = FALSE /\ u.res = "no"
      /\ u.active = k.active /\ u.oeos = FALSE /\ u.ending = k.ending /\ u.flushed = k.flushed
      /\ u.missed = k.missed
  BY <1>1 DEF Codec
<1>3. m \in Note /\ m.what = "FlushCompleted" /\ m.buf = 0
  BY PlainNotes
<1>4. p = Posts(u, m)
  BY DEF FlushAnswer
<1> HIDE DEF u, m
<1>5. Conserves(k, u)
  <2>1. Alike(k, u)
    BY <1>2 DEF Alike
  <2> QED
    BY <1>2, <2>1, AlikeConserves
<1>6. /\ p \in Codec /\ p = [u EXCEPT !.post = Append(u.post, m)]
  BY <1>2, <1>3, <1>4, PostsDoes
<1>7. /\ p.state = k.state /\ p.in = k.in /\ p.out = k.out /\ p.deferred = k.deferred /\ p.bad = k.bad
      /\ p.cmd = k.cmd /\ p.ieos = FALSE /\ p.active = k.active /\ p.oeos = FALSE
      /\ p.ending = k.ending /\ p.flushed = k.flushed /\ p.missed = k.missed /\ p.post = Append(k.post, m)
  BY <1>2, <1>6 DEF Codec
<1>8. \A b : Is(m, "FillThisBuffer", b) = 0 /\ Is(m, "DrainThisBuffer", b) = 0
             /\ Is(m, "ShutdownCompleted", b) = 0
  BY <1>3, IsType
<1>9. Is(m, "FlushCompleted", 0) = 1
  BY <1>3, IsType
<1>10. \A b : InSum(u, b) \in Int /\ OutSum(u, b) \in Int
  BY <1>2, SumTypes
<1>11. \A b : InSum(p, b) = InSum(u, b) /\ OutSum(p, b) = OutSum(u, b)
  BY <1>2, <1>3, <1>4, <1>8, <1>10, NoteAdds
<1>12. FlushSum(p) = FlushSum(k) + 1 /\ ShutdownSum(p) = ShutdownSum(k)
  <2>1. /\ FlushSum(p) = FlushSum(u) + Is(m, "FlushCompleted", 0)
        /\ ShutdownSum(p) = ShutdownSum(u) + Is(m, "ShutdownCompleted", 0)
    BY <1>2, <1>3, <1>4, NoteAdds
  <2>2. ShutdownSum(u) \in Int /\ ShutdownSum(u) = ShutdownSum(k) /\ FlushSum(u) = FlushSum(k)
    BY <1>2, <1>5, SumTypes DEF Conserves
  <2> QED
    BY <1>8, <1>9, <2>1, <2>2
<1>13. Owes(p, q)
  <2>1. q \in Seq(Message)
    BY DEF Fits, Balanced
  <2>2. ASSUME NEW b \in Inputs
        PROVE  InSum(p, b) + HowMany(outbox, "FillThisBuffer", b) + One(b \in held.in)
                    + HowMany(q, "InputBufferFilled", b) = 0
    <3>1. InSum(p, b) = InSum(k, b)
      BY <1>5, <1>11 DEF Conserves
    <3> QED
      BY <3>1 DEF Fits, Balanced
  <2>3. ASSUME NEW b \in Outputs
        PROVE  OutSum(p, b) + HowMany(outbox, "DrainThisBuffer", b) + One(b \in held.out)
                    + HowMany(q, "OutputBufferDrained", b) = 0
    <3>1. OutSum(p, b) = OutSum(k, b)
      BY <1>5, <1>11 DEF Conserves
    <3> QED
      BY <3>1 DEF Fits, Balanced
  <2>4. FlushSum(p) + HowMany(outbox, "FlushCompleted", 0) + HowMany(q, "Flush", 0)
            = One(player = "flushing") + One(p.state = "Flushing")
    <3>1. FlushSum(k) + HowMany(outbox, "FlushCompleted", 0) + HowMany(q, "Flush", 0)
              = One(player = "flushing")
      BY DEF Fits, Balanced
    <3>2. One(p.state = "Flushing") = 1 /\ One(player = "flushing") \in Nat
      BY <1>7 DEF One
    <3>3. FlushSum(k) \in Nat /\ HowMany(outbox, "FlushCompleted", 0) \in Nat /\ HowMany(q, "Flush", 0) \in Nat
      BY <1>1, <2>1, SumTypes, HowManyType, MessagesAreMessages DEF Typed
    <3> QED
      BY <1>12, <3>1, <3>2, <3>3
  <2> QED
    BY <2>1, <2>2, <2>3, <2>4 DEF Owes
<1>14. Sound(Opened(p))
  <2> DEFINE e == Opened(p)
  <2>1. /\ e \in Codec /\ e.state = "Executing" /\ e.in = k.in /\ e.out = k.out /\ e.bad = k.bad
        /\ e.cmd = k.cmd /\ e.ieos = FALSE /\ e.active = k.active
    BY <1>6, <1>7, EmptySeq DEF Codec, StateNames, Opened
  <2> HIDE DEF e
  <2>2. k.cmd = "none" /\ ~k.active /\ DOMAIN k.in = Inputs
    BY <1>1 DEF Sound, Commanded, Resting
  <2>3. Commanded(e)
    BY <2>1, <2>2 DEF Commanded
  <2>4. Resting(e)
    BY <2>1, <2>2 DEF Resting, AllOurs
  <2>5. Busy(e)
    BY <2>1, <2>2 DEF Busy
  <2>6. Sound(e)
    BY <1>1, <2>1, <2>3, <2>4, <2>5 DEF Sound
  <2> QED
    BY <2>6 DEF e
<1>15. Stops(k, q) => Stops(p, q) /\ p.state \notin Stopped
  BY <1>7, <1>12 DEF Stops, Stopped
<1> QED
  BY <1>6, <1>7, <1>13, <1>14, <1>15 DEF m

LEMMA FlushEnds ==
    ASSUME Typed, NEW k, NEW q, Fits(k, q), k.state = "Flushing", k.flushed = {"in", "out"}, AllOurs(k),
           NEW p, p = FlushAnswer(k)
    PROVE  Fits(EnterExecuting(p), q) /\ (Stops(k, q) => Stops(EnterExecuting(p), q))
<1>1. /\ p \in Codec /\ Owes(p, q) /\ Sound(Opened(p)) /\ (Stops(k, q) => Stops(p, q))
      /\ p.state = "Flushing"
  BY FlushOpens
<1> QED
  BY <1>1, EnterFits DEF Stopped

LEMMA PortDisabled ==
    ASSUME NEW k, Sound(k), k.state = "FlushingOutput", k.flushed = {"out"}, Ours(k.out)
    PROVE  /\ Sound(DisablesPort(k)) /\ Conserves(k, DisablesPort(k))
           /\ DisablesPort(k).state = "OutputPortSettingsChanged"
<1> DEFINE e == [k EXCEPT !.state = "OutputPortSettingsChanged", !.ieos = FALSE, !.oeos = FALSE,
                          !.out = NoBuffers, !.cmd = "Disable"]
<1>1. k \in Codec /\ k.cmd = "none"
  BY DEF Sound, Commanded
<1>2. DisablesPort(k) = e
  BY <1>1 DEF DisablesPort, Sends, Codec
<1>3. NoBuffers \in OutPort /\ DOMAIN NoBuffers = {}
  BY DEF NoBuffers, OutPort
<1>4. /\ e \in Codec /\ e.state = "OutputPortSettingsChanged" /\ e.ieos = FALSE /\ e.out = NoBuffers
      /\ e.cmd = "Disable" /\ e.in = k.in /\ e.post = k.post /\ e.deferred = k.deferred /\ e.bad = k.bad
      /\ e.res = k.res /\ e.active = k.active
  BY <1>1, <1>3 DEF Codec, StateNames, Commands
<1> HIDE DEF e
<1>5. Commanded(e)
  BY <1>4 DEF Commanded
<1>6. Resting(e)
  BY <1>3, <1>4 DEF Sound, Resting, AllOurs, Ours
<1>7. Busy(e)
  BY <1>4 DEF Sound, Busy
<1>8. Conserves(k, e)
  <2>1. Alike(k, e)
    BY <1>3, <1>4 DEF Alike, Ours
  <2> QED
    BY <1>4, <2>1, AlikeConserves DEF Stopped
<1> QED
  BY <1>2, <1>4, <1>5, <1>6, <1>7, <1>8 DEF Sound

LEMMA IdleToLoaded ==
    ASSUME NEW k, Sound(k), k.state = "ExecutingToIdle", k.nowIdle, AllOurs(k),
           NEW e, e = Sends([k EXCEPT !.state = "IdleToLoaded", !.in = NoBuffers, !.out = NoBuffers], "Loaded")
    PROVE  Sound(e) /\ Conserves(k, e) /\ e.shutdown = k.shutdown
<1>1. k \in Codec /\ k.cmd = "none"
  BY DEF Sound, Commanded
<1>2. e = [k EXCEPT !.state = "IdleToLoaded", !.in = NoBuffers, !.out = NoBuffers, !.cmd = "Loaded"]
  BY <1>1 DEF Sends, Codec
<1>3. NoBuffers \in OutPort /\ NoBuffers \in InPort /\ DOMAIN NoBuffers = {}
  BY DEF NoBuffers, OutPort, InPort
<1>4. /\ e \in Codec /\ e.state = "IdleToLoaded" /\ e.ieos = k.ieos /\ e.out = NoBuffers /\ e.in = NoBuffers
      /\ e.cmd = "Loaded" /\ e.post = k.post /\ e.deferred = k.deferred /\ e.bad = k.bad
      /\ e.res = k.res /\ e.active = k.active /\ e.shutdown = k.shutdown
  BY ZenonT(60), <1>1, <1>2, <1>3 DEF Codec, StateNames, Commands
<1>5. Commanded(e)
  BY <1>4 DEF Commanded
<1>6. Resting(e)
  BY <1>4 DEF Resting
<1>7. Busy(e)
  BY <1>4 DEF Sound, Busy
<1>8. Conserves(k, e)
  <2>1. Alike(k, e)
    BY <1>3, <1>4 DEF Alike, AllOurs, Ours
  <2> QED
    BY <1>4, <2>1, AlikeConserves DEF Stopped
<1> QED
  BY <1>4, <1>5, <1>6, <1>7, <1>8 DEF Sound

LEMMA ChangeStateFits ==
    ASSUME Typed, NEW k, NEW q, Fits(k, q)
    PROVE  Fits(ChangeState(k), q) /\ (Stops(k, q) => Stops(ChangeState(k), q))
<1> DEFINE k2 == ChangeState(k)
<1>0. Sound(k)
  BY DEF Fits
<1>1. CASE k.state = "Flushing" /\ k.flushed = {"in", "out"} /\ AllOurs(k)
  <2> DEFINE p == FlushAnswer(k)
  <2>1. k2 = EnterExecuting(p)
    BY <1>1 DEF ChangeState, FlushAnswer
  <2>2. Fits(EnterExecuting(p), q) /\ (Stops(k, q) => Stops(EnterExecuting(p), q))
    BY <1>1, FlushEnds
  <2> HIDE DEF p, k2
  <2>3. Fits(k2, q) /\ (Stops(k, q) => Stops(k2, q))
    BY <2>1, <2>2
  <2> QED
    BY <2>3 DEF k2
<1>2. CASE k.state = "FlushingOutput" /\ k.flushed = {"out"} /\ Ours(k.out)
  <2>1. k2 = DisablesPort(k)
    BY <1>2 DEF ChangeState
  <2>2. Fits(DisablesPort(k), q)
    BY <1>0, <1>2, PortDisabled, FitsStill
  <2>3. Stops(k, q) => Stops(DisablesPort(k), q)
    BY <1>0, <1>2, PortDisabled, StopsStill DEF Stopped
  <2> QED
    BY <2>1, <2>2, <2>3
<1>3. CASE k.state = "ExecutingToIdle" /\ k.nowIdle /\ AllOurs(k)
  <2> DEFINE e == Sends([k EXCEPT !.state = "IdleToLoaded", !.in = NoBuffers, !.out = NoBuffers], "Loaded")
  <2>1. k2 = e
    BY <1>3 DEF ChangeState
  <2>2. Sound(e) /\ Conserves(k, e) /\ e.shutdown = k.shutdown
    BY <1>0, <1>3, IdleToLoaded
  <2> HIDE DEF e
  <2>3. Fits(e, q)
    BY <2>2, FitsStill
  <2>4. Stops(k, q) => Stops(e, q)
    BY <1>3, <2>2, StopsStill DEF Stops
  <2> QED
    BY <2>1, <2>3, <2>4
<1>4. CASE k2 = k
  BY <1>4
<1>5. k2 = k \/ (k.state = "Flushing" /\ k.flushed = {"in", "out"} /\ AllOurs(k))
             \/ (k.state = "FlushingOutput" /\ k.flushed = {"out"} /\ Ours(k.out))
             \/ (k.state = "ExecutingToIdle" /\ k.nowIdle /\ AllOurs(k))
  BY DEF ChangeState
<1> QED
  BY <1>1, <1>2, <1>3, <1>4, <1>5

-----------------------------------------------------------------------------
(*                    What becomes of the codec                             *)

(* The notes that k has collected go to the Decoder's looper.                          *)
LEMMA BecomesDoes ==
    ASSUME Typed, NEW k, NEW q, Fits(k, q), NoneOf(q, Setups), Becomes(k), inbox' = q,
           UNCHANGED <<player, held>>, left' \in [Events -> Nat]
    PROVE  IInv' /\ (Stops(k, q) => Stops(c, inbox)')
<1>1. k \in Codec /\ Sound(k) /\ q \in Seq(Message) /\ k.post \in Seq(Note)
  BY DEF Fits, Balanced, Sound, Codec
<1> DEFINE e == [k EXCEPT !.post = <<>>]
<1>2. c' = e /\ outbox' = outbox \o k.post
  BY DEF Becomes
<1>3. <<>> \in Seq(Note) /\ outbox \in Seq(Note)
  BY EmptySeq DEF Typed
<1>4. /\ e \in Codec /\ e.post = <<>> /\ e.in = k.in /\ e.out = k.out /\ e.deferred = k.deferred
      /\ e.state = k.state /\ e.bad = k.bad /\ e.cmd = k.cmd /\ e.flushed = k.flushed
      /\ e.nowIdle = k.nowIdle /\ e.active = k.active /\ e.ieos = k.ieos /\ e.oeos = k.oeos
      /\ e.res = k.res /\ e.shutdown = k.shutdown
  BY <1>1, <1>3 DEF Codec
<1> HIDE DEF e
<1>5. Sound(e)
  BY <1>1, <1>4, SoundSame
<1>6. \A what, buf : HowMany(outbox', what, buf) = HowMany(outbox, what, buf) + HowMany(k.post, what, buf)
  BY <1>1, <1>2, <1>3, HowManyJoins, MessagesAreMessages
<1>7. \A what, buf : HowMany(e.post, what, buf) = 0
  BY <1>4, HowManyEmpty
<1>8. \A what, buf : HowMany(outbox, what, buf) \in Nat /\ HowMany(q, what, buf) \in Nat
  BY <1>1, <1>3, HowManyType, MessagesAreMessages
<1>9. \A what, buf : HowMany(k.post, what, buf) \in Nat /\ HowMany(k.deferred, what, buf) \in Nat
  BY <1>1, SumTypes
<1>10. \A b : Up(e, b) = Up(k, b) /\ Down(e, b) = Down(k, b) /\ Up(k, b) \in Nat /\ Down(k, b) \in Nat
  <2>1. \A b : Up(e, b) = Up(k, b) /\ Down(e, b) = Down(k, b)
    BY <1>4 DEF Up, Down
  <2>2. \A b : Up(k, b) \in Nat /\ Down(k, b) \in Nat
    BY <1>1, SumTypes
  <2> QED
    BY <2>1, <2>2
<1>11. ASSUME NEW b \in Inputs
       PROVE  InSum(e, b) + HowMany(outbox', "FillThisBuffer", b) + One(b \in held.in)
                    + HowMany(q, "InputBufferFilled", b) = 0
  <2>1. InSum(k, b) + HowMany(outbox, "FillThisBuffer", b) + One(b \in held.in)
            + HowMany(q, "InputBufferFilled", b) = 0
    BY DEF Fits, Balanced
  <2>2. /\ HowMany(outbox', "FillThisBuffer", b)
             = HowMany(outbox, "FillThisBuffer", b) + HowMany(k.post, "FillThisBuffer", b)
        /\ HowMany(e.post, "FillThisBuffer", b) = 0
    BY <1>6, <1>7
  <2>3. /\ HowMany(outbox, "FillThisBuffer", b) \in Nat /\ HowMany(q, "InputBufferFilled", b) \in Nat
        /\ HowMany(k.post, "FillThisBuffer", b) \in Nat /\ HowMany(k.deferred, "InputBufferFilled", b) \in Nat
        /\ One(b \in held.in) \in Nat
    BY <1>8, <1>9, OneType
  <2> QED
    BY <1>4, <1>10, <2>1, <2>2, <2>3 DEF InSum
<1>12. ASSUME NEW b \in Outputs
       PROVE  OutSum(e, b) + HowMany(outbox', "DrainThisBuffer", b) + One(b \in held.out)
                    + HowMany(q, "OutputBufferDrained", b) = 0
  <2>1. OutSum(k, b) + HowMany(outbox, "DrainThisBuffer", b) + One(b \in held.out)
            + HowMany(q, "OutputBufferDrained", b) = 0
    BY DEF Fits, Balanced
  <2>2. /\ HowMany(outbox', "DrainThisBuffer", b)
             = HowMany(outbox, "DrainThisBuffer", b) + HowMany(k.post, "DrainThisBuffer", b)
        /\ HowMany(e.post, "DrainThisBuffer", b) = 0
    BY <1>6, <1>7
  <2>3. /\ HowMany(outbox, "DrainThisBuffer", b) \in Nat /\ HowMany(q, "OutputBufferDrained", b) \in Nat
        /\ HowMany(k.post, "DrainThisBuffer", b) \in Nat /\ One(b \in held.out) \in Nat
    BY <1>8, <1>9, OneType
  <2> QED
    BY <1>10, <2>1, <2>2, <2>3 DEF OutSum
<1>13. FlushSum(e) + HowMany(outbox', "FlushCompleted", 0) + HowMany(q, "Flush", 0) = One(player = "flushing")
  <2>1. FlushSum(k) + HowMany(outbox, "FlushCompleted", 0) + HowMany(q, "Flush", 0) = One(player = "flushing")
    BY DEF Fits, Balanced
  <2>2. /\ HowMany(outbox', "FlushCompleted", 0)
             = HowMany(outbox, "FlushCompleted", 0) + HowMany(k.post, "FlushCompleted", 0)
        /\ HowMany(e.post, "FlushCompleted", 0) = 0
    BY <1>6, <1>7
  <2>3. /\ HowMany(outbox, "FlushCompleted", 0) \in Nat /\ HowMany(q, "Flush", 0) \in Nat
        /\ HowMany(k.post, "FlushCompleted", 0) \in Nat /\ HowMany(k.deferred, "Flush", 0) \in Nat
    BY <1>8, <1>9
  <2>4. PICK x \in Nat : x = One(k.state = "Flushing") /\ x = One(e.state = "Flushing")
    BY <1>4, OneType
  <2> QED
    BY <1>4, <2>1, <2>2, <2>3, <2>4 DEF FlushSum
<1>14. ASSUME Stops(k, q)
       PROVE  /\ ShutdownSum(e) + HowMany(outbox', "ShutdownCompleted", 0) + HowMany(q, "Shutdown", 0)
                    = One(player = "stopping")
              /\ e.state \in {"ExecutingToIdle", "IdleToLoaded"} => e.shutdown
  <2>1. ShutdownSum(k) + HowMany(outbox, "ShutdownCompleted", 0) + HowMany(q, "Shutdown", 0)
            = One(player = "stopping")
    BY <1>14 DEF Stops
  <2>2. /\ HowMany(outbox', "ShutdownCompleted", 0)
             = HowMany(outbox, "ShutdownCompleted", 0) + HowMany(k.post, "ShutdownCompleted", 0)
        /\ HowMany(e.post, "ShutdownCompleted", 0) = 0
    BY <1>6, <1>7
  <2>3. /\ HowMany(outbox, "ShutdownCompleted", 0) \in Nat /\ HowMany(q, "Shutdown", 0) \in Nat
        /\ HowMany(k.post, "ShutdownCompleted", 0) \in Nat /\ HowMany(k.deferred, "Shutdown", 0) \in Nat
    BY <1>8, <1>9
  <2>4. PICK x \in Nat : x = One(k.state \in {"ExecutingToIdle", "IdleToLoaded"})
                         /\ x = One(e.state \in {"ExecutingToIdle", "IdleToLoaded"})
    BY <1>4, OneType
  <2>5. ShutdownSum(e) + HowMany(outbox', "ShutdownCompleted", 0) + HowMany(q, "Shutdown", 0)
            = One(player = "stopping")
    BY <1>4, <2>1, <2>2, <2>3, <2>4 DEF ShutdownSum
  <2> QED
    BY <1>4, <1>14, <2>5 DEF Stops
<1>15. Balanced(c, inbox)'
  BY <1>1, <1>2, <1>11, <1>12, <1>13 DEF Balanced
<1>16. Typed'
  <2>1. outbox' \in Seq(Note)
    BY <1>1, <1>2, <1>3, ConcatProperties
  <2> QED
    BY <2>1 DEF Typed
<1>17. Sound(c)' /\ c'.post = <<>>
  BY <1>2, <1>4, <1>5
<1>18. SetUpOnce'
  BY DEF SetUpOnce
<1>19. Stops(k, q) => Stops(c, inbox)'
  BY <1>2, <1>14 DEF Stops
<1> QED
  BY <1>15, <1>16, <1>17, <1>18, <1>19 DEF IInv, Fits

(* The inbox holds no Setup once it has been handled.                                   *)
LEMMA NoSetup ==
    ASSUME IInv, c # NewCodec
    PROVE  NoneOf(inbox, Setups)
  BY DEF IInv, SetUpOnce

LEMMA SpendKeeps ==
    ASSUME IInv, NEW what \in Events, Spend(what) \/ UNCHANGED left
    PROVE  left' \in [Events -> Nat]
  BY DEF IInv, Typed, Spend

LEMMA SpendsAnEvent == {"error", "flush", "port", "window"} \subseteq Events
  BY DEF Events

(* What is left when the head of the inbox has been taken.                              *)
LEMMA TakesDoes ==
    ASSUME IInv, NEW what, Takes(what)
    PROVE  /\ inbox # <<>> /\ Head(inbox) \in Message /\ Head(inbox).what = what
           /\ inbox' = Tail(inbox) /\ UNCHANGED <<player, held>>
           /\ Typed /\ Fits(c, inbox) /\ c.post = <<>>
           /\ NoneOf(Tail(inbox), Setups)
           /\ what = "Setup" => c = NewCodec
<1>1. Typed /\ Fits(c, inbox) /\ SetUpOnce /\ c.post = <<>>
  BY DEF IInv
<1>2. inbox # <<>> /\ inbox \in Seq(Message) /\ Head(inbox).what = what
      /\ inbox' = Tail(inbox) /\ UNCHANGED <<player, held>>
  BY <1>1 DEF Takes, Fits, Balanced
<1>3. /\ Head(inbox) \in Message
      /\ NoneOf(inbox, Setups) <=> Head(inbox) \notin Setups /\ NoneOf(Tail(inbox), Setups)
  BY <1>2, Served
<1>4. ASSUME what = "Setup" PROVE Head(inbox) = Plain("Setup")
  BY <1>2, <1>3, <1>4 DEF Message, Plain, Mesg
<1> QED
  BY <1>1, <1>2, <1>3, <1>4 DEF SetUpOnce, Setups

(* The balances that both answers share.                                            *)
LEMMA FitsAlso ==
    ASSUME NEW k, NEW q, Fits(k, q), NEW k2, Sound(k2),
           \A b \in Inputs : InSum(k2, b) = InSum(k, b),
           \A b \in Outputs : OutSum(k2, b) = OutSum(k, b),
           FlushSum(k2) = FlushSum(k)
    PROVE  Fits(k2, q)
<1>1. Balanced(k, q)
  BY DEF Fits
<1>2. Balanced(k2, q)
  BY <1>1 DEF Balanced
<1> QED
  BY <1>2 DEF Fits

LEMMA SoundNew ==
    ASSUME c = NewCodec, c \in Codec, NEW state \in {"Uninitialized", "Loaded"}
    PROVE  Sound([c EXCEPT !.state = state]) /\ Conserves(c, [c EXCEPT !.state = state])
<1> DEFINE e == [c EXCEPT !.state = state]
<1>3. /\ c.in = NoBuffers /\ c.out = NoBuffers /\ c.post = <<>> /\ c.deferred = <<>> /\ c.ieos = FALSE
      /\ c.active = FALSE /\ c.cmd = "none" /\ c.bad = "none" /\ c.state = "Uninitialized"
  BY DEF NewCodec
<1>5. /\ e \in Codec /\ e.state = state
      /\ e.in = c.in /\ e.out = c.out /\ e.post = c.post /\ e.deferred = c.deferred /\ e.ieos = c.ieos
      /\ e.active = c.active /\ e.cmd = c.cmd /\ e.bad = c.bad
  BY DEF Codec, StateNames
<1> HIDE DEF e
<1>6. Sound(e)
  BY <1>3, <1>5 DEF Sound, Commanded, Resting, Busy
<1>7. Conserves(c, e)
  <2>1. Alike(c, e)
    BY <1>5 DEF Alike
  <2> QED
    BY <1>3, <1>5, <2>1, AlikeConserves DEF Stopped
<1> QED
  BY <1>6, <1>7 DEF e

Kept == IInv' /\ (Stops(c, inbox) => Stops(c, inbox)')

(* A message is handled: the codec becomes k, and then changes its state if it may.          *)
LEMMA HandlerKeeps ==
    ASSUME IInv, NEW what, Takes(what), left' \in [Events -> Nat],
           NEW k, Fits(k, Tail(inbox)), Stops(c, inbox) => Stops(k, Tail(inbox)), Becomes(k) \/ Becomes(ChangeState(k))
    PROVE  Kept
<1> DEFINE q == Tail(inbox)
<1>1. /\ inbox' = q /\ UNCHANGED <<player, held>> /\ Typed /\ NoneOf(q, Setups)
  BY TakesDoes
<1>2. Fits(k, q) /\ (Stops(c, inbox) => Stops(k, q))
  OBVIOUS
<1> HIDE DEF q
<1>3. Fits(ChangeState(k), q) /\ (Stops(c, inbox) => Stops(ChangeState(k), q))
  BY <1>1, <1>2, ChangeStateFits
<1>4. CASE Becomes(k)
  BY <1>1, <1>2, <1>4, BecomesDoes DEF Kept
<1>5. CASE Becomes(ChangeState(k))
  BY <1>1, <1>3, <1>5, BecomesDoes DEF Kept
<1> QED
  BY <1>4, <1>5

LEMMA SetupKeeps == ASSUME IInv, Setup PROVE Kept
<1>1. Takes("Setup") /\ UNCHANGED left
  BY DEF Setup
<1>2. /\ inbox # <<>> /\ Head(inbox) \in Message /\ Head(inbox).what = "Setup" /\ c = NewCodec
      /\ Typed /\ Fits(c, inbox)
  BY <1>1, TakesDoes
<1> DEFINE w == [b \in Outputs |-> IF HasWindow /\ b > NumOutput - MinUndequeued THEN "window" ELSE "us"]
           u == [b \in Inputs |-> "us"]
           e == [c EXCEPT !.state = "LoadedToIdle", !.in = u, !.out = w, !.cmd = "Idle"]
<1>3. /\ c.in = NoBuffers /\ c.out = NoBuffers /\ c.post = <<>> /\ c.deferred = <<>> /\ c.ieos = FALSE
      /\ c.active = FALSE /\ c.cmd = "none" /\ c.bad = "none" /\ c.state = "Uninitialized"
      /\ DOMAIN NoBuffers = {}
  BY <1>2 DEF NewCodec, NoBuffers
<1>4. c \in Codec
  BY <1>2 DEF Fits, Sound
<1>5. Sends(AllocateOutputs(AllocateInputs([c EXCEPT !.state = "LoadedToIdle"])), "Idle") = e
  BY <1>3, <1>4 DEF Sends, AllocateOutputs, AllocateInputs, Codec
<1>6. /\ u \in InPort /\ DOMAIN u = Inputs /\ w \in OutPort /\ DOMAIN w = Outputs
      /\ \A b \in Inputs : u[b] = "us"
      /\ \A b \in Outputs : w[b] \in {"us", "window"}
  BY DEF InPort, OutPort
<1> HIDE DEF w, u
<1>7. /\ e \in Codec /\ e.state = "LoadedToIdle" /\ e.in = u /\ e.out = w /\ e.cmd = "Idle"
      /\ e.post = c.post /\ e.deferred = c.deferred /\ e.ieos = c.ieos
      /\ e.active = c.active /\ e.bad = c.bad
  BY <1>4, <1>6 DEF Codec, StateNames, Commands
<1> HIDE DEF e
<1>8. Sound(e)
  BY <1>3, <1>6, <1>7 DEF Sound, Commanded, Resting, Busy, AllOurs, Ours
<1>9. Conserves(c, e)
  <2>1. Alike(c, e)
    BY <1>3, <1>6, <1>7 DEF Alike
  <2> QED
    BY <1>3, <1>7, <2>1, AlikeConserves DEF Stopped
<1>10. Absorbs(c, e, Head(inbox))
  BY <1>2, <1>4, <1>9, AbsorbsNothing
<1>11. Fits(e, Tail(inbox))
  BY <1>2, <1>8, <1>10, FitsDelivered
<1>12. Stops(c, inbox) => Stops(e, Tail(inbox))
  <2>1. inbox \in Seq(Message)
    BY <1>2 DEF Fits, Balanced
  <2> QED
    BY <1>2, <1>4, <1>7, <1>10, <2>1, StopsAbsorbed DEF Stopped
<1>13. Becomes(e) /\ left' \in [Events -> Nat]
  BY <1>1, <1>2, <1>5 DEF Setup, Typed
<1> QED
  BY <1>1, <1>11, <1>12, <1>13, HandlerKeeps

LEMMA SetupFailsKeeps == ASSUME IInv, SetupFails PROVE Kept
<1>1. Takes("Setup") /\ left' \in [Events -> Nat]
  BY SpendKeeps, SpendsAnEvent DEF SetupFails
<1>2. PICK state \in {"Uninitialized", "Loaded"} : Becomes(SignalsError([c EXCEPT !.state = state]))
  BY DEF SetupFails
<1> DEFINE u == [c EXCEPT !.state = state]
           e == Posts(u, Plain("Error"))
<1>3. /\ inbox # <<>> /\ Head(inbox) \in Message /\ Head(inbox).what = "Setup" /\ c = NewCodec
      /\ Typed /\ Fits(c, inbox) /\ c \in Codec
  BY <1>1, TakesDoes DEF Fits, Sound
<1>4. Sound(u) /\ Conserves(c, u) /\ u.state = state
  BY <1>3, SoundNew DEF Codec
<1>5. Becomes(e)
  BY <1>2 DEF SignalsError
<1> HIDE DEF u
<1>6. Sound(e) /\ Conserves(u, e) /\ e.state = state
  <2>1. u \in Codec
    BY <1>4 DEF Sound
  <2>2. e = [u EXCEPT !.post = Append(u.post, Plain("Error"))]
    BY <2>1, PlainNotes, PostsDoes
  <2>3. e.state = u.state
    BY <2>1, <2>2 DEF Codec
  <2> QED
    BY <1>4, <2>1, <2>3, PlainNotes, PostsIsSound, NoteConserves
<1> HIDE DEF e
<1>7. Conserves(c, e)
  BY <1>4, <1>6, ConservesBoth
<1>8. Absorbs(c, e, Head(inbox))
  BY <1>3, <1>7, AbsorbsNothing
<1>9. Fits(e, Tail(inbox))
  BY <1>3, <1>6, <1>8, FitsDelivered
<1>10. Stops(c, inbox) => Stops(e, Tail(inbox))
  <2>1. inbox \in Seq(Message) /\ e \in Codec
    BY <1>3, <1>6 DEF Fits, Balanced, Sound
  <2> QED
    BY <1>3, <1>6, <1>8, <2>1, StopsAbsorbed DEF Stopped
<1> QED
  BY <1>1, <1>5, <1>9, <1>10, HandlerKeeps

LEMMA ControlKeeps == ASSUME IInv, Control PROVE Kept
<1>1. PICK what \in {"Flush", "Shutdown", "Resume"} : Takes(what)
  BY DEF Control
<1>2. /\ inbox # <<>> /\ Head(inbox) \in Message /\ Head(inbox).what = what /\ Typed /\ Fits(c, inbox)
  BY <1>1, TakesDoes
<1>3. Head(inbox) \in Deferrable
  BY <1>2 DEF Message, Deferrable
<1> DEFINE e == Deliver(c, Head(inbox))
<1>4. Fits(e, Tail(inbox)) /\ (Stops(c, inbox) => Stops(e, Tail(inbox)))
  BY <1>2, <1>3, DeliverFits, StopsDelivered
<1>5. Becomes(e) /\ left' \in [Events -> Nat]
  BY <1>2 DEF Control, Typed
<1> QED
  BY <1>1, <1>4, <1>5, HandlerKeeps

LEMMA InputBufferFilledKeeps == ASSUME IInv, InputBufferFilled PROVE Kept
<1>1. Takes("InputBufferFilled")
  BY DEF InputBufferFilled
<1>2. /\ inbox # <<>> /\ Head(inbox) \in Message /\ Head(inbox).what = "InputBufferFilled"
      /\ Typed /\ Fits(c, inbox)
  BY <1>1, TakesDoes
<1>3. Head(inbox) \in Deferrable
  BY <1>2 DEF Message, Deferrable
<1> DEFINE e == Deliver(c, Head(inbox))
<1>4. Fits(e, Tail(inbox)) /\ (Stops(c, inbox) => Stops(e, Tail(inbox)))
  BY <1>2, <1>3, DeliverFits, StopsDelivered
<1>5. Becomes(ChangeState(e)) /\ left' \in [Events -> Nat]
  BY <1>2 DEF InputBufferFilled, Typed
<1> QED
  BY <1>1, <1>4, <1>5, HandlerKeeps

-----------------------------------------------------------------------------
(*                     Output buffers come back                             *)

(* The buffer b, which was downstream, is the component's, the window's or ours again.   *)
LEMMA DrainedDoes ==
    ASSUME NEW k, Sound(k), NEW m, m.what = "OutputBufferDrained", m.buf \in DOMAIN k.out,
           k.out[m.buf] = "down",
           NEW p \in OutPort, DOMAIN p = DOMAIN k.out, p[m.buf] # "down",
           \A d \in DOMAIN p : d # m.buf => (p[d] = "down" <=> k.out[d] = "down"),
           k.state = "Executing" /\ ~k.oeos => \A d \in DOMAIN p : p[d] = "us" => k.out[d] = "us",
           NEW k2, k2 = [k EXCEPT !.out = p]
    PROVE  /\ Sound(k2) /\ Absorbs(k, k2, m) /\ k2.state = k.state /\ k2.shutdown = k.shutdown
           /\ k2.active = k.active /\ k2.deferred = k.deferred /\ k2.missed = k.missed
<1> DEFINE b == m.buf
<1>0. k \in Codec
  BY DEF Sound
<1>1. /\ k2 \in Codec /\ k2.state = k.state /\ k2.shutdown = k.shutdown /\ k2.in = k.in /\ k2.out = p
      /\ k2.post = k.post /\ k2.deferred = k.deferred /\ k2.bad = k.bad /\ k2.cmd = k.cmd
      /\ k2.flushed = k.flushed /\ k2.nowIdle = k.nowIdle /\ k2.active = k.active /\ k2.ieos = k.ieos
      /\ k2.oeos = k.oeos /\ k2.res = k.res /\ k2.missed = k.missed
  BY <1>0 DEF Codec
<1>2. ~AllOurs(k) /\ ~Ours(k.out) /\ k.out # NoBuffers
  BY DEF AllOurs, Ours, NoBuffers
<1>3. Commanded(k2)
  BY <1>1, <1>2 DEF Sound, Commanded
<1>4. Resting(k2)
  BY <1>1, <1>2 DEF Sound, Resting
<1>5. Busy(k2)
  BY <1>1 DEF Sound, Busy
<1>6. Absorbs(k, k2, m)
  <2>1. b \in Outputs
    BY <1>0, PortFields
  <2>2. \A d : Up(k2, d) = Up(k, d)
    BY <1>1 DEF Up
  <2>3. \A d \in Outputs : d # b => Down(k2, d) = Down(k, d)
    BY <1>1 DEF Down
  <2>4. Down(k2, b) = 0 /\ Down(k, b) = 1
    BY <1>1 DEF Down, One
  <2>5. \A d : /\ Is(m, "InputBufferFilled", d) = 0 /\ Is(m, "Flush", d) = 0 /\ Is(m, "Shutdown", d) = 0
               /\ (d # b => Is(m, "OutputBufferDrained", d) = 0)
    BY IsType
  <2>6. Is(m, "OutputBufferDrained", b) = 1
    BY IsType
  <2>7. \A what, buf : HowMany(k.post, what, buf) \in Nat
    BY <1>0, SumTypes
  <2>8. \A d : InSum(k2, d) = InSum(k, d) /\ InSum(k, d) \in Int /\ OutSum(k, d) \in Int
    BY <1>0, <1>1, <2>2, SumTypes DEF InSum
  <2>9. \A d \in Outputs : d # b => OutSum(k2, d) = OutSum(k, d)
    BY <1>1, <2>3 DEF OutSum
  <2>10. OutSum(k2, b) = OutSum(k, b) + 1
    BY <1>1, <2>4, <2>7 DEF OutSum
  <2>11. FlushSum(k2) = FlushSum(k) /\ FlushSum(k) \in Int
    BY <1>0, <1>1, SumTypes DEF FlushSum
  <2>12. ShutdownSum(k2) = ShutdownSum(k) /\ ShutdownSum(k) \in Int
    BY <1>0, <1>1, SumTypes DEF ShutdownSum
  <2>13. \A d \in Inputs : InSum(k2, d) = InSum(k, d) + Is(m, "InputBufferFilled", d)
    BY <2>5, <2>8
  <2>14. \A d \in Outputs : OutSum(k2, d) = OutSum(k, d) + Is(m, "OutputBufferDrained", d)
    <3> SUFFICES ASSUME NEW d \in Outputs
                 PROVE  OutSum(k2, d) = OutSum(k, d) + Is(m, "OutputBufferDrained", d)
      OBVIOUS
    <3>1. CASE d = b
      BY <2>6, <2>10, <3>1
    <3>2. CASE d # b
      <4>1. OutSum(k, d) \in Int /\ OutSum(k2, d) = OutSum(k, d) /\ Is(m, "OutputBufferDrained", d) = 0
        BY <2>5, <2>8, <2>9, <3>2
      <4> QED
        BY <4>1
    <3> QED
      BY <3>1, <3>2
  <2>15. FlushSum(k2) = FlushSum(k) + Is(m, "Flush", 0)
    BY <2>5, <2>11
  <2>16. ShutdownSum(k2) = ShutdownSum(k) + Is(m, "Shutdown", 0)
    BY <2>5, <2>12
  <2> QED
    BY <2>13, <2>14, <2>15, <2>16 DEF Absorbs
<1> QED
  BY <1>0, <1>1, <1>3, <1>4, <1>5, <1>6 DEF Sound

(* What the codec k becomes when it has the buffer b back.                              *)
LEMMA RefilledDoes ==
    ASSUME NEW k, Sound(k), NEW m, m.what = "OutputBufferDrained", m.buf \in DOMAIN k.out,
           k.out[m.buf] = "down",
           NEW k2, k2 = Refill([k EXCEPT !.out[m.buf] = "us"], m.buf)
    PROVE  /\ Sound(k2) /\ Absorbs(k, k2, m) /\ k2.state = k.state /\ k2.shutdown = k.shutdown
           /\ k2.active = k.active /\ k2.deferred = k.deferred /\ k2.missed = k.missed
<1> DEFINE b == m.buf
           p == [k.out EXCEPT ![b] = IF k.state = "Executing" /\ ~k.oeos THEN "component" ELSE "us"]
<1>1. k \in Codec /\ k.out \in OutPort
  BY DEF Sound, Codec
<1>2. k2 = [k EXCEPT !.out = p]
  BY <1>1 DEF Refill, Codec
<1>3. p \in OutPort /\ DOMAIN p = DOMAIN k.out
  BY <1>1, OutPortExcept
<1>4. /\ p[b] # "down" /\ \A d \in DOMAIN p : d # b => p[d] = k.out[d]
      /\ k.state = "Executing" /\ ~k.oeos => p[b] # "us"
  OBVIOUS
<1> HIDE DEF p
<1> QED
  BY <1>2, <1>3, <1>4, DrainedDoes

(* What it becomes when the window has the buffer, and gives none in exchange.            *)
LEMMA ShownDoes ==
    ASSUME NEW k, Sound(k), NEW m, m.what = "OutputBufferDrained", m.buf \in DOMAIN k.out,
           k.out[m.buf] = "down",
           NEW k2, k2 = [k EXCEPT !.out[m.buf] = "window"]
    PROVE  /\ Sound(k2) /\ Absorbs(k, k2, m) /\ k2.state = k.state /\ k2.shutdown = k.shutdown
           /\ k2.active = k.active /\ k2.deferred = k.deferred /\ k2.missed = k.missed
<1> DEFINE b == m.buf
           s == [k.out EXCEPT ![b] = "window"]
<1>1. k \in Codec /\ k.out \in OutPort
  BY DEF Sound, Codec
<1>2. s \in OutPort /\ DOMAIN s = DOMAIN k.out /\ s[b] = "window" /\ \A d \in DOMAIN s : d # b => s[d] = k.out[d]
  BY <1>1, OutPortExcept
<1>3. k2 = [k EXCEPT !.out = s]
  BY <1>1 DEF Codec
<1> HIDE DEF s
<1> QED
  BY <1>2, <1>3, DrainedDoes

LEMMA RenderedDoes ==
    ASSUME NEW k, Sound(k), NEW m, m.what = "OutputBufferDrained", m.buf \in DOMAIN k.out,
           k.out[m.buf] = "down",
           NEW k2 \in Rendered(k, m.buf)
    PROVE  /\ Sound(k2) /\ Absorbs(k, k2, m) /\ k2.state = k.state /\ k2.shutdown = k.shutdown
           /\ k2.active = k.active /\ k2.deferred = k.deferred /\ k2.missed = k.missed
<1> DEFINE b == m.buf
           s == [k.out EXCEPT ![b] = "window"]
           shown == [k EXCEPT !.out[b] = "window"]
<1>1. k \in Codec /\ k.out \in OutPort
  BY DEF Sound, Codec
<1>2. s \in OutPort /\ DOMAIN s = DOMAIN k.out /\ s[b] = "window" /\ \A d \in DOMAIN s : d # b => s[d] = k.out[d]
  BY <1>1, OutPortExcept
<1>3. shown = [k EXCEPT !.out = s] /\ shown.out = s /\ shown.state = k.state /\ shown.oeos = k.oeos
  BY <1>1 DEF Codec
<1>4. CASE k.state = "Executing" /\ k.oeos
  <2>1. k2 = [k EXCEPT !.out = s]
    BY <1>3, <1>4 DEF Rendered
  <2> HIDE DEF s
  <2> QED
    BY <1>2, <1>4, <2>1, DrainedDoes
<1>5. CASE ~(k.state = "Executing" /\ k.oeos)
  <2>1. PICK d \in Spare(shown) : k2 = Refill([shown EXCEPT !.out[d] = "us"], d)
    BY <1>5 DEF Rendered
  <2>2. d \in DOMAIN s /\ s[d] = "window"
    BY <1>3, <2>1 DEF Spare
  <2> DEFINE p == [s EXCEPT ![d] = IF k.state = "Executing" /\ ~k.oeos THEN "component" ELSE "us"]
  <2>3. k2 = [k EXCEPT !.out = p]
    BY <1>1, <1>3, <2>1 DEF Refill, Codec
  <2>4. p \in OutPort /\ DOMAIN p = DOMAIN s
    BY <1>2, OutPortExcept
  <2>5. /\ p[d] # "down" /\ \A e \in DOMAIN p : e # d => p[e] = s[e]
        /\ k.state = "Executing" /\ ~k.oeos => p[d] # "us"
    BY <2>2
  <2> HIDE DEF p, s
  <2>6. p[b] # "down"
    BY <1>2, <2>4, <2>5
  <2>7. \A e \in DOMAIN p : e # b => (p[e] = "down" <=> k.out[e] = "down")
    BY <1>2, <2>2, <2>4, <2>5
  <2>8. k.state = "Executing" /\ ~k.oeos => \A e \in DOMAIN p : p[e] = "us" => k.out[e] = "us"
    BY <1>2, <2>4, <2>5
  <2> QED
    BY <1>2, <2>3, <2>4, <2>6, <2>7, <2>8, DrainedDoes
<1> QED
  BY <1>4, <1>5

LEMMA OutputBufferDrainedKeeps == ASSUME IInv, OutputBufferDrained PROVE Kept
<1> DEFINE m == Head(inbox)
<1>1. Takes("OutputBufferDrained") /\ UNCHANGED left
  BY DEF OutputBufferDrained
<1>2. /\ inbox # <<>> /\ m \in Message /\ m.what = "OutputBufferDrained" /\ Typed /\ Fits(c, inbox)
      /\ inbox \in Seq(Message) /\ Sound(c) /\ c \in Codec
  BY <1>1, TakesDoes DEF Fits, Balanced, Sound
<1>3. m.buf \in DOMAIN c.out /\ c.out[m.buf] = "down"
  BY <1>2, HeadSays
<1>4. PICK k : /\ Becomes(ChangeState(k))
               /\ k \in Rendered(c, m.buf) \/ k = Refill([c EXCEPT !.out[m.buf] = "us"], m.buf)
  BY <1>3 DEF OutputBufferDrained
<1>5. Sound(k) /\ Absorbs(c, k, m) /\ k.state = c.state /\ k.shutdown = c.shutdown
  BY <1>2, <1>3, <1>4, RenderedDoes, RefilledDoes
<1> HIDE DEF m
<1>6. Fits(k, Tail(inbox))
  BY <1>2, <1>5, FitsDelivered DEF m
<1>7. Stops(c, inbox) => Stops(k, Tail(inbox))
  <2>1. k \in Codec
    BY <1>5 DEF Sound
  <2> QED
    BY <1>2, <1>5, <2>1, StopsAbsorbed DEF m, Stops, Stopped
<1>8. left' \in [Events -> Nat]
  BY <1>1, <1>2 DEF Typed
<1> QED
  BY <1>1, <1>4, <1>6, <1>7, <1>8, HandlerKeeps

LEMMA DequeueFailsKeeps == ASSUME IInv, DequeueFails PROVE Kept
<1> DEFINE m == Head(inbox)
           k == [c EXCEPT !.out[m.buf] = "window"]
<1>1. Takes("OutputBufferDrained") /\ left' \in [Events -> Nat]
  BY SpendKeeps, SpendsAnEvent DEF DequeueFails
<1>2. /\ inbox # <<>> /\ m \in Message /\ m.what = "OutputBufferDrained" /\ Typed /\ Fits(c, inbox)
      /\ inbox \in Seq(Message) /\ Sound(c) /\ c \in Codec
  BY <1>1, TakesDoes DEF Fits, Balanced, Sound
<1>3. m.buf \in DOMAIN c.out /\ c.out[m.buf] = "down" /\ Becomes(ChangeState(k))
  BY DEF DequeueFails
<1>4. k = [c EXCEPT !.out[m.buf] = "window"]
  OBVIOUS
<1> HIDE DEF m, k
<1>5. Sound(k) /\ Absorbs(c, k, m) /\ k.state = c.state /\ k.shutdown = c.shutdown
  BY <1>2, <1>3, <1>4, ShownDoes
<1>6. Fits(k, Tail(inbox))
  BY <1>2, <1>5, FitsDelivered DEF m
<1>7. Stops(c, inbox) => Stops(k, Tail(inbox))
  <2>1. k \in Codec
    BY <1>5 DEF Sound
  <2> QED
    BY <1>2, <1>5, <2>1, StopsAbsorbed DEF m, Stops, Stopped
<1> QED
  BY <1>1, <1>3, <1>6, <1>7, HandlerKeeps

LEMMA RenderFailsKeeps == ASSUME IInv, RenderFails PROVE Kept
<1> DEFINE m == Head(inbox)
           u == Posts(c, Plain("Error"))
           k == Refill([u EXCEPT !.out[m.buf] = "us"], m.buf)
<1>1. Takes("OutputBufferDrained") /\ left' \in [Events -> Nat]
  BY SpendKeeps, SpendsAnEvent DEF RenderFails
<1>2. /\ inbox # <<>> /\ m \in Message /\ m.what = "OutputBufferDrained" /\ Typed /\ Fits(c, inbox)
      /\ inbox \in Seq(Message) /\ Sound(c) /\ c \in Codec
  BY <1>1, TakesDoes DEF Fits, Balanced, Sound
<1>3. m.buf \in DOMAIN c.out /\ c.out[m.buf] = "down" /\ Becomes(ChangeState(k))
  BY DEF RenderFails, SignalsError
<1>4. Sound(u) /\ Conserves(c, u) /\ u = [c EXCEPT !.post = Append(c.post, Plain("Error"))]
  BY <1>2, PlainNotes, PostsIsSound, PostsDoes, NoteConserves
<1>5. u.out = c.out /\ u.state = c.state /\ u.shutdown = c.shutdown
  BY <1>2, <1>4 DEF Codec
<1>10. k = Refill([u EXCEPT !.out[m.buf] = "us"], m.buf)
  OBVIOUS
<1> HIDE DEF u, m, k
<1>6. Sound(k) /\ Absorbs(u, k, m) /\ k.state = u.state /\ k.shutdown = u.shutdown
  <2>1. Sound(u) /\ m.what = "OutputBufferDrained" /\ m.buf \in DOMAIN u.out /\ u.out[m.buf] = "down"
    BY <1>2, <1>3, <1>4, <1>5
  <2> QED
    BY <1>10, <2>1, RefilledDoes
<1>7. Absorbs(c, k, m)
  BY <1>2, <1>4, <1>5, <1>6 DEF Absorbs, Conserves
<1>8. Fits(k, Tail(inbox))
  BY <1>2, <1>6, <1>7, FitsDelivered DEF m
<1>9. Stops(c, inbox) => Stops(k, Tail(inbox))
  <2>1. k \in Codec
    BY <1>6 DEF Sound
  <2> QED
    BY <1>2, <1>5, <1>6, <1>7, <2>1, StopsAbsorbed DEF m, Stops, Stopped
<1> QED
  BY <1>1, <1>3, <1>8, <1>9, HandlerKeeps

-----------------------------------------------------------------------------
(*                    Callbacks of the component                            *)

(* The component calls: the codec becomes k.                                            *)
LEMMA CallbackBecomes ==
    ASSUME IInv, c # NewCodec, UNCHANGED <<inbox, player, held>>, left' \in [Events -> Nat],
           NEW k, Fits(k, inbox), Becomes(k)
    PROVE  IInv' /\ (Stops(k, inbox) => Stops(c, inbox)')
<1>1. NoneOf(inbox, Setups) /\ Typed
  BY NoSetup DEF IInv
<1> DEFINE q == inbox
<1>2. inbox' = q
  OBVIOUS
<1>3. Fits(k, q) /\ NoneOf(q, Setups)
  BY <1>1
<1> HIDE DEF q
<1>4. IInv' /\ (Stops(k, q) => Stops(c, inbox)')
  BY <1>1, <1>2, <1>3, BecomesDoes
<1> QED
  BY <1>4 DEF q

LEMMA CallbackKeeps ==
    ASSUME IInv, c # NewCodec, UNCHANGED <<inbox, player, held>>, left' \in [Events -> Nat],
           NEW k, Fits(k, inbox), Stops(c, inbox) => Stops(k, inbox), Becomes(k)
    PROVE  Kept
<1>1. IInv' /\ (Stops(k, inbox) => Stops(c, inbox)')
  BY CallbackBecomes
<1> QED
  BY <1>1 DEF Kept

(* It calls, nothing is owed that was not, and the state changes if it may.                *)
LEMMA CallbackConserves ==
    ASSUME IInv, c # NewCodec, UNCHANGED <<inbox, player, held>>, left' \in [Events -> Nat],
           NEW k, Sound(k), Conserves(c, k), k.state \in Stopped => c.state \in Stopped /\ k.shutdown = c.shutdown,
           Becomes(k) \/ Becomes(ChangeState(k))
    PROVE  Kept
<1>1. Typed /\ Fits(c, inbox)
  BY DEF IInv
<1>2. Fits(k, inbox)
  BY <1>1, FitsStill
<1>3. Stops(c, inbox) => Stops(k, inbox)
  BY StopsStill DEF Stops, Stopped
<1>4. CASE Becomes(k)
  BY <1>2, <1>3, <1>4, CallbackKeeps
<1>5. CASE Becomes(ChangeState(k))
  <2>1. Fits(ChangeState(k), inbox) /\ (Stops(k, inbox) => Stops(ChangeState(k), inbox))
    BY <1>1, <1>2, ChangeStateFits
  <2> QED
    BY <1>3, <1>5, <2>1, CallbackKeeps
<1> QED
  BY <1>4, <1>5

(* A codec in use.                                                            *)
LEMMA InUse ==
    ASSUME IInv
    PROVE  /\ c \in Codec /\ Sound(c) /\ Typed /\ Fits(c, inbox)
           /\ c.state # "Uninitialized" \/ DOMAIN c.in # {} \/ DOMAIN c.out # {} => c # NewCodec
           /\ UNCHANGED left => left' \in [Events -> Nat]
<1>1. c \in Codec /\ Sound(c) /\ Typed /\ Fits(c, inbox)
  BY DEF IInv, Fits, Sound
<1>2. NewCodec.state = "Uninitialized" /\ DOMAIN NewCodec.in = {} /\ DOMAIN NewCodec.out = {}
  BY DEF NewCodec, NoBuffers
<1>3. c.state # "Uninitialized" \/ DOMAIN c.in # {} \/ DOMAIN c.out # {} => c # NewCodec
  BY <1>2
<1>4. UNCHANGED left => left' \in [Events -> Nat]
  BY <1>1 DEF Typed
<1> QED
  BY <1>1, <1>3, <1>4

(* A buffer that is elsewhere says in which states the codec may be.                   *)
LEMMA Elsewhere ==
    ASSUME NEW k, Sound(k),
           (\E b \in DOMAIN k.in : k.in[b] = "component") \/ (\E b \in DOMAIN k.out : k.out[b] = "component")
    PROVE  /\ ~AllOurs(k)
           /\ k.state \in {"Executing", "FlushingOutput", "OutputPortSettingsChanged"} => k.active
           /\ k.state \notin {"LoadedToIdle", "IdleToExecuting"}
<1>1. ~AllOurs(k)
  BY DEF AllOurs, Ours
<1> QED
  BY <1>1 DEF Sound, Resting

LEMMA EmptyBufferDoneKeeps == ASSUME IInv, NEW b \in Inputs, EmptyBufferDone(b) PROVE Kept
<1>0. /\ c \in Codec /\ Sound(c) /\ Typed /\ Fits(c, inbox)
  BY InUse
<1> DEFINE p == [c.in EXCEPT ![b] = "us"]
           back == [c EXCEPT !.in[b] = "us"]
           resubmit == c.state \in {"Executing", "FlushingOutput", "OutputPortSettingsChanged"}
<1>1. /\ b \in DOMAIN c.in /\ c.in[b] = "component" /\ UNCHANGED <<inbox, player, held, left>>
      /\ Becomes(IF resubmit THEN PostFill(back, b) ELSE back)
  BY DEF EmptyBufferDone, Callback
<1>2. c # NewCodec /\ left' \in [Events -> Nat]
  BY <1>1, InUse
<1>3. p \in InPort /\ DOMAIN p = DOMAIN c.in /\ p[b] = "us" /\ \A d \in DOMAIN p : d # b => p[d] = c.in[d]
  BY <1>0, <1>1, InPortExcept DEF Codec
<1>4. back = [c EXCEPT !.in = p]
  BY <1>0 DEF Codec
<1> HIDE DEF p
<1>5. /\ back \in Codec /\ back.in = p /\ back.state = c.state /\ back.shutdown = c.shutdown
      /\ back.out = c.out /\ back.post = c.post /\ back.deferred = c.deferred /\ back.bad = c.bad
      /\ back.cmd = c.cmd /\ back.flushed = c.flushed /\ back.nowIdle = c.nowIdle
      /\ back.active = c.active /\ back.ieos = c.ieos /\ back.oeos = c.oeos /\ back.res = c.res
  BY <1>0, <1>3, <1>4 DEF Codec
<1> HIDE DEF back
<1>6. Conserves(c, back)
  <2>1. Alike(c, back)
    BY <1>1, <1>3, <1>5 DEF Alike
  <2> QED
    BY <1>5, <2>1, AlikeConserves
<1>7. /\ resubmit => c.active
      /\ c.state \notin {"LoadedToIdle", "IdleToExecuting"}
  BY <1>0, <1>1, Elsewhere
<1>8. CASE ~resubmit
  <2>1. Commanded(back)
    BY <1>0, <1>5 DEF Sound, Commanded
  <2>2. Resting(back)
    BY <1>0, <1>3, <1>5, <1>7, <1>8 DEF Sound, Resting
  <2>3. Busy(back)
    BY <1>0, <1>5, <1>8 DEF Sound, Busy
  <2>4. Sound(back)
    BY <1>0, <1>5, <2>1, <2>2, <2>3 DEF Sound
  <2> QED
    BY <1>1, <1>2, <1>5, <1>6, <1>8, <2>4, CallbackConserves
<1>9. CASE resubmit
  <2> DEFINE k == PostFill(back, b)
  <2>1. /\ k \in Codec /\ OnlyIn(back, k) /\ DOMAIN k.in = DOMAIN p
        /\ ~back.ieos => k.in[b] = "up"
        /\ Conserves(back, k)
    BY <1>1, <1>3, <1>5, PostFillDoes
  <2>2. Becomes(k)
    BY <1>1, <1>9
  <2> HIDE DEF k
  <2>3. /\ k.state = c.state /\ k.shutdown = c.shutdown /\ k.out = c.out /\ k.bad = c.bad
        /\ k.cmd = c.cmd /\ k.flushed = c.flushed /\ k.nowIdle = c.nowIdle
        /\ k.active = c.active /\ k.ieos = c.ieos /\ k.oeos = c.oeos /\ k.res = c.res
    <3>1. k = [back EXCEPT !.in = k.in, !.post = k.post]
      BY <2>1 DEF OnlyIn
    <3> QED
      BY <1>5, <3>1 DEF Codec
  <2>4. Commanded(k)
    BY <1>0, <2>3 DEF Sound, Commanded
  <2>5. Resting(k)
    BY <1>0, <1>3, <1>7, <1>9, <2>1, <2>3 DEF Sound, Resting
  <2>6. Busy(k)
    <3>1. k.res # "no" \/ \E d \in DOMAIN k.in : k.in[d] # "us"
      BY <1>0, <1>1, <1>3, <1>5, <2>1, <2>3 DEF Sound, Busy
    <3> QED
      BY <1>0, <2>3, <3>1 DEF Sound, Busy
  <2>7. Sound(k) /\ Conserves(c, k)
    BY <1>0, <1>6, <2>1, <2>3, <2>4, <2>5, <2>6, ConservesBoth DEF Sound
  <2> QED
    BY <1>1, <1>2, <2>2, <2>3, <2>7, CallbackConserves
<1> QED
  BY <1>8, <1>9

(* Every buffer that is with the component is somewhere the player is not.                *)
LEMMA FillBufferDoneKeeps == ASSUME IInv, NEW b \in Outputs, FillBufferDone(b) PROVE Kept
<1>0. /\ c \in Codec /\ Sound(c) /\ Typed /\ Fits(c, inbox)
  BY InUse
<1>1. /\ b \in DOMAIN c.out /\ c.out[b] = "component" /\ UNCHANGED <<inbox, player, held, left>>
      /\ Becomes(IF c.state = "Executing"
                 THEN Posts([c EXCEPT !.out[b] = "down"], Mesg("DrainThisBuffer", b, "-"))
                 ELSE [c EXCEPT !.out[b] = "us"])
  BY DEF FillBufferDone, Callback
<1>2. c # NewCodec /\ left' \in [Events -> Nat]
  BY <1>1, InUse
<1>3. /\ ~AllOurs(c) /\ ~Ours(c.out) /\ c.out # NoBuffers
      /\ c.state \in {"Executing", "FlushingOutput", "OutputPortSettingsChanged"} => c.active
      /\ c.state \notin {"LoadedToIdle", "IdleToExecuting"}
  BY <1>0, <1>1, Elsewhere DEF Ours, NoBuffers
<1>4. CASE c.state # "Executing"
  <2> DEFINE p == [c.out EXCEPT ![b] = "us"]
             e == [c EXCEPT !.out[b] = "us"]
  <2>1. p \in OutPort /\ DOMAIN p = DOMAIN c.out /\ p[b] = "us" /\ \A d \in DOMAIN p : d # b => p[d] = c.out[d]
    BY <1>0, <1>1, OutPortExcept DEF Codec
  <2>2. e = [c EXCEPT !.out = p] /\ Becomes(e)
    BY <1>0, <1>1, <1>4 DEF Codec
  <2> HIDE DEF p
  <2>3. /\ e \in Codec /\ e.out = p /\ e.state = c.state /\ e.shutdown = c.shutdown
        /\ e.in = c.in /\ e.post = c.post /\ e.deferred = c.deferred /\ e.bad = c.bad
        /\ e.cmd = c.cmd /\ e.flushed = c.flushed /\ e.nowIdle = c.nowIdle
        /\ e.active = c.active /\ e.ieos = c.ieos /\ e.oeos = c.oeos /\ e.res = c.res
    BY <1>0, <2>1, <2>2 DEF Codec
  <2> HIDE DEF e
  <2>4. Conserves(c, e)
    <3>1. Alike(c, e)
      BY <1>1, <2>1, <2>3 DEF Alike
    <3> QED
      BY <2>3, <3>1, AlikeConserves
  <2>5. Commanded(e)
    BY <1>0, <1>3, <2>3 DEF Sound, Commanded
  <2>6. Resting(e)
    BY <1>0, <1>3, <2>3 DEF Sound, Resting
  <2>7. Busy(e)
    BY <1>0, <1>4, <2>3 DEF Sound, Busy
  <2>8. Sound(e)
    BY <1>0, <2>3, <2>5, <2>6, <2>7 DEF Sound
  <2> QED
    BY <1>1, <1>2, <2>2, <2>3, <2>4, <2>8, CallbackConserves
<1>5. CASE c.state = "Executing"
  <2> DEFINE p == [c.out EXCEPT ![b] = "down"]
             e == [c EXCEPT !.out[b] = "down"]
             m == Mesg("DrainThisBuffer", b, "-")
             k == Posts(e, m)
  <2>1. p \in OutPort /\ DOMAIN p = DOMAIN c.out /\ p[b] = "down" /\ \A d \in DOMAIN p : d # b => p[d] = c.out[d]
    BY <1>0, <1>1, OutPortExcept DEF Codec
  <2>2. e = [c EXCEPT !.out = p] /\ Becomes(k)
    BY <1>0, <1>1, <1>5 DEF Codec
  <2> HIDE DEF p
  <2>3. /\ e \in Codec /\ e.out = p /\ e.state = c.state /\ e.shutdown = c.shutdown
        /\ e.in = c.in /\ e.post = c.post /\ e.deferred = c.deferred /\ e.bad = c.bad
        /\ e.cmd = c.cmd /\ e.flushed = c.flushed /\ e.nowIdle = c.nowIdle
        /\ e.active = c.active /\ e.ieos = c.ieos /\ e.oeos = c.oeos /\ e.res = c.res
    BY <1>0, <2>1, <2>2 DEF Codec
  <2>4. m \in Note /\ m.what = "DrainThisBuffer" /\ m.buf = b
    BY DEF Mesg, Note
  <2> HIDE DEF e, m
  <2>5. Commanded(e)
    BY <1>0, <1>5, <2>3 DEF Sound, Commanded
  <2>6. Resting(e)
    BY <1>0, <1>3, <1>5, <2>3 DEF Sound, Resting
  <2>7. Busy(e)
    BY <1>0, <1>5, <2>1, <2>3 DEF Sound, Busy
  <2>8. Sound(e)
    BY <1>0, <2>3, <2>5, <2>6, <2>7 DEF Sound
  <2>9. Sound(k) /\ k = [e EXCEPT !.post = Append(e.post, m)]
    BY <2>3, <2>4, <2>8, PostsIsSound, PostsDoes
  <2>10. k.state = c.state /\ k.shutdown = c.shutdown
    BY <2>3, <2>9 DEF Codec
  <2>11. Conserves(c, k)
    <3>1. \A d : Up(e, d) = Up(c, d)
      BY <2>3 DEF Up
    <3>2. \A d : d # b => Down(e, d) = Down(c, d)
      BY <2>1, <2>3 DEF Down
    <3>3. Down(e, b) = 1 /\ Down(c, b) = 0
      BY <1>1, <2>1, <2>3 DEF Down, One
    <3>4. \A d : /\ Is(m, "FillThisBuffer", d) = 0 /\ Is(m, "FlushCompleted", d) = 0
                 /\ Is(m, "ShutdownCompleted", d) = 0
                 /\ (d # b => Is(m, "DrainThisBuffer", d) = 0)
      BY <2>4, IsType
    <3>5. Is(m, "DrainThisBuffer", b) = 1
      BY <2>4, IsType
    <3>6. \A d : /\ InSum(k, d) = InSum(e, d) + Is(m, "FillThisBuffer", d)
                 /\ OutSum(k, d) = OutSum(e, d) + Is(m, "DrainThisBuffer", d)
      BY <2>3, <2>4, NoteAdds
    <3>7. /\ FlushSum(k) = FlushSum(e) + Is(m, "FlushCompleted", 0)
          /\ ShutdownSum(k) = ShutdownSum(e) + Is(m, "ShutdownCompleted", 0)
      BY <2>3, <2>4, NoteAdds
    <3>8. \A d : InSum(e, d) \in Int /\ OutSum(e, d) \in Int /\ OutSum(c, d) \in Int
      BY <1>0, <2>3, SumTypes
    <3>9. FlushSum(e) \in Int /\ ShutdownSum(e) \in Int
      BY <2>3, SumTypes
    <3> HIDE DEF k
    <3>10. \A d \in Inputs : InSum(k, d) = InSum(c, d)
      <4>1. \A d : InSum(e, d) = InSum(c, d)
        BY <2>3, <3>1 DEF InSum
      <4> QED
        BY <3>4, <3>6, <3>8, <4>1
    <3>11. \A d \in Outputs : OutSum(k, d) = OutSum(c, d)
      <4> SUFFICES ASSUME NEW d \in Outputs PROVE OutSum(k, d) = OutSum(c, d)
        OBVIOUS
      <4>1. OutSum(k, d) = OutSum(e, d) + Is(m, "DrainThisBuffer", d) /\ OutSum(e, d) \in Int
        BY <3>6, <3>8
      <4>2. CASE d = b
        <5>1. HowMany(c.post, "DrainThisBuffer", b) \in Nat
          BY <1>0, SumTypes
        <5>2. OutSum(c, b) = OutSum(e, b) + 1
          BY <2>3, <3>3, <5>1 DEF OutSum
        <5> QED
          BY <3>5, <4>1, <4>2, <5>2
      <4>3. CASE d # b
        <5>1. OutSum(e, d) = OutSum(c, d)
          BY <2>3, <3>2, <4>3 DEF OutSum
        <5> QED
          BY <3>4, <4>1, <4>3, <5>1
      <4> QED
        BY <4>2, <4>3
    <3>12. FlushSum(k) = FlushSum(c)
      <4>1. FlushSum(e) = FlushSum(c)
        BY <2>3 DEF FlushSum
      <4> QED
        BY <3>4, <3>7, <3>9, <4>1
    <3>13. ShutdownSum(k) = ShutdownSum(c)
      <4>1. ShutdownSum(e) = ShutdownSum(c)
        BY <2>3 DEF ShutdownSum
      <4> QED
        BY <3>4, <3>7, <3>9, <4>1
    <3> QED
      BY <3>10, <3>11, <3>12, <3>13 DEF Conserves
  <2> QED
    BY <1>1, <1>2, <2>2, <2>9, <2>10, <2>11, CallbackConserves
<1> QED
  BY <1>4, <1>5

LEMMA FillBufferDoneEOSKeeps == ASSUME IInv, NEW b \in Outputs, FillBufferDoneEOS(b) PROVE Kept
<1>0. /\ c \in Codec /\ Sound(c) /\ Typed /\ Fits(c, inbox)
  BY InUse
<1> DEFINE p == [c.out EXCEPT ![b] = "us"]
           e == [c EXCEPT !.out[b] = "us", !.oeos = TRUE, !.ending = FALSE]
           m == Mesg("EOS", 0, c.res)
           k == Posts(e, m)
<1>1. /\ b \in DOMAIN c.out /\ c.out[b] = "component" /\ UNCHANGED <<inbox, player, held, left>>
      /\ c.state = "Executing" /\ Becomes(k)
  BY DEF FillBufferDoneEOS, Callback
<1>2. c # NewCodec /\ left' \in [Events -> Nat] /\ c.active
  BY <1>0, <1>1, InUse, Elsewhere
<1>3. p \in OutPort /\ DOMAIN p = DOMAIN c.out /\ p[b] = "us" /\ \A d \in DOMAIN p : d # b => p[d] = c.out[d]
  BY <1>0, <1>1, OutPortExcept DEF Codec
<1>4. e = [c EXCEPT !.out = p, !.oeos = TRUE, !.ending = FALSE]
  BY <1>0 DEF Codec
<1>5. m \in Note /\ m.what = "EOS"
  BY <1>0 DEF Codec, Mesg, Note
<1> HIDE DEF p
<1>6. /\ e \in Codec /\ e.out = p /\ e.state = c.state /\ e.shutdown = c.shutdown
      /\ e.in = c.in /\ e.post = c.post /\ e.deferred = c.deferred /\ e.bad = c.bad
      /\ e.cmd = c.cmd /\ e.flushed = c.flushed /\ e.nowIdle = c.nowIdle
      /\ e.active = c.active /\ e.ieos = c.ieos /\ e.oeos = TRUE /\ e.res = c.res
  BY <1>0, <1>3, <1>4 DEF Codec
<1> HIDE DEF e, m
<1>7. Conserves(c, e)
  <2>1. Alike(c, e)
    BY <1>1, <1>3, <1>6 DEF Alike
  <2> QED
    BY <1>6, <2>1, AlikeConserves
<1>8. Commanded(e)
  BY <1>0, <1>1, <1>6 DEF Sound, Commanded
<1>9. Resting(e)
  BY <1>0, <1>1, <1>2, <1>6 DEF Sound, Resting
<1>10. Busy(e)
  BY <1>0, <1>6 DEF Sound, Busy
<1>11. Sound(e)
  BY <1>0, <1>6, <1>8, <1>9, <1>10 DEF Sound
<1>12. Sound(k) /\ k = [e EXCEPT !.post = Append(e.post, m)] /\ Conserves(e, k)
  BY <1>5, <1>6, <1>11, PostsIsSound, PostsDoes, NoteConserves
<1>13. k.state = c.state /\ k.shutdown = c.shutdown
  BY <1>6, <1>12 DEF Codec
<1>14. Conserves(c, k)
  BY <1>7, <1>12, ConservesBoth
<1> QED
  BY <1>1, <1>2, <1>12, <1>13, <1>14, CallbackConserves

-----------------------------------------------------------------------------
(*                   Commands the component has obeyed                      *)

LEMMA Answers ==
    ASSUME NEW state \in DOMAIN CommandOf, NEW cmd \in CommandOf[state]
    PROVE  /\ cmd = "Idle" => state \in {"LoadedToIdle", "ExecutingToIdle"}
           /\ cmd = "Executing" => state = "IdleToExecuting"
           /\ cmd = "Loaded" => state = "IdleToLoaded"
           /\ cmd = "Flush" => state = "Flushing"
           /\ cmd = "FlushOutput" => state = "FlushingOutput"
           /\ cmd \in {"Disable", "Enable"} => state = "OutputPortSettingsChanged"
           /\ state # "Uninitialized"
<1>1. DOMAIN CommandOf = {"LoadedToIdle", "IdleToExecuting", "ExecutingToIdle", "IdleToLoaded", "Flushing",
                          "FlushingOutput", "OutputPortSettingsChanged"}
  BY DEF CommandOf
<1>2. /\ CommandOf["LoadedToIdle"] = {"Idle"} /\ CommandOf["IdleToExecuting"] = {"Executing"}
      /\ CommandOf["ExecutingToIdle"] = {"Idle"} /\ CommandOf["IdleToLoaded"] = {"Loaded"}
      /\ CommandOf["Flushing"] = {"Flush"} /\ CommandOf["FlushingOutput"] = {"FlushOutput"}
      /\ CommandOf["OutputPortSettingsChanged"] = {"Disable", "Enable"}
  BY DEF CommandOf
<1> QED
  BY <1>1, <1>2

Same(k, k2) ==
    /\ k2.active = k.active /\ k2.in = k.in /\ k2.out = k.out /\ k2.ieos = k.ieos /\ k2.oeos = k.oeos
    /\ k2.res = k.res /\ k2.shutdown = k.shutdown /\ k2.deferred = k.deferred /\ k2.post = k.post
    /\ k2.bad = k.bad /\ k2.missed = k.missed

LEMMA ObeyedDoes ==
    ASSUME IInv
    PROVE  /\ Obeyed \in Codec /\ Obeyed.cmd = "none" /\ Same(c, Obeyed) /\ Obeyed.state = c.state
           /\ Obeyed.nowIdle = c.nowIdle /\ Obeyed.flushed = c.flushed /\ Obeyed.ending = c.ending
<1>1. c \in Codec
  BY InUse
<1> QED
  BY <1>1 DEF Obeyed, Codec, Commands, Same

LEMMA SameConserves ==
    ASSUME NEW k, NEW k2, Same(k, k2),
           k2.state = "Flushing" <=> k.state = "Flushing", k2.state \in Stopped <=> k.state \in Stopped
    PROVE  Conserves(k, k2)
<1>1. Alike(k, k2)
  BY DEF Alike, Same
<1> QED
  BY <1>1, AlikeConserves

LEMMA CompletesDoes ==
    ASSUME IInv, NEW cmd, Completes(cmd)
    PROVE  /\ UNCHANGED <<inbox, player, held>> /\ left' \in [Events -> Nat] /\ c # NewCodec
           /\ c.cmd = cmd /\ c.state \in DOMAIN CommandOf /\ cmd \in CommandOf[c.state]
<1>1. /\ UNCHANGED <<inbox, player, held, left>>
      /\ c.cmd = cmd /\ c.state \in DOMAIN CommandOf /\ cmd \in CommandOf[c.state]
  BY DEF Completes, Callback
<1>2. c.state # "Uninitialized"
  BY <1>1, Answers
<1> QED
  BY <1>1, <1>2, InUse

LEMMA NowIdleKeeps == ASSUME IInv, NowIdle PROVE Kept
<1>0. /\ c \in Codec /\ Sound(c) /\ Typed /\ Fits(c, inbox)
  BY InUse
<1>1. /\ UNCHANGED <<inbox, player, held>> /\ left' \in [Events -> Nat] /\ c # NewCodec
      /\ c.state \in {"LoadedToIdle", "ExecutingToIdle"}
  BY CompletesDoes, Answers DEF NowIdle
<1>2. CASE c.state = "LoadedToIdle"
  <2> DEFINE e == [Obeyed EXCEPT !.state = "IdleToExecuting", !.cmd = "Executing"]
  <2>1. Obeyed \in Codec /\ Obeyed.cmd = "none" /\ Same(c, Obeyed)
    BY ObeyedDoes
  <2>2. Sends([Obeyed EXCEPT !.state = "IdleToExecuting"], "Executing") = e
    BY <2>1 DEF Sends, Codec
  <2>3. Becomes(e)
    BY <1>2, <2>2 DEF NowIdle
  <2>4. e \in Codec /\ e.state = "IdleToExecuting" /\ e.cmd = "Executing" /\ Same(c, e)
    BY <2>1 DEF Codec, StateNames, Commands, Same
  <2> HIDE DEF e
  <2>5. Commanded(e)
    BY <2>4 DEF Commanded
  <2>6. Resting(e)
    BY <1>0, <1>2, <2>4 DEF Sound, Resting, Same, AllOurs
  <2>7. Busy(e)
    BY <1>0, <1>2, <2>4 DEF Sound, Busy, Same
  <2>8. Sound(e)
    BY <1>0, <2>4, <2>5, <2>6, <2>7 DEF Sound, Same
  <2>9. Conserves(c, e)
    BY <1>2, <2>4, SameConserves DEF Stopped
  <2> QED
    BY <1>1, <2>3, <2>4, <2>8, <2>9, CallbackConserves DEF Stopped
<1>3. CASE c.state = "ExecutingToIdle"
  <2> DEFINE e == [Obeyed EXCEPT !.nowIdle = TRUE]
  <2>1. Obeyed \in Codec /\ Obeyed.cmd = "none" /\ Same(c, Obeyed) /\ Obeyed.state = c.state
    BY ObeyedDoes
  <2>2. Becomes(ChangeState(e))
    BY <1>3 DEF NowIdle
  <2>3. /\ e \in Codec /\ e.state = c.state /\ e.cmd = "none" /\ e.nowIdle = TRUE /\ Same(c, e)
    BY <2>1 DEF Codec, Same
  <2> HIDE DEF e
  <2>4. Commanded(e)
    BY <1>3, <2>3 DEF Commanded
  <2>5. Resting(e)
    BY <1>3, <2>3 DEF Resting
  <2>6. Busy(e)
    BY <1>0, <1>3, <2>3 DEF Sound, Busy, Same
  <2>7. Sound(e)
    BY <1>0, <2>3, <2>4, <2>5, <2>6 DEF Sound, Same
  <2>8. Conserves(c, e) /\ e.shutdown = c.shutdown
    BY <2>3, SameConserves DEF Same
  <2> QED
    BY <1>1, <2>2, <2>3, <2>7, <2>8, CallbackConserves
<1> QED
  BY <1>1, <1>2, <1>3

(* A state that ends in Executing, from which nothing else was owed.                     *)
LEMMA EnterOwes ==
    ASSUME IInv, c.state # "Flushing", NEW k, k.state = c.state, Conserves(c, k)
    PROVE  Owes(k, inbox)
<1>0. Fits(c, inbox)
  BY InUse
<1>1. One(k.state = "Flushing") = 0 /\ One(player = "flushing") \in Nat
  BY DEF One
<1>2. FlushSum(k) + HowMany(outbox, "FlushCompleted", 0) + HowMany(inbox, "Flush", 0)
          = One(player = "flushing") + One(k.state = "Flushing")
  BY <1>0, <1>1 DEF Fits, Balanced, Conserves
<1> QED
  BY <1>0, <1>2 DEF Owes, Fits, Balanced, Conserves

LEMMA EnterKeeps ==
    ASSUME IInv, c # NewCodec, UNCHANGED <<inbox, player, held>>, left' \in [Events -> Nat],
           c.state \notin {"Flushing"} \cup Stopped,
           NEW k \in Codec, k.state = c.state, Conserves(c, k), Sound(Opened(k)), Becomes(EnterExecuting(k))
    PROVE  Kept
<1>1. Typed /\ Owes(k, inbox)
  BY InUse, EnterOwes
<1>2. Stops(c, inbox) => Stops(k, inbox) /\ k.state \notin Stopped
  BY DEF Stops, Conserves, Stopped
<1>3. Fits(EnterExecuting(k), inbox) /\ (Stops(c, inbox) => Stops(EnterExecuting(k), inbox))
  BY <1>1, <1>2, EnterFits
<1> QED
  BY <1>3, CallbackKeeps

(* The component executes: the codec is made active, and enters Executing.               *)
LEMMA ExecutingOpens ==
    ASSUME IInv, NowExecuting
    PROVE  \E k \in Codec :
              /\ k.state = c.state /\ Conserves(c, k) /\ Sound(Opened(k)) /\ Becomes(EnterExecuting(k))
              /\ k.active = TRUE /\ k.deferred = c.deferred /\ k.oeos = c.oeos /\ k.ending = c.ending
              /\ k.flushed = c.flushed /\ DOMAIN k.out = DOMAIN c.out
              /\ \A b \in DOMAIN k.out : k.out[b] = "window" <=> c.out[b] = "window"
              /\ UNCHANGED <<inbox, player, held>> /\ left' \in [Events -> Nat] /\ c # NewCodec
              /\ c.state = "IdleToExecuting"
<1>0. /\ c \in Codec /\ Sound(c) /\ Typed /\ Fits(c, inbox)
  BY InUse
<1>1. /\ UNCHANGED <<inbox, player, held>> /\ left' \in [Events -> Nat] /\ c # NewCodec
      /\ c.state = "IdleToExecuting"
  BY CompletesDoes, Answers DEF NowExecuting
<1> DEFINE o == Obeyed
           k == Resumed(o)
           e == Opened(k)
<1>2. Becomes(EnterExecuting(k))
  BY DEF NowExecuting
<1>3. o \in Codec /\ o.cmd = "none" /\ Same(c, o) /\ o.state = c.state
      /\ o.flushed = c.flushed /\ o.ending = c.ending
  BY ObeyedDoes
<1>4. ~c.active /\ DOMAIN c.in = Inputs /\ AllOurs(c)
  BY <1>0, <1>1 DEF Sound, Resting
<1> HIDE DEF o
<1>5. Resumable(o) /\ ~o.active
  BY <1>0, <1>3, <1>4 DEF Resumable, Same, Sound, Busy, AllOurs
<1>6. /\ k \in Codec
      /\ k = [o EXCEPT !.active = TRUE, !.in = k.in, !.out = k.out, !.post = k.post]
      /\ DOMAIN k.in = Inputs
      /\ \A b \in DOMAIN k.out : k.out[b] # "us"
      /\ k.res # "no" \/ \E b \in DOMAIN k.in : k.in[b] # "us"
      /\ DOMAIN k.out = DOMAIN o.out
      /\ \A b \in DOMAIN k.out : k.out[b] = "window" <=> o.out[b] = "window"
      /\ Conserves(o, k)
  <2>1. PICK x : x = Resumed(o)
    OBVIOUS
  <2>2. /\ Resumed(o) \in Codec
        /\ Resumed(o) = [o EXCEPT !.active = TRUE, !.in = Resumed(o).in, !.out = Resumed(o).out,
                                  !.post = Resumed(o).post]
        /\ DOMAIN Resumed(o).in = Inputs /\ DOMAIN Resumed(o).out = DOMAIN o.out
        /\ \A b \in DOMAIN o.out : Resumed(o).out[b] = "window" <=> o.out[b] = "window"
        /\ Conserves(o, Resumed(o))
    BY <1>5, ResumedDoes
  <2>3. /\ \A b \in DOMAIN Resumed(o).out : Resumed(o).out[b] # "us"
        /\ o.res # "no" \/ \E b \in DOMAIN Resumed(o).in : Resumed(o).in[b] # "us"
    BY <1>5, ResumedDoes
  <2>4. x.res = o.res
    BY <1>3, <2>1, <2>2 DEF Codec
  <2> QED
    BY <2>1, <2>2, <2>3, <2>4
<1> HIDE DEF k
<1>7. k.active = TRUE /\ k.state = "IdleToExecuting" /\ k.cmd = "none" /\ k.ieos = c.ieos
      /\ k.res = c.res /\ k.bad = c.bad /\ k.deferred = c.deferred /\ k.oeos = c.oeos
      /\ k.ending = c.ending /\ k.flushed = c.flushed
  <2>1. o \in Codec /\ k = [o EXCEPT !.active = TRUE, !.in = k.in, !.out = k.out, !.post = k.post]
    BY <1>3, <1>6
  <2>2. k.active = TRUE /\ k.state = o.state /\ k.cmd = o.cmd /\ k.ieos = o.ieos /\ k.res = o.res
    BY <2>1 DEF Codec
  <2>3. /\ k.bad = o.bad /\ k.deferred = o.deferred /\ k.oeos = o.oeos
        /\ k.ending = o.ending /\ k.flushed = o.flushed
    BY <2>1 DEF Codec
  <2> QED
    BY <1>1, <1>3, <2>2, <2>3 DEF Same
<1>8. Conserves(c, k)
  <2>1. Conserves(c, o)
    BY <1>3, SameConserves
  <2> QED
    BY <1>6, <2>1, ConservesBoth
<1>9. /\ e \in Codec /\ e.state = "Executing" /\ e.active = TRUE /\ e.cmd = "none" /\ e.ieos = k.ieos
      /\ e.res = k.res /\ e.in = k.in /\ e.out = k.out /\ e.bad = k.bad
  BY <1>6, <1>7, EmptySeq DEF Opened, Codec, StateNames
<1> HIDE DEF e
<1>10. Sound(e)
  <2>1. Commanded(e)
    BY <1>9 DEF Commanded
  <2>2. Resting(e)
    BY <1>6, <1>9 DEF Resting
  <2>3. Busy(e)
    BY <1>0, <1>6, <1>7, <1>9 DEF Sound, Busy
  <2> QED
    BY <1>0, <1>7, <1>9, <2>1, <2>2, <2>3 DEF Sound
<1>11. DOMAIN k.out = DOMAIN c.out /\ \A b \in DOMAIN k.out : k.out[b] = "window" <=> c.out[b] = "window"
  BY <1>3, <1>6 DEF Same
<1> QED
  BY <1>1, <1>2, <1>6, <1>7, <1>8, <1>10, <1>11 DEF e

LEMMA NowExecutingKeeps == ASSUME IInv, NowExecuting PROVE Kept
<1>1. PICK k \in Codec :
        /\ k.state = c.state /\ Conserves(c, k) /\ Sound(Opened(k)) /\ Becomes(EnterExecuting(k))
        /\ UNCHANGED <<inbox, player, held>> /\ left' \in [Events -> Nat] /\ c # NewCodec
        /\ c.state = "IdleToExecuting"
  BY ExecutingOpens
<1> QED
  BY <1>1, EnterKeeps DEF Stopped

(* The node is freed: what was owed but the shutdown is owed still.                      *)
LEMMA FreedDoes ==
    ASSUME NEW k \in Codec, k.bad = "none", k.cmd = "none", k.ieos => k.res # "no"
    PROVE  /\ Sound(FreesNode(k)) /\ FreesNode(k).state = "Uninitialized"
           /\ \A b : InSum(FreesNode(k), b) = InSum(k, b) /\ OutSum(FreesNode(k), b) = OutSum(k, b)
           /\ k.state # "Flushing" => FlushSum(FreesNode(k)) = FlushSum(k)
           /\ k.state \in Stopped => ShutdownSum(FreesNode(k)) = ShutdownSum(k)
<1> DEFINE u == [k EXCEPT !.state = "Uninitialized", !.shutdown = FALSE]
           m == Plain("ShutdownCompleted")
           e == Posts(u, m)
<1>2. FreesNode(k) = e
  BY DEF FreesNode
<1>3. /\ u \in Codec /\ u.state = "Uninitialized" /\ u.in = k.in /\ u.out = k.out /\ u.post = k.post
      /\ u.deferred = k.deferred /\ u.bad = k.bad /\ u.cmd = k.cmd /\ u.ieos = k.ieos /\ u.res = k.res
  BY DEF Codec, StateNames
<1>4. m \in Note /\ m.what = "ShutdownCompleted" /\ m.buf = 0
  BY PlainNotes
<1> HIDE DEF u, m
<1>5. Sound(u)
  <2>1. Commanded(u)
    BY <1>3 DEF Commanded
  <2>2. Resting(u)
    BY <1>3 DEF Resting
  <2>3. Busy(u)
    BY <1>3 DEF Busy
  <2> QED
    BY <1>3, <2>1, <2>2, <2>3 DEF Sound
<1>6. Sound(e) /\ e = [u EXCEPT !.post = Append(u.post, m)]
  BY <1>3, <1>4, <1>5, PostsIsSound, PostsDoes
<1>7. e.state = "Uninitialized"
  BY <1>3, <1>6 DEF Codec
<1>8. \A b : /\ InSum(e, b) = InSum(u, b) + Is(m, "FillThisBuffer", b)
             /\ OutSum(e, b) = OutSum(u, b) + Is(m, "DrainThisBuffer", b)
  BY <1>3, <1>4, NoteAdds
<1>9. /\ FlushSum(e) = FlushSum(u) + Is(m, "FlushCompleted", 0)
      /\ ShutdownSum(e) = ShutdownSum(u) + Is(m, "ShutdownCompleted", 0)
  BY <1>3, <1>4, NoteAdds
<1>10. \A b : Is(m, "FillThisBuffer", b) = 0 /\ Is(m, "DrainThisBuffer", b) = 0
              /\ Is(m, "FlushCompleted", b) = 0
  BY <1>4, IsType
<1>11. Is(m, "ShutdownCompleted", 0) = 1
  BY <1>4, IsType
<1> HIDE DEF e
<1>12. \A b : Up(u, b) = Up(k, b) /\ Down(u, b) = Down(k, b)
  BY <1>3 DEF Up, Down
<1>13. \A b : InSum(u, b) = InSum(k, b) /\ OutSum(u, b) = OutSum(k, b)
              /\ InSum(k, b) \in Int /\ OutSum(k, b) \in Int
  BY <1>3, <1>12, SumTypes DEF InSum, OutSum
<1>14. \A b : InSum(e, b) = InSum(k, b) /\ OutSum(e, b) = OutSum(k, b)
  BY <1>8, <1>10, <1>13
<1>15. ASSUME k.state # "Flushing" PROVE FlushSum(e) = FlushSum(k)
  <2>1. One(u.state = "Flushing") = 0 /\ One(k.state = "Flushing") = 0
    BY <1>3, <1>15 DEF One
  <2>2. FlushSum(u) = FlushSum(k) /\ FlushSum(k) \in Int
    BY <1>3, <2>1, SumTypes DEF FlushSum
  <2>3. FlushSum(e) = FlushSum(u) + Is(m, "FlushCompleted", 0) /\ Is(m, "FlushCompleted", 0) = 0
    BY <1>9, <1>10
  <2> QED
    BY <2>2, <2>3
<1>16. ASSUME k.state \in Stopped PROVE ShutdownSum(e) = ShutdownSum(k)
  <2>1. /\ One(u.state \in {"ExecutingToIdle", "IdleToLoaded"}) = 0
        /\ One(k.state \in {"ExecutingToIdle", "IdleToLoaded"}) = 1
    BY <1>3, <1>16 DEF One, Stopped
  <2>2. /\ HowMany(k.post, "ShutdownCompleted", 0) \in Nat /\ HowMany(k.deferred, "Shutdown", 0) \in Nat
    BY SumTypes
  <2>3. ShutdownSum(k) = ShutdownSum(u) + 1
    BY <1>3, <2>1, <2>2 DEF ShutdownSum
  <2> QED
    BY <1>9, <1>11, <2>3
<1> QED
  BY <1>2, <1>6, <1>7, <1>14, <1>15, <1>16

LEMMA NowLoadedKeeps == ASSUME IInv, NowLoaded PROVE Kept
<1>0. /\ c \in Codec /\ Sound(c) /\ Typed /\ Fits(c, inbox)
  BY InUse
<1>1. /\ UNCHANGED <<inbox, player, held>> /\ left' \in [Events -> Nat] /\ c # NewCodec
      /\ c.state = "IdleToLoaded"
  BY CompletesDoes, Answers DEF NowLoaded
<1>2. /\ Obeyed \in Codec /\ Obeyed.cmd = "none" /\ Same(c, Obeyed) /\ Obeyed.state = c.state
  BY ObeyedDoes
<1>3. \A b : Up(Obeyed, b) = Up(c, b) /\ Down(Obeyed, b) = Down(c, b)
  BY <1>2 DEF Up, Down, Same
<1>4. /\ \A b : InSum(Obeyed, b) = InSum(c, b) /\ OutSum(Obeyed, b) = OutSum(c, b)
      /\ FlushSum(Obeyed) = FlushSum(c) /\ ShutdownSum(Obeyed) = ShutdownSum(c)
  BY <1>2, <1>3 DEF InSum, OutSum, FlushSum, ShutdownSum, Same
<1>5. CASE c.shutdown
  <2> DEFINE k == FreesNode(Obeyed)
  <2>1. Obeyed.bad = "none" /\ (Obeyed.ieos => Obeyed.res # "no")
    BY <1>0, <1>2 DEF Same, Sound, Busy
  <2>2. /\ Sound(k) /\ k.state = "Uninitialized"
        /\ \A b : InSum(k, b) = InSum(Obeyed, b) /\ OutSum(k, b) = OutSum(Obeyed, b)
        /\ FlushSum(k) = FlushSum(Obeyed) /\ ShutdownSum(k) = ShutdownSum(Obeyed)
    BY <1>1, <1>2, <2>1, FreedDoes DEF Stopped
  <2>3. Becomes(k)
    BY <1>5 DEF NowLoaded
  <2> HIDE DEF k
  <2>4. Conserves(c, k)
    BY <1>4, <2>2 DEF Conserves
  <2> QED
    BY <1>1, <2>2, <2>3, <2>4, CallbackConserves DEF Stopped
<1>6. CASE ~c.shutdown
  <2> DEFINE k == [Obeyed EXCEPT !.state = "Loaded"]
  <2>1. Becomes(k)
    BY <1>6 DEF NowLoaded
  <2>2. k \in Codec /\ k.state = "Loaded" /\ k.cmd = "none" /\ Same(Obeyed, k)
    BY <1>2 DEF Codec, StateNames, Same
  <2> HIDE DEF k
  <2>3. Sound(k)
    <3>1. Commanded(k)
      BY <2>2 DEF Commanded
    <3>2. Resting(k)
      BY <2>2 DEF Resting
    <3>3. Busy(k)
      BY <1>0, <1>2, <2>2 DEF Sound, Busy, Same
    <3> QED
      BY <1>0, <1>2, <2>2, <3>1, <3>2, <3>3 DEF Sound, Same
  <2>4. \A b : Up(k, b) = Up(c, b) /\ Down(k, b) = Down(c, b)
    BY <1>2, <2>2 DEF Up, Down, Same
  <2>5. One(k.state = "Flushing") = 0 /\ One(c.state = "Flushing") = 0
    BY <1>1, <2>2 DEF One
  <2>6. /\ \A b : InSum(k, b) = InSum(c, b) /\ OutSum(k, b) = OutSum(c, b)
        /\ FlushSum(k) = FlushSum(c)
    BY <1>2, <2>2, <2>4, <2>5 DEF InSum, OutSum, FlushSum, Same
  <2>7. Fits(k, inbox)
    BY <1>0, <2>3, <2>6, FitsAlso
  <2>8. ~Stops(c, inbox)
    BY <1>1, <1>6 DEF Stops
  <2> QED
    BY <1>1, <2>1, <2>7, <2>8, CallbackKeeps
<1> QED
  BY <1>5, <1>6

LEMMA PortFlushed ==
    ASSUME IInv, NEW port \in {"in", "out"}, NowFlushed(port)
    PROVE  \E k : /\ Sound(k) /\ Conserves(c, k) /\ Same(c, k) /\ k.state = c.state
                  /\ Becomes(k) \/ Becomes(ChangeState(k))
                  /\ UNCHANGED <<inbox, player, held>> /\ left' \in [Events -> Nat] /\ c # NewCodec
                  /\ c.state = "Flushing"
<1>0. /\ c \in Codec /\ Sound(c) /\ Typed /\ Fits(c, inbox)
  BY InUse
<1>1. /\ UNCHANGED <<inbox, player, held>> /\ left' \in [Events -> Nat] /\ c # NewCodec
      /\ c.state = "Flushing" /\ c.cmd = "Flush"
  BY CompletesDoes, Answers DEF NowFlushed
<1>2. /\ Obeyed \in Codec /\ Obeyed.cmd = "none" /\ Same(c, Obeyed) /\ Obeyed.state = c.state
      /\ Obeyed.flushed = c.flushed
  BY ObeyedDoes
<1>3. ~c.active /\ DOMAIN c.in = Inputs
  BY <1>0, <1>1 DEF Sound, Resting
<1> DEFINE f == c.flushed \cup {port}
<1>4. f \in SUBSET {"in", "out"}
  BY <1>0 DEF Codec
<1>5. ASSUME NEW o \in Codec, Same(c, o), o.state = c.state, o.flushed = c.flushed,
             \/ o.cmd = "none" /\ f = {"in", "out"}
             \/ o.cmd = "Flush" /\ f # {"in", "out"},
             NEW k, k = [o EXCEPT !.flushed = @ \cup {port}, !.ending = @ /\ port # "in"],
             Becomes(k) \/ Becomes(ChangeState(k))
      PROVE  Sound(k) /\ Conserves(c, k) /\ Same(c, k) /\ k.state = c.state
  <2>1. k = [o EXCEPT !.flushed = f, !.ending = o.ending /\ port # "in"]
    BY <1>5 DEF Codec
  <2>2. k \in Codec /\ k.state = "Flushing" /\ k.cmd = o.cmd /\ k.flushed = f /\ Same(c, k)
    <3> DEFINE x == o.ending /\ port # "in"
    <3>1. x \in BOOLEAN
      OBVIOUS
    <3>2. k = [o EXCEPT !.flushed = f, !.ending = x]
      BY <2>1
    <3> HIDE DEF x, f
    <3>3. o \in Codec
      BY <1>5
    <3>4. k \in Codec
      BY <1>4, <3>1, <3>2, <3>3 DEF Codec
    <3>5. k.state = o.state /\ k.cmd = o.cmd /\ k.flushed = f
      BY <3>2, <3>3 DEF Codec
    <3>6. Same(o, k)
      BY <3>2, <3>3 DEF Codec, Same
    <3> QED
      BY <1>1, <1>5, <3>4, <3>5, <3>6 DEF Same
  <2>3. Commanded(k)
    BY <1>5, <2>2 DEF Commanded
  <2>4. Resting(k)
    BY <1>3, <2>2 DEF Resting, Same
  <2>5. Busy(k)
    BY <1>0, <1>3, <2>2 DEF Sound, Busy, Same
  <2>6. Sound(k)
    BY <1>0, <2>2, <2>3, <2>4, <2>5 DEF Sound, Same
  <2>7. Conserves(c, k)
    BY <1>1, <2>2, SameConserves DEF Stopped
  <2> QED
    BY <1>1, <2>2, <2>6, <2>7
<1>6. CASE f = {"in", "out"}
  <2>1. Becomes(ChangeState([Obeyed EXCEPT !.flushed = @ \cup {port}, !.ending = @ /\ port # "in"]))
    BY <1>6 DEF NowFlushed
  <2> HIDE DEF f
  <2>2. PICK k : k = [Obeyed EXCEPT !.flushed = @ \cup {port}, !.ending = @ /\ port # "in"]
    OBVIOUS
  <2>3. Becomes(ChangeState(k))
    BY <2>1, <2>2
  <2>4. Sound(k) /\ Conserves(c, k) /\ Same(c, k) /\ k.state = c.state
    BY <1>2, <1>5, <1>6, <2>2, <2>3
  <2> QED
    BY <1>1, <2>3, <2>4
<1>7. CASE f # {"in", "out"}
  <2>1. Becomes([c EXCEPT !.flushed = @ \cup {port}, !.ending = @ /\ port # "in"])
    BY <1>7 DEF NowFlushed
  <2>2. Same(c, c)
    BY DEF Same
  <2> HIDE DEF f
  <2>3. PICK k : k = [c EXCEPT !.flushed = @ \cup {port}, !.ending = @ /\ port # "in"]
    OBVIOUS
  <2>4. Becomes(k)
    BY <2>1, <2>3
  <2>5. Sound(k) /\ Conserves(c, k) /\ Same(c, k) /\ k.state = c.state
    BY <1>0, <1>1, <1>5, <1>7, <2>2, <2>3, <2>4
  <2> QED
    BY <1>1, <2>4, <2>5
<1> QED
  BY <1>6, <1>7

LEMMA NowFlushedKeeps == ASSUME IInv, NEW port \in {"in", "out"}, NowFlushed(port) PROVE Kept
<1>1. PICK k : /\ Sound(k) /\ Conserves(c, k) /\ Same(c, k) /\ k.state = c.state
               /\ Becomes(k) \/ Becomes(ChangeState(k))
               /\ UNCHANGED <<inbox, player, held>> /\ left' \in [Events -> Nat] /\ c # NewCodec
               /\ c.state = "Flushing"
  BY PortFlushed
<1> QED
  BY <1>1, CallbackConserves DEF Stopped

LEMMA NowOutputFlushedKeeps == ASSUME IInv, NowOutputFlushed PROVE Kept
<1>0. /\ c \in Codec /\ Sound(c) /\ Typed /\ Fits(c, inbox)
  BY InUse
<1>1. /\ UNCHANGED <<inbox, player, held>> /\ left' \in [Events -> Nat] /\ c # NewCodec
      /\ c.state = "FlushingOutput"
  BY CompletesDoes, Answers DEF NowOutputFlushed
<1>2. /\ Obeyed \in Codec /\ Obeyed.cmd = "none" /\ Same(c, Obeyed) /\ Obeyed.state = c.state
  BY ObeyedDoes
<1> DEFINE k == [Obeyed EXCEPT !.flushed = {"out"}]
<1>3. Becomes(ChangeState(k))
  BY DEF NowOutputFlushed
<1>4. k \in Codec /\ k.state = c.state /\ k.cmd = "none" /\ k.flushed = {"out"} /\ Same(c, k)
  BY <1>2 DEF Codec, Same
<1> HIDE DEF k
<1>5. Commanded(k)
  BY <1>1, <1>4 DEF Commanded
<1>6. Resting(k)
  BY <1>0, <1>4 DEF Sound, Resting, Same, AllOurs
<1>7. Busy(k)
  BY <1>0, <1>4 DEF Sound, Busy, Same
<1>8. Sound(k)
  BY <1>0, <1>4, <1>5, <1>6, <1>7 DEF Sound, Same
<1>9. Conserves(c, k)
  BY <1>4, SameConserves
<1> QED
  BY <1>1, <1>3, <1>4, <1>8, <1>9, CallbackConserves DEF Same

LEMMA NowDisabledKeeps == ASSUME IInv, NowDisabled PROVE Kept
<1>0. /\ c \in Codec /\ Sound(c) /\ Typed /\ Fits(c, inbox)
  BY InUse
<1>1. /\ UNCHANGED <<inbox, player, held>> /\ left' \in [Events -> Nat] /\ c # NewCodec
      /\ c.state = "OutputPortSettingsChanged" /\ c.cmd = "Disable"
  BY CompletesDoes, Answers DEF NowDisabled
<1>2. /\ Obeyed \in Codec /\ Obeyed.cmd = "none" /\ Same(c, Obeyed) /\ Obeyed.state = c.state
  BY ObeyedDoes
<1>3. c.out = NoBuffers /\ DOMAIN c.out = {}
  BY <1>0, <1>1 DEF Sound, Commanded, NoBuffers
<1> DEFINE w == [b \in Outputs |-> IF HasWindow /\ b > NumOutput - MinUndequeued THEN "window" ELSE "us"]
           k == [Obeyed EXCEPT !.cmd = "Enable", !.out = w]
<1>4. AllocateOutputs(Sends(Obeyed, "Enable")) = k
  BY <1>2 DEF AllocateOutputs, Sends, Codec
<1>5. Becomes(k)
  BY <1>3, <1>4 DEF NowDisabled
<1>6. w \in OutPort /\ DOMAIN w = Outputs /\ \A b \in Outputs : w[b] \in {"us", "window"}
  BY DEF OutPort
<1> HIDE DEF w
<1>7. /\ k \in Codec /\ k.state = c.state /\ k.cmd = "Enable" /\ k.out = w
      /\ k.active = c.active /\ k.in = c.in /\ k.ieos = c.ieos /\ k.res = c.res /\ k.shutdown = c.shutdown
      /\ k.deferred = c.deferred /\ k.post = c.post /\ k.bad = c.bad
  BY <1>2, <1>6 DEF Codec, Commands, Same
<1> HIDE DEF k
<1>8. Commanded(k)
  BY <1>1, <1>6, <1>7 DEF Commanded, Ours
<1>9. Resting(k)
  BY <1>0, <1>1, <1>6, <1>7 DEF Sound, Resting, AllOurs, Ours
<1>10. Busy(k)
  BY <1>0, <1>1, <1>7 DEF Sound, Busy
<1>11. Sound(k)
  BY <1>0, <1>7, <1>8, <1>9, <1>10 DEF Sound
<1>12. Conserves(c, k)
  <2>1. Alike(c, k)
    BY <1>3, <1>6, <1>7 DEF Alike
  <2> QED
    BY <1>7, <2>1, AlikeConserves
<1> QED
  BY <1>1, <1>5, <1>7, <1>11, <1>12, CallbackConserves

(* Only the balance of the shutdowns is lost.                                        *)
LEMMA NowDisabledFailsKeeps == ASSUME IInv, NowDisabledFails PROVE IInv'
<1>0. /\ c \in Codec /\ Sound(c) /\ Typed /\ Fits(c, inbox)
  BY InUse
<1>1. /\ UNCHANGED <<inbox, player, held>> /\ left' \in [Events -> Nat]
      /\ c.state = "OutputPortSettingsChanged"
      /\ Becomes(FreesNode(Posts(Obeyed, Plain("Error"))))
  BY SpendKeeps, SpendsAnEvent DEF NowDisabledFails, SignalsError
<1>2. c # NewCodec
  BY <1>1, InUse
<1>3. /\ Obeyed \in Codec /\ Obeyed.cmd = "none" /\ Same(c, Obeyed) /\ Obeyed.state = c.state
  BY ObeyedDoes
<1> DEFINE u == Posts(Obeyed, Plain("Error"))
           k == FreesNode(u)
<1>4. /\ u \in Codec /\ u = [Obeyed EXCEPT !.post = Append(Obeyed.post, Plain("Error"))]
      /\ Conserves(Obeyed, u)
  BY <1>3, PlainNotes, PostsDoes, NoteConserves
<1>5. Conserves(c, Obeyed)
  BY <1>3, SameConserves
<1> HIDE DEF u
<1>6. u.state = c.state /\ u.cmd = "none" /\ u.bad = c.bad /\ u.ieos = c.ieos /\ u.res = c.res
  BY <1>3, <1>4 DEF Codec, Same
<1>7. u.bad = "none" /\ (u.ieos => u.res # "no")
  BY <1>0, <1>6 DEF Sound, Busy
<1>8. /\ Sound(k)
      /\ \A b : InSum(k, b) = InSum(u, b) /\ OutSum(k, b) = OutSum(u, b)
      /\ FlushSum(k) = FlushSum(u)
  BY <1>1, <1>4, <1>6, <1>7, FreedDoes
<1>9. Becomes(k)
  BY <1>1 DEF u
<1> HIDE DEF k
<1>10. Conserves(c, u)
  BY <1>4, <1>5, ConservesBoth
<1>11. Fits(k, inbox)
  BY <1>0, <1>8, <1>10, FitsAlso DEF Conserves
<1> QED
  BY <1>1, <1>2, <1>9, <1>11, CallbackBecomes

(* The port is enabled: an active codec gets the new buffers.                            *)
EnabledAs(k) ==
    /\ k.state = c.state /\ Conserves(c, k) /\ Sound(Opened(k)) /\ Becomes(EnterExecuting(k))
    /\ k.active = c.active /\ k.missed = c.missed /\ k.deferred = c.deferred /\ k.oeos = c.oeos
    /\ k.ending = c.ending
    /\ k.flushed = c.flushed /\ k.post = c.post /\ DOMAIN k.out = DOMAIN c.out
    /\ \A b \in DOMAIN k.out : k.out[b] = "window" <=> c.out[b] = "window"

LEMMA EnabledOpens ==
    ASSUME IInv, NowEnabled
    PROVE  /\ \E k \in Codec : EnabledAs(k)
           /\ UNCHANGED <<inbox, player, held>> /\ left' \in [Events -> Nat] /\ c # NewCodec
           /\ c.state = "OutputPortSettingsChanged"
<1>0. /\ c \in Codec /\ Sound(c) /\ Typed /\ Fits(c, inbox)
  BY InUse
<1>1. /\ UNCHANGED <<inbox, player, held>> /\ left' \in [Events -> Nat] /\ c # NewCodec
      /\ c.state = "OutputPortSettingsChanged" /\ c.cmd = "Enable"
  BY CompletesDoes, Answers DEF NowEnabled
<1>2. /\ Obeyed \in Codec /\ Obeyed.cmd = "none" /\ Same(c, Obeyed) /\ Obeyed.state = c.state
      /\ Obeyed.flushed = c.flushed /\ Obeyed.ending = c.ending
  BY ObeyedDoes
<1>3. Ours(c.out) /\ DOMAIN c.in = Inputs /\ (c.active \/ AllOurs(c)) /\ (c.ieos => c.res # "no")
      /\ (c.active => c.res # "no" \/ \E b \in DOMAIN c.in : c.in[b] # "us") /\ c.bad = "none"
  <2>1. Ours(c.out)
    BY <1>0, <1>1 DEF Sound, Commanded, Ours, NoBuffers
  <2> QED
    BY <1>0, <1>1, <2>1 DEF Sound, Resting, Busy
<1>4. Conserves(c, Obeyed)
  BY <1>2, SameConserves
<1>5. ASSUME NEW k \in Codec, k = [Obeyed EXCEPT !.out = k.out], Conserves(Obeyed, k),
             c.active => \A b \in DOMAIN k.out : k.out[b] # "us",
             ~c.active => k.out = c.out,
             DOMAIN k.out = DOMAIN c.out,
             \A b \in DOMAIN k.out : k.out[b] = "window" <=> c.out[b] = "window",
             Becomes(EnterExecuting(k))
      PROVE  EnabledAs(k)
  <2>1. /\ k.state = c.state /\ k.cmd = "none" /\ k.in = c.in /\ k.active = c.active /\ k.ieos = c.ieos
        /\ k.res = c.res /\ k.bad = c.bad /\ k.deferred = c.deferred /\ k.oeos = c.oeos
        /\ k.ending = c.ending /\ k.flushed = c.flushed /\ k.post = c.post /\ k.missed = c.missed
    BY <1>2, <1>5 DEF Codec, Same
  <2> DEFINE e == Opened(k)
  <2>2. /\ e \in Codec /\ e.state = "Executing" /\ e.active = k.active /\ e.cmd = "none" /\ e.ieos = k.ieos
        /\ e.res = k.res /\ e.in = k.in /\ e.out = k.out /\ e.bad = k.bad
    BY <1>5, <2>1, EmptySeq DEF Opened, Codec, StateNames
  <2> HIDE DEF e
  <2>3. Commanded(e)
    BY <2>2 DEF Commanded
  <2>4. Resting(e)
    BY <1>3, <1>5, <2>1, <2>2 DEF Resting, AllOurs
  <2>5. Busy(e)
    BY <1>3, <1>5, <2>1, <2>2 DEF Busy
  <2>6. Sound(e)
    BY <1>3, <2>1, <2>2, <2>3, <2>4, <2>5 DEF Sound
  <2>7. Conserves(c, k)
    BY <1>4, <1>5, ConservesBoth
  <2> QED
    BY <1>5, <2>1, <2>6, <2>7 DEF e, EnabledAs
<1>6. CASE c.active
  <2>1. Becomes(EnterExecuting(SubmitOutputs(Obeyed)))
    BY <1>6 DEF NowEnabled
  <2>2. Ours(Obeyed.out)
    BY <1>2, <1>3 DEF Same
  <2>3. PICK k : k = SubmitOutputs(Obeyed)
    OBVIOUS
  <2>4. /\ k \in Codec /\ k = [Obeyed EXCEPT !.out = k.out] /\ Conserves(Obeyed, k)
        /\ DOMAIN k.out = DOMAIN Obeyed.out
        /\ \A b \in DOMAIN Obeyed.out : k.out[b] = IF Obeyed.out[b] = "window" THEN "window" ELSE "component"
    BY <1>2, <2>2, <2>3, SubmitOutputsDoes
  <2>5. \A b \in DOMAIN k.out : k.out[b] # "us"
    BY <2>4
  <2>6. DOMAIN k.out = DOMAIN c.out /\ \A b \in DOMAIN k.out : k.out[b] = "window" <=> c.out[b] = "window"
    BY <1>2, <2>4 DEF Same
  <2>7. EnabledAs(k)
    BY <1>5, <1>6, <2>1, <2>3, <2>4, <2>5, <2>6
  <2> QED
    BY <1>1, <2>4, <2>7
<1>7. CASE ~c.active
  <2>1. Becomes(EnterExecuting(Obeyed))
    BY <1>7 DEF NowEnabled
  <2>2. Obeyed = [Obeyed EXCEPT !.out = Obeyed.out] /\ Obeyed.out = c.out
    BY <1>2 DEF Codec, Same
  <2>3. Conserves(Obeyed, Obeyed)
    BY DEF Conserves
  <2>4. EnabledAs(Obeyed)
    BY <1>2, <1>5, <1>7, <2>1, <2>2, <2>3
  <2> QED
    BY <1>1, <1>2, <2>4
<1> QED
  BY <1>6, <1>7

LEMMA NowEnabledKeeps == ASSUME IInv, NowEnabled PROVE Kept
<1>1. PICK k \in Codec : EnabledAs(k)
  BY EnabledOpens
<1> QED
  BY <1>1, EnabledOpens, EnterKeeps DEF EnabledAs, Stopped

LEMMA PortSettingsChangedKeeps == ASSUME IInv, PortSettingsChanged PROVE Kept
<1>0. /\ c \in Codec /\ Sound(c) /\ Typed /\ Fits(c, inbox)
  BY InUse
<1> DEFINE m == Plain("PortSettingsChanged")
           k == Deliver(c, m)
<1>1. /\ UNCHANGED <<inbox, player, held>> /\ left' \in [Events -> Nat]
      /\ c.state \in {"Executing", "Flushing", "FlushingOutput"} /\ Becomes(k)
  BY SpendKeeps, SpendsAnEvent DEF PortSettingsChanged
<1>2. c # NewCodec
  BY <1>1, InUse
<1>3. m \in Deferrable /\ m.what = "PortSettingsChanged" /\ m.buf = 0
  BY PlainNotes
<1>4. k = OnPortChanged(c, m)
  BY <1>3 DEF Deliver
<1> HIDE DEF m
<1>5. Sound(OnPortChanged(c, m)) /\ Absorbs(c, OnPortChanged(c, m), m)
  BY <1>0, <1>3, OnPortChangedDoes
<1>6. OnPortChanged(c, m).state \notin Stopped
  <2>1. CASE c.state = "Executing"
    <3>1. OnPortChanged(c, m).state = "FlushingOutput"
      BY <1>0, <2>1 DEF OnPortChanged, Sends, Sound, Commanded, Codec
    <3> QED
      BY <3>1 DEF Stopped
  <2>2. CASE c.state # "Executing"
    <3>1. OnPortChanged(c, m) = Defers(c, m)
      BY <1>1, <2>2 DEF OnPortChanged
    <3>2. Defers(c, m) = [c EXCEPT !.deferred = Append(c.deferred, m)]
      BY <1>0, <1>3, DefersDoes
    <3>3. Defers(c, m).state = c.state
      BY <1>0, <3>2 DEF Codec
    <3> QED
      BY <1>1, <3>1, <3>3 DEF Stopped
  <2> QED
    BY <2>1, <2>2
<1> HIDE DEF k
<1>7. \A b : /\ Is(m, "InputBufferFilled", b) = 0 /\ Is(m, "OutputBufferDrained", b) = 0
             /\ Is(m, "Flush", b) = 0 /\ Is(m, "Shutdown", b) = 0
  BY <1>3, IsType
<1>8. /\ \A b : InSum(c, b) \in Int /\ OutSum(c, b) \in Int
      /\ FlushSum(c) \in Int /\ ShutdownSum(c) \in Int
  BY <1>0, SumTypes
<1>9. Conserves(c, k)
  <2>1. Absorbs(c, k, m)
    BY <1>4, <1>5
  <2>2. \A b \in Inputs : InSum(k, b) = InSum(c, b)
    BY <1>7, <1>8, <2>1 DEF Absorbs
  <2>3. \A b \in Outputs : OutSum(k, b) = OutSum(c, b)
    BY <1>7, <1>8, <2>1 DEF Absorbs
  <2>4. FlushSum(k) = FlushSum(c) /\ ShutdownSum(k) = ShutdownSum(c)
    BY <1>3, <1>7, <1>8, <2>1 DEF Absorbs
  <2> QED
    BY <2>2, <2>3, <2>4 DEF Conserves
<1> QED
  BY <1>1, <1>2, <1>4, <1>5, <1>6, <1>9, CallbackConserves

LEMMA ComponentErrorKeeps == ASSUME IInv, ComponentError PROVE Kept
<1>0. /\ c \in Codec /\ Sound(c) /\ Typed /\ Fits(c, inbox)
  BY InUse
<1> DEFINE k == Posts(c, Plain("Error"))
<1>1. /\ UNCHANGED <<inbox, player, held>> /\ left' \in [Events -> Nat]
      /\ c.state # "Uninitialized" /\ Becomes(k)
  BY SpendKeeps, SpendsAnEvent DEF ComponentError, SignalsError
<1>2. c # NewCodec
  BY <1>1, InUse
<1>3. Sound(k) /\ Conserves(c, k) /\ k = [c EXCEPT !.post = Append(c.post, Plain("Error"))]
  BY <1>0, PlainNotes, PostsIsSound, PostsDoes, NoteConserves
<1> HIDE DEF k
<1>4. k.state = c.state /\ k.shutdown = c.shutdown
  BY <1>0, <1>3 DEF Codec
<1> QED
  BY <1>1, <1>2, <1>3, <1>4, CallbackConserves

-----------------------------------------------------------------------------
(*                            The player                                    *)

(* Everything that is counted is a number.                                             *)
LEMMA Countable ==
    ASSUME IInv
    PROVE  /\ \A what, buf : HowMany(outbox, what, buf) \in Nat /\ HowMany(inbox, what, buf) \in Nat
           /\ \A b : InSum(c, b) \in Int /\ OutSum(c, b) \in Int /\ InSum(c, b) >= -1 /\ OutSum(c, b) >= -1
           /\ FlushSum(c) \in Nat /\ ShutdownSum(c) \in Nat
           /\ inbox \in Seq(Message) /\ outbox \in Seq(Note) /\ c \in Codec /\ Sound(c)
           /\ \A b \in Inputs :
                InSum(c, b) + HowMany(outbox, "FillThisBuffer", b) + One(b \in held.in)
                    + HowMany(inbox, "InputBufferFilled", b) = 0
           /\ \A b \in Outputs :
                OutSum(c, b) + HowMany(outbox, "DrainThisBuffer", b) + One(b \in held.out)
                    + HowMany(inbox, "OutputBufferDrained", b) = 0
           /\ FlushSum(c) + HowMany(outbox, "FlushCompleted", 0) + HowMany(inbox, "Flush", 0)
                = One(player = "flushing")
<1>1. c \in Codec /\ Sound(c) /\ Typed /\ Balanced(c, inbox)
  BY DEF IInv, Fits, Sound
<1>2. inbox \in Seq(Message) /\ outbox \in Seq(Note)
  BY <1>1 DEF Balanced, Typed
<1>3. \A what, buf : HowMany(outbox, what, buf) \in Nat /\ HowMany(inbox, what, buf) \in Nat
  BY <1>2, HowManyType, MessagesAreMessages
<1>4. /\ \A b : InSum(c, b) \in Int /\ OutSum(c, b) \in Int
      /\ \A b : Up(c, b) \in 0 .. 1 /\ Down(c, b) \in 0 .. 1
      /\ \A what, buf : HowMany(c.post, what, buf) \in Nat /\ HowMany(c.deferred, what, buf) \in Nat
      /\ FlushSum(c) \in Nat /\ ShutdownSum(c) \in Nat
  BY <1>1, SumTypes
<1>5. ASSUME NEW b PROVE InSum(c, b) >= -1 /\ OutSum(c, b) >= -1
  <2>1. /\ Up(c, b) \in 0 .. 1 /\ Down(c, b) \in 0 .. 1
        /\ HowMany(c.post, "FillThisBuffer", b) \in Nat /\ HowMany(c.post, "DrainThisBuffer", b) \in Nat
        /\ HowMany(c.deferred, "InputBufferFilled", b) \in Nat
    BY <1>4
  <2> QED
    BY <2>1 DEF InSum, OutSum
<1> QED
  BY <1>1, <1>2, <1>3, <1>4, <1>5 DEF Balanced

LEMMA SentDoes ==
    ASSUME IInv, NEW m \in Message, m.what # "Setup", inbox' = Append(inbox, m), UNCHANGED c
    PROVE  /\ inbox' \in Seq(Message) /\ SetUpOnce'
           /\ \A what, buf : HowMany(inbox', what, buf) = HowMany(inbox, what, buf) + Is(m, what, buf)
<1>1. inbox \in Seq(Message) /\ m \notin Setups /\ m \in AnyMessage /\ inbox \in Seq(AnyMessage)
  BY Countable, MessagesAreMessages DEF Setups, Plain, Mesg
<1>2. /\ Append(inbox, m) \in Seq(Message)
      /\ NoneOf(Append(inbox, m), Setups) <=> NoneOf(inbox, Setups)
  BY <1>1, Posted
<1>3. ASSUME c = NewCodec, inbox # <<>>, NoneOf(Tail(inbox), Setups)
      PROVE  inbox' # <<>> /\ NoneOf(Tail(inbox'), Setups)
  <2>1. Tail(inbox) \in Seq(Message)
    BY <1>1, <1>3, HeadTailProperties
  <2>2. Tail(Append(inbox, m)) = Append(Tail(inbox), m) /\ Append(inbox, m) # <<>>
    BY <1>1, <1>3
  <2>3. NoneOf(Append(Tail(inbox), m), Setups)
    BY <1>1, <1>3, <2>1, Posted
  <2> QED
    BY <2>2, <2>3
<1>4. SetUpOnce'
  BY <1>2, <1>3 DEF SetUpOnce, IInv
<1> QED
  BY <1>1, <1>2, <1>4, HowManyAppend

LEMMA HearsKeeps == ASSUME IInv, Hears PROVE Kept
<1> DEFINE m == Head(outbox)
<1>1. /\ outbox # <<>> /\ outbox' = Tail(outbox) /\ UNCHANGED <<c, inbox, left>>
      /\ held' = CASE m.what = "FillThisBuffer" -> [held EXCEPT !.in = @ \cup {m.buf}]
                   [] m.what = "DrainThisBuffer" -> [held EXCEPT !.out = @ \cup {m.buf}]
                   [] OTHER -> held
      /\ player' = CASE m.what = "FlushCompleted" /\ player = "flushing" -> "flushed"
                     [] m.what = "ShutdownCompleted" /\ player = "stopping" -> "gone"
                     [] OTHER -> player
  BY DEF Hears
<1>2. /\ m \in Note /\ Tail(outbox) \in Seq(Note)
      /\ \A what, buf : HowMany(outbox, what, buf) = Is(m, what, buf) + HowMany(outbox', what, buf)
      /\ \A what, buf : HowMany(outbox', what, buf) \in Nat
  <2>1. outbox \in Seq(Note) /\ outbox \in Seq(AnyMessage)
    BY Countable, MessagesAreMessages
  <2>2. m \in Note /\ Tail(outbox) \in Seq(Note) /\ Tail(outbox) \in Seq(AnyMessage)
    BY <1>1, <2>1, HeadTailProperties, MessagesAreMessages
  <2> QED
    BY <1>1, <2>1, <2>2, HowManyHead, HowManyType
<1> HIDE DEF m
<1>3. held \in [in : SUBSET Inputs, out : SUBSET Outputs, ended : BOOLEAN]
      /\ player \in {"playing", "flushing", "flushed", "stopping", "gone"}
      /\ left \in [Events -> Nat]
  BY DEF IInv, Typed
<1>4. /\ held'.in = IF m.what = "FillThisBuffer" THEN held.in \cup {m.buf} ELSE held.in
      /\ held'.out = IF m.what = "DrainThisBuffer" THEN held.out \cup {m.buf} ELSE held.out
      /\ held' \in [in : SUBSET Inputs, out : SUBSET Outputs, ended : BOOLEAN]
  <2>1. m.what = "FillThisBuffer" => m.buf \in Inputs
    BY <1>2 DEF Note
  <2>2. m.what = "DrainThisBuffer" => m.buf \in Outputs
    BY <1>2 DEF Note
  <2> QED
    BY <1>1, <1>3, <2>1, <2>2
<1>5. Typed'
  BY <1>1, <1>2, <1>3, <1>4 DEF Typed
<1>6. ASSUME NEW b \in Inputs
      PROVE  InSum(c, b) + HowMany(outbox', "FillThisBuffer", b) + One(b \in held'.in)
                + HowMany(inbox, "InputBufferFilled", b) = 0
  <2>1. /\ InSum(c, b) + HowMany(outbox, "FillThisBuffer", b) + One(b \in held.in)
                + HowMany(inbox, "InputBufferFilled", b) = 0
        /\ InSum(c, b) \in Int /\ InSum(c, b) >= -1 /\ HowMany(inbox, "InputBufferFilled", b) \in Nat
    BY Countable
  <2>2. /\ HowMany(outbox, "FillThisBuffer", b) = Is(m, "FillThisBuffer", b) + HowMany(outbox', "FillThisBuffer", b)
        /\ HowMany(outbox', "FillThisBuffer", b) \in Nat
    BY <1>2
  <2>3. CASE m.what = "FillThisBuffer" /\ m.buf = b
    <3>1. Is(m, "FillThisBuffer", b) = 1 /\ One(b \in held'.in) = 1
      BY <1>4, <2>3, IsType DEF One
    <3>2. One(b \in held.in) \in 0 .. 1
      BY OneType
    <3> QED
      BY <2>1, <2>2, <3>1, <3>2
  <2>4. CASE ~(m.what = "FillThisBuffer" /\ m.buf = b)
    <3>1. Is(m, "FillThisBuffer", b) = 0 /\ One(b \in held'.in) = One(b \in held.in)
      BY <1>4, <2>4, IsType DEF One
    <3>2. One(b \in held.in) \in 0 .. 1
      BY OneType
    <3> QED
      BY <2>1, <2>2, <3>1, <3>2
  <2> QED
    BY <2>3, <2>4
<1>7. ASSUME NEW b \in Outputs
      PROVE  OutSum(c, b) + HowMany(outbox', "DrainThisBuffer", b) + One(b \in held'.out)
                + HowMany(inbox, "OutputBufferDrained", b) = 0
  <2>1. /\ OutSum(c, b) + HowMany(outbox, "DrainThisBuffer", b) + One(b \in held.out)
                + HowMany(inbox, "OutputBufferDrained", b) = 0
        /\ OutSum(c, b) \in Int /\ OutSum(c, b) >= -1 /\ HowMany(inbox, "OutputBufferDrained", b) \in Nat
    BY Countable
  <2>2. /\ HowMany(outbox, "DrainThisBuffer", b) = Is(m, "DrainThisBuffer", b) + HowMany(outbox', "DrainThisBuffer", b)
        /\ HowMany(outbox', "DrainThisBuffer", b) \in Nat
    BY <1>2
  <2>3. CASE m.what = "DrainThisBuffer" /\ m.buf = b
    <3>1. Is(m, "DrainThisBuffer", b) = 1 /\ One(b \in held'.out) = 1
      BY <1>4, <2>3, IsType DEF One
    <3>2. One(b \in held.out) \in 0 .. 1
      BY OneType
    <3> QED
      BY <2>1, <2>2, <3>1, <3>2
  <2>4. CASE ~(m.what = "DrainThisBuffer" /\ m.buf = b)
    <3>1. Is(m, "DrainThisBuffer", b) = 0 /\ One(b \in held'.out) = One(b \in held.out)
      BY <1>4, <2>4, IsType DEF One
    <3>2. One(b \in held.out) \in 0 .. 1
      BY OneType
    <3> QED
      BY <2>1, <2>2, <3>1, <3>2
  <2> QED
    BY <2>3, <2>4
<1>8. FlushSum(c) + HowMany(outbox', "FlushCompleted", 0) + HowMany(inbox, "Flush", 0) = One(player' = "flushing")
  <2>1. /\ FlushSum(c) + HowMany(outbox, "FlushCompleted", 0) + HowMany(inbox, "Flush", 0)
             = One(player = "flushing")
        /\ FlushSum(c) \in Nat /\ HowMany(inbox, "Flush", 0) \in Nat
    BY Countable
  <2>2. /\ HowMany(outbox, "FlushCompleted", 0) = Is(m, "FlushCompleted", 0) + HowMany(outbox', "FlushCompleted", 0)
        /\ HowMany(outbox', "FlushCompleted", 0) \in Nat
    BY <1>2
  <2>3. One(player = "flushing") \in 0 .. 1 /\ (player # "flushing" => One(player = "flushing") = 0)
    BY DEF One
  <2>4. CASE m.what = "FlushCompleted"
    <3>1. Is(m, "FlushCompleted", 0) = 1
      BY <1>2, <2>4, IsType DEF Note
    <3>2. player = "flushing"
      BY <2>1, <2>2, <2>3, <3>1
    <3>3. player' = "flushed"
      BY <1>1, <2>4, <3>2
    <3>4. One(player' = "flushing") = 0
      BY <3>3 DEF One
    <3> QED
      BY <2>1, <2>2, <2>3, <3>1, <3>4
  <2>5. CASE m.what # "FlushCompleted"
    <3>1. Is(m, "FlushCompleted", 0) = 0
      BY <2>5, IsType
    <3>2. player' = "flushing" <=> player = "flushing"
      BY <1>1, <2>5
    <3>3. One(player' = "flushing") = One(player = "flushing")
      BY <3>2 DEF One
    <3> QED
      BY <2>1, <2>2, <2>3, <3>1, <3>3
  <2> QED
    BY <2>4, <2>5
<1>9. ASSUME Stops(c, inbox)
      PROVE  ShutdownSum(c) + HowMany(outbox', "ShutdownCompleted", 0) + HowMany(inbox, "Shutdown", 0)
                = One(player' = "stopping")
  <2>1. /\ ShutdownSum(c) + HowMany(outbox, "ShutdownCompleted", 0) + HowMany(inbox, "Shutdown", 0)
             = One(player = "stopping")
        /\ ShutdownSum(c) \in Nat /\ HowMany(inbox, "Shutdown", 0) \in Nat
    BY <1>9, Countable DEF Stops
  <2>2. /\ HowMany(outbox, "ShutdownCompleted", 0)
             = Is(m, "ShutdownCompleted", 0) + HowMany(outbox', "ShutdownCompleted", 0)
        /\ HowMany(outbox', "ShutdownCompleted", 0) \in Nat
    BY <1>2
  <2>3. One(player = "stopping") \in 0 .. 1 /\ (player # "stopping" => One(player = "stopping") = 0)
    BY DEF One
  <2>4. CASE m.what = "ShutdownCompleted"
    <3>1. Is(m, "ShutdownCompleted", 0) = 1
      BY <1>2, <2>4, IsType DEF Note
    <3>2. player = "stopping"
      BY <2>1, <2>2, <2>3, <3>1
    <3>3. player' = "gone"
      BY <1>1, <2>4, <3>2
    <3>4. One(player' = "stopping") = 0
      BY <3>3 DEF One
    <3> QED
      BY <2>1, <2>2, <2>3, <3>1, <3>4
  <2>5. CASE m.what # "ShutdownCompleted"
    <3>1. Is(m, "ShutdownCompleted", 0) = 0
      BY <2>5, IsType
    <3>2. player' = "stopping" <=> player = "stopping"
      BY <1>1, <2>5
    <3>3. One(player' = "stopping") = One(player = "stopping")
      BY <3>2 DEF One
    <3> QED
      BY <2>1, <2>2, <2>3, <3>1, <3>3
  <2> QED
    BY <2>4, <2>5
<1>10. Balanced(c, inbox)'
  BY <1>1, <1>6, <1>7, <1>8, Countable DEF Balanced
<1>11. IInv'
  BY <1>1, <1>5, <1>10 DEF IInv, SetUpOnce, Fits
<1>12. Stops(c, inbox) => Stops(c, inbox)'
  BY <1>1, <1>9 DEF Stops
<1> QED
  BY <1>11, <1>12 DEF Kept

LEMMA SignalsKeeps ==
    ASSUME IInv, NEW what, NEW from, NEW to, Signals(what, from, to), left' \in [Events -> Nat],
           \/ what = "Flush" /\ from = "playing" /\ to = "flushing"
           \/ what = "Resume" /\ from = "flushed" /\ to = "playing"
           \/ what = "Shutdown" /\ from = "flushed" /\ to = "stopping"
    PROVE  Kept
<1> DEFINE m == Plain(what)
<1>1. /\ player = from /\ player' = to /\ UNCHANGED <<c, outbox, held>> /\ inbox' = Append(inbox, m)
  BY DEF Signals, Asks
<1>2. m \in Message /\ m.what = what /\ m.buf = 0
  BY PlainNotes, MessagesAreMessages
<1> HIDE DEF m
<1>3. /\ inbox' \in Seq(Message) /\ SetUpOnce'
      /\ \A w, buf : HowMany(inbox', w, buf) = HowMany(inbox, w, buf) + Is(m, w, buf)
  BY <1>1, <1>2, SentDoes
<1>4. \A b : Is(m, "InputBufferFilled", b) = 0 /\ Is(m, "OutputBufferDrained", b) = 0
  BY <1>2, IsType
<1>5. \A w, buf : HowMany(inbox, w, buf) \in Nat
  BY Countable
<1>6. \A b : /\ HowMany(inbox', "InputBufferFilled", b) = HowMany(inbox, "InputBufferFilled", b)
             /\ HowMany(inbox', "OutputBufferDrained", b) = HowMany(inbox, "OutputBufferDrained", b)
  <2> SUFFICES ASSUME NEW b
               PROVE  /\ HowMany(inbox', "InputBufferFilled", b) = HowMany(inbox, "InputBufferFilled", b)
                      /\ HowMany(inbox', "OutputBufferDrained", b) = HowMany(inbox, "OutputBufferDrained", b)
    OBVIOUS
  <2>1. /\ HowMany(inbox', "InputBufferFilled", b)
             = HowMany(inbox, "InputBufferFilled", b) + Is(m, "InputBufferFilled", b)
        /\ HowMany(inbox', "OutputBufferDrained", b)
             = HowMany(inbox, "OutputBufferDrained", b) + Is(m, "OutputBufferDrained", b)
    BY <1>3
  <2>2. HowMany(inbox, "InputBufferFilled", b) \in Nat /\ HowMany(inbox, "OutputBufferDrained", b) \in Nat
    BY <1>5
  <2> QED
    BY <1>4, <2>1, <2>2
<1>7. FlushSum(c) + HowMany(outbox, "FlushCompleted", 0) + HowMany(inbox', "Flush", 0) = One(player' = "flushing")
  <2>1. /\ FlushSum(c) + HowMany(outbox, "FlushCompleted", 0) + HowMany(inbox, "Flush", 0)
             = One(player = "flushing")
        /\ FlushSum(c) \in Nat /\ HowMany(inbox, "Flush", 0) \in Nat
        /\ HowMany(outbox, "FlushCompleted", 0) \in Nat
    BY Countable
  <2>2. HowMany(inbox', "Flush", 0) = HowMany(inbox, "Flush", 0) + Is(m, "Flush", 0)
    BY <1>3
  <2>3. CASE what = "Flush"
    <3>1. Is(m, "Flush", 0) = 1
      BY <1>2, <2>3, IsType
    <3>2. One(player = "flushing") = 0 /\ One(player' = "flushing") = 1
      BY <1>1, <2>3 DEF One
    <3> QED
      BY <2>1, <2>2, <3>1, <3>2
  <2>4. CASE what # "Flush"
    <3>1. Is(m, "Flush", 0) = 0
      BY <1>2, <2>4, IsType
    <3>2. One(player = "flushing") = 0 /\ One(player' = "flushing") = 0
      BY <1>1, <2>4 DEF One
    <3> QED
      BY <2>1, <2>2, <3>1, <3>2
  <2> QED
    BY <2>3, <2>4
<1>8. ASSUME Stops(c, inbox)
      PROVE  ShutdownSum(c) + HowMany(outbox, "ShutdownCompleted", 0) + HowMany(inbox', "Shutdown", 0)
                = One(player' = "stopping")
  <2>1. /\ ShutdownSum(c) + HowMany(outbox, "ShutdownCompleted", 0) + HowMany(inbox, "Shutdown", 0)
             = One(player = "stopping")
        /\ ShutdownSum(c) \in Nat /\ HowMany(inbox, "Shutdown", 0) \in Nat
        /\ HowMany(outbox, "ShutdownCompleted", 0) \in Nat
    BY <1>8, Countable DEF Stops
  <2>2. HowMany(inbox', "Shutdown", 0) = HowMany(inbox, "Shutdown", 0) + Is(m, "Shutdown", 0)
    BY <1>3
  <2>3. CASE what = "Shutdown"
    <3>1. Is(m, "Shutdown", 0) = 1
      BY <1>2, <2>3, IsType
    <3>2. One(player = "stopping") = 0 /\ One(player' = "stopping") = 1
      BY <1>1, <2>3 DEF One
    <3> QED
      BY <2>1, <2>2, <3>1, <3>2
  <2>4. CASE what # "Shutdown"
    <3>1. Is(m, "Shutdown", 0) = 0
      BY <1>2, <2>4, IsType
    <3>2. One(player = "stopping") = 0 /\ One(player' = "stopping") = 0
      BY <1>1, <2>4 DEF One
    <3> QED
      BY <2>1, <2>2, <3>1, <3>2
  <2> QED
    BY <2>3, <2>4
<1>9. Balanced(c, inbox)'
  BY <1>1, <1>3, <1>6, <1>7, Countable DEF Balanced
<1>10. Typed'
  BY <1>1 DEF Typed, IInv
<1>11. IInv'
  BY <1>1, <1>3, <1>9, <1>10 DEF IInv, Fits
<1>12. Stops(c, inbox) => Stops(c, inbox)'
  BY <1>1, <1>8 DEF Stops
<1> QED
  BY <1>11, <1>12 DEF Kept

(* The player answers: the buffer leaves its hands for the inbox.                       *)
LEMMA AnswersKeep ==
    ASSUME IInv, NEW m \in Message, m.what # "Setup", inbox' = Append(inbox, m), UNCHANGED <<c, outbox, player, left>>,
           NEW b,
           \/ /\ m.what = "InputBufferFilled" /\ m.buf = b /\ b \in held.in
              /\ held'.in = held.in \ {b} /\ held'.out = held.out
           \/ /\ m.what = "OutputBufferDrained" /\ m.buf = b /\ b \in held.out
              /\ held'.in = held.in /\ held'.out = held.out \ {b},
           held' \in [in : SUBSET Inputs, out : SUBSET Outputs, ended : BOOLEAN]
    PROVE  Kept
<1>1. /\ inbox' \in Seq(Message) /\ SetUpOnce'
      /\ \A w, buf : HowMany(inbox', w, buf) = HowMany(inbox, w, buf) + Is(m, w, buf)
  BY SentDoes
<1>2. \A w, buf : HowMany(inbox, w, buf) \in Nat /\ HowMany(outbox, w, buf) \in Nat
  BY Countable
<1>3. Is(m, "Flush", 0) = 0 /\ Is(m, "Shutdown", 0) = 0
  BY IsType
<1>4. HowMany(inbox', "Flush", 0) = HowMany(inbox, "Flush", 0)
  <2>1. HowMany(inbox', "Flush", 0) = HowMany(inbox, "Flush", 0) + Is(m, "Flush", 0)
        /\ HowMany(inbox, "Flush", 0) \in Nat
    BY <1>1, <1>2
  <2> QED
    BY <1>3, <2>1
<1>5. HowMany(inbox', "Shutdown", 0) = HowMany(inbox, "Shutdown", 0)
  <2>1. HowMany(inbox', "Shutdown", 0) = HowMany(inbox, "Shutdown", 0) + Is(m, "Shutdown", 0)
        /\ HowMany(inbox, "Shutdown", 0) \in Nat
    BY <1>1, <1>2
  <2> QED
    BY <1>3, <2>1
<1>6. ASSUME NEW d \in Inputs
      PROVE  InSum(c, d) + HowMany(outbox, "FillThisBuffer", d) + One(d \in held'.in)
                + HowMany(inbox', "InputBufferFilled", d) = 0
  <2>1. /\ InSum(c, d) + HowMany(outbox, "FillThisBuffer", d) + One(d \in held.in)
                + HowMany(inbox, "InputBufferFilled", d) = 0
        /\ InSum(c, d) \in Int
    BY Countable
  <2>2. /\ HowMany(inbox', "InputBufferFilled", d)
             = HowMany(inbox, "InputBufferFilled", d) + Is(m, "InputBufferFilled", d)
        /\ HowMany(inbox, "InputBufferFilled", d) \in Nat /\ HowMany(outbox, "FillThisBuffer", d) \in Nat
    BY <1>1, <1>2
  <2>3. CASE m.what = "InputBufferFilled" /\ d = b
    <3>1. Is(m, "InputBufferFilled", d) = 1 /\ One(d \in held.in) = 1 /\ One(d \in held'.in) = 0
      BY <2>3, IsType DEF One
    <3> QED
      BY <2>1, <2>2, <3>1
  <2>4. CASE ~(m.what = "InputBufferFilled" /\ d = b)
    <3>1. Is(m, "InputBufferFilled", d) = 0
      BY <2>4, IsType
    <3>2. One(d \in held'.in) = One(d \in held.in) /\ One(d \in held.in) \in Nat
      BY <2>4 DEF One
    <3> QED
      BY <2>1, <2>2, <3>1, <3>2
  <2> QED
    BY <2>3, <2>4
<1>7. ASSUME NEW d \in Outputs
      PROVE  OutSum(c, d) + HowMany(outbox, "DrainThisBuffer", d) + One(d \in held'.out)
                + HowMany(inbox', "OutputBufferDrained", d) = 0
  <2>1. /\ OutSum(c, d) + HowMany(outbox, "DrainThisBuffer", d) + One(d \in held.out)
                + HowMany(inbox, "OutputBufferDrained", d) = 0
        /\ OutSum(c, d) \in Int
    BY Countable
  <2>2. /\ HowMany(inbox', "OutputBufferDrained", d)
             = HowMany(inbox, "OutputBufferDrained", d) + Is(m, "OutputBufferDrained", d)
        /\ HowMany(inbox, "OutputBufferDrained", d) \in Nat /\ HowMany(outbox, "DrainThisBuffer", d) \in Nat
    BY <1>1, <1>2
  <2>3. CASE m.what = "OutputBufferDrained" /\ d = b
    <3>1. Is(m, "OutputBufferDrained", d) = 1 /\ One(d \in held.out) = 1 /\ One(d \in held'.out) = 0
      BY <2>3, IsType DEF One
    <3> QED
      BY <2>1, <2>2, <3>1
  <2>4. CASE ~(m.what = "OutputBufferDrained" /\ d = b)
    <3>1. Is(m, "OutputBufferDrained", d) = 0
      BY <2>4, IsType
    <3>2. One(d \in held'.out) = One(d \in held.out) /\ One(d \in held.out) \in Nat
      BY <2>4 DEF One
    <3> QED
      BY <2>1, <2>2, <3>1, <3>2
  <2> QED
    BY <2>3, <2>4
<1>8. Balanced(c, inbox)'
  BY <1>1, <1>4, <1>6, <1>7, Countable DEF Balanced
<1>9. Typed'
  BY DEF Typed, IInv
<1>10. IInv'
  BY <1>1, <1>8, <1>9 DEF IInv, Fits
<1>11. Stops(c, inbox) => Stops(c, inbox)'
  BY <1>5 DEF Stops
<1> QED
  BY <1>10, <1>11 DEF Kept

LEMMA PlayerActsKeep == ASSUME IInv, PlayerActs PROVE Kept
<1>1. CASE Hears
  BY <1>1, HearsKeeps
<1>2. CASE PlayerFlushes
  <2>1. Signals("Flush", "playing", "flushing") /\ left' \in [Events -> Nat]
    BY <1>2, SpendKeeps, SpendsAnEvent DEF PlayerFlushes
  <2> QED
    BY <2>1, SignalsKeeps
<1>3. CASE PlayerResumes
  <2>1. Signals("Resume", "flushed", "playing") /\ left' \in [Events -> Nat]
    BY <1>3, InUse DEF PlayerResumes
  <2> QED
    BY <2>1, SignalsKeeps
<1>4. CASE PlayerShutsDown
  <2>1. Signals("Shutdown", "flushed", "stopping") /\ left' \in [Events -> Nat]
    BY <1>4, InUse DEF PlayerShutsDown
  <2> QED
    BY <2>1, SignalsKeeps
<1>5. held \in [in : SUBSET Inputs, out : SUBSET Outputs, ended : BOOLEAN]
  BY DEF IInv, Typed
<1>6. ASSUME NEW b \in Inputs, Fills(b) PROVE Kept
  <2>1. PICK res \in {"ok", "eos", "err"} :
            /\ inbox' = Append(inbox, Mesg("InputBufferFilled", b, res)) /\ UNCHANGED <<c, outbox, player, left>>
            /\ b \in held.in
            /\ held' = [held EXCEPT !.in = @ \ {b}, !.ended = @ \/ res = "eos"]
    BY <1>6 DEF Fills, Asks
  <2>2. Mesg("InputBufferFilled", b, res) \in Message
    BY DEF Mesg, Message
  <2>3. Mesg("InputBufferFilled", b, res).what = "InputBufferFilled" /\ Mesg("InputBufferFilled", b, res).buf = b
    BY DEF Mesg
  <2>4. /\ held'.in = held.in \ {b} /\ held'.out = held.out
        /\ held' \in [in : SUBSET Inputs, out : SUBSET Outputs, ended : BOOLEAN]
    <3>1. (held.ended \/ res = "eos") \in BOOLEAN
      OBVIOUS
    <3> QED
      BY <1>5, <2>1, <3>1
  <2> QED
    BY <2>1, <2>2, <2>3, <2>4, AnswersKeep
<1>7. ASSUME NEW b \in Outputs, Drains(b) PROVE Kept
  <2>1. PICK how \in {"render", "drop"} :
            /\ inbox' = Append(inbox, Mesg("OutputBufferDrained", b, how)) /\ UNCHANGED <<c, outbox, player, left>>
            /\ b \in held.out
            /\ held' = [held EXCEPT !.out = @ \ {b}]
    BY <1>7 DEF Drains, Asks
  <2>2. Mesg("OutputBufferDrained", b, how) \in Message
    BY DEF Mesg, Message
  <2>3. Mesg("OutputBufferDrained", b, how).what = "OutputBufferDrained" /\ Mesg("OutputBufferDrained", b, how).buf = b
    BY DEF Mesg
  <2>4. /\ held'.in = held.in /\ held'.out = held.out \ {b}
        /\ held' \in [in : SUBSET Inputs, out : SUBSET Outputs, ended : BOOLEAN]
    BY <1>5, <2>1
  <2> QED
    BY <2>1, <2>2, <2>3, <2>4, AnswersKeep
<1> QED
  BY <1>1, <1>2, <1>3, <1>4, <1>6, <1>7 DEF PlayerActs

-----------------------------------------------------------------------------
(*                        The inductive invariant                           *)

LEMMA InitBegins == ASSUME Init PROVE IInv /\ Stops(c, inbox)
<1> DEFINE m == Plain("Setup")
<1>1. /\ c = NewCodec /\ inbox = <<m>> /\ outbox = <<>> /\ player = "playing"
      /\ held = [in |-> {}, out |-> {}, ended |-> FALSE] /\ left = Budget
  BY DEF Init
<1>2. /\ c.in = NoBuffers /\ c.out = NoBuffers /\ c.post = <<>> /\ c.deferred = <<>> /\ c.ieos = FALSE
      /\ c.active = FALSE /\ c.cmd = "none" /\ c.bad = "none" /\ c.state = "Uninitialized"
      /\ DOMAIN NoBuffers = {}
  BY <1>1 DEF NewCodec, NoBuffers
<1>3. c \in Codec
  <2>1. <<>> \in Seq(Note) /\ <<>> \in Seq(Deferrable)
    BY EmptySeq
  <2>2. NoBuffers \in [{} -> {"us", "up", "component"}] /\ NoBuffers \in [{} -> {"us", "down", "component", "window"}]
    BY DEF NoBuffers
  <2>3. NoBuffers \in InPort /\ NoBuffers \in OutPort
    BY <2>2 DEF InPort, OutPort
  <2>4. "Uninitialized" \in StateNames /\ "none" \in Commands /\ {} \in SUBSET {"in", "out"}
    BY DEF StateNames, Commands
  <2> QED
    BY <1>1, <2>1, <2>3, <2>4 DEF Codec, NewCodec
<1>4. Sound(c)
  BY <1>2, <1>3 DEF Sound, Commanded, Resting, Busy
<1>5. /\ m \in Message /\ m.what = "Setup" /\ inbox \in Seq(Message) /\ inbox # <<>> /\ Tail(inbox) = <<>>
      /\ Head(inbox) = m
  BY <1>1 DEF Message, Plain, Mesg
<1> HIDE DEF m
<1>6. \A buf : /\ HowMany(inbox, "InputBufferFilled", buf) = 0 /\ HowMany(inbox, "OutputBufferDrained", buf) = 0
               /\ HowMany(inbox, "Flush", buf) = 0 /\ HowMany(inbox, "Shutdown", buf) = 0
  <2>1. inbox \in Seq(AnyMessage)
    BY <1>5, MessagesAreMessages
  <2>2. \A what, buf : HowMany(inbox, what, buf) = Is(m, what, buf) + HowMany(Tail(inbox), what, buf)
    BY <1>5, <2>1, HowManyHead
  <2>3. \A what, buf : HowMany(Tail(inbox), what, buf) = 0
    BY <1>5, HowManyEmpty
  <2>4. \A buf : /\ Is(m, "InputBufferFilled", buf) = 0 /\ Is(m, "OutputBufferDrained", buf) = 0
                 /\ Is(m, "Flush", buf) = 0 /\ Is(m, "Shutdown", buf) = 0
    BY <1>5, IsType
  <2> QED
    BY <2>2, <2>3, <2>4
<1>7. \A what, buf : /\ HowMany(outbox, what, buf) = 0 /\ HowMany(c.post, what, buf) = 0
                     /\ HowMany(c.deferred, what, buf) = 0
  BY <1>1, <1>2, HowManyEmpty
<1>8. \A b : Up(c, b) = 0 /\ Down(c, b) = 0 /\ One(b \in held.in) = 0 /\ One(b \in held.out) = 0
  BY <1>1, <1>2 DEF Up, Down, One
<1>9. \A b : InSum(c, b) = 0 /\ OutSum(c, b) = 0
  BY <1>7, <1>8 DEF InSum, OutSum
<1>10. /\ One(c.state = "Flushing") = 0 /\ One(c.state \in {"ExecutingToIdle", "IdleToLoaded"}) = 0
       /\ One(player = "flushing") = 0 /\ One(player = "stopping") = 0
  BY <1>1, <1>2 DEF One
<1>11. FlushSum(c) = 0 /\ ShutdownSum(c) = 0
  BY <1>7, <1>10 DEF FlushSum, ShutdownSum
<1>12. Balanced(c, inbox)
  BY <1>5, <1>6, <1>7, <1>8, <1>9, <1>10, <1>11 DEF Balanced
<1>13. Typed
  BY <1>1, EmptySeq, CodecAssumption DEF Typed
<1>14. SetUpOnce
  BY <1>1, <1>5 DEF SetUpOnce, NoneOf
<1>15. Stops(c, inbox)
  BY <1>2, <1>6, <1>7, <1>10, <1>11 DEF Stops
<1> QED
  BY <1>2, <1>4, <1>12, <1>13, <1>14, <1>15 DEF IInv, Fits

LEMMA StepsKeep == ASSUME IInv, [Next]_vars PROVE IInv' /\ (NowDisabledFails \/ Kept)
<1>1. CASE Handles
  BY <1>1, SetupKeeps, ControlKeeps, InputBufferFilledKeeps, OutputBufferDrainedKeeps DEF Handles, Kept
<1>2. CASE Returns
  BY <1>2, EmptyBufferDoneKeeps, FillBufferDoneKeeps DEF Returns, Kept
<1>3. CASE \E b \in Outputs : FillBufferDoneEOS(b)
  BY <1>3, FillBufferDoneEOSKeeps DEF Kept
<1>4. CASE Obeys
  BY <1>4, NowIdleKeeps, NowExecutingKeeps, NowLoadedKeeps, NowFlushedKeeps, NowOutputFlushedKeeps,
     NowDisabledKeeps, NowEnabledKeeps DEF Obeys, Kept
<1>5. CASE Goes
  BY <1>5, SetupFailsKeeps, RenderFailsKeeps, DequeueFailsKeeps, NowDisabledFailsKeeps,
     ComponentErrorKeeps, PortSettingsChangedKeeps DEF Goes, Kept
<1>6. CASE PlayerActs
  BY <1>6, PlayerActsKeep DEF Kept
<1>7. CASE UNCHANGED vars
  <2>1. UNCHANGED <<c, inbox, outbox, player, held, left>>
    BY <1>7 DEF vars
  <2>2. IInv'
    BY <2>1 DEF IInv, Typed, SetUpOnce, Fits, Balanced
  <2>3. Stops(c, inbox) => Stops(c, inbox)'
    BY <2>1 DEF Stops
  <2> QED
    BY <2>2, <2>3 DEF Kept
<1> QED
  BY <1>1, <1>2, <1>3, <1>4, <1>5, <1>6, <1>7 DEF Next

(* The codec and the component stay in step, whatever fails and in whatever order the    *)
(* player, the looper and the component act.                                        *)
THEOREM CodecInvariant == Spec => []IInv
<1>1. Init => IInv
  BY InitBegins
<1>2. IInv /\ [Next]_vars => IInv'
  BY StepsKeep
<1> QED
  BY <1>1, <1>2, PTL DEF Spec

(* No CHECK of the codec fails: sendCommand finds the component idle, every buffer that   *)
(* comes back is where mInfo says, and every CmdComplete is the one the state waits for.   *)
THEOREM NoCheckFails == Spec => []NoFailedCheck
<1>1. IInv => NoFailedCheck
  <2> SUFFICES ASSUME IInv PROVE NoFailedCheck
    OBVIOUS
  <2>1. Sound(c) /\ c \in Codec
    BY InUse
  <2>2. DOMAIN CommandOf = {"LoadedToIdle", "IdleToExecuting", "ExecutingToIdle", "IdleToLoaded", "Flushing",
                            "FlushingOutput", "OutputPortSettingsChanged"}
    BY DEF CommandOf
  <2>3. /\ CommandOf["LoadedToIdle"] = {"Idle"} /\ CommandOf["IdleToExecuting"] = {"Executing"}
        /\ CommandOf["ExecutingToIdle"] = {"Idle"} /\ CommandOf["IdleToLoaded"] = {"Loaded"}
        /\ CommandOf["Flushing"] = {"Flush"} /\ CommandOf["FlushingOutput"] = {"FlushOutput"}
        /\ CommandOf["OutputPortSettingsChanged"] = {"Disable", "Enable"}
    BY DEF CommandOf
  <2>4. c.state \in StateNames /\ Commanded(c) /\ c.bad = "none"
    BY <2>1 DEF Sound, Codec
  <2>5. ASSUME c.cmd # "none" PROVE c.state \in DOMAIN CommandOf /\ c.cmd \in CommandOf[c.state]
    BY <2>2, <2>3, <2>4, <2>5 DEF StateNames, Commanded
  <2> QED
    BY <2>4, <2>5 DEF NoFailedCheck
<1> QED
  BY <1>1, CodecInvariant, PTL

(* A buffer that the codec has given away is in exactly one place: a note, the player's   *)
(* hands, the inbox or the deferred messages; so it comes back, and only once.           *)
THEOREM BuffersAreInOnePlace == Spec => []BufferInOnePlace
<1>1. IInv => BufferInOnePlace
  <2> SUFFICES ASSUME IInv PROVE BufferInOnePlace
    OBVIOUS
  <2>1. c.post = <<>> /\ c \in Codec
    BY InUse DEF IInv
  <2>2. \A what, buf : HowMany(c.post, what, buf) = 0
    BY <2>1, HowManyEmpty
  <2>3. \A what, buf : HowMany(c.deferred, what, buf) \in Nat
    BY <2>1, SumTypes
  <2>4. ASSUME NEW b \in Inputs
        PROVE  HowMany(outbox, "FillThisBuffer", b) + One(b \in held.in) + Queued("InputBufferFilled", b)
                  = One(b \in DOMAIN c.in /\ c.in[b] = "up")
    <3>1. /\ InSum(c, b) + HowMany(outbox, "FillThisBuffer", b) + One(b \in held.in)
                  + HowMany(inbox, "InputBufferFilled", b) = 0
          /\ HowMany(outbox, "FillThisBuffer", b) \in Nat /\ HowMany(inbox, "InputBufferFilled", b) \in Nat
      BY Countable
    <3>2. One(b \in held.in) \in Nat /\ Up(c, b) \in Nat
      BY <2>1, OneType, SumTypes
    <3>3. InSum(c, b) = HowMany(c.deferred, "InputBufferFilled", b) - Up(c, b)
      BY <2>2, <2>3, <3>2 DEF InSum
    <3>4. HowMany(outbox, "FillThisBuffer", b) + One(b \in held.in)
              + (HowMany(inbox, "InputBufferFilled", b) + HowMany(c.deferred, "InputBufferFilled", b)) = Up(c, b)
      <4>1. HowMany(c.deferred, "InputBufferFilled", b) \in Nat
        BY <2>3
      <4>2. PICK i \in Int, o \in Nat, h \in Nat, q \in Nat, d \in Nat, u \in Nat :
                /\ i = InSum(c, b) /\ o = HowMany(outbox, "FillThisBuffer", b) /\ h = One(b \in held.in)
                /\ q = HowMany(inbox, "InputBufferFilled", b) /\ u = Up(c, b)
                /\ d = HowMany(c.deferred, "InputBufferFilled", b)
        BY <3>1, <3>2, <3>3, <4>1
      <4>3. i + o + h + q = 0 /\ i = d - u
        BY <3>1, <3>3, <4>2
      <4>4. o + h + (q + d) = u
        BY <4>3
      <4> QED
        BY <4>2, <4>4
    <3> QED
      BY <3>4 DEF Queued, Up
  <2>5. ASSUME NEW b \in Outputs
        PROVE  HowMany(outbox, "DrainThisBuffer", b) + One(b \in held.out) + Queued("OutputBufferDrained", b)
                  = One(b \in DOMAIN c.out /\ c.out[b] = "down")
    <3>1. /\ OutSum(c, b) + HowMany(outbox, "DrainThisBuffer", b) + One(b \in held.out)
                  + HowMany(inbox, "OutputBufferDrained", b) = 0
          /\ HowMany(outbox, "DrainThisBuffer", b) \in Nat /\ HowMany(inbox, "OutputBufferDrained", b) \in Nat
      BY Countable
    <3>2. One(b \in held.out) \in Nat /\ Down(c, b) \in Nat
      BY <2>1, OneType, SumTypes
    <3>3. OutSum(c, b) = 0 - Down(c, b)
      BY <2>2, <3>2 DEF OutSum
    <3>4. HowMany(c.deferred, "OutputBufferDrained", b) = 0
      <4>1. c.deferred \in Seq(Deferrable)
        BY <2>1 DEF Codec
      <4>2. \A i \in 1 .. Len(c.deferred) : c.deferred[i].what # "OutputBufferDrained"
        BY <4>1, ElementOfSeq DEF Deferrable
      <4>3. {i \in 1 .. Len(c.deferred) : c.deferred[i].what = "OutputBufferDrained" /\ c.deferred[i].buf = b} = {}
        BY <4>2
      <4> QED
        BY <4>3, FS_EmptySet DEF HowMany
    <3>5. HowMany(outbox, "DrainThisBuffer", b) + One(b \in held.out)
              + (HowMany(inbox, "OutputBufferDrained", b) + HowMany(c.deferred, "OutputBufferDrained", b)) = Down(c, b)
      BY <3>1, <3>2, <3>3, <3>4
    <3> QED
      BY <3>5 DEF Queued, Down
  <2> QED
    BY <2>4, <2>5 DEF BufferInOnePlace
<1> QED
  BY <1>1, CodecInvariant, PTL

(* An active codec keeps decoding: no output buffer of its own lies idle in Executing     *)
(* before the end of the output, and the player is asked for input while it may come.       *)
THEOREM ActiveCodecIsBusy == Spec => []ActiveIsBusy
<1>1. IInv => ActiveIsBusy
  BY InUse DEF Sound, Busy, ActiveIsBusy
<1> QED
  BY <1>1, CodecInvariant, PTL

(* A flush or a shutdown the player waits for is owed by exactly one party, unless there    *)
(* are no buffers for a port that is enabled again: then the node is freed on the spot, and  *)
(* answers a shutdown nobody has asked for.                                           *)
THEOREM AnswersAreOwed == Spec /\ [][~NowDisabledFails]_vars => []AnswerOwed
<1>1. Init => IInv /\ Stops(c, inbox)
  BY InitBegins
<1>2. /\ IInv /\ Stops(c, inbox) /\ [Next]_vars /\ [~NowDisabledFails]_vars
      => IInv' /\ Stops(c, inbox)'
  <2> SUFFICES ASSUME IInv, Stops(c, inbox), [Next]_vars, [~NowDisabledFails]_vars
               PROVE  IInv' /\ Stops(c, inbox)'
    OBVIOUS
  <2>1. CASE Kept
    BY <2>1, StepsKeep DEF Kept
  <2>2. CASE UNCHANGED vars
    BY <2>2, StepsKeep DEF vars, Stops
  <2> QED
    BY <2>1, <2>2, StepsKeep
<1>3. IInv /\ Stops(c, inbox) => AnswerOwed
  <2> SUFFICES ASSUME IInv, Stops(c, inbox) PROVE AnswerOwed
    OBVIOUS
  <2>1. c.post = <<>> /\ c \in Codec
    BY InUse DEF IInv
  <2>2. \A what, buf : HowMany(c.post, what, buf) = 0
    BY <2>1, HowManyEmpty
  <2>3. HowMany(c.deferred, "Flush", 0) \in Nat /\ HowMany(c.deferred, "Shutdown", 0) \in Nat
    BY <2>1, SumTypes
  <2>4. /\ HowMany(inbox, "Flush", 0) \in Nat /\ HowMany(inbox, "Shutdown", 0) \in Nat
        /\ HowMany(outbox, "FlushCompleted", 0) \in Nat /\ HowMany(outbox, "ShutdownCompleted", 0) \in Nat
        /\ FlushSum(c) + HowMany(outbox, "FlushCompleted", 0) + HowMany(inbox, "Flush", 0)
               = One(player = "flushing")
    BY Countable
  <2>5. ShutdownSum(c) + HowMany(outbox, "ShutdownCompleted", 0) + HowMany(inbox, "Shutdown", 0)
               = One(player = "stopping")
    BY DEF Stops
  <2>6. One(c.state = "Flushing") \in Nat /\ One(c.state \in {"ExecutingToIdle", "IdleToLoaded"}) \in Nat
    BY OneType
  <2>7. /\ FlushSum(c) = HowMany(c.deferred, "Flush", 0) + One(c.state = "Flushing")
        /\ ShutdownSum(c) = HowMany(c.deferred, "Shutdown", 0)
                                + One(c.state \in {"ExecutingToIdle", "IdleToLoaded"})
    BY <2>2, <2>3, <2>6 DEF FlushSum, ShutdownSum
  <2>8. /\ (HowMany(inbox, "Flush", 0) + HowMany(c.deferred, "Flush", 0)) + One(c.state = "Flushing")
               + HowMany(outbox, "FlushCompleted", 0) = One(player = "flushing")
    BY <2>3, <2>4, <2>6, <2>7
  <2>9. (HowMany(inbox, "Shutdown", 0) + HowMany(c.deferred, "Shutdown", 0))
               + One(c.state \in {"ExecutingToIdle", "IdleToLoaded"})
               + HowMany(outbox, "ShutdownCompleted", 0) = One(player = "stopping")
    BY <2>3, <2>4, <2>5, <2>6, <2>7
  <2> QED
    BY <2>8, <2>9 DEF AnswerOwed, Queued
<1> QED
  BY <1>1, <1>2, <1>3, PTL DEF Spec
-----------------------------------------------------------------------------
(*                        Order of the messages                             *)

Resumes     == {Plain("Resume")}
Flushes     == {Plain("Flush")}
Calls       == Flushes \cup Resumes

Starting == {"LoadedToIdle", "IdleToExecuting"}
Changing == {"FlushingOutput", "OutputPortSettingsChanged"}
Working  == Starting \cup Changing \cup {"Executing", "Flushing"}

None(k, q, S) == NoneOf(k.deferred, S) /\ NoneOf(q, S)

(* A resume the player has sent is the last one, and no flush is before it.         *)
Ordered(k, q) ==
    /\ Never(k.deferred, Calls, Resumes) /\ Never(q, Calls, Resumes)
    /\ NoneOf(k.deferred, Calls) \/ NoneOf(q, Resumes)
    /\ k.state = "OutputPortSettingsChanged" \/ NoneOf(k.deferred, Resumes)
    /\ k.state = "Executing" => k.deferred = <<>>
    /\ player \in {"flushed", "stopping", "gone"} => None(k, q, Resumes)
    /\ player = "flushing" /\ None(k, q, Flushes) => None(k, q, Resumes)

(* A codec the player has resumed is active, or will be, unless the resume is lost.   *)
Awake(k, q) ==
    player = "playing" /\ k.state \in Changing \cup {"Executing"} =>
        k.active \/ k.missed \/ ~None(k, q, Resumes)

InOrder(k, q) == k.state \in Working => Ordered(k, q) /\ Awake(k, q)

(* Until it has been set up, nothing has been done.                              *)
Fresh == NoneOf(inbox, Setups)
            \/ (Head(inbox) \in Setups /\ Ordered(c, inbox) /\ Awake(c, inbox))

RInv == IInv /\ InOrder(c, inbox) /\ Fresh

LEMMA Joined ==
    ASSUME NEW E, NEW q \in Seq(E), NEW s \in Seq(E)
    PROVE  /\ q \o s \in Seq(E)
           /\ \A S : NoneOf(q \o s, S) <=> NoneOf(q, S) /\ NoneOf(s, S)
           /\ \A X, Y : Never(q \o s, X, Y) <=> /\ Never(q, X, Y) /\ Never(s, X, Y)
                                                /\ NoneOf(q, X) \/ NoneOf(s, Y)
<1> DEFINE u == q \o s
           n == Len(q)
           m == Len(s)
<1>1. /\ n \in Nat /\ m \in Nat /\ u \in Seq(E) /\ Len(u) = n + m
      /\ \A i \in 1 .. n : u[i] = q[i] /\ i \in 1 .. Len(u)
      /\ \A i \in 1 .. m : u[n + i] = s[i] /\ n + i \in 1 .. Len(u)
      /\ \A i \in 1 .. Len(u) : i \in 1 .. n \/ (i - n \in 1 .. m /\ n + (i - n) = i)
  <2>1. /\ n \in Nat /\ m \in Nat /\ u \in Seq(E) /\ Len(u) = n + m
        /\ \A i \in 1 .. Len(u) : u[i] = IF i <= n THEN q[i] ELSE s[i - n]
    BY LenProperties, ConcatProperties
  <2> HIDE DEF u, n, m
  <2>2. ASSUME NEW i \in 1 .. m PROVE u[n + i] = s[i] /\ n + i \in 1 .. Len(u)
    <3>1. n + i \in 1 .. Len(u) /\ ~(n + i <= n) /\ (n + i) - n = i
      BY <2>1
    <3>2. u[n + i] = s[(n + i) - n]
      BY <2>1, <3>1
    <3> QED
      BY <3>1, <3>2
  <2>3. \A i \in 1 .. n : u[i] = q[i] /\ i \in 1 .. Len(u)
    BY <2>1
  <2>4. \A i \in 1 .. Len(u) : i \in 1 .. n \/ (i - n \in 1 .. m /\ n + (i - n) = i)
    BY <2>1
  <2> QED
    BY <2>1, <2>2, <2>3, <2>4
<1>0. \A i \in 1 .. Len(u) : (\E j \in 1 .. n : i = j) \/ (\E j \in 1 .. m : i = n + j)
  BY <1>1
<1>2. \A S : NoneOf(u, S) <=> NoneOf(q, S) /\ NoneOf(s, S)
  <2> SUFFICES ASSUME NEW S PROVE NoneOf(u, S) <=> NoneOf(q, S) /\ NoneOf(s, S)
    OBVIOUS
  <2> HIDE DEF u
  <2>1. ASSUME NoneOf(u, S) PROVE NoneOf(q, S) /\ NoneOf(s, S)
    BY <1>1, <2>1 DEF NoneOf
  <2>2. ASSUME NoneOf(q, S), NoneOf(s, S) PROVE NoneOf(u, S)
    <3> SUFFICES ASSUME NEW i \in 1 .. Len(u) PROVE u[i] \notin S
      BY DEF NoneOf
    <3>1. CASE \E j \in 1 .. n : i = j
      BY <1>1, <2>2, <3>1 DEF NoneOf
    <3>2. CASE \E j \in 1 .. m : i = n + j
      BY <1>1, <2>2, <3>2 DEF NoneOf
    <3> QED
      BY <1>0, <3>1, <3>2
  <2> QED
    BY <2>1, <2>2
<1>3. \A X, Y : Never(u, X, Y) <=> /\ Never(q, X, Y) /\ Never(s, X, Y)
                                   /\ NoneOf(q, X) \/ NoneOf(s, Y)
  <2> SUFFICES ASSUME NEW X, NEW Y
               PROVE  Never(u, X, Y) <=> /\ Never(q, X, Y) /\ Never(s, X, Y)
                                         /\ NoneOf(q, X) \/ NoneOf(s, Y)
    OBVIOUS
  <2> HIDE DEF u
  <2>1. ASSUME Never(u, X, Y) PROVE Never(q, X, Y)
    BY <1>1, <2>1 DEF Never
  <2>2. ASSUME Never(u, X, Y) PROVE Never(s, X, Y)
    <3> SUFFICES ASSUME NEW i \in 1 .. m, NEW j \in 1 .. m, i < j, s[i] \in X PROVE s[j] \notin Y
      BY DEF Never
    <3>1. n + i < n + j
      BY <1>1
    <3> QED
      BY <1>1, <2>2, <3>1 DEF Never
  <2>3. ASSUME Never(u, X, Y) PROVE NoneOf(q, X) \/ NoneOf(s, Y)
    <3> SUFFICES ASSUME NEW i \in 1 .. n, NEW j \in 1 .. m, q[i] \in X PROVE s[j] \notin Y
      BY DEF NoneOf
    <3>1. i < n + j
      BY <1>1
    <3> QED
      BY <1>1, <2>3, <3>1 DEF Never
  <2>4. ASSUME Never(q, X, Y), Never(s, X, Y), NoneOf(q, X) \/ NoneOf(s, Y) PROVE Never(u, X, Y)
    <3> SUFFICES ASSUME NEW i \in 1 .. Len(u), NEW j \in 1 .. Len(u), i < j, u[i] \in X PROVE u[j] \notin Y
      BY DEF Never
    <3>1. CASE i \in 1 .. n /\ j \in 1 .. n
      BY <1>1, <2>4, <3>1 DEF Never
    <3>2. CASE \E a \in 1 .. m : j = n + a
      <4> PICK a \in 1 .. m : j = n + a
        BY <3>2
      <4>1. u[j] = s[a]
        BY <1>1
      <4>2. CASE i \in 1 .. n
        BY <1>1, <2>4, <4>1, <4>2 DEF NoneOf
      <4>3. CASE \E e \in 1 .. m : i = n + e
        <5> PICK e \in 1 .. m : i = n + e
          BY <4>3
        <5>1. u[i] = s[e] /\ e < a
          BY <1>1
        <5> QED
          BY <2>4, <4>1, <5>1 DEF Never
      <4> QED
        BY <1>0, <4>2, <4>3
    <3>3. CASE j \in 1 .. n
      BY <1>1, <3>1, <3>3
    <3> QED
      BY <1>0, <3>2, <3>3
  <2> QED
    BY <2>1, <2>2, <2>3, <2>4
<1> QED
  BY <1>1, <1>2, <1>3

LEMMA Kinds ==
    /\ \A m \in Message : /\ m \in Resumes <=> m.what = "Resume"
                          /\ m \in Flushes <=> m.what = "Flush"
                          /\ m \in Calls <=> m.what \in {"Resume", "Flush"}
                          /\ m \in Setups <=> m.what = "Setup"
    /\ \A what : Plain(what).what = what
    /\ \A k, q : None(k, q, Calls) <=> None(k, q, Flushes) /\ None(k, q, Resumes)
<1>1. ASSUME NEW m \in Message
      PROVE  /\ m \in Resumes <=> m.what = "Resume"
             /\ m \in Flushes <=> m.what = "Flush"
             /\ m \in Setups <=> m.what = "Setup"
  BY DEF Message, Resumes, Flushes, Setups, Plain, Mesg
<1>2. \A k, q : None(k, q, Calls) <=> None(k, q, Flushes) /\ None(k, q, Resumes)
  BY DEF None, NoneOf, Calls
<1> QED
  BY <1>1, <1>2 DEF Calls, Plain, Mesg

(* What a message makes of the codec.                                            *)
PutOff(k, e, m) ==
    /\ e = [k EXCEPT !.deferred = Append(k.deferred, m)]
    /\ k.state # "Executing" /\ (m.what = "Resume" => k.state = "OutputPortSettingsChanged")

Dropped(k, e, m) == e = k /\ ~(m.what \in {"Resume", "Flush"} /\ k.state \in Changing \cup {"Executing"})

Missed(k, e, m) == m.what = "Resume" /\ k.state = "FlushingOutput" /\ e = [k EXCEPT !.missed = TRUE]

Answered(k, e, m) ==
    /\ e = [k EXCEPT !.post = Append(k.post, Plain("FlushCompleted"))] /\ m.what = "Flush"
    /\ k.state \notin Changing \cup {"Executing", "Flushing"}

Flushed(k, e, m) ==
    /\ m.what = "Flush" /\ k.state = "Executing"
    /\ e = [k EXCEPT !.state = "Flushing", !.active = FALSE, !.flushed = {}, !.missed = FALSE, !.cmd = "Flush"]

Changed(k, e, m) ==
    /\ m.what = "PortSettingsChanged" /\ k.state = "Executing"
    /\ e = [k EXCEPT !.state = "FlushingOutput", !.flushed = {}, !.cmd = "FlushOutput"]

Woken(k, e, m) ==
    /\ m.what = "Resume" /\ k.state = "Executing"
    /\ e = [k EXCEPT !.active = TRUE, !.in = e.in, !.out = e.out, !.post = e.post]
    /\ DOMAIN e.out = DOMAIN k.out
    /\ \A b \in DOMAIN k.out : e.out[b] = "window" <=> k.out[b] = "window"

Filled(k, e, m) == m.what = "InputBufferFilled" /\ TakesInput(k, e, m)

ShutDown(k, e, m) ==
    /\ e.state \notin Working
    /\ k.state \in Working => k.state = "Executing" /\ m.what = "Shutdown"

LEMMA Outcomes ==
    ASSUME NEW k, Sound(k), NEW m \in Deferrable,
           m.what = "InputBufferFilled" => m.buf \in DOMAIN k.in /\ k.in[m.buf] = "up",
           NEW e, e = Deliver(k, m)
    PROVE  \/ PutOff(k, e, m) \/ Dropped(k, e, m) \/ Answered(k, e, m) \/ Flushed(k, e, m)
           \/ Changed(k, e, m) \/ Woken(k, e, m) \/ Missed(k, e, m) \/ Filled(k, e, m) \/ ShutDown(k, e, m)
<1>1. k \in Codec /\ k.state \in StateNames /\ k.bad = "none"
  BY DEF Sound, Codec
<1>2. m.what \in {"Flush", "Shutdown", "Resume", "PortSettingsChanged", "InputBufferFilled"}
  BY DEF Deferrable
<1>3. Defers(k, m) = [k EXCEPT !.deferred = Append(k.deferred, m)]
  BY <1>1, DefersDoes
<1>4. k.state = "Executing" => k.cmd = "none"
  BY DEF Sound, Commanded
<1>5. CASE m.what = "Flush"
  <2>1. e = OnFlush(k, m)
    BY <1>5 DEF Deliver
  <2>2. CASE k.state = "Executing"
    <3>1. e = [k EXCEPT !.state = "Flushing", !.active = FALSE, !.flushed = {}, !.missed = FALSE, !.cmd = "Flush"]
      BY <1>1, <1>4, <2>1, <2>2 DEF OnFlush, Sends, Codec
    <3> QED
      BY <1>5, <2>2, <3>1 DEF Flushed
  <2>3. CASE k.state \in Changing
    BY <1>3, <1>5, <2>1, <2>3 DEF OnFlush, PutOff, Changing
  <2>4. CASE k.state = "Flushing"
    BY <1>5, <2>1, <2>4 DEF OnFlush, Dropped, Changing
  <2>5. CASE k.state \notin Changing \cup {"Executing", "Flushing"}
    <3>1. e = Posts(k, Plain("FlushCompleted"))
      BY <2>1, <2>5 DEF OnFlush, Changing
    <3>2. e = [k EXCEPT !.post = Append(k.post, Plain("FlushCompleted"))]
      BY <1>1, <3>1, PostsDoes, PlainNotes
    <3> QED
      BY <1>5, <2>5, <3>2 DEF Answered
  <2> QED
    BY <2>2, <2>3, <2>4, <2>5
<1>6. CASE m.what = "Shutdown"
  <2>1. e = OnShutdown(k, m)
    BY <1>6 DEF Deliver
  <2>2. CASE k.state = "Executing"
    <3>1. e.state = "ExecutingToIdle"
      BY <1>1, <1>4, <2>1, <2>2 DEF OnShutdown, Sends, Codec
    <3> QED
      BY <1>6, <2>2, <3>1 DEF ShutDown, Working, Starting, Changing
  <2>3. CASE k.state = "Uninitialized"
    <3>1. e = Posts(k, Plain("ShutdownCompleted"))
      BY <2>1, <2>3 DEF OnShutdown
    <3>2. e.state = k.state
      BY <1>1, <3>1 DEF Posts, Codec
    <3> QED
      BY <2>3, <3>2 DEF ShutDown, Working, Starting, Changing
  <2>4. CASE k.state = "Loaded"
    <3>1. e = FreesNode(k)
      BY <2>1, <2>4 DEF OnShutdown
    <3>2. e.state = "Uninitialized"
      BY <1>1, <3>1 DEF FreesNode, Posts, Codec
    <3> QED
      BY <2>4, <3>2 DEF ShutDown, Working, Starting, Changing
  <2>5. CASE k.state \in Stopped
    BY <1>6, <2>1, <2>5 DEF OnShutdown, Stopped, Dropped, Changing
  <2>6. CASE k.state \notin {"Executing", "Uninitialized", "Loaded"} \cup Stopped
    <3>1. e = Defers(k, m)
      BY <2>1, <2>6 DEF OnShutdown, Stopped
    <3> QED
      BY <1>3, <1>6, <2>6, <3>1 DEF PutOff
  <2> QED
    BY <2>2, <2>3, <2>4, <2>5, <2>6
<1>7. CASE m.what = "Resume"
  <2>1. e = OnResume(k, m)
    BY <1>7 DEF Deliver
  <2>2. CASE k.state = "Executing"
    <3>1. e = Resumed(k)
      BY <2>1, <2>2 DEF OnResume
    <3>2. Resumable(k)
      BY <1>1, <2>2 DEF Resumable, Sound, Resting, Busy
    <3>3. /\ Resumed(k) = [k EXCEPT !.active = TRUE, !.in = Resumed(k).in, !.out = Resumed(k).out,
                                     !.post = Resumed(k).post]
          /\ DOMAIN Resumed(k).out = DOMAIN k.out
          /\ \A b \in DOMAIN k.out : Resumed(k).out[b] = "window" <=> k.out[b] = "window"
      BY <3>2, ResumedDoes
    <3>4. Woken(k, e, m)
      BY <1>7, <2>2, <3>1, <3>3 DEF Woken
    <3> QED
      BY <3>4
  <2>3. CASE k.state = "OutputPortSettingsChanged"
    BY <1>3, <1>7, <2>1, <2>3 DEF OnResume, PutOff
  <2>4. CASE k.state = "FlushingOutput"
    BY <1>7, <2>1, <2>4 DEF OnResume, Missed
  <2>5. CASE k.state \notin Changing \cup {"Executing"}
    BY <1>7, <2>1, <2>5 DEF OnResume, Dropped, Changing
  <2> QED
    BY <2>2, <2>3, <2>4, <2>5 DEF Changing
<1>8. CASE m.what = "PortSettingsChanged"
  <2>1. e = OnPortChanged(k, m)
    BY <1>8 DEF Deliver
  <2>2. CASE k.state = "Executing"
    <3>1. e = [k EXCEPT !.state = "FlushingOutput", !.flushed = {}, !.cmd = "FlushOutput"]
      BY <1>1, <1>4, <2>1, <2>2 DEF OnPortChanged, Sends, Codec
    <3> QED
      BY <1>8, <2>2, <3>1 DEF Changed
  <2>3. CASE k.state \in {"Flushing", "FlushingOutput"}
    BY <1>3, <1>8, <2>1, <2>3 DEF OnPortChanged, PutOff
  <2>4. CASE k.state \notin {"Executing", "Flushing", "FlushingOutput"}
    BY <1>8, <2>1, <2>4 DEF OnPortChanged, Dropped
  <2> QED
    BY <2>2, <2>3, <2>4
<1>9. CASE m.what = "InputBufferFilled"
  <2>1. CASE k.state = "FlushingOutput"
    BY <1>3, <1>9, <2>1 DEF Deliver, PutOff
  <2>2. CASE k.state # "FlushingOutput"
    <3>1. e = InputFilled(k, m)
      BY <1>9, <2>2 DEF Deliver
    <3>2. TakesInput(k, InputFilled(k, m), m)
      BY <1>1, <1>9, InputFilledDoes DEF Sound, Busy
    <3> QED
      BY <1>9, <3>1, <3>2 DEF Filled
  <2> QED
    BY <2>1, <2>2
<1> QED
  BY <1>2, <1>5, <1>6, <1>7, <1>8, <1>9

(* A message that the codec takes keeps the order.                                  *)
LEMMA DeliverOrdered ==
    ASSUME NEW k, Sound(k), NEW q \in Seq(Message), q # <<>>, Head(q) \in Deferrable,
           Head(q).what = "InputBufferFilled" => Head(q).buf \in DOMAIN k.in /\ k.in[Head(q).buf] = "up",
           k.state \in Working, Ordered(k, q),
           NEW e, e = Deliver(k, Head(q)), e.state \in Working
    PROVE  Ordered(e, Tail(q))
<1> DEFINE m == Head(q)
           t == Tail(q)
           d == k.deferred
<1>1. k \in Codec /\ d \in Seq(Deferrable)
  BY CodecFields DEF Sound
<1>2. /\ t \in Seq(Message) /\ m \in Message /\ m \in Deferrable
      /\ \A S : NoneOf(q, S) <=> m \notin S /\ NoneOf(t, S)
      /\ \A X, Y : Never(q, X, Y) <=> (m \in X => NoneOf(t, Y)) /\ Never(t, X, Y)
  BY Served
<1>3. /\ \A S : NoneOf(Append(d, m), S) <=> NoneOf(d, S) /\ m \notin S
      /\ \A X, Y : Never(Append(d, m), X, Y) <=> Never(d, X, Y) /\ (NoneOf(d, X) \/ m \notin Y)
  BY <1>1, <1>2, Posted
<1>4. \/ PutOff(k, e, m) \/ Dropped(k, e, m) \/ Answered(k, e, m) \/ Flushed(k, e, m)
      \/ Changed(k, e, m) \/ Woken(k, e, m) \/ Missed(k, e, m) \/ Filled(k, e, m)
  BY Outcomes DEF ShutDown
<1>5. /\ m \in Resumes <=> m.what = "Resume"
      /\ m \in Flushes <=> m.what = "Flush"
      /\ m \in Calls <=> m.what \in {"Resume", "Flush"}
  BY <1>2, Kinds
<1>6. /\ Never(d, Calls, Resumes) /\ Never(t, Calls, Resumes) /\ (m \in Calls => NoneOf(t, Resumes))
      /\ NoneOf(d, Calls) \/ (m \notin Resumes /\ NoneOf(t, Resumes))
      /\ k.state = "OutputPortSettingsChanged" \/ NoneOf(d, Resumes)
      /\ k.state = "Executing" => d = <<>>
      /\ player \in {"flushed", "stopping", "gone"} => NoneOf(d, Resumes) /\ m \notin Resumes /\ NoneOf(t, Resumes)
      /\ player = "flushing" /\ NoneOf(d, Flushes) /\ m \notin Flushes /\ NoneOf(t, Flushes) =>
            NoneOf(d, Resumes) /\ m \notin Resumes /\ NoneOf(t, Resumes)
  BY <1>2 DEF Ordered, None
<1>7. \A S : NoneOf(<<>>, S)
  BY EmptySeq DEF NoneOf
<1> HIDE DEF m, t, d
<1>8. CASE PutOff(k, e, m)
  <2>1. e.deferred = Append(d, m) /\ e.state = k.state
    BY <1>1, <1>8 DEF PutOff, Codec, d
  <2>2. k.state # "Executing" /\ (m \in Resumes => k.state = "OutputPortSettingsChanged")
    BY <1>5, <1>8 DEF PutOff
  <2>3. NoneOf(e.deferred, Calls) \/ NoneOf(t, Resumes)
    BY <1>3, <1>6, <2>1
  <2>4. Never(e.deferred, Calls, Resumes) /\ Never(t, Calls, Resumes)
    BY <1>3, <1>6, <2>1
  <2>5. player \in {"flushed", "stopping", "gone"} => NoneOf(e.deferred, Resumes) /\ NoneOf(t, Resumes)
    BY <1>3, <1>6, <2>1
  <2>6. player = "flushing" /\ NoneOf(e.deferred, Flushes) /\ NoneOf(t, Flushes) =>
            NoneOf(e.deferred, Resumes) /\ NoneOf(t, Resumes)
    BY <1>3, <1>6, <2>1
  <2>7. e.state = "OutputPortSettingsChanged" \/ NoneOf(e.deferred, Resumes)
    BY <1>3, <1>6, <2>1, <2>2
  <2> QED
    BY <2>1, <2>2, <2>3, <2>4, <2>5, <2>6, <2>7 DEF Ordered, None, t
<1>9. ASSUME e.deferred = d, m \in Flushes => NoneOf(d, Resumes),
             e.state = "OutputPortSettingsChanged" \/ NoneOf(d, Resumes), e.state = "Executing" => d = <<>>
      PROVE  Ordered(e, t)
  <2>1. player = "flushing" /\ NoneOf(d, Flushes) /\ NoneOf(t, Flushes) => NoneOf(d, Resumes) /\ NoneOf(t, Resumes)
    <3>1. m \in Flushes => NoneOf(t, Resumes) /\ NoneOf(d, Resumes)
      BY <1>5, <1>6, <1>9
    <3> QED
      BY <1>6, <3>1
  <2> QED
    BY <1>6, <1>9, <2>1 DEF Ordered, None
<1>10. k.state \notin Changing => NoneOf(d, Resumes)
  BY <1>6 DEF Changing
<1>11. CASE Dropped(k, e, m)
  <2>1. e.deferred = d /\ e.state = k.state
    BY <1>11 DEF Dropped, d
  <2>2. m \in Flushes => k.state \notin Changing
    BY <1>5, <1>11 DEF Dropped, Changing
  <2> QED
    BY <1>6, <1>9, <1>10, <2>1, <2>2 DEF t
<1>12. CASE Answered(k, e, m)
  <2>1. e.deferred = d /\ e.state = k.state
    BY <1>1, <1>12 DEF Answered, Codec, d
  <2>2. k.state \notin Changing
    BY <1>12 DEF Answered
  <2> QED
    BY <1>6, <1>9, <1>10, <2>1, <2>2 DEF t
<1>13. CASE Flushed(k, e, m)
  <2>1. e.deferred = d /\ e.state = "Flushing" /\ d = <<>>
    BY <1>1, <1>6, <1>13 DEF Flushed, Codec, d
  <2> QED
    BY <1>7, <1>9, <2>1 DEF t
<1>14. CASE Changed(k, e, m)
  <2>1. e.deferred = d /\ e.state = "FlushingOutput" /\ d = <<>>
    BY <1>1, <1>6, <1>14 DEF Changed, Codec, d
  <2> QED
    BY <1>7, <1>9, <2>1 DEF t
<1>15. CASE Woken(k, e, m)
  <2>1. e.deferred = d /\ e.state = k.state /\ m \notin Flushes
    BY <1>1, <1>5, <1>15 DEF Woken, Codec, d
  <2> QED
    BY <1>6, <1>9, <2>1 DEF t
<1>16. CASE Filled(k, e, m)
  <2>1. e.deferred = d /\ e.state = k.state /\ m \notin Flushes
    BY <1>1, <1>5, <1>16 DEF Filled, TakesInput, Input, Codec, d
  <2> QED
    BY <1>6, <1>9, <2>1 DEF t
<1>17. CASE Missed(k, e, m)
  <2>1. e.deferred = d /\ e.state = k.state /\ m \notin Flushes
    BY <1>1, <1>5, <1>17 DEF Missed, Codec, d
  <2> QED
    BY <1>6, <1>9, <2>1 DEF t
<1> QED
  BY <1>4, <1>8, <1>11, <1>12, <1>13, <1>14, <1>15, <1>16, <1>17 DEF t

LEMMA DeliverAwake ==
    ASSUME NEW k, Sound(k), NEW q \in Seq(Message), q # <<>>, Head(q) \in Deferrable,
           Head(q).what = "InputBufferFilled" => Head(q).buf \in DOMAIN k.in /\ k.in[Head(q).buf] = "up",
           k.state \in Working, Awake(k, q),
           NEW e, e = Deliver(k, Head(q)), e.state \in Working
    PROVE  Awake(e, Tail(q))
<1> DEFINE m == Head(q)
           t == Tail(q)
           d == k.deferred
           Open == Changing \cup {"Executing"}
<1>1. k \in Codec /\ d \in Seq(Deferrable)
  BY CodecFields DEF Sound
<1>2. /\ t \in Seq(Message) /\ m \in Message /\ m \in Deferrable
      /\ \A S : NoneOf(q, S) <=> m \notin S /\ NoneOf(t, S)
  BY Served
<1>3. \A S : NoneOf(Append(d, m), S) <=> NoneOf(d, S) /\ m \notin S
  BY <1>1, <1>2, Posted
<1>4. \/ PutOff(k, e, m) \/ Dropped(k, e, m) \/ Answered(k, e, m) \/ Flushed(k, e, m)
      \/ Changed(k, e, m) \/ Woken(k, e, m) \/ Missed(k, e, m) \/ Filled(k, e, m)
  BY Outcomes DEF ShutDown
<1>5. m \in Resumes <=> m.what = "Resume"
  BY <1>2, Kinds
<1>6. player = "playing" /\ k.state \in Open =>
            k.active \/ k.missed \/ m \in Resumes \/ ~NoneOf(d, Resumes) \/ ~NoneOf(t, Resumes)
  BY <1>2 DEF Awake, None
<1> HIDE DEF m, t, d
<1>7. CASE PutOff(k, e, m)
  <2>1. e.deferred = Append(d, m) /\ e.state = k.state /\ e.active = k.active /\ e.missed = k.missed
    BY <1>1, <1>7 DEF PutOff, Codec, d
  <2> QED
    BY <1>3, <1>6, <2>1 DEF Awake, None, t
<1>8. ASSUME e.deferred = d, e.state \in Open => k.state \in Open, e.active = k.active, e.missed = k.missed,
             m \notin Resumes
      PROVE  Awake(e, t)
  BY <1>6, <1>8 DEF Awake, None
<1>9. CASE Dropped(k, e, m)
  <2>1. e = k /\ (m \in Resumes => k.state \notin Open)
    BY <1>5, <1>9 DEF Dropped
  <2> QED
    BY <1>6, <2>1 DEF Awake, None, d, t
<1>10. CASE Answered(k, e, m)
  <2>1. e.state \notin Open
    BY <1>1, <1>10 DEF Answered, Codec
  <2> QED
    BY <2>1 DEF Awake, t
<1>11. CASE Flushed(k, e, m)
  <2>1. e.state = "Flushing"
    BY <1>1, <1>11 DEF Flushed, Codec
  <2> QED
    BY <2>1 DEF Awake, Changing, t
<1>12. CASE Changed(k, e, m)
  <2>1. e.deferred = d /\ k.state \in Open /\ e.active = k.active /\ e.missed = k.missed
    BY <1>1, <1>12 DEF Changed, Codec, d
  <2>2. m \notin Resumes
    BY <1>5, <1>12 DEF Changed
  <2> QED
    BY <1>8, <2>1, <2>2 DEF t
<1>13. CASE Woken(k, e, m)
  <2>1. e.active
    BY <1>1, <1>13 DEF Woken, Codec
  <2> QED
    BY <2>1 DEF Awake, t
<1>14. CASE Missed(k, e, m)
  <2>1. e.missed
    BY <1>1, <1>14 DEF Missed, Codec
  <2> QED
    BY <2>1 DEF Awake, t
<1>15. CASE Filled(k, e, m)
  <2>1. e.deferred = d /\ e.state = k.state /\ e.active = k.active /\ e.missed = k.missed
    BY <1>1, <1>15 DEF Filled, TakesInput, Input, Codec, d
  <2>2. m \notin Resumes
    BY <1>5, <1>15 DEF Filled
  <2> QED
    BY <1>8, <2>1, <2>2 DEF t
<1> QED
  BY <1>4, <1>7, <1>9, <1>10, <1>11, <1>12, <1>13, <1>14, <1>15 DEF t

LEMMA DeliverInOrder ==
    ASSUME Typed, NEW k, NEW q, Fits(k, q), q # <<>>, Head(q) \in Deferrable, InOrder(k, q)
    PROVE  InOrder(Deliver(k, Head(q)), Tail(q))
<1> DEFINE e == Deliver(k, Head(q))
<1>1. Sound(k) /\ q \in Seq(Message) /\ e = Deliver(k, Head(q))
  BY DEF Fits, Balanced
<1>2. Head(q).what = "InputBufferFilled" => Head(q).buf \in DOMAIN k.in /\ k.in[Head(q).buf] = "up"
  BY HeadSays
<1> HIDE DEF e
<1>3. SUFFICES ASSUME e.state \in Working
               PROVE  Ordered(e, Tail(q)) /\ Awake(e, Tail(q))
  BY DEF InOrder, e
<1>4. k.state \in Working
  <2>1. \/ PutOff(k, e, Head(q)) \/ Dropped(k, e, Head(q)) \/ Answered(k, e, Head(q)) \/ Flushed(k, e, Head(q))
        \/ Changed(k, e, Head(q)) \/ Woken(k, e, Head(q)) \/ Missed(k, e, Head(q)) \/ Filled(k, e, Head(q))
    BY <1>1, <1>2, <1>3, Outcomes DEF ShutDown
  <2>2. k \in Codec
    BY <1>1 DEF Sound
  <2>3. CASE Flushed(k, e, Head(q)) \/ Changed(k, e, Head(q)) \/ Woken(k, e, Head(q))
    BY <2>3 DEF Flushed, Changed, Woken, Working
  <2>4. CASE \/ PutOff(k, e, Head(q)) \/ Dropped(k, e, Head(q)) \/ Answered(k, e, Head(q))
           \/ Missed(k, e, Head(q)) \/ Filled(k, e, Head(q))
    <3>1. e.state = k.state
      BY <2>2, <2>4 DEF PutOff, Dropped, Answered, Missed, Filled, TakesInput, Input, Codec
    <3> QED
      BY <1>3, <3>1
  <2> QED
    BY <2>1, <2>3, <2>4
<1>5. Ordered(k, q) /\ Awake(k, q)
  BY <1>4 DEF InOrder
<1>6. Ordered(e, Tail(q))
  BY <1>1, <1>2, <1>3, <1>4, <1>5, DeliverOrdered
<1>7. Awake(e, Tail(q))
  BY <1>1, <1>2, <1>3, <1>4, <1>5, DeliverAwake
<1> QED
  BY <1>6, <1>7

LEMMA EnterInOrder ==
    ASSUME Typed, NEW k \in Codec, NEW q, Owes(k, q), Sound(Opened(k)), Ordered(k, q),
           player = "playing" => k.active \/ k.missed \/ ~None(k, q, Resumes)
    PROVE  InOrder(EnterExecuting(k), q)
<1>1. q \in Seq(Message) /\ k.deferred \in Seq(Message)
  BY CodecFields, MessagesAreMessages DEF Owes
<1>2a. PICK n, g, w : Enters(k, q, n, g, w)
  BY <1>1, EntersByOne
<1>2. n \in Nat /\ Enters(k, q, n, g, w)
  BY <1>2a DEF Enters
<1> DEFINE P == {i \in 0 .. n : Fits(g[i], w[i]) /\ InOrder(g[i], w[i])}
<1>3. 0 \in P
  <2>1. g[0] = Opened(k) /\ w[0] = k.deferred \o q
    BY <1>2 DEF Enters
  <2>2. Fits(g[0], w[0])
    BY <2>1, OpenedFits
  <2>3. /\ \A S : NoneOf(k.deferred \o q, S) <=> NoneOf(k.deferred, S) /\ NoneOf(q, S)
        /\ \A X, Y : Never(k.deferred \o q, X, Y) <=> Never(k.deferred, X, Y) /\ Never(q, X, Y) /\ (NoneOf(k.deferred, X) \/ NoneOf(q, Y))
    <3> DEFINE d == k.deferred
    <3>1. d \in Seq(Message)
      BY <1>1
    <3> HIDE DEF d
    <3>2. /\ \A S : NoneOf(d \o q, S) <=> NoneOf(d, S) /\ NoneOf(q, S)
          /\ \A X, Y : Never(d \o q, X, Y) <=> Never(d, X, Y) /\ Never(q, X, Y) /\ (NoneOf(d, X) \/ NoneOf(q, Y))
      BY <1>1, <3>1, Joined
    <3> QED
      BY <3>2 DEF d
  <2>4. Opened(k).state = "Executing" /\ Opened(k).deferred = <<>> /\ Opened(k).active = k.active
        /\ Opened(k).missed = k.missed
    BY DEF Opened, Codec
  <2>5. (\A S : NoneOf(<<>>, S)) /\ (\A X, Y : Never(<<>>, X, Y))
    BY EmptySeq DEF NoneOf, Never
  <2> DEFINE e == Opened(k)
             v == k.deferred \o q
  <2>6. e.state = "Executing" /\ e.deferred = <<>> /\ e.active = k.active /\ e.missed = k.missed
    BY <2>4
  <2>7. /\ \A S : NoneOf(v, S) <=> NoneOf(k.deferred, S) /\ NoneOf(q, S)
        /\ \A X, Y : Never(v, X, Y) <=> Never(k.deferred, X, Y) /\ Never(q, X, Y) /\ (NoneOf(k.deferred, X) \/ NoneOf(q, Y))
    BY <2>3 DEF v
  <2> HIDE DEF e, v
  <2>8. Ordered(e, v)
    BY <2>5, <2>6, <2>7 DEF Ordered, None
  <2>9. Awake(e, v)
    BY <2>5, <2>6, <2>7 DEF Awake, None, Changing
  <2>10. InOrder(e, v)
    BY <2>8, <2>9 DEF InOrder
  <2>11. 0 \in 0 .. n
    BY <1>2
  <2> QED
    BY <2>1, <2>2, <2>10, <2>11 DEF e, v
<1>4. ASSUME NEW i \in 0 .. n, i \in P, i < n
      PROVE  i + 1 \in P
  <2>1. i + 1 \in 1 .. n /\ (i + 1) - 1 = i
    BY <1>2, <1>4
  <2>2. /\ w[i] # <<>> /\ Head(w[i]) \in Deferrable
        /\ w[i + 1] = Tail(w[i]) /\ g[i + 1] = Deliver(g[i], Head(w[i]))
    BY <1>2, <2>1 DEF Enters
  <2>3. Fits(g[i], w[i]) /\ InOrder(g[i], w[i])
    BY <1>4
  <2>4. Fits(g[i + 1], w[i + 1])
    BY <2>2, <2>3, DeliverFits
  <2>5. InOrder(g[i + 1], w[i + 1])
    BY <2>2, <2>3, DeliverInOrder
  <2> QED
    BY <2>1, <2>4, <2>5
<1> HIDE DEF P
<1>5. \A i \in 0 .. n : i \in P
  BY <1>2, <1>3, <1>4, NumberInduction
<1>6. n \in P
  BY <1>2, <1>5
<1> QED
  BY <1>2, <1>6 DEF P, Enters

LEMMA Uncounted ==
    ASSUME NEW q \in Seq(AnyMessage), NEW what, HowMany(q, what, 0) = 0
    PROVE  NoneOf(q, {Plain(what)})
<1> DEFINE A == {i \in 1 .. Len(q) : q[i].what = what /\ q[i].buf = 0}
<1>1. Len(q) \in Nat /\ A \subseteq 1 .. Len(q)
  BY LenProperties
<1>2. IsFiniteSet(A)
  <2>1. IsFiniteSet(1 .. Len(q))
    BY <1>1, FS_Interval
  <2> QED
    BY <1>1, <2>1, FS_Subset
<1>3. A = {}
  BY <1>2, FS_EmptySet DEF HowMany
<1> QED
  BY <1>3, PlainNotes DEF NoneOf

(* A flush that is carried out is one the player waits for.                          *)
LEMMA FlushIsAwaited ==
    ASSUME Typed, NEW k, NEW q, Fits(k, q),
           k.state = "Flushing" \/ ~None(k, q, Flushes) \/ HowMany(outbox, "FlushCompleted", 0) # 0
    PROVE  /\ player = "flushing"
           /\ HowMany(outbox, "FlushCompleted", 0) # 0 => None(k, q, Flushes)
<1>1. /\ k \in Codec /\ q \in Seq(Message) /\ q \in Seq(AnyMessage) /\ outbox \in Seq(AnyMessage)
      /\ k.deferred \in Seq(Deferrable) /\ k.deferred \in Seq(Message) /\ k.deferred \in Seq(AnyMessage)
      /\ k.post \in Seq(AnyMessage)
  BY MessagesAreMessages, CodecFields DEF Fits, Balanced, Sound, Typed
<1>2. PICK f \in Nat, d \in Nat, r \in Nat, o \in Nat, s \in 0 .. 1, a \in 0 .. 1 :
        /\ f = HowMany(k.post, "FlushCompleted", 0) /\ d = HowMany(k.deferred, "Flush", 0)
        /\ r = HowMany(q, "Flush", 0) /\ o = HowMany(outbox, "FlushCompleted", 0)
        /\ s = One(k.state = "Flushing") /\ a = One(player = "flushing")
        /\ k.state = "Flushing" => s = 1
        /\ player # "flushing" => a = 0
  <2>1. /\ HowMany(k.post, "FlushCompleted", 0) \in Nat /\ HowMany(k.deferred, "Flush", 0) \in Nat
        /\ HowMany(q, "Flush", 0) \in Nat /\ HowMany(outbox, "FlushCompleted", 0) \in Nat
    BY <1>1, HowManyType
  <2>2. /\ One(k.state = "Flushing") \in 0 .. 1 /\ One(player = "flushing") \in 0 .. 1
        /\ k.state = "Flushing" => One(k.state = "Flushing") = 1
        /\ player # "flushing" => One(player = "flushing") = 0
    BY OneType
  <2> QED
    BY <2>1, <2>2
<1>3. (f + d + s) + o + r = a
  BY <1>2 DEF Fits, Balanced, FlushSum
<1>4. d = 0 => NoneOf(k.deferred, Flushes)
  BY <1>1, <1>2, Uncounted DEF Flushes
<1>5. r = 0 => NoneOf(q, Flushes)
  BY <1>1, <1>2, Uncounted DEF Flushes
<1>6. s = 1 \/ d # 0 \/ r # 0 \/ o # 0
  <2>1. None(k, q, Flushes) <=> NoneOf(k.deferred, Flushes) /\ NoneOf(q, Flushes)
    BY DEF None
  <2> QED
    BY <1>2, <1>4, <1>5, <2>1
<1>7. a = 1 /\ (o # 0 => d = 0 /\ r = 0)
  <2>1. f \in Nat /\ d \in Nat /\ r \in Nat /\ o \in Nat /\ s \in 0 .. 1 /\ a \in 0 .. 1
    BY <1>2
  <2> QED
    BY <1>3, <1>6, <2>1
<1> QED
  BY <1>2, <1>4, <1>5, <1>7 DEF None


(* The order looks at no other field of the codec.                                 *)
LEMMA Steady ==
    ASSUME NEW k, NEW q, InOrder(k, q), NEW e, e.state = k.state, e.active = k.active, e.missed = k.missed,
           e.deferred = k.deferred
    PROVE  InOrder(e, q)
BY DEF InOrder, Ordered, Awake, None

LEMMA FlushInOrder ==
    ASSUME Typed, NEW k, NEW q, Fits(k, q), k.state = "Flushing", k.flushed = {"in", "out"}, AllOurs(k),
           NEW p, p = FlushAnswer(k),
           InOrder(k, q)
    PROVE  InOrder(EnterExecuting(p), q)
<1>1. /\ p \in Codec /\ Owes(p, q) /\ Sound(Opened(p)) /\ (Stops(k, q) => Stops(p, q))
      /\ p.state = k.state /\ p.active = k.active /\ p.missed = k.missed /\ p.deferred = k.deferred
  BY FlushOpens
<1>2. InOrder(p, q)
  BY <1>1, Steady
<1>3. player = "flushing"
  BY FlushIsAwaited
<1>4. Ordered(p, q)
  BY <1>1, <1>2 DEF InOrder, Working
<1> QED
  BY <1>1, <1>3, <1>4, EnterInOrder

(* The codec has the buffers a change of state waits for.                             *)
LEMMA ChangeInOrder ==
    ASSUME Typed, NEW k, NEW q, Fits(k, q), InOrder(k, q)
    PROVE  InOrder(ChangeState(k), q)
<1> DEFINE p == FlushAnswer(k)
<1>0. k \in Codec
  BY DEF Fits, Sound
<1>1. CASE k.state = "Flushing" /\ k.flushed = {"in", "out"} /\ AllOurs(k)
  <2>1. ChangeState(k) = EnterExecuting(p)
    BY <1>1 DEF ChangeState, FlushAnswer
  <2>2. InOrder(EnterExecuting(p), q)
    BY <1>1, FlushInOrder
  <2> QED
    BY <2>1, <2>2
<1>2. CASE k.state = "FlushingOutput" /\ k.flushed = {"out"} /\ Ours(k.out)
  <2> DEFINE e == DisablesPort(k)
  <2>1. ChangeState(k) = e
    BY <1>2 DEF ChangeState
  <2>2. e.state = "OutputPortSettingsChanged" /\ e.active = k.active /\ e.missed = k.missed
        /\ e.deferred = k.deferred
    BY <1>0 DEF DisablesPort, Sends, Fails, Codec
  <2> HIDE DEF e
  <2>3. Ordered(k, q) /\ Awake(k, q)
    BY <1>2 DEF InOrder, Working, Changing
  <2>4. Ordered(e, q)
    BY <2>2, <2>3 DEF Ordered, None
  <2>5. Awake(e, q)
    BY <1>2, <2>2, <2>3 DEF Awake, None, Changing
  <2> QED
    BY <2>1, <2>4, <2>5 DEF InOrder
<1>3. CASE k.state = "ExecutingToIdle" /\ k.nowIdle /\ AllOurs(k)
  <2>1. ChangeState(k) = Sends([k EXCEPT !.state = "IdleToLoaded", !.in = NoBuffers, !.out = NoBuffers], "Loaded")
    BY <1>3 DEF ChangeState
  <2>2. ChangeState(k).state = "IdleToLoaded"
    BY <1>0, <2>1 DEF Sends, Fails, Codec
  <2> QED
    BY <2>2 DEF InOrder, Working, Starting, Changing
<1>4. CASE /\ ~(k.state = "Flushing" /\ k.flushed = {"in", "out"} /\ AllOurs(k))
           /\ ~(k.state = "FlushingOutput" /\ k.flushed = {"out"} /\ Ours(k.out))
           /\ ~(k.state = "ExecutingToIdle" /\ k.nowIdle /\ AllOurs(k))
  BY <1>4 DEF ChangeState
<1> QED
  BY <1>1, <1>2, <1>3, <1>4

(* What the order becomes when the codec becomes k.                                  *)
LEMMA BecomesInOrder ==
    ASSUME NEW k \in Codec, NEW q, InOrder(k, q), NoneOf(q, Setups), Becomes(k), inbox' = q, player' = player
    PROVE  InOrder(c, inbox)' /\ Fresh'
<1>1. c'.state = k.state /\ c'.active = k.active /\ c'.missed = k.missed
      /\ c'.deferred = k.deferred
  BY DEF Becomes, Codec
<1> DEFINE e == c'
<1>2. InOrder(e, q)
  BY <1>1, Steady
<1>3. InOrder(c, inbox)'
  BY <1>2 DEF InOrder, Ordered, Awake, None
<1> QED
  BY <1>3 DEF Fresh

OrderKept == InOrder(c, inbox)' /\ Fresh'

LEMMA HandlerOrders ==
    ASSUME RInv, NEW what, Takes(what), NEW k, Fits(k, Tail(inbox)), InOrder(k, Tail(inbox)),
           Becomes(k) \/ Becomes(ChangeState(k))
    PROVE  OrderKept
<1> DEFINE q == Tail(inbox)
<1>1. /\ inbox' = q /\ player' = player /\ Typed /\ NoneOf(q, Setups)
  BY TakesDoes DEF RInv
<1>2. Fits(k, q) /\ InOrder(k, q)
  OBVIOUS
<1> HIDE DEF q
<1>3. Fits(ChangeState(k), q) /\ InOrder(ChangeState(k), q)
  BY <1>1, <1>2, ChangeStateFits, ChangeInOrder
<1>4. k \in Codec /\ ChangeState(k) \in Codec
  BY <1>2, <1>3 DEF Fits, Sound
<1> QED
  BY <1>1, <1>2, <1>3, <1>4, BecomesInOrder DEF OrderKept

(* The component calls.                                                           *)
LEMMA CallbackOrders ==
    ASSUME RInv, c # NewCodec, UNCHANGED <<inbox, player, held>>, NEW k \in Codec, InOrder(k, inbox), Becomes(k)
    PROVE  OrderKept
<1> DEFINE q == inbox
<1>1. inbox' = q /\ player' = player /\ InOrder(k, q) /\ NoneOf(q, Setups)
  BY NoSetup DEF RInv
<1> HIDE DEF q
<1> QED
  BY <1>1, BecomesInOrder DEF OrderKept

LEMMA SteadyOrders ==
    ASSUME RInv, c # NewCodec, UNCHANGED <<inbox, player, held>>,
           c'.state = c.state, c'.active = c.active, c'.missed = c.missed, c'.deferred = c.deferred
    PROVE  OrderKept
<1>1. InOrder(c, inbox) /\ NoneOf(inbox, Setups)
  BY NoSetup DEF RInv
<1> DEFINE e == c'
<1>2. InOrder(e, inbox)
  BY <1>1, Steady
<1>3. InOrder(c, inbox)'
  BY <1>2 DEF InOrder, Ordered, Awake, None
<1> QED
  BY <1>1, <1>3 DEF OrderKept, Fresh

LEMMA IdleOrders ==
    ASSUME RInv, c # NewCodec, UNCHANGED <<inbox, player, held>>, c'.state \notin Working
    PROVE  OrderKept
<1>1. NoneOf(inbox, Setups)
  BY NoSetup DEF RInv
<1> QED
  BY <1>1 DEF OrderKept, Fresh, InOrder

-----------------------------------------------------------------------------
(*                  Every step keeps the order                              *)

LEMMA SetupOrders == ASSUME RInv, Setup PROVE OrderKept
<1>1. Takes("Setup")
  BY DEF Setup
<1>2. /\ inbox # <<>> /\ Head(inbox) \in Message /\ Head(inbox).what = "Setup" /\ c = NewCodec
      /\ Fits(c, inbox) /\ inbox' = Tail(inbox) /\ player' = player /\ NoneOf(Tail(inbox), Setups)
  BY <1>1, TakesDoes DEF RInv
<1>3. c \in Codec /\ inbox \in Seq(Message)
  BY <1>2 DEF Fits, Sound, Balanced
<1> DEFINE m == Head(inbox)
           t == Tail(inbox)
           k == c'
<1>4. /\ \A S : NoneOf(inbox, S) <=> m \notin S /\ NoneOf(t, S)
      /\ \A X, Y : Never(inbox, X, Y) <=> (m \in X => NoneOf(t, Y)) /\ Never(t, X, Y)
  BY <1>2, <1>3, Served
<1>5. m \in Setups /\ m \notin Resumes /\ m \notin Flushes /\ m \notin Calls
  BY <1>2, Kinds
<1>6. ~NoneOf(inbox, Setups)
  BY <1>4, <1>5
<1>7. Ordered(c, inbox) /\ Awake(c, inbox)
  BY <1>6 DEF RInv, Fresh
<1>8. c.cmd = "none" /\ c.deferred = <<>>
  BY <1>2 DEF NewCodec
<1>9. k.state = "LoadedToIdle" /\ k.deferred = c.deferred
  BY <1>3, <1>8 DEF Setup, Becomes, Sends, AllocateOutputs, AllocateInputs, Codec
<1> HIDE DEF m, t, k
<1>10. Ordered(k, t)
  <2>1. \A S : NoneOf(k.deferred, S) /\ NoneOf(c.deferred, S)
    BY <1>8, <1>9, EmptySeq DEF NoneOf
  <2>2. Never(k.deferred, Calls, Resumes)
    BY <2>1 DEF Never, NoneOf
  <2> QED
    BY <1>4, <1>5, <1>7, <1>9, <2>1, <2>2 DEF Ordered, None
<1>11. Awake(k, t)
  BY <1>4, <1>5, <1>7, <1>9 DEF Awake, None, Changing
<1>12. InOrder(c, inbox)'
  BY <1>2, <1>10, <1>11 DEF InOrder, Ordered, Awake, None, k, t
<1> QED
  BY <1>2, <1>12 DEF OrderKept, Fresh

LEMMA SetupFailsOrders == ASSUME RInv, SetupFails PROVE OrderKept
<1>1. Takes("Setup")
  BY DEF SetupFails
<1>2. c \in Codec /\ inbox' = Tail(inbox) /\ NoneOf(Tail(inbox), Setups)
  BY <1>1, TakesDoes DEF RInv, Fits, Sound
<1>3. c'.state \in {"Uninitialized", "Loaded"}
  BY <1>2 DEF SetupFails, Becomes, SignalsError, Posts, Codec
<1>4. c'.state \notin Working
  BY <1>3 DEF Working, Starting, Changing
<1> QED
  BY <1>2, <1>4 DEF OrderKept, InOrder, Fresh

(* A message that is not the setup.                                                *)
LEMMA DeliveryOrders ==
    ASSUME RInv, NEW what, Takes(what), Head(inbox) \in Deferrable,
           Becomes(Deliver(c, Head(inbox))) \/ Becomes(ChangeState(Deliver(c, Head(inbox))))
    PROVE  OrderKept
<1>1. /\ inbox # <<>> /\ Typed /\ Fits(c, inbox) /\ InOrder(c, inbox)
  BY TakesDoes DEF RInv
<1> DEFINE e == Deliver(c, Head(inbox))
<1>2. Fits(e, Tail(inbox))
  BY <1>1, DeliverFits
<1>3. InOrder(e, Tail(inbox))
  BY <1>1, DeliverInOrder
<1>4. Becomes(e) \/ Becomes(ChangeState(e))
  OBVIOUS
<1> HIDE DEF e
<1> QED
  BY <1>2, <1>3, <1>4, HandlerOrders

LEMMA ControlOrders == ASSUME RInv, Control PROVE OrderKept
<1>1. PICK what \in {"Flush", "Shutdown", "Resume"} : Takes(what)
  BY DEF Control
<1>2. Head(inbox) \in Message /\ Head(inbox).what = what
  BY <1>1, TakesDoes DEF RInv
<1>3. Head(inbox) \in Deferrable
  BY <1>2 DEF Message, Deferrable
<1> QED
  BY <1>1, <1>3, DeliveryOrders DEF Control

LEMMA InputBufferFilledOrders == ASSUME RInv, InputBufferFilled PROVE OrderKept
<1>1. Takes("InputBufferFilled")
  BY DEF InputBufferFilled
<1>2. Head(inbox) \in Message /\ Head(inbox).what = "InputBufferFilled"
  BY <1>1, TakesDoes DEF RInv
<1>3. Head(inbox) \in Deferrable
  BY <1>2 DEF Message, Deferrable
<1> QED
  BY <1>1, <1>3, DeliveryOrders DEF InputBufferFilled

(* A message that is neither a call nor a change of the port is done with.               *)
LEMMA ServedInOrder ==
    ASSUME InOrder(c, inbox), inbox \in Seq(Message), inbox # <<>>, Head(inbox).what = "OutputBufferDrained",
           NEW k, k.state = c.state, k.active = c.active, k.missed = c.missed, k.deferred = c.deferred
    PROVE  InOrder(k, Tail(inbox))
<1> DEFINE m == Head(inbox)
           t == Tail(inbox)
<1>1. /\ m \in Message
      /\ \A S : NoneOf(inbox, S) <=> m \notin S /\ NoneOf(t, S)
      /\ \A X, Y : Never(inbox, X, Y) <=> (m \in X => NoneOf(t, Y)) /\ Never(t, X, Y)
  BY Served
<1>2. m \notin Resumes /\ m \notin Flushes /\ m \notin Calls
  BY <1>1, Kinds
<1> HIDE DEF m, t
<1>3. Ordered(c, inbox) => Ordered(k, t)
  BY <1>1, <1>2 DEF Ordered, None
<1>4. Awake(c, inbox) => Awake(k, t)
  BY <1>1, <1>2 DEF Awake, None
<1> QED
  BY <1>3, <1>4 DEF InOrder, t

LEMMA OutputBufferDrainedOrders == ASSUME RInv, OutputBufferDrained PROVE OrderKept
<1> DEFINE m == Head(inbox)
<1>1. Takes("OutputBufferDrained")
  BY DEF OutputBufferDrained
<1>2. /\ inbox # <<>> /\ m \in Message /\ m.what = "OutputBufferDrained" /\ Typed /\ Fits(c, inbox)
      /\ inbox \in Seq(Message) /\ Sound(c) /\ c \in Codec /\ InOrder(c, inbox)
  BY <1>1, TakesDoes DEF Fits, Balanced, Sound, RInv
<1>3. m.buf \in DOMAIN c.out /\ c.out[m.buf] = "down"
  BY <1>2, HeadSays
<1>4. PICK k : /\ Becomes(ChangeState(k))
               /\ k \in Rendered(c, m.buf) \/ k = Refill([c EXCEPT !.out[m.buf] = "us"], m.buf)
  BY <1>3 DEF OutputBufferDrained
<1>5. /\ Sound(k) /\ Absorbs(c, k, m) /\ k.state = c.state
      /\ k.active = c.active /\ k.missed = c.missed /\ k.deferred = c.deferred
  BY <1>2, <1>3, <1>4, RenderedDoes, RefilledDoes
<1> HIDE DEF m
<1>6. Fits(k, Tail(inbox))
  BY <1>2, <1>5, FitsDelivered DEF m
<1>7. InOrder(k, Tail(inbox))
  BY <1>2, <1>5, ServedInOrder DEF m
<1> QED
  BY <1>1, <1>4, <1>6, <1>7, HandlerOrders

LEMMA DequeueFailsOrders == ASSUME RInv, DequeueFails PROVE OrderKept
<1> DEFINE m == Head(inbox)
           k == [c EXCEPT !.out[m.buf] = "window"]
<1>1. Takes("OutputBufferDrained")
  BY DEF DequeueFails
<1>2. /\ inbox # <<>> /\ m \in Message /\ m.what = "OutputBufferDrained" /\ Typed /\ Fits(c, inbox)
      /\ inbox \in Seq(Message) /\ Sound(c) /\ c \in Codec /\ InOrder(c, inbox)
  BY <1>1, TakesDoes DEF Fits, Balanced, Sound, RInv
<1>3. m.buf \in DOMAIN c.out /\ c.out[m.buf] = "down" /\ Becomes(ChangeState(k))
  BY DEF DequeueFails
<1>4. k = [c EXCEPT !.out[m.buf] = "window"]
  OBVIOUS
<1> HIDE DEF m, k
<1>5. /\ Sound(k) /\ Absorbs(c, k, m) /\ k.state = c.state
      /\ k.active = c.active /\ k.missed = c.missed /\ k.deferred = c.deferred
  BY <1>2, <1>3, <1>4, ShownDoes
<1>6. Fits(k, Tail(inbox))
  BY <1>2, <1>5, FitsDelivered DEF m
<1>7. InOrder(k, Tail(inbox))
  BY <1>2, <1>5, ServedInOrder DEF m
<1> QED
  BY <1>1, <1>3, <1>6, <1>7, HandlerOrders

LEMMA RenderFailsOrders == ASSUME RInv, RenderFails PROVE OrderKept
<1> DEFINE m == Head(inbox)
           u == Posts(c, Plain("Error"))
           k == Refill([u EXCEPT !.out[m.buf] = "us"], m.buf)
<1>1. Takes("OutputBufferDrained")
  BY DEF RenderFails
<1>2. /\ inbox # <<>> /\ m \in Message /\ m.what = "OutputBufferDrained" /\ Typed /\ Fits(c, inbox)
      /\ inbox \in Seq(Message) /\ Sound(c) /\ c \in Codec /\ InOrder(c, inbox)
  BY <1>1, TakesDoes DEF Fits, Balanced, Sound, RInv
<1>3. m.buf \in DOMAIN c.out /\ c.out[m.buf] = "down" /\ Becomes(ChangeState(k))
  BY DEF RenderFails, SignalsError
<1>4. Sound(u) /\ Conserves(c, u) /\ u = [c EXCEPT !.post = Append(c.post, Plain("Error"))]
  BY <1>2, PlainNotes, PostsIsSound, PostsDoes, NoteConserves
<1>5. u.out = c.out /\ u.state = c.state /\ u.active = c.active /\ u.missed = c.missed /\ u.deferred = c.deferred
  BY <1>2, <1>4 DEF Codec
<1>6. k = Refill([u EXCEPT !.out[m.buf] = "us"], m.buf)
  OBVIOUS
<1> HIDE DEF u, m, k
<1>7. /\ Sound(k) /\ Absorbs(u, k, m) /\ k.state = u.state
      /\ k.active = u.active /\ k.missed = u.missed /\ k.deferred = u.deferred
  <2>1. Sound(u) /\ m.what = "OutputBufferDrained" /\ m.buf \in DOMAIN u.out /\ u.out[m.buf] = "down"
    BY <1>2, <1>3, <1>4, <1>5
  <2>2. /\ Sound(k) /\ Absorbs(u, k, m) /\ k.state = u.state /\ k.shutdown = u.shutdown
        /\ k.active = u.active /\ k.missed = u.missed /\ k.deferred = u.deferred
    BY <1>6, <2>1, RefilledDoes
  <2> QED
    BY <2>2
<1>8. Absorbs(c, k, m)
  BY <1>2, <1>4, <1>5, <1>7 DEF Absorbs, Conserves
<1>9. Fits(k, Tail(inbox))
  BY <1>2, <1>7, <1>8, FitsDelivered DEF m
<1>10. InOrder(k, Tail(inbox))
  BY <1>2, <1>5, <1>7, ServedInOrder DEF m
<1> QED
  BY <1>1, <1>3, <1>9, <1>10, HandlerOrders

LEMMA EmptyBufferDoneOrders == ASSUME RInv, NEW b \in Inputs, EmptyBufferDone(b) PROVE OrderKept
<1>1. c \in Codec /\ (DOMAIN c.in # {} => c # NewCodec)
  BY InUse DEF RInv
<1>2. b \in DOMAIN c.in /\ UNCHANGED <<inbox, player, held>>
  BY DEF EmptyBufferDone, Callback
<1>3. c'.state = c.state /\ c'.active = c.active /\ c'.missed = c.missed /\ c'.deferred = c.deferred
  BY <1>1 DEF EmptyBufferDone, Becomes, PostFill, Posts, Fails, Codec
<1> QED
  BY <1>1, <1>2, <1>3, SteadyOrders

LEMMA FillBufferDoneOrders == ASSUME RInv, NEW b \in Outputs, FillBufferDone(b) PROVE OrderKept
<1>1. c \in Codec /\ (DOMAIN c.out # {} => c # NewCodec)
  BY InUse DEF RInv
<1>2. b \in DOMAIN c.out /\ UNCHANGED <<inbox, player, held>>
  BY DEF FillBufferDone, Callback
<1>3. c'.state = c.state /\ c'.active = c.active /\ c'.missed = c.missed /\ c'.deferred = c.deferred
  BY <1>1 DEF FillBufferDone, Becomes, Posts, Codec
<1> QED
  BY <1>1, <1>2, <1>3, SteadyOrders

LEMMA FillBufferDoneEOSOrders == ASSUME RInv, NEW b \in Outputs, FillBufferDoneEOS(b) PROVE OrderKept
<1>1. c \in Codec /\ (DOMAIN c.out # {} => c # NewCodec)
  BY InUse DEF RInv
<1>2. b \in DOMAIN c.out /\ UNCHANGED <<inbox, player, held>>
  BY DEF FillBufferDoneEOS, Callback
<1>3. c'.state = c.state /\ c'.active = c.active /\ c'.missed = c.missed /\ c'.deferred = c.deferred
  BY <1>1 DEF FillBufferDoneEOS, Becomes, Posts, Codec
<1> QED
  BY <1>1, <1>2, <1>3, SteadyOrders

LEMMA NowIdleOrders == ASSUME RInv, NowIdle PROVE OrderKept
<1>1. c \in Codec /\ InOrder(c, inbox) /\ Obeyed \in Codec /\ Same(c, Obeyed) /\ Obeyed.state = c.state
  BY InUse, ObeyedDoes DEF RInv
<1>2. /\ UNCHANGED <<inbox, player, held>> /\ c # NewCodec
      /\ c.state \in {"LoadedToIdle", "ExecutingToIdle"} /\ NoneOf(inbox, Setups)
  BY CompletesDoes, Answers, NoSetup DEF NowIdle, RInv
<1>3. CASE c.state = "LoadedToIdle"
  <2> DEFINE e == c'
  <2>1. e.state = "IdleToExecuting" /\ e.active = c.active /\ e.missed = c.missed /\ e.deferred = c.deferred
    <3> DEFINE o == [Obeyed EXCEPT !.state = "IdleToExecuting"]
    <3>1. Becomes(Sends(o, "Executing"))
      BY <1>3 DEF NowIdle
    <3>2. o \in Codec /\ o.state = "IdleToExecuting" /\ o.active = c.active /\ o.missed = c.missed /\ o.deferred = c.deferred
      BY <1>1 DEF Same, Codec, StateNames
    <3> HIDE DEF o
    <3>3. Sends(o, "Executing") = [o EXCEPT !.cmd = "Executing"] \/ Sends(o, "Executing") = [o EXCEPT !.bad = "sendCommand"]
      BY DEF Sends, Fails
    <3> QED
      BY <3>1, <3>2, <3>3 DEF Becomes, Codec
  <2>2. Ordered(c, inbox) /\ Awake(c, inbox)
    BY <1>1, <1>3 DEF InOrder, Working, Starting
  <2> HIDE DEF e
  <2>3. Ordered(e, inbox)
    BY <1>3, <2>1, <2>2 DEF Ordered, None
  <2>4. Awake(e, inbox)
    BY <1>3, <2>1, <2>2 DEF Awake, None, Changing
  <2>5. InOrder(c, inbox)'
    BY <1>2, <2>3, <2>4 DEF InOrder, Ordered, Awake, None, e
  <2> QED
    BY <1>2, <2>5 DEF OrderKept, Fresh
<1>4. CASE c.state = "ExecutingToIdle"
  <2> DEFINE o == [Obeyed EXCEPT !.nowIdle = TRUE]
  <2>1. Becomes(ChangeState(o))
    BY <1>4 DEF NowIdle
  <2>2. o \in Codec /\ o.state = "ExecutingToIdle"
    BY <1>1, <1>4 DEF Codec
  <2> HIDE DEF o
  <2>3. ChangeState(o) = o \/ ChangeState(o) = Sends([o EXCEPT !.state = "IdleToLoaded", !.in = NoBuffers, !.out = NoBuffers], "Loaded")
    BY <2>2 DEF ChangeState
  <2>4. ChangeState(o).state \in {"ExecutingToIdle", "IdleToLoaded"} /\ c'.state = ChangeState(o).state
    BY <2>1, <2>2, <2>3 DEF Sends, Fails, Codec, Becomes
  <2>5. c'.state \notin Working
    BY <2>4 DEF Working, Starting, Changing
  <2> QED
    BY <1>2, <2>5, IdleOrders
<1> QED
  BY <1>2, <1>3, <1>4

(* Executing is entered from another state than Flushing.                            *)
LEMMA EnterOrders ==
    ASSUME RInv, c # NewCodec, UNCHANGED <<inbox, player, held>>,
           c.state \in {"IdleToExecuting", "OutputPortSettingsChanged"},
           NEW k \in Codec, k.state = c.state, k.deferred = c.deferred, Conserves(c, k), Sound(Opened(k)),
           Becomes(EnterExecuting(k)),
           k.active \/ (k.active = c.active /\ k.missed = c.missed /\ c.state = "OutputPortSettingsChanged")
    PROVE  OrderKept
<1>1. Typed /\ IInv /\ InOrder(c, inbox)
  BY DEF RInv, IInv
<1>2. Owes(k, inbox)
  BY <1>1, EnterOwes
<1>3. Ordered(c, inbox) /\ Awake(c, inbox)
  BY <1>1 DEF InOrder, Working, Starting, Changing
<1>4. Ordered(k, inbox)
  BY <1>3 DEF Ordered, None
<1>5. player = "playing" => k.active \/ k.missed \/ ~None(k, inbox, Resumes)
  BY <1>3 DEF Awake, None, Changing
<1>6. InOrder(EnterExecuting(k), inbox)
  BY <1>1, <1>2, <1>4, <1>5, EnterInOrder
<1>7. EnterExecuting(k) \in Codec
  BY <1>1, <1>2, EnterFits DEF Fits, Sound
<1> QED
  BY <1>6, <1>7, CallbackOrders

LEMMA NowExecutingOrders == ASSUME RInv, NowExecuting PROVE OrderKept
<1>1. IInv
  BY DEF RInv
<1>2. PICK k \in Codec :
              /\ k.state = c.state /\ Conserves(c, k) /\ Sound(Opened(k)) /\ Becomes(EnterExecuting(k))
              /\ k.active = TRUE /\ k.deferred = c.deferred
              /\ UNCHANGED <<inbox, player, held>> /\ c # NewCodec /\ c.state = "IdleToExecuting"
  BY <1>1, ExecutingOpens
<1> QED
  BY <1>2, EnterOrders

LEMMA NowEnabledOrders == ASSUME RInv, NowEnabled PROVE OrderKept
<1>1. /\ \E k \in Codec : EnabledAs(k)
      /\ UNCHANGED <<inbox, player, held>> /\ c # NewCodec /\ c.state = "OutputPortSettingsChanged"
  BY EnabledOpens DEF RInv
<1>2. PICK k \in Codec :
              /\ k.state = c.state /\ Conserves(c, k) /\ Sound(Opened(k)) /\ Becomes(EnterExecuting(k))
              /\ k.active = c.active /\ k.missed = c.missed /\ k.deferred = c.deferred
  BY <1>1 DEF EnabledAs
<1> QED
  BY <1>1, <1>2, EnterOrders

LEMMA NowLoadedOrders == ASSUME RInv, NowLoaded PROVE OrderKept
<1>1. Obeyed \in Codec /\ UNCHANGED <<inbox, player, held>> /\ c # NewCodec
  BY ObeyedDoes, CompletesDoes DEF NowLoaded, RInv
<1>2. c'.state \in {"Uninitialized", "Loaded"}
  BY <1>1 DEF NowLoaded, Becomes, FreesNode, Posts, Codec
<1>3. c'.state \notin Working
  BY <1>2 DEF Working, Starting, Changing
<1> QED
  BY <1>1, <1>3, IdleOrders

(* The state changes if the codec has what it waits for.                            *)
LEMMA FlushOrders ==
    ASSUME RInv, c # NewCodec, UNCHANGED <<inbox, player, held>>, NEW k, Sound(k), Conserves(c, k), Same(c, k),
           k.state = c.state, Becomes(k) \/ Becomes(ChangeState(k))
    PROVE  OrderKept
<1>1. Typed /\ Fits(c, inbox) /\ InOrder(c, inbox)
  BY DEF RInv, IInv
<1>2. Fits(k, inbox)
  BY <1>1, FitsStill
<1>3. InOrder(k, inbox)
  BY <1>1, Steady DEF Same
<1>4. Fits(ChangeState(k), inbox) /\ InOrder(ChangeState(k), inbox)
  BY <1>1, <1>2, <1>3, ChangeStateFits, ChangeInOrder
<1>5. k \in Codec /\ ChangeState(k) \in Codec
  BY <1>2, <1>4 DEF Fits, Sound
<1> QED
  BY <1>3, <1>4, <1>5, CallbackOrders

LEMMA NowFlushedOrders == ASSUME RInv, NEW port \in {"in", "out"}, NowFlushed(port) PROVE OrderKept
<1>1. PICK k : /\ Sound(k) /\ Conserves(c, k) /\ Same(c, k) /\ k.state = c.state
               /\ Becomes(k) \/ Becomes(ChangeState(k))
               /\ UNCHANGED <<inbox, player, held>> /\ left' \in [Events -> Nat] /\ c # NewCodec
               /\ c.state = "Flushing"
  BY PortFlushed DEF RInv
<1> QED
  BY <1>1, FlushOrders

(* The two states of a change of the port are alike.                                 *)
LEMMA ChangingOrders ==
    ASSUME RInv, c # NewCodec, UNCHANGED <<inbox, player, held>>, c.state = "FlushingOutput",
           c'.state \in Changing, c'.active = c.active, c'.missed = c.missed, c'.deferred = c.deferred
    PROVE  OrderKept
<1> DEFINE e == c'
<1>1. NoneOf(inbox, Setups) /\ InOrder(c, inbox)
  BY NoSetup DEF RInv
<1>2. Ordered(c, inbox) /\ Awake(c, inbox)
  BY <1>1 DEF InOrder, Working, Changing
<1>3. e.state \in Changing /\ e.active = c.active /\ e.missed = c.missed /\ e.deferred = c.deferred
  OBVIOUS
<1> HIDE DEF e
<1>4. Ordered(e, inbox)
  BY <1>2, <1>3 DEF Ordered, None, Changing
<1>5. Awake(e, inbox)
  BY <1>2, <1>3 DEF Awake, None, Changing
<1>6. InOrder(c, inbox)'
  BY <1>4, <1>5 DEF InOrder, Ordered, Awake, None, e
<1> QED
  BY <1>1, <1>6 DEF OrderKept, Fresh

LEMMA NowOutputFlushedOrders == ASSUME RInv, NowOutputFlushed PROVE OrderKept
<1>1. Obeyed \in Codec /\ Same(c, Obeyed) /\ Obeyed.state = c.state
  BY ObeyedDoes DEF RInv
<1>2. UNCHANGED <<inbox, player, held>> /\ c # NewCodec /\ c.state = "FlushingOutput"
  BY CompletesDoes, Answers DEF NowOutputFlushed, RInv
<1> DEFINE o == [Obeyed EXCEPT !.flushed = {"out"}]
<1>3. Becomes(ChangeState(o))
  BY DEF NowOutputFlushed
<1>4. o \in Codec /\ o.state = "FlushingOutput" /\ o.active = c.active /\ o.missed = c.missed /\ o.deferred = c.deferred
  BY <1>1, <1>2 DEF Same, Codec
<1> HIDE DEF o
<1>5. ChangeState(o) = o \/ ChangeState(o) = DisablesPort(o)
  BY <1>4 DEF ChangeState
<1>6. /\ c'.state \in {"FlushingOutput", "OutputPortSettingsChanged"}
      /\ c'.active = c.active /\ c'.missed = c.missed /\ c'.deferred = c.deferred
  <2>1. CASE ChangeState(o) = o
    BY <1>3, <1>4, <2>1 DEF Becomes, Codec
  <2>2. CASE ChangeState(o) = DisablesPort(o)
    <3> DEFINE x == [o EXCEPT !.state = "OutputPortSettingsChanged", !.ieos = FALSE, !.oeos = FALSE,
                              !.out = NoBuffers]
    <3>1. x.state = "OutputPortSettingsChanged" /\ x.active = c.active /\ x.missed = c.missed /\ x.deferred = c.deferred
      BY <1>4 DEF Codec
    <3>2. x \in Codec
      <4>1. NoBuffers \in OutPort
        BY DEF NoBuffers, OutPort
      <4> QED
        BY <1>4, <4>1 DEF Codec, StateNames
    <3>3. Becomes(Sends(x, "Disable"))
      BY <1>3, <2>2 DEF DisablesPort
    <3> HIDE DEF x
    <3>4. Sends(x, "Disable") = [x EXCEPT !.cmd = "Disable"] \/ Sends(x, "Disable") = [x EXCEPT !.bad = "sendCommand"]
      BY DEF Sends, Fails
    <3> QED
      BY <3>1, <3>2, <3>3, <3>4 DEF Becomes, Codec
  <2> QED
    BY <1>5, <2>1, <2>2
<1> QED
  BY <1>2, <1>6, ChangingOrders DEF Changing

LEMMA NowDisabledOrders == ASSUME RInv, NowDisabled PROVE OrderKept
<1>1. Obeyed \in Codec /\ Same(c, Obeyed) /\ Obeyed.state = c.state /\ c \in Codec
  BY ObeyedDoes, InUse DEF RInv
<1>2. UNCHANGED <<inbox, player, held>> /\ c # NewCodec
  BY CompletesDoes DEF NowDisabled, RInv
<1>3. c'.state = c.state /\ c'.active = c.active /\ c'.missed = c.missed /\ c'.deferred = c.deferred
  BY <1>1 DEF NowDisabled, Becomes, AllocateOutputs, Sends, Fails, Same, Codec
<1> QED
  BY <1>2, <1>3, SteadyOrders

LEMMA NowDisabledFailsOrders == ASSUME RInv, NowDisabledFails PROVE OrderKept
<1>1. Obeyed \in Codec /\ (c.state # "Uninitialized" => c # NewCodec)
  BY ObeyedDoes, InUse DEF RInv
<1>2. UNCHANGED <<inbox, player, held>> /\ c # NewCodec
  BY <1>1 DEF NowDisabledFails
<1>3. c'.state = "Uninitialized"
  BY <1>1 DEF NowDisabledFails, Becomes, FreesNode, SignalsError, Posts, Codec
<1>4. c'.state \notin Working
  BY <1>3 DEF Working, Starting, Changing
<1> QED
  BY <1>2, <1>4, IdleOrders

LEMMA ComponentErrorOrders == ASSUME RInv, ComponentError PROVE OrderKept
<1>1. c \in Codec /\ (c.state # "Uninitialized" => c # NewCodec)
  BY InUse DEF RInv
<1>2. UNCHANGED <<inbox, player, held>> /\ c # NewCodec
  BY <1>1 DEF ComponentError
<1>3. c'.state = c.state /\ c'.active = c.active /\ c'.missed = c.missed /\ c'.deferred = c.deferred
  BY <1>1 DEF ComponentError, Becomes, SignalsError, Posts, Codec
<1> QED
  BY <1>2, <1>3, SteadyOrders

LEMMA PortSettingsChangedOrders == ASSUME RInv, PortSettingsChanged PROVE OrderKept
<1> DEFINE m == Plain("PortSettingsChanged")
           e == OnPortChanged(c, m)
           d == c.deferred
<1>1. c \in Codec /\ Sound(c) /\ (c.state # "Uninitialized" => c # NewCodec) /\ InOrder(c, inbox)
  BY InUse DEF RInv
<1>2. m \in Deferrable /\ m.what = "PortSettingsChanged" /\ m \in Message
  BY PlainNotes, MessagesAreMessages
<1>3. /\ UNCHANGED <<inbox, player, held>> /\ c # NewCodec /\ c.state \in {"Executing", "Flushing", "FlushingOutput"}
  BY <1>1 DEF PortSettingsChanged
<1>4. Becomes(e)
  BY <1>2 DEF PortSettingsChanged, Deliver
<1>5. Sound(e) /\ e \in Codec
  <2>1. Sound(e)
    BY <1>1, <1>2, OnPortChangedDoes
  <2> QED
    BY <2>1 DEF Sound
<1>6. Ordered(c, inbox) /\ Awake(c, inbox)
  BY <1>1, <1>3 DEF InOrder, Working, Changing
<1>7. CASE c.state = "Executing"
  <2>1. e.state = "FlushingOutput" /\ e.active = c.active /\ e.missed = c.missed /\ e.deferred = c.deferred
    BY <1>1, <1>7 DEF OnPortChanged, Sends, Fails, Codec
  <2> HIDE DEF e
  <2>2. Ordered(e, inbox)
    BY <1>6, <1>7, <2>1 DEF Ordered, None
  <2>3. Awake(e, inbox)
    BY <1>6, <1>7, <2>1 DEF Awake, None
  <2>4. InOrder(e, inbox)
    BY <2>2, <2>3 DEF InOrder
  <2> QED
    BY <1>3, <1>4, <1>5, <2>4, CallbackOrders
<1>8. CASE c.state \in {"Flushing", "FlushingOutput"}
  <2>1. e = Defers(c, m)
    BY <1>8 DEF OnPortChanged
  <2>2. e.state = c.state /\ e.deferred = Append(d, m)
    BY <1>1, <2>1 DEF Defers, Codec
  <2>3. d \in Seq(Deferrable)
    BY <1>1, CodecFields
  <2>4. m \notin Resumes /\ m \notin Flushes /\ m \notin Calls
    BY <1>2, Kinds
  <2> HIDE DEF m, e, d
  <2>5. /\ \A S : NoneOf(Append(d, m), S) <=> NoneOf(d, S) /\ m \notin S
        /\ \A X, Y : Never(Append(d, m), X, Y) <=> Never(d, X, Y) /\ (NoneOf(d, X) \/ m \notin Y)
    BY <1>2, <2>3, Posted
  <2>6. Ordered(e, inbox)
    BY <1>6, <1>8, <2>2, <2>4, <2>5 DEF Ordered, None, d
  <2>7. e.active = c.active /\ e.missed = c.missed
    BY <1>1, <2>1 DEF Defers, Codec
  <2>8. Awake(e, inbox)
    BY <1>6, <1>8, <2>2, <2>4, <2>5, <2>7 DEF Awake, None, Changing, d
  <2>9. InOrder(e, inbox)
    BY <2>6, <2>8 DEF InOrder
  <2> QED
    BY <1>3, <1>4, <1>5, <2>9, CallbackOrders
<1> QED
  BY <1>3, <1>7, <1>8

-----------------------------------------------------------------------------
(*                        The player keeps the order                        *)

Aligned == Ordered(c, inbox) /\ Awake(c, inbox)

(* The player sends m, or nothing.                                                 *)
LEMMA PlayerOrders ==
    ASSUME RInv, UNCHANGED c, Aligned => Aligned',
           \/ UNCHANGED inbox
           \/ \E m \in Message : m.what # "Setup" /\ inbox' = Append(inbox, m)
    PROVE  OrderKept
<1>1. InOrder(c, inbox)'
  BY DEF RInv, InOrder, Aligned
<1>2. inbox \in Seq(Message)
  BY DEF RInv, IInv, Fits, Balanced
<1>3. Fresh'
  <2>1. CASE NoneOf(inbox, Setups)
    <3>1. CASE UNCHANGED inbox
      BY <2>1, <3>1 DEF Fresh
    <3>2. ASSUME NEW m \in Message, m.what # "Setup", inbox' = Append(inbox, m)
          PROVE  Fresh'
      <4>1. m \notin Setups
        BY <3>2, Kinds
      <4>2. NoneOf(Append(inbox, m), Setups)
        BY <1>2, <2>1, <4>1, Posted
      <4> QED
        BY <3>2, <4>2 DEF Fresh
    <3> QED
      BY <3>1, <3>2
  <2>2. CASE ~NoneOf(inbox, Setups)
    <3>1. Head(inbox) \in Setups /\ Aligned /\ inbox # <<>>
      BY <2>2, EmptySeq DEF RInv, Fresh, Aligned, NoneOf
    <3>2. Head(inbox') = Head(inbox)
      BY <1>2, <3>1, AppendProperties, HeadTailProperties
    <3> QED
      BY <3>1, <3>2 DEF Fresh, Aligned
  <2> QED
    BY <2>1, <2>2
<1> QED
  BY <1>1, <1>3 DEF OrderKept

(* What a message adds to the order.                                               *)
LEMMA SentAligned ==
    ASSUME RInv, UNCHANGED c, NEW m \in Message, inbox' = Append(inbox, m)
    PROVE  /\ \A S : NoneOf(inbox, S)' <=> NoneOf(inbox, S) /\ m \notin S
           /\ \A X, Y : Never(inbox, X, Y)' <=> Never(inbox, X, Y) /\ (NoneOf(inbox, X) \/ m \notin Y)
           /\ m \in Resumes <=> m.what = "Resume"
           /\ m \in Flushes <=> m.what = "Flush"
           /\ m \in Calls <=> m.what \in {"Resume", "Flush"}
<1>1. inbox \in Seq(Message)
  BY DEF RInv, IInv, Fits, Balanced
<1>2. /\ \A S : NoneOf(Append(inbox, m), S) <=> NoneOf(inbox, S) /\ m \notin S
      /\ \A X, Y : Never(Append(inbox, m), X, Y) <=> Never(inbox, X, Y) /\ (NoneOf(inbox, X) \/ m \notin Y)
  BY <1>1, Posted
<1>3. /\ \A S : NoneOf(inbox, S)' <=> NoneOf(inbox, S) /\ m \notin S
      /\ \A X, Y : Never(inbox, X, Y)' <=> Never(inbox, X, Y) /\ (NoneOf(inbox, X) \/ m \notin Y)
  BY <1>2
<1> QED
  BY <1>3, Kinds

LEMMA FlushOrdersPlayer ==
    ASSUME RInv, Signals("Flush", "playing", "flushing")
    PROVE  OrderKept
<1> DEFINE m == Plain("Flush")
<1>1. UNCHANGED c /\ inbox' = Append(inbox, m) /\ player = "playing" /\ player' = "flushing"
  BY DEF Signals, Asks
<1>2. m \in Message /\ m.what = "Flush"
  BY PlainNotes, MessagesAreMessages
<1> HIDE DEF m
<1>3. /\ \A S : NoneOf(inbox, S)' <=> NoneOf(inbox, S) /\ m \notin S
      /\ \A X, Y : Never(inbox, X, Y)' <=> Never(inbox, X, Y) /\ (NoneOf(inbox, X) \/ m \notin Y)
      /\ m \notin Resumes /\ m \in Flushes
  BY <1>1, <1>2, SentAligned
<1>4. Ordered(c, inbox) => Ordered(c, inbox)'
  BY <1>1, <1>3 DEF Ordered, None
<1>5. Awake(c, inbox) => Awake(c, inbox)'
  BY <1>1, <1>3 DEF Awake, None
<1> QED
  BY <1>1, <1>2, <1>4, <1>5, PlayerOrders DEF Aligned

LEMMA ResumeOrders ==
    ASSUME RInv, Signals("Resume", "flushed", "playing")
    PROVE  OrderKept
<1> DEFINE m == Plain("Resume")
<1>1. UNCHANGED c /\ inbox' = Append(inbox, m) /\ player = "flushed" /\ player' = "playing"
  BY DEF Signals, Asks
<1>2. m \in Message /\ m.what = "Resume"
  BY PlainNotes, MessagesAreMessages
<1> HIDE DEF m
<1>3. /\ \A S : NoneOf(inbox, S)' <=> NoneOf(inbox, S) /\ m \notin S
      /\ \A X, Y : Never(inbox, X, Y)' <=> Never(inbox, X, Y) /\ (NoneOf(inbox, X) \/ m \notin Y)
      /\ m \in Resumes
  BY <1>1, <1>2, SentAligned
<1>4. None(c, inbox, Flushes)
  <2>1. Typed /\ Fits(c, inbox)
    BY DEF RInv, IInv
  <2> QED
    BY <1>1, <2>1, FlushIsAwaited
<1>5. Ordered(c, inbox) => NoneOf(c.deferred, Calls) /\ NoneOf(inbox, Calls)
  <2>1. Ordered(c, inbox) => None(c, inbox, Resumes)
    BY <1>1 DEF Ordered
  <2> QED
    BY <1>4, <2>1, Kinds DEF None
<1>6. Ordered(c, inbox) => Ordered(c, inbox)'
  <2>1. SUFFICES ASSUME Ordered(c, inbox) PROVE Ordered(c, inbox)'
    OBVIOUS
  <2>2. /\ Never(c.deferred, Calls, Resumes) /\ Never(inbox, Calls, Resumes)
        /\ c.state = "OutputPortSettingsChanged" \/ NoneOf(c.deferred, Resumes)
        /\ c.state = "Executing" => c.deferred = <<>>
    BY <2>1 DEF Ordered
  <2>3. Never(inbox, Calls, Resumes)'
    BY <1>3, <1>5, <2>1, <2>2
  <2> QED
    BY <1>1, <1>5, <2>1, <2>2, <2>3 DEF Ordered
<1>7. Awake(c, inbox) => Awake(c, inbox)'
  BY <1>1, <1>3 DEF Awake, None
<1> QED
  BY <1>1, <1>2, <1>6, <1>7, PlayerOrders DEF Aligned

LEMMA ShutdownOrders ==
    ASSUME RInv, Signals("Shutdown", "flushed", "stopping")
    PROVE  OrderKept
<1> DEFINE m == Plain("Shutdown")
<1>1. UNCHANGED c /\ inbox' = Append(inbox, m) /\ player = "flushed" /\ player' = "stopping"
  BY DEF Signals, Asks
<1>2. m \in Message /\ m.what = "Shutdown"
  BY PlainNotes, MessagesAreMessages
<1> HIDE DEF m
<1>3. /\ \A S : NoneOf(inbox, S)' <=> NoneOf(inbox, S) /\ m \notin S
      /\ \A X, Y : Never(inbox, X, Y)' <=> Never(inbox, X, Y) /\ (NoneOf(inbox, X) \/ m \notin Y)
      /\ m \notin Resumes /\ m \notin Flushes
  BY <1>1, <1>2, SentAligned
<1>4. Ordered(c, inbox) => Ordered(c, inbox)'
  BY <1>1, <1>3 DEF Ordered, None
<1>5. Awake(c, inbox) => Awake(c, inbox)'
  BY <1>1, <1>3 DEF Awake, None
<1> QED
  BY <1>1, <1>2, <1>4, <1>5, PlayerOrders DEF Aligned

LEMMA BufferOrders ==
    ASSUME RInv, NEW m \in Message, m.what \in {"InputBufferFilled", "OutputBufferDrained"},
           inbox' = Append(inbox, m), UNCHANGED <<c, player>>
    PROVE  OrderKept
<1>1. UNCHANGED c /\ player' = player
  OBVIOUS
<1>2. /\ \A S : NoneOf(inbox, S)' <=> NoneOf(inbox, S) /\ m \notin S
      /\ \A X, Y : Never(inbox, X, Y)' <=> Never(inbox, X, Y) /\ (NoneOf(inbox, X) \/ m \notin Y)
      /\ m \notin Resumes /\ m \notin Flushes
  BY <1>1, SentAligned
<1>3. Ordered(c, inbox) => Ordered(c, inbox)'
  BY <1>1, <1>2 DEF Ordered, None
<1>4. Awake(c, inbox) => Awake(c, inbox)'
  BY <1>1, <1>2 DEF Awake, None
<1> QED
  BY <1>1, <1>3, <1>4, PlayerOrders DEF Aligned

LEMMA HearsOrders == ASSUME RInv, Hears PROVE OrderKept
<1>1. UNCHANGED <<c, inbox>> /\ outbox # <<>>
  BY DEF Hears
<1>2. Typed /\ Fits(c, inbox) /\ outbox \in Seq(Note) /\ outbox \in Seq(AnyMessage) /\ Head(outbox) \in Note
  BY <1>1, MessagesAreMessages, HeadTailProperties DEF RInv, IInv, Typed
<1>3. CASE Head(outbox).what = "FlushCompleted" /\ player = "flushing"
  <2>1. player' = "flushed"
    BY <1>3 DEF Hears
  <2>2. Head(outbox).buf = 0
    BY <1>2, <1>3 DEF Note
  <2>3. HowMany(outbox, "FlushCompleted", 0) # 0
    <3>1. Is(Head(outbox), "FlushCompleted", 0) = 1
      BY <1>3, <2>2, IsType
    <3>2. /\ HowMany(outbox, "FlushCompleted", 0)
                = Is(Head(outbox), "FlushCompleted", 0) + HowMany(Tail(outbox), "FlushCompleted", 0)
          /\ Tail(outbox) \in Seq(AnyMessage)
      BY <1>1, <1>2, HowManyHead, HeadTailProperties
    <3>3. HowMany(Tail(outbox), "FlushCompleted", 0) \in Nat
      BY <3>2, HowManyType
    <3> QED
      BY <3>1, <3>2, <3>3
  <2>4. None(c, inbox, Flushes)
    BY <1>2, <2>3, FlushIsAwaited
  <2>5. Ordered(c, inbox) => Ordered(c, inbox)'
    BY <1>1, <1>3, <2>1, <2>4 DEF Ordered, None
  <2>6. Awake(c, inbox) => Awake(c, inbox)'
    BY <1>1, <1>3, <2>1 DEF Awake, None
  <2> QED
    BY <1>1, <2>5, <2>6, PlayerOrders DEF Aligned
<1>4. CASE ~(Head(outbox).what = "FlushCompleted" /\ player = "flushing")
  <2>1. player' = player \/ (player = "stopping" /\ player' = "gone")
    BY <1>4 DEF Hears
  <2>2. Ordered(c, inbox) => Ordered(c, inbox)'
    BY <1>1, <2>1 DEF Ordered, None
  <2>3. Awake(c, inbox) => Awake(c, inbox)'
    BY <1>1, <2>1 DEF Awake, None
  <2> QED
    BY <1>1, <2>2, <2>3, PlayerOrders DEF Aligned
<1> QED
  BY <1>3, <1>4

LEMMA PlayerActsOrder == ASSUME RInv, PlayerActs PROVE OrderKept
<1>1. CASE Hears
  BY <1>1, HearsOrders
<1>2. CASE PlayerFlushes
  BY <1>2, FlushOrdersPlayer DEF PlayerFlushes
<1>3. CASE PlayerResumes
  BY <1>3, ResumeOrders DEF PlayerResumes
<1>4. CASE PlayerShutsDown
  BY <1>4, ShutdownOrders DEF PlayerShutsDown
<1>5. ASSUME NEW b \in Inputs, Fills(b) PROVE OrderKept
  <2>1. PICK res \in {"ok", "eos", "err"} :
            inbox' = Append(inbox, Mesg("InputBufferFilled", b, res)) /\ UNCHANGED <<c, player>>
    BY <1>5 DEF Fills, Asks
  <2>2. Mesg("InputBufferFilled", b, res) \in Message /\ Mesg("InputBufferFilled", b, res).what = "InputBufferFilled"
    BY DEF Mesg, Message
  <2> QED
    BY <2>1, <2>2, BufferOrders
<1>6. ASSUME NEW b \in Outputs, Drains(b) PROVE OrderKept
  <2>1. PICK how \in {"render", "drop"} :
            inbox' = Append(inbox, Mesg("OutputBufferDrained", b, how)) /\ UNCHANGED <<c, player>>
    BY <1>6 DEF Drains, Asks
  <2>2. Mesg("OutputBufferDrained", b, how) \in Message /\ Mesg("OutputBufferDrained", b, how).what = "OutputBufferDrained"
    BY DEF Mesg, Message
  <2> QED
    BY <2>1, <2>2, BufferOrders
<1> QED
  BY <1>1, <1>2, <1>3, <1>4, <1>5, <1>6 DEF PlayerActs

LEMMA StepsOrder == ASSUME RInv, [Next]_vars PROVE OrderKept
<1>1. CASE Handles
  BY <1>1, SetupOrders, ControlOrders, InputBufferFilledOrders, OutputBufferDrainedOrders DEF Handles
<1>2. CASE Returns
  BY <1>2, EmptyBufferDoneOrders, FillBufferDoneOrders DEF Returns
<1>3. CASE \E b \in Outputs : FillBufferDoneEOS(b)
  BY <1>3, FillBufferDoneEOSOrders
<1>4. CASE Obeys
  BY <1>4, NowIdleOrders, NowExecutingOrders, NowLoadedOrders, NowFlushedOrders, NowOutputFlushedOrders,
     NowDisabledOrders, NowEnabledOrders DEF Obeys
<1>5. CASE Goes
  BY <1>5, SetupFailsOrders, RenderFailsOrders, DequeueFailsOrders, NowDisabledFailsOrders,
     ComponentErrorOrders, PortSettingsChangedOrders DEF Goes
<1>6. CASE PlayerActs
  BY <1>6, PlayerActsOrder
<1>7. CASE UNCHANGED vars
  BY <1>7 DEF vars, RInv, OrderKept, InOrder, Fresh, Ordered, Awake, None
<1> QED
  BY <1>1, <1>2, <1>3, <1>4, <1>5, <1>6, <1>7 DEF Next

LEMMA InitOrders == ASSUME Init PROVE RInv
<1>1. IInv
  BY InitBegins
<1>2. c.state = "Uninitialized" /\ c.deferred = <<>> /\ inbox = <<Plain("Setup")>> /\ player = "playing"
  BY DEF Init, NewCodec
<1>3. Len(inbox) = 1 /\ Head(inbox) = Plain("Setup") /\ inbox[1] = Plain("Setup")
  BY <1>2
<1>4. /\ Plain("Setup") \notin Resumes /\ Plain("Setup") \notin Flushes
      /\ Plain("Setup") \in Setups
  BY DEF Plain, Mesg, Resumes, Flushes, Setups
<1>5. NoneOf(inbox, Resumes) /\ Never(inbox, Calls, Resumes)
  BY <1>3, <1>4 DEF NoneOf, Never
<1>6. /\ \A S : NoneOf(c.deferred, S)
      /\ \A X, Y : Never(c.deferred, X, Y)
  BY <1>2, EmptySeq DEF NoneOf, Never
<1>7. Ordered(c, inbox) /\ Awake(c, inbox)
  BY <1>2, <1>5, <1>6 DEF Ordered, Awake, None, Changing
<1>8. InOrder(c, inbox)
  BY <1>7 DEF InOrder
<1> QED
  BY <1>1, <1>3, <1>4, <1>7, <1>8 DEF RInv, Fresh

LEMMA OrderTells ==
    ASSUME RInv
    PROVE  ResumedIsActive
<1> SUFFICES ASSUME player = "playing", c.state = "Executing", ~c.active, ~c.missed
             PROVE  Queued("Resume", 0) = 1
  BY InUse DEF ResumedIsActive, RInv
<1>1. inbox \in Seq(Message) /\ inbox \in Seq(AnyMessage)
  BY MessagesAreMessages DEF RInv, IInv, Fits, Balanced
<1>2. Never(inbox, Calls, Resumes) /\ ~NoneOf(inbox, Resumes) /\ c.deferred = <<>>
  <2>1. Ordered(c, inbox) /\ Awake(c, inbox)
    BY DEF RInv, InOrder, Working
  <2>2. Never(inbox, Calls, Resumes) /\ c.deferred = <<>> /\ ~None(c, inbox, Resumes)
    BY <2>1 DEF Ordered, Awake
  <2> QED
    BY <2>2, EmptySeq DEF None, NoneOf
<1> DEFINE A == {i \in 1 .. Len(inbox) : inbox[i].what = "Resume" /\ inbox[i].buf = 0}
<1>3. PICK i \in 1 .. Len(inbox) : inbox[i] = Plain("Resume")
  BY <1>2 DEF NoneOf, Resumes
<1>4. Len(inbox) \in Nat /\ \A j \in 1 .. Len(inbox) : inbox[j] \in Message
  BY <1>1, LenProperties, ElementOfSeq
<1>5. i \in A
  BY <1>3, PlainNotes
<1>6. ASSUME NEW j \in A PROVE j = i
  <2>1. j \in 1 .. Len(inbox) /\ inbox[j] \in Resumes /\ inbox[j] \in Calls
    BY <1>4, Kinds
  <2>2. inbox[i] \in Resumes /\ inbox[i] \in Calls
    BY <1>3 DEF Resumes, Calls
  <2>3. ~(i < j) /\ ~(j < i)
    BY <1>2, <2>1, <2>2 DEF Never
  <2> QED
    BY <1>4, <2>1, <2>3
<1>7. A = {i}
  BY <1>5, <1>6
<1>8. Cardinality(A) = 1
  BY <1>7, FS_Singleton
<1>9. HowMany(inbox, "Resume", 0) = 1
  BY <1>8 DEF HowMany
<1>10. HowMany(c.deferred, "Resume", 0) = 0
  BY <1>2, HowManyEmpty
<1> QED
  BY <1>9, <1>10 DEF Queued

(* Whatever changes of the port meet the flush and the resume, and whatever is deferred    *)
(* meanwhile: a codec the player has resumed and does not flush is active in Executing,      *)
(* or the one resume is still to come, or it was lost to FlushingOutput, which drops it.     *)
THEOREM ResumedCodecIsActive == Spec => []ResumedIsActive
<1>1. Init => RInv
  BY InitOrders
<1>2. RInv /\ [Next]_vars => RInv'
  <2>1. SUFFICES ASSUME RInv, [Next]_vars PROVE RInv'
    OBVIOUS
  <2>2. IInv' /\ OrderKept
    BY <2>1, StepsKeep, StepsOrder DEF RInv
  <2> QED
    BY <2>2 DEF RInv, OrderKept
<1>3. RInv => ResumedIsActive
  BY OrderTells
<1> QED
  BY <1>1, <1>2, <1>3, PTL DEF Spec
=============================================================================
