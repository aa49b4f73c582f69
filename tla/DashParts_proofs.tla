-------------------------- MODULE DashParts_proofs --------------------------
(***************************************************************************)
(* Proofs about three of the parts that run on their own (see MCDashParts), a   *)
(* section for each: ArmFFT, DashCodecWindow and Ext4Resize.                   *)
(***************************************************************************)
EXTENDS ArmFFT, DashCodecWindow, Ext4Resize, TLAPS

-----------------------------------------------------------------------------
(***************************************************************************)
(* What holds of the FFT structures for every order, every place the caller's  *)
(* memory may have and every size of the tables.  The argument needs one fact    *)
(* of the reachable states: what FFTInit has written is the layout of the        *)
(* length that GetBufSize was asked about, in memory of the size it answered.    *)
(***************************************************************************)

(* The structure is not there, trivial, or the layout of 2^order at the address  *)
(* of the caller's memory; the size is 0 or what GetBufSize says.               *)
SpecIsLaidOut ==
    /\ variant \in Variants /\ order \in Orders /\ address \in Nat
    /\ size \in {0, BufSize(variant, order)}
    /\ \/ spec = None
       \/ /\ spec.N = 1 /\ size > 0
       \/ /\ spec = Layout(variant, address, 2^order)
          /\ order > 0 /\ size > 0
          /\ variant \in {"C_FC32", "R_F32"} => InTable(order)

(* The next boundary is at most 31 bytes away: Aligned is the rounding of          *)
(* omxSP_FFTInit_*, the 62 of GetBufSize pays for two of them.                    *)
LEMMA AlignedBounds ==
    ASSUME NEW p \in Int
    PROVE  /\ Aligned(p) \in Int /\ Aligned(p) % 32 = 0
           /\ p <= Aligned(p) /\ Aligned(p) <= p + 31
  BY DEF Aligned

(* The number of twiddle factors of N is a number, and not a negative one.         *)
LEMMA CountType ==
    ASSUME NEW v \in Variants, NEW N \in Nat
    PROVE  TwiddleCount(v, N) \in Nat
  BY DEF TwiddleCount

(* What GetBufSize reports is what the factors, the buffer and two alignments       *)
(* take, behind the structure.                                              *)
LEMMA SizeIsEnough ==
    ASSUME NEW v \in Variants, NEW o \in Nat \ {0},
           v \in {"C_FC32", "R_F32"} => InTable(o),
           NEW N \in Nat, N = 2^o
    PROVE  BufSize(v, o) = SpecBytes + ElementBytes(v) * TwiddleCount(v, N)
                             + (IF v \in Complex THEN ElementBytes(v) * N ELSE 8 * N) + 62
  BY DEF Variants, Complex, Real, BufSize, ElementBytes, TwiddleCount, SpecBytes,
         FFTGetBufSize_C_SC16, FFTGetBufSize_C_SC32, FFTGetBufSize_C_FC32, ComplexBytes,
         FFTGetBufSize_R_S32, FFTGetBufSize_R_S16S32, FFTGetBufSize_R_F32, RealBytes

(* A layout lies where it should: FFTInit's pointers, for any memory of the size     *)
(* that GetBufSize reported.                                               *)
LEMMA LayoutIsInside ==
    ASSUME NEW v \in Variants, NEW p \in Nat, NEW N \in Nat
    PROVE  LET s == Layout(v, p, N)
               factors == ElementBytes(v) * TwiddleCount(v, N)
           IN  /\ p + SpecBytes <= s.pTwiddle
               /\ s.pTwiddle % 32 = 0 /\ s.pBuf % 32 = 0
               /\ s.pTwiddle + factors <= s.pBuf
               /\ s.pBuf <= p + SpecBytes + factors + 62
               /\ s.pBuf \in Int /\ s.N = N
<1> DEFINE factors == ElementBytes(v) * TwiddleCount(v, N)
           first == Aligned(p + SpecBytes)
<1>1. factors \in Nat
  BY CountType DEF ElementBytes
<1>2. p + SpecBytes \in Int
  BY DEF SpecBytes
<1>3. /\ first \in Int /\ first % 32 = 0
      /\ p + SpecBytes <= first /\ first <= p + SpecBytes + 31
  BY <1>2, AlignedBounds
<1> HIDE DEF first, factors
<1>4. LET second == Aligned(first + factors)
      IN  /\ second \in Int /\ second % 32 = 0
          /\ first + factors <= second /\ second <= first + factors + 31
  <2>1. first + factors \in Int
    BY <1>1, <1>3
  <2> QED
    BY <2>1, AlignedBounds
<1>5. Layout(v, p, N) = [N |-> N, pTwiddle |-> first, pBuf |-> Aligned(first + factors)]
  BY DEF Layout, first, factors
<1>6. p + SpecBytes + factors + 62 \in Int /\ SpecBytes \in Int
  BY <1>1 DEF SpecBytes
<1> QED
  <2> DEFINE second == Aligned(first + factors)
  <2> HIDE DEF second
  <2>1. second <= p + SpecBytes + factors + 62
    BY <1>1, <1>3, <1>4, <1>6 DEF second
  <2> QED
    BY <1>1, <1>3, <1>4, <1>5, <2>1 DEF factors, second

LEMMA LaidOutInit == FFTStart => SpecIsLaidOut
  BY DEF FFTStart, SpecIsLaidOut

LEMMA LaidOutNext == SpecIsLaidOut /\ [FFTNext]_fftVars => SpecIsLaidOut'
<1> SUFFICES ASSUME SpecIsLaidOut, [FFTNext]_fftVars
             PROVE  SpecIsLaidOut'
  OBVIOUS
<1>1. CASE UNCHANGED fftVars
  BY <1>1 DEF SpecIsLaidOut, fftVars
<1>2. CASE GetBufSize
  BY <1>2 DEF GetBufSize, SpecIsLaidOut, None
<1>3. ASSUME NEW p \in Addresses, FFTInit_Trivial(p)
      PROVE  SpecIsLaidOut'
  BY <1>3, FFTAssumption DEF FFTInit_Trivial, Initialise, TrivialLayout, SpecIsLaidOut, None
<1>4. ASSUME NEW p \in Addresses,
             \/ FFTInit_C_SC16(p) \/ FFTInit_C_SC32(p) \/ FFTInit_C_FC32(p)
             \/ FFTInit_R_S16S32(p) \/ FFTInit_R_S32(p) \/ FFTInit_R_F32(p)
      PROVE  SpecIsLaidOut'
  <2>1. /\ size > 0
        /\ address' = p /\ spec' = Layout(variant, p, 2^order)
        /\ UNCHANGED <<variant, order, size>>
        /\ order > 0
        /\ variant \in {"C_FC32", "R_F32"} => InTable(order)
    BY <1>4 DEF FFTInit_C_SC16, FFTInit_C_SC32, FFTInit_C_FC32, FFTInit_R_S16S32,
                FFTInit_R_S32, FFTInit_R_F32, Initialise, InTable
  <2> QED
    BY <2>1, FFTAssumption DEF SpecIsLaidOut
<1> QED
  BY <1>1, <1>2, <1>3, <1>4 DEF FFTNext

LEMMA LaidOutFits == SpecIsLaidOut => LayoutFits
<1> SUFFICES ASSUME SpecIsLaidOut, spec.N > 1
             PROVE  /\ address + SpecBytes <= spec.pTwiddle
                    /\ spec.pTwiddle % 32 = 0 /\ spec.pBuf % 32 = 0
                    /\ spec.pTwiddle + ElementBytes(variant) * TwiddleCount(variant, spec.N) <= spec.pBuf
                    /\ spec.pBuf + BufferBytes <= address + size
  BY DEF LayoutFits
<1>1. /\ spec = Layout(variant, address, 2^order) /\ order > 0 /\ size = BufSize(variant, order)
      /\ variant \in {"C_FC32", "R_F32"} => InTable(order)
  BY DEF SpecIsLaidOut, None
<1>2. order \in Nat \ {0} /\ variant \in Variants /\ address \in Nat
  BY <1>1, FFTAssumption DEF SpecIsLaidOut
<1>3. 2^order \in Nat /\ spec.N = 2^order
  <2>1. spec.N = 2^order
    BY <1>1 DEF Layout
  <2>2. 2^order \in Int
    BY <1>2
  <2> QED
    BY <2>1, <2>2
<1> DEFINE N == 2^order
           factors == ElementBytes(variant) * TwiddleCount(variant, N)
<1> HIDE DEF N
<1>4. /\ address + SpecBytes <= spec.pTwiddle
      /\ spec.pTwiddle % 32 = 0 /\ spec.pBuf % 32 = 0
      /\ spec.pTwiddle + factors <= spec.pBuf
      /\ spec.pBuf <= address + SpecBytes + factors + 62
      /\ spec.pBuf \in Int
  BY <1>1, <1>2, <1>3, LayoutIsInside DEF N
<1>5. size = SpecBytes + factors + BufferBytes + 62
  BY <1>1, <1>2, <1>3, SizeIsEnough DEF N, BufferBytes
<1>6. factors \in Nat /\ BufferBytes \in Nat /\ SpecBytes \in Nat
  BY <1>2, <1>3, CountType DEF N, ElementBytes, BufferBytes, SpecBytes
<1>7. spec.pBuf + BufferBytes <= address + size
  <2> HIDE DEF factors
  <2> QED
    BY <1>2, <1>4, <1>5, <1>6
<1> QED
  BY <1>3, <1>4, <1>7 DEF N

(* What the six GetBufSize report is enough for what the six FFTInit write, for   *)
(* every order, wherever the caller's memory begins: the 62 bytes they add pay    *)
(* for both alignments, and 3N/4 and 5N/8 round the same way on both sides.        *)
THEOREM LayoutsFit == FFTSpec => []LayoutFits
<1>1. FFTSpec => []SpecIsLaidOut
  BY LaidOutInit, LaidOutNext, PTL DEF FFTSpec
<1> QED
  BY <1>1, LaidOutFits, PTL

-----------------------------------------------------------------------------
(***************************************************************************)
(* Proofs about DashCodecWindow, for any number of buffers the window keeps    *)
(* and the codec has:                                                        *)
(*                                                                         *)
(*   WindowTypeCorrect   WindowSpec => []WindowTypeOK                         *)
(*   LeftClean           WindowSpec => []WindowIsLeftClean                    *)
(*                                                                         *)
(* That a blank buffer is shown is an argument by counting: while the video is  *)
(* still on the screen nothing has been shown, so every blank buffer pushed is   *)
(* in the queue; but the window has one buffer less than are pushed.            *)
(***************************************************************************)

Prepares == {"disconnectMedia", "connectCPU", "set_buffers_geometry", "set_usage", "query", "set_buffer_count"}
Loop     == {"dequeue", "draw", "queue"}
Leaves   == {"disconnectCPU", "connectMedia", "return"}
CallNames == {"freeBuffers", "cancel"} \cup Prepares \cup Loop \cup Leaves

(* The types: of what is called, and of what is counted.                        *)
CallTypeOK ==
    call \in CallNames /\ failed \subseteq CallNames

Window == [api : {"media", "none", "cpu"}, held : Nat, free : Nat, queued : Nat, kept : Nat,
           shows : {"video", "blank"}]

CountTypeOK == pushed \in Nat /\ anb \in BOOLEAN /\ toFree \in Nat /\ window \in Window

WindowTypeOK == CallTypeOK /\ CountTypeOK

(* The calls that decide which API is connected.                              *)
Connects == {"connectCPU", "disconnectCPU", "connectMedia"}

(* The buffers out of the window are the codec's, and then the one anb points to.  *)
Holding ==
    /\ call = "freeBuffers" => window.held = toFree /\ ~anb
    /\ call \in Prepares \cup Loop \cup {"cancel"} => window.held = IF anb THEN 1 ELSE 0
    /\ call \in Leaves => window.held = IF "cancel" \in failed THEN 1 ELSE 0
    /\ anb => call \in {"draw", "queue", "cancel"} \cup Leaves
    /\ call \in {"draw", "queue"} => anb

(* Nothing fails before the first failure, and only cleaning up goes on after it.    *)
Errors ==
    /\ call \in {"freeBuffers"} \cup Prepares \cup Loop => failed = {}
    /\ call = "cancel" => failed # {} /\ "cancel" \notin failed
    /\ call \in {"cancel", "disconnectCPU"} => failed \cap Connects = {}

(* Which API is connected, after which calls.                                  *)
Connected ==
    /\ call \in {"freeBuffers", "disconnectMedia"} => window.api = "media"
    /\ call = "connectCPU" => window.api = "none"
    /\ call \in (Prepares \ {"disconnectMedia", "connectCPU"}) \cup Loop \cup {"cancel", "disconnectCPU"}
        => window.api = "cpu"
    /\ call = "connectMedia" => window.api = IF "disconnectCPU" \in failed THEN "cpu" ELSE "none"
    /\ StaysConnected

(* Before the first blank buffer is shown, those pushed are all in the queue.     *)
Counting ==
    /\ call \in {"freeBuffers"} \cup Prepares => pushed = 0
    /\ call \in Loop =>
        /\ window.free + window.queued + window.kept + window.held = NumBufs
        /\ window.shows = "video" => window.kept = 0 /\ window.queued = pushed
    /\ call \in Leaves /\ failed = {} => window.shows = "blank"

WindowInv == WindowTypeOK /\ Holding /\ Errors /\ Connected /\ Counting

(* The invariant at the start.                                              *)
LEMMA WindowInvInit == WindowInit => WindowInv
  <1> SUFFICES ASSUME WindowInit PROVE WindowInv
    OBVIOUS
  <1>1. PICK n \in 0..Outputs : toFree = n /\ window = [api |-> "media", held |-> n, free |-> 0,
                                    queued |-> 0, kept |-> 0, shows |-> "video"]
    BY DEF WindowInit
  <1>2. n \in Nat
    BY WindowAssumption
  <1>3. CallTypeOK
    BY DEF WindowInit, CallTypeOK, CallNames
  <1>4. CountTypeOK
    BY <1>1, <1>2 DEF WindowInit, CountTypeOK, Window
  <1>5. Holding
    BY <1>1 DEF WindowInit, Holding, Prepares, Loop, Leaves
  <1>6. Errors
    BY <1>1 DEF WindowInit, Errors, Connects, Prepares, Loop
  <1>7. Counting
    BY <1>1 DEF WindowInit, Counting, Loop, Leaves
  <1>8. Connected
    BY <1>1 DEF WindowInit, Connected, StaysConnected, Prepares, Loop
  <1> QED BY <1>3, <1>4, <1>5, <1>6, <1>7, <1>8 DEF WindowInv, WindowTypeOK

(* The fields of a window.                                                   *)
LEMMA WindowFields ==
    ASSUME NEW w \in Window
    PROVE  /\ w.held \in Nat /\ w.free \in Nat /\ w.queued \in Nat /\ w.kept \in Nat
           /\ w.api \in {"media", "none", "cpu"} /\ w.shows \in {"video", "blank"}
  BY DEF Window

(* The order of the calls before the loop.                                   *)
LEMMA NextCallType ==
    /\ DOMAIN NextCall = Prepares
    /\ \A s \in Prepares : IF s = "set_buffer_count" THEN NextCall[s] = "dequeue" ELSE NextCall[s] \in Prepares
  BY DEF NextCall, Prepares

(* freeBuffersOnPort keeps the invariant.                                    *)
LEMMA FreeBuffersInv == WindowInv /\ (FreeBuffers \/ AllFreed) => WindowInv'
  <1> SUFFICES ASSUME WindowInv, FreeBuffers \/ AllFreed PROVE WindowInv'
    OBVIOUS
  <1> USE DEF WindowInv, WindowTypeOK
  <1>1. CASE FreeBuffers
    <2>1. CallTypeOK'
      BY <1>1 DEF CallTypeOK, FreeBuffers, CallNames, Prepares, Loop, Leaves
    <2>2. CountTypeOK'
      BY <1>1 DEF Errors, Holding, CountTypeOK, Window, FreeBuffers, CallNames, Prepares, Loop, Leaves
    <2>3. Holding'
      BY <1>1 DEF CallTypeOK, CountTypeOK, Holding, FreeBuffers, CallNames, Prepares, Loop, Leaves
    <2>4. Errors'
      BY <1>1 DEF CallTypeOK, CountTypeOK, Errors, Connects, FreeBuffers, CallNames, Prepares, Loop, Leaves
    <2>5. Counting'
      BY <1>1, WindowAssumption DEF CallTypeOK, CountTypeOK, Holding, Errors, Counting, NumBufs, FreeBuffers, CallNames, Prepares, Loop, Leaves
    <2>6. Connected'
      BY <1>1 DEF CountTypeOK, Window, Connected, StaysConnected, FreeBuffers, Prepares, Loop
    <2> QED BY <2>1, <2>2, <2>3, <2>4, <2>5, <2>6
  <1>2. CASE AllFreed
    <2>1. CallTypeOK'
      BY <1>2 DEF CallTypeOK, AllFreed, CallNames, Prepares, Loop, Leaves
    <2>2. CountTypeOK'
      BY <1>2 DEF Errors, Holding, CountTypeOK, Window, AllFreed, CallNames, Prepares, Loop, Leaves
    <2>3. Holding'
      BY <1>2 DEF CallTypeOK, CountTypeOK, Holding, AllFreed, CallNames, Prepares, Loop, Leaves
    <2>4. Errors'
      BY <1>2 DEF CallTypeOK, CountTypeOK, Errors, Connects, AllFreed, CallNames, Prepares, Loop, Leaves
    <2>5. Counting'
      BY <1>2, WindowAssumption DEF CallTypeOK, CountTypeOK, Holding, Errors, Counting, NumBufs, AllFreed, CallNames, Prepares, Loop, Leaves
    <2>6. Connected'
      BY <1>2 DEF CountTypeOK, Window, Connected, StaysConnected, AllFreed, Prepares, Loop
    <2> QED BY <2>1, <2>2, <2>3, <2>4, <2>5, <2>6
  <1> QED BY <1>1, <1>2

(* So do the calls before the loop; the last of them empties the window's queue.     *)
LEMMA PreparesInv == WindowInv /\ PreparesWindow => WindowInv'
  <1> SUFFICES ASSUME WindowInv, PreparesWindow PROVE WindowInv'
    OBVIOUS
  <1> USE DEF WindowInv, WindowTypeOK
  <1>1. call \in Prepares
    BY NextCallType DEF PreparesWindow
  <1>2. CASE call' = NextCall[call] /\ window' = WindowAfter(call) /\ UNCHANGED <<pushed, anb, failed, toFree>>
    <2>1. CASE call = "set_buffer_count"
      <3>1. call' = "dequeue"
        BY <1>1, <1>2, <2>1, NextCallType
      <3>2. window' = [window EXCEPT !.free = NumBufs, !.queued = 0, !.kept = 0]
        BY <1>2, <2>1 DEF WindowAfter
      <3>3. NumBufs \in Nat
        BY WindowAssumption DEF NumBufs
      <3>4. CallTypeOK'
        BY <1>2, <3>1 DEF CallTypeOK, CallNames, Loop
      <3>a. /\ window' \in Window /\ window'.held = window.held
            /\ window'.free = NumBufs /\ window'.queued = 0 /\ window'.kept = 0 /\ window'.api = window.api
        BY <3>2, <3>3 DEF CountTypeOK, Window
      <3>5. CountTypeOK'
        BY <1>2, <3>a DEF CountTypeOK
      <3>6. window'.held = 0 /\ ~anb /\ failed = {} /\ pushed = 0
        BY <2>1, <3>a DEF Holding, Errors, Counting, Prepares, Leaves
      <3>7. Holding' /\ Errors'
        BY <1>2, <3>1, <3>6 DEF Holding, Errors, Connects, Prepares, Loop, Leaves
      <3>9. Connected'
        BY <1>2, <2>1, <3>1, <3>a DEF Connected, StaysConnected, Prepares, Loop
      <3>8. Counting'
        BY <1>2, <3>1, <3>a, <3>3, <3>6 DEF Counting, Prepares, Loop, Leaves
      <3> QED BY <3>4, <3>5, <3>7, <3>8, <3>9
    <2>2. CASE call # "set_buffer_count"
      <3>1. call' \in Prepares
        BY <1>1, <1>2, <2>2, NextCallType
      <3>2. CountTypeOK' /\ window'.held = window.held
        <4>1. CASE call = "disconnectMedia"
          BY <1>2, <4>1 DEF WindowAfter, CountTypeOK, Window
        <4>2. CASE call = "connectCPU"
          BY <1>2, <4>2 DEF WindowAfter, CountTypeOK, Window
        <4>3. CASE call \in {"set_buffers_geometry", "set_usage", "query"}
          BY <1>2, <4>3 DEF WindowAfter, CountTypeOK, Window
        <4> QED BY <1>1, <2>2, <4>1, <4>2, <4>3 DEF Prepares
      <3>3. CallTypeOK'
        BY <1>2, <3>1 DEF CallTypeOK, CallNames
      <3>4. Holding'
        BY <1>1, <1>2, <3>1, <3>2 DEF Holding, Prepares, Loop, Leaves
      <3>5. Errors'
        BY <1>1, <1>2, <3>1 DEF Errors, Connects, Prepares
      <3>7. Connected'
        <4>1. CASE call = "disconnectMedia"
          BY <1>2, <4>1 DEF WindowAfter, NextCall, CountTypeOK, Window, Connected, StaysConnected, Prepares, Loop
        <4>2. CASE call = "connectCPU"
          BY <1>2, <4>2 DEF WindowAfter, NextCall, CountTypeOK, Window, Connected, StaysConnected, Prepares, Loop
        <4>3. CASE call \in {"set_buffers_geometry", "set_usage", "query"}
          BY <1>2, <4>3 DEF WindowAfter, NextCall, CountTypeOK, Window, Connected, StaysConnected, Prepares, Loop
        <4> QED BY <1>1, <2>2, <4>1, <4>2, <4>3 DEF Prepares
      <3>6. Counting'
        BY <1>1, <1>2, <3>1 DEF Counting, Prepares, Loop, Leaves
      <3> QED BY <3>2, <3>3, <3>4, <3>5, <3>6, <3>7
    <2> QED BY <2>1, <2>2
  <1>3. CASE /\ failed' = failed \cup {call}
             /\ call' = IF call \in {"disconnectMedia", "connectCPU"} THEN "return" ELSE "cancel"
             /\ UNCHANGED <<pushed, anb, toFree, window>>
    <2>1. failed = {} /\ failed' = {call} /\ call' \in {"return", "cancel"}
      BY <1>1, <1>3 DEF Errors
    <2>2. WindowTypeOK'
      BY <1>1, <1>3, <2>1 DEF CallTypeOK, CountTypeOK, CallNames, Leaves
    <2>3. Holding'
      BY <1>1, <1>3, <2>1 DEF Holding, Prepares, Loop, Leaves
    <2>4. Errors' /\ Counting'
      BY <1>1, <1>3, <2>1 DEF Errors, Connects, Counting, Prepares, Loop, Leaves
    <2>5. Connected'
      BY <1>1, <1>3, <2>1 DEF Connected, StaysConnected, Prepares, Loop
    <2> QED BY <2>2, <2>3, <2>4, <2>5
  <1> QED BY <1>2, <1>3 DEF PreparesWindow, Fails

(* A call of the loop that fails leaves everything else as it is.                *)
LEMMA NotedInv ==
    ASSUME WindowInv, call \in Loop, failed' = failed \cup {call}, call' = "cancel", UNCHANGED <<pushed, anb, toFree, window>>
    PROVE  WindowInv'
  <1> USE DEF WindowInv, WindowTypeOK
  <1>1. WindowTypeOK'
    BY DEF CallTypeOK, CountTypeOK, CallNames
  <1>2. Holding'
    BY DEF Holding, Prepares, Loop, Leaves
  <1>3. Errors' /\ Counting'
    BY DEF Errors, Connects, Counting, Prepares, Loop, Leaves
  <1>4. Connected'
    BY DEF Connected, StaysConnected, Prepares, Loop
  <1> QED BY <1>1, <1>2, <1>3, <1>4

(* The loop: once enough have been queued, one of them has been shown.           *)
LEMMA LoopInv == WindowInv /\ (DequeuesBuffer \/ DrawsBlank \/ QueuesBlank) => WindowInv'
  <1> SUFFICES ASSUME WindowInv, DequeuesBuffer \/ DrawsBlank \/ QueuesBlank PROVE WindowInv'
    OBVIOUS
  <1> USE DEF WindowInv, WindowTypeOK
  <1>1. /\ call \in Loop /\ failed = {} /\ pushed \in Nat /\ window \in Window /\ NumBufs \in Nat
        /\ window.held = IF anb THEN 1 ELSE 0
        /\ window.free + window.queued + window.kept + window.held = NumBufs
        /\ window.shows = "video" => window.kept = 0 /\ window.queued = pushed
    BY WindowAssumption
       DEF DequeuesBuffer, DrawsBlank, QueuesBlank, CountTypeOK, Holding, Errors, Counting, Loop, NumBufs
  <1>2. CASE DequeuesBuffer
    <2>1. CASE failed' = failed \cup {call} /\ call' = "cancel" /\ UNCHANGED <<pushed, anb, toFree, window>>
      BY <1>1, <2>1, NotedInv
    <2>2. CASE /\ window.free > 0 /\ window' = [window EXCEPT !.free = @ - 1, !.held = @ + 1]
               /\ anb' = TRUE /\ call' = "draw" /\ UNCHANGED <<pushed, failed, toFree>>
      <3>1. call = "dequeue" /\ ~anb /\ window.held = 0
        BY <1>1, <1>2 DEF DequeuesBuffer, Holding, Loop, Leaves
      <3>2. window.free - 1 \in Nat /\ window.held + 1 \in Nat
        BY <1>1, <2>2, WindowFields
      <3>3. /\ window' \in Window /\ window'.free = window.free - 1 /\ window'.held = window.held + 1
            /\ window'.queued = window.queued /\ window'.kept = window.kept
            /\ window'.shows = window.shows /\ window'.api = window.api
        BY <1>1, <2>2, <3>2 DEF Window
      <3>4. WindowTypeOK'
        BY <1>1, <2>2, <3>3 DEF CallTypeOK, CountTypeOK, CallNames, Loop
      <3>5. Holding' /\ Errors'
        BY <1>1, <2>2, <3>1, <3>3 DEF Holding, Errors, Connects, Prepares, Loop, Leaves
      <3>7. Connected'
        BY <1>1, <2>2, <3>1, <3>3 DEF Connected, StaysConnected, Prepares, Loop
      <3>6. Counting'
        BY <1>1, <2>2, <3>1, <3>3, WindowFields DEF Counting, Prepares, Loop, Leaves
      <3> QED BY <3>4, <3>5, <3>6, <3>7
    <2> QED BY <1>2, <2>1, <2>2 DEF DequeuesBuffer, Fails
  <1>3. CASE DrawsBlank
    <2>1. CASE failed' = failed \cup {call} /\ call' = "cancel" /\ UNCHANGED <<pushed, anb, toFree, window>>
      BY <1>1, <2>1, NotedInv
    <2>2. CASE call = "draw" /\ call' = "queue" /\ UNCHANGED <<pushed, anb, failed, toFree, window>>
      BY <1>1, <2>2 DEF CallTypeOK, CountTypeOK, Holding, Errors, Connects, Connected, StaysConnected,
                        Counting, CallNames, Prepares, Loop, Leaves
    <2> QED BY <1>3, <2>1, <2>2 DEF DrawsBlank, Fails
  <1>4. CASE QueuesBlank
    <2>1. CASE failed' = failed \cup {call} /\ call' = "cancel" /\ UNCHANGED <<pushed, anb, toFree, window>>
      BY <1>1, <2>1, NotedInv
    <2>2. CASE /\ call = "queue" /\ window' = [window EXCEPT !.held = @ - 1, !.queued = @ + 1]
               /\ anb' = FALSE /\ pushed' = pushed + 1
               /\ call' = IF EnoughPushed(pushed + 1) THEN "disconnectCPU" ELSE "dequeue"
               /\ UNCHANGED <<failed, toFree>>
      <3>1. window.held = 1
        BY <1>1, <2>2 DEF Holding
      <3>2. window.held - 1 \in Nat /\ window.queued + 1 \in Nat
        BY <1>1, <3>1, WindowFields
      <3>3. /\ window' \in Window /\ window'.held = 0 /\ window'.queued = window.queued + 1
            /\ window'.free = window.free /\ window'.kept = window.kept
            /\ window'.shows = window.shows /\ window'.api = window.api
        <4>1. window' = [window EXCEPT !.held = 0, !.queued = window.queued + 1]
          <5>1. window' = [window EXCEPT !.held = window.held - 1, !.queued = window.queued + 1]
            BY <1>1, <2>2 DEF Window
          <5> QED BY <3>1, <5>1
        <4> QED BY <1>1, <3>2, <4>1 DEF Window
      <3>4. call' \in {"disconnectCPU", "dequeue"}
        BY <2>2
      <3>5. WindowTypeOK'
        <4>1. pushed' \in Nat /\ anb' \in BOOLEAN /\ toFree' \in Nat /\ failed' = failed
          <5>1. pushed' = pushed + 1 /\ anb' = FALSE /\ toFree' = toFree /\ failed' = failed
            BY <2>2
          <5>2. toFree \in Nat
            BY DEF CountTypeOK
          <5>3. pushed + 1 \in Nat
            BY <1>1
          <5> QED BY <5>1, <5>2, <5>3
        <4> QED BY <3>3, <3>4, <4>1 DEF CallTypeOK, CountTypeOK, CallNames, Loop, Leaves
      <3>6. Holding' /\ Errors'
        BY <1>1, <2>2, <3>3, <3>4 DEF Holding, Errors, Connects, Prepares, Loop, Leaves
      <3>9. Connected'
        BY <1>1, <2>2, <3>3, <3>4 DEF Connected, StaysConnected, Prepares, Loop
      <3>7. EnoughPushed(pushed + 1) => window.shows = "blank"
        BY <1>1, <3>1, WindowFields DEF EnoughPushed
      <3>8. Counting'
        BY <1>1, <2>2, <3>1, <3>3, <3>7, WindowFields DEF Counting, Prepares, Loop, Leaves
      <3> QED BY <3>5, <3>6, <3>8, <3>9
    <2> QED BY <1>4, <2>1, <2>2 DEF QueuesBlank, Fails
  <1> QED BY <1>2, <1>3, <1>4

(* After the loop or an error.                                               *)
LEMMA LeavingInv == WindowInv /\ (CancelsBuffer \/ ReconnectsMedia) => WindowInv'
  <1> SUFFICES ASSUME WindowInv, CancelsBuffer \/ ReconnectsMedia PROVE WindowInv'
    OBVIOUS
  <1> USE DEF WindowInv, WindowTypeOK
  <1>1. CASE CancelsBuffer
    <2>1. /\ call = "cancel" /\ call' = "disconnectCPU" /\ UNCHANGED <<pushed, anb, toFree>>
          /\ failed # {} /\ "cancel" \notin failed /\ failed \cap Connects = {}
          /\ failed' \in {failed, failed \cup {"cancel"}}
      BY <1>1 DEF CancelsBuffer, Fails, Errors
    <2>2. /\ window' \in Window /\ window'.api = window.api
          /\ window'.held = IF "cancel" \in failed' THEN 1 ELSE 0
      <3>1. CASE ~anb
        BY <1>1, <2>1, <3>1 DEF CancelsBuffer, Holding, CountTypeOK
      <3>2. CASE anb /\ Fails /\ UNCHANGED window
        BY <2>1, <3>2 DEF Fails, Holding, CountTypeOK
      <3>3. CASE anb /\ window' = [window EXCEPT !.held = @ - 1, !.free = @ + 1] /\ UNCHANGED failed
        <4>1. window.held - 1 \in Nat /\ window.free + 1 \in Nat /\ window.held = 1
          BY <2>1, <3>3, WindowFields DEF Holding, CountTypeOK
        <4>2. window' = [window EXCEPT !.held = 0, !.free = window.free + 1]
          <5>1. window' = [window EXCEPT !.held = window.held - 1, !.free = window.free + 1]
            BY <3>3 DEF CountTypeOK, Window
          <5>2. window.held - 1 = 0
            BY <4>1
          <5> QED BY <5>1, <5>2
        <4>3. window' \in Window /\ window'.api = window.api /\ window'.held = 0
          BY <4>1, <4>2 DEF CountTypeOK, Window
        <4> QED BY <2>1, <3>3, <4>3
      <3> QED BY <1>1, <3>1, <3>2, <3>3 DEF CancelsBuffer
    <2>3. WindowTypeOK'
      BY <2>1, <2>2 DEF CallTypeOK, CountTypeOK, CallNames, Leaves
    <2>4. Holding'
      BY <2>1, <2>2 DEF Holding, Prepares, Loop, Leaves
    <2>5. Errors' /\ Counting'
      BY <2>1 DEF Errors, Connects, Counting, Prepares, Loop, Leaves
    <2>6. Connected'
      BY <2>1, <2>2 DEF Connected, StaysConnected, Prepares, Loop
    <2> QED BY <2>3, <2>4, <2>5, <2>6
  <1>2. CASE ReconnectsMedia
    <2>1. call \in {"disconnectCPU", "connectMedia"} /\ UNCHANGED <<pushed, anb, toFree>>
      BY <1>2 DEF ReconnectsMedia
    <2>2. CASE /\ window' = WindowAfter(call) /\ UNCHANGED failed
               /\ call' = IF call = "disconnectCPU" THEN "connectMedia" ELSE "return"
      <3>1. /\ window' \in Window /\ window'.held = window.held /\ window'.shows = window.shows
            /\ window'.api = IF call = "disconnectCPU" THEN "none" ELSE "media"
        <4>1. CASE call = "disconnectCPU"
          BY <2>2, <4>1 DEF WindowAfter, CountTypeOK, Window
        <4>2. CASE call = "connectMedia"
          BY <2>2, <4>2 DEF WindowAfter, CountTypeOK, Window
        <4> QED BY <2>1, <4>1, <4>2
      <3>2. call' \in {"connectMedia", "return"}
        BY <2>1, <2>2
      <3>3. WindowTypeOK' /\ Holding' /\ Errors' /\ Counting'
        BY <2>1, <2>2, <3>1, <3>2
           DEF CallTypeOK, CountTypeOK, Holding, Errors, Counting, CallNames, Prepares, Loop, Leaves
      <3>4. Connected'
        BY <2>1, <2>2, <3>1 DEF Errors, Connects, Connected, StaysConnected, Prepares, Loop
      <3> QED BY <3>3, <3>4
    <2>3. CASE /\ call' = IF call = "disconnectCPU" /\ failed # {} THEN "connectMedia" ELSE "return"
               /\ failed' = failed \cup {call} /\ UNCHANGED window
      <3>1. /\ call' \in {"connectMedia", "return"} /\ failed' # {}
            /\ "cancel" \in failed' <=> "cancel" \in failed
        BY <2>1, <2>3
      <3>2. WindowTypeOK' /\ Holding' /\ Errors' /\ Counting'
        BY <2>1, <2>3, <3>1
           DEF CallTypeOK, CountTypeOK, Holding, Errors, Counting, CallNames, Prepares, Loop, Leaves
      <3>3. Connected'
        BY <2>1, <2>3 DEF Connected, StaysConnected, Prepares, Loop
      <3> QED BY <3>2, <3>3
    <2> QED BY <1>2, <2>2, <2>3 DEF ReconnectsMedia, Fails
  <1> QED BY <1>1, <1>2

(* The consumer keeps the number of buffers, and never shows the video again.     *)
LEMMA ConsumerInv == WindowInv /\ (ConsumerShows \/ ConsumerReleases) => WindowInv'
  <1> SUFFICES ASSUME WindowInv, ConsumerShows \/ ConsumerReleases PROVE WindowInv'
    OBVIOUS
  <1> USE DEF WindowInv, WindowTypeOK
  <1>1. UNCHANGED <<call, pushed, anb, failed, toFree>> /\ window \in Window
    BY DEF ConsumerShows, ConsumerReleases, CountTypeOK
  <1>2. /\ window' \in Window /\ window'.held = window.held /\ window'.api = window.api
        /\ window'.free + window'.queued + window'.kept = window.free + window.queued + window.kept
        /\ window'.shows = "video" => window.shows = "video" /\ window.kept # 0
        /\ window.shows = "blank" => window'.shows = "blank"
    <2>1. CASE ConsumerShows
      <3>1. window.queued - 1 \in Nat /\ window.kept + 1 \in Nat
        BY <1>1, <2>1, WindowFields DEF ConsumerShows
      <3>2. window' = [window EXCEPT !.queued = window.queued - 1, !.kept = window.kept + 1, !.shows = "blank"]
        BY <1>1, <2>1 DEF ConsumerShows, Window
      <3>3. /\ window' \in Window /\ window'.held = window.held /\ window'.api = window.api
            /\ window'.free = window.free /\ window'.queued = window.queued - 1
            /\ window'.kept = window.kept + 1 /\ window'.shows = "blank"
        BY <1>1, <3>1, <3>2 DEF Window
      <3>4. window.free \in Nat /\ window.queued \in Nat /\ window.kept \in Nat
        BY <1>1, WindowFields
      <3> QED BY <3>3, <3>4
    <2>2. CASE ConsumerReleases /\ window.kept > 1
      <3>1. window.kept - 1 \in Nat /\ window.free + 1 \in Nat /\ window.kept # 0
        BY <1>1, <2>2, WindowFields
      <3>2. window' = [window EXCEPT !.kept = window.kept - 1, !.free = window.free + 1]
        BY <1>1, <2>2 DEF ConsumerReleases, Window
      <3>3. /\ window' \in Window /\ window'.held = window.held /\ window'.api = window.api
            /\ window'.free = window.free + 1 /\ window'.queued = window.queued
            /\ window'.kept = window.kept - 1 /\ window'.shows = window.shows
        BY <1>1, <3>1, <3>2 DEF Window
      <3> QED BY <1>1, <3>1, <3>3, WindowFields
    <2>3. CASE ConsumerReleases /\ ~(window.kept > 1)
      <3>1. window.queued - 1 \in Nat /\ window.free + 1 \in Nat /\ window.kept # 0
        BY <1>1, <2>3, WindowFields DEF ConsumerReleases
      <3>2. window' = [window EXCEPT !.queued = window.queued - 1, !.free = window.free + 1]
        BY <1>1, <2>3 DEF ConsumerReleases, Window
      <3>3. /\ window' \in Window /\ window'.held = window.held /\ window'.api = window.api
            /\ window'.free = window.free + 1 /\ window'.queued = window.queued - 1
            /\ window'.kept = window.kept /\ window'.shows = window.shows
        BY <1>1, <3>1, <3>2 DEF Window
      <3> QED BY <1>1, <3>1, <3>3, WindowFields
    <2> QED BY <2>1, <2>2, <2>3
  <1>3. WindowTypeOK' /\ Holding' /\ Errors' /\ Connected'
    BY <1>1, <1>2 DEF CallTypeOK, CountTypeOK, Holding, Errors, Connected, StaysConnected
  <1>4. Counting'
    BY <1>1, <1>2, WindowFields DEF Counting
  <1> QED BY <1>3, <1>4

(* WindowInv is inductive.                                                   *)
LEMMA WindowInvStep == WindowInv /\ [WindowNext]_windowVars => WindowInv'
  <1> SUFFICES ASSUME WindowInv, [WindowNext]_windowVars PROVE WindowInv'
    OBVIOUS
  <1>1. CASE UNCHANGED windowVars
    BY <1>1 DEF windowVars, WindowInv, WindowTypeOK, CallTypeOK, CountTypeOK, Holding, Errors,
                Connected, StaysConnected, Counting
  <1> QED BY <1>1, FreeBuffersInv, PreparesInv, LoopInv, LeavingInv, ConsumerInv DEF WindowNext

(* Every variable keeps its type.                                            *)
THEOREM WindowTypeCorrect == WindowSpec => []WindowTypeOK
  <1>1. WindowInv => WindowTypeOK
    BY DEF WindowInv
  <1> QED BY <1>1, WindowInvInit, WindowInvStep, PTL DEF WindowSpec

(* pushBlankBuffersToNativeWindow keeps its promises whatever calls fail, those of     *)
(* its error path included, and however fast the consumer is: success means that a      *)
(* blank buffer is on the screen; no buffer is kept back, but one cancelBuffer refused;  *)
(* and the window is connected to the media API, unless a call that was to connect it    *)
(* or to disconnect it from the CPU API is itself what failed.                       *)
THEOREM LeftClean == WindowSpec => []WindowIsLeftClean
  <1>1. WindowInv => WindowIsLeftClean
    BY DEF WindowInv, Holding, Connected, Counting, Leaves, WindowIsLeftClean, BlankIsShown, NothingIsHeld
  <1> QED BY <1>1, WindowInvInit, WindowInvStep, PTL DEF WindowSpec

-----------------------------------------------------------------------------
(***************************************************************************)
(* ext4_resize settles, for every size of the partition, of the flashed image,    *)
(* of the groups and of the reserve, and however often a boot fails.              *)
(*                                                                         *)
(* A boot without a failure leaves the file system at one of two sizes: the       *)
(* partition less the reserve, or that less its last group.  Which of them the     *)
(* next boot asks for depends on the reserved descriptor blocks, of which a        *)
(* growth takes some away and a shrink gives some back: the direction of the       *)
(* change keeps the answer the same from the second boot on.                      *)
(***************************************************************************)

(* All that adjust_fs_size is ever asked about, and what it may leave out.          *)
Whole == partition - ReserveBlocks
Short == Whole - Rem(Whole)

Asked == adjust_fs_size(Whole, fs.reserved)

ResizeTypeOK ==
    /\ partition \in Nat /\ partition > ReserveBlocks
    /\ fs \in [blocks : Nat \ {0}, reserved : Nat]
    /\ stage \in {"off", "stats", "resize2fs", "e2fsck", "done"}
    /\ target \in Int /\ smooth \in Int /\ smooth >= -1

(* A boot without a failure has left one of the two sizes.                        *)
OneOfTwo == smooth > 0 => fs.blocks \in {Whole, Short}

(* After two of them there is nothing to do, whatever the reserved blocks are now.  *)
Settled == Asked \in {TooSmall, fs.blocks}

(* The size resize2fs is given is the one main computed, and the super block is     *)
(* still the one it was computed from.                                         *)
TargetIsAsked ==
    stage = "resize2fs" =>
        \/ target = Beyond /\ smooth = -1
        \/ target = Asked /\ Asked \notin {TooSmall, fs.blocks} /\ smooth \in {0, 1}

ResizeInv ==
    /\ ResizeTypeOK /\ OneOfTwo /\ TargetIsAsked
    /\ smooth = -1 => stage \in {"resize2fs", "e2fsck"}
    /\ smooth >= 2 => Settled /\ stage # "e2fsck"
    /\ stage = "e2fsck" /\ smooth >= 0 => fs.blocks \in {Whole, Short}
    /\ stage = "e2fsck" /\ smooth = 1 => Settled

-----------------------------------------------------------------------------
(*                     The arithmetic of adjust_fs_size                     *)

(* The quotient and the remainder of a number by the size of a group.             *)
LEMMA DivMod ==
    ASSUME NEW a \in Int, NEW b \in Nat \ {0}
    PROVE  /\ a \div b \in Int /\ a % b \in 0 .. b - 1
           /\ (a - (a % b)) % b = 0
           /\ a >= 0 => a % b <= a
<1>1. a \div b \in Int /\ a % b \in 0 .. b - 1
  OBVIOUS
<1>2. (a - (a % b)) % b = 0
  OBVIOUS
<1>3. a >= 0 => a % b <= a
  OBVIOUS
<1> QED
  BY <1>1, <1>2, <1>3

LEMMA DivMono ==
    ASSUME NEW a \in Int, NEW c \in Int, a <= c, NEW b \in Nat \ {0}
    PROVE  a \div b <= c \div b
  OBVIOUS

LEMMA DivCeilMono ==
    ASSUME NEW a \in Int, NEW c \in Int, a <= c, NEW b \in Nat \ {0}
    PROVE  DivCeil(a, b) \in Int /\ DivCeil(c, b) \in Int /\ DivCeil(a, b) <= DivCeil(c, b)
<1>1. a + b - 1 \in Int /\ c + b - 1 \in Int /\ a + b - 1 <= c + b - 1
  OBVIOUS
<1> QED
  BY <1>1, DivMod, DivMono DEF DivCeil

(* A larger file system has no fewer descriptor blocks.                          *)
LEMMA DescBlocksMono ==
    ASSUME NEW a \in Int, NEW c \in Int, a <= c
    PROVE  DescBlocks(a) \in Int /\ DescBlocks(c) \in Int /\ DescBlocks(a) <= DescBlocks(c)
<1>1. GroupCount(a) \in Int /\ GroupCount(c) \in Int /\ GroupCount(a) <= GroupCount(c)
  BY DivCeilMono, ResizeAssumption DEF GroupCount
<1> QED
  BY <1>1, DivCeilMono, ResizeAssumption DEF DescBlocks

(* More reserved descriptor blocks make the tables of a last group no smaller.     *)
LEMMA OverheadMono ==
    ASSUME NEW n \in Int, NEW r \in Nat, NEW s \in Nat, r <= s
    PROVE  Overhead(n, r) \in Int /\ Overhead(n, s) \in Int /\ Overhead(n, r) <= Overhead(n, s)
<1>1. DescBlocks(n) \in Int /\ InodeBlocks \in Nat
  BY DescBlocksMono, ResizeAssumption
<1> QED
  BY <1>1 DEF Overhead

LEMMA RemFacts ==
    ASSUME NEW n \in Int
    PROVE  /\ Rem(n) \in Nat /\ n - Rem(n) \in Int /\ Rem(n - Rem(n)) = 0
           /\ n >= 0 => Rem(n) <= n
<1>1. BlocksPerGroup \in Nat \ {0}
  BY ResizeAssumption
<1>2. n % BlocksPerGroup \in Nat
  BY <1>1, DivMod
<1>3. (n - (n % BlocksPerGroup)) % BlocksPerGroup = 0
  BY <1>1, DivMod
<1>4. n >= 0 => n % BlocksPerGroup <= n
  BY <1>1, DivMod
<1> QED
  BY <1>2, <1>3, <1>4 DEF Rem

LEMMA AdjustValues ==
    ASSUME NEW n \in Nat, NEW r \in Nat
    PROVE  adjust_fs_size(n, r) \in {TooSmall, n, n - Rem(n)}
  BY DEF adjust_fs_size

(* With fewer reserved blocks a size that was kept whole still is.              *)
LEMMA AdjustWhole ==
    ASSUME NEW n \in Nat \ {0}, NEW r \in Nat, NEW s \in Nat, r <= s,
           adjust_fs_size(n, s) = n
    PROVE  adjust_fs_size(n, r) = n
<1>1. Rem(n) \in Nat /\ Slack \in Nat
  BY RemFacts, ResizeAssumption
<1>2. Overhead(n, r) \in Int /\ Overhead(n, s) \in Int /\ Overhead(n, r) <= Overhead(n, s)
  BY OverheadMono
<1>3. /\ ~(GroupCount(n) = 0)
      /\ ~(GroupCount(n) = 1 /\ Rem(n) # 0 /\ Rem(n) < Overhead(n, s))
      /\ ~(Rem(n) # 0 /\ Rem(n) < Overhead(n, s) + Slack)
  BY <1>1 DEF adjust_fs_size, TooSmall
<1>4. /\ ~(GroupCount(n) = 1 /\ Rem(n) # 0 /\ Rem(n) < Overhead(n, r))
      /\ ~(Rem(n) # 0 /\ Rem(n) < Overhead(n, r) + Slack)
  BY <1>1, <1>2, <1>3
<1> QED
  BY <1>3, <1>4 DEF adjust_fs_size

(* resize2fs gives the file system the very size main asks for.                  *)
LEMMA RoundedIsAsked ==
    ASSUME NEW n \in Nat \ {0}, NEW r \in Nat, adjust_fs_size(n, r) # TooSmall
    PROVE  Rounded(adjust_fs_size(n, r), r) = adjust_fs_size(n, r)
<1>1. Rem(n) \in Nat /\ Rem(n - Rem(n)) = 0
  BY RemFacts
<1>2. CASE Rem(n) # 0 /\ Rem(n) < Overhead(n, r) + Slack
  BY <1>1, <1>2 DEF Rounded, adjust_fs_size
<1>3. CASE ~(Rem(n) # 0 /\ Rem(n) < Overhead(n, r) + Slack)
  BY <1>3 DEF Rounded, adjust_fs_size
<1> QED
  BY <1>2, <1>3

-----------------------------------------------------------------------------
(*                              The steps                                   *)

ResizeTypes ==
    /\ Whole \in Nat \ {0} /\ Short \in Nat /\ Short <= Whole
    /\ fs.reserved \in Nat /\ fs.blocks \in Nat \ {0}
    /\ Asked \in {TooSmall, Whole, Short}

LEMMA TypesFollow == ResizeTypeOK => ResizeTypes
<1> SUFFICES ASSUME ResizeTypeOK PROVE ResizeTypes
  OBVIOUS
<1>1. Whole \in Nat \ {0} /\ fs.reserved \in Nat /\ fs.blocks \in Nat \ {0}
  BY ResizeAssumption DEF ResizeTypeOK, Whole
<1>2. Short \in Nat /\ Short <= Whole
  BY <1>1, RemFacts DEF Short
<1>3. Asked \in {TooSmall, Whole, Short}
  BY <1>1, AdjustValues DEF Asked, Short
<1> QED
  BY <1>1, <1>2, <1>3 DEF ResizeTypes

LEMMA TypesPrimed == ResizeTypeOK' => ResizeTypes'
  BY TypesFollow, PTL

(* What resize2fs does when it is given the size main computed: that is the size     *)
(* the file system gets, and the reserved blocks go the other way.                *)
LEMMA GrownIsAsked ==
    ASSUME ResizeTypeOK, Asked # TooSmall
    PROVE  /\ Grown(Asked).blocks = Asked
           /\ Grown(Asked) \in [blocks : Nat \ {0}, reserved : Nat]
           /\ fs.blocks <= Asked => Grown(Asked).reserved <= fs.reserved
           /\ Asked <= fs.blocks => fs.reserved <= Grown(Asked).reserved
<1>1. /\ Whole \in Nat \ {0} /\ fs.reserved \in Nat /\ fs.blocks \in Nat \ {0}
      /\ Asked \in Nat \ {0}
  BY TypesFollow DEF ResizeTypes, TooSmall
<1>2. Rounded(Asked, fs.reserved) = Asked
  BY <1>1, RoundedIsAsked DEF Asked
<1> DEFINE added == DescBlocks(Asked) - DescBlocks(fs.blocks)
<1>3. /\ added \in Int
      /\ fs.blocks <= Asked => added >= 0
      /\ Asked <= fs.blocks => added <= 0
  BY <1>1, DescBlocksMono
<1>4. Grown(Asked) = [blocks |-> Asked,
                      reserved |-> IF added > fs.reserved THEN 0 ELSE fs.reserved - added]
  BY <1>2 DEF Grown
<1> QED
  BY <1>1, <1>3, <1>4

(* After the second resize there is nothing left to ask for: the sizes are the two,  *)
(* and the step from one to the other moves the reserved blocks the right way.     *)
LEMMA SecondSettles ==
    ASSUME ResizeTypeOK, ResizeTypeOK', UNCHANGED partition,
           fs.blocks \in {Whole, Short}, Asked \notin {TooSmall, fs.blocks},
           fs' = Grown(Asked)
    PROVE  Settled'
<1>1. /\ Whole \in Nat \ {0} /\ Short \in Nat /\ Short <= Whole
      /\ fs.reserved \in Nat /\ fs'.reserved \in Nat
      /\ Asked \in {Whole, Short} /\ Whole' = Whole /\ Short' = Short
      /\ Asked' \in {TooSmall, Whole, Short}
  <2>1. Whole' = Whole /\ Short' = Short
    BY DEF Whole, Short
  <2>2. fs'.reserved \in Nat /\ Asked' \in {TooSmall, Whole', Short'}
    BY TypesPrimed DEF ResizeTypes
  <2> QED
    BY <2>1, <2>2, TypesFollow DEF ResizeTypes, TooSmall
<1>2. /\ fs'.blocks = Asked
      /\ fs.blocks <= Asked => fs'.reserved <= fs.reserved
      /\ Asked <= fs.blocks => fs.reserved <= fs'.reserved
  BY GrownIsAsked
<1>3. Asked = adjust_fs_size(Whole, fs.reserved) /\ Asked' = adjust_fs_size(Whole, fs'.reserved)
  BY <1>1 DEF Asked
<1>4. CASE Asked = Whole
  <2>1. fs'.reserved <= fs.reserved
    BY <1>1, <1>2, <1>4
  <2>2. adjust_fs_size(Whole, fs'.reserved) = Whole
    <3>1. adjust_fs_size(Whole, fs.reserved) = Whole
      BY <1>3, <1>4
    <3> QED
      BY <1>1, <2>1, <3>1, AdjustWhole
  <2> QED
    BY <1>2, <1>3, <1>4, <2>2 DEF Settled
<1>5. CASE Asked # Whole
  <2>1. fs.reserved <= fs'.reserved
    BY <1>1, <1>2, <1>5
  <2>2. adjust_fs_size(Whole, fs'.reserved) # Whole
    <3> SUFFICES ASSUME adjust_fs_size(Whole, fs'.reserved) = Whole
                 PROVE  adjust_fs_size(Whole, fs.reserved) = Whole
      BY <1>3, <1>5
    <3> QED
      BY <1>1, <2>1, AdjustWhole
  <2>3. Asked' # Whole
    BY <1>3, <2>2
  <2> QED
    BY <1>1, <1>2, <1>5, <2>3 DEF Settled
<1> QED
  BY <1>4, <1>5

LEMMA ResizeInvInit == ResizeInit => ResizeInv
<1> SUFFICES ASSUME ResizeInit PROVE ResizeInv
  OBVIOUS
<1>1. /\ partition \in Nat /\ partition > ReserveBlocks
      /\ fs \in [blocks : Nat \ {0}, reserved : Nat]
  BY ResizeAssumption DEF ResizeInit
<1>2. stage = "off" /\ target = 0 /\ smooth = 0
  BY DEF ResizeInit
<1> QED
  BY <1>1, <1>2 DEF ResizeInv, ResizeTypeOK, OneOfTwo, TargetIsAsked

(* Steps that leave the two sizes and what is asked for alone.                   *)
LEMMA SameSizes ==
    ASSUME UNCHANGED <<partition, fs>>
    PROVE  /\ Whole' = Whole /\ Short' = Short /\ Asked' = Asked
           /\ Settled' = Settled
  BY DEF Whole, Short, Asked, Settled

(* Steps that leave the super block alone.                                     *)
LEMMA GetStatsInv == ASSUME ResizeInv, get_resize_stats PROVE ResizeInv'
<1>1. UNCHANGED <<partition, fs>> /\ stage = "stats" /\ ResizeTypeOK /\ ResizeTypes
  BY TypesFollow DEF get_resize_stats, ResizeInv
<1>2. /\ Whole' = Whole /\ Short' = Short /\ Asked' = Asked /\ Settled' = Settled
  BY <1>1, SameSizes
<1>3. /\ smooth \in Nat
      /\ smooth > 0 => fs.blocks \in {Whole, Short}
      /\ smooth >= 2 => Settled
  BY <1>1 DEF ResizeInv, ResizeTypeOK, OneOfTwo
<1>4. \/ stage' = "done" /\ smooth' = 0 /\ target' = target
      \/ stage' = "done" /\ smooth' = smooth /\ target' = target
      \/ Asked = fs.blocks /\ stage' = "done" /\ target' = Asked /\ smooth' = smooth + 1
      \/ /\ Asked \notin {TooSmall, fs.blocks}
         /\ stage' = "resize2fs" /\ target' = Asked /\ smooth' = smooth
      \/ stage' = "resize2fs" /\ target' = Beyond /\ smooth' = -1
  BY DEF get_resize_stats, Asked, Whole
<1>5. ResizeTypeOK'
  BY <1>1, <1>3, <1>4 DEF ResizeTypeOK, ResizeTypes, TooSmall, Beyond
<1>6. Asked = fs.blocks => fs.blocks \in {Whole, Short} /\ Settled
  BY <1>1 DEF ResizeTypes, Settled, TooSmall
<1>7. smooth >= 2 => Asked \in {TooSmall, fs.blocks}
  BY <1>3 DEF Settled
<1> QED
  BY <1>1, <1>2, <1>3, <1>4, <1>5, <1>6, <1>7 DEF ResizeInv, OneOfTwo, TargetIsAsked

LEMMA QuietInv ==
    ASSUME ResizeInv, PowerOn \/ PowerOff \/ e2fsck \/ UNCHANGED resizeVars
    PROVE  ResizeInv'
<1>1. UNCHANGED <<partition, fs>> /\ target' = target /\ ResizeTypeOK
  BY DEF ResizeInv, PowerOn, PowerOff, e2fsck, resizeVars
<1>2. /\ Whole' = Whole /\ Short' = Short /\ Asked' = Asked /\ Settled' = Settled
  BY <1>1, SameSizes
<1>3. CASE UNCHANGED resizeVars
  BY <1>1, <1>2, <1>3 DEF ResizeInv, ResizeTypeOK, OneOfTwo, TargetIsAsked, resizeVars
<1>4. CASE PowerOn \/ PowerOff
  BY <1>1, <1>2, <1>4 DEF ResizeInv, ResizeTypeOK, OneOfTwo, TargetIsAsked, PowerOn, PowerOff
<1>5. CASE e2fsck
  <2>1. stage = "e2fsck" /\ stage' = "done" /\ smooth' \in {smooth + 1, 0} /\ smooth \in {-1, 0, 1}
    BY <1>1, <1>5 DEF e2fsck, ResizeInv, ResizeTypeOK
  <2> QED
    BY <1>1, <1>2, <2>1 DEF ResizeInv, ResizeTypeOK, OneOfTwo, TargetIsAsked
<1> QED
  BY <1>3, <1>4, <1>5

(* resize2fs, whether it succeeds, refuses or is cut off by the power.             *)
LEMMA Resize2fsInv == ASSUME ResizeInv, resize2fs PROVE ResizeInv'
<1>1. /\ ResizeTypeOK /\ ResizeTypes
      /\ stage = "resize2fs" /\ stage' = "e2fsck"
      /\ partition' = partition /\ target' = target
  BY TypesFollow DEF resize2fs, ResizeInv
<1>2. CASE target # Beyond /\ fs' = Grown(target) /\ UNCHANGED smooth
  <2>1. target = Asked /\ Asked \notin {TooSmall, fs.blocks} /\ smooth \in {0, 1}
    BY <1>1, <1>2 DEF ResizeInv, TargetIsAsked
  <2>2. /\ Grown(Asked).blocks = Asked
        /\ Grown(Asked) \in [blocks : Nat \ {0}, reserved : Nat]
    BY <1>1, <2>1, GrownIsAsked
  <2>3. ResizeTypeOK'
    BY <1>1, <1>2, <2>1, <2>2 DEF ResizeTypeOK
  <2>4. fs'.blocks \in {Whole', Short'}
    BY <1>1, <1>2, <2>1, <2>2 DEF ResizeTypes, Whole, Short
  <2>5. smooth = 1 => Settled'
    BY <1>1, <1>2, <2>1, <2>3, SecondSettles DEF ResizeInv, OneOfTwo
  <2> QED
    BY <1>1, <1>2, <2>1, <2>3, <2>4, <2>5 DEF ResizeInv, OneOfTwo, TargetIsAsked
<1>3. CASE UNCHANGED fs /\ smooth' = -1
  BY <1>1, <1>3 DEF ResizeInv, ResizeTypeOK, OneOfTwo, TargetIsAsked
<1> QED
  BY <1>2, <1>3 DEF resize2fs

LEMMA PowerCutInv == ASSUME ResizeInv, PowerCut PROVE ResizeInv'
<1>1. ResizeTypeOK
  BY DEF ResizeInv
<1>2. fs' \in [blocks : Nat \ {0}, reserved : Nat]
  <2>1. CASE PowerFails(fs)
    BY <1>1, <2>1 DEF PowerFails, ResizeTypeOK
  <2>2. CASE stage = "resize2fs" /\ target # Beyond /\ PowerFails(Grown(target))
    <3>1. target = Asked /\ Asked # TooSmall
      BY <2>2 DEF ResizeInv, TargetIsAsked
    <3> QED
      BY <1>1, <2>2, <3>1, GrownIsAsked DEF PowerFails
  <2> QED
    BY <2>1, <2>2 DEF PowerCut
<1>3. stage' = "off" /\ smooth' = 0 /\ UNCHANGED <<partition, target>>
  BY DEF PowerCut, PowerFails
<1> QED
  BY <1>1, <1>2, <1>3 DEF ResizeInv, ResizeTypeOK, OneOfTwo, TargetIsAsked

LEMMA ResizeInvNext == ResizeInv /\ [ResizeNext]_resizeVars => ResizeInv'
  BY GetStatsInv, QuietInv, Resize2fsInv, PowerCutInv DEF ResizeNext

(* Both halves of what main promises.                                          *)
LEMMA ResizeInvSettles == ResizeInv => ResizeSettles
<1> SUFFICES ASSUME ResizeInv PROVE ResizeSettles
  OBVIOUS
<1>1. ResizeTypes /\ smooth \in Int
  BY TypesFollow DEF ResizeInv, ResizeTypeOK
<1>2. stage = "resize2fs" => smooth < 2
  BY DEF ResizeInv, TargetIsAsked
<1>3. smooth > 0 => fs.blocks <= Whole
  BY <1>1 DEF ResizeInv, OneOfTwo, ResizeTypes
<1> QED
  BY <1>2, <1>3 DEF ResizeSettles, Whole

(* However large the partition, the image, the groups and the reserve are, and     *)
(* wherever boots fail or the power is cut: after two boots without a failure in    *)
(* a row main finds nothing to do, and after one the reserve is free.             *)
THEOREM Settles == ResizeSpec => []ResizeSettles
<1>1. ResizeSpec => []ResizeInv
  BY ResizeInvInit, ResizeInvNext, PTL DEF ResizeSpec
<1> QED
  BY <1>1, ResizeInvSettles, PTL
=============================================================================
