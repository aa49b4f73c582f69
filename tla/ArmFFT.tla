-------------------------------- MODULE ArmFFT --------------------------------
(***************************************************************************)
(* The specification structures of the FFTs of openmax_dl (dl/sp/src): a       *)
(* caller asks omxSP_FFTGetBufSize_* how much memory a transform of length     *)
(* 2^order needs, takes that much anywhere, and omxSP_FFTInit_* lays out the    *)
(* twiddle factors and a ping-pong buffer in it, both on 32 byte boundaries.   *)
(*                                                                         *)
(* The tables hold one octant of (-cos, sin), the first 2^TableOrder / 8 + 1    *)
(* steps of a turn; FFTInit derives the rest of the circle by symmetry.  The    *)
(* cosine is modelled by the wave of straight lines with the same symmetries   *)
(* and zeros, which takes a value twice only where the cosine does: a factor    *)
(* is right for one iff it is right for the other.                           *)
(***************************************************************************)
EXTENDS Integers

CONSTANTS
    TableOrder,      \* TWIDDLE_TABLE_ORDER, and the 12 of the integer versions
    Saturated,       \* the last table entry whose cosine is -32768 in 16 bits
    Orders,          \* the orders callers ask for
    Addresses        \* where the caller's memory begins

ASSUME FFTAssumption ==
    /\ TableOrder \in Nat /\ TableOrder >= 3 /\ Saturated \in Nat
    /\ Orders \subseteq Nat /\ Addresses \subseteq Nat

Complex  == {"C_SC16", "C_SC32", "C_FC32"}
Real     == {"R_S16S32", "R_S32", "R_F32"}
Variants == Complex \cup Real

Quarter == 2^(TableOrder - 2)        \* a quarter of a turn, and the value of cos(0)
BadArg  == -1                        \* OMX_Sts_BadArgErr

-----------------------------------------------------------------------------
(*                            The sizes                                     *)

SpecBytes == 16                      \* N and three pointers, on a 32-bit ARM

InTable(order) == order \in 1 .. TableOrder

(* sizeof(OMX_SC16); OMX_SC32 and OMX_FC32 have the same size.                *)
ElementBytes(v) == IF v = "C_SC16" THEN 4 ELSE 8

(* 3N/4 factors, and N elements to go back and forth between.                 *)
ComplexBytes(bytes, N) == SpecBytes + bytes * ((3 * N) \div 4) + bytes * N + 62

FFTGetBufSize_C_SC16(order) == IF order = 0 THEN SpecBytes ELSE ComplexBytes(4, 2^order)

FFTGetBufSize_C_SC32(order) == IF order = 0 THEN SpecBytes ELSE ComplexBytes(8, 2^order)

FFTGetBufSize_C_FC32(order) == IF InTable(order) THEN FFTGetBufSize_C_SC32(order) ELSE BadArg

(* 3/4(N/2) + N/4 factors, and 2N real elements.                             *)
RealBytes(N) == SpecBytes + 8 * ((5 * N) \div 8) + 4 * (2 * N) + 62

FFTGetBufSize_R_S32(order) == IF order = 0 THEN SpecBytes + 8 ELSE RealBytes(2^order)

FFTGetBufSize_R_S16S32(order) == IF order = 0 THEN SpecBytes + 8 ELSE RealBytes(2^order)

FFTGetBufSize_R_F32(order) == IF InTable(order) THEN FFTGetBufSize_R_S32(order) ELSE BadArg

BufSize(v, order) ==
    CASE v = "C_SC16"   -> FFTGetBufSize_C_SC16(order)
      [] v = "C_SC32"   -> FFTGetBufSize_C_SC32(order)
      [] v = "C_FC32"   -> FFTGetBufSize_C_FC32(order)
      [] v = "R_S16S32" -> FFTGetBufSize_R_S16S32(order)
      [] v = "R_S32"    -> FFTGetBufSize_R_S32(order)
      [] v = "R_F32"    -> FFTGetBufSize_R_F32(order)

-----------------------------------------------------------------------------
(*                            The layout                                    *)

(* Mutant: a pointer on the boundary is moved as well.                        *)
Aligned_Always(p) == p + (32 - (p % 32))

Aligned(p) == IF p % 32 = 0 THEN p ELSE p + (32 - (p % 32))

TwiddleCount(v, N) == IF v \in Complex THEN (3 * N) \div 4 ELSE (5 * N) \div 8

Layout(v, p, N) ==
    LET pTwiddle == Aligned(p + SpecBytes)
    IN  [N |-> N, pTwiddle |-> pTwiddle,
         pBuf |-> Aligned(pTwiddle + ElementBytes(v) * TwiddleCount(v, N))]

(* Order 0: the complex versions set N and nothing else.                      *)
TrivialLayout(v, p) == [N |-> 1, pTwiddle |-> 0, pBuf |-> IF v \in Real THEN p + SpecBytes ELSE 0]

-----------------------------------------------------------------------------
(*                          The twiddle factors                             *)

Factor(re, im) == [re |-> re, im |-> im]

(* armSP_FFT_S32TwiddleTable and armSP_FFT_F32TwiddleTable: the j-th pair.      *)
TableEntry(j) == Factor(j - Quarter, j)

(* -x where x is stored in v's type: in 16 bits the opposite of -32768 is        *)
(* itself, and so many entries round to it.                                  *)
Minus(v, x) == IF v = "C_SC16" /\ x <= Saturated - Quarter THEN -Quarter ELSE -x

(* Mutant: the factors of the third octant are those of the second.            *)
Octants_Swapped(v, M, i, t) ==
    {<<i, t>>,
     <<2*M - i, Factor(-t.im, Minus(v, t.re))>>, <<2*M + i, Factor(-t.im, Minus(v, t.re))>>,
     <<4*M - i, Factor(Minus(v, t.re), t.im)>>,  <<4*M + i, Factor(Minus(v, t.re), -t.im)>>,
     <<6*M - i, Factor(t.im, t.re)>>}

(* The six factors written for one entry of the table, in an array of which      *)
(* 2M are a quarter of a turn.                                              *)
Octants(v, M, i, t) ==
    {<<i, t>>,
     <<2*M - i, Factor(-t.im, Minus(v, t.re))>>, <<2*M + i, Factor(t.im, Minus(v, t.re))>>,
     <<4*M - i, Factor(Minus(v, t.re), t.im)>>,  <<4*M + i, Factor(Minus(v, t.re), -t.im)>>,
     <<6*M - i, Factor(t.im, t.re)>>}

Start == Factor(-Quarter, 0)         \* the table's first pair
xNeg  == Quarter                     \* 0x7FFF, 0x7FFFFFFF or 1

(* The array of a complex transform of 2^order: what is written where.          *)
Circle(v, order) ==
    LET M    == 2^order \div 8
        step == 2^(TableOrder - order)
    IN  IF order >= 3
        THEN {<<0, Start>>, <<2*M, Factor(0, xNeg)>>, <<4*M, Factor(xNeg, 0)>>}
             \cup UNION {Octants(v, M, i, TableEntry(i * step)) : i \in 1 .. M}
        ELSE IF order = 2 THEN {<<0, Start>>, <<1, Factor(0, xNeg)>>, <<2, Factor(xNeg, 0)>>}
        ELSE IF order = 1 THEN {<<0, Start>>}
        ELSE {}

(* pTwiddle1 .. pTwiddle4: the odd factors of N for the final fix-up of a real   *)
(* transform, behind the circle of N/2: two pointers go up and two go down.     *)
FixUp(order) ==
    LET N    == 2^order
        step == 2^(TableOrder - order)
        from == (3 * N) \div 8
        Up(i) == (i - 1) \div 2
    IN  IF order >= 3
        THEN UNION {LET t == TableEntry(i * step)
                    IN  {<<from + Up(i), t>>,
                         <<from + N \div 8 - 1 - Up(i), Factor(-t.im, -t.re)>>,
                         <<from + N \div 8 + Up(i), Factor(t.im, -t.re)>>,
                         <<from + N \div 4 - 1 - Up(i), Factor(-t.re, t.im)>>}
                    : i \in {k \in 1 .. (N \div 8) : k % 2 = 1}}
        ELSE IF order = 2 THEN {<<from, Factor(0, xNeg)>>}
        ELSE {}

-----------------------------------------------------------------------------
(*                          A caller at work                                *)

VARIABLES
    variant, order,
    size,            \* what GetBufSize reported, 0 before
    address,         \* of the memory the caller has taken
    spec,            \* what FFTInit wrote to the structure
    twiddles         \* the factors it wrote: pairs of an index and a value

fftVars == <<variant, order, size, address, spec, twiddles>>

None == [N |-> 0, pTwiddle |-> 0, pBuf |-> 0]

(* "order ... valid in the range [0,12]": only the float versions check it.     *)
FFTStart ==
    /\ variant \in Variants /\ order \in Orders
    /\ order > TableOrder => variant \in {"C_FC32", "R_F32"}
    /\ size = 0 /\ address = 0 /\ spec = None /\ twiddles = {}

GetBufSize ==
    /\ size = 0
    /\ size' = BufSize(variant, order)
    /\ UNCHANGED <<variant, order, address, spec, twiddles>>

Initialise(p, layout, factors) ==
    /\ size > 0 /\ spec = None
    /\ address' = p
    /\ spec' = layout
    /\ twiddles' = factors
    /\ UNCHANGED <<variant, order, size>>

FFTInit_Trivial(p) ==
    /\ order = 0 /\ variant \notin {"C_FC32", "R_F32"}
    /\ Initialise(p, TrivialLayout(variant, p), {})

FFTInit_C_SC16(p) ==
    /\ variant = "C_SC16" /\ order > 0
    /\ Initialise(p, Layout(variant, p, 2^order), Circle(variant, order))

FFTInit_C_SC32(p) ==
    /\ variant = "C_SC32" /\ order > 0
    /\ Initialise(p, Layout(variant, p, 2^order), Circle(variant, order))

FFTInit_C_FC32(p) ==
    /\ variant = "C_FC32" /\ InTable(order)
    /\ Initialise(p, Layout(variant, p, 2^order), Circle(variant, order))

FFTInit_R_S16S32(p) ==
    /\ variant = "R_S16S32" /\ order > 0
    /\ Initialise(p, Layout(variant, p, 2^order), Circle(variant, order - 1) \cup FixUp(order))

FFTInit_R_S32(p) ==
    /\ variant = "R_S32" /\ order > 0
    /\ Initialise(p, Layout(variant, p, 2^order), Circle(variant, order - 1) \cup FixUp(order))

FFTInit_R_F32(p) ==
    /\ variant = "R_F32" /\ InTable(order)
    /\ Initialise(p, Layout(variant, p, 2^order), Circle(variant, order - 1) \cup FixUp(order))

FFTNext ==
    \/ GetBufSize
    \/ \E p \in Addresses :
        \/ FFTInit_Trivial(p)
        \/ FFTInit_C_SC16(p) \/ FFTInit_C_SC32(p) \/ FFTInit_C_FC32(p)
        \/ FFTInit_R_S16S32(p) \/ FFTInit_R_S32(p) \/ FFTInit_R_F32(p)

FFTSpec == FFTStart /\ [][FFTNext]_fftVars

-----------------------------------------------------------------------------
BufferBytes == IF variant \in Complex THEN ElementBytes(variant) * spec.N ELSE 8 * spec.N

(* The size that is reported is enough wherever the memory begins: the factors  *)
(* and the buffer lie behind the structure, on 32 byte boundaries, do not       *)
(* overlap, and end inside the memory.                                      *)
LayoutFits ==
    spec.N > 1 =>
        /\ address + SpecBytes <= spec.pTwiddle
        /\ spec.pTwiddle % 32 = 0 /\ spec.pBuf % 32 = 0
        /\ spec.pTwiddle + ElementBytes(variant) * TwiddleCount(variant, spec.N) <= spec.pBuf
        /\ spec.pBuf + BufferBytes <= address + size

(* The wave with a quarter's symmetries, at a angle of 0 to 3/4 of a turn.       *)
Cosine(a) == IF a <= 2 * Quarter THEN Quarter - a ELSE a - 3 * Quarter
Sine(a)   == IF a <= Quarter THEN a ELSE 2 * Quarter - a
Exact(a)  == Factor(-Cosine(a), Sine(a))

(* The angle of the k-th factor: of N for a complex transform, of N/2 for a      *)
(* real one, whose last N/4 are the odd ones of N.                           *)
Angle(k) ==
    LET turn == 4 * Quarter
        half == (3 * spec.N) \div 8
    IN  IF variant \in Complex THEN (k * turn) \div spec.N
        ELSE IF k < half THEN (2 * k * turn) \div spec.N
        ELSE ((2 * (k - half) + 1) * turn) \div spec.N

(* Every factor of the array is written, with the value it should have, and     *)
(* none is written outside it.  (Of order 1, a real transform uses none.)        *)
TwiddlesExact ==
    spec.N > 1 =>
        /\ \A w \in twiddles : w[2] = Exact(Angle(w[1]))
        /\ {w[1] : w \in twiddles} =
               IF variant \in Real /\ spec.N = 2 THEN {} ELSE 0 .. TwiddleCount(variant, spec.N) - 1

(* In 16 bits the table is exact up to order 10: the steps of a longer one are   *)
(* so small that the cosines of the first are -32768, which has no opposite.    *)
TwiddlesRight == (variant = "C_SC16" => order <= 10) => TwiddlesExact
=============================================================================
