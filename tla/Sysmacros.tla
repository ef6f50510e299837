------------------------------ MODULE Sysmacros ------------------------------
(***************************************************************************)
(* compat/os/linux/sys/sysmacros.h: arithmetic on powers of two, as macros *)
(* over unsigned types.  An operand is given with the width of its type:   *)
(* the result of an operation is taken modulo 2 to the wider of the two,   *)
(* and a narrow operand is extended only after it was computed.            *)
(***************************************************************************)
EXTENDS Integers, Functions

U(w, n) == n % 2^w

\* The operators of C on the sets of bits that are 1
Bits(x) == {k \in 0 .. x : (x \div 2^k) % 2 = 1}
Number(bits) == SumFunction([k \in bits |-> 2^k])
x & y == Number(Bits(x) \cap Bits(y))
x | y == Number(Bits(x) \cup Bits(y))
x ^^ y == Number((Bits(x) \cup Bits(y)) \ (Bits(x) \cap Bits(y)))

Wider(v, w) == IF v < w THEN w ELSE v

DIV_ROUND_UP(w, n, d) == U(w, n + d - 1) \div d

(***************************************************************************)
(* x of width wx, align of width wa                                        *)
(***************************************************************************)
P2CROSS(x, y, align) == (x ^^ y) > align - 1
P2ROUNDUP(x, wx, align, wa) ==
  U(Wider(wx, wa), (U(wx, x - 1) | U(wa, align - 1)) + 1)
P2BOUNDARY(w, off, len, align) == (off ^^ U(w, off + len - 1)) > align - 1
P2PHASE(x, align) == x & (align - 1)
P2NPHASE(x, wx, align) == U(wx, -x) & (align - 1)
ISP2(w, x) == (x & U(w, x - 1)) = 0

\* Both operands become a uintptr_t, of width wp: an alignment that has none of
\* its bits there becomes 0, and the mask all ones.
IS_P2ALIGNED(v, a, wp) == (U(wp, v) & U(wp, U(wp, a) - 1)) = 0

(***************************************************************************)
(* The typed versions: every operand is converted to the type first        *)
(***************************************************************************)
Ones(w) == 2^w - 1
P2ALIGN_TYPED(x, align, w) == U(w, x) & U(w, -align)
P2PHASE_TYPED(x, align, w) == U(w, x) & U(w, align - 1)
P2NPHASE_TYPED(x, align, w) == U(w, -x) & U(w, align - 1)

\* Mutant: the value is not decremented before its low bits are filled.
P2ROUNDUP_TYPED_OffByOne(x, align, w) == U(w, (U(w, x) | U(w, align - 1)) + 1)

P2ROUNDUP_TYPED(x, align, w) == U(w, (U(w, x - 1) | U(w, align - 1)) + 1)
P2END_TYPED(x, align, w) == U(w, -((Ones(w) - U(w, x)) & U(w, -align)))
P2PHASEUP_TYPED(x, align, phase, w) == U(w, phase - (U(w, phase - x) & U(w, -align)))
P2CROSS_TYPED(x, y, align, w) == (U(w, x) ^^ U(w, y)) > U(w, align) - 1
P2SAMEHIGHBIT_TYPED(x, y, w) == (U(w, x) ^^ U(w, y)) < (U(w, x) & U(w, y))
=============================================================================
