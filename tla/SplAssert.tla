------------------------------ MODULE SplAssert ------------------------------
(***************************************************************************)
(* compat/assert.h: which of its macros let the program go on.  The        *)
(* surgeon guards every write of its second pass with VERIFY0().  An       *)
(* operand is an integer of the widest C type; the macro converts it to    *)
(* its own type before it compares.                                        *)
(***************************************************************************)
EXTENDS Integers

CONSTANTS Mod64,   \* the number of values of 64 bits: 2^64 in the code
          Mod32    \* 2^32: an int, a boolean_t, and a pointer of an ILP32 build

SplAssertAssumption ==
  /\ Mod64 \in Nat /\ Mod32 \in Nat /\ 2 < Mod32
  /\ \E half \in 0 .. Mod64 : Mod64 = 2 * half /\ Mod32 <= half

Half64 == Mod64 \div 2
ModPtr(lp64) == IF lp64 THEN Mod64 ELSE Mod32

uint64(n) == n % Mod64
int64(n) == ((n + Half64) % Mod64) - Half64
boolean_t(n) == n % Mod32
uintptr(lp64, n) == n % ModPtr(lp64)

Compare(l, op, r) == CASE op = "==" -> l = r [] op = "<" -> l < r [] op = ">=" -> l >= r

(***************************************************************************)
(* TRUE: the program goes on; FALSE: libspl_assertf() is called            *)
(***************************************************************************)
VERIFY(cond) == cond # 0
VERIFY3B(l, op, r) == Compare(boolean_t(l), op, boolean_t(r))

\* Mutant: the operands are compared without their signs.
VERIFY3S_Unsigned(l, op, r) == Compare(uint64(l), op, uint64(r))

VERIFY3S(l, op, r) == Compare(int64(l), op, int64(r))
VERIFY3U(l, op, r) == Compare(uint64(l), op, uint64(r))
VERIFY3P(lp64, l, op, r) == Compare(uintptr(lp64, l), op, uintptr(lp64, r))
VERIFY0(l) == uint64(l) = 0
VERIFY0P(lp64, l) == uintptr(lp64, l) = 0

\* IMPLY() and EQUIV() exist only as assertions.
IMPLY(a, b) == a = 0 \/ b # 0
EQUIV(a, b) == (a # 0) = (b # 0)

\* ASSERT*(): with NDEBUG the operands only go through sizeof.
ASSERT(ndebug, verdict) == ndebug \/ verdict

\* libspl_assertf() aborts, unless libspl_set_assert_ok() was called.
libspl_assertf(assert_ok, verdict) ==
  IF verdict THEN "goes on" ELSE IF assert_ok THEN "reported" ELSE "aborted"
=============================================================================
