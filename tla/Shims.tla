-------------------------------- MODULE Shims --------------------------------
(***************************************************************************)
(* The macros and inline functions of the compatibility headers that keep  *)
(* no state: a caller passes arguments and gets an answer, which is held   *)
(* against what the answer means.                                          *)
(***************************************************************************)
EXTENDS Sysmacros, SplAssert, Wrappers, DiskLabel

CONSTANTS Narrow, Wide,   \* widths of two unsigned types, 32 and 64 in the code
          Operands,       \* of assertions: integers of 64 bits, signed or not
          Errnos,         \* what a call of the C library may fail with
          Extents         \* addresses and sizes

ShimsAssumption ==
  /\ Narrow \in Nat \ {0} /\ Wide \in Nat /\ Narrow < Wide
  /\ Operands \subseteq -Half64 .. Mod64 - 1
  /\ Errnos \subseteq Nat \ {0} /\ Extents \subseteq Nat

VARIABLES call, ret

vars == <<call, ret>>

Nothing == [fn |-> "none"]

Init == call = Nothing /\ ret = 0

Widths == {Narrow, Wide}
Of(w) == 0 .. 2^w - 1
Powers(w) == {2^k : k \in 0 .. w - 1}

(***************************************************************************)
(* Powers of two                                                           *)
(***************************************************************************)
\* The width of uintptr_t
PtrWidth(lp) == IF lp THEN Wide ELSE Narrow

Plain(fn, x, wx, y, a, wa, lp) ==
  CASE fn = "P2ROUNDUP" -> P2ROUNDUP(x, wx, a, wa)
    [] fn = "P2PHASE" -> P2PHASE(x, a)
    [] fn = "P2NPHASE" -> P2NPHASE(x, wx, a)
    [] fn = "IS_P2ALIGNED" -> IS_P2ALIGNED(x, a, PtrWidth(lp))
    [] fn = "P2CROSS" -> P2CROSS(x, y, a)
    [] fn = "P2BOUNDARY" -> P2BOUNDARY(wx, x, y, a)
    [] fn = "ISP2" -> ISP2(wx, x)
    [] fn = "DIV_ROUND_UP" -> DIV_ROUND_UP(wx, x, a)

Typed(fn, x, y, a, w) ==
  CASE fn = "P2ALIGN" -> P2ALIGN_TYPED(x, a, w)
    [] fn = "P2PHASE" -> P2PHASE_TYPED(x, a, w)
    [] fn = "P2NPHASE" -> P2NPHASE_TYPED(x, a, w)
    [] fn = "P2ROUNDUP" -> P2ROUNDUP_TYPED(x, a, w)
    [] fn = "P2END" -> P2END_TYPED(x, a, w)
    [] fn = "P2PHASEUP" -> P2PHASEUP_TYPED(x, a, y, w)
    [] fn = "P2CROSS" -> P2CROSS_TYPED(x, y, a, w)
    [] fn = "P2SAMEHIGHBIT" -> P2SAMEHIGHBIT_TYPED(x, y, w)

PlainFns == {"P2ROUNDUP", "P2PHASE", "P2NPHASE", "IS_P2ALIGNED", "P2CROSS", "P2BOUNDARY",
             "ISP2", "DIV_ROUND_UP"}
TypedFns == {"P2ALIGN", "P2PHASE", "P2NPHASE", "P2ROUNDUP", "P2END", "P2PHASEUP", "P2CROSS",
             "P2SAMEHIGHBIT"}

CallPlain(fn, x, wx, y, a, wa, lp) ==
  /\ call' = [fn |-> fn, typed |-> FALSE, x |-> x, w |-> wx, y |-> y, a |-> a, wa |-> wa,
              lp64 |-> lp]
  /\ ret' = Plain(fn, x, wx, y, a, wa, lp)

CallTyped(fn, x, y, a, w) ==
  /\ call' = [fn |-> fn, typed |-> TRUE, x |-> x, w |-> w, y |-> y, a |-> a, wa |-> w]
  /\ ret' = Typed(fn, x, y, a, w)

(***************************************************************************)
(* Assertions, in both builds and with libspl_set_assert_ok()              *)
(***************************************************************************)
Verdict(fn, lp64, l, op, r) ==
  CASE fn = "VERIFY" -> VERIFY(l)
    [] fn = "VERIFY3B" -> VERIFY3B(l, op, r)
    [] fn = "VERIFY3S" -> VERIFY3S(l, op, r)
    [] fn = "VERIFY3U" -> VERIFY3U(l, op, r)
    [] fn = "VERIFY3P" -> VERIFY3P(lp64, l, op, r)
    [] fn = "VERIFY0" -> VERIFY0(l)
    [] fn = "VERIFY0P" -> VERIFY0P(lp64, l)
    [] fn = "IMPLY" -> IMPLY(l, r)
    [] fn = "EQUIV" -> EQUIV(l, r)

VerifyFns == {"VERIFY", "VERIFY3B", "VERIFY3S", "VERIFY3U", "VERIFY3P", "VERIFY0", "VERIFY0P"}
AssertFns == VerifyFns \cup {"IMPLY", "EQUIV"}

CallAssert(fn, assert, ndebug, lp64, ok, l, op, r) ==
  /\ call' = [fn |-> "assert", macro |-> fn, off |-> assert /\ ndebug, lp64 |-> lp64,
              ok |-> ok, l |-> l, op |-> op, r |-> r]
  /\ LET v == Verdict(fn, lp64, l, op, r)
     IN  ret' = libspl_assertf(ok, IF assert THEN ASSERT(ndebug, v) ELSE v)

(***************************************************************************)
(* The wrappers, with every way the calls behind them may go               *)
(***************************************************************************)
StackEnv ==
  [getattr : Errnos \cup {0}, getstack : Errnos \cup {0}, low : Extents, size : Extents]
StatEnv == [fstat : {0, -1}, blk : BOOLEAN, ioctl : {0, -1}, bytes : Extents]

\* What is in the structure of the caller before
Untouched == [ss_sp |-> -1, ss_size |-> -1, ss_flags |-> -1]
Unfilled == [blk |-> FALSE, st_size |-> -1]

CallStack(env) ==
  /\ call' = [fn |-> "stack", env |-> env]
  /\ ret' = thr_stksegment(env, Untouched)

CallStat(env) ==
  /\ call' = [fn |-> "stat", env |-> env] /\ ret' = fstat64_blk(env, Unfilled)

(***************************************************************************)
(* Structures for the disk                                                 *)
(***************************************************************************)
CallLabel(format) ==
  /\ call' = [fn |-> "label", format |-> format] /\ ret' = dk_label(format)

CallSector(s) ==
  /\ call' = [fn |-> "sector", of |-> s]
  /\ ret' = IF s = "mboot" THEN mboot ELSE dk_devid

CallChecksum(c) ==
  /\ call' = [fn |-> "checksum", c |-> c]
  /\ ret' = DKD_GETCHKSUM(DKD_FORMCHKSUM(c))

Next ==
  /\ call = Nothing
  /\ \/ \E w, wa \in Widths, fn \in PlainFns, lp \in BOOLEAN :
          \E x, y \in Of(w), a \in Powers(wa) : CallPlain(fn, x, w, y, a, wa, lp)
     \/ \E w \in Widths, fn \in TypedFns :
          \E x, y \in Of(w), a \in Powers(w) : CallTyped(fn, x, y, a, w)
     \/ \E fn \in AssertFns, ndebug, lp64, ok \in BOOLEAN, op \in {"==", "<", ">="} :
          \E l, r \in Operands, assert \in IF fn \in VerifyFns THEN BOOLEAN ELSE {TRUE} :
            CallAssert(fn, assert, ndebug, lp64, ok, l, op, r)
     \/ \E env \in StackEnv : CallStack(env)
     \/ \E env \in StatEnv : CallStat(env)
     \/ \E format \in {16, 8} : CallLabel(format)
     \/ \E s \in {"mboot", "devid"} : CallSector(s)
     \/ \E c \in 0 .. Byte4 - 1 : CallChecksum(c)

Spec == Init /\ [][Next]_vars

(***************************************************************************)
(* What the answers mean                                                   *)
(***************************************************************************)
HighBit(x) == CHOOSE k \in 0 .. x : 2^k <= x /\ x < 2^(k + 1)

Meaning(c) ==
  LET x == c.x y == c.y a == c.a w == c.w
      up == (-x) % a
  IN  CASE c.fn = "P2ALIGN" -> x - (x % a)
        [] c.fn = "P2PHASE" -> x % a
        [] c.fn = "P2NPHASE" -> up
        [] c.fn = "P2ROUNDUP" -> U(w, x + up)
        [] c.fn = "P2END" -> U(w, x - (x % a) + a)
        [] c.fn = "P2PHASEUP" -> U(w, x + ((y - x) % a))
        [] c.fn = "P2CROSS" -> x \div a # y \div a
        [] c.fn = "P2BOUNDARY" -> x \div a # (x + y - 1) \div a
        [] c.fn = "P2SAMEHIGHBIT" -> HighBit(x) = HighBit(y)
        [] c.fn = "IS_P2ALIGNED" -> x % a = 0
        [] c.fn = "ISP2" -> x = 0 \/ \E k \in 0 .. w - 1 : x = 2^k
        [] c.fn = "DIV_ROUND_UP" -> (x + up) \div a

\* Where a macro may be used: the alignment is not wider than the value, nor
\* for IS_P2ALIGNED() than a pointer, a range has a first and a last byte, and
\* the sum does not wrap.
Usable(c) ==
  /\ ~c.typed => c.a < 2^c.w
  /\ ~c.typed /\ c.fn = "P2ROUNDUP" => c.wa <= c.w
  /\ c.fn = "IS_P2ALIGNED" => c.a < 2^PtrWidth(c.lp64)
  /\ c.fn = "P2PHASEUP" => c.y < c.a
  /\ c.fn = "P2BOUNDARY" => c.y >= 1 /\ c.x + c.y - 1 < 2^c.w
  /\ c.fn = "P2SAMEHIGHBIT" => c.x > 0 /\ c.y > 0
  /\ c.fn = "DIV_ROUND_UP" => c.x + c.a - 1 < 2^c.w

\* The typed macros are right for every value of their type, at both ends of
\* its range; the plain ones where they may be used, which for IS_P2ALIGNED()
\* takes an alignment that fits into a pointer.
P2Exact == call.fn \in PlainFns \cup TypedFns /\ Usable(call) => ret = Meaning(call)

\* The lowest value of the type a macro compares in, and how many it has.
TypeOf(c) ==
  CASE c.macro = "VERIFY3S" -> [low |-> -Half64, size |-> Mod64]
    [] c.macro = "VERIFY3U" -> [low |-> 0, size |-> Mod64]
    [] c.macro = "VERIFY3B" -> [low |-> 0, size |-> Mod32]
    [] c.macro \in {"VERIFY3P", "VERIFY0P"} -> [low |-> 0, size |-> ModPtr(c.lp64)]

\* What n is in a type: the one value of the type that is n or a multiple of
\* its size away from n, as the set of that value.
ValueIn(t, n) == {v \in t.low .. t.low + t.size - 1 : (v - n) % t.size = 0}

Holds(c) ==
  CASE c.macro = "VERIFY" -> c.l # 0
    [] c.macro = "VERIFY0" -> c.l = 0
    [] c.macro = "VERIFY0P" -> 0 \in ValueIn(TypeOf(c), c.l)
    [] c.macro = "IMPLY" -> c.l # 0 => c.r # 0
    [] c.macro = "EQUIV" -> c.l # 0 <=> c.r # 0
    [] OTHER -> \E l \in ValueIn(TypeOf(c), c.l), r \in ValueIn(TypeOf(c), c.r) :
                  Compare(l, c.op, r)

\* A comparison macro stops the program exactly when the comparison is false
\* between the values that both operands have in its type: the operands
\* themselves where the type has them, and otherwise, for a negative operand of
\* VERIFY3U() or a wide one of VERIFY3P() on an ILP32 build, what is left modulo
\* the size of the type.  VERIFY0() lets no error code through, and ASSERT()
\* under NDEBUG, and nothing else, never stops.
StopsWhenFalse ==
  call.fn = "assert" =>
    ret = IF call.off \/ Holds(call) THEN "goes on"
          ELSE IF call.ok THEN "reported" ELSE "aborted"

\* A wrapper reports success exactly when every call behind it succeeded: then
\* the stack ends at its high address and the size is that of the file or the
\* device.  A failing thr_stksegment() leaves the caller's structure as it was,
\* and so does fstat64_blk() when fstat64() fails; when the ioctl() fails the
\* structure has been filled, with the size 0, and only the result tells that
\* this is not the size of the device.
WrappersHonest ==
  /\ call.fn = "stack" =>
       /\ (ret.rc = 0) = (call.env.getattr = 0 /\ call.env.getstack = 0)
       /\ ret.sp = IF ret.rc = 0
                   THEN [ss_sp |-> call.env.low + call.env.size,
                         ss_size |-> call.env.size, ss_flags |-> 0]
                   ELSE Untouched
  /\ call.fn = "stat" =>
       /\ (ret.rc = 0) = (call.env.fstat = 0 /\ (call.env.blk => call.env.ioctl = 0))
       /\ ret.st = IF call.env.fstat # 0 THEN Unfilled
                   ELSE [blk |-> call.env.blk,
                         st_size |-> IF ret.rc = 0 THEN call.env.bytes ELSE 0]

\* "sizeof (struct dk_label) should be 512": each structure fills its sector
\* and no more, with what identifies it in the last bytes and the partition
\* table where the BIOS looks for it, gaps the compiler leaves included.
SectorsFilled ==
  /\ call.fn = "label" =>
       ret.size = DK_LABEL_SIZE /\ ret.at["dkl_magic"] = 508 /\ ret.at["dkl_cksum"] = 510
  /\ call.fn = "sector" => ret.size = 512
  /\ call.fn = "sector" /\ call.of = "mboot" =>
       ret.at["parts"] = FDISK_PART_TABLE_START /\ ret.at["signature"] = 510

\* The checksum of a device id comes back from its four bytes, once it is
\* unsigned again: the shift of the first byte reaches the sign.
ChecksumKept == call.fn = "checksum" => ret % Byte4 = call.c
=============================================================================
