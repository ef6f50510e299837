------------------------------ MODULE Byteorder ------------------------------
(***************************************************************************)
(* compat/os/linux/sys/byteorder.h: a word is written to memory on one     *)
(* machine and read on another, each of either byte order.                 *)
(*                                                                         *)
(* A word is the sequence of its bytes, the least significant first, so    *)
(* that (hi << n) | lo is lo \o hi and a mask is a prefix.                 *)
(***************************************************************************)
EXTENDS Integers, Sequences, SequencesExt

CONSTANTS Words,   \* the words that are transferred, of any bytes
          Pad      \* what is in memory around the word

ByteorderAssumption == Words \subseteq Seq(Nat)

VARIABLES stage, order, value, at, buf, got

vars == <<stage, order, value, at, buf, got>>

Shr(x, n) == SubSeq(x, n + 1, Len(x))

BSWAP_8(x) == SubSeq(x, 1, 1)
BSWAP_16(x) == BSWAP_8(Shr(x, 1)) \o BSWAP_8(x)
BSWAP_32(x) == BSWAP_16(Shr(x, 2)) \o BSWAP_16(x)
BSWAP_64(x) == BSWAP_32(Shr(x, 4)) \o BSWAP_32(x)

BSWAP(n, x) ==
  CASE n = 1 -> BSWAP_8(x) [] n = 2 -> BSWAP_16(x) [] n = 4 -> BSWAP_32(x)
    [] n = 8 -> BSWAP_64(x)
BMASK(n, x) == SubSeq(x, 1, n)

\* BE_n() and LE_n() on a machine that is big-endian or not
BE(big, n, x) == IF big THEN BMASK(n, x) ELSE BSWAP(n, x)
LE(big, n, x) == IF big THEN BSWAP(n, x) ELSE BMASK(n, x)

\* htons() and htonl(): macros on a big-endian machine, functions of the C
\* library on the other, where they take their argument modulo 2^16 or 2^32.
hton(big, n, x) == IF big THEN x ELSE Reverse(BMASK(n, x))

htonll(big, x) == IF big THEN x ELSE hton(big, 4, Shr(x, 4)) \o hton(big, 4, x)

\* Mutant: the halves keep their places.
ntohll_HalvesKept(big, x) ==
  IF big THEN x ELSE hton(big, 4, x) \o hton(big, 4, Shr(x, 4))

ntohll(big, x) == IF big THEN x ELSE hton(big, 4, Shr(x, 4)) \o hton(big, 4, x)

(***************************************************************************)
(* Unaligned reads and writes, byte by byte                                *)
(***************************************************************************)
BE_IN8(m, a) == <<m[a]>>
BE_IN16(m, a) == BE_IN8(m, a + 1) \o BE_IN8(m, a)
BE_IN32(m, a) == BE_IN16(m, a + 2) \o BE_IN16(m, a)
BE_IN64(m, a) == BE_IN32(m, a + 4) \o BE_IN32(m, a)

LE_IN8(m, a) == <<m[a]>>
LE_IN16(m, a) == LE_IN8(m, a) \o LE_IN8(m, a + 1)
LE_IN32(m, a) == LE_IN16(m, a) \o LE_IN16(m, a + 2)
LE_IN64(m, a) == LE_IN32(m, a) \o LE_IN32(m, a + 4)

BE_OUT8(m, a, y) == [m EXCEPT ![a] = y[1]]
BE_OUT16(m, a, y) == BE_OUT8(BE_OUT8(m, a + 1, y), a, Shr(y, 1))
BE_OUT32(m, a, y) == BE_OUT16(BE_OUT16(m, a + 2, y), a, Shr(y, 2))
BE_OUT64(m, a, y) == BE_OUT32(BE_OUT32(m, a + 4, y), a, Shr(y, 4))

\* Mutant: the high half goes one byte too far.
LE_OUT32_Overruns(m, a, y) ==
  LET low == [m EXCEPT ![a] = y[1], ![a + 1] = y[2]]
  IN  [low EXCEPT ![a + 3] = y[3], ![a + 4] = y[4]]

LE_OUT8(m, a, y) == [m EXCEPT ![a] = y[1]]
LE_OUT16(m, a, y) == LE_OUT8(LE_OUT8(m, a, y), a + 1, Shr(y, 1))
LE_OUT32(m, a, y) == LE_OUT16(LE_OUT16(m, a, y), a + 2, Shr(y, 2))
LE_OUT64(m, a, y) == LE_OUT32(LE_OUT32(m, a, y), a + 4, Shr(y, 4))

In(ord, n, m, a) ==
  IF ord = "be"
  THEN CASE n = 1 -> BE_IN8(m, a) [] n = 2 -> BE_IN16(m, a)
         [] n = 4 -> BE_IN32(m, a) [] n = 8 -> BE_IN64(m, a)
  ELSE CASE n = 1 -> LE_IN8(m, a) [] n = 2 -> LE_IN16(m, a)
         [] n = 4 -> LE_IN32(m, a) [] n = 8 -> LE_IN64(m, a)

Out(ord, n, m, a, y) ==
  IF ord = "be"
  THEN CASE n = 1 -> BE_OUT8(m, a, y) [] n = 2 -> BE_OUT16(m, a, y)
         [] n = 4 -> BE_OUT32(m, a, y) [] n = 8 -> BE_OUT64(m, a, y)
  ELSE CASE n = 1 -> LE_OUT8(m, a, y) [] n = 2 -> LE_OUT16(m, a, y)
         [] n = 4 -> LE_OUT32(m, a, y) [] n = 8 -> LE_OUT64(m, a, y)

(***************************************************************************)
(* A transfer.  The machine stores and loads a register as its byte order  *)
(* says; the macros are used around that access, or instead of it.         *)
(***************************************************************************)
Native(big, x) == IF big THEN Reverse(x) ELSE x

NativeStore(big, m, a, x) ==
  [i \in DOMAIN m |-> IF i \in a .. a + Len(x) - 1 THEN Native(big, x)[i - a + 1] ELSE m[i]]
NativeLoad(big, n, m, a) == Native(big, SubSeq(m, a, a + n - 1))

Width == {1, 2, 4, 8}
Cells == 1 .. 12

Values(n) == {x \in Words : Len(x) = n}

Methods(ord, n) ==
  {"bytes", "swap"} \cup (IF ord = "be" /\ n > 1 THEN {"net"} ELSE {})

Init ==
  /\ stage = "empty" /\ order = "be" /\ value = <<>> /\ at = 1
  /\ buf = [i \in Cells |-> Pad] /\ got = <<>>

Convert(big, ord, n, method, x) ==
  CASE method = "swap" -> IF ord = "be" THEN BE(big, n, x) ELSE LE(big, n, x)
    [] method = "net" -> IF n = 8 THEN htonll(big, x) ELSE hton(big, n, x)

Write(big, ord, n, x, a, method) ==
  /\ stage = "empty" /\ stage' = "written"
  /\ order' = ord /\ value' = x /\ at' = a
  /\ buf' = IF method = "bytes" THEN Out(ord, n, buf, a, x)
            ELSE NativeStore(big, buf, a, Convert(big, ord, n, method, x))
  /\ UNCHANGED got

Unconvert(big, n, method, x) ==
  IF method = "net" /\ n = 8 THEN ntohll(big, x) ELSE Convert(big, order, n, method, x)

Read(big, method) ==
  /\ stage = "written" /\ stage' = "read"
  /\ LET n == Len(value)
     IN  got' = IF method = "bytes" THEN In(order, n, buf, at)
                ELSE Unconvert(big, n, method, NativeLoad(big, n, buf, at))
  /\ UNCHANGED <<order, value, at, buf>>

Next ==
  \E big \in BOOLEAN :
    \/ \E ord \in {"be", "le"}, n \in Width, a \in {1, 2, 3} :
         \E x \in Values(n), method \in Methods(ord, n) : Write(big, ord, n, x, a, method)
    \/ \E method \in Methods(order, Len(value)) : Read(big, method)

Spec == Init /\ [][Next]_vars

(***************************************************************************)
(* Properties                                                              *)
(***************************************************************************)
\* What one machine writes, another reads, whatever the byte order of either
\* and whether BE_OUT/LE_OUT, BE_n/LE_n or htonll() was used on the way.
ReadsWhatWasWritten == stage = "read" => got = value

\* A write puts the bytes in the order it names and touches no byte beside.
WritesItsBytes ==
  stage # "empty" =>
    LET bytes == IF order = "le" THEN value ELSE Reverse(value)
    IN  \A i \in Cells :
          buf[i] = IF i \in at .. at + Len(value) - 1 THEN bytes[i - at + 1] ELSE Pad
=============================================================================
