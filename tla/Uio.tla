--------------------------------- MODULE Uio ---------------------------------
(***************************************************************************)
(* compat/sys/uio.h: a zfs_uio_t over a vector of buffers.  A caller looks *)
(* up the buffer of an offset, asks for it by its index, and advances by   *)
(* as much as it says it has used.  Buffers may be empty.                  *)
(***************************************************************************)
EXTENDS Integers, Sequences, Functions

CONSTANTS Lengths,    \* lengths of a buffer
          MaxIov,     \* bound: buffers in a vector
          Behind,     \* what may be read as an iov_len behind the vector
          Sizes,      \* sizes that callers advance by
          MaxOffset   \* bound: uio_loffset in either direction

UioAssumption == Lengths \subseteq Nat /\ MaxIov \in Nat /\ Sizes \subseteq Int

VARIABLES iov,       \* iov_len of each buffer; uio_iovcnt is its length
          loffset, resid,
          asked, off, vec_idx, len, at   \* of the caller and its two calls

vars == <<iov, loffset, resid, asked, off, vec_idx, len, at>>
caller == <<asked, off, vec_idx, len, at>>

Upto(i) == SumFunctionOnSet(iov, 1 .. i)
Total == Upto(Len(iov))

Init ==
  /\ iov = <<>> /\ loffset = 0 /\ resid = 0
  /\ asked = 0 /\ off = 0 /\ vec_idx = 0 /\ len = 0 /\ at = "new"

Setup(lens) ==
  /\ at = "new" /\ iov' = lens /\ resid' = SumFunctionOnSet(lens, 1 .. Len(lens))
  /\ at' = "ready" /\ UNCHANGED <<loffset, asked, off, vec_idx, len>>

Lookup(o) ==
  /\ at \in {"ready", "found", "taken"} /\ at' = "loop"
  /\ asked' = o /\ off' = o /\ vec_idx' = 0 /\ len' = 0
  /\ UNCHANGED <<iov, loffset, resid>>

\* Mutant: an offset at the end of a buffer stays in it.
LoopTest_Strict == vec_idx < Len(iov) /\ off > iov[vec_idx + 1]

\* The condition of the loop; the vector is read only inside its bounds.
LoopTest == vec_idx < Len(iov) /\ off >= iov[vec_idx + 1]

zfs_uio_index_at_offset ==
  /\ at = "loop"
  /\ IF LoopTest
     THEN off' = off - iov[vec_idx + 1] /\ vec_idx' = vec_idx + 1 /\ UNCHANGED at
     ELSE at' = "found" /\ UNCHANGED <<off, vec_idx>>
  /\ UNCHANGED <<iov, loffset, resid, asked, len>>

\* The whole buffer, whatever the offset.  The index is not checked: one past
\* the last reads what is behind the vector, or ends the process and with it
\* the behaviour.
zfs_uio_iov_at_index ==
  /\ at = "found" /\ at' = "taken"
  /\ len' \in IF vec_idx < Len(iov) THEN {iov[vec_idx + 1]} ELSE Behind
  /\ UNCHANGED <<iov, loffset, resid, asked, off, vec_idx>>

\* Any size, also one that overruns the vector and makes uio_resid negative.
zfs_uio_advance(size) ==
  /\ at # "new"
  /\ resid' = resid - size /\ loffset' = loffset + size
  /\ UNCHANGED <<iov, caller>>

Vectors == UNION {[1 .. n -> Lengths] : n \in 0 .. MaxIov}

Next ==
  \/ \E lens \in Vectors : Setup(lens)
  \/ \E o \in 0 .. Total + 1 : Lookup(o)
  \/ zfs_uio_index_at_offset
  \/ zfs_uio_iov_at_index
  \/ \E size \in Sizes :
       loffset + size \in -MaxOffset .. MaxOffset /\ zfs_uio_advance(size)

Spec == Init /\ [][Next]_vars

\* The lookup finds the byte: what was passed and the rest make the offset that
\* was asked for, and the index leaves the vector exactly for an offset past the
\* end, which a caller must test before it asks for the buffer.  Of the buffer
\* it is then given len - off bytes are left, at least one, and they end where
\* the buffer ends, inside the vector: a caller that uses no more of them does
\* not overrun it.  Nothing in uio.h keeps a caller from advancing further, but
\* the count of what is done and what is left stays the length of the vector.
LookupFindsTheByte ==
  /\ at \in {"found", "taken"} =>
       /\ Upto(vec_idx) + off = asked
       /\ vec_idx = Len(iov) <=> asked >= Total
  /\ at = "taken" /\ asked < Total =>
       len - off > 0 /\ asked + (len - off) = Upto(vec_idx + 1)
         /\ Upto(vec_idx + 1) <= Total
  /\ loffset + resid = Total
=============================================================================
