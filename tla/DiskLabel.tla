------------------------------ MODULE DiskLabel ------------------------------
(***************************************************************************)
(* compat/sys/dklabel.h and compat/sys/dktp/fdisk.h: structures that are   *)
(* written to disk as one sector, laid out by the rules of C, and the      *)
(* checksum bytes of a device id.  A format is 16 or 8, for                *)
(* _SUNOS_VTOC_16, which isa_defs.h selects, and _SUNOS_VTOC_8.            *)
(***************************************************************************)
EXTENDS Integers, Sequences, SequencesExt

CONSTANT Byte   \* the number of values of a char: 256 in the code

DiskLabelAssumption == Byte \in Nat /\ Byte > 1

(***************************************************************************)
(* A field is a name, the size of an element, its alignment and the number *)
(* of elements                                                             *)
(***************************************************************************)
Field(name, t, n) == [name |-> name, size |-> t.size, align |-> t.align, n |-> n]
Scalar(bytes) == [size |-> bytes, align |-> bytes]

char == Scalar(1)
uint16_t == Scalar(2)

\* uint32_t, and daddr32_t and time32_t, which types32.h fixes for the disk
uint32_t == Scalar(4)

RoundUp(n, a) == ((n + a - 1) \div a) * a

\* The compiler's layout: each field at the next multiple of its alignment.
Place(l, f) ==
  LET start == RoundUp(l.end, f.align)
  IN  [end |-> start + f.n * f.size,
       align |-> IF f.align > l.align THEN f.align ELSE l.align,
       at |-> [x \in DOMAIN l.at \cup {f.name} |-> IF x = f.name THEN start ELSE l.at[x]]]

\* A structure: where its fields are, its size and its alignment
Struct(fields) ==
  LET l == FoldLeft(Place, [end |-> 0, align |-> 1, at |-> [x \in {} |-> 0]], fields)
  IN  [size |-> RoundUp(l.end, l.align), align |-> l.align, at |-> l.at]

(***************************************************************************)
(* dklabel.h                                                               *)
(***************************************************************************)
NDKMAP(format) == format
LEN_DKL_ASCII == 128
LEN_DKL_VVOL == 8
DK_LABEL_SIZE == 512

dk_map32 == Struct(<<Field("dkl_cylno", uint32_t, 1), Field("dkl_nblk", uint32_t, 1)>>)
dk_map2 == Struct(<<Field("p_tag", uint16_t, 1), Field("p_flag", uint16_t, 1)>>)
dkl_partition ==
  Struct(<<Field("p_tag", uint16_t, 1), Field("p_flag", uint16_t, 1),
           Field("p_start", uint32_t, 1), Field("p_size", uint32_t, 1)>>)

dk_vtoc(format) ==
  IF format = 16
  THEN Struct(<<Field("v_bootinfo", uint32_t, 3), Field("v_sanity", uint32_t, 1),
                Field("v_version", uint32_t, 1), Field("v_volume", char, LEN_DKL_VVOL),
                Field("v_sectorsz", uint16_t, 1), Field("v_nparts", uint16_t, 1),
                Field("v_reserved", uint32_t, 10), Field("v_part", dkl_partition, NDKMAP(16)),
                Field("timestamp", uint32_t, NDKMAP(16)),
                Field("v_asciilabel", char, LEN_DKL_ASCII)>>)
  ELSE Struct(<<Field("v_version", uint32_t, 1), Field("v_volume", char, LEN_DKL_VVOL),
                Field("v_nparts", uint16_t, 1), Field("v_part", dk_map2, NDKMAP(8)),
                Field("v_bootinfo", uint32_t, 3), Field("v_sanity", uint32_t, 1),
                Field("v_reserved", uint32_t, 10), Field("v_timestamp", uint32_t, NDKMAP(8))>>)

\* The padding counts the fields of dk_label instead of asking for its size.
LEN_DKL_PAD(format) ==
  IF format = 16
  THEN DK_LABEL_SIZE - (dk_vtoc(16).size + 4 * 4 + 12 * 2 + 2 * 2)
  ELSE DK_LABEL_SIZE - (LEN_DKL_ASCII + dk_vtoc(8).size
                         + dk_map32.size * NDKMAP(8) + 14 * 2 + 2 * 2)

\* Fields of one type in a row are one field with that many elements.
dk_label(format) ==
  Struct(
    (IF format = 16
     THEN <<Field("dkl_vtoc", dk_vtoc(16), 1), Field("dkl_pcyl", uint32_t, 2),
            Field("dkl_acyl", uint16_t, 2), Field("dkl_nhead", uint32_t, 2),
            Field("dkl_intrlv", uint16_t, 6), Field("dkl_extra", uint16_t, 4),
            Field("dkl_pad", char, LEN_DKL_PAD(16))>>
     ELSE <<Field("dkl_asciilabel", char, LEN_DKL_ASCII), Field("dkl_vtoc", dk_vtoc(8), 1),
            Field("dkl_write_reinstruct", uint16_t, 2), Field("dkl_pad", char, LEN_DKL_PAD(8)),
            Field("dkl_rpm", uint16_t, 12), Field("dkl_map", dk_map32, NDKMAP(8))>>)
    \o <<Field("dkl_magic", uint16_t, 1), Field("dkl_cksum", uint16_t, 1)>>)

DK_DEVID_BLKSIZE == 512
DK_DEVID_SIZE == DK_DEVID_BLKSIZE - 7
dk_devid ==
  Struct(<<Field("dkd_rev_hi", char, 3), Field("dkd_devid", char, DK_DEVID_SIZE),
           Field("dkd_checksum", char, 4)>>)

(***************************************************************************)
(* The checksum of a device id: four bytes, the most significant first.    *)
(* An int has four bytes.                                                  *)
(***************************************************************************)
Byte2 == Byte * Byte
Byte4 == Byte2 * Byte2

hiword(c) == (c \div Byte2) % Byte2
loword(c) == c % Byte2
hibyte(n) == (n \div Byte) % Byte
lobyte(n) == n % Byte

\* Mutant: the bytes of each half are exchanged.
DKD_FORMCHKSUM_Swapped(c) ==
  <<lobyte(hiword(c)), hibyte(hiword(c)), lobyte(loword(c)), hibyte(loword(c))>>

DKD_FORMCHKSUM(c) ==
  <<hibyte(hiword(c)), lobyte(hiword(c)), hibyte(loword(c)), lobyte(loword(c))>>

\* The bytes are promoted to int: the first one reaches its sign.
DKD_GETCHKSUM(d) ==
  LET n == d[1] * (Byte * Byte2) + d[2] * Byte2 + d[3] * Byte + d[4]
  IN  IF n >= Byte4 \div 2 THEN n - Byte4 ELSE n

(***************************************************************************)
(* fdisk.h                                                                 *)
(***************************************************************************)
BOOTSZ == 440
FD_NUMPART == 4
FDISK_PART_TABLE_START == 446

ipart ==
  Struct(<<Field("bootid", char, 8), Field("relsect", uint32_t, 1),
           Field("numsect", uint32_t, 1)>>)

\* Mutant: the partitions are a member of their own type.
mboot_Typed ==
  Struct(<<Field("bootinst", char, BOOTSZ), Field("win_volserno_lo", uint16_t, 2),
           Field("reserved", uint16_t, 1), Field("parts", ipart, FD_NUMPART),
           Field("signature", uint16_t, 1)>>)

\* The partitions are bytes: their structure would be moved to be aligned.
mboot ==
  Struct(<<Field("bootinst", char, BOOTSZ), Field("win_volserno_lo", uint16_t, 2),
           Field("reserved", uint16_t, 1), Field("parts", char, FD_NUMPART * ipart.size),
           Field("signature", uint16_t, 1)>>)
=============================================================================
