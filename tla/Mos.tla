--------------------------------- MODULE Mos ---------------------------------
(***************************************************************************)
(* The Meta Object Set of a ZFS pool, as zhaxx sees it, and the DMU and    *)
(* ZAP calls of libzpool that the surgeon makes on it.  libzpool is not in *)
(* this repository: the calls are modelled from how surgeon/zhaxx.c and    *)
(* scan/zhaxx-scan use their results.                                      *)
(*                                                                         *)
(* An image of the MOS maps every object id to the state of its dnode.     *)
(* Ids are recycled, so a slot may be free, or hold another type later.    *)
(***************************************************************************)
EXTENDS Integers, Sequences

CONSTANTS Obj,        \* object ids; 0 is "no object" in every reference
          Type,       \* dnode types
          NoType,     \* the type of a free slot
          NamedType,  \* types below DMU_OT_NUMTYPES, which have a name
          ZapType,    \* types stored as a ZAP
          Key,        \* ZAP keys: non-empty sequences of space-free words
          Field,      \* uint64 fields of the bonus buffer
          WordMod,    \* 2^64 in the code
          ObjsetOf    \* the objset a hexadecimal error-log key names, or 0

Word == 0 .. (WordMod - 1)

ASSUME MosAssumption ==
  /\ WordMod \in Nat \ {0, 1}
  /\ Obj \subseteq Word \ {0}
  /\ NoType \notin Type
  /\ NamedType \subseteq Type /\ ZapType \subseteq Type
  /\ "num_children" \in Field
  /\ Key \subseteq Seq(STRING) \ {<<>>}
  /\ \A k \in Key : <<Head(k)>> \in Key
  /\ ObjsetOf \in [Key -> Obj \cup {0}]

\* The integers stored under each key; <<>> under a key that is absent.
Zap == [Key -> Seq(Word)]

\* io is FALSE when the dnode is allocated but reading the object gives EIO.
ObjState == [type : Type \cup {NoType}, io : BOOLEAN, zap : Zap,
             bonus : [Field -> Word]]

EmptyZap == [k \in Key |-> <<>>]

FreeSlot == [type |-> NoType, io |-> TRUE, zap |-> EmptyZap,
             bonus |-> [f \in Field |-> 0]]

Image == [Obj -> ObjState]

Exists(mos, obj) == obj \in Obj /\ mos[obj].type # NoType

Readable(mos, obj) == Exists(mos, obj) /\ mos[obj].io

(***************************************************************************)
(* The calls.  The *_err operators give the errno, "ok" for 0.             *)
(***************************************************************************)
Errno == {"ok", "ENOENT", "EIO", "EOVERFLOW"}

dmu_object_info_err(mos, obj) == IF Exists(mos, obj) THEN "ok" ELSE "ENOENT"

\* Holding the bonus or freeing an object reads it.
dmu_read_err(mos, obj) ==
  IF ~Exists(mos, obj) THEN "ENOENT" ELSE IF mos[obj].io THEN "ok" ELSE "EIO"

zap_hold_err(mos, obj) ==
  IF Exists(mos, obj) /\ mos[obj].type \notin ZapType THEN "EIO"
  ELSE dmu_read_err(mos, obj)

\* A missing object and a missing key give the same errno.
zap_lookup_err(mos, obj, key, count) ==
  IF zap_hold_err(mos, obj) # "ok" THEN zap_hold_err(mos, obj)
  ELSE IF mos[obj].zap[key] = <<>> THEN "ENOENT"
  ELSE IF Len(mos[obj].zap[key]) > count THEN "EOVERFLOW" ELSE "ok"

zap_update(mos, obj, key, words) == [mos EXCEPT ![obj].zap[key] = words]

zap_remove(mos, obj, key) == [mos EXCEPT ![obj].zap[key] = <<>>]

dmu_object_free(mos, obj) == [mos EXCEPT ![obj] = FreeSlot]

\* An error log in memory hangs spa_errlog_sync, hence txg_sync, when its
\* head cannot be read or one of its entries names an objset that cannot.
ErrlogHangs(mos, head) ==
  /\ head # 0
  /\ \/ ~Readable(mos, head)
     \/ \E k \in Key : /\ mos[head].zap[k] # <<>> /\ ObjsetOf[k] # 0
                       /\ ~Readable(mos, ObjsetOf[k])
==============================================================================
