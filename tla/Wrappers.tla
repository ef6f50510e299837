------------------------------ MODULE Wrappers -------------------------------
(***************************************************************************)
(* Two functions of the compatibility headers that put several calls of    *)
(* the C library behind one: thr_stksegment() of compat/sys/stack.h and    *)
(* fstat64_blk() of compat/os/linux/sys/stat.h.  env says what each call   *)
(* will answer, sp and st are the structure of the caller before.          *)
(***************************************************************************)
EXTENDS Integers

stack_getbounds(env, sp) ==
  IF env.getattr # 0 THEN [rc |-> env.getattr, sp |-> sp]
  ELSE [rc |-> env.getstack,
        sp |-> IF env.getstack # 0 THEN sp
               ELSE [ss_sp |-> env.low, ss_size |-> env.size, ss_flags |-> 0]]

\* The low address becomes the high one.
thr_stksegment(env, sp) ==
  LET b == stack_getbounds(env, sp)
  IN  IF b.rc # 0 THEN b
      ELSE [rc |-> b.rc,
            sp |-> [ss_sp |-> b.sp.ss_sp + b.sp.ss_size, ss_size |-> b.sp.ss_size,
                    ss_flags |-> 0]]

\* What fstat64() writes: it gives a block device the size 0.
Filled(env) == [blk |-> env.blk, st_size |-> IF env.blk THEN 0 ELSE env.bytes]

\* Mutant: an ioctl() that fails is not noticed.
fstat64_blk_IgnoresIoctl(env, st) ==
  IF env.fstat = -1 THEN [rc |-> -1, st |-> st]
  ELSE [rc |-> 0, st |-> IF env.blk /\ env.ioctl = 0
                         THEN [Filled(env) EXCEPT !.st_size = env.bytes] ELSE Filled(env)]

\* The ioctl() writes the size over st; when it fails, st has been filled.
fstat64_blk(env, st) ==
  IF env.fstat = -1 THEN [rc |-> -1, st |-> st]
  ELSE IF ~env.blk THEN [rc |-> 0, st |-> Filled(env)]
  ELSE IF env.ioctl # 0 THEN [rc |-> -1, st |-> Filled(env)]
  ELSE [rc |-> 0, st |-> [Filled(env) EXCEPT !.st_size = env.bytes]]
=============================================================================
