-------------------------------- MODULE Umem ---------------------------------
(***************************************************************************)
(* compat/umem.h and compat/sys/kmem.h: the allocator of libzpool on top   *)
(* of malloc(), called by several threads.  The heap is a set of chunks;   *)
(* malloc() fails when none is free, and a chunk keeps what its last owner *)
(* left in it.                                                             *)
(***************************************************************************)
EXTENDS Integers

CONSTANTS Thread, Chunk,
          NULL,     \* no chunk
          Nobody    \* no thread

Align == {"none", "valid", "invalid"}

\* A umem_cache_t, and the chunk it is in.
Cache == [at : Chunk, align : Align, ctor : BOOLEAN]

UmemAssumption == NULL \notin Chunk \cup Cache /\ Nobody \notin Thread

VARIABLES owner,    \* the thread that has a chunk, or Nobody
          content,  \* "dirty", "zero" or "made", as the constructor leaves it
          made,     \* constructor calls less destructor calls on a chunk
          cached,   \* the chunks that came from the cache
          cache,    \* NULL, or where the umem_cache_t is and what is in it
          call, pc, ptr,   \* of each thread: the call under way
          aborted

vars == <<owner, content, made, cached, cache, call, pc, ptr, aborted>>
heapVars == <<owner, content, made, cached>>

Call == [fn : {"alloc", "zalloc", "kmem", "cache"}, nofail : BOOLEAN, align : {"none"}]
  \cup [fn : {"aligned"}, nofail : BOOLEAN, align : {"valid", "invalid"}]
  \cup [fn : {"create"}, nofail : {FALSE}, align : Align]

Idle == [fn |-> "none", nofail |-> FALSE, align |-> "none"]

Free == {c \in Chunk : owner[c] = Nobody}

Init ==
  /\ owner = [c \in Chunk |-> Nobody] /\ content = [c \in Chunk |-> "dirty"]
  /\ made = [c \in Chunk |-> 0] /\ cached = {} /\ cache = NULL
  /\ call = [t \in Thread |-> Idle] /\ pc = [t \in Thread |-> "idle"]
  /\ ptr = [t \in Thread |-> NULL] /\ aborted = FALSE

Goto(t, label) == pc' = [pc EXCEPT ![t] = label]

(***************************************************************************)
(* The calls.  umem_cache_alloc() takes alignment and size from the cache. *)
(***************************************************************************)
HasCache == cache # NULL

Enter(t, k) ==
  /\ ~aborted /\ pc[t] = "idle"
  /\ k.fn = "cache" => HasCache
  /\ k.fn = "create" => ~HasCache /\ \A u \in Thread : call[u].fn # "create"
  /\ LET a == IF k.fn = "cache" THEN [k EXCEPT !.align = cache.align] ELSE k
     IN  /\ call' = [call EXCEPT ![t] = a]
         /\ Goto(t, IF a.align # "none" /\ a.fn # "create" THEN "memalign" ELSE "malloc")
  /\ ptr' = [ptr EXCEPT ![t] = NULL]
  /\ UNCHANGED <<heapVars, cache, aborted>>

\* What a call does with its chunk before it returns.
AfterAlloc(k) ==
  CASE k.fn = "zalloc" -> "memset"
    [] k.fn = "cache" -> "construct"
    [] k.fn = "create" -> "fill"
    [] OTHER -> "return"

Take(t, c) ==
  /\ owner' = [owner EXCEPT ![c] = t] /\ ptr' = [ptr EXCEPT ![t] = c]
  /\ cached' = IF call[t].fn = "cache" THEN cached \cup {c} ELSE cached
  /\ Goto(t, AfterAlloc(call[t]))
  /\ UNCHANGED <<content, made, cache, call, aborted>>

\* kmem_alloc() ignores its flags: it never tries again.
Retries(k) == k.nofail /\ k.fn # "kmem"

\* Mutant: a call that may fail tries again, one that must not gives up.
umem_alloc_Inverted(t) ==
  /\ ~aborted /\ pc[t] = "malloc"
  /\ \/ \E c \in Free : Take(t, c)
     \/ /\ Free = {} /\ Retries(call[t]) /\ Goto(t, "return")
        /\ UNCHANGED <<heapVars, cache, call, ptr, aborted>>

\* The loop of umem_alloc(): with UMEM_NOFAIL it goes round until there is room.
umem_alloc(t) ==
  /\ ~aborted /\ pc[t] = "malloc"
  /\ \/ \E c \in Free : Take(t, c)
     \/ /\ Free = {} /\ ~Retries(call[t]) /\ Goto(t, "return")
        /\ UNCHANGED <<heapVars, cache, call, ptr, aborted>>

\* Mutant: every error of posix_memalign() is tried again, not only ENOMEM.
umem_alloc_aligned_RetriesAll(t) ==
  /\ ~aborted /\ pc[t] = "memalign"
  /\ \/ call[t].align = "valid" /\ \E c \in Free : Take(t, c)
     \/ /\ call[t].align = "invalid" \/ Free = {}
        /\ ~call[t].nofail /\ Goto(t, "return")
        /\ UNCHANGED <<heapVars, cache, call, ptr, aborted>>

\* posix_memalign(): an alignment it rejects is not tried again.
umem_alloc_aligned(t) ==
  /\ ~aborted /\ pc[t] = "memalign"
  /\ \/ call[t].align = "valid" /\ \E c \in Free : Take(t, c)
     \/ /\ call[t].align = "valid" /\ Free = {} /\ ~call[t].nofail /\ Goto(t, "return")
        /\ UNCHANGED <<heapVars, cache, call, ptr, aborted>>
     \/ /\ call[t].align = "invalid" /\ ~call[t].nofail /\ Goto(t, "return")
        /\ UNCHANGED <<heapVars, cache, call, ptr, aborted>>
     \/ /\ call[t].align = "invalid" /\ call[t].nofail /\ aborted' = TRUE
        /\ UNCHANGED <<heapVars, cache, call, pc, ptr>>

\* Mutant: no memset(), as if malloc() returned fresh pages.
umem_zalloc_NoMemset(t) ==
  /\ ~aborted /\ pc[t] = "memset" /\ Goto(t, "return")
  /\ UNCHANGED <<heapVars, cache, call, ptr, aborted>>

umem_zalloc(t) ==
  /\ ~aborted /\ pc[t] = "memset" /\ Goto(t, "return")
  /\ content' = [content EXCEPT ![ptr[t]] = "zero"]
  /\ UNCHANGED <<owner, made, cached, cache, call, ptr, aborted>>

\* The constructor runs when there is one, and its result is not looked at:
\* ok is FALSE when it has failed.
umem_cache_alloc(t, ok) ==
  /\ ~aborted /\ pc[t] = "construct" /\ Goto(t, "return")
  /\ IF cache.ctor
     THEN /\ made' = [made EXCEPT ![ptr[t]] = @ + 1]
          /\ content' = [content EXCEPT ![ptr[t]] = IF ok THEN "made" ELSE @]
     ELSE UNCHANGED <<made, content>>
  /\ UNCHANGED <<owner, cached, cache, call, ptr, aborted>>

\* A cache has a constructor and a destructor, or neither.
umem_cache_create(t, ctor) ==
  /\ ~aborted /\ pc[t] = "fill" /\ Goto(t, "return")
  /\ cache' = [at |-> ptr[t], align |-> call[t].align, ctor |-> ctor]
  /\ UNCHANGED <<heapVars, call, ptr, aborted>>

\* The call returns, and the caller writes to what it got.
Return(t) ==
  /\ ~aborted /\ pc[t] = "return" /\ Goto(t, "idle")
  /\ call' = [call EXCEPT ![t] = Idle] /\ ptr' = [ptr EXCEPT ![t] = NULL]
  /\ content' = IF ptr[t] = NULL THEN content ELSE [content EXCEPT ![ptr[t]] = "dirty"]
  /\ UNCHANGED <<owner, made, cached, cache, aborted>>

(***************************************************************************)
(* Freeing.  A caller returns a chunk the way it got it.                   *)
(***************************************************************************)
GiveBack(c) == owner' = [owner EXCEPT ![c] = Nobody] /\ cached' = cached \ {c}

InUse(c) == HasCache /\ cache.at = c

umem_free(t, c) ==
  /\ ~aborted /\ pc[t] = "idle" /\ owner[c] = t /\ c \notin cached /\ ~InUse(c)
  /\ GiveBack(c)
  /\ UNCHANGED <<content, made, cache, call, pc, ptr, aborted>>

\* Mutant: the chunk goes back before the destructor has seen it.
umem_cache_free_FreesFirst(t, c) ==
  /\ ~aborted /\ pc[t] = "idle" /\ owner[c] = t /\ c \in cached
  /\ GiveBack(c)
  /\ ptr' = [ptr EXCEPT ![t] = c] /\ Goto(t, "destruct")
  /\ UNCHANGED <<content, made, cache, call, aborted>>

umem_cache_free(t, c) ==
  /\ ~aborted /\ pc[t] = "idle" /\ owner[c] = t /\ c \in cached
  /\ ptr' = [ptr EXCEPT ![t] = c] /\ Goto(t, "destruct")
  /\ UNCHANGED <<heapVars, cache, call, aborted>>

Destruct(t) ==
  /\ ~aborted /\ pc[t] = "destruct" /\ Goto(t, "idle")
  /\ made' = [made EXCEPT ![ptr[t]] = IF cache.ctor THEN @ - 1 ELSE @]
  /\ content' = [content EXCEPT ![ptr[t]] = "dirty"]
  /\ GiveBack(ptr[t]) /\ ptr' = [ptr EXCEPT ![t] = NULL]
  /\ UNCHANGED <<cache, call, aborted>>

\* By the thread that created it, when nothing of it is left.
umem_cache_destroy(t) ==
  /\ ~aborted /\ pc[t] = "idle" /\ HasCache /\ cached = {}
  /\ \A u \in Thread : pc[u] # "destruct" /\ call[u].fn # "cache"
  /\ owner[cache.at] = t /\ GiveBack(cache.at) /\ cache' = NULL
  /\ UNCHANGED <<content, made, call, pc, ptr, aborted>>

Step(t) ==
  \/ umem_alloc(t) \/ umem_alloc_aligned(t) \/ umem_zalloc(t)
  \/ \E ok \in BOOLEAN : umem_cache_alloc(t, ok) \/ umem_cache_create(t, ok)
  \/ Return(t) \/ Destruct(t)

Next ==
  \E t \in Thread :
    \/ Step(t)
    \/ \E k \in Call : Enter(t, k)
    \/ \E c \in Chunk : umem_free(t, c) \/ umem_cache_free(t, c)
    \/ umem_cache_destroy(t)

\* A thread that is inside a call goes on; what callers do is their own choice.
Fairness == \A t \in Thread : WF_vars(Step(t))

Spec == Init /\ [][Next]_vars /\ Fairness

(***************************************************************************)
(* Properties                                                              *)
(***************************************************************************)
\* UMEM_NOFAIL, "Never fails": such a call returns memory or does not return;
\* only kmem_alloc() has no such promise.
NofailReturnsMemory ==
  \A t \in Thread :
    pc[t] = "return" /\ call[t].nofail /\ call[t].fn # "kmem" => ptr[t] # NULL

\* umem_zalloc() returns zeroes also in a chunk that others have used before.
ZallocIsZeroed ==
  \A t \in Thread :
    pc[t] = "return" /\ call[t].fn = "zalloc" /\ ptr[t] # NULL => content[ptr[t]] = "zero"

\* Constructor and destructor run in turn on each chunk, on memory that still
\* belongs to the caller: nothing goes back to the heap with a constructed
\* object in it, and no object is constructed twice.
MadeInTurn ==
  \A c \in Chunk :
    /\ made[c] \in {0, 1}
    /\ owner[c] = Nobody => made[c] = 0

\* The retry loop of UMEM_NOFAIL ends once there is room for good, and an
\* alignment that can never succeed does not keep it spinning.
NofailEnds ==
  <>[](Free # {}) =>
    \A t \in Thread : (pc[t] \in {"malloc", "memalign"}) ~>
                        (aborted \/ pc[t] \notin {"malloc", "memalign"})
=============================================================================
