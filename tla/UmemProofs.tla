----------------------------- MODULE UmemProofs ------------------------------
(***************************************************************************)
(* Proofs about the allocator, for any number of threads and chunks: what  *)
(* UMEM_NOFAIL and umem_zalloc() promise, and that constructor and         *)
(* destructor alternate on every chunk.                                    *)
(***************************************************************************)
EXTENDS Umem, TLAPS

Label == {"idle", "malloc", "memalign", "memset", "construct", "fill", "return",
          "destruct"}
Fn == {"none", "alloc", "zalloc", "kmem", "cache", "aligned", "create"}

TypeInv ==
  /\ owner \in [Chunk -> Thread \cup {Nobody}]
  /\ content \in [Chunk -> {"dirty", "zero", "made"}]
  /\ made \in [Chunk -> {0, 1}]
  /\ cached \in SUBSET Chunk /\ cache \in Cache \cup {NULL}
  /\ call \in [Thread -> [fn : Fn, nofail : BOOLEAN, align : Align]]
  /\ pc \in [Thread -> Label] /\ ptr \in [Thread -> Chunk \cup {NULL}]
  /\ aborted \in BOOLEAN

\* How far a thread is, and what it has at that point.
ThreadInv(t) ==
  /\ pc[t] \in {"idle", "destruct"} <=> call[t].fn = "none"
  /\ pc[t] \in {"idle", "malloc", "memalign"} => ptr[t] = NULL
  /\ pc[t] \in {"memset", "construct", "fill", "destruct"} => ptr[t] # NULL
  /\ pc[t] = "malloc" => call[t].fn # "aligned"
  /\ pc[t] = "memalign" => call[t].fn \in {"aligned", "cache"}
  /\ pc[t] = "memset" => call[t].fn = "zalloc"
  /\ pc[t] = "construct" <=> (call[t].fn = "cache" /\ ptr[t] # NULL /\ pc[t] # "return")
  /\ pc[t] = "fill" => call[t].fn = "create"
  /\ ptr[t] # NULL => owner[ptr[t]] = t
  /\ pc[t] # "idle" /\ ptr[t] # NULL =>
       (ptr[t] \in cached <=> pc[t] = "destruct" \/ call[t].fn = "cache")

\* There is one cache at a time: while it is made nobody uses it, and while it
\* is used nobody takes it away.
CacheInv ==
  /\ \A t \in Thread : call[t].fn = "cache" \/ pc[t] = "destruct" => cache # NULL
  /\ \A t \in Thread : call[t].fn = "create" /\ pc[t] # "return" => cache = NULL
  /\ \A t, u \in Thread : call[t].fn = "create" /\ call[u].fn = "create" => t = u
  /\ cache # NULL => cache.at \notin cached /\ owner[cache.at] # Nobody
  /\ cached # {} => cache # NULL

\* A chunk of the cache has an owner, and an object in it unless its constructor
\* is still to run; no other chunk has one.
ChunkInv ==
  \A c \in Chunk :
    /\ c \in cached => owner[c] # Nobody
    /\ made[c] = 1 <=> /\ c \in cached /\ cache.ctor
                       /\ \A t \in Thread : ~(pc[t] = "construct" /\ ptr[t] = c)

ReturnInv == NofailReturnsMemory /\ ZallocIsZeroed

UmemInv == TypeInv /\ (\A t \in Thread : ThreadInv(t)) /\ CacheInv /\ ChunkInv /\ ReturnInv

\* Nothing is allocated at the start.
LEMMA UmemInit == UmemAssumption /\ Init => UmemInv
<1> SUFFICES ASSUME UmemAssumption, Init PROVE UmemInv
  OBVIOUS
<1>1. TypeInv
  BY DEF Init, TypeInv, Idle, Label, Fn, Align
<1>2. \A t \in Thread : ThreadInv(t)
  BY DEF Init, ThreadInv, Idle
<1>3. CacheInv /\ ChunkInv
  BY DEF Init, CacheInv, ChunkInv, Idle
<1>4. ReturnInv
  BY DEF Init, ReturnInv, NofailReturnsMemory, ZallocIsZeroed
<1> QED
  BY <1>1, <1>2, <1>3, <1>4 DEF UmemInv

\* A call begins: only umem_cache_create() when there is no cache yet.
LEMMA EnterInv ==
  ASSUME UmemAssumption, UmemInv, NEW t \in Thread, NEW k \in Call, Enter(t, k)
  PROVE  UmemInv'
<1> USE DEF UmemInv, heapVars, HasCache
<1>1. PICK a : /\ a = IF k.fn = "cache" THEN [k EXCEPT !.align = cache.align] ELSE k
               /\ call' = [call EXCEPT ![t] = a]
               /\ Goto(t, IF a.align # "none" /\ a.fn # "create" THEN "memalign" ELSE "malloc")
  BY DEF Enter
<1>2. k.fn = "cache" => cache.align \in Align
  BY DEF Enter, TypeInv, Cache
<1>3. /\ a \in [fn : Fn \ {"none"}, nofail : BOOLEAN, align : Align]
      /\ a.fn = k.fn
      /\ a.fn = "aligned" => a.align # "none"
      /\ a.fn \notin {"aligned", "cache", "create"} => a.align = "none"
  BY <1>1, <1>2 DEF Call, Fn, Align
<1>4. TypeInv'
  BY <1>1, <1>3 DEF TypeInv, Enter, Goto, Label, Fn
<1>5. \A u \in Thread : ThreadInv(u)'
  BY <1>1, <1>3 DEF TypeInv, ThreadInv, Enter, Goto
<1>6. CacheInv'
  BY <1>1, <1>3 DEF TypeInv, ThreadInv, CacheInv, Enter, Goto
<1>7. ChunkInv' /\ ReturnInv'
  BY <1>1, <1>3 DEF TypeInv, ThreadInv, ChunkInv, ReturnInv, NofailReturnsMemory, ZallocIsZeroed,
                    Enter, Goto
<1> QED
  BY <1>4, <1>5, <1>6, <1>7

\* malloc() or posix_memalign() succeeds: the chunk was free, so no other thread
\* has it.
LEMMA TakeInv ==
  ASSUME UmemAssumption, UmemInv, NEW t \in Thread, NEW c \in Free,
         pc[t] \in {"malloc", "memalign"}, Take(t, c)
  PROVE  UmemInv'
<1> USE DEF UmemInv
<1> DEFINE label == AfterAlloc(call[t])
<1>1. c \in Chunk /\ owner[c] = Nobody /\ c \notin cached /\ made[c] = 0
  BY DEF Free, TypeInv, ChunkInv
<1>2. /\ label \in Label
      /\ label = "memset" <=> call[t].fn = "zalloc"
      /\ label = "construct" <=> call[t].fn = "cache"
      /\ label = "fill" <=> call[t].fn = "create"
      /\ label \in {"memset", "construct", "fill", "return"}
  BY DEF AfterAlloc, Label
<1>3. /\ owner' = [owner EXCEPT ![c] = t] /\ ptr' = [ptr EXCEPT ![t] = c]
      /\ cached' = IF call[t].fn = "cache" THEN cached \cup {c} ELSE cached
      /\ pc' = [pc EXCEPT ![t] = label]
      /\ UNCHANGED <<content, made, cache, call, aborted>>
  BY DEF Take, Goto
<1> HIDE DEF label
<1>4. call[t].fn # "none" /\ ptr[t] = NULL /\ t # Nobody /\ c # NULL
  BY <1>1 DEF ThreadInv, UmemAssumption
<1>5. TypeInv'
  BY <1>1, <1>2, <1>3 DEF TypeInv
<1>6. ASSUME NEW u \in Thread PROVE ThreadInv(u)'
  <2>1. CASE u = t
    <3>1. pc'[u] = label /\ ptr'[u] = c /\ owner'[c] = u /\ call'[u] = call[u]
      BY <1>1, <1>3, <2>1 DEF TypeInv
    <3>2. c \in cached' <=> call[u].fn = "cache"
      BY <1>1, <1>3, <2>1
    <3> QED
      BY <1>2, <1>4, <2>1, <3>1, <3>2 DEF ThreadInv
  <2>2. CASE u # t
    <3>1. pc'[u] = pc[u] /\ ptr'[u] = ptr[u] /\ call'[u] = call[u]
      BY <1>3, <2>2 DEF TypeInv
    <3>2. ptr[u] # NULL => ptr[u] # c /\ owner'[ptr[u]] = owner[ptr[u]]
      BY <1>1, <1>3, UmemAssumption DEF TypeInv, ThreadInv, UmemAssumption
    <3>3. ptr[u] # NULL => (ptr[u] \in cached' <=> ptr[u] \in cached)
      BY <1>3, <3>2
    <3> QED
      BY <3>1, <3>2, <3>3 DEF ThreadInv
  <2> QED
    BY <2>1, <2>2
<1>7. CacheInv'
  <2>1. \A u \in Thread : /\ call'[u] = call[u]
                          /\ pc'[u] = "destruct" => pc[u] = "destruct"
                          /\ pc'[u] # "return" => u = t \/ pc[u] # "return"
    BY <1>2, <1>3 DEF TypeInv
  <2>2. cache # NULL => cache.at \in Chunk /\ cache.at # c /\ owner'[cache.at] # Nobody
    BY <1>1, <1>3, <1>4 DEF TypeInv, CacheInv, Cache
  <2> QED
    BY <1>2, <1>3, <1>4, <2>1, <2>2 DEF ThreadInv, CacheInv
<1>8. ChunkInv'
  BY <1>1, <1>2, <1>3, <1>4 DEF TypeInv, ThreadInv, ChunkInv
<1>9. ReturnInv'
  BY <1>1, <1>2, <1>3, <1>4 DEF TypeInv, ThreadInv, ReturnInv, NofailReturnsMemory,
                               ZallocIsZeroed
<1> QED
  BY <1>5, <1>6, <1>7, <1>8, <1>9

\* A call that finds no room returns NULL, unless it has UMEM_NOFAIL.
LEMMA GiveUpInv ==
  ASSUME UmemAssumption, UmemInv, NEW t \in Thread,
         pc[t] \in {"malloc", "memalign"}, Goto(t, "return"),
         call[t].nofail => call[t].fn = "kmem",
         UNCHANGED <<heapVars, cache, call, ptr, aborted>>
  PROVE  UmemInv'
<1> USE DEF UmemInv, heapVars, Goto
<1>1. TypeInv'
  BY DEF TypeInv, Label
<1>2. \A u \in Thread : ThreadInv(u)'
  BY DEF TypeInv, ThreadInv
<1>3. CacheInv' /\ ChunkInv'
  BY DEF TypeInv, ThreadInv, CacheInv, ChunkInv
<1>4. ReturnInv'
  BY DEF TypeInv, ThreadInv, ReturnInv, NofailReturnsMemory, ZallocIsZeroed
<1> QED
  BY <1>1, <1>2, <1>3, <1>4

\* The two allocation loops.
LEMMA AllocInv ==
  ASSUME UmemAssumption, UmemInv, NEW t \in Thread,
         umem_alloc(t) \/ umem_alloc_aligned(t)
  PROVE  UmemInv'
<1>1. CASE \E c \in Free : Take(t, c)
  BY <1>1, TakeInv DEF umem_alloc, umem_alloc_aligned
<1>2. CASE pc[t] = "malloc" /\ ~Retries(call[t]) /\ Goto(t, "return")
           /\ UNCHANGED <<heapVars, cache, call, ptr, aborted>>
  BY <1>2, GiveUpInv DEF Retries, UmemInv, TypeInv
<1>3. CASE pc[t] = "memalign" /\ ~call[t].nofail /\ Goto(t, "return")
           /\ UNCHANGED <<heapVars, cache, call, ptr, aborted>>
  BY <1>3, GiveUpInv
<1>4. CASE aborted' = TRUE /\ UNCHANGED <<heapVars, cache, call, pc, ptr>>
  BY <1>4 DEF UmemInv, TypeInv, ThreadInv, CacheInv, ChunkInv, ReturnInv,
              NofailReturnsMemory, ZallocIsZeroed, heapVars
<1> QED
  BY <1>1, <1>2, <1>3, <1>4 DEF umem_alloc, umem_alloc_aligned

\* umem_zalloc() clears the chunk, which only its caller has.
LEMMA ZallocInv ==
  ASSUME UmemAssumption, UmemInv, NEW t \in Thread, umem_zalloc(t)
  PROVE  UmemInv'
<1> USE DEF UmemInv, umem_zalloc, Goto
<1>1. ptr[t] \in Chunk
  BY DEF TypeInv, ThreadInv
<1>2. TypeInv'
  BY <1>1 DEF TypeInv, Label
<1>3. \A u \in Thread : ThreadInv(u)'
  BY DEF TypeInv, ThreadInv
<1>4. CacheInv' /\ ChunkInv'
  BY DEF TypeInv, ThreadInv, CacheInv, ChunkInv
<1>5. ReturnInv'
  BY <1>1 DEF TypeInv, ThreadInv, ReturnInv, NofailReturnsMemory, ZallocIsZeroed
<1> QED
  BY <1>2, <1>3, <1>4, <1>5

\* umem_cache_alloc() runs the constructor on a chunk that has no object yet.
LEMMA ConstructInv ==
  ASSUME UmemAssumption, UmemInv, NEW t \in Thread, NEW ok \in BOOLEAN,
         umem_cache_alloc(t, ok)
  PROVE  UmemInv'
<1> USE DEF UmemInv, Goto
<1> DEFINE c == ptr[t]
<1>1. /\ c \in Chunk /\ c # NULL /\ owner[c] = t /\ c \in cached /\ call[t].fn = "cache"
      /\ pc[t] = "construct" /\ pc' = [pc EXCEPT ![t] = "return"]
      /\ UNCHANGED <<owner, cached, cache, call, ptr, aborted>>
  BY DEF TypeInv, ThreadInv, umem_cache_alloc
<1>2. cache \in Cache /\ cache.ctor \in BOOLEAN /\ made[c] = 0
  BY <1>1 DEF TypeInv, CacheInv, ChunkInv, Cache
<1>3. /\ made' = [made EXCEPT ![c] = IF cache.ctor THEN 1 ELSE 0]
      /\ content' \in [Chunk -> {"dirty", "zero", "made"}]
      /\ \A d \in Chunk : d # c => content'[d] = content[d]
  <2>1. CASE cache.ctor
    <3>1. /\ made' = [made EXCEPT ![c] = made[c] + 1]
          /\ content' = [content EXCEPT ![c] = IF ok THEN "made" ELSE content[c]]
      BY <2>1 DEF umem_cache_alloc
    <3>2. made' = [made EXCEPT ![c] = 1]
      BY <1>2, <3>1
    <3> QED
      BY <1>1, <2>1, <3>1, <3>2 DEF TypeInv
  <2>2. CASE ~cache.ctor
    <3>1. made' = made /\ content' = content
      BY <2>2 DEF umem_cache_alloc
    <3>2. made = [made EXCEPT ![c] = 0]
      BY <1>1, <1>2 DEF TypeInv
    <3> QED
      BY <2>2, <3>1, <3>2 DEF TypeInv
  <2> QED
    BY <2>1, <2>2
<1> HIDE DEF c
<1>4. TypeInv'
  BY <1>1, <1>3 DEF TypeInv, Label
<1>5. \A u \in Thread : ThreadInv(u)'
  BY <1>1 DEF TypeInv, ThreadInv, c
<1>6. CacheInv'
  BY <1>1 DEF TypeInv, CacheInv
<1>7. ChunkInv'
  <2>1. ASSUME NEW d \in Chunk, d # c
        PROVE  (\E u \in Thread : pc'[u] = "construct" /\ ptr'[u] = d)
                 <=> (\E u \in Thread : pc[u] = "construct" /\ ptr[u] = d)
    BY <1>1, <2>1 DEF TypeInv, c
  <2>2. \A u \in Thread : ~(pc'[u] = "construct" /\ ptr'[u] = c)
    BY <1>1 DEF TypeInv, ThreadInv
  <2> QED
    BY <1>1, <1>2, <1>3, <2>1, <2>2 DEF TypeInv, ChunkInv
<1>8. ReturnInv'
  <2>1. ASSUME NEW u \in Thread, pc[u] = "return", call[u].fn = "zalloc", ptr[u] # NULL
        PROVE  content'[ptr[u]] = content[ptr[u]]
    BY <1>1, <1>3, <2>1 DEF TypeInv, ThreadInv
  <2> QED
    BY <1>1, <2>1 DEF TypeInv, ReturnInv, NofailReturnsMemory, ZallocIsZeroed, c
<1> QED
  BY <1>4, <1>5, <1>6, <1>7, <1>8

\* umem_cache_create() fills in the chunk it has got: the first cache.
LEMMA CreateInv ==
  ASSUME UmemAssumption, UmemInv, NEW t \in Thread, NEW ctor \in BOOLEAN,
         umem_cache_create(t, ctor)
  PROVE  UmemInv'
<1> USE DEF UmemInv, umem_cache_create, Goto, heapVars
<1>1. /\ ptr[t] \in Chunk /\ ptr[t] # NULL /\ owner[ptr[t]] = t /\ call[t].fn = "create"
      /\ cache = NULL /\ cached = {} /\ t # Nobody
  BY UmemAssumption DEF UmemAssumption, TypeInv, ThreadInv, CacheInv
<1>2. cache' \in Cache /\ cache'.at = ptr[t] /\ cache' # NULL
  BY <1>1, UmemAssumption DEF UmemAssumption, TypeInv, Cache
<1>3. TypeInv'
  BY <1>2 DEF TypeInv, Label
<1>4. \A u \in Thread : ThreadInv(u)'
  BY <1>1 DEF TypeInv, ThreadInv
<1>5. CacheInv'
  BY <1>1, <1>2 DEF TypeInv, CacheInv
<1>6. ChunkInv' /\ ReturnInv'
  BY <1>1 DEF TypeInv, ChunkInv, ReturnInv, NofailReturnsMemory, ZallocIsZeroed
<1> QED
  BY <1>3, <1>4, <1>5, <1>6

\* The call returns, and its caller owns the chunk.
LEMMA ReturnStepInv ==
  ASSUME UmemAssumption, UmemInv, NEW t \in Thread, Return(t)
  PROVE  UmemInv'
<1> USE DEF UmemInv, Return, Goto
<1>1. TypeInv'
  BY DEF TypeInv, Label, Idle, Fn, Align
<1>2. call'[t].fn = "none" /\ ptr'[t] = NULL /\ pc'[t] = "idle"
  BY DEF TypeInv, Idle
<1>3. \A u \in Thread : u # t => call'[u] = call[u] /\ pc'[u] = pc[u] /\ ptr'[u] = ptr[u]
  BY DEF TypeInv
<1>4. \A u \in Thread : ThreadInv(u)'
  BY <1>2, <1>3 DEF ThreadInv
<1>5. CacheInv'
  BY <1>2, <1>3 DEF CacheInv
<1>6. ChunkInv'
  BY <1>2, <1>3 DEF ChunkInv
<1>7. ReturnInv'
  <2>1. ASSUME NEW u \in Thread, pc'[u] = "return", ptr'[u] # NULL
        PROVE  content'[ptr[u]] = content[ptr[u]]
    <3>1. u # t /\ pc[u] = "return" /\ ptr[u] # NULL
      BY <1>2, <1>3, <2>1
    <3>2. owner[ptr[u]] = u /\ (ptr[t] # NULL => owner[ptr[t]] = t)
      BY <3>1 DEF ThreadInv
    <3> QED
      BY <3>1, <3>2 DEF TypeInv
  <2> QED
    BY <1>2, <1>3, <2>1 DEF ReturnInv, NofailReturnsMemory, ZallocIsZeroed
<1> QED
  BY <1>1, <1>4, <1>5, <1>6, <1>7

\* umem_free(): the chunk is neither of the cache nor the cache itself.
LEMMA FreeInv ==
  ASSUME UmemAssumption, UmemInv, NEW t \in Thread, NEW c \in Chunk, umem_free(t, c)
  PROVE  UmemInv'
<1> USE DEF UmemInv
<1>1. /\ owner[c] = t /\ pc[t] = "idle" /\ ptr[t] = NULL /\ c \notin cached
      /\ cache # NULL => cache.at # c
      /\ owner' = [owner EXCEPT ![c] = Nobody] /\ cached' = cached
      /\ UNCHANGED <<content, made, cache, call, pc, ptr, aborted>>
  BY DEF umem_free, GiveBack, InUse, HasCache, ThreadInv
<1>2. \A u \in Thread : ptr[u] # NULL => ptr[u] # c
  BY <1>1 DEF ThreadInv
<1>3. TypeInv'
  BY <1>1 DEF TypeInv
<1>4. \A u \in Thread : ThreadInv(u)'
  BY <1>1, <1>2 DEF TypeInv, ThreadInv
<1>5. CacheInv'
  BY <1>1 DEF TypeInv, CacheInv, Cache
<1>6. ChunkInv' /\ ReturnInv'
  BY <1>1 DEF TypeInv, ChunkInv, ReturnInv, NofailReturnsMemory, ZallocIsZeroed
<1> QED
  BY <1>3, <1>4, <1>5, <1>6

\* umem_cache_free() up to its destructor.
LEMMA CacheFreeInv ==
  ASSUME UmemAssumption, UmemInv, NEW t \in Thread, NEW c \in Chunk,
         umem_cache_free(t, c)
  PROVE  UmemInv'
<1> USE DEF UmemInv
<1>1. /\ owner[c] = t /\ pc[t] = "idle" /\ ptr[t] = NULL /\ call[t].fn = "none"
      /\ c \in cached /\ cache # NULL /\ c # NULL
      /\ pc' = [pc EXCEPT ![t] = "destruct"] /\ ptr' = [ptr EXCEPT ![t] = c]
      /\ UNCHANGED <<heapVars, cache, call, aborted>>
  BY UmemAssumption DEF UmemAssumption, umem_cache_free, Goto, ThreadInv, CacheInv
<1>2. TypeInv'
  BY <1>1 DEF TypeInv, Label, heapVars
<1>3. \A u \in Thread : ThreadInv(u)'
  BY <1>1 DEF TypeInv, ThreadInv, heapVars
<1>4. CacheInv'
  BY <1>1 DEF TypeInv, CacheInv, heapVars
<1>5. ChunkInv' /\ ReturnInv'
  BY <1>1 DEF TypeInv, ChunkInv, ReturnInv, NofailReturnsMemory, ZallocIsZeroed, heapVars
<1> QED
  BY <1>2, <1>3, <1>4, <1>5

\* The destructor takes the object away before the chunk goes back.
LEMMA DestructInv ==
  ASSUME UmemAssumption, UmemInv, NEW t \in Thread, Destruct(t)
  PROVE  UmemInv'
<1> USE DEF UmemInv
<1> DEFINE c == ptr[t]
<1>1. /\ c \in Chunk /\ c # NULL /\ owner[c] = t /\ c \in cached /\ call[t].fn = "none"
      /\ pc[t] = "destruct" /\ cache # NULL
      /\ pc' = [pc EXCEPT ![t] = "idle"] /\ ptr' = [ptr EXCEPT ![t] = NULL]
      /\ owner' = [owner EXCEPT ![c] = Nobody] /\ cached' = cached \ {c}
      /\ content' = [content EXCEPT ![c] = "dirty"]
      /\ made' = [made EXCEPT ![c] = IF cache.ctor THEN made[c] - 1 ELSE made[c]]
      /\ UNCHANGED <<cache, call, aborted>>
  BY DEF TypeInv, ThreadInv, CacheInv, Destruct, Goto, GiveBack
<1> HIDE DEF c
<1>2. \A u \in Thread : u # t /\ ptr[u] # NULL => ptr[u] # c
  BY <1>1 DEF ThreadInv
<1>3. cache.ctor \in BOOLEAN /\ (made[c] = 1 <=> cache.ctor) /\ made[c] \in {0, 1}
  <2>1. \A u \in Thread : ~(pc[u] = "construct" /\ ptr[u] = c)
    BY <1>1, <1>2 DEF ThreadInv, c
  <2> QED
    BY <1>1, <2>1 DEF TypeInv, ChunkInv, Cache
<1>4. made' = [made EXCEPT ![c] = 0]
  <2>1. (IF cache.ctor THEN made[c] - 1 ELSE made[c]) = 0
    BY <1>3
  <2> QED
    BY <1>1, <2>1
<1>5. TypeInv'
  BY <1>1, <1>4 DEF TypeInv, Label
<1>6. \A u \in Thread : ThreadInv(u)'
  BY <1>1, <1>2 DEF TypeInv, ThreadInv
<1>7. CacheInv'
  BY <1>1 DEF TypeInv, CacheInv, Cache
<1>8. ChunkInv'
  <2>1. \A d \in Chunk : d # c =>
          ((\E u \in Thread : pc'[u] = "construct" /\ ptr'[u] = d)
             <=> (\E u \in Thread : pc[u] = "construct" /\ ptr[u] = d))
    BY <1>1 DEF TypeInv, c
  <2> QED
    BY <1>1, <1>4, <2>1 DEF TypeInv, ChunkInv
<1>9. ReturnInv'
  BY <1>1, <1>2 DEF TypeInv, ReturnInv, NofailReturnsMemory, ZallocIsZeroed
<1> QED
  BY <1>5, <1>6, <1>7, <1>8, <1>9

\* umem_cache_destroy(), when nothing of the cache is left.
LEMMA DestroyInv ==
  ASSUME UmemAssumption, UmemInv, NEW t \in Thread, umem_cache_destroy(t)
  PROVE  UmemInv'
<1> USE DEF UmemInv
<1> DEFINE c == cache.at
<1>1. /\ cache # NULL /\ c \in Chunk /\ owner[c] = t /\ pc[t] = "idle" /\ ptr[t] = NULL
      /\ cached = {} /\ \A u \in Thread : pc[u] # "destruct" /\ call[u].fn # "cache"
      /\ owner' = [owner EXCEPT ![c] = Nobody] /\ cached' = {} /\ cache' = NULL
      /\ UNCHANGED <<content, made, call, pc, ptr, aborted>>
  BY DEF umem_cache_destroy, GiveBack, HasCache, TypeInv, ThreadInv, Cache
<1> HIDE DEF c
<1>2. \A u \in Thread : ptr[u] # NULL => ptr[u] # c
  BY <1>1 DEF ThreadInv
<1>3. TypeInv'
  BY <1>1 DEF TypeInv
<1>4. \A u \in Thread : ThreadInv(u)'
  BY <1>1, <1>2 DEF TypeInv, ThreadInv
<1>5. CacheInv' /\ ChunkInv' /\ ReturnInv'
  BY <1>1 DEF TypeInv, CacheInv, ChunkInv, ReturnInv, NofailReturnsMemory, ZallocIsZeroed
<1> QED
  BY <1>3, <1>4, <1>5

\* Every step of every thread keeps the invariant.
LEMMA UmemNext == UmemAssumption /\ UmemInv /\ [Next]_vars => UmemInv'
<1> SUFFICES ASSUME UmemAssumption, UmemInv, [Next]_vars PROVE UmemInv'
  OBVIOUS
<1>1. CASE UNCHANGED vars
  BY <1>1 DEF vars, UmemInv, TypeInv, ThreadInv, CacheInv, ChunkInv, ReturnInv,
              NofailReturnsMemory, ZallocIsZeroed
<1>2. ASSUME NEW t \in Thread, Step(t) PROVE UmemInv'
  BY <1>2, AllocInv, ZallocInv, ConstructInv, CreateInv, ReturnStepInv, DestructInv DEF Step
<1>3. ASSUME NEW t \in Thread,
             \/ \E k \in Call : Enter(t, k)
             \/ \E c \in Chunk : umem_free(t, c) \/ umem_cache_free(t, c)
             \/ umem_cache_destroy(t)
      PROVE  UmemInv'
  BY <1>3, EnterInv, FreeInv, CacheFreeInv, DestroyInv
<1> QED
  BY <1>1, <1>2, <1>3 DEF Next

\* What a reader wants of the invariant.
LEMMA UmemInvImplies ==
  UmemInv => NofailReturnsMemory /\ ZallocIsZeroed /\ MadeInTurn
BY DEF UmemInv, ReturnInv, MadeInTurn, ChunkInv, TypeInv

\* For any number of threads and chunks and any mix of calls: a UMEM_NOFAIL call
\* returns memory, umem_zalloc() returns zeroes also in a recycled chunk, and
\* no chunk goes back to the heap with a constructed object in it or is
\* constructed twice.
THEOREM UmemSafe ==
  ASSUME UmemAssumption
  PROVE  Spec => [](NofailReturnsMemory /\ ZallocIsZeroed /\ MadeInTurn)
BY UmemInit, UmemNext, UmemInvImplies, PTL DEF Spec
=============================================================================
