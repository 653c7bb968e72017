--------------------------- MODULE MemPoolLemmas ---------------------------
(***************************************************************************)
(* What the operations of MemPool do to a pool, for every set of addresses *)
(* and every size: the facts the proofs about its clients rest on.  The    *)
(* sum of the sizes of the chunks is a cardinality (Held), so that adding  *)
(* and removing a chunk are unions and differences of finite sets.         *)
(***************************************************************************)
EXTENDS MemPool, FiniteSetTheorems, TLAPS

\* The maps from addresses to sizes chunk_sizes_ may be.
ChunkMaps == UNION {[D -> Nat] : D \in SUBSET (Addr \cup {NULL})}
ChunkMap(c) == c \in ChunkMaps

Pools ==
  [max_size : Nat, current_size : Int, chunk_sizes : ChunkMaps, live : SUBSET Addr]

\* A pool in a state its operations can bring it to.
PoolOK(p) ==
  /\ p \in Pools
  /\ IsFiniteSet(Bytes(p.chunk_sizes))
  /\ Held(p.chunk_sizes) <= p.current_size
  /\ p.live = DOMAIN p.chunk_sizes \ {NULL}

\* The pool of a process in which no malloc has failed.
PoolExact(p) ==
  p.current_size = Held(p.chunk_sizes) /\ NULL \notin DOMAIN p.chunk_sizes

-----------------------------------------------------------------------------

\* What it is to be such a map.
LEMMA ChunkMapForm ==
  ASSUME NEW c
  PROVE  ChunkMap(c) <=> /\ c = [x \in DOMAIN c |-> c[x]]
                         /\ DOMAIN c \subseteq Addr \cup {NULL}
                         /\ \A a \in DOMAIN c : c[a] \in Nat
BY DEF ChunkMap, ChunkMaps

\* The bytes of one chunk.
LEMMA Block ==
  ASSUME NEW a, NEW n \in Nat
  PROVE  IsFiniteSet({a} \X (1 .. n)) /\ Cardinality({a} \X (1 .. n)) = n
<1>1. IsFiniteSet({a}) /\ Cardinality({a}) = 1
  BY FS_Singleton
<1>2. IsFiniteSet(1 .. n) /\ Cardinality(1 .. n) = n
  BY FS_Interval
<1>3. /\ IsFiniteSet({a} \X (1 .. n))
      /\ Cardinality({a} \X (1 .. n)) = Cardinality({a}) * Cardinality(1 .. n)
  BY <1>1, <1>2, FS_Product
<1> QED
  BY <1>1, <1>2, <1>3

\* A new chunk of n bytes adds n to the bytes held (TryAllocate, Allocate).
LEMMA HeldPut ==
  ASSUME NEW c, IsFiniteSet(Bytes(c)), NEW a, a \notin DOMAIN c, NEW n \in Nat
  PROVE  IsFiniteSet(Bytes(Put(c, a, n))) /\ Held(Put(c, a, n)) = Held(c) + n
<1> DEFINE d == Put(c, a, n)
           B == {a} \X (1 .. n)
<1>1. DOMAIN d = DOMAIN c \cup {a} /\ d[a] = n /\ \A x \in DOMAIN c : d[x] = c[x]
  BY DEF Put
<1>2. Bytes(d) = Bytes(c) \cup B
  <2> HIDE DEF d
  <2> QED BY <1>1 DEF Bytes
<1>3. Bytes(c) \cap B = {}
  BY DEF Bytes
<1>4. IsFiniteSet(B) /\ Cardinality(B) = n
  BY Block
<1>5. /\ IsFiniteSet(Bytes(c) \cup B)
      /\ Cardinality(Bytes(c) \cup B)
           = Cardinality(Bytes(c)) + Cardinality(B) - Cardinality({})
  BY <1>3, <1>4, FS_Union
<1>6. Cardinality({}) = 0
  BY FS_EmptySet
<1>7. Cardinality(Bytes(c)) \in Nat
  BY FS_CardinalityType
<1> QED
  BY <1>2, <1>4, <1>5, <1>6, <1>7 DEF Held

\* Erasing a chunk takes its size off the bytes held (Free).
LEMMA HeldErase ==
  ASSUME NEW c, ChunkMap(c), IsFiniteSet(Bytes(c)), NEW a \in DOMAIN c
  PROVE  IsFiniteSet(Bytes(Erase(c, a))) /\ Held(Erase(c, a)) = Held(c) - c[a]
<1> DEFINE e == Erase(c, a)
<1>1. DOMAIN e = DOMAIN c \ {a} /\ \A x \in DOMAIN e : e[x] = c[x]
  BY DEF Erase
<1>2. Bytes(e) \subseteq Bytes(c)
  <2> HIDE DEF e
  <2> QED BY <1>1 DEF Bytes
<1>3. IsFiniteSet(Bytes(e))
  BY <1>2, FS_Subset
<1>4. Put(e, a, c[a]) = c
  <2> HIDE DEF e
  <2> QED BY <1>1, ChunkMapForm DEF Put
<1>5. c[a] \in Nat /\ a \notin DOMAIN e
  BY <1>1, ChunkMapForm
<1>6. Held(Put(e, a, c[a])) = Held(e) + c[a]
  <2> HIDE DEF e
  <2> QED BY <1>3, <1>5, HeldPut
<1>7. Held(e) \in Nat
  BY <1>3, FS_CardinalityType DEF Held
<1> QED
  BY <1>3, <1>4, <1>5, <1>6, <1>7

\* Maps stay maps.
LEMMA ChunkMapPut ==
  ASSUME NEW c, ChunkMap(c), NEW a \in Addr \cup {NULL}, NEW n \in Nat
  PROVE  ChunkMap(Put(c, a, n)) /\ DOMAIN Put(c, a, n) = DOMAIN c \cup {a}
BY ChunkMapForm DEF Put

LEMMA ChunkMapErase ==
  ASSUME NEW c, ChunkMap(c), NEW a
  PROVE  ChunkMap(Erase(c, a)) /\ DOMAIN Erase(c, a) = DOMAIN c \ {a}
BY ChunkMapForm DEF Erase

(***************************************************************************)
(* The bytes held when chunk_sizes_[a] = n overwrites an entry: only       *)
(* chunk_sizes_[nullptr] can be there already.                             *)
(***************************************************************************)
LEMMA HeldOverwrite ==
  ASSUME NEW c, ChunkMap(c), IsFiniteSet(Bytes(c)), NEW a \in DOMAIN c, NEW n \in Nat
  PROVE  /\ IsFiniteSet(Bytes(Put(c, a, n)))
         /\ Held(Put(c, a, n)) <= Held(c) + n
<1> DEFINE e == Erase(c, a)
<1>1. IsFiniteSet(Bytes(e)) /\ Held(e) = Held(c) - c[a]
  BY HeldErase
<1>2. a \notin DOMAIN e
  BY DEF Erase
<1>3. IsFiniteSet(Bytes(Put(e, a, n))) /\ Held(Put(e, a, n)) = Held(e) + n
  <2> HIDE DEF e
  <2> QED BY <1>1, <1>2, HeldPut
<1>4. Put(e, a, n) = Put(c, a, n)
  BY DEF Put, Erase
<1>5. c[a] \in Nat /\ Held(c) \in Nat
  BY FS_CardinalityType, ChunkMapForm DEF Held
<1> QED
  BY <1>1, <1>3, <1>4, <1>5

-----------------------------------------------------------------------------

\* The fields of a pool, and a pool made of its fields.
LEMMA PoolFields ==
  ASSUME NEW p, PoolOK(p)
  PROVE  /\ p = [max_size |-> p.max_size, current_size |-> p.current_size,
                 chunk_sizes |-> p.chunk_sizes, live |-> p.live]
         /\ p.max_size \in Nat /\ p.current_size \in Int
         /\ ChunkMap(p.chunk_sizes) /\ p.live \subseteq Addr
         /\ IsFiniteSet(Bytes(p.chunk_sizes))
         /\ Held(p.chunk_sizes) \in Nat /\ Held(p.chunk_sizes) <= p.current_size
         /\ p.live = DOMAIN p.chunk_sizes \ {NULL}
BY FS_CardinalityType DEF PoolOK, Pools, ChunkMap, Held

LEMMA PoolExcept ==
  ASSUME NEW p \in Pools, NEW size, NEW c, NEW blocks
  PROVE  [p EXCEPT !.current_size = size, !.chunk_sizes = c, !.live = blocks]
           = [max_size |-> p.max_size, current_size |-> size,
              chunk_sizes |-> c, live |-> blocks]
<1> DEFINE q == [p EXCEPT !.current_size = size, !.chunk_sizes = c, !.live = blocks]
           fields == {"max_size", "current_size", "chunk_sizes", "live"}
<1>1. p = [x \in fields |-> p[x]] /\ DOMAIN p = fields
  BY DEF Pools
<1>2. q = [x \in fields |-> q[x]]
  BY <1>1
<1>3. /\ q.max_size = p.max_size /\ q.current_size = size
      /\ q.chunk_sizes = c /\ q.live = blocks
  BY <1>1
<1> HIDE DEF q
<1>4. q = [max_size |-> q.max_size, current_size |-> q.current_size,
           chunk_sizes |-> q.chunk_sizes, live |-> q.live]
  BY <1>2
<1> QED
  BY <1>3, <1>4 DEF q

LEMMA PoolOfFields ==
  ASSUME NEW max \in Nat, NEW size \in Int, NEW c, ChunkMap(c), NEW blocks,
         IsFiniteSet(Bytes(c)), Held(c) <= size, blocks = DOMAIN c \ {NULL}
  PROVE  PoolOK([max_size |-> max, current_size |-> size,
                 chunk_sizes |-> c, live |-> blocks])
<1>1. blocks \subseteq Addr
  BY ChunkMapForm
<1> QED
  BY <1>1 DEF PoolOK, Pools, ChunkMap

\* The constructor.
LEMMA NothingHeld ==
  /\ ChunkMap(EmptyMap) /\ DOMAIN EmptyMap = {}
  /\ IsFiniteSet(Bytes(EmptyMap)) /\ Held(EmptyMap) = 0
<1>1. ChunkMap(EmptyMap) /\ DOMAIN EmptyMap = {}
  BY ChunkMapForm DEF EmptyMap
<1>2. Bytes(EmptyMap) = {}
  BY DEF Bytes, EmptyMap
<1> QED
  BY <1>1, <1>2, FS_EmptySet DEF Held

LEMMA NewPoolOK ==
  ASSUME NEW max \in Nat
  PROVE  /\ PoolOK(NewPool(max)) /\ PoolExact(NewPool(max))
         /\ NewPool(max).live = {} /\ NewPool(max).max_size = max
         /\ NewPool(max).current_size = 0 /\ DOMAIN NewPool(max).chunk_sizes = {}
<1>1. PoolOK(NewPool(max))
  BY NothingHeld, PoolOfFields, 0 \in Int, 0 <= 0 DEF NewPool
<1> QED
  BY <1>1, NothingHeld DEF NewPool, PoolExact

\* Both ways to allocate, the address being what malloc may return.
LEMMA AllocateOK ==
  ASSUME NEW p, PoolOK(p), NEW a \in Malloc(p), NEW n \in Nat
  PROVE  LET q == Allocate(p, a, n) IN
         /\ PoolOK(q)
         /\ q.max_size = p.max_size
         /\ q.current_size = p.current_size + n
         /\ q.live = p.live \cup ({a} \ {NULL})
         /\ DOMAIN q.chunk_sizes = DOMAIN p.chunk_sizes \cup {a}
         /\ a \notin DOMAIN p.chunk_sizes /\ p.current_size = Held(p.chunk_sizes)
              => q.current_size = Held(q.chunk_sizes)
<1> DEFINE c == p.chunk_sizes
           d == Put(c, a, n)
           blocks == p.live \cup ({a} \ {NULL})
           size == p.current_size + n
<1>1. a \in Addr \cup {NULL}
  BY PoolFields DEF Malloc
<1>2. Allocate(p, a, n) = [max_size |-> p.max_size, current_size |-> size,
                           chunk_sizes |-> d, live |-> blocks]
  <2> HIDE DEF size, d, blocks
  <2>1. Allocate(p, a, n) = [p EXCEPT !.current_size = size, !.chunk_sizes = d,
                                      !.live = blocks]
    BY DEF Allocate, size, d, blocks
  <2> QED BY <2>1, PoolExcept DEF PoolOK
<1>3. ChunkMap(d) /\ DOMAIN d = DOMAIN c \cup {a}
  BY <1>1, PoolFields, ChunkMapPut
<1>4. /\ IsFiniteSet(Bytes(d))
      /\ Held(d) <= Held(c) + n
      /\ a \notin DOMAIN c => Held(d) = Held(c) + n
  <2>1. Held(c) \in Nat /\ ChunkMap(c) /\ IsFiniteSet(Bytes(c))
    BY PoolFields
  <2>2. CASE a \in DOMAIN c
    BY <2>1, <2>2, HeldOverwrite
  <2>3. CASE a \notin DOMAIN c
    BY <2>1, <2>3, HeldPut
  <2> QED BY <2>2, <2>3
<1>5. Held(d) \in Nat
  BY <1>4, FS_CardinalityType DEF Held
<1>6. /\ Held(c) \in Nat /\ Held(c) <= p.current_size
      /\ p.current_size \in Int /\ p.max_size \in Nat
      /\ p.live = DOMAIN c \ {NULL}
  BY PoolFields
<1>7. size \in Int /\ Held(d) <= size /\ blocks = DOMAIN d \ {NULL}
  <2> HIDE DEF c, d
  <2> QED BY <1>3, <1>4, <1>5, <1>6
<1>8. p.current_size = Held(c) /\ a \notin DOMAIN c => size = Held(d)
  BY <1>4
<1> HIDE DEF c, d, size, blocks
<1>9. PoolOK([max_size |-> p.max_size, current_size |-> size,
              chunk_sizes |-> d, live |-> blocks])
  BY <1>3, <1>4, <1>6, <1>7, PoolOfFields
<1> QED
  BY <1>2, <1>3, <1>8, <1>9 DEF c, size, blocks

\* Free of any address, of a chunk or not.
LEMMA FreeOK ==
  ASSUME NEW p, PoolOK(p), NEW ptr
  PROVE  LET q == Free(p, ptr) IN
         /\ PoolOK(q)
         /\ q.max_size = p.max_size
         /\ q.current_size <= p.current_size
         /\ q.live = p.live \ {ptr}
         /\ DOMAIN q.chunk_sizes = DOMAIN p.chunk_sizes \ {ptr}
         /\ p.current_size = Held(p.chunk_sizes) => q.current_size = Held(q.chunk_sizes)
<1> DEFINE c == p.chunk_sizes
           d == Erase(c, ptr)
           blocks == p.live \ {ptr}
           size == p.current_size - c[ptr]
<1>1. CASE ptr \notin DOMAIN c
  BY <1>1, PoolFields DEF Free
<1>2. CASE ptr \in DOMAIN c
  <2>1. Free(p, ptr) = [max_size |-> p.max_size, current_size |-> size,
                        chunk_sizes |-> d, live |-> blocks]
    BY <1>2 DEF Free, PoolOK, Pools
  <2>2. ChunkMap(d) /\ DOMAIN d = DOMAIN c \ {ptr}
    BY PoolFields, ChunkMapErase
  <2>3. IsFiniteSet(Bytes(d)) /\ Held(d) = Held(c) - c[ptr]
    BY <1>2, PoolFields, HeldErase
  <2>4. /\ Held(c) \in Nat /\ c[ptr] \in Nat /\ Held(c) <= p.current_size
        /\ p.current_size \in Int /\ p.max_size \in Nat
        /\ p.live = DOMAIN c \ {NULL}
    BY <1>2, PoolFields, ChunkMapForm
  <2>5. /\ size \in Int /\ Held(d) <= size /\ blocks = DOMAIN d \ {NULL}
        /\ size <= p.current_size
        /\ p.current_size = Held(c) => size = Held(d)
    <3> HIDE DEF c, d
    <3> QED BY <2>2, <2>3, <2>4
  <2> HIDE DEF c, d, size, blocks
  <2>6. PoolOK([max_size |-> p.max_size, current_size |-> size,
                chunk_sizes |-> d, live |-> blocks])
    BY <2>2, <2>3, <2>4, <2>5, PoolOfFields
  <2> QED
    BY <2>1, <2>2, <2>5, <2>6 DEF c, blocks
<1> QED BY <1>1, <1>2

\* The destructor.
LEMMA DestroyOK ==
  ASSUME NEW p, PoolOK(p)
  PROVE  LET q == Destroy(p) IN
         /\ PoolOK(q) /\ q.max_size = p.max_size
         /\ q.live = {} /\ q.chunk_sizes = EmptyMap
         /\ q.current_size = p.current_size - Held(p.chunk_sizes)
<1> DEFINE size == p.current_size - Held(p.chunk_sizes)
<1>1. Destroy(p) = [max_size |-> p.max_size, current_size |-> size,
                    chunk_sizes |-> EmptyMap, live |-> {}]
  <2>1. p.live \ DOMAIN p.chunk_sizes = {}
    BY PoolFields
  <2>2. Destroy(p) = [max_size |-> p.max_size, current_size |-> size,
                      chunk_sizes |-> EmptyMap,
                      live |-> p.live \ DOMAIN p.chunk_sizes]
    BY PoolExcept DEF Destroy, PoolOK
  <2> QED BY <2>1, <2>2
<1>2. size \in Int /\ 0 <= size /\ p.max_size \in Nat
  BY PoolFields
<1>3. PoolOK([max_size |-> p.max_size, current_size |-> size,
              chunk_sizes |-> EmptyMap, live |-> {}])
  <2> HIDE DEF size
  <2> QED BY <1>2, NothingHeld, PoolOfFields
<1> QED
  BY <1>1, <1>3

\* A pool without live blocks in which no malloc has failed counts nothing.
LEMMA EmptyPool ==
  ASSUME NEW p, PoolOK(p), PoolExact(p), p.live = {}
  PROVE  p.current_size = 0
<1>1. DOMAIN p.chunk_sizes = {}
  BY PoolFields DEF PoolExact
<1>2. Bytes(p.chunk_sizes) = {}
  BY <1>1 DEF Bytes
<1> QED
  BY <1>2, FS_EmptySet DEF PoolExact, Held

\* The types of the pool's fields, from the invariant on it.
LEMMA PoolTypes ==
  ASSUME NEW p, PoolOK(p)
  PROVE  /\ p.current_size \in Int
         /\ DOMAIN p.chunk_sizes \subseteq Addr \cup {NULL}
         /\ p.live \subseteq Addr
BY PoolFields, ChunkMapForm

\* No chunk is empty, as no string is.
ChunksNonempty(p) == \A a \in DOMAIN p.chunk_sizes : p.chunk_sizes[a] > 0

\* Allocating at least one byte, and freeing, keep it so.
LEMMA NonemptyKept ==
  ASSUME NEW p, PoolOK(p), ChunksNonempty(p)
  PROVE  /\ \A n \in Nat \ {0} : \A r \in TryAllocate(p, n) : ChunksNonempty(r.pool)
         /\ \A ptr : ChunksNonempty(Free(p, ptr))
<1>1. ASSUME NEW n \in Nat \ {0}, NEW r \in TryAllocate(p, n)
      PROVE  ChunksNonempty(r.pool)
  <2>1. CASE TryConsume(p, n)
    <3>1. PICK a \in Malloc(p) : r.pool = Allocate(p, a, n)
      BY <2>1 DEF TryAllocate
    <3>2. r.pool.chunk_sizes = Put(p.chunk_sizes, a, n)
      BY <3>1, PoolFields DEF Allocate
    <3> QED BY <3>2 DEF ChunksNonempty, Put
  <2>2. CASE ~TryConsume(p, n)
    BY <2>2 DEF TryAllocate
  <2> QED BY <2>1, <2>2
<1>2. ASSUME NEW ptr PROVE ChunksNonempty(Free(p, ptr))
  <2>1. CASE ptr \in DOMAIN p.chunk_sizes
    <3>1. Free(p, ptr).chunk_sizes = Erase(p.chunk_sizes, ptr)
      BY <2>1, PoolFields DEF Free
    <3> QED BY <3>1 DEF ChunksNonempty, Erase
  <2>2. CASE ptr \notin DOMAIN p.chunk_sizes
    BY <2>2 DEF Free
  <2> QED BY <2>1, <2>2
<1> QED BY <1>1, <1>2

\* There are no more chunks than bytes: each has a first byte of its own.
LEMMA ChunksWithinBytes ==
  ASSUME NEW p, PoolOK(p), ChunksNonempty(p)
  PROVE  LET chunks == DOMAIN p.chunk_sizes IN
         IsFiniteSet(chunks) /\ Cardinality(chunks) <= Held(p.chunk_sizes)
<1> DEFINE chunks == DOMAIN p.chunk_sizes
           first == [a \in chunks |-> <<a, 1>>]
<1>1. \A a \in chunks : p.chunk_sizes[a] \in Nat /\ p.chunk_sizes[a] > 0
  BY PoolFields, ChunkMapForm DEF ChunksNonempty
<1>2. \A a \in chunks : <<a, 1>> \in Bytes(p.chunk_sizes)
  BY <1>1 DEF Bytes
<1>3. first \in Injection(chunks, Bytes(p.chunk_sizes))
  BY <1>2 DEF Injection, IsInjective
<1> QED
  BY <1>3, PoolFields, FS_Injection DEF Held

=============================================================================
