------------------------------ MODULE MemPool ------------------------------
(***************************************************************************)
(* src/src/mem-pool.h and mem-pool.cpp: the MemTracker that counts the     *)
(* bytes in use against a limit, and the MemPool that hands out chunks     *)
(* charged to it.  A pool is a record, so that a step of a caller may make *)
(* several calls one after the other:                                      *)
(*                                                                         *)
(*   max_size, current_size   the fields of its MemTracker                 *)
(*   chunk_sizes              the map from the address of a chunk to its   *)
(*                            size                                         *)
(*   live                     the blocks of the C heap that malloc handed  *)
(*                            to the pool and that were not freed          *)
(*                                                                         *)
(* Sizes are uint64_t in the code.  Their sum is the memory of one process *)
(* and cannot reach 2^64, so addition is that of the integers; a release   *)
(* of more than was charged would wrap, and is the negative current_size   *)
(* that property Accounting of PoolClient excludes.                        *)
(***************************************************************************)
EXTENDS Integers, FiniteSets, Functions

CONSTANTS
  Addr,  \* the addresses malloc may return
  NULL   \* nullptr

ASSUME NullAssumption == NULL \notin Addr

(***************************************************************************)
(* Maps: m[k] = v, and m.erase(k).                                         *)
(***************************************************************************)
Put(m, k, v) == [x \in DOMAIN m \cup {k} |-> IF x = k THEN v ELSE m[x]]
Erase(m, k)  == [x \in DOMAIN m \ {k} |-> m[x]]

EmptyMap == [x \in {} |-> 0]

(***************************************************************************)
(* The bytes a chunk map accounts for, one pair <<address, offset>> each,  *)
(* and their number: the sum of the sizes, as a cardinality.  (It is that  *)
(* of the values of any map to natural numbers.)                           *)
(***************************************************************************)
Bytes(chunks) == UNION {{a} \X (1 .. chunks[a]) : a \in DOMAIN chunks}
Held(chunks)  == Cardinality(Bytes(chunks))

-----------------------------------------------------------------------------

NewPool(limit) ==
  [max_size |-> limit, current_size |-> 0, chunk_sizes |-> EmptyMap, live |-> {}]

\* MemTracker::TryConsume takes the bytes only below the limit.
\* (Mutant StopsOneByteLate: off by one.)
StopsOneByteLate(p, size) == p.current_size + size <= p.max_size + 1
TryConsume(p, size) == p.current_size + size <= p.max_size

\* malloc: any block that is not live, or nullptr; callers bound the failures.
Malloc(p) == (Addr \ p.live) \cup {NULL}

(***************************************************************************)
(* MemPool::Allocate with a the address malloc returned, which is not      *)
(* looked at: nullptr becomes a key of chunk_sizes like any other.         *)
(***************************************************************************)
Allocate(p, a, size) ==
  [p EXCEPT !.current_size = @ + size,
            !.chunk_sizes  = Put(@, a, size),
            !.live         = @ \cup ({a} \ {NULL})]

(***************************************************************************)
(* MemPool::TryAllocate, as the set of what it may return together with    *)
(* the pool it leaves behind.                                              *)
(***************************************************************************)
TryAllocate(p, size) ==
  IF TryConsume(p, size)
    THEN {[ptr |-> a, pool |-> Allocate(p, a, size)] : a \in Malloc(p)}
    ELSE {[ptr |-> NULL, pool |-> p]}

\* Mutants of Free: no Release; no std::free; chunk_sizes_[ptr] = 0 for erase.
FreeKeepsCharge(p, ptr) ==
  [p EXCEPT !.chunk_sizes = Erase(@, ptr), !.live = @ \ {ptr}]
FreeForgetsBlock(p, ptr) ==
  IF ptr \in DOMAIN p.chunk_sizes
    THEN [p EXCEPT !.current_size = @ - p.chunk_sizes[ptr],
                   !.chunk_sizes  = Erase(@, ptr)]
    ELSE p
FreeZeroesSize(p, ptr) ==
  IF ptr \in DOMAIN p.chunk_sizes
    THEN [p EXCEPT !.current_size = @ - p.chunk_sizes[ptr],
                   !.chunk_sizes  = Put(@, ptr, 0),
                   !.live         = @ \ {ptr}]
    ELSE p

\* MemPool::Free, which ignores an address that is not a chunk.
Free(p, ptr) ==
  IF ptr \in DOMAIN p.chunk_sizes
    THEN [p EXCEPT !.current_size = @ - p.chunk_sizes[ptr],
                   !.chunk_sizes  = Erase(@, ptr),
                   !.live         = @ \ {ptr}]
    ELSE p

\* MemPool::~MemPool frees and releases every chunk of the map.
\* (Mutant DestroyKeepsCharge: no Release.)
DestroyKeepsCharge(p) ==
  [p EXCEPT !.chunk_sizes = EmptyMap, !.live = @ \ DOMAIN p.chunk_sizes]
Destroy(p) ==
  [p EXCEPT !.current_size = @ - Held(p.chunk_sizes),
            !.chunk_sizes  = EmptyMap,
            !.live         = @ \ DOMAIN p.chunk_sizes]

=============================================================================
