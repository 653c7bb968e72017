-------------------------- MODULE PoolClientProofs --------------------------
(***************************************************************************)
(* The memory pool is correct for every set of addresses, every set of     *)
(* sizes, every limit and every sequence of calls: no failed malloc, no    *)
(* double or stray Free and no destructor confuses its books.              *)
(***************************************************************************)
EXTENDS PoolClient, MemPoolLemmas

SizesOK(p) == \A a \in DOMAIN p.chunk_sizes : p.chunk_sizes[a] \in Sizes

(***************************************************************************)
(* The inductive invariant.  Accounting alone is not inductive: whether    *)
(* the second failed malloc overwrites chunk_sizes_[nullptr] depends on    *)
(* nullptr being a key only after the first.                               *)
(***************************************************************************)
Inv ==
  /\ PoolOK(pool) /\ SizesOK(pool) /\ pool.max_size = MaxSize
  /\ open \in BOOLEAN /\ failures \in 0 .. MaxFailures
  /\ failures = 0 => NULL \notin DOMAIN pool.chunk_sizes
  /\ failures <= 1 => pool.current_size = Held(pool.chunk_sizes)
  /\ ~open => pool.live = {} /\ pool.chunk_sizes = EmptyMap

-----------------------------------------------------------------------------

LEMMA InitInv == Init => Inv
<1> SUFFICES ASSUME Init PROVE Inv
  OBVIOUS
<1>1. MaxSize \in Nat /\ MaxFailures \in Nat
  BY ClientAssumption
<1>2. /\ PoolOK(NewPool(MaxSize)) /\ PoolExact(NewPool(MaxSize))
      /\ DOMAIN NewPool(MaxSize).chunk_sizes = {}
      /\ NewPool(MaxSize).max_size = MaxSize
  BY <1>1, NewPoolOK
<1> QED
  BY <1>1, <1>2 DEF Init, Inv, SizesOK, PoolExact

(***************************************************************************)
(* What both ways to allocate do: a failure is counted when the address is *)
(* nullptr, and without one the chunk is new.                              *)
(***************************************************************************)
LEMMA AllocateInv ==
  ASSUME Inv, open, NEW size \in Sizes, NEW a \in Malloc(pool),
         pool' = Allocate(pool, a, size), open' = open,
         IF a = NULL THEN failures < MaxFailures /\ failures' = failures + 1
                     ELSE failures' = failures
  PROVE  Inv' /\ pool'.current_size = pool.current_size + size
<1>1. size \in Nat /\ MaxFailures \in Nat
  BY ClientAssumption
<1>2. PoolOK(pool) /\ pool.max_size = MaxSize
  BY DEF Inv
<1>3. /\ PoolOK(pool')
      /\ pool'.max_size = pool.max_size
      /\ pool'.current_size = pool.current_size + size
      /\ DOMAIN pool'.chunk_sizes = DOMAIN pool.chunk_sizes \cup {a}
      /\ a \notin DOMAIN pool.chunk_sizes /\ pool.current_size = Held(pool.chunk_sizes)
           => pool'.current_size = Held(pool'.chunk_sizes)
  BY <1>1, <1>2, AllocateOK
<1>4. SizesOK(pool')
  <2>1. pool'.chunk_sizes = Put(pool.chunk_sizes, a, size)
    BY <1>2 DEF Allocate, PoolOK, Pools
  <2> QED BY <2>1 DEF SizesOK, Inv, Put
<1>5. failures' \in 0 .. MaxFailures
  BY <1>1 DEF Inv
<1>6. failures' = 0 => NULL \notin DOMAIN pool'.chunk_sizes
  BY <1>3 DEF Inv
<1>7. failures' <= 1 => pool'.current_size = Held(pool'.chunk_sizes)
  <2> SUFFICES ASSUME failures' <= 1
      PROVE  a \notin DOMAIN pool.chunk_sizes /\ failures <= 1
    BY <1>3 DEF Inv
  <2>1. CASE a = NULL
    BY <2>1 DEF Inv
  <2>2. CASE a # NULL
    BY <1>2, <2>2, PoolFields DEF Malloc, Inv
  <2> QED BY <2>1, <2>2
<1> QED
  BY <1>2, <1>3, <1>4, <1>5, <1>6, <1>7 DEF Inv

LEMMA FreeInv ==
  ASSUME Inv, NEW ptr \in Addr \cup {NULL}, CallFree(ptr)
  PROVE  Inv'
<1>1. PoolOK(pool) /\ pool' = Free(pool, ptr)
  BY DEF Inv, CallFree
<1>2. /\ PoolOK(pool') /\ pool'.max_size = pool.max_size
      /\ DOMAIN pool'.chunk_sizes = DOMAIN pool.chunk_sizes \ {ptr}
      /\ pool.current_size = Held(pool.chunk_sizes)
           => pool'.current_size = Held(pool'.chunk_sizes)
  BY <1>1, FreeOK
<1>3. SizesOK(pool')
  <2>1. pool'.chunk_sizes = pool.chunk_sizes \/ pool'.chunk_sizes = Erase(pool.chunk_sizes, ptr)
    BY <1>1 DEF Free, PoolOK, Pools
  <2> QED BY <2>1 DEF SizesOK, Inv, Erase
<1> QED
  BY <1>2, <1>3 DEF Inv, CallFree

LEMMA DestructInv ==
  ASSUME Inv, Destruct
  PROVE  Inv'
<1>1. PoolOK(pool) /\ pool' = Destroy(pool)
  BY DEF Inv, Destruct
<1>2. /\ PoolOK(pool') /\ pool'.max_size = pool.max_size
      /\ pool'.live = {} /\ pool'.chunk_sizes = EmptyMap
      /\ pool'.current_size = pool.current_size - Held(pool.chunk_sizes)
  BY <1>1, DestroyOK
<1>3. DOMAIN EmptyMap = {} /\ Held(EmptyMap) = 0 /\ Held(pool.chunk_sizes) \in Nat
  BY <1>1, NothingHeld, PoolFields
<1>4. failures <= 1 => pool'.current_size = 0
  <2> SUFFICES ASSUME failures <= 1 PROVE pool'.current_size = 0
    OBVIOUS
  <2>1. pool.current_size = Held(pool.chunk_sizes)
    BY DEF Inv
  <2> QED BY <1>2, <1>3, <2>1
<1>5. open' = FALSE /\ failures' = failures
  BY DEF Destruct
<1>6. failures' \in 0 .. MaxFailures /\ pool'.max_size = MaxSize
  BY <1>2, <1>5 DEF Inv
<1>7. SizesOK(pool)' /\ NULL \notin DOMAIN pool'.chunk_sizes
  BY <1>2, <1>3 DEF SizesOK
<1>8. failures' <= 1 => pool'.current_size = Held(pool'.chunk_sizes)
  BY <1>2, <1>3, <1>4, <1>5
<1> QED
  BY <1>2, <1>5, <1>6, <1>7, <1>8 DEF Inv

LEMMA NextInv == Inv /\ [Next]_vars => Inv'
<1> SUFFICES ASSUME Inv, [Next]_vars PROVE Inv'
  OBVIOUS
<1>1. ASSUME NEW size \in Sizes, CallTryAllocate(size) PROVE Inv'
  <2>1. PICK r \in TryAllocate(pool, size) :
          /\ pool' = r.pool
          /\ IF r.ptr = NULL /\ TryConsume(pool, size)
               THEN failures < MaxFailures /\ failures' = failures + 1
               ELSE failures' = failures
    BY <1>1 DEF CallTryAllocate
  <2>2. open /\ open' = open
    BY <1>1 DEF CallTryAllocate
  <2>3. CASE TryConsume(pool, size)
    <3>1. PICK a \in Malloc(pool) : r = [ptr |-> a, pool |-> Allocate(pool, a, size)]
      BY <2>3 DEF TryAllocate
    <3>2. IF a = NULL THEN failures < MaxFailures /\ failures' = failures + 1
                      ELSE failures' = failures
      BY <2>1, <2>3, <3>1
    <3>3. pool' = Allocate(pool, a, size)
      BY <2>1, <3>1
    <3> QED BY <2>2, <3>2, <3>3, AllocateInv
  <2>4. CASE ~TryConsume(pool, size)
    <3>1. r.pool = pool
      BY <2>4 DEF TryAllocate
    <3> QED BY <2>1, <2>2, <2>4, <3>1 DEF Inv, SizesOK
  <2> QED BY <2>3, <2>4
<1>2. ASSUME NEW size \in Sizes, CallAllocate(size) PROVE Inv'
  <2>1. PICK a \in Malloc(pool) :
          /\ pool' = Allocate(pool, a, size)
          /\ IF a = NULL THEN failures < MaxFailures /\ failures' = failures + 1
                         ELSE failures' = failures
    BY <1>2 DEF CallAllocate
  <2> QED BY <1>2, <2>1, AllocateInv DEF CallAllocate
<1>3. ASSUME NEW ptr \in Addr \cup {NULL}, CallFree(ptr) PROVE Inv'
  BY <1>3, FreeInv
<1>4. CASE Destruct
  BY <1>4, DestructInv
<1>5. CASE Destructed \/ UNCHANGED vars
  BY <1>5 DEF Destructed, vars, Inv, SizesOK
<1> QED
  BY <1>1, <1>2, <1>3, <1>4, <1>5 DEF Next

LEMMA SpecInv == Spec => []Inv
<1>1. Init => Inv
  BY InitInv
<1>2. Inv /\ [Next]_vars => Inv'
  BY NextInv
<1> QED
  BY <1>1, <1>2, PTL DEF Spec

-----------------------------------------------------------------------------

\* The variables keep their types.
THEOREM TypeCorrect == Spec => []TypeOK
<1>1. Inv => TypeOK
  <2> SUFFICES ASSUME Inv PROVE TypeOK
    OBVIOUS
  <2>1. PoolOK(pool)
    BY DEF Inv
  <2>2. /\ pool.current_size \in Int /\ pool.live \subseteq Addr
        /\ DOMAIN pool.chunk_sizes \subseteq Addr \cup {NULL}
    BY <2>1, PoolFields, ChunkMapForm
  <2> QED BY <2>2 DEF Inv, TypeOK, SizesOK
<1> QED
  BY <1>1, SpecInv, PTL

(***************************************************************************)
(* MemTracker never counts less than the chunks hold, and exactly that as  *)
(* long as malloc has not failed twice.                                    *)
(***************************************************************************)
THEOREM AccountingCorrect == Spec => []Accounting
<1>1. Inv => Accounting
  BY PoolFields DEF Inv, Accounting
<1> QED
  BY <1>1, SpecInv, PTL

\* The map of the pool has exactly the blocks malloc gave and free did not take.
THEOREM BlocksTrackedCorrect == Spec => []BlocksTracked
<1>1. Inv => BlocksTracked
  BY PoolFields DEF Inv, BlocksTracked
<1> QED
  BY <1>1, SpecInv, PTL

\* After the destructor no block is left.
THEOREM TeardownCorrect == Spec => []TeardownReleasesAll
<1>1. Inv => TeardownReleasesAll
  BY NothingHeld DEF Inv, TeardownReleasesAll
<1> QED
  BY <1>1, SpecInv, PTL

\* A TryAllocate that succeeds leaves the pool within its limit.
THEOREM GrowthCorrect == Spec => GrowthWithinLimit
<1> DEFINE Grown == last'.op = "TryAllocate" /\ last'.ptr # NULL
                      => Held(pool'.chunk_sizes) <= MaxSize
<1>1. Inv /\ [Next]_vars => [Grown]_vars
  <2> SUFFICES ASSUME Inv, Next, last'.op = "TryAllocate", last'.ptr # NULL,
                      ~UNCHANGED vars
      PROVE  Held(pool'.chunk_sizes) <= MaxSize
    OBVIOUS
  <2>1. PICK size \in Sizes : CallTryAllocate(size)
    BY DEF Next, CallAllocate, CallFree, Destruct, Destructed
  <2>2. PICK r \in TryAllocate(pool, size) : pool' = r.pool /\ r.ptr # NULL
    BY <2>1 DEF CallTryAllocate
  <2>3. TryConsume(pool, size)
    BY <2>2 DEF TryAllocate
  <2>4. PICK a \in Malloc(pool) : pool' = Allocate(pool, a, size)
    BY <2>2, <2>3 DEF TryAllocate
  <2>5. PoolOK(pool) /\ size \in Nat /\ pool.max_size = MaxSize
    BY ClientAssumption DEF Inv
  <2>6. PoolOK(pool') /\ pool'.current_size = pool.current_size + size
    BY <2>4, <2>5, AllocateOK
  <2>7. pool'.current_size <= MaxSize
    BY <2>3, <2>5, <2>6 DEF TryConsume
  <2>8. /\ Held(pool'.chunk_sizes) \in Nat /\ pool'.current_size \in Int
        /\ Held(pool'.chunk_sizes) <= pool'.current_size
    BY <2>6, PoolFields
  <2> QED BY <2>7, <2>8, ClientAssumption
<1> QED
  BY <1>1, SpecInv, PTL DEF Spec, GrowthWithinLimit

=============================================================================
