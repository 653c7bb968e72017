----------------------------- MODULE PoolClient -----------------------------
(***************************************************************************)
(* A MemPool with its MemTracker under every sequence of calls a client    *)
(* can make: TryAllocate, Allocate, Free of any address (one it holds, a   *)
(* stale one, nullptr) and finally the destructor.                         *)
(***************************************************************************)
EXTENDS MemPool

CONSTANTS
  Sizes,        \* the sizes asked for
  MaxSize,      \* the limit of the tracker
  MaxFailures   \* bound: how often malloc fails in one behaviour

ASSUME ClientAssumption ==
  /\ Sizes \subseteq Nat \ {0}
  /\ MaxSize \in Nat
  /\ MaxFailures \in Nat

VARIABLES
  pool,      \* the pool
  open,      \* TRUE until the destructor has run
  last,      \* the last call: [op, ptr], ptr the pointer returned or freed
  failures   \* the calls for which malloc returned nullptr

vars == <<pool, open, last, failures>>

Init ==
  /\ pool = NewPool(MaxSize)
  /\ open = TRUE
  /\ last = [op |-> "none", ptr |-> NULL]
  /\ failures = 0

CallTryAllocate(size) ==
  /\ open
  /\ \E r \in TryAllocate(pool, size) :
       /\ pool' = r.pool
       /\ last' = [op |-> "TryAllocate", ptr |-> r.ptr]
       /\ IF r.ptr = NULL /\ TryConsume(pool, size)
            THEN failures < MaxFailures /\ failures' = failures + 1
            ELSE failures' = failures
  /\ UNCHANGED open

CallAllocate(size) ==
  /\ open
  /\ \E a \in Malloc(pool) :
       /\ pool' = Allocate(pool, a, size)
       /\ last' = [op |-> "Allocate", ptr |-> a]
       /\ IF a = NULL
            THEN failures < MaxFailures /\ failures' = failures + 1
            ELSE failures' = failures
  /\ UNCHANGED open

CallFree(ptr) ==
  /\ open
  /\ pool' = Free(pool, ptr)
  /\ last' = [op |-> "Free", ptr |-> ptr]
  /\ UNCHANGED <<open, failures>>

Destruct ==
  /\ open
  /\ pool' = Destroy(pool)
  /\ open' = FALSE
  /\ last' = [op |-> "destructor", ptr |-> NULL]
  /\ UNCHANGED failures

Destructed == ~open /\ UNCHANGED vars

Next ==
  \/ \E size \in Sizes : CallTryAllocate(size) \/ CallAllocate(size)
  \/ \E ptr \in Addr \cup {NULL} : CallFree(ptr)
  \/ Destruct
  \/ Destructed

Spec == Init /\ [][Next]_vars

-----------------------------------------------------------------------------

\* The types of the variables.
TypeOK ==
  /\ pool.max_size = MaxSize
  /\ pool.current_size \in Int
  /\ DOMAIN pool.chunk_sizes \subseteq Addr \cup {NULL}
  /\ \A a \in DOMAIN pool.chunk_sizes : pool.chunk_sizes[a] \in Sizes
  /\ pool.live \subseteq Addr
  /\ open \in BOOLEAN
  /\ failures \in 0 .. MaxFailures

(***************************************************************************)
(* The tracker never counts less than the chunks of the map hold, so no    *)
(* sequence of frees, double frees and the destructor makes the unsigned   *)
(* current_size wrap; and it counts exactly that, unless malloc has failed *)
(* twice: chunk_sizes[nullptr] keeps only the last of those charges.       *)
(***************************************************************************)
Accounting ==
  /\ Held(pool.chunk_sizes) <= pool.current_size
  /\ failures <= 1 => pool.current_size = Held(pool.chunk_sizes)

(***************************************************************************)
(* The pool knows the blocks of the C heap it owns: a block missing from   *)
(* the map would leak, a freed one still in it would be freed twice.       *)
(***************************************************************************)
BlocksTracked == pool.live = DOMAIN pool.chunk_sizes \ {NULL}

\* Whatever was freed before, the destructor leaves no block and no charge.
TeardownReleasesAll ==
  ~open => pool.live = {} /\ (failures <= 1 => pool.current_size = 0)

(***************************************************************************)
(* TryAllocate never brings the bytes really held over the limit, even     *)
(* when Allocate, which ignores the limit, is used in between.             *)
(***************************************************************************)
GrowthWithinLimit ==
  [][last'.op = "TryAllocate" /\ last'.ptr # NULL
       => Held(pool'.chunk_sizes) <= MaxSize]_vars

=============================================================================
