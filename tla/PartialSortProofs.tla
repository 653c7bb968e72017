------------------------- MODULE PartialSortProofs -------------------------
(***************************************************************************)
(* The first stage, for all inputs, limits and URLs, and whatever fails.   *)
(*                                                                         *)
(* Its memory: the loaded strings own the blocks of the pool, stay within  *)
(* the limit, and the second TryAllocate finds room.                       *)
(*                                                                         *)
(* Its rows: every spill file is sorted, with one row for each URL, which  *)
(* the merge of the second stage takes for granted; and no occurrence of a *)
(* URL is lost or counted twice, in an input that has no more lines than   *)
(* an int can count.                                                       *)
(***************************************************************************)
EXTENDS PartialSort, MemPoolLemmas

\* The pool is in order and within a limit of at least 1 MiB.
PoolWithinLimit ==
  /\ PoolOK(pool)
  /\ pool.max_size \in Limits
  /\ pool.current_size <= pool.max_size

\* After a spill nothing is loaded, and a line waits in url_buf_.
SpillReturns ==
  /\ pc \in {"aggregate", "free"} => idx >= 1
  /\ pc = "retry" => urls = <<>> /\ resume = "retry"
  /\ pc \in {"aggregate", "free", "retry"} /\ resume = "retry" => in_pos >= 1

\* Only a failed malloc makes the pool count more than its chunks hold.
ExactWithoutFailure ==
  "malloc" \notin faulted => PoolExact(pool) /\ pc # "segv"

(***************************************************************************)
(* The inductive invariant.  That the process never stores to nullptr      *)
(* depends on the pool being empty after a spill, hence on the chunks      *)
(* being exactly those of urls and on what the tracker counts for them.    *)
(***************************************************************************)
SortInv ==
  /\ SortTypeOK
  /\ PoolWithinLimit
  /\ UrlsOwnPool
  /\ SpillReturns
  /\ ExactWithoutFailure

-----------------------------------------------------------------------------

\* std::sort keeps the addresses, each of them once.
LEMMA SortedAddresses ==
  ASSUME NEW q \in Seq(Addr), NEW s \in Sorted(q),
         \A j, k \in DOMAIN q : j # k => q[j] # q[k]
  PROVE  /\ s \in Seq(Addr)
         /\ {s[k] : k \in 1 .. Len(s)} = {q[k] : k \in 1 .. Len(q)}
         /\ \A j, k \in DOMAIN s : j # k => s[j] # s[k]
<1>1. PICK f \in Bijection(DOMAIN q, DOMAIN q) : s = [k \in DOMAIN q |-> q[f[k]]]
  BY DEF Sorted, Arrangements
<1>2. /\ f \in [DOMAIN q -> DOMAIN q]
      /\ \A k \in DOMAIN q : \E j \in DOMAIN q : f[j] = k
      /\ \A j, k \in DOMAIN q : f[j] = f[k] => j = k
  BY <1>1 DEF Bijection, Injection, Surjection, IsInjective
<1>3. DOMAIN q = 1 .. Len(q) /\ Len(q) \in Nat
  OBVIOUS
<1>4. s \in Seq(Addr) /\ Len(s) = Len(q)
  BY <1>1, <1>2, <1>3
<1>5. {s[k] : k \in 1 .. Len(s)} = {q[k] : k \in 1 .. Len(q)}
  BY <1>1, <1>2, <1>3, <1>4
<1>6. \A j, k \in DOMAIN s : j # k => s[j] # s[k]
  BY <1>1, <1>2, <1>3
<1> QED
  BY <1>4, <1>5, <1>6

\* A line of the input is a URL of at least one byte.
LEMMA LineIsUrl ==
  ASSUME SortTypeOK, NEW k \in 1 .. Len(input)
  PROVE  /\ input[k] \in Url /\ UrlLen[input[k]] \in Nat \ {0}
         /\ pool.max_size \in Limits => UrlLen[input[k]] <= pool.max_size
<1>1. input[k] \in Url
  BY DEF SortTypeOK
<1> QED
  BY <1>1, ProcessAssumption

(***************************************************************************)
(* TryAllocate, whatever it returns: the pool stays in order and within    *)
(* its limit, and owns one block more unless it returns nullptr.           *)
(***************************************************************************)
LEMMA TryAllocateOK ==
  ASSUME NEW p, PoolOK(p), p.current_size <= p.max_size, NEW n \in Nat \ {0},
         NEW r \in TryAllocate(p, n)
  PROVE  /\ PoolOK(r.pool)
         /\ r.pool.max_size = p.max_size
         /\ r.pool.current_size <= p.max_size
         /\ r.ptr \in Addr \cup {NULL}
         /\ r.ptr = NULL => r.pool.live = p.live
         /\ r.ptr # NULL => /\ r.ptr \notin p.live
                            /\ r.pool.live = p.live \cup {r.ptr}
                            /\ PoolExact(p) => PoolExact(r.pool)
         /\ r.ptr = NULL /\ TryConsume(p, n) => r.pool # p
<1>1. CASE TryConsume(p, n)
  <2>1. PICK a \in Malloc(p) : r = [ptr |-> a, pool |-> Allocate(p, a, n)]
    BY <1>1 DEF TryAllocate
  <2>2. /\ PoolOK(r.pool)
        /\ r.pool.max_size = p.max_size
        /\ r.pool.current_size = p.current_size + n
        /\ r.pool.live = p.live \cup ({a} \ {NULL})
        /\ DOMAIN r.pool.chunk_sizes = DOMAIN p.chunk_sizes \cup {a}
        /\ a \notin DOMAIN p.chunk_sizes /\ p.current_size = Held(p.chunk_sizes)
             => r.pool.current_size = Held(r.pool.chunk_sizes)
    BY <2>1, AllocateOK
  <2>3. /\ p.current_size \in Int /\ p.max_size \in Nat /\ p.live \subseteq Addr
        /\ p.live = DOMAIN p.chunk_sizes \ {NULL}
    BY PoolFields
  <2>4. r.pool.current_size <= p.max_size /\ r.pool # p
    BY <1>1, <2>2, <2>3 DEF TryConsume
  <2>5. a \in Addr \cup {NULL} /\ a \notin p.live
    BY <2>3, NullAssumption DEF Malloc
  <2>6. a # NULL /\ PoolExact(p) => PoolExact(r.pool)
    BY <2>2, <2>3, <2>5 DEF PoolExact
  <2> QED BY <2>1, <2>2, <2>4, <2>5, <2>6
<1>2. CASE ~TryConsume(p, n)
  BY <1>2 DEF TryAllocate
<1> QED BY <1>1, <1>2

-----------------------------------------------------------------------------

LEMMA InitSortInv == SortInit => SortInv
<1> SUFFICES ASSUME SortInit PROVE SortInv
  OBVIOUS
<1>1. PICK max \in Limits : pool = NewPool(max)
  BY DEF SortInit
<1>2. max \in Nat /\ Inputs \subseteq Seq(Url) /\ input \in Seq(Url)
  BY ProcessAssumption DEF SortInit
<1>3. /\ PoolOK(pool) /\ PoolExact(pool) /\ pool.live = {}
      /\ pool.max_size = max /\ pool.current_size = 0
  BY <1>1, <1>2, NewPoolOK
<1>4. PoolWithinLimit
  BY <1>2, <1>3 DEF PoolWithinLimit
<1>5. mem \in [Addr -> Url]
  BY ProcessAssumption DEF SortInit, StartStage
<1>6. SortTypeOK
  <2>1. DOMAIN EmptyMap = {}
    BY DEF EmptyMap
  <2> QED BY <1>2, <1>4, <1>5, <2>1, PoolTypes
          DEF SortInit, StartStage, SortTypeOK, Empty, IsEmpty, PoolWithinLimit
<1>7. UrlsOwnPool
  BY <1>3 DEF SortInit, StartStage, UrlsOwnPool, Loaded
<1>8. SpillReturns /\ ExactWithoutFailure
  BY <1>3 DEF SortInit, StartStage, SpillReturns, ExactWithoutFailure
<1> QED
  BY <1>4, <1>6, <1>7, <1>8 DEF SortInv

LEMMA OpenInv == SortInv /\ Open => SortInv'
<1> SUFFICES ASSUME SortInv, Open PROVE SortInv'
  OBVIOUS
<1>1. UNCHANGED <<input, pool, mem, disk, output_files, curr, idx,
                  in_pos, urls_scanned, urls, resume>>
  BY DEF Open, localVars
<1>2. pc = "open" /\ pc' \in {"read", "failed"} /\ faulted' \subseteq Faults
  BY DEF Open, Faulty, SortInv, SortTypeOK
<1>3. faulted \subseteq faulted'
  BY DEF Open, Faulty
<1>4. SortTypeOK'
  BY <1>1, <1>2 DEF SortInv, SortTypeOK, IsEmpty
<1>5. PoolWithinLimit' /\ UrlsOwnPool'
  BY <1>1, <1>2 DEF SortInv, PoolWithinLimit, UrlsOwnPool, Loaded
<1>6. SpillReturns' /\ ExactWithoutFailure'
  BY <1>1, <1>2, <1>3 DEF SortInv, SpillReturns, ExactWithoutFailure
<1> QED
  BY <1>4, <1>5, <1>6 DEF SortInv

LEMMA LoadUrlInv == SortInv /\ LoadUrl => SortInv'
<1> SUFFICES ASSUME SortInv, LoadUrl PROVE SortInv'
  OBVIOUS
<1> DEFINE u == input[in_pos + 1]
<1>1. PICK r \in TryAllocate(pool, UrlLen[u]) :
        r.ptr # NULL /\ pool' = r.pool /\ Push(u, r.ptr)
  BY DEF LoadUrl
<1>2. /\ pc = "read" /\ in_pos < Len(input) /\ in_pos' = in_pos + 1
      /\ UNCHANGED <<pc, input, disk, output_files, curr, idx, faulted, resume>>
  BY DEF LoadUrl
<1>3. u \in Url /\ UrlLen[u] \in Nat \ {0}
  <2>1. SortTypeOK /\ in_pos + 1 \in 1 .. Len(input)
    BY <1>2 DEF SortInv, SortTypeOK
  <2> QED BY <2>1, LineIsUrl
<1>4. /\ PoolOK(pool) /\ pool.max_size \in Limits /\ pool.current_size <= pool.max_size
  BY DEF SortInv, PoolWithinLimit
<1>5. /\ PoolOK(pool') /\ pool'.max_size = pool.max_size
      /\ pool'.current_size <= pool.max_size
      /\ r.ptr \in Addr /\ r.ptr \notin pool.live
      /\ pool'.live = pool.live \cup {r.ptr}
      /\ PoolExact(pool) => PoolExact(pool')
  BY <1>1, <1>3, <1>4, TryAllocateOK
<1>6. PoolWithinLimit'
  BY <1>4, <1>5 DEF PoolWithinLimit
<1>7. /\ mem' = [mem EXCEPT ![r.ptr] = u] /\ urls' = Append(urls, r.ptr)
      /\ urls_scanned' = urls_scanned + 1
  BY <1>1 DEF Push
<1>8. SortTypeOK'
  <2>1. mem' \in [Addr -> Url] /\ urls' \in Seq(Addr) /\ urls_scanned' \in Nat
    BY <1>3, <1>5, <1>7 DEF SortInv, SortTypeOK
  <2>2. in_pos' \in 0 .. Len(input)
    BY <1>2 DEF SortInv, SortTypeOK
  <2>3. /\ pool'.max_size \in Limits /\ pool'.current_size \in Int
        /\ DOMAIN pool'.chunk_sizes \subseteq Addr \cup {NULL} /\ pool'.live \subseteq Addr
    BY <1>4, <1>5, PoolTypes
  <2> QED BY <1>2, <2>1, <2>2, <2>3 DEF SortInv, SortTypeOK, IsEmpty
<1>9. UrlsOwnPool'
  <2>1. urls \in Seq(Addr) /\ pool.live = {urls[k] : k \in 1 .. Len(urls)}
    BY <1>2 DEF SortInv, SortTypeOK, UrlsOwnPool, Loaded
  <2>2. \A k \in 1 .. Len(urls) : urls'[k] = urls[k] /\ urls[k] # r.ptr
    BY <1>5, <1>7, <2>1
  <2>3. Len(urls') = Len(urls) + 1 /\ urls'[Len(urls')] = r.ptr
    BY <1>5, <1>7, <2>1
  <2>4. {urls'[k] : k \in 1 .. Len(urls')} = {urls[k] : k \in 1 .. Len(urls)} \cup {r.ptr}
    BY <2>1, <2>2, <2>3
  <2>5. \A j, k \in DOMAIN urls' : j # k => urls'[j] # urls'[k]
    BY <1>7, <2>1, <2>2, <2>3 DEF SortInv, UrlsOwnPool
  <2> QED BY <1>2, <1>5, <2>1, <2>4, <2>5 DEF UrlsOwnPool, Loaded
<1>10. SpillReturns' /\ ExactWithoutFailure'
  BY <1>2, <1>5 DEF SortInv, SpillReturns, ExactWithoutFailure
<1> QED
  BY <1>6, <1>8, <1>9, <1>10 DEF SortInv

(***************************************************************************)
(* AggregateAndSpillToDisk starts, from any point of the reading loop: the *)
(* sort moves the strings about, their blocks stay what they are.          *)
(***************************************************************************)
LEMMA BeginSpillInv ==
  ASSUME SortInv, pc = "read", NEW ret \in {"retry", "reopen"}, NEW fs,
         BeginSpill(ret, fs), UNCHANGED <<input, mem, urls_scanned>>,
         in_pos' \in 0 .. Len(input), ret = "retry" => in_pos' >= 1,
         PoolWithinLimit', pool'.live = pool.live,
         "malloc" \notin fs => pool' = pool
  PROVE  SortInv'
<1>1. /\ output_files' = output_files + 1 /\ resume' = ret /\ idx' = 1
      /\ pc' \in {"aggregate", "failed"}
      /\ faulted' \subseteq Faults /\ faulted \cup fs \subseteq faulted'
  BY DEF BeginSpill, Faulty, SortInv, SortTypeOK
<1>2. \/ urls' \in Sorted(urls) /\ disk' = NewOutputFile(output_files) /\ curr' = Empty
      \/ UNCHANGED <<urls, disk, curr>>
  BY DEF BeginSpill
<1>3. /\ urls \in Seq(Addr) /\ pool.live = {urls[k] : k \in 1 .. Len(urls)}
      /\ \A j, k \in DOMAIN urls : j # k => urls[j] # urls[k]
  BY DEF SortInv, SortTypeOK, UrlsOwnPool, Loaded
<1>4. /\ urls' \in Seq(Addr)
      /\ {urls'[k] : k \in 1 .. Len(urls')} = {urls[k] : k \in 1 .. Len(urls)}
      /\ \A j, k \in DOMAIN urls' : j # k => urls'[j] # urls'[k]
  BY <1>2, <1>3, SortedAddresses
<1>5. UrlsOwnPool'
  BY <1>1, <1>3, <1>4 DEF UrlsOwnPool, Loaded
<1>6. SortTypeOK'
  <2>1. output_files \in Nat
    BY DEF SortInv, SortTypeOK
  <2>2. \A f \in DOMAIN disk' : f \in Nat /\ disk'[f] \in Seq(Row)
    <3>1. CASE disk' = NewOutputFile(output_files)
      <4>1. /\ DOMAIN disk' = DOMAIN disk \cup {output_files}
            /\ \A f \in DOMAIN disk' : disk'[f] = IF f = output_files THEN <<>> ELSE disk[f]
        BY <3>1 DEF NewOutputFile, Put
      <4>2. <<>> \in Seq(Row)
        OBVIOUS
      <4>3. \A f \in DOMAIN disk : f \in Nat /\ disk[f] \in Seq(Row)
        BY DEF SortInv, SortTypeOK
      <4> QED BY <2>1, <4>1, <4>2, <4>3
    <3>2. CASE disk' = disk
      BY <3>2 DEF SortInv, SortTypeOK
    <3> QED BY <1>2, <3>1, <3>2
  <2>3. /\ curr' \in [ptr : Addr \cup {NULL}, cnt : Int]
        /\ IsEmpty(curr') \/ curr'.ptr \in Addr
    BY <1>2 DEF SortInv, SortTypeOK, Empty, IsEmpty
  <2>4. /\ pool'.max_size \in Limits /\ pool'.current_size \in Int
        /\ DOMAIN pool'.chunk_sizes \subseteq Addr \cup {NULL} /\ pool'.live \subseteq Addr
    BY PoolTypes DEF PoolWithinLimit
  <2>5. /\ pc' \in {"aggregate", "failed"} /\ output_files' \in Nat /\ idx' \in Nat
        /\ faulted' \subseteq Faults /\ resume' \in {"retry", "reopen"}
    BY <1>1, <2>1
  <2> QED BY <1>4, <2>2, <2>3, <2>4, <2>5 DEF SortInv, SortTypeOK, IsEmpty
<1>7. SpillReturns'
  BY <1>1 DEF SpillReturns
<1>8. ExactWithoutFailure'
  BY <1>1 DEF SortInv, ExactWithoutFailure
<1> QED
  BY <1>5, <1>6, <1>7, <1>8 DEF SortInv

LEMMA PoolFullInv == SortInv /\ PoolFull => SortInv'
<1> SUFFICES ASSUME SortInv, PoolFull PROVE SortInv'
  OBVIOUS
<1> DEFINE u == input[in_pos + 1]
           fs(r) == IF r.pool = pool THEN {} ELSE {"malloc"}
<1>1. PICK r \in TryAllocate(pool, UrlLen[u]) :
        r.ptr = NULL /\ pool' = r.pool /\ BeginSpill("retry", fs(r))
  BY DEF PoolFull
<1>2. /\ pc = "read" /\ in_pos < Len(input) /\ in_pos' = in_pos + 1
      /\ UNCHANGED <<input, mem, urls_scanned>>
  BY DEF PoolFull
<1>3. u \in Url /\ UrlLen[u] \in Nat \ {0}
  <2>1. SortTypeOK /\ in_pos + 1 \in 1 .. Len(input)
    BY <1>2 DEF SortInv, SortTypeOK
  <2> QED BY <2>1, LineIsUrl
<1>4. /\ PoolOK(pool) /\ pool.max_size \in Limits /\ pool.current_size <= pool.max_size
  BY DEF SortInv, PoolWithinLimit
<1>5. PoolWithinLimit' /\ pool'.live = pool.live
  BY <1>1, <1>3, <1>4, TryAllocateOK DEF PoolWithinLimit
<1>6. in_pos' \in 0 .. Len(input) /\ in_pos' >= 1
  BY <1>2 DEF SortInv, SortTypeOK
<1> QED
  BY <1>1, <1>2, <1>5, <1>6, BeginSpillInv

LEMMA EndOfInputInv == SortInv /\ EndOfInput => SortInv'
<1> SUFFICES ASSUME SortInv, EndOfInput PROVE SortInv'
  OBVIOUS
<1>1. PICK fs \in {{}, {"read"}} :
        IF urls # <<>> THEN BeginSpill("reopen", fs)
        ELSE /\ pc' = "reopen" /\ idx' = 0 /\ Faulty(fs)
             /\ UNCHANGED <<disk, output_files, curr, urls, resume>>
  BY DEF EndOfInput
<1>2. pc = "read" /\ UNCHANGED <<input, pool, mem, in_pos, urls_scanned>>
  BY DEF EndOfInput
<1>3. CASE urls # <<>>
  <2>1. in_pos' \in 0 .. Len(input) /\ PoolWithinLimit' /\ pool'.live = pool.live
    BY <1>2 DEF SortInv, SortTypeOK, PoolWithinLimit
  <2> QED BY <1>1, <1>2, <1>3, <2>1, BeginSpillInv
<1>4. CASE urls = <<>>
  <2>1. /\ pc' = "reopen" /\ idx' = 0
        /\ UNCHANGED <<disk, output_files, curr, urls, resume>>
        /\ faulted \subseteq faulted' /\ faulted' \subseteq Faults
    BY <1>1, <1>4 DEF Faulty, SortInv, SortTypeOK
  <2>2. SortTypeOK'
    BY <1>2, <2>1 DEF SortInv, SortTypeOK, IsEmpty
  <2>3. PoolWithinLimit' /\ UrlsOwnPool'
    BY <1>2, <2>1 DEF SortInv, PoolWithinLimit, UrlsOwnPool, Loaded
  <2>4. SpillReturns' /\ ExactWithoutFailure'
    BY <1>2, <2>1 DEF SortInv, SpillReturns, ExactWithoutFailure
  <2> QED BY <2>2, <2>3, <2>4 DEF SortInv
<1> QED BY <1>3, <1>4

(***************************************************************************)
(* Writing the row of a tuple, or the part of one that a failed write      *)
(* leaves, keeps the files sequences of rows.                              *)
(***************************************************************************)
LEMMA WriteResultTupleOK ==
  ASSUME SortTypeOK, ~IsEmpty(curr), NEW then, WriteResultTuple(curr, then)
  PROVE  /\ \A f \in DOMAIN disk' : f \in Nat /\ disk'[f] \in Seq(Row)
         /\ pc' \in {then, "failed"}
         /\ faulted' \subseteq Faults /\ faulted \subseteq faulted'
         /\ "malloc" \notin faulted => "malloc" \notin faulted'
<1>1. RowOf(curr) \in Row /\ [RowOf(curr) EXCEPT !.cnt = 0] \in Row
  BY DEF SortTypeOK, RowOf, Row
<1>2. \A row \in Row :
        LET d == [disk EXCEPT ![output_files - 1] = Append(@, row)] IN
        \A f \in DOMAIN d : f \in Nat /\ d[f] \in Seq(Row)
  BY DEF SortTypeOK
<1>3. \/ disk' = disk
      \/ \E row \in Row : disk' = [disk EXCEPT ![output_files - 1] = Append(@, row)]
  BY <1>1 DEF WriteResultTuple
<1>4. \A f \in DOMAIN disk' : f \in Nat /\ disk'[f] \in Seq(Row)
  BY <1>2, <1>3 DEF SortTypeOK
<1> QED
  BY <1>4 DEF WriteResultTuple, Faulty, SortTypeOK

\* The memory side of a step that touches neither the pool nor the vector.
LEMMA MemoryUntouched ==
  ASSUME SortInv, UNCHANGED <<pool, urls>>, faulted \subseteq faulted', pc' # "segv",
         pc # "free", pc' = "free" => idx' = 1
  PROVE  PoolWithinLimit' /\ UrlsOwnPool' /\ ExactWithoutFailure'
BY DEF SortInv, PoolWithinLimit, UrlsOwnPool, Loaded, ExactWithoutFailure

LEMMA AggregateUrlInv == SortInv /\ AggregateUrl => SortInv'
<1> SUFFICES ASSUME SortInv, AggregateUrl PROVE SortInv'
  OBVIOUS
<1>1. /\ pc = "aggregate" /\ idx <= Len(urls) /\ idx' = idx + 1
      /\ UNCHANGED <<input, pool, mem, output_files, in_pos, urls_scanned, urls, resume>>
  BY DEF AggregateUrl, localVars
<1>2. urls \in Seq(Addr) /\ idx \in Nat
  BY DEF SortInv, SortTypeOK
<1>3. /\ pc' \in {"aggregate", "failed"}
      /\ faulted' \subseteq Faults /\ faulted \subseteq faulted'
      /\ \A f \in DOMAIN disk' : f \in Nat /\ disk'[f] \in Seq(Row)
  <2>1. CASE UNCHANGED <<pc, disk, faulted>>
    BY <1>1, <2>1 DEF SortInv, SortTypeOK
  <2>2. CASE ~IsEmpty(curr) /\ WriteResultTuple(curr, "aggregate")
    BY <2>2, WriteResultTupleOK DEF SortInv
  <2> QED BY <2>1, <2>2 DEF AggregateUrl
<1>4. /\ curr' \in [ptr : Addr \cup {NULL}, cnt : Int]
      /\ IsEmpty(curr') \/ curr'.ptr \in Addr
  <2>1. urls[idx] \in Addr
    BY <1>1, <1>2 DEF SortInv, SpillReturns
  <2>2. curr \in [ptr : Addr \cup {NULL}, cnt : Int] /\ (IsEmpty(curr) \/ curr.ptr \in Addr)
    BY DEF SortInv, SortTypeOK
  <2>3. CASE curr' = Init(urls[idx]) \/ curr' = curr
    BY <2>1, <2>2, <2>3 DEF Init, IsEmpty
  <2>4. CASE ~IsEmpty(curr) /\ curr' = [curr EXCEPT !.cnt = IntAdd(@, 1)]
    <3>1. IntAdd(curr.cnt, 1) \in Int
      BY <2>2, ProcessAssumption DEF IntAdd
    <3> QED BY <2>2, <2>4, <3>1
  <2> QED BY <2>3, <2>4 DEF AggregateUrl
<1>5. SortTypeOK'
  BY <1>1, <1>2, <1>3, <1>4 DEF SortInv, SortTypeOK, IsEmpty
<1>6. PoolWithinLimit' /\ UrlsOwnPool' /\ ExactWithoutFailure'
  BY <1>1, <1>3, MemoryUntouched
<1>7. SpillReturns'
  BY <1>1, <1>2, <1>3 DEF SortInv, SpillReturns
<1> QED
  BY <1>5, <1>6, <1>7 DEF SortInv

LEMMA FlushLastInv == SortInv /\ FlushLast => SortInv'
<1> SUFFICES ASSUME SortInv, FlushLast PROVE SortInv'
  OBVIOUS
<1>1. /\ pc = "aggregate" /\ idx' = 1
      /\ UNCHANGED <<input, pool, mem, output_files, curr,
                     in_pos, urls_scanned, urls, resume>>
  BY DEF FlushLast, localVars
<1>2. /\ pc' \in {"free", "failed"}
      /\ faulted' \subseteq Faults /\ faulted \subseteq faulted'
      /\ \A f \in DOMAIN disk' : f \in Nat /\ disk'[f] \in Seq(Row)
  <2>1. CASE IsEmpty(curr)
    BY <2>1 DEF FlushLast, NothingLeft, SortInv, SortTypeOK
  <2>2. CASE ~IsEmpty(curr)
    BY <2>2, WriteResultTupleOK DEF SortInv, FlushLast, NothingLeft
  <2> QED BY <2>1, <2>2
<1>3. SortTypeOK'
  BY <1>1, <1>2 DEF SortInv, SortTypeOK, IsEmpty
<1>4. PoolWithinLimit' /\ UrlsOwnPool' /\ ExactWithoutFailure'
  BY <1>1, <1>2, MemoryUntouched
<1>5. SpillReturns'
  BY <1>1, <1>2 DEF SortInv, SpillReturns
<1> QED
  BY <1>3, <1>4, <1>5 DEF SortInv

LEMMA FreeUrlInv == SortInv /\ FreeUrl => SortInv'
<1> SUFFICES ASSUME SortInv, FreeUrl PROVE SortInv'
  OBVIOUS
<1>1. /\ pc = "free" /\ idx <= Len(urls) /\ idx' = idx + 1
      /\ pool' = Free(pool, urls[idx])
      /\ UNCHANGED <<pc, input, mem, disk, output_files, curr, faulted,
                     in_pos, urls_scanned, urls, resume>>
  BY DEF FreeUrl, localVars
<1>2. /\ urls \in Seq(Addr) /\ idx \in 1 .. Len(urls) /\ Len(urls) \in Nat
      /\ pool.live = {urls[k] : k \in idx .. Len(urls)}
      /\ \A j, k \in DOMAIN urls : j # k => urls[j] # urls[k]
  BY <1>1 DEF SortInv, SortTypeOK, SpillReturns, UrlsOwnPool, Loaded
<1>3. /\ PoolOK(pool) /\ pool.max_size \in Limits /\ pool.current_size <= pool.max_size
  BY DEF SortInv, PoolWithinLimit
<1>4. /\ PoolOK(pool') /\ pool'.max_size = pool.max_size
      /\ pool'.current_size <= pool.current_size
      /\ pool'.live = pool.live \ {urls[idx]}
      /\ DOMAIN pool'.chunk_sizes = DOMAIN pool.chunk_sizes \ {urls[idx]}
      /\ pool.current_size = Held(pool.chunk_sizes)
           => pool'.current_size = Held(pool'.chunk_sizes)
  BY <1>1, <1>3, FreeOK
<1>5. PoolWithinLimit'
  <2>1. /\ pool.current_size \in Int /\ pool'.current_size \in Int /\ pool.max_size \in Int
    BY <1>3, <1>4, PoolFields
  <2> QED BY <1>3, <1>4, <2>1 DEF PoolWithinLimit
<1>6. UrlsOwnPool'
  <2>1. {urls[k] : k \in idx .. Len(urls)} \ {urls[idx]}
          = {urls[k] : k \in idx + 1 .. Len(urls)}
    BY <1>2
  <2> QED BY <1>1, <1>2, <1>4, <2>1 DEF UrlsOwnPool, Loaded
<1>7. SortTypeOK'
  <2>1. /\ pool'.max_size \in Limits /\ pool'.current_size \in Int
        /\ DOMAIN pool'.chunk_sizes \subseteq Addr \cup {NULL} /\ pool'.live \subseteq Addr
    BY <1>3, <1>4, PoolTypes
  <2> QED BY <1>1, <1>2, <2>1 DEF SortInv, SortTypeOK, IsEmpty
<1>8. SpillReturns'
  BY <1>1, <1>2 DEF SortInv, SpillReturns
<1>9. ExactWithoutFailure'
  BY <1>1, <1>4 DEF SortInv, ExactWithoutFailure, PoolExact
<1> QED
  BY <1>5, <1>6, <1>7, <1>8, <1>9 DEF SortInv

LEMMA ClearUrlsInv == SortInv /\ ClearUrls => SortInv'
<1> SUFFICES ASSUME SortInv, ClearUrls PROVE SortInv'
  OBVIOUS
<1>1. /\ pc = "free" /\ idx > Len(urls) /\ urls' = <<>> /\ pc' = resume /\ idx' = 0
      /\ UNCHANGED <<input, pool, mem, disk, output_files, curr, faulted,
                     in_pos, urls_scanned, resume>>
  BY DEF ClearUrls, Cleared
<1>2. resume \in {"retry", "reopen"} /\ urls \in Seq(Addr) /\ idx \in Nat
  BY DEF SortInv, SortTypeOK
<1>3. SortTypeOK'
  BY <1>1, <1>2 DEF SortInv, SortTypeOK, IsEmpty
<1>4. pool.live = {}
  BY <1>1, <1>2 DEF SortInv, UrlsOwnPool, Loaded
<1>5. PoolWithinLimit' /\ UrlsOwnPool'
  BY <1>1, <1>2, <1>4 DEF SortInv, PoolWithinLimit, UrlsOwnPool, Loaded
<1>6. SpillReturns' /\ ExactWithoutFailure'
  BY <1>1, <1>2 DEF SortInv, SpillReturns, ExactWithoutFailure
<1> QED
  BY <1>3, <1>5, <1>6 DEF SortInv

(***************************************************************************)
(* The heart of it: before the retry the pool is empty, so unless a malloc *)
(* failed the tracker counts nothing and a URL fits in any limit.          *)
(***************************************************************************)
LEMMA RetryInv == SortInv /\ Retry => SortInv'
<1> SUFFICES ASSUME SortInv, Retry PROVE SortInv'
  OBVIOUS
<1> DEFINE u == input[in_pos]
<1>1. PICK r \in TryAllocate(pool, UrlLen[u]) :
        /\ pool' = r.pool
        /\ Faulty(IF r.ptr = NULL /\ r.pool # pool THEN {"malloc"} ELSE {})
        /\ IF r.ptr # NULL THEN pc' = "read" /\ Push(u, r.ptr)
           ELSE pc' = "segv" /\ UNCHANGED <<mem, urls, urls_scanned>>
  BY DEF Retry
<1>2. pc = "retry" /\ UNCHANGED <<input, disk, output_files, curr, idx, in_pos, resume>>
  BY DEF Retry
<1>3. urls = <<>> /\ in_pos \in 1 .. Len(input) /\ pool.live = {}
  BY <1>2 DEF SortInv, SortTypeOK, SpillReturns, UrlsOwnPool, Loaded
<1>4. /\ PoolOK(pool) /\ pool.max_size \in Limits /\ pool.current_size <= pool.max_size
  BY DEF SortInv, PoolWithinLimit
<1>5. u \in Url /\ UrlLen[u] \in Nat \ {0} /\ UrlLen[u] <= pool.max_size
  BY <1>3, <1>4, LineIsUrl DEF SortInv
<1>6. /\ PoolOK(pool') /\ pool'.max_size = pool.max_size
      /\ pool'.current_size <= pool.max_size
      /\ r.ptr \in Addr \cup {NULL}
      /\ r.ptr = NULL => pool'.live = {}
      /\ r.ptr # NULL => /\ pool'.live = {r.ptr}
                         /\ PoolExact(pool) => PoolExact(pool')
      /\ r.ptr = NULL /\ TryConsume(pool, UrlLen[u]) => pool' # pool
  BY <1>1, <1>3, <1>4, <1>5, TryAllocateOK
<1>7. PoolWithinLimit'
  BY <1>4, <1>6 DEF PoolWithinLimit
<1>8. faulted \subseteq faulted' /\ faulted' \subseteq Faults
  BY <1>1 DEF Faulty, SortInv, SortTypeOK
<1>9. \/ /\ r.ptr \in Addr /\ pc' = "read" /\ urls' = <<r.ptr>>
         /\ mem' = [mem EXCEPT ![r.ptr] = u] /\ urls_scanned' = urls_scanned + 1
      \/ /\ r.ptr = NULL /\ pc' = "segv" /\ UNCHANGED <<mem, urls, urls_scanned>>
  BY <1>1, <1>3, <1>6 DEF Push
<1>10. SortTypeOK'
  <2>1. /\ pool'.max_size \in Limits /\ pool'.current_size \in Int
        /\ DOMAIN pool'.chunk_sizes \subseteq Addr \cup {NULL} /\ pool'.live \subseteq Addr
    BY <1>4, <1>6, PoolTypes
  <2>2. mem \in [Addr -> Url] /\ urls \in Seq(Addr) /\ urls_scanned \in Nat
    BY DEF SortInv, SortTypeOK
  <2>3. /\ pc' \in {"read", "segv"} /\ mem' \in [Addr -> Url] /\ urls' \in Seq(Addr)
        /\ urls_scanned' \in Nat
    <3>1. CASE r.ptr \in Addr /\ mem' = [mem EXCEPT ![r.ptr] = u]
      <4>1. r.ptr # NULL
        BY <3>1, NullAssumption
      <4>2. pc' = "read" /\ urls' = <<r.ptr>> /\ urls_scanned' = urls_scanned + 1
        BY <1>9, <4>1
      <4>3. mem' \in [Addr -> Url]
        BY <1>5, <2>2, <3>1
      <4> QED BY <2>2, <3>1, <4>2, <4>3
    <3>2. CASE pc' = "segv" /\ UNCHANGED <<mem, urls, urls_scanned>>
      BY <2>2, <3>2
    <3> QED BY <1>9, <3>1, <3>2
  <2> QED BY <1>2, <1>8, <2>1, <2>3 DEF SortInv, SortTypeOK, IsEmpty
<1>11. UrlsOwnPool'
  <2>1. CASE r.ptr # NULL
    <3>1. pc' = "read" /\ urls' = <<r.ptr>> /\ pool'.live = {r.ptr}
      BY <1>6, <1>9, <2>1
    <3>2. Len(urls') = 1 /\ urls'[1] = r.ptr /\ DOMAIN urls' = {1}
      BY <3>1
    <3> QED BY <3>1, <3>2 DEF UrlsOwnPool, Loaded
  <2>2. CASE r.ptr = NULL
    <3>1. pc' = "segv" /\ urls' = <<>> /\ pool'.live = {}
      BY <1>3, <1>6, <1>9, <2>2, NullAssumption
    <3> QED BY <3>1 DEF UrlsOwnPool, Loaded
  <2> QED BY <2>1, <2>2
<1>12. SpillReturns'
  BY <1>9 DEF SpillReturns
<1>13. ExactWithoutFailure'
  <2> SUFFICES ASSUME "malloc" \notin faulted'
      PROVE  PoolExact(pool') /\ pc' # "segv"
    BY DEF ExactWithoutFailure
  <2>1. PoolExact(pool)
    BY <1>8 DEF SortInv, ExactWithoutFailure
  <2>2. pool.current_size = 0
    BY <1>3, <1>4, <2>1, EmptyPool
  <2>3. TryConsume(pool, UrlLen[u])
    BY <1>5, <2>2 DEF TryConsume
  <2>4. r.ptr # NULL
    BY <1>1, <1>6, <2>3 DEF Faulty
  <2> QED BY <1>6, <1>9, <2>1, <2>4
<1> QED
  BY <1>7, <1>10, <1>11, <1>12, <1>13 DEF SortInv

LEMMA SortNextInv == SortInv /\ [SortNext]_sortVars => SortInv'
<1> SUFFICES ASSUME SortInv, [SortNext]_sortVars PROVE SortInv'
  OBVIOUS
<1>1. CASE SortStep
  BY <1>1, OpenInv, LoadUrlInv, PoolFullInv, EndOfInputInv, AggregateUrlInv,
     FlushLastInv, FreeUrlInv, ClearUrlsInv, RetryInv DEF SortStep
<1>2. CASE UNCHANGED sortVars
  BY <1>2 DEF sortVars, processVars, localVars, SortInv, SortTypeOK, IsEmpty,
     PoolWithinLimit, UrlsOwnPool, Loaded, SpillReturns, ExactWithoutFailure
<1> QED
  BY <1>1, <1>2 DEF SortNext, SortReturned

LEMMA SortSpecInv == SortSpec => []SortInv
<1>1. SortInit => SortInv
  BY InitSortInv
<1>2. SortInv /\ [SortNext]_sortVars => SortInv'
  BY SortNextInv
<1> QED
  BY <1>1, <1>2, PTL DEF SortSpec

-----------------------------------------------------------------------------

\* The variables of the first stage keep their types.
THEOREM SortTypeCorrect == SortSpec => []SortTypeOK
<1>1. SortInv => SortTypeOK
  BY DEF SortInv
<1> QED
  BY <1>1, SortSpecInv, PTL

(***************************************************************************)
(* The DCHECK in the comment of PartialSort holds: memcpy writes to        *)
(* nullptr only if malloc has failed.                                      *)
(***************************************************************************)
THEOREM NeverStoresToNull == SortSpec => []NoNullStore
<1>1. SortInv => NoNullStore
  BY DEF SortInv, ExactWithoutFailure, NoNullStore
<1> QED
  BY <1>1, SortSpecInv, PTL

\* No chunk leaks from one batch into the next and no two strings share one.
THEOREM UrlsOwnTheirBlocks == SortSpec => []UrlsOwnPool
<1>1. SortInv => UrlsOwnPool
  BY DEF SortInv
<1> QED
  BY <1>1, SortSpecInv, PTL

\* The bytes of the loaded strings never exceed the memory limit.
THEOREM LoadStaysWithinLimit == SortSpec => []LoadedWithinLimit
<1>1. SortInv => LoadedWithinLimit
  <2> SUFFICES ASSUME SortInv PROVE LoadedWithinLimit
    OBVIOUS
  <2>1. PoolOK(pool) /\ pool.current_size <= pool.max_size
    BY DEF SortInv, PoolWithinLimit
  <2> QED BY <2>1, PoolFields DEF LoadedWithinLimit
<1> QED
  BY <1>1, SortSpecInv, PTL

-----------------------------------------------------------------------------

(***************************************************************************)
(* The entries of the vector and of the map.  While strings are loaded the *)
(* vector has one for each block, hence one for at least a byte charged;   *)
(* while they are freed it only waits to be cleared.                       *)
(***************************************************************************)
EntriesInv == ChunksNonempty(pool) /\ Len(urls) <= pool.max_size

\* A vector of distinct blocks that the pool holds is no longer than the limit.
LEMMA VectorWithinLimit ==
  ASSUME NEW p, PoolOK(p), ChunksNonempty(p), p.current_size <= p.max_size,
         NEW q \in Seq(Addr), p.live = {q[k] : k \in 1 .. Len(q)},
         \A j, k \in DOMAIN q : j # k => q[j] # q[k]
  PROVE  Len(q) <= p.max_size
<1> DEFINE chunks == DOMAIN p.chunk_sizes
<1>1. Len(q) \in Nat /\ DOMAIN q = 1 .. Len(q) /\ q \in [1 .. Len(q) -> Addr]
  OBVIOUS
<1>2. /\ p.current_size \in Int /\ p.max_size \in Nat
      /\ Held(p.chunk_sizes) \in Nat /\ Held(p.chunk_sizes) <= p.current_size
      /\ p.live = chunks \ {NULL}
  BY PoolFields
<1>3. IsFiniteSet(chunks) /\ Cardinality(chunks) <= Held(p.chunk_sizes)
  BY ChunksWithinBytes
<1>4. q \in Injection(1 .. Len(q), chunks)
  <2>1. \A k \in 1 .. Len(q) : q[k] \in chunks
    BY <1>2
  <2>2. q \in [1 .. Len(q) -> chunks]
    BY <1>1, <2>1
  <2> QED BY <1>1, <2>2 DEF Injection, IsInjective
<1>5. Cardinality(1 .. Len(q)) <= Cardinality(chunks) /\ Cardinality(chunks) \in Nat
  BY <1>3, <1>4, FS_Injection, FS_CardinalityType
<1>6. Cardinality(1 .. Len(q)) = Len(q)
  <2>1. \A n \in Nat : Cardinality(1 .. n) = n
    BY FS_Interval
  <2> QED BY <1>1, <2>1
<1> QED
  BY <1>1, <1>2, <1>3, <1>5, <1>6

LEMMA InitEntriesInv == SortInit => EntriesInv
<1> SUFFICES ASSUME SortInit PROVE EntriesInv
  OBVIOUS
<1>1. PICK max \in Limits : pool = NewPool(max)
  BY DEF SortInit
<1>2. max \in Nat
  BY ProcessAssumption
<1> QED
  BY <1>1, <1>2, NewPoolOK DEF SortInit, StartStage, EntriesInv, ChunksNonempty

LEMMA EntriesNextInv ==
  SortInv /\ SortInv' /\ EntriesInv /\ [SortNext]_sortVars => EntriesInv'
<1> SUFFICES ASSUME SortInv, SortInv', EntriesInv, [SortNext]_sortVars
             PROVE  EntriesInv'
  OBVIOUS
<1>1. PoolOK(pool) /\ ChunksNonempty(pool)
  BY DEF SortInv, PoolWithinLimit, EntriesInv
<1>2. ChunksNonempty(pool)'
  <2>1. CASE LoadUrl \/ PoolFull
    <3>1. in_pos + 1 \in 1 .. Len(input) /\ in_pos' = in_pos + 1
      BY <2>1 DEF LoadUrl, PoolFull, SortInv, SortTypeOK
    <3>2. PICK r \in TryAllocate(pool, UrlLen[input[in_pos + 1]]) : pool' = r.pool
      BY <2>1, <3>1 DEF LoadUrl, PoolFull
    <3>3. UrlLen[input[in_pos + 1]] \in Nat \ {0}
      BY <3>1, LineIsUrl DEF SortInv
    <3> QED BY <1>1, <3>2, <3>3, NonemptyKept DEF ChunksNonempty
  <2>2. CASE Retry
    <3>1. in_pos \in 1 .. Len(input)
      BY <2>2 DEF Retry, SortInv, SortTypeOK, SpillReturns
    <3>2. PICK r \in TryAllocate(pool, UrlLen[input[in_pos]]) : pool' = r.pool
      BY <2>2 DEF Retry
    <3>3. UrlLen[input[in_pos]] \in Nat \ {0}
      BY <3>1, LineIsUrl DEF SortInv
    <3> QED BY <1>1, <3>2, <3>3, NonemptyKept DEF ChunksNonempty
  <2>3. CASE FreeUrl
    BY <1>1, <2>3, NonemptyKept DEF FreeUrl, ChunksNonempty
  <2>4. CASE UNCHANGED pool
    BY <1>1, <2>4 DEF ChunksNonempty
  <2> QED
    BY <2>1, <2>2, <2>3, <2>4
       DEF SortNext, SortStep, SortReturned, sortVars, processVars,
           Open, EndOfInput, AggregateUrl, FlushLast, ClearUrls
<1>3. CASE pc' # "free"
  <2>1. /\ PoolOK(pool') /\ pool'.current_size <= pool'.max_size
        /\ urls' \in Seq(Addr) /\ pool'.live = {urls'[k] : k \in 1 .. Len(urls')}
        /\ \A j, k \in DOMAIN urls' : j # k => urls'[j] # urls'[k]
    BY <1>3 DEF SortInv, SortTypeOK, PoolWithinLimit, UrlsOwnPool, Loaded
  <2>2. ChunksNonempty(pool')
    BY <1>2 DEF ChunksNonempty
  <2>3. Len(urls') <= pool'.max_size
    BY <2>1, <2>2, VectorWithinLimit
  <2> QED BY <1>2, <2>3 DEF EntriesInv
<1>4. CASE pc' = "free"
  <2>1. UNCHANGED urls /\ pool'.max_size = pool.max_size
    <3>1. CASE FreeUrl
      BY <1>1, <3>1, FreeOK DEF FreeUrl, localVars
    <3>2. CASE FlushLast \/ UNCHANGED sortVars
      BY <3>2 DEF FlushLast, sortVars, processVars, localVars
    <3> QED
      BY <1>4, <3>1, <3>2
         DEF SortNext, SortStep, SortReturned, Open, LoadUrl, PoolFull, EndOfInput,
             BeginSpill, AggregateUrl, WriteResultTuple, ClearUrls, Retry, Push,
             SortInv, SortTypeOK
  <2> QED BY <1>2, <2>1 DEF EntriesInv
<1> QED
  BY <1>3, <1>4

(***************************************************************************)
(* The memory that is not charged to the tracker is bounded by the limit   *)
(* all the same: one entry of the vector and of the map for each byte.     *)
(***************************************************************************)
THEOREM EntriesStayWithinLimit == SortSpec => []EntriesWithinLimit
<1>1. SortInit => EntriesInv
  BY InitEntriesInv
<1>2. SortInv /\ SortInv' /\ EntriesInv /\ [SortNext]_sortVars => EntriesInv'
  BY EntriesNextInv
<1>3. SortInv /\ EntriesInv => EntriesWithinLimit
  <2> SUFFICES ASSUME SortInv, EntriesInv PROVE EntriesWithinLimit
    OBVIOUS
  <2>1. /\ PoolOK(pool) /\ ChunksNonempty(pool)
        /\ pool.current_size <= pool.max_size
    BY DEF SortInv, PoolWithinLimit, EntriesInv
  <2>2. /\ pool.current_size \in Int /\ pool.max_size \in Nat
        /\ Held(pool.chunk_sizes) \in Nat
        /\ Held(pool.chunk_sizes) <= pool.current_size
    BY <2>1, PoolFields
  <2>3. /\ IsFiniteSet(DOMAIN pool.chunk_sizes)
        /\ Cardinality(DOMAIN pool.chunk_sizes) <= Held(pool.chunk_sizes)
    BY <2>1, ChunksWithinBytes
  <2>4. Cardinality(DOMAIN pool.chunk_sizes) \in Nat
    BY <2>3, FS_CardinalityType
  <2> QED BY <2>1, <2>2, <2>3, <2>4 DEF EntriesInv, EntriesWithinLimit
<1> QED
  BY <1>1, <1>2, <1>3, SortSpecInv, PTL DEF SortSpec

-----------------------------------------------------------------------------

(***************************************************************************)
(* The rows of the spill files.                                            *)
(***************************************************************************)

\* Smaller URLs first, each once.
RowsAscending(q) == \A j, k \in DOMAIN q : j < k => q[j].url < q[k].url

\* The file being written.
File == output_files - 1

(***************************************************************************)
(* The inductive invariant.  In the counting loop the rows written come    *)
(* before the tuple being counted, and that before the strings still to be *)
(* counted, which are sorted.  The rows come before those strings also     *)
(* when no tuple is being counted, be it that a count came to 0.           *)
(***************************************************************************)
OrderInv ==
  /\ pc # "failed" => \A f \in 0 .. File : f \in DOMAIN disk /\ RowsAscending(disk[f])
  /\ pc = "aggregate" =>
       /\ File \in Nat
       /\ \A j, k \in DOMAIN urls : j < k => mem[urls[j]] <= mem[urls[k]]
       /\ \A r \in DOMAIN disk[File], k \in idx .. Len(urls) :
            disk[File][r].url < mem[urls[k]]
       /\ ~IsEmpty(curr) =>
            /\ \A r \in DOMAIN disk[File] : disk[File][r].url < mem[curr.ptr]
            /\ \A k \in idx .. Len(urls) : mem[curr.ptr] <= mem[urls[k]]

LEMMA InitOrderInv == SortInit => OrderInv
BY DEF SortInit, StartStage, OrderInv, File

\* A row above all others goes to the end.
LEMMA AppendRow ==
  ASSUME NEW q \in Seq(Row), RowsAscending(q), NEW row \in Row,
         \A k \in DOMAIN q : q[k].url < row.url
  PROVE  /\ RowsAscending(Append(q, row))
         /\ \A k \in DOMAIN Append(q, row) :
              \/ Append(q, row)[k] = row
              \/ k \in DOMAIN q /\ Append(q, row)[k] = q[k]
<1> DEFINE p == Append(q, row)
<1>1. /\ Len(q) \in Nat /\ DOMAIN p = 1 .. Len(q) + 1 /\ p[Len(q) + 1] = row
      /\ \A k \in 1 .. Len(q) : p[k] = q[k]
      /\ DOMAIN q = 1 .. Len(q)
  OBVIOUS
<1> HIDE DEF p
<1>2. \A j, k \in DOMAIN p : j < k => p[j].url < p[k].url
  <2> SUFFICES ASSUME NEW j \in DOMAIN p, NEW k \in DOMAIN p, j < k
               PROVE  p[j].url < p[k].url
    OBVIOUS
  <2>1. j \in DOMAIN q /\ p[j] = q[j]
    BY <1>1
  <2>2. CASE k = Len(q) + 1
    BY <1>1, <2>1, <2>2
  <2>3. CASE k # Len(q) + 1
    BY <1>1, <2>1, <2>3 DEF RowsAscending
  <2> QED BY <2>2, <2>3
<1> QED
  BY <1>1, <1>2 DEF p, RowsAscending

\* What std::sort leaves is sorted.
LEMMA SortedAscends ==
  ASSUME NEW q, NEW s \in Sorted(q)
  PROVE  \A j, k \in DOMAIN s : j < k => mem[s[j]] <= mem[s[k]]
BY DEF Sorted

LEMMA BeginSpillOrder ==
  ASSUME SortInv, OrderInv, pc = "read", NEW ret, NEW fs, BeginSpill(ret, fs), mem' = mem
  PROVE  OrderInv'
<1>1. output_files \in Nat /\ output_files' = output_files + 1 /\ idx' = 1
  BY DEF BeginSpill, SortInv, SortTypeOK
<1>2. CASE pc' = "failed"
  BY <1>2 DEF OrderInv
<1>3. CASE /\ pc' = "aggregate" /\ disk' = NewOutputFile(output_files)
           /\ urls' \in Sorted(urls) /\ curr' = Empty
  <2>1. /\ DOMAIN disk' = DOMAIN disk \cup {output_files}
        /\ \A f \in DOMAIN disk' : disk'[f] = IF f = output_files THEN <<>> ELSE disk[f]
    BY <1>3 DEF NewOutputFile, Put
  <2>2. File' = output_files /\ File = output_files - 1
    BY <1>1 DEF File
  <2>3. \A f \in 0 .. output_files : f \in DOMAIN disk' /\ RowsAscending(disk'[f])
    <3> SUFFICES ASSUME NEW f \in 0 .. output_files
                 PROVE  f \in DOMAIN disk' /\ RowsAscending(disk'[f])
      OBVIOUS
    <3>1. CASE f = output_files
      BY <2>1, <3>1 DEF RowsAscending
    <3>2. CASE f # output_files
      <4>1. f \in 0 .. File
        BY <1>1, <2>2, <3>2
      <4> QED BY <2>1, <3>2, <4>1 DEF OrderInv
    <3> QED BY <3>1, <3>2
  <2>4. disk'[output_files] = <<>>
    BY <2>1
  <2>5. \A j, k \in DOMAIN urls' : j < k => mem'[urls'[j]] <= mem'[urls'[k]]
    BY <1>3, SortedAscends
  <2>6. IsEmpty(curr)'
    BY <1>3 DEF IsEmpty, Empty
  <2> QED BY <1>1, <1>3, <2>2, <2>3, <2>4, <2>5, <2>6 DEF OrderInv
<1> QED
  BY <1>2, <1>3 DEF BeginSpill

\* WriteResultTuple of curr_tuple keeps the file sorted, or fails.
LEMMA WriteOrder ==
  ASSUME SortInv, OrderInv, pc = "aggregate", ~IsEmpty(curr), NEW then,
         WriteResultTuple(curr, then)
  PROVE  \/ pc' = "failed"
         \/ /\ pc' = then
            /\ \A f \in 0 .. File : f \in DOMAIN disk' /\ RowsAscending(disk'[f])
            /\ \A r \in DOMAIN disk'[File] : disk'[File][r].url <= mem[curr.ptr]
<1> SUFFICES ASSUME pc' # "failed"
             PROVE  /\ pc' = then
                    /\ \A f \in 0 .. File : f \in DOMAIN disk' /\ RowsAscending(disk'[f])
                    /\ \A r \in DOMAIN disk'[File] : disk'[File][r].url <= mem[curr.ptr]
  OBVIOUS
<1>1. pc' = then /\ disk' = [disk EXCEPT ![File] = Append(@, RowOf(curr))]
  BY DEF WriteResultTuple, File
<1>2. /\ File \in Nat /\ File \in 0 .. File
      /\ \A f \in 0 .. File : f \in DOMAIN disk /\ RowsAscending(disk[f])
      /\ \A r \in DOMAIN disk[File] : disk[File][r].url < mem[curr.ptr]
  BY DEF OrderInv
<1>3. disk[File] \in Seq(Row) /\ mem \in [Addr -> Url] /\ curr.ptr \in Addr /\ curr.cnt \in Int
  BY <1>2 DEF SortInv, SortTypeOK
<1>4. RowOf(curr) \in Row /\ RowOf(curr).url = mem[curr.ptr] /\ mem[curr.ptr] \in Nat
  BY <1>3, ProcessAssumption DEF RowOf, Row
<1>5. /\ RowsAscending(Append(disk[File], RowOf(curr)))
      /\ \A k \in DOMAIN Append(disk[File], RowOf(curr)) :
           \/ Append(disk[File], RowOf(curr))[k] = RowOf(curr)
           \/ /\ k \in DOMAIN disk[File]
              /\ Append(disk[File], RowOf(curr))[k] = disk[File][k]
  BY <1>2, <1>3, <1>4, AppendRow
<1>6. /\ DOMAIN disk' = DOMAIN disk /\ disk'[File] = Append(disk[File], RowOf(curr))
      /\ \A f \in DOMAIN disk : f # File => disk'[f] = disk[f]
  BY <1>1, <1>2
<1>7. \A k \in DOMAIN disk[File] : disk[File][k].url \in Nat
  <2>1. \A k \in DOMAIN disk[File] : disk[File][k] \in Row
    BY <1>3
  <2> QED BY <2>1, ProcessAssumption DEF Row
<1>8. \A r \in DOMAIN disk'[File] : disk'[File][r].url <= mem[curr.ptr]
  BY <1>2, <1>4, <1>5, <1>6, <1>7
<1> QED
  BY <1>1, <1>2, <1>5, <1>6, <1>8

LEMMA AggregateUrlOrder ==
  ASSUME SortInv, OrderInv, AggregateUrl
  PROVE  OrderInv'
<1> DEFINE url == urls[idx]
<1>1. /\ pc = "aggregate" /\ idx <= Len(urls) /\ idx' = idx + 1
      /\ UNCHANGED <<mem, output_files, urls>>
  BY DEF AggregateUrl, localVars
<1>2. /\ urls \in Seq(Addr) /\ Len(urls) \in Nat /\ idx \in 1 .. Len(urls)
      /\ DOMAIN urls = 1 .. Len(urls)
      /\ mem \in [Addr -> Url] /\ url \in Addr /\ \A k \in 1 .. Len(urls) : urls[k] \in Addr
      /\ (IsEmpty(curr) \/ curr.ptr \in Addr)
  BY <1>1 DEF SortInv, SortTypeOK, SpillReturns
<1>3. /\ File \in Nat
      /\ \A f \in 0 .. File : f \in DOMAIN disk /\ RowsAscending(disk[f])
      /\ \A j, k \in DOMAIN urls : j < k => mem[urls[j]] <= mem[urls[k]]
      /\ \A r \in DOMAIN disk[File], k \in idx .. Len(urls) :
           disk[File][r].url < mem[urls[k]]
      /\ ~IsEmpty(curr) =>
           /\ \A r \in DOMAIN disk[File] : disk[File][r].url < mem[curr.ptr]
           /\ \A k \in idx .. Len(urls) : mem[curr.ptr] <= mem[urls[k]]
  BY <1>1 DEF OrderInv
<1>4. \A a \in Addr : mem[a] \in Nat
  BY <1>2, ProcessAssumption
<1>5. /\ \A k \in idx + 1 .. Len(urls) : k \in idx .. Len(urls) /\ mem[url] <= mem[urls[k]]
      /\ idx \in idx .. Len(urls)
  BY <1>2, <1>3
<1>6. File' = File
  BY <1>1 DEF File
<1> HIDE DEF url
<1>7. CASE UNCHANGED <<pc, disk>> /\ IsEmpty(curr) /\ curr' = Init(url)
  <2>1. curr'.ptr = url
    BY <1>7 DEF Init
  <2>2. \A r \in DOMAIN disk[File] : disk[File][r].url < mem[url]
    BY <1>3, <1>5 DEF url
  <2> QED BY <1>1, <1>3, <1>5, <1>6, <1>7, <2>1, <2>2 DEF OrderInv
<1>8. CASE UNCHANGED <<pc, disk>> /\ ~IsEmpty(curr) /\ curr' = [curr EXCEPT !.cnt = IntAdd(@, 1)]
  <2>1. curr'.ptr = curr.ptr
    BY <1>8 DEF SortInv, SortTypeOK
  <2> QED BY <1>1, <1>3, <1>5, <1>6, <1>8, <2>1 DEF OrderInv
<1>9. CASE /\ ~IsEmpty(curr) /\ mem[curr.ptr] # mem[url]
           /\ WriteResultTuple(curr, "aggregate")
           /\ curr' = IF pc' = "failed" THEN curr ELSE Init(url)
  <2>1. CASE pc' = "failed"
    BY <2>1 DEF OrderInv
  <2>2. CASE pc' # "failed"
    <3>1. /\ pc' = "aggregate"
          /\ \A f \in 0 .. File : f \in DOMAIN disk' /\ RowsAscending(disk'[f])
          /\ \A r \in DOMAIN disk'[File] : disk'[File][r].url <= mem[curr.ptr]
      BY <1>1, <1>9, <2>2, WriteOrder
    <3>2. curr'.ptr = url
      BY <1>9, <2>2 DEF Init
    <3>3. mem[curr.ptr] < mem[url]
      <4>1. mem[curr.ptr] <= mem[url]
        BY <1>3, <1>5, <1>9 DEF url
      <4> QED BY <1>2, <1>4, <1>9, <4>1
    <3>4. \A r \in DOMAIN disk'[File] : disk'[File][r].url \in Nat
      <4>1. SortInv'
        BY AggregateUrlInv
      <4>2. disk'[File] \in Seq(Row)
        BY <1>3, <3>1, <4>1 DEF SortInv, SortTypeOK
      <4>3. \A r \in DOMAIN disk'[File] : disk'[File][r] \in Row
        BY <4>2
      <4> QED BY <4>3, ProcessAssumption DEF Row
    <3>5. \A r \in DOMAIN disk'[File] : disk'[File][r].url < mem[url]
      BY <1>2, <1>4, <1>9, <3>1, <3>3, <3>4
    <3>6. \A r \in DOMAIN disk'[File], k \in idx + 1 .. Len(urls) :
            disk'[File][r].url < mem[urls[k]]
      <4>1. \A k \in idx + 1 .. Len(urls) : mem[url] <= mem[urls[k]] /\ mem[urls[k]] \in Nat
        BY <1>2, <1>4, <1>5
      <4> QED BY <1>2, <1>4, <3>4, <3>5, <4>1
    <3> QED BY <1>1, <1>3, <1>5, <1>6, <3>1, <3>2, <3>5, <3>6 DEF OrderInv
  <2> QED BY <2>1, <2>2
<1> QED
  BY <1>7, <1>8, <1>9 DEF AggregateUrl, url

LEMMA OrderNextInv == SortInv /\ OrderInv /\ [SortNext]_sortVars => OrderInv'
<1> SUFFICES ASSUME SortInv, OrderInv, [SortNext]_sortVars PROVE OrderInv'
  OBVIOUS
<1>1. CASE Open \/ LoadUrl \/ Retry
  <2>1. /\ UNCHANGED <<disk, output_files>> /\ pc # "failed" /\ pc' # "aggregate"
    BY <1>1 DEF Open, LoadUrl, Retry
  <2> QED BY <2>1 DEF OrderInv, File
<1>2. CASE PoolFull
  <2>1. PICK r : BeginSpill("retry", IF r.pool = pool THEN {} ELSE {"malloc"})
    BY <1>2 DEF PoolFull
  <2> QED BY <1>2, <2>1, BeginSpillOrder DEF PoolFull
<1>3. CASE EndOfInput
  <2>1. PICK fs : IF urls # <<>> THEN BeginSpill("reopen", fs)
                  ELSE pc' = "reopen" /\ UNCHANGED <<disk, output_files>>
    BY <1>3 DEF EndOfInput
  <2>2. pc = "read" /\ mem' = mem
    BY <1>3 DEF EndOfInput
  <2>3. CASE BeginSpill("reopen", fs)
    BY <2>2, <2>3, BeginSpillOrder
  <2>4. CASE pc' = "reopen" /\ UNCHANGED <<disk, output_files>>
    BY <2>2, <2>4 DEF OrderInv, File
  <2> QED BY <2>1, <2>3, <2>4
<1>4. CASE AggregateUrl
  BY <1>4, AggregateUrlOrder
<1>5. CASE FlushLast
  <2>1. pc = "aggregate" /\ UNCHANGED output_files
    BY <1>5 DEF FlushLast
  <2>2. CASE IsEmpty(curr)
    BY <1>5, <2>1, <2>2 DEF FlushLast, NothingLeft, OrderInv, File
  <2>3. CASE ~IsEmpty(curr)
    <3>1. WriteResultTuple(curr, "free")
      BY <1>5, <2>3 DEF FlushLast, NothingLeft
    <3>2. \/ pc' = "failed"
          \/ /\ pc' = "free"
             /\ \A f \in 0 .. File : f \in DOMAIN disk' /\ RowsAscending(disk'[f])
      BY <2>1, <2>3, <3>1, WriteOrder
    <3> QED BY <2>1, <3>2 DEF OrderInv, File
  <2> QED BY <2>2, <2>3
<1>6. CASE FreeUrl \/ ClearUrls
  <2>1. /\ UNCHANGED <<disk, output_files>> /\ pc = "free" /\ pc' # "aggregate"
    BY <1>6 DEF FreeUrl, ClearUrls, SortInv, SortTypeOK
  <2> QED BY <2>1 DEF OrderInv, File
<1>7. CASE UNCHANGED sortVars
  BY <1>7 DEF sortVars, processVars, localVars, OrderInv, File, IsEmpty
<1> QED
  BY <1>1, <1>2, <1>3, <1>4, <1>5, <1>6, <1>7 DEF SortNext, SortStep, SortReturned

(***************************************************************************)
(* The rows of every spill file are in ascending order of their URLs, with *)
(* one row for each.                                                       *)
(***************************************************************************)
THEOREM SpillsAreSorted == SortSpec => []SpillsSorted
<1>1. SortInit => OrderInv
  BY InitOrderInv
<1>2. SortInv /\ OrderInv /\ [SortNext]_sortVars => OrderInv'
  BY OrderNextInv
<1>3. OrderInv => SpillsSorted
  BY DEF OrderInv, SpillsSorted, RowsAscending, File
<1> QED
  BY <1>1, <1>2, <1>3, SortSpecInv, PTL DEF SortSpec

-----------------------------------------------------------------------------

Running == pc \notin {"failed", "segv"}

(***************************************************************************)
(* The inductive invariant: the equation, and that what it adds up are     *)
(* natural numbers; the sum of the rows is the cardinality of a finite     *)
(* set.  The equation bounds the count of a tuple by the number of lines,  *)
(* and so keeps the addition of one from overflowing.                      *)
(***************************************************************************)
CountInv ==
  /\ Len(input) <= IntMax
  /\ Running => \A u \in Url : IsFiniteSet(Bytes(CountsOf(u)))
  /\ pc = "aggregate" => curr.cnt \in Nat
  /\ CountsConserved

-----------------------------------------------------------------------------

\* Two functions with the same values are the same.
LEMMA SameFunction ==
  ASSUME NEW c, NEW d, c = [x \in DOMAIN c |-> c[x]], d = [x \in DOMAIN d |-> d[x]],
         DOMAIN c = DOMAIN d, \A x \in DOMAIN c : c[x] = d[x]
  PROVE  c = d
OBVIOUS

\* The counts as a function, before and after a step.
LEMMA CountsForm ==
  ASSUME NEW u
  PROVE  /\ CountsOf(u) = [x \in DOMAIN CountsOf(u) |-> CountsOf(u)[x]]
         /\ DOMAIN CountsOf(u) = RowsOf(u)
         /\ CountsOf(u)' = [x \in DOMAIN CountsOf(u)' |-> CountsOf(u)'[x]]
         /\ DOMAIN CountsOf(u)' = RowsOf(u)'
BY DEF CountsOf

\* The count a row adds, before and after a step.
LEMMA CountOfRow ==
  ASSUME NEW u, NEW x
  PROVE  /\ x \in RowsOf(u) => CountsOf(u)[x] = disk[x[1]][x[2]].cnt
         /\ x \in RowsOf(u)' => CountsOf(u)'[x] = disk'[x[1]][x[2]].cnt
BY DEF CountsOf

\* A row is one of URL u, before and after a step.
LEMMA RowsForm ==
  ASSUME NEW u, NEW x
  PROVE  /\ x \in RowsOf(u) <=> \E f \in 0 .. File : \E j \in DOMAIN disk[f] :
                                  x = <<f, j>> /\ disk[f][j].url = u
         /\ x \in RowsOf(u)' <=> \E f \in 0 .. File' : \E j \in DOMAIN disk'[f] :
                                  x = <<f, j>> /\ disk'[f][j].url = u
<1>1. /\ x \in RowsOf(u) => \E f \in 0 .. File : \E j \in DOMAIN disk[f] :
                              x = <<f, j>> /\ disk[f][j].url = u
      /\ \A f \in 0 .. File : \A j \in DOMAIN disk[f] :
           x = <<f, j>> /\ disk[f][j].url = u => x \in RowsOf(u)
  BY DEF RowsOf, File
<1>2. /\ x \in RowsOf(u)' => \E f \in 0 .. File' : \E j \in DOMAIN disk'[f] :
                              x = <<f, j>> /\ disk'[f][j].url = u
      /\ \A f \in 0 .. File' : \A j \in DOMAIN disk'[f] :
           x = <<f, j>> /\ disk'[f][j].url = u => x \in RowsOf(u)'
  BY DEF RowsOf, File
<1> QED
  BY <1>1, <1>2

\* A step that touches none of the rows.
LEMMA SameCounts ==
  ASSUME NEW u, RowsOf(u)' = RowsOf(u),
         \A x \in RowsOf(u) : disk'[x[1]][x[2]] = disk[x[1]][x[2]]
  PROVE  CountsOf(u)' = CountsOf(u)
<1>1. ASSUME NEW x \in RowsOf(u) PROVE CountsOf(u)'[x] = CountsOf(u)[x]
  <2>1. CountsOf(u)'[x] = disk'[x[1]][x[2]].cnt /\ CountsOf(u)[x] = disk[x[1]][x[2]].cnt
    BY CountOfRow
  <2> QED BY <2>1
<1>2. DOMAIN CountsOf(u)' = DOMAIN CountsOf(u)
  BY CountsForm
<1> QED
  BY <1>1, <1>2, CountsForm, SameFunction

\* A step that leaves the disk alone leaves the counts alone.
LEMMA FilesUntouched ==
  ASSUME UNCHANGED <<disk, output_files>>
  PROVE  File' = File /\ \A u : CountsOf(u)' = CountsOf(u)
BY DEF File, CountsOf, RowsOf

\* A new file has no rows, and those of the other files stay.
LEMMA NewFileCounts ==
  ASSUME output_files \in Nat, output_files' = output_files + 1,
         disk' = NewOutputFile(output_files), \A f \in 0 .. File : f \in DOMAIN disk
  PROVE  /\ File' = output_files /\ disk'[output_files] = <<>>
         /\ \A f \in 0 .. File : disk'[f] = disk[f]
         /\ \A u : CountsOf(u)' = CountsOf(u)
<1>1. File' = output_files /\ File = output_files - 1
  BY DEF File
<1>2. disk'[output_files] = <<>> /\ \A f \in 0 .. File : disk'[f] = disk[f]
  BY <1>1 DEF NewOutputFile, Put
<1>3. ASSUME NEW u PROVE CountsOf(u)' = CountsOf(u)
  <2>1. \A x \in RowsOf(u) : x \in RowsOf(u)' /\ disk'[x[1]][x[2]] = disk[x[1]][x[2]]
    <3> TAKE x \in RowsOf(u)
    <3>1. PICK f \in 0 .. File : \E j \in DOMAIN disk[f] : x = <<f, j>> /\ disk[f][j].url = u
      BY RowsForm
    <3>2. f \in 0 .. File' /\ disk'[f] = disk[f]
      BY <1>1, <1>2
    <3> QED BY <3>1, <3>2, RowsForm
  <2>2. \A x \in RowsOf(u)' : x \in RowsOf(u)
    <3> TAKE x \in RowsOf(u)'
    <3>1. PICK f \in 0 .. File' : \E j \in DOMAIN disk'[f] :
                                   x = <<f, j>> /\ disk'[f][j].url = u
      BY RowsForm
    <3>2. DOMAIN <<>> = {}
      OBVIOUS
    <3>3. f # output_files
      BY <1>2, <3>1, <3>2
    <3>4. f \in 0 .. File
      BY <1>1, <3>3
    <3> QED BY <1>2, <3>1, <3>4, RowsForm
  <2>3. RowsOf(u)' = RowsOf(u)
    BY <2>1, <2>2
  <2> QED BY <2>1, <2>3, SameCounts
<1> QED
  BY <1>1, <1>2, <1>3

\* The sum of a URL's counts after a new row at the end of a file.
LEMMA SpilledAppend ==
  ASSUME NEW file \in 0 .. File, file \in DOMAIN disk, disk[file] \in Seq(Row),
         NEW row \in Row, row.cnt \in Nat,
         disk' = [disk EXCEPT ![file] = Append(@, row)], UNCHANGED output_files,
         NEW u \in Url, IsFiniteSet(Bytes(CountsOf(u)))
  PROVE  /\ IsFiniteSet(Bytes(CountsOf(u)'))
         /\ Spilled(u)' = Spilled(u) + IF row.url = u THEN row.cnt ELSE 0
<1> DEFINE q == disk[file]
           r == <<file, Len(q) + 1>>
<1>1. /\ DOMAIN q = 1 .. Len(q) /\ Len(q) \in Nat
      /\ DOMAIN disk'[file] = DOMAIN q \cup {Len(q) + 1}
      /\ disk'[file][Len(q) + 1] = row
      /\ \A j \in DOMAIN q : disk'[file][j] = q[j]
      /\ \A f \in 0 .. File : f # file => disk'[f] = disk[f]
  OBVIOUS
<1>2. \A f \in 0 .. File : \A j :
        /\ j \in DOMAIN disk'[f] <=> (j \in DOMAIN disk[f] \/ <<f, j>> = r)
        /\ j \in DOMAIN disk[f] => disk'[f][j] = disk[f][j] /\ <<f, j>> # r
  BY <1>1
<1>3. disk'[file][r[2]] = row /\ r[2] \in DOMAIN disk'[file] /\ r = <<file, r[2]>>
  BY <1>1
<1>4. File' = File
  BY DEF File
<1> HIDE DEF q, r
<1>5. \A x : x \in RowsOf(u)' <=> x \in RowsOf(u) \/ (x = r /\ row.url = u)
  <2> TAKE x
  <2>1. ASSUME x \in RowsOf(u)' PROVE x \in RowsOf(u) \/ (x = r /\ row.url = u)
    BY <1>2, <1>3, <1>4, <2>1, RowsForm
  <2>2. ASSUME x \in RowsOf(u) PROVE x \in RowsOf(u)'
    BY <1>2, <1>4, <2>2, RowsForm
  <2>3. ASSUME x = r, row.url = u PROVE x \in RowsOf(u)'
    BY <1>3, <1>4, <2>3, RowsForm
  <2> QED BY <2>1, <2>2, <2>3
<1>6. \A x \in RowsOf(u) : x # r /\ disk'[x[1]][x[2]] = disk[x[1]][x[2]]
  <2> TAKE x \in RowsOf(u)
  <2>1. PICK f \in 0 .. File : \E j \in DOMAIN disk[f] : x = <<f, j>> /\ disk[f][j].url = u
    BY RowsForm
  <2> QED BY <1>2, <2>1
<1>7. CASE row.url # u
  <2>1. RowsOf(u)' = RowsOf(u)
    BY <1>5, <1>7
  <2>2. CountsOf(u)' = CountsOf(u)
    BY <1>6, <2>1, SameCounts
  <2> QED BY <1>7, <2>2, FS_CardinalityType DEF Spilled, Held
<1>8. CASE row.url = u
  <2>1. CountsOf(u)' = Put(CountsOf(u), r, row.cnt)
    <3> DEFINE d == Put(CountsOf(u), r, row.cnt)
    <3>1. /\ d = [x \in DOMAIN d |-> d[x]] /\ DOMAIN d = RowsOf(u) \cup {r}
          /\ d[r] = row.cnt /\ \A x \in RowsOf(u) : x # r => d[x] = CountsOf(u)[x]
      BY CountsForm DEF Put
    <3>2. RowsOf(u)' = RowsOf(u) \cup {r}
      BY <1>5, <1>8
    <3>3. disk'[r[1]][r[2]].cnt = row.cnt
      BY <1>3
    <3> HIDE DEF d
    <3>4. \A x \in DOMAIN d : CountsOf(u)'[x] = d[x]
      <4>1. CountsOf(u)'[r] = d[r]
        BY <3>1, <3>2, <3>3, CountOfRow
      <4>2. ASSUME NEW x \in RowsOf(u) PROVE CountsOf(u)'[x] = d[x]
        <5>1. CountsOf(u)'[x] = disk'[x[1]][x[2]].cnt /\ CountsOf(u)[x] = disk[x[1]][x[2]].cnt
          BY <3>2, CountOfRow
        <5> QED BY <1>6, <3>1, <5>1
      <4> QED BY <3>1, <4>1, <4>2
    <3>5. DOMAIN CountsOf(u)' = DOMAIN d
      BY <3>1, <3>2, CountsForm
    <3>6. CountsOf(u)' = d
      BY <3>1, <3>4, <3>5, CountsForm, SameFunction
    <3> QED BY <3>6 DEF d
  <2>2. r \notin DOMAIN CountsOf(u)
    BY <1>6, CountsForm
  <2> QED BY <1>8, <2>1, <2>2, HeldPut DEF Spilled
<1> QED
  BY <1>7, <1>8

-----------------------------------------------------------------------------

\* A set of places of a sequence of length n.
LEMMA PlacesFinite ==
  ASSUME NEW n \in Nat, NEW S, S \subseteq 1 .. n
  PROVE  IsFiniteSet(S) /\ Cardinality(S) \in Nat /\ Cardinality(S) <= n
<1>1. IsFiniteSet(1 .. n) /\ Cardinality(1 .. n) = n
  BY FS_Interval
<1>2. IsFiniteSet(S) /\ Cardinality(S) <= n
  BY <1>1, FS_Subset
<1> QED
  BY <1>2, FS_CardinalityType

\* Finitely many strings wait to be counted.
LEMMA PendingFinite ==
  ASSUME SortTypeOK, NEW u
  PROVE  IsFiniteSet(PendingAt(u)) /\ Pending(u) \in Nat
<1>1. Len(urls) \in Nat /\ PendingAt(u) \subseteq 1 .. Len(urls)
  BY DEF SortTypeOK, PendingAt
<1> QED
  BY <1>1, PlacesFinite DEF Pending

\* A string that is loaded at a free address waits to be counted.
LEMMA PendingAppend ==
  ASSUME SortTypeOK, UrlsOwnPool, pc \in {"read", "retry"}, pc' = "read",
         NEW v \in Url, NEW a \in Addr, a \notin pool.live,
         urls' = Append(urls, a), mem' = [mem EXCEPT ![a] = v], NEW u
  PROVE  Pending(u)' = Pending(u) + IF v = u THEN 1 ELSE 0
<1>1. /\ urls \in Seq(Addr) /\ DOMAIN urls = 1 .. Len(urls) /\ Len(urls) \in Nat
      /\ DOMAIN urls' = DOMAIN urls \cup {Len(urls) + 1}
      /\ urls'[Len(urls) + 1] = a
      /\ \A k \in DOMAIN urls : urls'[k] = urls[k] /\ urls[k] \in Addr
      /\ Len(urls) + 1 \notin DOMAIN urls
  BY DEF SortTypeOK
<1>2. \A k \in DOMAIN urls : urls[k] # a
  BY <1>1 DEF UrlsOwnPool, Loaded
<1>3. /\ \A k \in DOMAIN urls : mem'[urls'[k]] = mem[urls[k]]
      /\ mem'[urls'[Len(urls) + 1]] = v
  BY <1>1, <1>2 DEF SortTypeOK
<1>4. PendingAt(u)' = PendingAt(u) \cup IF v = u THEN {Len(urls) + 1} ELSE {}
  BY <1>1, <1>3 DEF PendingAt
<1>5. Len(urls) + 1 \notin PendingAt(u)
  BY <1>1 DEF PendingAt
<1>6. CASE v = u
  BY <1>4, <1>5, <1>6, PendingFinite, FS_AddElement DEF Pending
<1>7. CASE v # u
  <2>1. PendingAt(u)' = PendingAt(u)
    BY <1>4, <1>7
  <2> QED BY <1>7, <2>1, PendingFinite DEF Pending
<1> QED
  BY <1>6, <1>7

\* std::sort permutes the strings that wait.
LEMMA PendingSorted ==
  ASSUME SortTypeOK, pc = "read", pc' = "aggregate", idx' = 1, mem' = mem,
         urls' \in Sorted(urls), NEW u
  PROVE  Pending(u)' = Pending(u)
<1>1. PICK f \in Bijection(DOMAIN urls, DOMAIN urls) : urls' = [k \in DOMAIN urls |-> urls[f[k]]]
  BY DEF Sorted, Arrangements
<1>2. /\ f \in [DOMAIN urls -> DOMAIN urls]
      /\ \A k \in DOMAIN urls : \E j \in DOMAIN urls : f[j] = k
      /\ \A j, k \in DOMAIN urls : f[j] = f[k] => j = k
  BY <1>1 DEF Bijection, Injection, Surjection, IsInjective
<1>3. DOMAIN urls' = DOMAIN urls /\ \A k \in DOMAIN urls : urls'[k] = urls[f[k]] /\ k >= 1
  BY <1>1 DEF SortTypeOK
<1> DEFINE S == PendingAt(u)
           T == {k \in DOMAIN urls : mem[urls[f[k]]] = u}
           g == [k \in T |-> f[k]]
<1>4. PendingAt(u)' = T
  BY <1>3 DEF PendingAt
<1>5. S = {k \in DOMAIN urls : mem[urls[k]] = u}
  BY DEF PendingAt
<1>6. T \subseteq DOMAIN urls /\ IsFiniteSet(T)
  <2>1. Len(urls) \in Nat /\ DOMAIN urls = 1 .. Len(urls)
    BY DEF SortTypeOK
  <2>2. T \subseteq 1 .. Len(urls)
    BY <2>1
  <2> HIDE DEF T
  <2> QED BY <2>1, <2>2, PlacesFinite
<1>7. g \in Bijection(T, S)
  <2>1. g \in [T -> S]
    BY <1>2, <1>5
  <2>2. \A s \in S : \E t \in T : g[t] = s
    BY <1>2, <1>5
  <2>3. \A j, k \in T : g[j] = g[k] => j = k
    BY <1>2
  <2> QED BY <2>1, <2>2, <2>3 DEF Bijection, Injection, Surjection, IsInjective
<1>8. Cardinality(S) = Cardinality(T)
  <2> HIDE DEF S, T, g
  <2> QED BY <1>6, <1>7, FS_Bijection DEF ExistsBijection
<1> QED
  BY <1>4, <1>8 DEF Pending

\* A string that is counted waits no longer.
LEMMA PendingCounted ==
  ASSUME SortTypeOK, pc = "aggregate", pc' = "aggregate", idx' = idx + 1,
         idx \in DOMAIN urls, UNCHANGED <<mem, urls>>, NEW u
  PROVE  /\ Pending(u) = Pending(u)' + IF mem[urls[idx]] = u THEN 1 ELSE 0
         /\ Pending(u)' \in Nat
<1>1. \A k \in DOMAIN urls : k \in Nat
  BY DEF SortTypeOK
<1>2. PendingAt(u)' = PendingAt(u) \ {idx}
  BY <1>1 DEF PendingAt
<1>3. idx \in PendingAt(u) <=> mem[urls[idx]] = u
  BY <1>1 DEF PendingAt
<1>4. /\ IsFiniteSet(PendingAt(u)')
      /\ Cardinality(PendingAt(u)')
           = IF idx \in PendingAt(u) THEN Cardinality(PendingAt(u)) - 1
             ELSE Cardinality(PendingAt(u))
  <2>1. IsFiniteSet(PendingAt(u))
    BY PendingFinite
  <2> QED BY <1>2, <2>1, FS_RemoveElement
<1>5. Pending(u)' \in Nat
  BY <1>4, FS_CardinalityType DEF Pending
<1> QED
  BY <1>3, <1>4, <1>5, PendingFinite DEF Pending

\* There are no strings to be counted.
LEMMA NonePending ==
  ASSUME SortTypeOK, NEW u
  PROVE  /\ pc = "free" => Pending(u) = 0
         /\ pc = "aggregate" /\ idx > Len(urls) => Pending(u) = 0
         /\ urls = <<>> => Pending(u) = 0
         /\ pc' = "free" => Pending(u)' = 0
         /\ urls' = <<>> => Pending(u)' = 0
<1>1. /\ pc = "free" => PendingAt(u) = {}
      /\ urls = <<>> => PendingAt(u) = {}
      /\ pc' = "free" => PendingAt(u)' = {}
      /\ urls' = <<>> => PendingAt(u)' = {}
  BY DEF PendingAt
<1>2. pc = "aggregate" /\ idx > Len(urls) => PendingAt(u) = {}
  <2>1. \A k \in DOMAIN urls : k \in Nat /\ k <= Len(urls)
    BY DEF SortTypeOK
  <2> QED BY <2>1 DEF PendingAt, SortTypeOK
<1> QED
  BY <1>1, <1>2, FS_EmptySet DEF Pending

-----------------------------------------------------------------------------

\* There are no more lines with a URL than there are lines.
LEMMA OccurrencesBounded ==
  ASSUME SortInv, NEW u
  PROVE  Occurrences(u) \in Nat /\ Occurrences(u) <= Len(input)
<1> DEFINE S == {k \in 1 .. in_pos - Unstored : input[k] = u}
<1>1. Len(input) \in Nat /\ in_pos \in 0 .. Len(input) /\ Unstored \in {0, 1}
  BY DEF SortInv, SortTypeOK, Unstored
<1>2. S \subseteq 1 .. Len(input)
  BY <1>1
<1> HIDE DEF S
<1>3. Cardinality(S) \in Nat /\ Cardinality(S) <= Len(input)
  BY <1>1, <1>2, PlacesFinite
<1> QED
  BY <1>3 DEF Occurrences, S

\* One line more is stored.
LEMMA OccurrencesNext ==
  ASSUME NEW n \in Nat, in_pos - Unstored = n, (in_pos - Unstored)' = n + 1,
         UNCHANGED input, NEW u
  PROVE  Occurrences(u)' = Occurrences(u) + IF input[n + 1] = u THEN 1 ELSE 0
<1> DEFINE S == {k \in 1 .. n : input[k] = u}
           T == {k \in 1 .. n + 1 : input[k] = u}
<1>1. Occurrences(u) = Cardinality(S) /\ Occurrences(u)' = Cardinality(T)
  BY DEF Occurrences
<1>2. IsFiniteSet(S) /\ Cardinality(S) \in Nat
  <2>1. S \subseteq 1 .. n
    OBVIOUS
  <2> HIDE DEF S
  <2> QED BY <2>1, PlacesFinite
<1>3. CASE input[n + 1] = u
  <2>1. T = S \cup {n + 1} /\ n + 1 \notin S
    BY <1>3
  <2> HIDE DEF S, T
  <2> QED BY <1>1, <1>2, <1>3, <2>1, FS_AddElement
<1>4. CASE input[n + 1] # u
  <2>1. T = S
    BY <1>4
  <2> HIDE DEF S, T
  <2> QED BY <1>1, <1>2, <1>4, <2>1
<1> QED
  BY <1>3, <1>4

\* No line more is stored.
LEMMA OccurrencesSame ==
  ASSUME (in_pos - Unstored)' = in_pos - Unstored, UNCHANGED input, NEW u
  PROVE  Occurrences(u)' = Occurrences(u)
BY DEF Occurrences

-----------------------------------------------------------------------------

\* The invariant for one URL.
LEMMA CountInvForm ==
  ASSUME SortInv, CountInv, Running, NEW u \in Url
  PROVE  /\ IsFiniteSet(Bytes(CountsOf(u))) /\ Spilled(u) \in Nat
         /\ Pending(u) \in Nat /\ InCurr(u) \in Nat /\ Occurrences(u) \in Nat
         /\ Spilled(u) + InCurr(u) + Pending(u) = Occurrences(u)
         /\ pc # "aggregate" => InCurr(u) = 0
         /\ Spilled(u) + InCurr(u) + Pending(u) <= IntMax
<1>1. /\ IsFiniteSet(Bytes(CountsOf(u))) /\ InCurr(u) \in Nat
      /\ pc # "aggregate" => InCurr(u) = 0
  BY DEF CountInv, InCurr
<1>2. Spilled(u) \in Nat
  BY <1>1, FS_CardinalityType DEF Spilled, Held
<1>3. Pending(u) \in Nat
  BY PendingFinite DEF SortInv
<1>4. Occurrences(u) \in Nat /\ Occurrences(u) <= Len(input) /\ Len(input) \in Nat
  BY OccurrencesBounded DEF SortInv, SortTypeOK
<1>5. Spilled(u) + InCurr(u) + Pending(u) = Occurrences(u)
  BY DEF CountInv, CountsConserved, Running
<1> QED
  BY <1>1, <1>2, <1>3, <1>4, <1>5, ProcessAssumption DEF CountInv

\* What a step that goes on has to show, the rows being finitely many.
LEMMA CountInvStep ==
  ASSUME CountInv, UNCHANGED input, pc' = "aggregate" => curr'.cnt \in Nat,
         ASSUME NEW u \in Url, Running'
         PROVE  /\ IsFiniteSet(Bytes(CountsOf(u)'))
                /\ Spilled(u)' + InCurr(u)' + Pending(u)' = Occurrences(u)'
  PROVE  CountInv'
<1>1. Running' => \A u \in Url : IsFiniteSet(Bytes(CountsOf(u)'))
  OBVIOUS
<1>2. CountsConserved'
  BY DEF CountsConserved, Running
<1> QED
  BY <1>1, <1>2 DEF CountInv

\* A step that neither writes a row nor counts a string.
LEMMA RowsUntouched ==
  ASSUME SortInv, CountInv, Running, UNCHANGED input,
         pc # "aggregate", pc' = "aggregate" => curr' = Empty,
         \A u \in Url : CountsOf(u)' = CountsOf(u),
         \A u \in Url : \E d \in {0, 1} :
            Pending(u)' = Pending(u) + d /\ Occurrences(u)' = Occurrences(u) + d
  PROVE  CountInv'
<1>1. pc' = "aggregate" => curr'.cnt = 0 /\ curr'.cnt \in Nat
  BY DEF Empty
<1>2. ASSUME NEW u \in Url
      PROVE  /\ IsFiniteSet(Bytes(CountsOf(u)'))
             /\ Spilled(u)' + InCurr(u)' + Pending(u)' = Occurrences(u)'
  <2>1. InCurr(u)' = 0
    BY <1>1 DEF InCurr, IsEmpty
  <2>2. CountsOf(u)' = CountsOf(u) /\ Spilled(u)' = Spilled(u)
    BY DEF Spilled
  <2> QED BY <2>1, <2>2, CountInvForm
<1> QED
  BY <1>1, <1>2, CountInvStep

\* A URL is copied to a free chunk.
LEMMA PushCount ==
  ASSUME SortInv, CountInv, pc \in {"read", "retry"}, pc' = "read",
         NEW v \in Url, NEW a \in Addr, a \notin pool.live, Push(v, a),
         UNCHANGED <<input, disk, output_files>>,
         NEW n \in Nat, in_pos - Unstored = n, (in_pos - Unstored)' = n + 1, v = input[n + 1]
  PROVE  CountInv'
<1>1. ASSUME NEW u \in Url
      PROVE  \E d \in {0, 1} :
               Pending(u)' = Pending(u) + d /\ Occurrences(u)' = Occurrences(u) + d
  <2>1. Pending(u)' = Pending(u) + IF v = u THEN 1 ELSE 0
    BY PendingAppend DEF Push, SortInv
  <2>2. Occurrences(u)' = Occurrences(u) + IF v = u THEN 1 ELSE 0
    BY OccurrencesNext
  <2> QED BY <2>1, <2>2
<1> QED
  BY <1>1, FilesUntouched, RowsUntouched DEF Running

\* What is loaded is sorted, to be counted into a new file.
LEMMA BeginSpillCount ==
  ASSUME SortInv, OrderInv, CountInv, pc = "read", NEW ret, NEW fs, BeginSpill(ret, fs),
         UNCHANGED <<input, mem>>, in_pos' = in_pos + IF ret = "retry" THEN 1 ELSE 0
  PROVE  CountInv'
<1>1. CASE pc' = "failed"
  BY <1>1, CountInvStep DEF Running
<1>2. CASE /\ pc' = "aggregate" /\ disk' = NewOutputFile(output_files)
           /\ urls' \in Sorted(urls) /\ curr' = Empty
  <2>1. output_files \in Nat /\ output_files' = output_files + 1 /\ in_pos \in Nat
    BY DEF SortInv, SortTypeOK, BeginSpill
  <2>2. \A f \in 0 .. File : f \in DOMAIN disk
    BY DEF OrderInv
  <2>3. \A u \in Url : CountsOf(u)' = CountsOf(u)
    BY <1>2, <2>1, <2>2, NewFileCounts
  <2>4. (in_pos - Unstored)' = in_pos - Unstored
    BY <1>2, <2>1 DEF BeginSpill, Unstored
  <2>5. ASSUME NEW u \in Url
        PROVE  Pending(u)' = Pending(u) /\ Occurrences(u)' = Occurrences(u)
    BY <1>2, <2>4, PendingSorted, OccurrencesSame DEF BeginSpill, SortInv
  <2>6. ASSUME NEW u \in Url
        PROVE  Pending(u)' = Pending(u) + 0 /\ Occurrences(u)' = Occurrences(u) + 0
    BY <2>5, CountInvForm DEF Running
  <2> QED BY <1>2, <2>3, <2>6, RowsUntouched DEF Running
<1> QED
  BY <1>1, <1>2 DEF BeginSpill

\* WriteResultTuple of curr_tuple adds its count to its URL, or fails.
LEMMA WriteCount ==
  ASSUME SortInv, OrderInv, CountInv, pc = "aggregate", ~IsEmpty(curr), NEW then,
         WriteResultTuple(curr, then), UNCHANGED <<output_files, mem>>, pc' # "failed",
         NEW u \in Url
  PROVE  /\ pc' = then
         /\ IsFiniteSet(Bytes(CountsOf(u)'))
         /\ Spilled(u)' = Spilled(u) + InCurr(u)
<1>1. pc' = then /\ disk' = [disk EXCEPT ![File] = Append(@, RowOf(curr))]
  BY DEF WriteResultTuple, File
<1>2. File \in 0 .. File /\ File \in DOMAIN disk /\ disk[File] \in Seq(Row)
  BY DEF OrderInv, SortInv, SortTypeOK
<1>3. mem \in [Addr -> Url] /\ curr.ptr \in Addr /\ curr.cnt \in Nat
  BY DEF SortInv, SortTypeOK, CountInv
<1>4. RowOf(curr) \in Row /\ RowOf(curr).cnt = curr.cnt /\ RowOf(curr).url = mem[curr.ptr]
  BY <1>3 DEF RowOf, Row
<1>5. InCurr(u) = IF RowOf(curr).url = u THEN RowOf(curr).cnt ELSE 0
  BY <1>4 DEF InCurr
<1>6. IsFiniteSet(Bytes(CountsOf(u)))
  BY CountInvForm DEF Running
<1> QED
  BY <1>1, <1>2, <1>3, <1>4, <1>5, <1>6, SpilledAppend

\* Counting a string moves it from those that wait to the tuple.
LEMMA AggregateUrlCount ==
  ASSUME SortInv, OrderInv, CountInv, AggregateUrl
  PROVE  CountInv'
<1> DEFINE url == urls[idx]
           One(u) == IF mem[url] = u THEN 1 ELSE 0
<1>1. /\ pc = "aggregate" /\ idx <= Len(urls) /\ idx' = idx + 1
      /\ UNCHANGED <<input, mem, output_files, urls, in_pos, resume>>
  BY DEF AggregateUrl, localVars
<1>2. idx \in DOMAIN urls /\ url \in Addr /\ mem[url] \in Url
  BY <1>1 DEF SortInv, SortTypeOK, SpillReturns
<1>3. CASE pc' = "failed"
  BY <1>1, <1>3, CountInvStep DEF Running
<1>4. CASE pc' = "aggregate"
  <2>1. ASSUME NEW u \in Url
        PROVE  /\ IsFiniteSet(Bytes(CountsOf(u))) /\ Spilled(u) \in Nat /\ InCurr(u) \in Nat
               /\ Pending(u)' \in Nat /\ Pending(u) = Pending(u)' + One(u)
               /\ Spilled(u) + InCurr(u) + Pending(u) = Occurrences(u)'
               /\ Spilled(u) + InCurr(u) + Pending(u) <= IntMax
    <3>1. Occurrences(u)' = Occurrences(u)
      BY <1>1, <1>4, OccurrencesSame DEF Unstored
    <3>2. Pending(u)' \in Nat /\ Pending(u) = Pending(u)' + One(u)
      BY <1>1, <1>2, <1>4, PendingCounted DEF SortInv
    <3> QED BY <1>1, <3>1, <3>2, CountInvForm DEF Running
  <2>2. CASE UNCHANGED disk /\ IsEmpty(curr) /\ curr' = Init(url)
    <3>1. ASSUME NEW u \in Url PROVE InCurr(u) = 0 /\ InCurr(u)' = One(u)
      BY <1>1, <1>4, <2>2 DEF InCurr, Init, IsEmpty
    <3>2. curr'.cnt \in Nat
      BY <2>2 DEF Init
    <3>3. ASSUME NEW u \in Url
          PROVE  /\ IsFiniteSet(Bytes(CountsOf(u)'))
                 /\ Spilled(u)' + InCurr(u)' + Pending(u)' = Occurrences(u)'
      <4>1. CountsOf(u)' = CountsOf(u) /\ Spilled(u)' = Spilled(u)
        BY <1>1, <2>2, FilesUntouched DEF Spilled
      <4> QED BY <2>1, <3>1, <4>1
    <3> QED BY <1>1, <3>2, <3>3, CountInvStep
  <2>3. CASE /\ UNCHANGED disk /\ ~IsEmpty(curr) /\ mem[curr.ptr] = mem[url]
             /\ curr' = [curr EXCEPT !.cnt = IntAdd(@, 1)]
    <3>1. curr.cnt \in Nat /\ curr \in [ptr : Addr \cup {NULL}, cnt : Int]
      BY <1>1 DEF CountInv, SortInv, SortTypeOK
    <3>2. curr.cnt + 1 <= IntMax
      <4>1. PICK v \in Url : mem[url] = v
        BY <1>2
      <4>2. /\ Spilled(v) \in Nat /\ InCurr(v) \in Nat
            /\ Spilled(v) + InCurr(v) + Pending(v) <= IntMax
        BY <1>1, <4>1, CountInvForm DEF Running
      <4>3. Pending(v)' \in Nat /\ Pending(v) = Pending(v)' + 1
        BY <1>1, <1>2, <1>4, <4>1, PendingCounted DEF SortInv
      <4>4. InCurr(v) + 1 <= IntMax
        BY <4>2, <4>3, ProcessAssumption
      <4> QED BY <2>3, <4>1, <4>4, <1>1 DEF InCurr
    <3>3. curr'.cnt = curr.cnt + 1 /\ curr'.ptr = curr.ptr
      BY <2>3, <3>1, <3>2, ProcessAssumption DEF IntAdd
    <3>4. curr'.cnt \in Nat
      BY <3>1, <3>3
    <3>5. ASSUME NEW u \in Url PROVE InCurr(u)' = InCurr(u) + One(u)
      BY <1>1, <1>4, <2>3, <3>1, <3>3 DEF InCurr, IsEmpty
    <3>6. ASSUME NEW u \in Url
          PROVE  /\ IsFiniteSet(Bytes(CountsOf(u)'))
                 /\ Spilled(u)' + InCurr(u)' + Pending(u)' = Occurrences(u)'
      <4>1. CountsOf(u)' = CountsOf(u) /\ Spilled(u)' = Spilled(u)
        BY <1>1, <2>3, FilesUntouched DEF Spilled
      <4> QED BY <2>1, <3>5, <4>1
    <3> QED BY <1>1, <3>4, <3>6, CountInvStep
  <2>4. CASE /\ ~IsEmpty(curr) /\ WriteResultTuple(curr, "aggregate")
             /\ curr' = IF pc' = "failed" THEN curr ELSE Init(url)
    <3>1. curr' = Init(url) /\ curr'.cnt \in Nat
      BY <1>4, <2>4 DEF Init
    <3>2. ASSUME NEW u \in Url PROVE InCurr(u)' = One(u)
      BY <1>1, <1>4, <3>1 DEF InCurr, Init, IsEmpty
    <3>3. ASSUME NEW u \in Url
          PROVE  /\ IsFiniteSet(Bytes(CountsOf(u)'))
                 /\ Spilled(u)' + InCurr(u)' + Pending(u)' = Occurrences(u)'
      <4>1. IsFiniteSet(Bytes(CountsOf(u)')) /\ Spilled(u)' = Spilled(u) + InCurr(u)
        BY <1>1, <1>4, <2>4, WriteCount
      <4> QED BY <2>1, <3>2, <4>1
    <3> QED BY <1>1, <3>1, <3>3, CountInvStep
  <2> QED BY <2>2, <2>3, <2>4 DEF AggregateUrl
<1>5. pc' \in {"aggregate", "failed"}
  BY <1>1 DEF AggregateUrl, WriteResultTuple
<1> QED
  BY <1>3, <1>4, <1>5

\* The row after the loop takes over what the last tuple counted.
LEMMA FlushLastCount ==
  ASSUME SortInv, OrderInv, CountInv, FlushLast
  PROVE  CountInv'
<1>1. /\ pc = "aggregate" /\ idx > Len(urls)
      /\ UNCHANGED <<input, mem, output_files, curr, urls, in_pos, resume>>
  BY DEF FlushLast, localVars
<1>2. pc' \in {"free", "failed"}
  BY DEF FlushLast, WriteResultTuple
<1>3. CASE pc' = "failed"
  BY <1>1, <1>3, CountInvStep DEF Running
<1>4. CASE pc' = "free"
  <2>1. ASSUME NEW u \in Url
        PROVE  /\ IsFiniteSet(Bytes(CountsOf(u)')) /\ Spilled(u)' = Spilled(u) + InCurr(u)
    <3>1. CASE IsEmpty(curr)
      <4>1. UNCHANGED disk
        BY <3>1 DEF FlushLast, NothingLeft
      <4>2. CountsOf(u)' = CountsOf(u) /\ Spilled(u)' = Spilled(u)
        BY <1>1, <4>1, FilesUntouched DEF Spilled
      <4>3. InCurr(u) = 0
        BY <3>1 DEF InCurr
      <4> QED BY <1>1, <4>2, <4>3, CountInvForm DEF Running
    <3>2. CASE ~IsEmpty(curr)
      <4>1. WriteResultTuple(curr, "free")
        BY <3>2 DEF FlushLast, NothingLeft
      <4> QED BY <1>1, <1>4, <3>2, <4>1, WriteCount
    <3> QED BY <3>1, <3>2
  <2>2. ASSUME NEW u \in Url
        PROVE  /\ IsFiniteSet(Bytes(CountsOf(u)'))
               /\ Spilled(u)' + InCurr(u)' + Pending(u)' = Occurrences(u)'
    <3>1. InCurr(u)' = 0
      BY <1>4 DEF InCurr
    <3>2. Pending(u) = 0 /\ Pending(u)' = 0
      BY <1>1, <1>4, NonePending DEF SortInv
    <3>3. Occurrences(u)' = Occurrences(u)
      BY <1>1, <1>4, OccurrencesSame DEF Unstored
    <3> QED BY <1>1, <2>1, <3>1, <3>2, <3>3, CountInvForm DEF Running
  <2> QED BY <1>1, <1>4, <2>2, CountInvStep
<1> QED
  BY <1>2, <1>3, <1>4

\* The line read is stored; a line that had to wait in url_buf_ is stored too.
LEMMA LoadUrlCount ==
  ASSUME SortInv, CountInv, LoadUrl
  PROVE  CountInv'
<1>1. /\ pc = "read" /\ pc' = "read" /\ in_pos < Len(input) /\ in_pos' = in_pos + 1
      /\ UNCHANGED <<input, disk, output_files>>
  BY DEF LoadUrl
<1>2. in_pos \in Nat /\ in_pos + 1 \in 1 .. Len(input) /\ SortTypeOK
  BY <1>1 DEF SortInv, SortTypeOK
<1>3. PICK r \in TryAllocate(pool, UrlLen[input[in_pos + 1]]) :
        r.ptr # NULL /\ Push(input[in_pos + 1], r.ptr)
  BY <1>1 DEF LoadUrl
<1>4. input[in_pos + 1] \in Url /\ UrlLen[input[in_pos + 1]] \in Nat \ {0}
  BY <1>2, LineIsUrl
<1>5. r.ptr \in Addr /\ r.ptr \notin pool.live
  BY <1>3, <1>4, TryAllocateOK DEF SortInv, PoolWithinLimit
<1>6. in_pos - Unstored = in_pos /\ (in_pos - Unstored)' = in_pos + 1
  BY <1>1, <1>2 DEF Unstored
<1> QED
  BY <1>1, <1>2, <1>3, <1>4, <1>5, <1>6, PushCount

\* The line kept in url_buf_ over a spill is stored once.
LEMMA RetryCount ==
  ASSUME SortInv, CountInv, Retry
  PROVE  CountInv'
<1>1. /\ pc = "retry" /\ UNCHANGED <<input, in_pos, resume, disk, output_files>>
      /\ resume = "retry" /\ in_pos >= 1
  BY DEF Retry, SortInv, SpillReturns
<1>2. in_pos \in 1 .. Len(input) /\ SortTypeOK
  BY <1>1 DEF SortInv, SortTypeOK
<1>3. PICK r \in TryAllocate(pool, UrlLen[input[in_pos]]) :
        IF r.ptr # NULL THEN pc' = "read" /\ Push(input[in_pos], r.ptr) ELSE pc' = "segv"
  BY DEF Retry
<1>4. CASE r.ptr # NULL
  <2>1. input[in_pos] \in Url /\ UrlLen[input[in_pos]] \in Nat \ {0}
    BY <1>2, LineIsUrl
  <2>2. r.ptr \in Addr /\ r.ptr \notin pool.live
    BY <1>3, <1>4, <2>1, TryAllocateOK DEF SortInv, PoolWithinLimit
  <2>3. pc' = "read" /\ Push(input[in_pos], r.ptr)
    BY <1>3, <1>4
  <2> DEFINE n == in_pos - 1
  <2>4. /\ n \in Nat /\ in_pos = n + 1
        /\ in_pos - Unstored = n /\ (in_pos - Unstored)' = n + 1
    BY <1>1, <1>2, <2>3 DEF Unstored
  <2> HIDE DEF n
  <2> QED BY <1>1, <2>1, <2>2, <2>3, <2>4, PushCount
<1>5. CASE r.ptr = NULL
  BY <1>1, <1>3, <1>5, CountInvStep DEF Running
<1> QED
  BY <1>4, <1>5

\* Every step keeps the counts.
LEMMA CountNextInv == SortInv /\ OrderInv /\ CountInv /\ [SortNext]_sortVars => CountInv'
<1> SUFFICES ASSUME SortInv, OrderInv, CountInv, [SortNext]_sortVars PROVE CountInv'
  OBVIOUS
<1>1. CASE Open
  <2>1. /\ pc = "open" /\ pc' \in {"read", "failed"}
        /\ UNCHANGED <<input, mem, disk, output_files, in_pos, urls, resume>>
    BY <1>1 DEF Open, localVars
  <2>2. ASSUME NEW u \in Url
        PROVE  Pending(u)' = Pending(u) + 0 /\ Occurrences(u)' = Occurrences(u) + 0
    <3>1. Pending(u)' = Pending(u) /\ Occurrences(u)' = Occurrences(u)
      BY <2>1 DEF Pending, PendingAt, Occurrences, Unstored
    <3> QED BY <2>1, <3>1, CountInvForm DEF Running
  <2> QED BY <2>1, <2>2, FilesUntouched, RowsUntouched DEF Running
<1>2. CASE PoolFull
  <2>1. PICK r : BeginSpill("retry", IF r.pool = pool THEN {} ELSE {"malloc"})
    BY <1>2 DEF PoolFull
  <2> QED BY <1>2, <2>1, BeginSpillCount DEF PoolFull
<1>3. CASE EndOfInput
  <2>1. PICK fs : IF urls # <<>> THEN BeginSpill("reopen", fs)
                  ELSE pc' = "reopen" /\ UNCHANGED <<disk, output_files, urls>>
    BY <1>3 DEF EndOfInput
  <2>2. pc = "read" /\ UNCHANGED <<input, mem, in_pos>> /\ in_pos \in Nat
    BY <1>3 DEF EndOfInput, SortInv, SortTypeOK
  <2>3. CASE BeginSpill("reopen", fs)
    BY <2>2, <2>3, BeginSpillCount
  <2>4. CASE pc' = "reopen" /\ UNCHANGED <<disk, output_files, urls>>
    <3>1. ASSUME NEW u \in Url
          PROVE  Pending(u)' = Pending(u) + 0 /\ Occurrences(u)' = Occurrences(u) + 0
      <4>1. Pending(u)' = Pending(u) /\ Occurrences(u)' = Occurrences(u)
        BY <2>2, <2>4 DEF Pending, PendingAt, Occurrences, Unstored
      <4> QED BY <2>2, <4>1, CountInvForm DEF Running
    <3> QED BY <2>2, <2>4, <3>1, FilesUntouched, RowsUntouched DEF Running
  <2> QED BY <2>1, <2>3, <2>4
<1>4. CASE FreeUrl \/ ClearUrls
  <2>1. /\ pc = "free" /\ UNCHANGED <<input, disk, output_files, in_pos, resume>>
        /\ pc' = "free" \/ (urls' = <<>> /\ pc' = resume)
    BY <1>4 DEF FreeUrl, ClearUrls, Cleared, localVars
  <2>2. pc' # "aggregate" /\ (in_pos - Unstored)' = in_pos - Unstored
    BY <2>1 DEF Unstored, SortInv, SortTypeOK
  <2>3. ASSUME NEW u \in Url
        PROVE  Pending(u)' = Pending(u) + 0 /\ Occurrences(u)' = Occurrences(u) + 0
    <3>1. Pending(u) = 0 /\ Pending(u)' = 0
      BY <2>1, NonePending DEF SortInv
    <3>2. Occurrences(u)' = Occurrences(u)
      BY <2>1, <2>2, OccurrencesSame
    <3> QED BY <2>1, <3>1, <3>2, CountInvForm DEF Running
  <2> QED BY <2>1, <2>2, <2>3, FilesUntouched, RowsUntouched DEF Running
<1>5. CASE SortReturned \/ UNCHANGED sortVars
  <2>1. UNCHANGED sortVars
    BY <1>5 DEF SortReturned
  <2>2. UNCHANGED <<pc, input, mem, disk, output_files, curr, idx, in_pos, urls, resume>>
    BY <2>1 DEF sortVars, processVars, localVars
  <2>3. ASSUME NEW u \in Url, Running'
        PROVE  /\ IsFiniteSet(Bytes(CountsOf(u)'))
               /\ Spilled(u)' + InCurr(u)' + Pending(u)' = Occurrences(u)'
    <3>1. CountsOf(u)' = CountsOf(u) /\ Spilled(u)' = Spilled(u)
      BY <2>2, FilesUntouched DEF Spilled
    <3>2. InCurr(u)' = InCurr(u)
      BY <2>2 DEF InCurr, IsEmpty
    <3>3. Pending(u)' = Pending(u) /\ Occurrences(u)' = Occurrences(u)
      BY <2>2 DEF Pending, PendingAt, Occurrences, Unstored
    <3> QED BY <2>2, <2>3, <3>1, <3>2, <3>3, CountInvForm DEF Running
  <2> QED BY <2>2, <2>3, CountInvStep DEF CountInv
<1> QED
  BY <1>1, <1>2, <1>3, <1>4, <1>5, LoadUrlCount, RetryCount, AggregateUrlCount, FlushLastCount
     DEF SortNext, SortStep

\* A process that starts has read and counted nothing.
LEMMA InitCountInv ==
  pc = "open" /\ in_pos = 0 /\ urls = <<>> /\ output_files = 0 /\ Len(input) <= IntMax
    => CountInv
<1>1. SUFFICES ASSUME pc = "open", in_pos = 0, urls = <<>>, output_files = 0,
                      Len(input) <= IntMax
               PROVE  CountInv
  OBVIOUS
<1>2. ASSUME NEW u \in Url
      PROVE  /\ IsFiniteSet(Bytes(CountsOf(u))) /\ Spilled(u) = 0
             /\ InCurr(u) = 0 /\ Pending(u) = 0 /\ Occurrences(u) = 0
  <2>1. DOMAIN CountsOf(u) = {}
    BY <1>1 DEF CountsOf, RowsOf
  <2>2. Bytes(CountsOf(u)) = {}
    BY <2>1 DEF Bytes
  <2>3. PendingAt(u) = {} /\ {k \in 1 .. in_pos - Unstored : input[k] = u} = {}
    BY <1>1 DEF PendingAt, Unstored
  <2> QED BY <1>1, <2>2, <2>3, FS_EmptySet
          DEF Spilled, Held, InCurr, Pending, Occurrences
<1>3. CountsConserved
  BY <1>2 DEF CountsConserved
<1> QED
  BY <1>1, <1>2, <1>3 DEF CountInv

(***************************************************************************)
(* For every URL, the rows of the spill files, the tuple being counted and *)
(* the strings that wait add up to the lines read, at every point of every *)
(* batch of an input an int can count: none is lost, none counted twice.   *)
(***************************************************************************)
THEOREM CountsAreConserved ==
  SortSpec /\ Len(input) <= IntMax => []CountsConserved
<1>1. SortInit /\ Len(input) <= IntMax => CountInv
  BY InitCountInv DEF SortInit, StartStage
<1>2. CountInv => CountsConserved
  BY DEF CountInv
<1>3. SortInit => OrderInv
  BY InitOrderInv
<1> QED
  BY <1>1, <1>2, <1>3, OrderNextInv, CountNextInv, SortSpecInv, PTL DEF SortSpec

=============================================================================
