-------------------------- MODULE MergeSortProofs --------------------------
(***************************************************************************)
(* The second stage, for any number of sorted spill files and of results,  *)
(* every tie of the two heaps and whatever fails: who owns which string,   *)
(* one tuple per file, and the order of the results.                       *)
(***************************************************************************)
EXTENDS MergeSort, MemPoolLemmas

Merging == pc \in {"reopen", "merge", "fold"}
Files == 0 .. output_files - 1

\* The files that FileMerger::Open has gone through.
Opened == IF pc = "reopen" THEN 0 .. idx - 1 ELSE Files

(***************************************************************************)
(* Where tuples are: of each file opened one in the heap, unless it is     *)
(* drained, and nothing in the results before the merge is over.           *)
(***************************************************************************)
Places ==
  /\ Merging =>
       /\ Files \subseteq DOMAIN disk
       /\ \A t \in merge_heap : t.file_index \in DOMAIN cursor
       /\ \A s, t \in merge_heap : s.file_index = t.file_index => s = t
       /\ \A f \in Opened : f \in drained \/ \E t \in merge_heap : t.file_index = f
  /\ pc = "reopen" =>
       idx <= output_files /\ topN = {} /\ \A t \in merge_heap : t.file_index < idx
  /\ pc = "fold" => next_tuple \in Tuples
  /\ pc \in {"close", "drain", "print"} => merge_heap = {}
  /\ pc \notin {"drain", "print"} => results = <<>>

\* topN_tuples is no larger than asked for.
TopNBounded == IsFiniteSet(topN) /\ Cardinality(topN) <= num_results

\* The tuples of S refer to live blocks, each to its own.
OwnBlocks(S) == \A s, t \in S : s.ptr \in pool.live /\ (s.ptr = t.ptr => s = t)

\* Tuple s refers to a live block that no tuple of S refers to.
OwnsApart(s, S) == s.ptr \in pool.live /\ \A t \in S : s.ptr # t.ptr

\* Each place owns its strings, and no two places the same.
Owned ==
  LET held == merge_heap \cup topN IN
  pc # "segv" =>
    /\ OwnBlocks(held) /\ OwnBlocks(Range(results))
    /\ merge_heap \cap topN = {}
    /\ \A s \in topN, t \in Range(results) : s.ptr # t.ptr
    /\ pc = "fold" => OwnsApart(next_tuple, held)
    /\ pc \in {"merge", "fold"} /\ ~IsEmpty(curr) => OwnsApart(curr, held)
    /\ pc = "fold" /\ ~IsEmpty(curr) => curr.ptr # next_tuple.ptr

\* The URL of a tuple.
UrlOf(t) == mem[t.ptr]

(***************************************************************************)
(* URLs come in ascending order: those in topN_tuples, then curr_tuple,    *)
(* then next_tuple, then the heap, then the rows not read of each file.    *)
(***************************************************************************)
Ascending ==
  /\ \A f \in Files \cap DOMAIN disk : SortedFile(disk[f])
  /\ Merging =>
       \A t \in merge_heap : \A k \in DOMAIN disk[t.file_index] :
         k > cursor[t.file_index] => UrlOf(t) < disk[t.file_index][k].url
  /\ pc \in {"merge", "fold"} =>
       /\ \A t \in topN, h \in merge_heap : UrlOf(t) < UrlOf(h)
       /\ ~IsEmpty(curr) => /\ \A t \in topN : UrlOf(t) < UrlOf(curr)
                            /\ \A h \in merge_heap : UrlOf(curr) <= UrlOf(h)
  /\ pc = "fold" =>
       /\ \A t \in topN : UrlOf(t) < UrlOf(next_tuple)
       /\ \A h \in merge_heap : UrlOf(next_tuple) <= UrlOf(h)
       /\ ~IsEmpty(curr) => UrlOf(curr) <= UrlOf(next_tuple)
  /\ pc # "segv" => \A s, t \in topN : UrlOf(s) = UrlOf(t) => s = t

MergeInv ==
  /\ MergeTypeOK
  /\ PoolOK(pool)
  /\ Places
  /\ TopNBounded
  /\ Owned
  /\ Ascending
  /\ ResultsBestFirst

-----------------------------------------------------------------------------

\* The URL of a tuple is one, hence a number.
LEMMA UrlIsNat ==
  ASSUME mem \in [Addr -> Url], NEW t \in Tuples
  PROVE  UrlOf(t) \in Url /\ UrlOf(t) \in Nat
BY ProcessAssumption DEF Tuples, UrlOf

(***************************************************************************)
(* What a step with ReadTuple for file i does to the heap: no block for    *)
(* the string; no tuple, since the file is at its end or fails; or a tuple *)
(* of file i with a new block and the URL of the next row of the file,     *)
(* which comes before those after it.                                      *)
(***************************************************************************)
RowsRead(i) == IF i \in DOMAIN cursor THEN cursor[i] ELSE 0
OutOfMemory(heap) ==
  /\ pc' = "segv" /\ merge_heap' = heap /\ drained' = drained
  /\ "malloc" \in faulted'
FileDrained(i, heap, then) ==
  /\ pc' = then /\ merge_heap' = heap /\ drained' = drained \cup {i}
  /\ UNCHANGED <<pool, mem, cursor>>
  /\ "reread" \notin faulted' => RowsRead(i) = Len(disk[i])
TupleRead(i, heap, then, t) ==
  /\ pc' = then /\ merge_heap' = heap \cup {t} /\ drained' = drained
  /\ t \in Tuples /\ t.file_index = i
  /\ t.ptr \notin pool.live /\ pool'.live = pool.live \cup {t.ptr}
  /\ \A a \in Addr : a # t.ptr => mem'[a] = mem[a]
  /\ DOMAIN cursor' = DOMAIN cursor \cup {i}
  /\ RowsRead(i) + 1 \in DOMAIN disk[i]
  /\ mem'[t.ptr] = disk[i][RowsRead(i) + 1].url
  /\ \A k \in DOMAIN disk[i] : k > cursor'[i] => mem'[t.ptr] < disk[i][k].url
  /\ "recount" \notin faulted' =>
       t.cnt = disk[i][RowsRead(i) + 1].cnt /\ cursor'[i] = RowsRead(i) + 1

LEMMA ReadTupleOK ==
  ASSUME MergeTypeOK, PoolOK(pool), NEW i \in Files, i \in DOMAIN disk, SortedFile(disk[i]),
         NEW heap, NEW then, ReadTuple(i, heap, then)
  PROVE  /\ PoolOK(pool')
         /\ mem' \in [Addr -> Url]
         /\ faulted' \subseteq Faults /\ faulted \subseteq faulted'
         /\ DOMAIN cursor' \subseteq Files /\ DOMAIN cursor \subseteq DOMAIN cursor'
         /\ \A f \in DOMAIN cursor' : f \in DOMAIN disk => cursor'[f] \in 0 .. Len(disk[f])
         /\ \A f \in DOMAIN cursor : f # i => cursor'[f] = cursor[f]
         /\ \/ OutOfMemory(heap)
            \/ FileDrained(i, heap, then)
            \/ \E t \in Tuples : TupleRead(i, heap, then, t)
<1> DEFINE at == RowsRead(i)
           row == disk[i][at + 1]
           AtEnd == at = Len(disk[i])
<1>1. /\ disk[i] \in Seq(Row) /\ Len(disk[i]) \in Nat /\ at \in 0 .. Len(disk[i])
      /\ output_files \in Nat
  BY DEF MergeTypeOK, RowsRead
<1>2. mem \in [Addr -> Url] /\ faulted \subseteq Faults /\ DOMAIN cursor \subseteq Files
  BY DEF MergeTypeOK, Files
<1>3. CASE /\ (AtEnd /\ Faulty({})) \/ (~AtEnd /\ Faulty({"reread"}))
           /\ drained' = drained \cup {i} /\ pc' = then /\ merge_heap' = heap
           /\ UNCHANGED <<pool, mem, cursor>>
  <2>1. faulted' \subseteq Faults /\ faulted \subseteq faulted'
    BY <1>2, <1>3 DEF Faulty
  <2>2. FileDrained(i, heap, then)
    <3>1. "reread" \notin faulted' => AtEnd
      BY <1>3 DEF Faulty
    <3> QED BY <1>3, <3>1 DEF FileDrained
  <2> QED BY <1>2, <1>3, <2>1, <2>2 DEF MergeTypeOK
<1>4. ASSUME ~AtEnd, NEW a \in Malloc(pool), NEW cut \in {{}, {"recount"}},
             Faulty(Signs(a) \cup cut),
             cursor' = Put(cursor, i, IF cut = {} THEN at + 1 ELSE Len(disk[i])),
             pool' = Allocate(pool, a, UrlLen[row.url]),
             mem' = [x \in Addr |-> IF x = a THEN row.url ELSE mem[x]],
             IF a = NULL THEN pc' = "segv" /\ merge_heap' = heap
             ELSE /\ pc' = then
                  /\ \E cnt \in IF cut = {} THEN {row.cnt} ELSE Uninitialised :
                       merge_heap' = heap \cup {Tuple(a, [row EXCEPT !.cnt = cnt], i)},
             drained' = drained
      PROVE  /\ PoolOK(pool')
             /\ mem' \in [Addr -> Url]
             /\ faulted' \subseteq Faults /\ faulted \subseteq faulted'
             /\ DOMAIN cursor' \subseteq Files /\ DOMAIN cursor \subseteq DOMAIN cursor'
             /\ \A f \in DOMAIN cursor' :
                  f \in DOMAIN disk => cursor'[f] \in 0 .. Len(disk[f])
             /\ \A f \in DOMAIN cursor : f # i => cursor'[f] = cursor[f]
             /\ OutOfMemory(heap) \/ \E t \in Tuples : TupleRead(i, heap, then, t)
  <2>1. at + 1 \in DOMAIN disk[i] /\ row \in Row
    BY <1>1, <1>4
  <2>2. row.url \in Url /\ row.cnt \in Int /\ UrlLen[row.url] \in Nat
        /\ row = [url |-> row.url, cnt |-> row.cnt]
    <3> HIDE DEF row
    <3> QED BY <2>1, ProcessAssumption DEF Row
  <2>3. mem' \in [Addr -> Url]
    BY <1>2, <1>4, <2>2
  <2>4. /\ PoolOK(pool') /\ pool'.live = pool.live \cup ({a} \ {NULL})
    BY <1>4, <2>2, AllocateOK
  <2>5. a \in Addr \cup {NULL} /\ a \notin pool.live
    <3>1. pool.live \subseteq Addr
      BY PoolFields
    <3> QED BY <3>1, NullAssumption DEF Malloc
  <2>6. /\ DOMAIN cursor' = DOMAIN cursor \cup {i}
        /\ \A f \in DOMAIN cursor : f # i => cursor'[f] = cursor[f]
        /\ cursor'[i] = IF cut = {} THEN at + 1 ELSE Len(disk[i])
    BY <1>4 DEF Put
  <2>7. \A f \in DOMAIN cursor' : f \in DOMAIN disk => cursor'[f] \in 0 .. Len(disk[f])
    <3>1. cursor'[i] \in 0 .. Len(disk[i])
      BY <1>1, <2>1, <2>6
    <3>2. \A f \in DOMAIN cursor : f \in DOMAIN disk => cursor[f] \in 0 .. Len(disk[f])
      BY DEF MergeTypeOK
    <3> QED BY <2>6, <3>1, <3>2
  <2>8. /\ faulted' \subseteq Faults /\ Signs(a) \cup cut \subseteq faulted'
        /\ faulted \subseteq faulted'
    BY <1>2, <1>4 DEF Faulty
  <2>9. a = NULL => OutOfMemory(heap)
    BY <1>4, <2>8 DEF OutOfMemory, Signs
  <2>10. CASE a # NULL
    <3>1. PICK cnt \in IF cut = {} THEN {row.cnt} ELSE Uninitialised :
            merge_heap' = heap \cup {Tuple(a, [row EXCEPT !.cnt = cnt], i)}
      BY <1>4, <2>10
    <3> DEFINE t == [ptr |-> a, cnt |-> cnt, file_index |-> i]
    <3>2. cnt \in Int
      BY <2>2, ProcessAssumption DEF Uninitialised
    <3>3. Tuple(a, [row EXCEPT !.cnt = cnt], i) = t
      <4>1. [row EXCEPT !.cnt = cnt].cnt = cnt
        <5> HIDE DEF row
        <5> QED BY <2>1 DEF Row
      <4> QED BY <4>1 DEF Tuple
    <3>4. t \in Tuples
      BY <1>1, <2>5, <2>10, <3>2 DEF Tuples, Files
    <3>5. pool'.live = pool.live \cup {t.ptr} /\ t.ptr \notin pool.live
      BY <2>4, <2>5, <2>10
    <3>6. mem'[t.ptr] = row.url /\ \A x \in Addr : x # t.ptr => mem'[x] = mem[x]
      BY <1>4, <2>5, <2>10
    <3>7. \A k \in DOMAIN disk[i] : k > cursor'[i] => row.url < disk[i][k].url
      <4> SUFFICES ASSUME NEW k \in DOMAIN disk[i], k > cursor'[i]
                   PROVE  row.url < disk[i][k].url
        OBVIOUS
      <4>1. k > at + 1
        BY <1>1, <2>1, <2>6
      <4> QED BY <2>1, <4>1 DEF SortedFile
    <3>8. pc' = then /\ merge_heap' = heap \cup {t} /\ drained' = drained
      BY <1>4, <2>10, <3>1, <3>3
    <3>9. DOMAIN cursor' = DOMAIN cursor \cup {i} /\ t.file_index = i
      BY <2>6
    <3>10. "recount" \notin faulted' => t.cnt = row.cnt /\ cursor'[i] = at + 1
      <4> SUFFICES ASSUME "recount" \notin faulted'
                   PROVE  t.cnt = row.cnt /\ cursor'[i] = at + 1
        OBVIOUS
      <4>1. cut = {}
        BY <2>8
      <4> QED BY <2>6, <3>1, <4>1
    <3> HIDE DEF t
    <3>11. TupleRead(i, heap, then, t)
      BY <2>1, <3>4, <3>5, <3>6, <3>7, <3>8, <3>9, <3>10 DEF TupleRead
    <3> QED BY <2>3, <2>4, <2>6, <2>7, <2>8, <1>2, <3>4, <3>11
  <2> QED BY <1>2, <2>3, <2>4, <2>6, <2>7, <2>8, <2>9, <2>10
<1> HIDE DEF at, row, AtEnd
<1>5. \/ /\ ~AtEnd
         /\ \E a \in Malloc(pool), cut \in {{}, {"recount"}} :
              /\ Faulty(Signs(a) \cup cut)
              /\ cursor' = Put(cursor, i, IF cut = {} THEN at + 1 ELSE Len(disk[i]))
              /\ pool' = Allocate(pool, a, UrlLen[row.url])
              /\ mem' = [x \in Addr |-> IF x = a THEN row.url ELSE mem[x]]
              /\ IF a = NULL THEN pc' = "segv" /\ merge_heap' = heap
                 ELSE /\ pc' = then
                      /\ \E cnt \in IF cut = {} THEN {row.cnt} ELSE Uninitialised :
                           merge_heap' = heap \cup {Tuple(a, [row EXCEPT !.cnt = cnt], i)}
         /\ UNCHANGED drained
      \/ /\ (AtEnd /\ Faulty({})) \/ (~AtEnd /\ Faulty({"reread"}))
         /\ drained' = drained \cup {i}
         /\ pc' = then /\ merge_heap' = heap
         /\ UNCHANGED <<pool, mem, cursor>>
  BY DEF ReadTuple, RowsRead, at, row, AtEnd
<1> QED
  BY <1>3, <1>4, <1>5

\* The types after such a step.
LEMMA ReadTupleTypes ==
  ASSUME MergeTypeOK, PoolOK(pool), NEW i \in Files, i \in DOMAIN disk, SortedFile(disk[i]),
         NEW heap, heap \subseteq merge_heap, NEW then \in {"reopen", "fold"},
         ReadTuple(i, heap, then),
         UNCHANGED <<disk, output_files, num_results, topN, results, curr>>,
         idx' \in Nat, next_tuple' = Empty \/ next_tuple' \in Tuples,
         then = "fold" => IsEmpty(curr) \/ curr \in Tuples
  PROVE  MergeTypeOK'
<1>1. /\ PoolOK(pool') /\ mem' \in [Addr -> Url] /\ faulted' \subseteq Faults
      /\ DOMAIN cursor' \subseteq Files
      /\ \A f \in DOMAIN cursor' : f \in DOMAIN disk => cursor'[f] \in 0 .. Len(disk[f])
      /\ \/ OutOfMemory(heap)
         \/ FileDrained(i, heap, then)
         \/ \E t \in Tuples : TupleRead(i, heap, then, t)
  BY ReadTupleOK
<1>2. /\ pc' \in {then, "segv"} /\ drained' \subseteq Files
      /\ merge_heap' \subseteq Tuples /\ \A t \in merge_heap' : t.file_index \in Files
  <2>1. /\ drained \subseteq Files /\ merge_heap \subseteq Tuples
        /\ \A t \in merge_heap : t.file_index \in Files
    BY DEF MergeTypeOK, Files
  <2> QED BY <1>1, <2>1 DEF OutOfMemory, FileDrained, TupleRead
<1>3. /\ DOMAIN pool'.chunk_sizes \subseteq Addr \cup {NULL} /\ pool'.live \subseteq Addr
  BY <1>1, PoolTypes
<1> QED
  BY <1>1, <1>2, <1>3 DEF MergeTypeOK, Files, IsEmpty

-----------------------------------------------------------------------------

\* A pool without blocks is in order.
LEMMA NoBlocksOK ==
  ASSUME NEW p \in NoBlocks, Held(p.chunk_sizes) <= p.current_size
  PROVE  PoolOK(p) /\ p.live = {}
<1> DEFINE c == p.chunk_sizes
<1>1. p.max_size \in Nat /\ p.current_size \in Int /\ p.live = {}
  <2>1. p.max_size \in Limits /\ p.current_size \in Nat
    BY DEF NoBlocks
  <2>2. p.live \in {{}}
    BY DEF NoBlocks
  <2>3. p.live = {}
    BY Zenon, <2>2
  <2>4. Limits \subseteq Nat
    BY ProcessAssumption
  <2>5. p.max_size \in Nat
    BY <2>1, <2>4
  <2>6. p.current_size \in Int
    BY <2>1
  <2> QED BY <2>3, <2>5, <2>6
<1>2. DOMAIN c \subseteq {NULL} /\ c \in [DOMAIN c -> Nat]
  <2> DEFINE maps == {EmptyMap} \cup [{NULL} -> Nat]
  <2>1. NoBlocks = [max_size : Limits, current_size : Nat, live : {{}}, chunk_sizes : maps]
    BY Zenon DEF NoBlocks
  <2> HIDE DEF maps
  <2>2. c \in maps
    BY <2>1
  <2>3. CASE c = EmptyMap
    BY <2>3 DEF EmptyMap
  <2>4. CASE c \in [{NULL} -> Nat]
    BY <2>4
  <2>5. c = EmptyMap \/ c \in [{NULL} -> Nat]
    BY Zenon, <2>2 DEF maps
  <2> QED BY <2>3, <2>4, <2>5
<1>3. c \in ChunkMaps
  BY <1>2 DEF ChunkMaps
<1>4. IsFiniteSet(Bytes(c))
  <2>1. CASE DOMAIN c = {}
    BY <2>1, FS_EmptySet DEF Bytes
  <2>2. CASE DOMAIN c = {NULL}
    <3>1. Bytes(c) = {NULL} \X (1 .. c[NULL])
      BY <2>2 DEF Bytes
    <3>2. c[NULL] \in Nat
      BY <1>2, <2>2
    <3>3. IsFiniteSet({NULL} \X (1 .. c[NULL]))
      BY <3>2, Block
    <3> QED BY <3>1, <3>3
  <2> QED BY <1>2, <2>1, <2>2
<1>5. p \in Pools
  BY <1>1, <1>3 DEF NoBlocks, Pools
<1> QED
  BY <1>1, <1>2, <1>4, <1>5 DEF PoolOK

LEMMA InitMergeInv == MergeInit => MergeInv
<1> SUFFICES ASSUME MergeInit PROVE MergeInv
  OBVIOUS
<1>2. PoolOK(pool) /\ pool.live = {}
  BY NoBlocksOK DEF MergeInit
<1>3. IsFiniteSet(topN) /\ Cardinality(topN) = 0
  BY FS_EmptySet DEF MergeInit, StartMerger
<1>4. MergeTypeOK
  <2>1. DOMAIN EmptyMap = {}
    BY DEF EmptyMap
  <2> QED BY <1>2, <2>1, PoolTypes
          DEF MergeInit, StartMerger, MergeTypeOK, Empty
<1>5. Places /\ TopNBounded
  BY <1>3 DEF MergeInit, StartMerger, Places, Merging, Files, Opened, TopNBounded
<1>6. Owned
  BY DEF MergeInit, StartMerger, Owned, OwnBlocks, Range
<1>7. Ascending /\ ResultsBestFirst
  BY DEF MergeInit, StartMerger, Ascending, Merging, Files, ResultsBestFirst
<1> QED
  BY <1>2, <1>4, <1>5, <1>6, <1>7 DEF MergeInv

LEMMA OpenSpillInv == MergeInv /\ OpenSpill => MergeInv'
<1> SUFFICES ASSUME MergeInv, OpenSpill PROVE MergeInv'
  OBVIOUS
<1>1. /\ pc = "reopen" /\ idx < output_files /\ idx' = idx + 1
      /\ ReadTuple(idx, merge_heap, "reopen")
      /\ UNCHANGED <<disk, output_files, curr, num_results, next_tuple, topN, results>>
  BY DEF OpenSpill
<1>2. /\ MergeTypeOK /\ PoolOK(pool) /\ idx \in Nat /\ output_files \in Nat
      /\ topN = {} /\ results = <<>> /\ merge_heap \subseteq Tuples
  BY <1>1 DEF MergeInv, MergeTypeOK, Places
<1>3. idx \in Files /\ idx \in DOMAIN disk /\ SortedFile(disk[idx])
  BY <1>1, <1>2 DEF MergeInv, Places, Merging, Files, Ascending
<1>4. /\ PoolOK(pool')
      /\ DOMAIN cursor \subseteq DOMAIN cursor'
      /\ \A f \in DOMAIN cursor : f # idx => cursor'[f] = cursor[f]
      /\ \/ OutOfMemory(merge_heap)
         \/ FileDrained(idx, merge_heap, "reopen")
         \/ \E t \in Tuples : TupleRead(idx, merge_heap, "reopen", t)
  BY <1>1, <1>2, <1>3, ReadTupleOK
<1>5. MergeTypeOK'
  <2>1. idx' \in Nat /\ (next_tuple' = Empty \/ next_tuple' \in Tuples)
    BY <1>1, <1>2 DEF MergeTypeOK
  <2> QED BY <1>1, <1>2, <1>3, <2>1, ReadTupleTypes
<1>6. TopNBounded'
  BY <1>1 DEF MergeInv, TopNBounded
<1>7. ResultsBestFirst'
  BY <1>1, <1>2 DEF ResultsBestFirst
<1>8. /\ \A t \in merge_heap : /\ t.file_index \in DOMAIN cursor /\ t.file_index < idx
                              /\ t.file_index \in Files
      /\ \A s, t \in merge_heap : s.file_index = t.file_index => s = t
      /\ \A f \in 0 .. idx - 1 : f \in drained \/ \E t \in merge_heap : t.file_index = f
      /\ Files \subseteq DOMAIN disk
  BY <1>1 DEF MergeInv, MergeTypeOK, Places, Merging, Opened, Files
<1>9. /\ OwnBlocks(merge_heap)
      /\ \A t \in merge_heap : t.ptr \in Addr
  BY <1>1, <1>2 DEF MergeInv, Owned, OwnBlocks, Tuples
<1>10. \A t \in merge_heap : \A k \in DOMAIN disk[t.file_index] :
         k > cursor[t.file_index] => UrlOf(t) < disk[t.file_index][k].url
  BY <1>1 DEF MergeInv, Ascending, Merging, Files
<1>11. \A f \in Files' \cap DOMAIN disk' : SortedFile(disk'[f])
  BY <1>1 DEF MergeInv, Ascending, Files
<1>12. CASE OutOfMemory(merge_heap)
  <2>1. pc' = "segv"
    BY <1>12 DEF OutOfMemory
  <2>2. Places'
    BY <1>1, <1>2, <2>1 DEF Places, Merging
  <2>3. Owned' /\ Ascending'
    BY <1>11, <2>1 DEF Owned, Ascending, Merging, Files
  <2> QED BY <1>4, <1>5, <1>6, <1>7, <2>2, <2>3 DEF MergeInv
<1>13. CASE FileDrained(idx, merge_heap, "reopen")
  <2>1. /\ pc' = "reopen" /\ drained' = drained \cup {idx}
        /\ UNCHANGED <<merge_heap, pool, mem, cursor>>
    BY <1>13 DEF FileDrained
  <2>2. Places'
    <3>1. \A t \in merge_heap : t.file_index < idx'
      BY <1>1, <1>2, <1>8, <2>1 DEF Files
    <3> QED BY <1>1, <1>2, <1>8, <2>1, <3>1 DEF Places, Merging, Opened, Files
  <2>3. Owned'
    BY <1>1, <1>2, <1>9, <2>1 DEF Owned, OwnBlocks, Range
  <2>4. Ascending'
    BY <1>1, <1>2, <1>10, <1>11, <2>1 DEF Ascending, Merging, Files, UrlOf
  <2> QED BY <1>4, <1>5, <1>6, <1>7, <2>2, <2>3, <2>4 DEF MergeInv
<1>14. ASSUME NEW n \in Tuples, TupleRead(idx, merge_heap, "reopen", n)
       PROVE  MergeInv'
  <2>1. /\ pc' = "reopen" /\ merge_heap' = merge_heap \cup {n} /\ drained' = drained
        /\ n.file_index = idx /\ idx \in DOMAIN cursor'
        /\ n.ptr \notin pool.live /\ pool'.live = pool.live \cup {n.ptr}
        /\ \A a \in Addr : a # n.ptr => mem'[a] = mem[a]
        /\ \A k \in DOMAIN disk[idx] : k > cursor'[idx] => mem'[n.ptr] < disk[idx][k].url
    BY <1>14 DEF TupleRead
  <2>2. Places'
    <3>1. \A t \in merge_heap' : t.file_index < idx' /\ t.file_index \in DOMAIN cursor'
      BY <1>1, <1>2, <1>4, <1>8, <2>1 DEF Files
    <3>2. \A s, t \in merge_heap' : s.file_index = t.file_index => s = t
      <4>1. \A t \in merge_heap : t.file_index # idx
        BY <1>2, <1>8 DEF Files
      <4> QED BY <1>8, <2>1, <4>1
    <3>3. \A f \in Opened' : f \in drained' \/ \E t \in merge_heap' : t.file_index = f
      <4>1. Opened' = 0 .. idx
        BY <1>1, <1>2, <2>1 DEF Opened
      <4> QED BY <1>2, <1>8, <2>1, <4>1
    <3> QED BY <1>1, <1>2, <1>8, <2>1, <3>1, <3>2, <3>3 DEF Places, Merging, Files
  <2>3. Owned'
    <3>1. OwnBlocks(merge_heap)'
      BY <1>9, <2>1 DEF OwnBlocks
    <3> QED BY <1>1, <1>2, <2>1, <3>1 DEF Owned, OwnBlocks, Range
  <2>4. Ascending'
    <3>1. ASSUME NEW t \in merge_heap', NEW k \in DOMAIN disk[t.file_index],
                 k > cursor'[t.file_index]
          PROVE  mem'[t.ptr] < disk[t.file_index][k].url
      <4>1. CASE t = n
        BY <2>1, <3>1, <4>1
      <4>2. CASE t # n
        <5>1. t \in merge_heap /\ t.file_index # idx
          BY <1>2, <1>8, <2>1, <4>2 DEF Files
        <5>2. mem'[t.ptr] = mem[t.ptr]
          BY <1>9, <2>1, <5>1 DEF OwnBlocks
        <5> QED BY <1>4, <1>8, <1>10, <3>1, <5>1, <5>2 DEF UrlOf
      <4> QED BY <4>1, <4>2
    <3> QED BY <1>1, <1>2, <1>11, <2>1, <3>1 DEF Ascending, Merging, Files, UrlOf
  <2> QED BY <1>4, <1>5, <1>6, <1>7, <2>2, <2>3, <2>4 DEF MergeInv
<1> QED
  BY <1>4, <1>12, <1>13, <1>14

(***************************************************************************)
(* NextResultTuple: t leaves the heap for next_tuple, and the next row of  *)
(* its file comes in.                                                      *)
(***************************************************************************)
LEMMA NextResultTupleInv == MergeInv /\ NextResultTuple => MergeInv'
<1> SUFFICES ASSUME MergeInv, NextResultTuple PROVE MergeInv'
  OBVIOUS
<1>1. PICK t \in merge_heap :
        /\ \A o \in merge_heap : ~StringLess(t, o)
        /\ next_tuple' = t
        /\ IF t.file_index \notin drained THEN ReadTuple(t.file_index, Pop(t), "fold")
           ELSE /\ merge_heap' = Pop(t) /\ pc' = "fold"
                /\ UNCHANGED <<pool, mem, cursor, drained, faulted>>
  BY DEF NextResultTuple
<1> DEFINE i == t.file_index
           heap == merge_heap \ {t}
<1>2. /\ pc = "merge" /\ Pop(t) = heap
      /\ UNCHANGED <<disk, output_files, curr, idx, num_results, topN, results>>
  BY DEF NextResultTuple, Pop
<1>3. /\ MergeTypeOK /\ PoolOK(pool) /\ t \in Tuples /\ merge_heap \subseteq Tuples
      /\ topN \subseteq Tuples /\ i \in Files /\ idx \in Nat
      /\ results = <<>> /\ (IsEmpty(curr) \/ curr \in Tuples)
  BY <1>2 DEF MergeInv, MergeTypeOK, Places, Files
<1>4. /\ i \in DOMAIN disk /\ SortedFile(disk[i]) /\ i \in DOMAIN cursor
      /\ Files \subseteq DOMAIN disk
      /\ \A s \in merge_heap : s.file_index \in DOMAIN cursor
      /\ \A r, s \in merge_heap : r.file_index = s.file_index => r = s
      /\ \A f \in Files : f \in drained \/ \E s \in merge_heap : s.file_index = f
  BY <1>2, <1>3 DEF MergeInv, Places, Merging, Opened, Ascending
<1>5. \A s \in merge_heap : UrlOf(t) <= UrlOf(s)
  <2> SUFFICES ASSUME NEW s \in merge_heap PROVE UrlOf(t) <= UrlOf(s)
    OBVIOUS
  <2>1. UrlOf(s) \in Nat /\ UrlOf(t) \in Nat
    BY <1>3, UrlIsNat DEF MergeTypeOK
  <2> QED BY <1>1, <2>1 DEF StringLess, UrlOf
<1>6. /\ OwnBlocks(merge_heap \cup topN) /\ merge_heap \cap topN = {}
      /\ ~IsEmpty(curr) => OwnsApart(curr, merge_heap \cup topN)
  BY <1>2 DEF MergeInv, Owned
<1>7. /\ \A s \in merge_heap : \A k \in DOMAIN disk[s.file_index] :
           k > cursor[s.file_index] => UrlOf(s) < disk[s.file_index][k].url
      /\ \A s \in topN, h \in merge_heap : UrlOf(s) < UrlOf(h)
      /\ ~IsEmpty(curr) => /\ \A s \in topN : UrlOf(s) < UrlOf(curr)
                           /\ \A h \in merge_heap : UrlOf(curr) <= UrlOf(h)
      /\ \A r, s \in topN : UrlOf(r) = UrlOf(s) => r = s
      /\ \A f \in Files' \cap DOMAIN disk' : SortedFile(disk'[f])
  BY <1>2 DEF MergeInv, Ascending, Merging, Files
<1>8. TopNBounded' /\ ResultsBestFirst'
  BY <1>2, <1>3 DEF MergeInv, TopNBounded, ResultsBestFirst
<1> DEFINE Kept == pc' = "fold" /\ merge_heap' = heap /\ UNCHANGED <<pool, mem, cursor>>
(* The file was drained, or is now. *)
<1>9. ASSUME Kept, drained' \in {drained, drained \cup {i}}, i \in drained', MergeTypeOK'
      PROVE  MergeInv'
  <2>1. PoolOK(pool')
    BY <1>3, <1>9
  <2>2. Places'
    <3>1. \A f \in Files : f \in drained' \/ \E s \in merge_heap' : s.file_index = f
      BY <1>4, <1>9
    <3> QED BY <1>1, <1>2, <1>3, <1>4, <1>9, <3>1 DEF Places, Merging, Opened, Files
  <2>3. Owned'
    BY <1>1, <1>2, <1>3, <1>6, <1>9 DEF Owned, OwnBlocks, OwnsApart, Range, IsEmpty
  <2>4. Ascending'
    BY <1>1, <1>2, <1>5, <1>7, <1>9 DEF Ascending, Merging, Files, UrlOf, IsEmpty
  <2> QED BY <1>8, <1>9, <2>1, <2>2, <2>3, <2>4 DEF MergeInv
<1>10. CASE i \in drained
  <2>1. Kept /\ drained' = drained /\ faulted' = faulted
    BY <1>1, <1>2, <1>10
  <2>2. MergeTypeOK'
    <3>1. next_tuple' \in Tuples /\ merge_heap' \subseteq merge_heap
      BY <1>1, <1>3, <2>1
    <3> QED BY <1>2, <1>3, <2>1, <3>1 DEF MergeTypeOK, IsEmpty
  <2> QED BY <1>9, <1>10, <2>1, <2>2
<1>11. CASE i \notin drained
  <2>1. ReadTuple(i, heap, "fold")
    BY <1>1, <1>2, <1>11
  <2>2. MergeTypeOK'
    <3> HIDE DEF heap, i
    <3>1. heap \subseteq merge_heap /\ idx' \in Nat /\ next_tuple' \in Tuples
      BY <1>1, <1>2, <1>3 DEF heap
    <3> QED BY <1>2, <1>3, <1>4, <2>1, <3>1, ReadTupleTypes
  <2>3. /\ PoolOK(pool')
        /\ DOMAIN cursor \subseteq DOMAIN cursor'
        /\ \A f \in DOMAIN cursor : f # i => cursor'[f] = cursor[f]
        /\ \/ OutOfMemory(heap)
           \/ FileDrained(i, heap, "fold")
           \/ \E n \in Tuples : TupleRead(i, heap, "fold", n)
    <3> HIDE DEF heap, i
    <3> QED BY <1>3, <1>4, <2>1, ReadTupleOK
  <2>4. CASE OutOfMemory(heap)
    <3>1. pc' = "segv"
      BY <2>4 DEF OutOfMemory
    <3>2. Places' /\ Owned' /\ Ascending'
      BY <1>2, <1>3, <1>7, <3>1 DEF Places, Owned, Ascending, Merging, Files
    <3> QED BY <1>8, <2>2, <2>3, <3>2 DEF MergeInv
  <2>5. CASE FileDrained(i, heap, "fold")
    BY <1>9, <2>2, <2>5 DEF FileDrained
  <2>6. ASSUME NEW n \in Tuples, TupleRead(i, heap, "fold", n)
        PROVE  MergeInv'
    <3>1. /\ pc' = "fold" /\ merge_heap' = heap \cup {n} /\ drained' = drained
          /\ n.file_index = i /\ i \in DOMAIN cursor'
          /\ n.ptr \notin pool.live /\ pool'.live = pool.live \cup {n.ptr}
          /\ \A a \in Addr : a # n.ptr => mem'[a] = mem[a]
          /\ cursor[i] + 1 \in DOMAIN disk[i]
          /\ mem'[n.ptr] = disk[i][cursor[i] + 1].url
          /\ \A k \in DOMAIN disk[i] : k > cursor'[i] => mem'[n.ptr] < disk[i][k].url
      BY <1>4, <2>6 DEF TupleRead, RowsRead
    <3>2. /\ \A s \in merge_heap \cup topN : mem'[s.ptr] = mem[s.ptr] /\ s.ptr # n.ptr
          /\ ~IsEmpty(curr) => mem'[curr.ptr] = mem[curr.ptr] /\ curr.ptr # n.ptr
      BY <1>3, <1>6, <3>1 DEF OwnBlocks, OwnsApart, Tuples
    <3>3. Places'
      <4>1. \A s \in merge_heap' : s.file_index \in DOMAIN cursor'
        BY <1>4, <2>3, <3>1
      <4>2. \A r, s \in merge_heap' : r.file_index = s.file_index => r = s
        BY <1>4, <3>1
      <4>3. \A f \in Files : f \in drained' \/ \E s \in merge_heap' : s.file_index = f
        BY <1>4, <3>1
      <4> QED BY <1>1, <1>2, <1>3, <1>4, <3>1, <4>1, <4>2, <4>3
              DEF Places, Merging, Opened, Files
    <3>4. Owned'
      <4>1. OwnBlocks(merge_heap \cup topN)' /\ (merge_heap \cap topN)' = {}
        BY <1>2, <1>6, <3>1, <3>2 DEF OwnBlocks
      <4>2. OwnsApart(next_tuple, merge_heap \cup topN)'
        BY <1>1, <1>2, <1>6, <3>1, <3>2 DEF OwnBlocks, OwnsApart
      <4>3. ~IsEmpty(curr) => /\ OwnsApart(curr, merge_heap \cup topN)'
                              /\ curr.ptr # next_tuple'.ptr
        BY <1>1, <1>2, <1>6, <3>1, <3>2 DEF OwnsApart
      <4> QED BY <1>2, <1>3, <3>1, <4>1, <4>2, <4>3 DEF Owned, OwnBlocks, Range, IsEmpty
    <3>5. Ascending'
      <4>1. mem[t.ptr] < mem'[n.ptr] /\ mem[t.ptr] \in Nat /\ mem'[n.ptr] \in Nat
        <5>1. cursor[i] + 1 > cursor[i]
          <6>1. cursor[i] \in 0 .. Len(disk[i]) /\ disk[i] \in Seq(Row)
            BY <1>3, <1>4 DEF MergeTypeOK
          <6> QED BY <6>1
        <5>2. mem[t.ptr] < disk[i][cursor[i] + 1].url
          <6>1. \A k \in DOMAIN disk[i] : k > cursor[i] => mem[t.ptr] < disk[i][k].url
            BY <1>7 DEF UrlOf
          <6> QED BY <3>1, <5>1, <6>1
        <5>3. mem[t.ptr] \in Nat
          BY <1>3, UrlIsNat DEF UrlOf, MergeTypeOK
        <5>4. mem'[n.ptr] \in Url
          BY <2>2, <2>6 DEF MergeTypeOK, Tuples
        <5> QED BY <3>1, <5>2, <5>3, <5>4, ProcessAssumption
      <4>2. \A s \in topN : mem[s.ptr] < mem[t.ptr] /\ mem[s.ptr] \in Nat
        BY <1>3, <1>7, UrlIsNat DEF UrlOf, MergeTypeOK
      <4>3. ~IsEmpty(curr) => mem[curr.ptr] <= mem[t.ptr] /\ mem[curr.ptr] \in Nat
        BY <1>3, <1>7, UrlIsNat DEF UrlOf, MergeTypeOK
      <4>4. \A h \in merge_heap' :
              /\ \A s \in topN' : mem'[s.ptr] < mem'[h.ptr]
              /\ ~IsEmpty(curr) => mem'[curr.ptr] <= mem'[h.ptr]
              /\ mem'[t.ptr] <= mem'[h.ptr]
        <5> SUFFICES ASSUME NEW h \in merge_heap'
                     PROVE  /\ \A s \in topN' : mem'[s.ptr] < mem'[h.ptr]
                            /\ ~IsEmpty(curr) => mem'[curr.ptr] <= mem'[h.ptr]
                            /\ mem'[t.ptr] <= mem'[h.ptr]
          OBVIOUS
        <5>1. CASE h = n
          BY <1>2, <3>2, <4>1, <4>2, <4>3, <5>1
        <5>2. CASE h \in heap
          BY <1>2, <1>5, <1>7, <3>2, <5>2 DEF UrlOf
        <5> QED BY <3>1, <5>1, <5>2
      <4>5. ASSUME NEW s \in merge_heap', NEW k \in DOMAIN disk[s.file_index],
                   k > cursor'[s.file_index]
            PROVE  mem'[s.ptr] < disk[s.file_index][k].url
        <5>1. CASE s = n
          BY <3>1, <4>5, <5>1
        <5>2. CASE s \in heap
          <6>1. s.file_index # i /\ s.file_index \in DOMAIN cursor
            BY <1>4, <5>2
          <6> QED BY <1>7, <2>3, <3>2, <4>5, <5>2, <6>1 DEF UrlOf
        <5> QED BY <3>1, <5>1, <5>2
      <4>6. \A r, s \in topN' : mem'[r.ptr] = mem'[s.ptr] => r = s
        BY <1>2, <1>7, <3>2 DEF UrlOf
      <4> QED BY <1>1, <1>2, <1>7, <3>1, <3>2, <4>2, <4>3, <4>4, <4>5, <4>6
              DEF Ascending, Merging, Files, UrlOf, IsEmpty
    <3> QED BY <1>8, <2>2, <2>3, <3>3, <3>4, <3>5 DEF MergeInv
  <2> QED BY <2>3, <2>4, <2>5, <2>6
<1> QED
  BY <1>10, <1>11

\* The merge starts with no tuple in hand and nothing in topN_tuples.
LEMMA OpenDoneInv == MergeInv /\ OpenDone => MergeInv'
<1> SUFFICES ASSUME MergeInv, OpenDone PROVE MergeInv'
  OBVIOUS
<1>1. /\ pc = "reopen" /\ idx = output_files /\ pc' = "merge" /\ idx' = 0
      /\ curr' = Empty
      /\ UNCHANGED <<pool, mem, disk, output_files, faulted, num_results, cursor,
                     drained, merge_heap, next_tuple, topN, results>>
  BY DEF OpenDone, mergeLocals
<1>2. /\ topN = {} /\ results = <<>> /\ IsEmpty(curr)' /\ output_files \in Nat
  BY <1>1 DEF MergeInv, MergeTypeOK, Places, IsEmpty, Empty
<1>3. MergeTypeOK'
  BY <1>1, <1>2 DEF MergeInv, MergeTypeOK, IsEmpty
<1>4. Places'
  BY <1>1, <1>2 DEF MergeInv, Places, Merging, Opened, Files
<1>5. Owned'
  BY <1>1, <1>2 DEF MergeInv, Owned, OwnBlocks, IsEmpty
<1>6. Ascending'
  BY <1>1, <1>2 DEF MergeInv, Ascending, Merging, Files, UrlOf, IsEmpty
<1> QED
  BY <1>1, <1>3, <1>4, <1>5, <1>6
     DEF MergeInv, PoolOK, TopNBounded, ResultsBestFirst, Worse

(***************************************************************************)
(* UpdateHeap(curr_tuple), with larger URLs in the rest of the tuples ts:  *)
(* the heap keeps its bound, the tuple it loses no longer owns a block,    *)
(* and those that remain do.                                               *)
(***************************************************************************)
LEMMA UpdateHeapOK ==
  ASSUME MergeTypeOK, PoolOK(pool), TopNBounded, curr \in Tuples, UpdateHeap(curr),
         OwnBlocks(topN), OwnsApart(curr, topN), mem' = mem, num_results' = num_results,
         \A s, t \in topN : UrlOf(s) = UrlOf(t) => s = t,
         \A t \in topN : UrlOf(t) < UrlOf(curr)
  PROVE  /\ PoolOK(pool') /\ TopNBounded' /\ topN' \subseteq topN \cup {curr}
         /\ OwnBlocks(topN)'
         /\ \A a \in pool.live : a \notin {t.ptr : t \in topN \cup {curr}} => a \in pool'.live
         /\ pool'.live \subseteq pool.live
         /\ \A a \in pool'.live : a \in {t.ptr : t \in topN \cup {curr}}
                                    => a \in {t.ptr : t \in topN'}
         /\ \A s, t \in topN' : UrlOf(s)' = UrlOf(t)' => s = t
<1> DEFINE heap == topN \cup {curr}
<1>1. num_results \in Nat /\ IsFiniteSet(topN) /\ Cardinality(topN) \in Nat
      /\ Cardinality(topN) <= num_results
  BY FS_CardinalityType DEF TopNBounded, MergeTypeOK
<1>2. /\ curr \notin topN /\ \A s, t \in heap : s.ptr = t.ptr => s = t
      /\ \A t \in heap : t.ptr \in pool.live
  BY DEF OwnBlocks, OwnsApart
<1>3. IsFiniteSet(heap) /\ Cardinality(heap) = Cardinality(topN) + 1
  BY <1>1, <1>2, FS_AddElement
<1>4. \A s, t \in heap : UrlOf(s) = UrlOf(t) => s = t
  <2>1. UrlOf(curr) \in Nat /\ \A t \in topN : UrlOf(t) \in Nat
    BY UrlIsNat DEF MergeTypeOK
  <2> QED BY <2>1
<1>5. CASE topN' = heap /\ pool' = pool /\ Cardinality(heap) <= num_results
  BY <1>2, <1>3, <1>4, <1>5 DEF TopNBounded, OwnBlocks, UrlOf
<1>6. ASSUME NEW top \in heap, topN' = heap \ {top}, pool' = FreeString(top)
      PROVE  /\ PoolOK(pool') /\ TopNBounded' /\ topN' \subseteq heap
             /\ OwnBlocks(topN)'
             /\ pool'.live = pool.live \ {top.ptr}
             /\ \A s, t \in topN' : UrlOf(s)' = UrlOf(t)' => s = t
  <2>1. PoolOK(pool') /\ pool'.live = pool.live \ {top.ptr}
    BY <1>6, FreeOK DEF FreeString
  <2>2. IsFiniteSet(topN') /\ Cardinality(topN') = Cardinality(heap) - 1
    BY <1>3, <1>6, FS_RemoveElement
  <2>3. TopNBounded'
    BY <1>1, <1>3, <2>2 DEF TopNBounded
  <2>4. OwnBlocks(topN)'
    BY <1>2, <1>6, <2>1 DEF OwnBlocks
  <2> QED BY <1>4, <1>6, <2>1, <2>3, <2>4 DEF UrlOf
<1>7. \/ topN' = heap /\ pool' = pool /\ Cardinality(heap) <= num_results
      \/ \E top \in heap : topN' = heap \ {top} /\ pool' = FreeString(top)
  BY DEF UpdateHeap
<1>8. CASE \E top \in heap : topN' = heap \ {top} /\ pool' = FreeString(top)
  <2>1. PICK top \in heap : topN' = heap \ {top} /\ pool' = FreeString(top)
    BY <1>8
  <2> HIDE DEF heap
  <2>2. /\ PoolOK(pool') /\ TopNBounded' /\ topN' \subseteq heap
        /\ OwnBlocks(topN)'
        /\ pool'.live = pool.live \ {top.ptr}
        /\ \A s, t \in topN' : UrlOf(s)' = UrlOf(t)' => s = t
    BY <1>6, <2>1
  <2> QED BY <2>1, <2>2 DEF heap
<1> QED
  BY <1>5, <1>7, <1>8

\* Sums of ints are ints, whether they wrap or not.
LEMMA IntAddType ==
  ASSUME NEW x \in Int, NEW y \in Int PROVE IntAdd(x, y) \in Int
<1>1. IntMax \in Int
  BY ProcessAssumption
<1>2. x + y \in Int
  OBVIOUS
<1> QED BY <1>1, <1>2 DEF IntAdd

(***************************************************************************)
(* The body of the merge loop: next_tuple becomes curr_tuple, or joins it, *)
(* or takes its place while it goes to topN_tuples.                        *)
(***************************************************************************)
LEMMA FoldInv == MergeInv /\ Fold => MergeInv'
<1> SUFFICES ASSUME MergeInv, Fold PROVE MergeInv'
  OBVIOUS
<1>1. /\ pc = "fold" /\ pc' = "merge"
      /\ UNCHANGED <<mem, disk, output_files, idx, faulted,
                     num_results, cursor, drained, merge_heap, next_tuple, results>>
  BY DEF Fold
<1>2. /\ MergeTypeOK /\ PoolOK(pool) /\ TopNBounded /\ Places /\ results = <<>>
      /\ next_tuple \in Tuples /\ (IsEmpty(curr) \/ curr \in Tuples)
      /\ merge_heap \subseteq Tuples /\ topN \subseteq Tuples /\ mem \in [Addr -> Url]
  BY <1>1 DEF MergeInv, MergeTypeOK, Places
<1>3. /\ OwnBlocks(merge_heap \cup topN) /\ merge_heap \cap topN = {}
      /\ OwnsApart(next_tuple, merge_heap \cup topN)
      /\ ~IsEmpty(curr) => /\ OwnsApart(curr, merge_heap \cup topN)
                           /\ curr.ptr # next_tuple.ptr
  BY <1>1 DEF MergeInv, Owned
<1>4. /\ \A f \in Files \cap DOMAIN disk : SortedFile(disk[f])
      /\ \A t \in merge_heap : \A k \in DOMAIN disk[t.file_index] :
           k > cursor[t.file_index] => UrlOf(t) < disk[t.file_index][k].url
      /\ \A t \in topN, h \in merge_heap : UrlOf(t) < UrlOf(h)
      /\ \A t \in topN : UrlOf(t) < UrlOf(next_tuple)
      /\ \A h \in merge_heap : UrlOf(next_tuple) <= UrlOf(h)
      /\ ~IsEmpty(curr) => /\ \A t \in topN : UrlOf(t) < UrlOf(curr)
                           /\ \A h \in merge_heap : UrlOf(curr) <= UrlOf(h)
                           /\ UrlOf(curr) <= UrlOf(next_tuple)
      /\ \A s, t \in topN : UrlOf(s) = UrlOf(t) => s = t
  BY <1>1 DEF MergeInv, Ascending, Merging, Files
<1>5. Places'
  <2>1. CASE topN' = topN
    BY <1>1, <1>2, <2>1 DEF Places, Merging, Opened, Files
  <2>2. CASE topN' # topN
    BY <1>1, <1>2, <2>2 DEF Places, Merging, Opened, Files
  <2> QED BY <2>1, <2>2
<1>6. ResultsBestFirst'
  BY <1>1, <1>2 DEF ResultsBestFirst
(* What is left to show of each case. *)
<1>7. ASSUME PoolOK(pool'), TopNBounded', curr' \in Tuples, topN' \subseteq Tuples,
             OwnBlocks(merge_heap \cup topN)', (merge_heap \cap topN)' = {},
             OwnsApart(curr, merge_heap \cup topN)',
             \A t \in topN', h \in merge_heap : UrlOf(t) < UrlOf(h),
             \A t \in topN' : UrlOf(t) < mem[curr'.ptr],
             \A h \in merge_heap : mem[curr'.ptr] <= UrlOf(h),
             \A s, t \in topN' : UrlOf(s) = UrlOf(t) => s = t
      PROVE  MergeInv'
  <2>1. /\ DOMAIN pool'.chunk_sizes \subseteq Addr \cup {NULL} /\ pool'.live \subseteq Addr
    BY <1>7, PoolTypes
  <2>2. MergeTypeOK'
    BY <1>1, <1>2, <1>7, <2>1 DEF MergeTypeOK
  <2>3. Owned'
    BY <1>1, <1>2, <1>7 DEF Owned, OwnBlocks, Range
  <2>4. Ascending'
    BY <1>1, <1>4, <1>7 DEF Ascending, Merging, Files, UrlOf
  <2> QED BY <1>5, <1>6, <1>7, <2>2, <2>3, <2>4 DEF MergeInv
<1>8. CASE IsEmpty(curr) /\ curr' = next_tuple /\ UNCHANGED <<pool, topN>>
  <2>1. OwnBlocks(merge_heap \cup topN)' /\ OwnsApart(curr, merge_heap \cup topN)'
    BY <1>1, <1>3, <1>8 DEF OwnBlocks, OwnsApart
  <2>2. TopNBounded'
    BY <1>1, <1>2, <1>8 DEF TopNBounded
  <2>3. \A t \in topN : UrlOf(t) < mem[next_tuple.ptr]
    BY <1>4 DEF UrlOf
  <2>4. \A h \in merge_heap : mem[next_tuple.ptr] <= UrlOf(h)
    BY <1>4 DEF UrlOf
  <2> QED BY <1>1, <1>2, <1>3, <1>4, <1>7, <1>8, <2>1, <2>2, <2>3, <2>4
<1>9. CASE /\ ~IsEmpty(curr) /\ mem[curr.ptr] = mem[next_tuple.ptr]
           /\ curr' = [curr EXCEPT !.cnt = IntAdd(@, next_tuple.cnt)]
           /\ pool' = FreeString(next_tuple) /\ UNCHANGED topN
  <2>1. PoolOK(pool') /\ pool'.live = pool.live \ {next_tuple.ptr}
    BY <1>2, <1>9, FreeOK DEF FreeString
  <2>2. curr' \in Tuples /\ curr'.ptr = curr.ptr
    <3>1. IntAdd(curr.cnt, next_tuple.cnt) \in Int
      BY <1>2, <1>9, IntAddType DEF Tuples
    <3> QED BY <1>2, <1>9, <3>1 DEF Tuples
  <2>3. OwnBlocks(merge_heap \cup topN)' /\ OwnsApart(curr, merge_heap \cup topN)'
    BY <1>1, <1>3, <1>9, <2>1, <2>2 DEF OwnBlocks, OwnsApart
  <2>4. TopNBounded'
    BY <1>1, <1>2, <1>9 DEF TopNBounded
  <2>5. /\ \A t \in topN : UrlOf(t) < mem[curr'.ptr]
        /\ \A h \in merge_heap : mem[curr'.ptr] <= UrlOf(h)
    BY <1>4, <1>9, <2>2 DEF UrlOf
  <2> QED BY <1>1, <1>2, <1>3, <1>4, <1>7, <1>9, <2>1, <2>2, <2>3, <2>4, <2>5
<1>10. CASE /\ ~IsEmpty(curr) /\ mem[curr.ptr] # mem[next_tuple.ptr]
            /\ UpdateHeap(curr) /\ curr' = next_tuple
  <2>1. /\ curr \in Tuples /\ OwnBlocks(topN) /\ OwnsApart(curr, topN)
    BY <1>2, <1>3, <1>10 DEF OwnBlocks, OwnsApart
  <2>2. /\ PoolOK(pool') /\ TopNBounded' /\ topN' \subseteq topN \cup {curr}
        /\ OwnBlocks(topN)'
        /\ \A a \in pool.live : a \notin {t.ptr : t \in topN \cup {curr}} => a \in pool'.live
        /\ \A s, t \in topN' : UrlOf(s)' = UrlOf(t)' => s = t
    BY <1>1, <1>2, <1>4, <1>10, <2>1, UpdateHeapOK
  <2>3. /\ \A h \in merge_heap : \A t \in topN \cup {curr} : h.ptr # t.ptr
        /\ \A t \in topN \cup {curr} : next_tuple.ptr # t.ptr
        /\ \A h \in merge_heap : next_tuple.ptr # h.ptr
    BY <1>3, <1>10 DEF OwnBlocks, OwnsApart
  <2>4. next_tuple.ptr \in pool'.live /\ \A h \in merge_heap : h.ptr \in pool'.live
    BY <1>3, <2>2, <2>3 DEF OwnBlocks, OwnsApart
  <2>5. OwnBlocks(merge_heap \cup topN)' /\ (merge_heap \cap topN)' = {}
    BY <1>1, <1>3, <2>2, <2>3, <2>4 DEF OwnBlocks
  <2>6. OwnsApart(curr, merge_heap \cup topN)'
    BY <1>1, <1>10, <2>2, <2>3, <2>4 DEF OwnsApart
  <2>7. UrlOf(curr) < mem[next_tuple.ptr]
    <3>1. UrlOf(curr) \in Nat /\ UrlOf(next_tuple) \in Nat
      BY <1>2, <2>1, UrlIsNat
    <3> QED BY <1>4, <1>10, <3>1 DEF UrlOf
  <2>8. \A t \in topN \cup {curr} : UrlOf(t) < mem[next_tuple.ptr]
    BY <1>4, <2>7 DEF UrlOf
  <2>9. \A h \in merge_heap : UrlOf(curr) < UrlOf(h)
    <3>1. /\ UrlOf(curr) \in Nat /\ UrlOf(next_tuple) \in Nat
          /\ \A h \in merge_heap : UrlOf(h) \in Nat
      BY <1>2, <2>1, UrlIsNat
    <3> QED BY <1>4, <2>7, <3>1 DEF UrlOf
  <2>10. /\ \A t \in topN', h \in merge_heap : UrlOf(t) < UrlOf(h)
         /\ \A h \in merge_heap : mem[next_tuple.ptr] <= UrlOf(h)
         /\ \A s, t \in topN' : UrlOf(s) = UrlOf(t) => s = t
    BY <1>1, <1>4, <2>2, <2>9 DEF UrlOf
  <2> QED BY <1>1, <1>2, <1>7, <1>10, <2>1, <2>2, <2>5, <2>6, <2>8, <2>10
<1> QED
  BY <1>8, <1>9, <1>10 DEF Fold

LEMMA EndMergeInv == MergeInv /\ EndMerge => MergeInv'
<1> SUFFICES ASSUME MergeInv, EndMerge PROVE MergeInv'
  OBVIOUS
<1>1. /\ pc = "merge" /\ merge_heap = {} /\ pc' = "close" /\ idx' = 0
      /\ UNCHANGED <<mem, disk, output_files, curr, faulted,
                     num_results, cursor, drained, merge_heap, next_tuple, results>>
  BY DEF EndMerge
<1>2. /\ MergeTypeOK /\ PoolOK(pool) /\ TopNBounded /\ results = <<>>
      /\ (IsEmpty(curr) \/ curr \in Tuples) /\ topN \subseteq Tuples
      /\ OwnBlocks(topN) /\ (~IsEmpty(curr) => OwnsApart(curr, topN))
      /\ ~IsEmpty(curr) => \A t \in topN : UrlOf(t) < UrlOf(curr)
      /\ \A s, t \in topN : UrlOf(s) = UrlOf(t) => s = t
      /\ \A f \in Files' \cap DOMAIN disk' : SortedFile(disk'[f])
  BY <1>1 DEF MergeInv, MergeTypeOK, Places, Owned, OwnBlocks, OwnsApart, Ascending, Files
<1>3. /\ PoolOK(pool') /\ TopNBounded' /\ topN' \subseteq Tuples /\ OwnBlocks(topN)'
      /\ \A s, t \in topN' : UrlOf(s)' = UrlOf(t)' => s = t
  <2>1. CASE IsEmpty(curr)
    <3>1. UNCHANGED <<pool, topN>>
      BY <2>1 DEF EndMerge
    <3> QED BY <1>1, <1>2, <3>1 DEF TopNBounded, OwnBlocks, UrlOf
  <2>2. CASE ~IsEmpty(curr)
    <3>1. UpdateHeap(curr) /\ curr \in Tuples
      BY <1>2, <2>2 DEF EndMerge
    <3>2. /\ PoolOK(pool') /\ TopNBounded' /\ topN' \subseteq topN \cup {curr}
          /\ OwnBlocks(topN)'
          /\ \A s, t \in topN' : UrlOf(s)' = UrlOf(t)' => s = t
      BY <1>1, <1>2, <2>2, <3>1, UpdateHeapOK
    <3> QED BY <1>2, <3>1, <3>2
  <2> QED BY <2>1, <2>2
<1>4. MergeTypeOK'
  <2>1. /\ DOMAIN pool'.chunk_sizes \subseteq Addr \cup {NULL} /\ pool'.live \subseteq Addr
    BY <1>3, PoolTypes
  <2> QED BY <1>1, <1>2, <1>3, <2>1 DEF MergeTypeOK
<1>5. Places'
  BY <1>1, <1>2 DEF Places, Merging
<1>6. Owned'
  BY <1>1, <1>2, <1>3 DEF Owned, OwnBlocks, Range
<1>7. Ascending' /\ ResultsBestFirst'
  BY <1>1, <1>2, <1>3 DEF Ascending, Merging, Files, ResultsBestFirst, UrlOf
<1> QED
  BY <1>3, <1>4, <1>5, <1>6, <1>7 DEF MergeInv

LEMMA RemoveSpillInv == MergeInv /\ RemoveSpill => MergeInv'
<1> SUFFICES ASSUME MergeInv, RemoveSpill PROVE MergeInv'
  OBVIOUS
<1>1. /\ pc = "close" /\ idx' = idx + 1 /\ disk' \in {disk, Erase(disk, idx)}
      /\ UNCHANGED <<pc, pool, mem, output_files, curr, num_results, cursor,
                     drained, merge_heap, next_tuple, topN, results>>
  BY DEF RemoveSpill, Remove, mergeLocals
<1>0. faulted \subseteq faulted' /\ (faulted \subseteq Faults => faulted' \subseteq Faults)
  BY DEF RemoveSpill, Faulty
<1>2. DOMAIN disk' \subseteq DOMAIN disk /\ \A f \in DOMAIN disk' : disk'[f] = disk[f]
  BY <1>1 DEF Erase
<1>3. MergeTypeOK'
  BY <1>0, <1>1, <1>2 DEF MergeInv, MergeTypeOK, IsEmpty
<1>4. Places' /\ TopNBounded'
  BY <1>1 DEF MergeInv, Places, Merging, TopNBounded
<1>5. Owned' /\ Ascending' /\ ResultsBestFirst'
  BY <1>1, <1>2 DEF MergeInv, Owned, OwnBlocks, Ascending, Merging, Files, UrlOf,
                    ResultsBestFirst, Worse
<1> QED
  BY <1>1, <1>3, <1>4, <1>5 DEF MergeInv, PoolOK

LEMMA CloseDoneInv == MergeInv /\ CloseDone => MergeInv'
<1> SUFFICES ASSUME MergeInv, CloseDone PROVE MergeInv'
  OBVIOUS
<1>1. /\ pc = "close" /\ pc' \in {"print", "drain"} /\ idx' = 0
      /\ UNCHANGED <<pool, mem, disk, output_files, curr, faulted, num_results, cursor,
                     drained, merge_heap, next_tuple, topN, results>>
  BY DEF CloseDone, mergeLocals
<1>2. MergeTypeOK' /\ Places' /\ TopNBounded'
  BY <1>1 DEF MergeInv, MergeTypeOK, IsEmpty, Places, Merging, TopNBounded
<1>3. Owned' /\ Ascending' /\ ResultsBestFirst'
  BY <1>1 DEF MergeInv, Owned, OwnBlocks, Ascending, Merging, Files, UrlOf,
              ResultsBestFirst, Worse
<1> QED
  BY <1>1, <1>2, <1>3 DEF MergeInv, PoolOK

(***************************************************************************)
(* The worst tuple of the heap goes before the results: since no two have  *)
(* the same URL, all that stay in the heap are better.                     *)
(***************************************************************************)
LEMMA DrainInv == MergeInv /\ Drain => MergeInv'
<1> SUFFICES ASSUME MergeInv, Drain PROVE MergeInv'
  OBVIOUS
<1>1. PICK top \in topN :
        /\ IsTop(top, topN)
        /\ results' = <<top>> \o results
        /\ topN' = topN \ {top}
        /\ pc' \in {"print", "drain"}
  BY DEF Drain, Fill
<1>2. /\ pc = "drain"
      /\ UNCHANGED <<pool, mem, disk, output_files, curr, idx, faulted,
                     num_results, cursor, drained, merge_heap, next_tuple>>
  BY DEF Drain
<1>3. /\ MergeTypeOK /\ topN \subseteq Tuples /\ top \in Tuples /\ results \in Seq(Tuples)
      /\ merge_heap = {} /\ IsFiniteSet(topN) /\ Cardinality(topN) <= num_results
      /\ num_results \in Nat /\ mem \in [Addr -> Url]
  BY <1>2 DEF MergeInv, MergeTypeOK, Places, TopNBounded
<1>4. /\ results' \in Seq(Tuples) /\ Len(results') = Len(results) + 1
      /\ Len(results) \in Nat /\ results'[1] = top
      /\ \A k \in 2 .. Len(results') : results'[k] = results[k - 1] /\ k - 1 \in DOMAIN results
      /\ DOMAIN results' = 1 .. Len(results')
  BY <1>1, <1>3
<1>5. Range(results') = Range(results) \cup {top}
  <2>1. \A k \in DOMAIN results : k + 1 \in DOMAIN results' /\ results'[k + 1] = results[k]
    BY <1>1, <1>3
  <2>2. \A k \in DOMAIN results' : results'[k] \in Range(results) \cup {top}
    <3> SUFFICES ASSUME NEW k \in DOMAIN results'
                 PROVE  results'[k] \in Range(results) \cup {top}
      OBVIOUS
    <3>1. CASE k = 1
      BY <1>4, <3>1
    <3>2. CASE k # 1
      BY <1>4, <3>2 DEF Range
    <3> QED BY <3>1, <3>2
  <2>3. 1 \in DOMAIN results'
    BY <1>4
  <2>4. Range(results) \subseteq Range(results')
    BY <2>1 DEF Range
  <2>5. top \in Range(results')
    BY <1>4, <2>3 DEF Range
  <2>6. Range(results') \subseteq Range(results) \cup {top}
    BY <2>2 DEF Range
  <2> QED BY <2>4, <2>5, <2>6
<1>6. /\ OwnBlocks(topN) /\ OwnBlocks(Range(results))
      /\ \A s \in topN, t \in Range(results) : s.ptr # t.ptr
  BY <1>2, <1>3 DEF MergeInv, Owned, OwnBlocks
<1>7. MergeTypeOK'
  BY <1>1, <1>2, <1>3, <1>4 DEF MergeTypeOK, IsEmpty
<1>8. Places'
  BY <1>1, <1>2, <1>3 DEF Places, Merging
<1>9. TopNBounded'
  <2>1. /\ IsFiniteSet(topN') /\ Cardinality(topN') = Cardinality(topN) - 1
        /\ Cardinality(topN) \in Nat
    BY <1>1, <1>3, FS_RemoveElement, FS_CardinalityType
  <2> QED BY <1>2, <1>3, <2>1 DEF TopNBounded
<1>10. Owned'
  <2>1. OwnBlocks(topN)'
    BY <1>1, <1>2, <1>6 DEF OwnBlocks
  <2>2. OwnBlocks(Range(results))'
    BY <1>2, <1>5, <1>6 DEF OwnBlocks
  <2>3. \A s \in topN', t \in Range(results') : s.ptr # t.ptr
    BY <1>1, <1>5, <1>6 DEF OwnBlocks
  <2> QED BY <1>1, <1>2, <1>3, <2>1, <2>2, <2>3 DEF Owned, OwnBlocks
<1>11. \A s, t \in topN : UrlOf(s) = UrlOf(t) => s = t
  BY <1>2 DEF MergeInv, Ascending
<1>12. Ascending'
  BY <1>1, <1>2, <1>11 DEF MergeInv, Ascending, Merging, Files, UrlOf
<1>13. \A t \in topN' : Worse(t, top)
  <2> SUFFICES ASSUME NEW t \in topN' PROVE Worse(t, top)
    OBVIOUS
  <2>1. t \in topN /\ t # top /\ ~Worse(top, t)
    BY <1>1 DEF IsTop
  <2>2. /\ mem[t.ptr] \in Nat /\ mem[top.ptr] \in Nat /\ mem[t.ptr] # mem[top.ptr]
        /\ t.cnt \in Int /\ top.cnt \in Int
    BY <1>3, <1>11, <2>1, UrlIsNat DEF UrlOf, Tuples
  <2> QED BY <2>1, <2>2 DEF Worse
<1>14. /\ \A j, k \in DOMAIN results : j < k => Worse(results[j], results[k])
       /\ \A t \in topN, k \in DOMAIN results : Worse(t, results[k])
  BY DEF MergeInv, ResultsBestFirst
<1>15. \A s, t : Worse(s, t)' <=> Worse(s, t)
  BY <1>2 DEF Worse
<1>16. ResultsBestFirst'
  <2>1. ASSUME NEW j \in DOMAIN results', NEW k \in DOMAIN results', j < k
        PROVE  Worse(results'[j], results'[k])
    <3>1. k \in 2 .. Len(results') /\ results'[k] = results[k - 1] /\ k - 1 \in DOMAIN results
      BY <1>4, <2>1
    <3>2. CASE j = 1
      BY <1>4, <1>14, <3>1, <3>2
    <3>3. CASE j # 1
      <4>1. results'[j] = results[j - 1] /\ j - 1 \in DOMAIN results /\ j - 1 < k - 1
        BY <1>4, <2>1, <3>3
      <4> QED BY <1>14, <3>1, <4>1
    <3> QED BY <3>2, <3>3
  <2>2. ASSUME NEW t \in topN', NEW k \in DOMAIN results'
        PROVE  Worse(t, results'[k])
    <3>1. CASE k = 1
      BY <1>4, <1>13, <3>1
    <3>2. CASE k # 1
      <4>1. results'[k] = results[k - 1] /\ k - 1 \in DOMAIN results
        BY <1>4, <3>2
      <4> QED BY <1>1, <1>14, <4>1
    <3> QED BY <3>1, <3>2
  <2> QED BY <1>2, <2>1, <2>2 DEF ResultsBestFirst, Worse
<1> QED
  BY <1>2, <1>7, <1>8, <1>9, <1>10, <1>12, <1>16 DEF MergeInv, PoolOK

LEMMA MergeNextInv == MergeInv /\ [MergeNext]_mergeVars => MergeInv'
<1> SUFFICES ASSUME MergeInv, [MergeNext]_mergeVars PROVE MergeInv'
  OBVIOUS
<1>1. CASE MergeStep
  BY <1>1, OpenSpillInv, OpenDoneInv, NextResultTupleInv, FoldInv, EndMergeInv,
     RemoveSpillInv, CloseDoneInv, DrainInv DEF MergeStep
<1>2. CASE UNCHANGED mergeVars
  <2>1. UNCHANGED <<pc, pool, mem, disk, output_files, curr, idx, faulted, num_results,
                    cursor, drained, merge_heap, next_tuple, topN, results>>
    BY <1>2 DEF mergeVars, processVars, mergeLocals
  <2>2. MergeTypeOK' /\ Places' /\ TopNBounded'
    BY <2>1 DEF MergeInv, MergeTypeOK, Places, Merging, Opened, Files, TopNBounded, IsEmpty
  <2>3. Owned' /\ Ascending' /\ ResultsBestFirst'
    BY <2>1 DEF MergeInv, Owned, OwnBlocks, OwnsApart, Ascending, Merging, Files, UrlOf,
                ResultsBestFirst, Worse, IsEmpty
  <2> QED BY <2>1, <2>2, <2>3 DEF MergeInv, PoolOK
<1> QED
  BY <1>1, <1>2 DEF MergeNext, MergeReturned

LEMMA MergeSpecInv == MergeSpec => []MergeInv
<1>1. MergeInit => MergeInv
  BY InitMergeInv
<1>2. MergeInv /\ [MergeNext]_mergeVars => MergeInv'
  BY MergeNextInv
<1> QED
  BY <1>1, <1>2, PTL DEF MergeSpec

-----------------------------------------------------------------------------

\* The variables of the second stage keep their types.
THEOREM MergeTypeCorrect == MergeSpec => []MergeTypeOK
<1>1. MergeInv => MergeTypeOK
  BY DEF MergeInv
<1> QED
  BY <1>1, MergeSpecInv, PTL

\* The invariant gives each tuple in use a string of its own.
LEMMA InvStringsLive == MergeInv => StringsLive
<1> SUFFICES ASSUME MergeInv, pc # "segv", NEW s \in Working, NEW t \in Working
             PROVE  s[2].ptr \in pool.live /\ (s[2].ptr = t[2].ptr => s = t)
  BY DEF StringsLive
<1>1. /\ OwnBlocks(merge_heap \cup topN) /\ OwnBlocks(Range(results))
      /\ merge_heap \cap topN = {}
      /\ \A x \in topN, y \in Range(results) : x.ptr # y.ptr
      /\ pc = "fold" => OwnsApart(next_tuple, merge_heap \cup topN)
      /\ pc \in {"merge", "fold"} /\ ~IsEmpty(curr) => OwnsApart(curr, merge_heap \cup topN)
      /\ pc = "fold" /\ ~IsEmpty(curr) => curr.ptr # next_tuple.ptr
  BY DEF MergeInv, Owned
<1>2. /\ Range(results) # {} => pc \in {"drain", "print"} /\ merge_heap = {}
  BY DEF MergeInv, Places, Range
<1>3. ASSUME NEW x \in Working
      PROVE  \/ x[1] = "heap" /\ x[2] \in merge_heap
             \/ x[1] = "topN" /\ x[2] \in topN
             \/ x[1] = "results" /\ x[2] \in Range(results)
             \/ x[1] = "next" /\ x[2] = next_tuple /\ pc = "fold"
             \/ x[1] = "curr" /\ x[2] = curr /\ pc \in {"merge", "fold"} /\ ~IsEmpty(curr)
  BY DEF Working, InHand
<1>4. s = <<s[1], s[2]>> /\ t = <<t[1], t[2]>>
  BY DEF Working, InHand
<1>5. s[2].ptr \in pool.live
  BY <1>1, <1>3 DEF OwnBlocks, OwnsApart
<1>6. s[2].ptr = t[2].ptr => s[1] = t[1] /\ s[2] = t[2]
  BY <1>1, <1>2, <1>3 DEF OwnBlocks, OwnsApart
<1> QED BY <1>4, <1>5, <1>6

\* No string is freed while a tuple refers to it, and no two tuples share one.
THEOREM StringsStayLive == MergeSpec => []StringsLive
BY InvStringsLive, MergeSpecInv, PTL

\* The heap has one tuple of each file at most, and topN_tuples is bounded.
THEOREM OneTuplePerFile == MergeSpec => []OnePerFile
<1>1. MergeInv => OnePerFile
  <2> SUFFICES ASSUME MergeInv, pc \in {"merge", "fold"}, NEW f \in Files
               PROVE  LET n == Cardinality({t \in merge_heap : t.file_index = f}) IN
                      n <= 1 /\ (f \notin drained => n = 1)
    BY DEF OnePerFile, Files, MergeInv, TopNBounded
  <2> DEFINE S == {t \in merge_heap : t.file_index = f}
  <2>1. /\ \A s, t \in S : s = t
        /\ f \notin drained => S # {}
    BY DEF MergeInv, Places, Merging, Opened
  <2>2. CASE S = {}
    BY <2>1, <2>2, FS_EmptySet
  <2>3. CASE S # {}
    <3>1. PICK t \in S : S = {t}
      BY <2>1, <2>3
    <3>2. Cardinality(S) = 1
      BY <3>1, FS_Singleton
    <3> QED BY <3>2
  <2> QED BY <2>2, <2>3
<1> QED
  BY <1>1, MergeSpecInv, PTL

\* The results are in order, from any files and whatever their counts.
THEOREM ResultsAreBestFirst == MergeSpec => []ResultsBestFirst
<1>1. MergeInv => ResultsBestFirst
  BY DEF MergeInv
<1> QED
  BY <1>1, MergeSpecInv, PTL

-----------------------------------------------------------------------------

\* No tuple in use has a count of 0, which would mark it as empty.
CountsNonzero ==
  /\ \A t \in merge_heap : t.cnt # 0
  /\ pc = "fold" => next_tuple.cnt # 0
  /\ pc \in {"merge", "fold"} /\ IsEmpty(curr) => curr.ptr = NULL

\* Each live block is that of a tuple in one of the places.
AllOwned ==
  pc # "segv" =>
    \A a \in pool.live :
      \/ \E t \in merge_heap \cup topN \cup Range(results) : t.ptr = a
      \/ pc = "fold" /\ next_tuple.ptr = a
      \/ pc \in {"merge", "fold"} /\ ~IsEmpty(curr) /\ curr.ptr = a

LEMMA AllOwnedNext ==
  MergeInv /\ AllOwned /\ CountsNonzero /\ CountsNonzero' /\ [MergeNext]_mergeVars
    => AllOwned'
<1> SUFFICES ASSUME MergeInv, AllOwned, CountsNonzero, CountsNonzero',
                    [MergeNext]_mergeVars, pc' # "segv"
             PROVE  AllOwned'
  BY DEF AllOwned
<1>1. MergeTypeOK /\ PoolOK(pool) /\ TopNBounded /\ Owned /\ Ascending /\ Places
  BY DEF MergeInv
<1>2. CASE OpenSpill
  <2>1. /\ pc = "reopen" /\ idx < output_files
        /\ ReadTuple(idx, merge_heap, "reopen")
        /\ UNCHANGED <<curr, next_tuple, topN, results>>
    BY <1>2 DEF OpenSpill
  <2>2. idx \in Files /\ idx \in DOMAIN disk /\ SortedFile(disk[idx])
    BY <1>1, <2>1 DEF MergeTypeOK, Places, Merging, Files, Ascending
  <2>3. \/ FileDrained(idx, merge_heap, "reopen")
        \/ \E t \in Tuples : TupleRead(idx, merge_heap, "reopen", t)
    BY <1>1, <2>1, <2>2, ReadTupleOK DEF OutOfMemory
  <2> QED BY <2>1, <2>3 DEF FileDrained, TupleRead, AllOwned
<1>3. CASE OpenDone
  BY <1>3 DEF OpenDone, mergeLocals, AllOwned
<1>4. CASE NextResultTuple
  <2>1. PICK t \in merge_heap :
          /\ next_tuple' = t
          /\ IF t.file_index \notin drained THEN ReadTuple(t.file_index, Pop(t), "fold")
             ELSE /\ merge_heap' = Pop(t) /\ pc' = "fold"
                  /\ UNCHANGED <<pool, mem, cursor, drained, faulted>>
    BY <1>4 DEF NextResultTuple
  <2> DEFINE heap == merge_heap \ {t}
             i == t.file_index
  <2>2. pc = "merge" /\ Pop(t) = heap /\ UNCHANGED <<curr, topN, results>>
    BY <1>4 DEF NextResultTuple, Pop
  <2>3. i \in Files /\ i \in DOMAIN disk /\ SortedFile(disk[i])
    BY <1>1, <2>2 DEF MergeTypeOK, Places, Merging, Files, Ascending
  <2>4. /\ pc' = "fold" /\ heap \subseteq merge_heap'
        /\ \/ pool' = pool
           \/ \E n \in Tuples : n \in merge_heap' /\ pool'.live = pool.live \cup {n.ptr}
    <3>1. CASE ReadTuple(i, heap, "fold")
      <4>1. \/ FileDrained(i, heap, "fold")
            \/ \E n \in Tuples : TupleRead(i, heap, "fold", n)
        <5> HIDE DEF heap, i
        <5> QED BY <1>1, <2>3, <3>1, ReadTupleOK DEF OutOfMemory
      <4> QED BY <4>1 DEF FileDrained, TupleRead
    <3>2. CASE ~ReadTuple(i, heap, "fold")
      BY <2>1, <2>2, <3>2
    <3> QED BY <3>1, <3>2
  <2>5. \A s \in merge_heap : s \in merge_heap' \/ s = next_tuple'
    BY <2>1, <2>4
  <2> HIDE DEF heap
  <2> QED BY <2>2, <2>4, <2>5 DEF AllOwned, IsEmpty
<1>5. CASE Fold
  <2>1. /\ pc = "fold" /\ pc' = "merge" /\ next_tuple \in Tuples /\ merge_heap' = merge_heap
        /\ UNCHANGED <<mem, num_results, results>>
        /\ IsEmpty(curr) \/ curr \in Tuples
        /\ next_tuple.ptr # NULL
    BY <1>1, <1>5, NullAssumption DEF Fold, Places, MergeTypeOK, Tuples
  <2>2. CASE IsEmpty(curr) /\ curr' = next_tuple /\ UNCHANGED <<pool, topN>>
    BY <2>1, <2>2 DEF AllOwned, CountsNonzero, IsEmpty
  <2>3. CASE /\ ~IsEmpty(curr) /\ curr' = [curr EXCEPT !.cnt = IntAdd(@, next_tuple.cnt)]
             /\ pool' = FreeString(next_tuple) /\ UNCHANGED topN
    <3>1. curr'.ptr = curr.ptr /\ curr.ptr # NULL
      BY <2>1, <2>3, NullAssumption DEF Tuples
    <3>2. ~IsEmpty(curr)'
      BY <2>1, <3>1 DEF CountsNonzero
    <3>3. pool'.live = pool.live \ {next_tuple.ptr}
      BY <1>1, <2>3, FreeOK DEF FreeString
    <3> QED BY <2>1, <2>3, <3>1, <3>2, <3>3 DEF AllOwned
  <2>4. CASE /\ ~IsEmpty(curr) /\ UpdateHeap(curr) /\ curr' = next_tuple
             /\ mem[curr.ptr] # mem[next_tuple.ptr]
    <3>1. /\ curr \in Tuples /\ OwnBlocks(topN) /\ OwnsApart(curr, topN)
          /\ \A s, t \in topN : UrlOf(s) = UrlOf(t) => s = t
          /\ \A t \in topN : UrlOf(t) < UrlOf(curr)
      BY <1>1, <2>1, <2>4 DEF Owned, OwnBlocks, OwnsApart, Ascending, Files
    <3>2. /\ pool'.live \subseteq pool.live
          /\ \A a \in pool'.live : a \in {t.ptr : t \in topN \cup {curr}}
                                     => a \in {t.ptr : t \in topN'}
      BY <1>1, <2>1, <2>4, <3>1, UpdateHeapOK
    <3>3. ~IsEmpty(curr)'
      BY <2>1, <2>4 DEF CountsNonzero, IsEmpty
    <3> QED BY <2>1, <2>4, <3>2, <3>3 DEF AllOwned
  <2> QED BY <1>5, <2>2, <2>3, <2>4 DEF Fold
<1>6. CASE EndMerge
  <2>1. /\ pc = "merge" /\ pc' = "close" /\ merge_heap = {} /\ merge_heap' = {}
        /\ UNCHANGED <<mem, num_results, results>>
        /\ IsEmpty(curr) \/ curr \in Tuples
    BY <1>1, <1>6 DEF EndMerge, MergeTypeOK
  <2>2. CASE IsEmpty(curr)
    BY <1>6, <2>1, <2>2 DEF EndMerge, AllOwned
  <2>3. CASE ~IsEmpty(curr)
    <3>1. /\ curr \in Tuples /\ OwnBlocks(topN) /\ OwnsApart(curr, topN)
          /\ \A s, t \in topN : UrlOf(s) = UrlOf(t) => s = t
          /\ \A t \in topN : UrlOf(t) < UrlOf(curr)
      BY <1>1, <2>1, <2>3 DEF Owned, OwnBlocks, OwnsApart, Ascending, Files
    <3>2. UpdateHeap(curr)
      BY <1>6, <2>3 DEF EndMerge
    <3>3. /\ pool'.live \subseteq pool.live
          /\ \A a \in pool'.live : a \in {t.ptr : t \in topN \cup {curr}}
                                     => a \in {t.ptr : t \in topN'}
      BY <1>1, <2>1, <3>1, <3>2, UpdateHeapOK
    <3> QED BY <2>1, <3>3 DEF AllOwned
  <2> QED BY <2>2, <2>3
<1>7. CASE RemoveSpill \/ CloseDone
  BY <1>7 DEF RemoveSpill, CloseDone, mergeLocals, AllOwned
<1>8. CASE Drain
  <2>1. PICK top \in topN : results' = <<top>> \o results /\ topN' = topN \ {top}
    BY <1>8 DEF Drain, Fill
  <2>2. /\ pc = "drain" /\ UNCHANGED <<pool, merge_heap>> /\ results \in Seq(Tuples)
        /\ topN \subseteq Tuples
    BY <1>1, <1>8 DEF Drain, MergeTypeOK
  <2>3. \A t \in Range(results) \cup {top} : t \in Range(results')
    <3>1. /\ 1 \in DOMAIN results' /\ results'[1] = top
          /\ \A k \in DOMAIN results : k + 1 \in DOMAIN results' /\ results'[k + 1] = results[k]
      BY <2>1, <2>2
    <3> QED BY <3>1 DEF Range
  <2>4. \A a \in pool.live : \E t \in merge_heap \cup topN \cup Range(results) : t.ptr = a
    BY <2>2 DEF AllOwned
  <2>5. \A t \in topN : t \in topN' \/ t = top
    BY <2>1
  <2> QED BY <2>2, <2>3, <2>4, <2>5 DEF AllOwned
<1>9. CASE UNCHANGED mergeVars
  BY <1>9 DEF mergeVars, processVars, mergeLocals, AllOwned, IsEmpty
<1> QED
  BY <1>2, <1>3, <1>4, <1>5, <1>6, <1>7, <1>8, <1>9
     DEF MergeNext, MergeStep, MergeReturned

(***************************************************************************)
(* Every string is freed with its tuple, unless a count comes to 0: that   *)
(* is the only way to leak one.                                            *)
(***************************************************************************)
THEOREM OnlyZeroLeaks == MergeSpec /\ []CountsNonzero => []NothingLeaks
<1>1. MergeInit => AllOwned
  <2> SUFFICES ASSUME MergeInit PROVE pool.live = {}
    BY DEF AllOwned
  <2> QED BY NoBlocksOK DEF MergeInit
<1>2. MergeInv /\ AllOwned /\ CountsNonzero /\ CountsNonzero' /\ [MergeNext]_mergeVars
        => AllOwned'
  BY AllOwnedNext
<1>3. MergeInv /\ AllOwned => NothingLeaks
  <2> SUFFICES ASSUME MergeInv, AllOwned, pc # "segv", NEW a \in pool.live
               PROVE  \E t \in Working : t[2].ptr = a
    <3>1. CASE pc # "segv" /\ MergeInv /\ pool.live \ {t[2].ptr : t \in Working} = {}
      <4>1. Cardinality(pool.live \ {t[2].ptr : t \in Working}) = 0 /\ output_files \in Nat
        BY <3>1, FS_EmptySet DEF MergeInv, MergeTypeOK
      <4> QED BY <4>1 DEF NothingLeaks
    <3> QED BY <3>1 DEF NothingLeaks
  <2>1. \A t \in merge_heap : <<"heap", t>> \in Working
    BY DEF Working
  <2>2. \A t \in topN : <<"topN", t>> \in Working
    BY DEF Working
  <2>3. \A t \in Range(results) : <<"results", t>> \in Working
    BY DEF Working
  <2>4. /\ pc = "fold" => <<"next", next_tuple>> \in Working
        /\ pc \in {"merge", "fold"} /\ ~IsEmpty(curr) => <<"curr", curr>> \in Working
    BY DEF Working, InHand
  <2> QED BY <2>1, <2>2, <2>3, <2>4 DEF AllOwned
<1> QED
  BY <1>1, <1>2, <1>3, MergeSpecInv, PTL DEF MergeSpec

=============================================================================
