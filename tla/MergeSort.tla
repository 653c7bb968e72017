----------------------------- MODULE MergeSort -----------------------------
(***************************************************************************)
(* The second stage, src/src/topn-freq-urls.cpp:74-119 with the FileMerger *)
(* of file-manager.cpp:81-149: MergeSort merges the sorted spill files,    *)
(* adds up the counts of equal URLs and keeps the num_results_ best.       *)
(*                                                                         *)
(*   pc            code about to run                                       *)
(*   "reopen"      for (int i = 0; ...) of FileMerger::Open                *)
(*   "merge"       file_merger_.NextResultTuple(&next_tuple)               *)
(*   "fold"        the body of the merge loop                              *)
(*   "close"       for (int i = 0; ...) of FileMerger::Close               *)
(*   "drain"       for (int i = ...) that fills the results                *)
(*   "print"       MergeSort has returned                                  *)
(*   "segv"        memcpy to nullptr                                       *)
(***************************************************************************)
EXTENDS Process

VARIABLES
  num_results,  \* num_results_
  cursor,       \* rows read of each file
  drained,      \* the files labelled in drained_
  merge_heap,   \* res_tuples_heap_
  next_tuple,   \* next_tuple
  topN,         \* topN_tuples
  results       \* *results

mergeLocals == <<num_results, cursor, drained, merge_heap, next_tuple, topN, results>>
mergeVars   == <<processVars, mergeLocals>>

\* The tuples of strings in memory.
Tuples == [ptr : Addr, cnt : Int, file_index : Nat]

\* The locals of a process that has just started.
StartMerger ==
  /\ cursor = EmptyMap
  /\ drained = {}
  /\ merge_heap = {}
  /\ next_tuple = Empty
  /\ topN = {}
  /\ results = <<>>

\* A file in which each URL has one row, smaller URLs first.
SortedFile(q) ==
  /\ q \in Seq(Row)
  /\ \A j, k \in DOMAIN q : j < k => q[j].url < q[k].url

\* A pool with no block: at most the charges of failed mallocs are in it.
NoBlocks ==
  [max_size : Limits, current_size : Nat, live : {{}},
   chunk_sizes : {EmptyMap} \cup [{NULL} -> Nat]]

\* What MergeSort finds: output_files sorted files, and no string in memory.
MergeInit ==
  /\ pc = "reopen" /\ idx = 0
  /\ input \in Seq(Url)
  /\ pool \in NoBlocks /\ Held(pool.chunk_sizes) <= pool.current_size
  /\ mem \in [Addr -> Url]
  /\ output_files \in Nat
  /\ \A f \in DOMAIN disk : f \in Nat /\ disk[f] \in Seq(Row)
  /\ \A f \in 0 .. output_files - 1 : f \in DOMAIN disk /\ SortedFile(disk[f])
  /\ faulted \subseteq Faults
  /\ num_results \in Nat
  /\ StartMerger

-----------------------------------------------------------------------------

(***************************************************************************)
(* The tuple of a row now stored at address a.                             *)
(* (Mutants TupleOfFirstFile, TupleOfNextFile: file_index is not set; it   *)
(* is set after the index of the loop has moved on.)                       *)
(***************************************************************************)
TupleOfFirstFile(a, row, i) == [ptr |-> a, cnt |-> row.cnt, file_index |-> 0]
TupleOfNextFile(a, row, i) == [ptr |-> a, cnt |-> row.cnt, file_index |-> i + 1]
Tuple(a, row, i) == [ptr |-> a, cnt |-> row.cnt, file_index |-> i]

(***************************************************************************)
(* What *in >> res->cnt leaves when reading fails there: cnt was never     *)
(* initialised.  Three values stand for any int: one that cancels a count, *)
(* one that marks an empty tuple and the largest.                          *)
(***************************************************************************)
Uninitialised == {-1, 0, IntMax}

(***************************************************************************)
(* NextResultTupleInFile for file i, and what its two callers do with the  *)
(* result: push the tuple on the heap, or label the file drained.  A file  *)
(* that could not be opened, or fails, looks like one at its end; if it    *)
(* fails in the count of a row, the row is used all the same.              *)
(***************************************************************************)
ReadTuple(i, heap, then) ==
  LET at == IF i \in DOMAIN cursor THEN cursor[i] ELSE 0
      AtEnd == at = Len(disk[i])
      row == disk[i][at + 1] IN
  \/ /\ ~AtEnd
     /\ \E a \in Malloc(pool), cut \in {{}, {"recount"}} :
          /\ Faulty(Signs(a) \cup cut)
          /\ cursor' = Put(cursor, i, IF cut = {} THEN at + 1 ELSE Len(disk[i]))
          /\ pool' = Allocate(pool, a, UrlLen[row.url])
          /\ mem' = [x \in Addr |-> IF x = a THEN row.url ELSE mem[x]]
          /\ IF a = NULL THEN pc' = "segv" /\ merge_heap' = heap
             ELSE /\ pc' = then
                  /\ \E cnt \in IF cut = {} THEN {row.cnt} ELSE Uninitialised :
                       merge_heap' = heap \cup {Tuple(a, [row EXCEPT !.cnt = cnt], i)}
     /\ UNCHANGED drained
  \/ /\ \/ AtEnd /\ Faulty({})
        \/ ~AtEnd /\ Faulty({"reread"})
     /\ drained' = drained \cup {i}
     /\ pc' = then /\ merge_heap' = heap
     /\ UNCHANGED <<pool, mem, cursor>>

\* One iteration of FileMerger::Open, the opening of file idx included.
OpenSpill ==
  /\ pc = "reopen" /\ idx < output_files
  /\ idx' = idx + 1
  /\ ReadTuple(idx, merge_heap, "reopen")
  /\ UNCHANGED <<input, disk, output_files, curr, num_results, next_tuple, topN, results>>

\* FileMerger::Open returns and curr_tuple.SetEmpty().
OpenDone ==
  /\ pc = "reopen" /\ idx = output_files
  /\ pc' = "merge" /\ idx' = 0
  /\ curr' = Empty
  /\ UNCHANGED <<input, pool, mem, disk, output_files, faulted, mergeLocals>>

\* StringLess(a, b): b is to leave the merge heap before a.
StringLess(a, b) ==
  \/ mem[a.ptr] > mem[b.ptr]
  \/ mem[a.ptr] = mem[b.ptr] /\ a.cnt > b.cnt

\* res_tuples_heap_.pop() of tuple t.  (Mutant KeepTop: no pop.)
KeepTop(t) == merge_heap
Pop(t) == merge_heap \ {t}

\* FileMerger::NextResultTuple: any of the tuples that no other is to precede.
NextResultTuple ==
  /\ pc = "merge"
  /\ \E t \in merge_heap :
       /\ \A o \in merge_heap : ~StringLess(t, o)
       /\ next_tuple' = t
       /\ IF t.file_index \notin drained THEN ReadTuple(t.file_index, Pop(t), "fold")
          ELSE /\ merge_heap' = Pop(t) /\ pc' = "fold"
               /\ UNCHANGED <<pool, mem, cursor, drained, faulted>>
  /\ UNCHANGED <<input, disk, output_files, curr, idx, num_results, topN, results>>

\* ResultTuple::operator<: b is worse than a, with a lower count or a larger URL.
\* (Mutant WorseByCount: ties are not broken.)
WorseByCount(a, b) == a.cnt > b.cnt
Worse(a, b) ==
  \/ a.cnt > b.cnt
  \/ a.cnt = b.cnt /\ mem[a.ptr] < mem[b.ptr]

\* A tuple the top of topN_tuples may be.
IsTop(t, heap) == t \in heap /\ \A o \in heap : ~Worse(t, o)

(***************************************************************************)
(* UpdateHeap(t).  The heap held at most num_results_ tuples, so its loop  *)
(* frees and pops at most one, possibly t itself.                          *)
(* (Mutants LeakString, FreeCurrent: the string is not freed; the string   *)
(* of curr_tuple is freed.)                                                *)
(***************************************************************************)
LeakString(t) == pool
FreeCurrent(t) == Free(pool, curr.ptr)
FreeString(t) == Free(pool, t.ptr)
UpdateHeap(t) ==
  LET heap == topN \cup {t} IN
  IF Cardinality(heap) <= num_results THEN topN' = heap /\ UNCHANGED pool
  ELSE \E top \in heap :
         IsTop(top, heap) /\ topN' = heap \ {top} /\ pool' = FreeString(top)

\* The body of the merge loop.
Fold ==
  /\ pc = "fold"
  /\ pc' = "merge"
  /\ \/ /\ IsEmpty(curr) /\ curr' = next_tuple /\ UNCHANGED <<pool, topN>>
     \/ /\ ~IsEmpty(curr) /\ mem[curr.ptr] = mem[next_tuple.ptr]
        /\ curr' = [curr EXCEPT !.cnt = IntAdd(@, next_tuple.cnt)]
        /\ pool' = FreeString(next_tuple)
        /\ UNCHANGED topN
     \/ /\ ~IsEmpty(curr) /\ mem[curr.ptr] # mem[next_tuple.ptr]
        /\ UpdateHeap(curr)
        /\ curr' = next_tuple
  /\ UNCHANGED <<input, mem, disk, output_files, idx, faulted,
                 num_results, cursor, drained, merge_heap, next_tuple, results>>

\* NextResultTuple returned false: the tuple of the last URL joins the heap.
EndMerge ==
  /\ pc = "merge" /\ merge_heap = {}
  /\ pc' = "close" /\ idx' = 0
  /\ IF IsEmpty(curr) THEN UNCHANGED <<pool, topN>> ELSE UpdateHeap(curr)
  /\ UNCHANGED <<input, mem, disk, output_files, curr, faulted,
                 num_results, cursor, drained, merge_heap, next_tuple, results>>

\* The disk after a remove() of a spill file.  (Mutant RemoveNext: off by one.)
RemoveNext(file) == Erase(disk, file + 1)
Remove(file) == Erase(disk, file)

\* One iteration of FileMerger::Close, which ignores what remove() returns.
RemoveSpill ==
  /\ pc = "close" /\ idx < output_files
  /\ \/ disk' = Remove(idx) /\ Faulty({})
     \/ disk' = disk /\ Faulty({"remove"})
  /\ idx' = idx + 1
  /\ UNCHANGED <<pc, input, pool, mem, output_files, curr, mergeLocals>>

\* After Close: with nothing to drain, "No urls scanned!".
CloseDone ==
  /\ pc = "close" /\ idx = output_files
  /\ pc' = IF topN = {} THEN "print" ELSE "drain"
  /\ idx' = 0
  /\ UNCHANGED <<input, pool, mem, disk, output_files, curr, faulted, mergeLocals>>

\* results with the next tuple.  (Mutant FillForward: from the start.)
FillForward(top) == Append(results, top)
Fill(top) == <<top>> \o results

\* One iteration of the loop that fills results from its end.
Drain ==
  /\ pc = "drain"
  /\ \E top \in topN :
       /\ IsTop(top, topN)
       /\ results' = Fill(top)
       /\ topN' = topN \ {top}
       /\ pc' = IF topN' = {} THEN "print" ELSE "drain"
  /\ UNCHANGED <<input, pool, mem, disk, output_files, curr, idx, faulted,
                 num_results, cursor, drained, merge_heap, next_tuple>>

MergeStep ==
  \/ OpenSpill \/ OpenDone \/ NextResultTuple \/ Fold \/ EndMerge
  \/ RemoveSpill \/ CloseDone \/ Drain

\* MergeSort has returned, or the process is gone.
MergeReturned == pc \in {"print", "segv"} /\ UNCHANGED mergeVars

MergeNext == MergeStep \/ MergeReturned

MergeSpec == MergeInit /\ [][MergeNext]_mergeVars

-----------------------------------------------------------------------------

\* The types of the variables the second stage uses.
MergeTypeOK ==
  LET files == 0 .. output_files - 1 IN
  /\ pc \in {"reopen", "merge", "fold", "close", "drain", "print", "segv"}
  /\ DOMAIN pool.chunk_sizes \subseteq Addr \cup {NULL} /\ pool.live \subseteq Addr
  /\ mem \in [Addr -> Url]
  /\ faulted \subseteq Faults
  /\ idx \in Nat /\ output_files \in Nat /\ num_results \in Nat
  /\ \A f \in DOMAIN disk : f \in Nat /\ disk[f] \in Seq(Row)
  /\ DOMAIN cursor \subseteq files
  /\ \A f \in DOMAIN cursor : f \in DOMAIN disk => cursor[f] \in 0 .. Len(disk[f])
  /\ drained \subseteq files
  /\ merge_heap \subseteq Tuples /\ \A t \in merge_heap : t.file_index \in files
  /\ topN \subseteq Tuples
  /\ results \in Seq(Tuples)
  /\ pc \in {"merge", "fold"} => IsEmpty(curr) \/ curr \in Tuples
  /\ next_tuple = Empty \/ next_tuple \in Tuples

(***************************************************************************)
(* The tuples the process works on, by where they are: the two heaps, the  *)
(* results, next_tuple until it is folded, curr_tuple until the loop ends. *)
(***************************************************************************)
InHand ==
  (IF pc = "fold" THEN {<<"next", next_tuple>>} ELSE {})
    \cup (IF pc \in {"merge", "fold"} /\ ~IsEmpty(curr) THEN {<<"curr", curr>>} ELSE {})
Working ==
  ({"heap"} \X merge_heap) \cup ({"topN"} \X topN)
    \cup ({"results"} \X Range(results)) \cup InHand

(***************************************************************************)
(* Each working tuple refers to a live block of its own, whatever fails:   *)
(* no string is freed while a heap orders tuples by it or a result is to   *)
(* be printed, and no two tuples, in one place or in two, share a string,  *)
(* which would be freed with the first of them.                            *)
(***************************************************************************)
StringsLive ==
  pc # "segv" =>
    \A s, t \in Working : s[2].ptr \in pool.live /\ (s[2].ptr = t[2].ptr => s = t)

(***************************************************************************)
(* No string outlives its tuple, in a run that read each count it used.  A *)
(* tuple whose count comes to 0 leaks its string, for it is taken for an   *)
(* empty one.  That takes an overflow or a count that was not read; after  *)
(* that a file is drained, so no more strings leak than there are files.   *)
(***************************************************************************)
NothingLeaks ==
  pc # "segv" =>
    Cardinality(pool.live \ {t[2].ptr : t \in Working})
      <= IF "recount" \in faulted THEN output_files ELSE 0

\* The URLs of the files that the merge is done with: those before bound.
Merged(bound) == {u \in Url : RowsOf(u) # {} /\ u < bound}

\* Set ts holds the n best of the URLs us with what the files say of them.
KeepsBest(ts, us, n) ==
  LET kept == {mem[t.ptr] : t \in ts} IN
  /\ kept \subseteq us
  /\ Cardinality(ts) = Cardinality(kept)
  /\ Cardinality(kept) = IF Cardinality(us) < n THEN Cardinality(us) ELSE n
  /\ \A t \in ts : t.cnt = Spilled(mem[t.ptr])
  /\ \A u \in us \ kept, k \in kept :
       Spilled(u) < Spilled(k) \/ (Spilled(u) = Spilled(k) /\ u > k)

(***************************************************************************)
(* While the files are merged topN_tuples holds the num_results_ best of   *)
(* all URLs before the current one, each with the sum of its counts in all *)
(* files, however the ties of the merge heap are broken; and when the loop *)
(* ends, of all URLs.                                                      *)
(***************************************************************************)
TopNKeepsBest ==
  {"reread", "recount"} \cap faulted = {} =>
    /\ pc \in {"merge", "fold"} /\ ~IsEmpty(curr) =>
         KeepsBest(topN, Merged(mem[curr.ptr]), num_results)
    /\ pc = "close" /\ idx = 0 =>
         KeepsBest(topN, {u \in Url : RowsOf(u) # {}}, num_results)

(***************************************************************************)
(* The results are filled from the end: each is better than those after    *)
(* it, and what is still in the heap is better than all of them.           *)
(***************************************************************************)
ResultsBestFirst ==
  /\ \A j, k \in DOMAIN results : j < k => Worse(results[j], results[k])
  /\ \A t \in topN, k \in DOMAIN results : Worse(t, results[k])

(***************************************************************************)
(* The merge needs one tuple of each file in the heap: of a file that is   *)
(* not drained there is exactly one, of a drained one at most the last.    *)
(* With as many tuples in topN_tuples as asked for and two in hand that is *)
(* all the memory the merge takes (NothingLeaks).                          *)
(***************************************************************************)
OnePerFile ==
  pc \in {"merge", "fold"} =>
    /\ \A f \in 0 .. output_files - 1 :
         LET n == Cardinality({t \in merge_heap : t.file_index = f}) IN
         n <= 1 /\ (f \notin drained => n = 1)
    /\ Cardinality(topN) <= num_results

=============================================================================
