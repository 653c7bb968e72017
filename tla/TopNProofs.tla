----------------------------- MODULE TopNProofs -----------------------------
(***************************************************************************)
(* The whole program, for all arguments and inputs, any number of runs and *)
(* kills, and whatever fails: the first stage meets the second one's       *)
(* assumptions, so that what is proved of each holds of the program, and   *)
(* that is enough for the program to implement TopNSpec.                   *)
(***************************************************************************)
EXTENDS TopNFreqUrls, KeepsBestProofs

Sorting == pc \in {"open", "read", "aggregate", "free", "retry", "failed"}
Serving == pc \in {"reopen", "merge", "fold", "close", "drain", "print"}

\* What is on disk while no process runs, and what is left in memory.
Remains ==
  /\ mem \in [Addr -> Url]
  /\ \A f \in DOMAIN disk : f \in Nat /\ disk[f] \in Seq(Row)

\* The files that FileMerger::Close has gone through are gone, if it could remove them.
Removed ==
  "remove" \notin faulted =>
  /\ pc = "close" => \A f \in 0 .. idx - 1 : f \notin DOMAIN disk
  /\ pc \in {"drain", "print"} => \A f \in 0 .. output_files - 1 : f \notin DOMAIN disk

(***************************************************************************)
(* The inductive invariant: that of the stage that is running, with the    *)
(* locals of the second stage as they start while the first one runs.      *)
(***************************************************************************)
TopNInv ==
  /\ Sorting \/ Serving \/ pc \in {"segv", "off"}
  /\ Remains
  /\ num_results \in Nat
  /\ Sorting => SortInv /\ OrderInv /\ StartMerger
  /\ Serving => MergeInv /\ Removed
  /\ pc = "segv" => "malloc" \in faulted

-----------------------------------------------------------------------------

\* A pool of which no block is left.
LEMMA PoolWithoutBlocks ==
  ASSUME NEW p, PoolOK(p), p.live = {}, p.max_size \in Limits
  PROVE  p \in NoBlocks /\ Held(p.chunk_sizes) <= p.current_size
<1> DEFINE c == p.chunk_sizes
           maps == {EmptyMap} \cup [{NULL} -> Nat]
<1>1. /\ p = [max_size |-> p.max_size, current_size |-> p.current_size,
              chunk_sizes |-> c, live |-> p.live]
      /\ p.current_size \in Int /\ Held(c) \in Nat /\ Held(c) <= p.current_size
      /\ DOMAIN c \ {NULL} = {}
  BY PoolFields
<1>2. c = [x \in DOMAIN c |-> c[x]] /\ \A a \in DOMAIN c : c[a] \in Nat
  BY PoolFields, ChunkMapForm
<1>3. c \in maps
  <2>1. CASE DOMAIN c = {}
    <3>1. c = EmptyMap
      BY <1>2, <2>1 DEF EmptyMap
    <3> QED BY <3>1
  <2>2. CASE DOMAIN c = {NULL}
    <3>1. c \in [{NULL} -> Nat]
      BY <1>2, <2>2
    <3> QED BY <3>1
  <2> QED BY <1>1, <2>1, <2>2
<1>4. NoBlocks = [max_size : Limits, current_size : Nat, live : {{}}, chunk_sizes : maps]
  BY Zenon DEF NoBlocks
<1>5. p.current_size \in Nat
  BY <1>1
<1> HIDE DEF maps, c
<1> QED
  BY <1>1, <1>3, <1>4, <1>5

\* The first stage is done.
SortDone ==
  /\ SortInv /\ OrderInv
  /\ StartMerger /\ num_results \in Nat
  /\ pc = "reopen" /\ idx = 0 /\ urls = <<>>

LEMMA HandOver == SortDone => MergeInit
<1> SUFFICES ASSUME SortDone PROVE MergeInit
  OBVIOUS
<1> USE DEF SortDone
<1>1. SortTypeOK /\ PoolOK(pool) /\ pool.max_size \in Limits
  BY DEF SortInv, PoolWithinLimit
<1>2. pool.live = {}
  BY DEF SortInv, UrlsOwnPool, Loaded
<1>3. pool \in NoBlocks /\ Held(pool.chunk_sizes) <= pool.current_size
  BY <1>1, <1>2, PoolWithoutBlocks
<1>4. \A f \in 0 .. output_files - 1 : f \in DOMAIN disk /\ SortedFile(disk[f])
  BY <1>1 DEF OrderInv, File, RowsAscending, SortedFile, SortTypeOK
<1> QED
  BY <1>1, <1>3, <1>4 DEF MergeInit, SortTypeOK

\* The same of the state after a step.
LEMMA HandOverNext == SortDone' => MergeInit' /\ MergeInv'
<1>1. SortDone => MergeInit /\ MergeInv
  BY HandOver, InitMergeInv
<1> QED
  BY <1>1, PTL

-----------------------------------------------------------------------------

\* Where the steps of the first stage begin and end.
LEMMA SortStepControl ==
  ASSUME SortStep
  PROVE  /\ Sorting
         /\ pc' \in {"read", "aggregate", "free", "retry", "reopen", "failed", "segv"}
              \/ resume = pc'
         /\ pc' = "reopen" => idx' = 0 /\ urls' = <<>>
<1>1. CASE Open \/ LoadUrl \/ Retry
  BY <1>1 DEF Open, LoadUrl, Retry, Sorting
<1>2. CASE PoolFull
  BY <1>2 DEF PoolFull, BeginSpill, Sorting
<1>3. CASE EndOfInput
  BY <1>3 DEF EndOfInput, BeginSpill, Sorting
<1>4. CASE AggregateUrl
  BY <1>4 DEF AggregateUrl, WriteResultTuple, Sorting
<1>5. CASE FlushLast
  BY <1>5 DEF FlushLast, WriteResultTuple, Sorting
<1>6. CASE FreeUrl \/ ClearUrls
  BY <1>6 DEF FreeUrl, ClearUrls, Cleared, Sorting
<1> QED
  BY <1>1, <1>2, <1>3, <1>4, <1>5, <1>6 DEF SortStep

LEMMA SortStepTopN ==
  TopNInv /\ SortStep /\ UNCHANGED <<mergeLocals, mainVars>>
    => TopNInv' /\ (pc' = "reopen" => MergeInit')
<1> SUFFICES ASSUME TopNInv, SortStep, UNCHANGED <<mergeLocals, mainVars>>
             PROVE  TopNInv' /\ (pc' = "reopen" => MergeInit')
  OBVIOUS
<1>1. /\ Sorting
      /\ pc' = "reopen" => idx' = 0 /\ urls' = <<>>
      /\ pc' \in {"read", "aggregate", "free", "retry", "reopen", "failed", "segv"}
           \/ resume = pc'
  BY SortStepControl
<1>2. SortInv /\ OrderInv /\ StartMerger /\ num_results \in Nat
  BY <1>1 DEF TopNInv
<1>3. SortInv' /\ OrderInv'
  BY <1>2, SortNextInv, OrderNextInv DEF SortNext
<1>4. StartMerger' /\ num_results' \in Nat
  <2>1. UNCHANGED <<num_results, cursor, drained, merge_heap, next_tuple, topN, results>>
    BY DEF mergeLocals
  <2> QED BY <1>2, <2>1 DEF StartMerger
<1>5. Remains'
  BY <1>3 DEF SortInv, SortTypeOK, Remains
<1>6. CASE pc' = "reopen"
  <2>1. MergeInit' /\ MergeInv'
    BY <1>1, <1>3, <1>4, <1>6, HandOverNext DEF SortDone
  <2> QED BY <1>4, <1>5, <1>6, <2>1 DEF TopNInv, Sorting, Serving, Removed
<1>7. CASE pc' # "reopen"
  <2>1. pc' \in {"read", "aggregate", "free", "retry", "failed", "segv"}
    BY <1>1, <1>2, <1>7 DEF SortInv, SortTypeOK
  <2>2. pc' = "segv" => "malloc" \in faulted'
    BY <1>3 DEF SortInv, ExactWithoutFailure
  <2> QED BY <1>3, <1>4, <1>5, <2>1, <2>2 DEF TopNInv, Sorting, Serving
<1> QED
  BY <1>6, <1>7

\* Where the steps of the second stage begin and end.
LEMMA MergeStepControl ==
  ASSUME MergeInv, MergeStep
  PROVE  /\ Serving' \/ pc' = "segv"
         /\ pc' = "segv" => "malloc" \in faulted'
         /\ pc' = "reopen" => pc = "reopen"
         /\ num_results' = num_results
<1>1. MergeTypeOK /\ PoolOK(pool) /\ Places /\ Ascending
  BY DEF MergeInv
<1>2. CASE OpenSpill
  <2>1. /\ pc = "reopen" /\ idx < output_files /\ ReadTuple(idx, merge_heap, "reopen")
        /\ num_results' = num_results
    BY <1>2 DEF OpenSpill
  <2>2. idx \in Files /\ idx \in DOMAIN disk /\ SortedFile(disk[idx])
    BY <1>1, <2>1 DEF MergeTypeOK, Places, Merging, Files, Ascending
  <2>3. \/ OutOfMemory(merge_heap)
        \/ FileDrained(idx, merge_heap, "reopen")
        \/ \E t \in Tuples : TupleRead(idx, merge_heap, "reopen", t)
    BY <1>1, <2>1, <2>2, ReadTupleOK
  <2> QED BY <2>1, <2>3 DEF OutOfMemory, FileDrained, TupleRead, Serving
<1>3. CASE NextResultTuple
  <2>1. /\ pc = "merge" /\ num_results' = num_results
        /\ \E t \in merge_heap :
             ReadTuple(t.file_index, Pop(t), "fold") \/ pc' = "fold"
    BY <1>3 DEF NextResultTuple
  <2>2. PICK t \in merge_heap : ReadTuple(t.file_index, Pop(t), "fold") \/ pc' = "fold"
    BY <2>1
  <2> DEFINE i == t.file_index
             heap == Pop(t)
  <2>3. i \in Files /\ i \in DOMAIN disk /\ SortedFile(disk[i])
    BY <1>1, <2>1 DEF MergeTypeOK, Places, Merging, Files, Ascending
  <2>4. CASE ReadTuple(i, heap, "fold")
    <3> HIDE DEF i, heap
    <3>1. \/ OutOfMemory(heap)
          \/ FileDrained(i, heap, "fold")
          \/ \E n \in Tuples : TupleRead(i, heap, "fold", n)
      BY <1>1, <2>3, <2>4, ReadTupleOK
    <3> QED BY <2>1, <3>1 DEF OutOfMemory, FileDrained, TupleRead, Serving
  <2> QED BY <2>1, <2>2, <2>4 DEF Serving
<1>4. CASE OpenDone \/ Fold \/ EndMerge \/ RemoveSpill \/ CloseDone \/ Drain
  BY <1>4 DEF OpenDone, Fold, EndMerge, RemoveSpill, CloseDone, Drain, mergeLocals, Serving
<1> QED
  BY <1>2, <1>3, <1>4 DEF MergeStep

\* FileMerger::Close leaves none of the files it has gone through, or has failed.
LEMMA RemovedNext ==
  ASSUME MergeInv, Removed, MergeStep, Serving
  PROVE  Removed'
<1>1. idx \in Nat /\ output_files \in Nat
  BY DEF MergeInv, MergeTypeOK
<1>2. CASE RemoveSpill
  <2>1. /\ pc = "close" /\ pc' = "close" /\ idx' = idx + 1
        /\ faulted \subseteq faulted'
        /\ DOMAIN disk' = DOMAIN disk \ {idx} \/ "remove" \in faulted'
    BY <1>2 DEF RemoveSpill, Remove, Erase, Faulty
  <2> QED BY <1>1, <2>1 DEF Removed
<1>3. CASE EndMerge
  BY <1>3 DEF EndMerge, Removed
<1>4. CASE CloseDone
  BY <1>4 DEF CloseDone, Removed
<1>5. CASE Drain
  BY <1>5 DEF Drain, Removed
<1>6. CASE OpenSpill \/ OpenDone \/ NextResultTuple \/ Fold
  <2>1. pc' \in {"reopen", "merge", "fold", "segv"}
    BY <1>6 DEF OpenSpill, OpenDone, NextResultTuple, Fold, ReadTuple
  <2> QED BY <2>1 DEF Removed
<1> QED
  BY <1>2, <1>3, <1>4, <1>5, <1>6 DEF MergeStep

LEMMA MergeStepTopN ==
  TopNInv /\ MergeStep /\ UNCHANGED <<localVars, mainVars>>
    => TopNInv' /\ (pc' = "reopen" => pc = "reopen")
<1> SUFFICES ASSUME TopNInv, MergeStep
             PROVE  TopNInv' /\ (pc' = "reopen" => pc = "reopen")
  OBVIOUS
<1>1. Serving
  BY DEF MergeStep, OpenSpill, OpenDone, NextResultTuple, Fold, EndMerge,
         RemoveSpill, CloseDone, Drain, Serving
<1>2. MergeInv /\ Removed /\ num_results \in Nat
  BY <1>1 DEF TopNInv
<1>3. MergeInv' /\ Removed'
  BY <1>1, <1>2, MergeNextInv, RemovedNext DEF MergeNext
<1>4. /\ Serving' \/ pc' = "segv"
      /\ pc' = "segv" => "malloc" \in faulted'
      /\ pc' = "reopen" => pc = "reopen"
      /\ num_results' = num_results
  BY <1>2, MergeStepControl
<1>5. Remains'
  BY <1>3 DEF MergeInv, MergeTypeOK, Remains
<1> QED
  BY <1>2, <1>3, <1>4, <1>5 DEF TopNInv, Sorting, Serving

-----------------------------------------------------------------------------

\* A process starts, over whatever earlier ones have left on disk.
LEMMA MainInv ==
  ASSUME TopNInv, NEW a \in Args, NEW in \in Inputs, Main(a, in)
  PROVE  TopNInv'
<1>1. /\ pc' = "open" /\ input' = in /\ pool' = NewPool(MemLimit(a.mem_mb))
      /\ ~Illegal(a) /\ num_results' = a.num_results
      /\ output_files' = 0 /\ curr' = Empty /\ idx' = 1 /\ faulted' = {}
      /\ in_pos' = 0 /\ urls_scanned' = 0 /\ urls' = <<>> /\ resume' = "reopen"
      /\ UNCHANGED <<mem, disk>>
  BY DEF Main
<1>2. StartMerger'
  BY DEF Main, StartMerger
<1>3. /\ MemLimit(a.mem_mb) \in Limits /\ MemLimit(a.mem_mb) \in Nat
      /\ in \in Seq(Url)
  BY <1>1, MainAssumption, ProcessAssumption
<1>4. num_results' \in Nat
  <2>1. a.num_results \in Int
    BY MainAssumption
  <2> QED BY <1>1, <2>1 DEF Illegal
<1>5. /\ PoolOK(pool') /\ PoolExact(pool') /\ pool'.live = {}
      /\ pool'.max_size \in Limits /\ pool'.current_size = 0 /\ pool'.max_size \in Nat
  BY <1>1, <1>3, NewPoolOK
<1>6. Remains'
  BY <1>1 DEF TopNInv, Remains
<1>7. SortTypeOK'
  <2>1. /\ pool'.current_size \in Int /\ pool'.live \subseteq Addr
        /\ DOMAIN pool'.chunk_sizes \subseteq Addr \cup {NULL}
    BY <1>5, PoolTypes
  <2>2. Empty \in [ptr : Addr \cup {NULL}, cnt : Int] /\ IsEmpty(Empty)
    BY DEF Empty, IsEmpty
  <2> QED BY <1>1, <1>3, <1>5, <1>6, <2>1, <2>2 DEF SortTypeOK, Remains, IsEmpty
<1>8. PoolWithinLimit' /\ SpillReturns' /\ ExactWithoutFailure'
  BY <1>1, <1>5 DEF PoolWithinLimit, SpillReturns, ExactWithoutFailure
<1>9. UrlsOwnPool' /\ OrderInv'
  BY <1>1, <1>5 DEF UrlsOwnPool, Loaded, OrderInv, File
<1> QED
  BY <1>1, <1>2, <1>4, <1>6, <1>7, <1>8, <1>9 DEF TopNInv, SortInv, Sorting, Serving

\* A printed row changes nothing the merge has left.
LEMMA PrintResultInv == TopNInv /\ PrintResult => TopNInv'
<1> SUFFICES ASSUME TopNInv, PrintResult PROVE TopNInv'
  OBVIOUS
<1>1. /\ pc = "print" /\ pc' = pc /\ idx' = idx + 1
      /\ UNCHANGED <<pool, mem, disk, output_files, curr, faulted, num_results,
                     cursor, drained, merge_heap, next_tuple, topN, results>>
  BY DEF PrintResult, mergeLocals
<1>2. MergeInv /\ Removed
  BY <1>1 DEF TopNInv, Serving
<1>3. MergeTypeOK' /\ Places' /\ TopNBounded' /\ Owned'
  BY <1>1, <1>2 DEF MergeInv, MergeTypeOK, IsEmpty, Places, Merging, TopNBounded,
                    Owned, OwnBlocks
<1>4. Ascending' /\ ResultsBestFirst'
  BY <1>1, <1>2 DEF MergeInv, Ascending, Merging, Files, UrlOf, ResultsBestFirst, Worse
<1> QED
  BY <1>1, <1>2, <1>3, <1>4 DEF TopNInv, MergeInv, PoolOK, Removed, Remains, Sorting, Serving

\* The process ends, of itself or not; what is on disk remains.
LEMMA EndInv ==
  ASSUME TopNInv, PrintSummary \/ ExitOnError \/ Segv \/ Kill
  PROVE  TopNInv'
<1>1. pc' = "off" /\ UNCHANGED <<mem, disk, num_results>>
  BY DEF PrintSummary, ExitOnError, Segv, Kill, Die, mergeLocals
<1> QED
  BY <1>1 DEF TopNInv, Remains, Sorting, Serving

LEMMA StandstillInv == TopNInv /\ UNCHANGED <<sortVars, mergeLocals>> => TopNInv'
<1> SUFFICES ASSUME TopNInv, UNCHANGED <<sortVars, mergeLocals>> PROVE TopNInv'
  OBVIOUS
<1>1. UNCHANGED sortVars /\ UNCHANGED mergeVars
  BY DEF sortVars, mergeVars
<1>2. UNCHANGED <<pc, mem, disk, output_files, idx, faulted, num_results,
                  cursor, drained, merge_heap, next_tuple, topN, results>>
  BY <1>1 DEF mergeVars, processVars, mergeLocals
<1>3. Sorting => SortInv' /\ OrderInv' /\ StartMerger'
  BY <1>1, <1>2, SortNextInv, OrderNextInv DEF TopNInv, StartMerger
<1>4. Serving => MergeInv' /\ Removed'
  BY <1>1, <1>2, MergeNextInv DEF TopNInv, Removed
<1> QED
  BY <1>2, <1>3, <1>4 DEF TopNInv, Remains, Sorting, Serving

LEMMA InitTopNInv == TopNInit => TopNInv
<1> SUFFICES ASSUME TopNInit PROVE TopNInv
  OBVIOUS
<1>1. mem \in [Addr -> Url]
  BY ProcessAssumption DEF TopNInit, StartStage
<1>2. pc = "off" /\ num_results = 0 /\ DOMAIN disk = {}
  BY DEF TopNInit, EmptyMap
<1> QED
  BY <1>1, <1>2 DEF TopNInv, Remains, Sorting, Serving

LEMMA NextTopNInv == TopNInv /\ [Next]_vars => TopNInv'
<1> SUFFICES ASSUME TopNInv, [Next]_vars PROVE TopNInv'
  OBVIOUS
<1>1. ASSUME NEW a \in Args, (\E in \in Inputs : Main(a, in)) \/ MainRejects(a)
      PROVE  TopNInv'
  BY <1>1, MainInv, StandstillInv DEF MainRejects
<1>2. CASE ProcessStep
  BY <1>2, SortStepTopN, MergeStepTopN, PrintResultInv, EndInv DEF ProcessStep
<1>3. CASE Kill
  BY <1>3, EndInv
<1>4. CASE Idle \/ UNCHANGED vars
  BY <1>4, StandstillInv DEF Idle, vars
<1> QED
  BY <1>1, <1>2, <1>3, <1>4 DEF Next

LEMMA SpecTopNInv == Spec => []TopNInv
BY InitTopNInv, NextTopNInv, PTL DEF Spec

-----------------------------------------------------------------------------

(***************************************************************************)
(* Whatever is on disk when a run starts and whatever fails in it, what    *)
(* the first stage leaves is what MergeSort (topn-freq-urls.cpp:84) needs. *)
(***************************************************************************)
THEOREM StagesAlwaysMeet == Spec => StagesMeet
<1>1. TopNInv /\ [Next]_vars => [pc # "reopen" /\ pc' = "reopen" => MergeInit']_vars
  <2> SUFFICES ASSUME TopNInv, Next, pc # "reopen", pc' = "reopen" PROVE MergeInit'
    OBVIOUS
  <2>1. ProcessStep
    BY DEF Next, Main, MainRejects, Kill, Die, Idle, vars, sortVars, processVars
  <2>2. SortStep \/ MergeStep
    BY <2>1 DEF ProcessStep, PrintResult, PrintSummary, ExitOnError, Segv, Die
  <2>3. CASE MergeStep
    <3>1. Serving
      BY <2>3 DEF MergeStep, OpenSpill, OpenDone, NextResultTuple, Fold, EndMerge,
                  RemoveSpill, CloseDone, Drain, Serving
    <3>2. pc = "reopen"
      BY <2>3, <3>1, MergeStepControl DEF TopNInv
    <3> QED BY <3>2
  <2>4. CASE SortStep /\ ~MergeStep
    <3>1. UNCHANGED <<mergeLocals, mainVars>>
      BY <2>1, <2>2, <2>4 DEF ProcessStep, PrintResult, PrintSummary, ExitOnError, Segv, Die
    <3> QED BY <2>4, <3>1, SortStepTopN
  <2> QED BY <2>2, <2>3, <2>4
<1> QED
  BY <1>1, SpecTopNInv, PTL DEF Spec, StagesMeet

(***************************************************************************)
(* From the merge to the last row printed each tuple has its string.       *)
(***************************************************************************)
THEOREM AnswerStringsLive == Spec => [](Serving => StringsLive)
<1>1. TopNInv => (Serving => StringsLive)
  BY InvStringsLive DEF TopNInv
<1> QED
  BY <1>1, SpecTopNInv, PTL

\* The spill files under numbers that the run has not counted stay as they are.
ForeignKept ==
  \A f \in (DOMAIN disk \cup DOMAIN disk') \ Own' :
    f \in DOMAIN disk \cap DOMAIN disk' /\ disk'[f] = disk[f]

LEMMA SortKeepsForeign ==
  ASSUME TopNInv, SortStep PROVE ForeignKept
<1>1. output_files \in Nat /\ \A f \in DOMAIN disk : f \in Nat
  BY SortStepControl DEF TopNInv, Remains, SortInv, SortTypeOK
<1>2. ASSUME NEW ret, NEW fs, BeginSpill(ret, fs)
      PROVE  ForeignKept
  BY <1>1, <1>2 DEF BeginSpill, NewOutputFile, Put, Own, ForeignKept
<1>3. ASSUME NEW t, NEW then, WriteResultTuple(t, then), output_files' = output_files
      PROVE  ForeignKept
  <2>1. \/ disk' = disk
        \/ \E row : disk' = [disk EXCEPT ![output_files - 1] = Append(@, row)]
    BY <1>3 DEF WriteResultTuple
  <2>2. CASE disk' = disk
    BY <2>2 DEF ForeignKept
  <2>3. ASSUME NEW row, disk' = [disk EXCEPT ![output_files - 1] = Append(@, row)]
        PROVE  ForeignKept
    <3>1. DOMAIN disk' = DOMAIN disk
      BY <2>3
    <3>2. \A f \in DOMAIN disk \ Own' : f # output_files - 1 /\ disk'[f] = disk[f]
      BY <1>1, <1>3, <2>3 DEF Own
    <3> QED BY <3>1, <3>2 DEF ForeignKept
  <2> QED BY <2>1, <2>2, <2>3
<1>4. CASE PoolFull \/ EndOfInput
  <2>1. CASE disk' = disk
    BY <2>1 DEF ForeignKept
  <2>2. CASE \E ret, fs : BeginSpill(ret, fs)
    BY <1>2, <2>2
  <2> QED BY <1>4, <2>1, <2>2 DEF PoolFull, EndOfInput
<1>5. CASE AggregateUrl \/ FlushLast
  <2>1. output_files' = output_files
    BY <1>5 DEF AggregateUrl, FlushLast
  <2>2. CASE disk' = disk
    BY <2>2 DEF ForeignKept
  <2>3. CASE \E t, then : WriteResultTuple(t, then)
    BY <1>3, <2>1, <2>3
  <2> QED BY <1>5, <2>2, <2>3 DEF AggregateUrl, FlushLast
<1>6. CASE Open \/ LoadUrl \/ FreeUrl \/ ClearUrls \/ Retry
  BY <1>6 DEF Open, LoadUrl, FreeUrl, ClearUrls, Retry, ForeignKept
<1> QED
  BY <1>4, <1>5, <1>6 DEF SortStep

LEMMA MergeKeepsForeign ==
  ASSUME TopNInv, MergeStep PROVE ForeignKept
<1>1. CASE RemoveSpill
  <2>1. idx \in Nat /\ output_files \in Nat
    BY <1>1 DEF RemoveSpill, TopNInv, Serving, MergeInv, MergeTypeOK
  <2>2. idx \in Own' /\ disk' \in {disk, Erase(disk, idx)}
    BY <1>1, <2>1 DEF RemoveSpill, Remove, Own
  <2> QED BY <2>2 DEF Erase, ForeignKept
<1>2. CASE OpenSpill \/ OpenDone \/ NextResultTuple \/ Fold \/ EndMerge \/ CloseDone \/ Drain
  BY <1>2 DEF OpenSpill, OpenDone, NextResultTuple, Fold, EndMerge, CloseDone, Drain,
              ForeignKept
<1> QED
  BY <1>1, <1>2 DEF MergeStep

(***************************************************************************)
(* Whatever is on disk, no step touches the spill files under numbers that *)
(* the run has not counted, and none under its own numbers outlives a run  *)
(* that reaches its last line, unless a remove has failed in it.           *)
(***************************************************************************)
THEOREM OwnSpillsCleared == Spec => OwnSpillsOnly
<1>1. TopNInv /\ [Next]_vars
        => [/\ ForeignKept
            /\ scanned = None /\ scanned' # None /\ "remove" \notin faulted
                 => DOMAIN disk' \cap Own = {}]_vars
  <2> SUFFICES ASSUME TopNInv, Next
               PROVE  /\ ForeignKept
                      /\ scanned = None /\ scanned' # None /\ "remove" \notin faulted
                           => DOMAIN disk' \cap Own = {}
    OBVIOUS
  <2>1. ForeignKept
    <3>1. CASE SortStep \/ MergeStep
      BY <3>1, SortKeepsForeign, MergeKeepsForeign
    <3>2. CASE disk' = disk
      BY <3>2 DEF ForeignKept
    <3> QED BY <3>1, <3>2 DEF Next, Main, MainRejects, ProcessStep, PrintResult, PrintSummary,
                  ExitOnError, Segv, Kill, Die, Idle, vars, sortVars, processVars
  <2>2. ASSUME scanned = None, scanned' # None, "remove" \notin faulted
        PROVE  DOMAIN disk' \cap Own = {}
    <3>1. PrintSummary
      BY <2>2 DEF Next, Main, MainRejects, ProcessStep, PrintResult, ExitOnError, Segv,
             Kill, Die, Idle, vars, mainVars
    <3>2. pc = "print" /\ disk' = disk
      BY <3>1 DEF PrintSummary
    <3>3. Removed
      BY <3>2 DEF TopNInv, Serving
    <3> QED BY <2>2, <3>2, <3>3 DEF Removed, Own
  <2> QED BY <2>1, <2>2
<1> QED
  BY <1>1, SpecTopNInv, PTL DEF Spec, OwnSpillsOnly, ForeignKept

-----------------------------------------------------------------------------

\* No fault of reading happens: the code takes those for the end of a file.
ReadsSucceed == Faults \cap {"read", "reread", "recount"} = {}

\* A process that goes on has met no fault but those of malloc and remove.
FaultsEndRun ==
  /\ pc # "off" => scanned = None
  /\ pc \notin {"failed", "off"} \/ scanned # None => faulted \subseteq {"malloc", "remove"}

LEMMA SortStepFaults ==
  ASSUME ReadsSucceed, SortStep, faulted \subseteq {"malloc", "remove"}
  PROVE  pc' = "failed" \/ faulted' \subseteq {"malloc", "remove"}
<1>1. CASE Open \/ LoadUrl \/ Retry \/ FreeUrl \/ ClearUrls
  BY <1>1 DEF Open, LoadUrl, Retry, FreeUrl, ClearUrls, Faulty
<1>2. ASSUME NEW ret, NEW fs, BeginSpill(ret, fs), fs \subseteq {"malloc"}
      PROVE  pc' = "failed" \/ faulted' \subseteq {"malloc", "remove"}
  BY <1>2 DEF BeginSpill, Faulty
<1>3. CASE PoolFull
  <2>1. PICK r : BeginSpill("retry", IF r.pool = pool THEN {} ELSE {"malloc"})
    BY <1>3 DEF PoolFull
  <2> QED BY <1>2, <2>1
<1>4. CASE EndOfInput
  <2>1. PICK fs \in {{}, {"read"}} :
          IF urls # <<>> THEN BeginSpill("reopen", fs) ELSE Faulty(fs)
    BY <1>4 DEF EndOfInput
  <2>2. fs \subseteq Faults
    BY <2>1 DEF BeginSpill, Faulty
  <2>3. fs = {}
    BY <2>2 DEF ReadsSucceed
  <2> QED BY <1>2, <2>1, <2>3 DEF Faulty
<1>5. CASE AggregateUrl \/ FlushLast
  BY <1>5 DEF AggregateUrl, FlushLast, WriteResultTuple, Faulty
<1> QED
  BY <1>1, <1>3, <1>4, <1>5 DEF SortStep

LEMMA MergeStepFaults ==
  ASSUME ReadsSucceed, MergeStep, faulted \subseteq {"malloc", "remove"}
  PROVE  faulted' \subseteq {"malloc", "remove"}
<1>1. ASSUME NEW i, NEW heap, NEW then, ReadTuple(i, heap, then)
      PROVE  faulted' \subseteq {"malloc", "remove"}
  <2>1. \/ \E a \in Malloc(pool), cut \in {{}, {"recount"}} : Faulty(Signs(a) \cup cut)
        \/ Faulty({}) \/ Faulty({"reread"})
    BY <1>1 DEF ReadTuple
  <2> QED BY <2>1 DEF Faulty, Signs, ReadsSucceed
<1>2. CASE OpenSpill \/ NextResultTuple
  BY <1>1, <1>2 DEF OpenSpill, NextResultTuple
<1>3. CASE OpenDone \/ Fold \/ EndMerge \/ RemoveSpill \/ CloseDone \/ Drain
  BY <1>3 DEF OpenDone, Fold, EndMerge, RemoveSpill, CloseDone, Drain, Faulty
<1> QED
  BY <1>2, <1>3 DEF MergeStep

LEMMA NextFaultsEndRun ==
  ASSUME ReadsSucceed PROVE FaultsEndRun /\ [Next]_vars => FaultsEndRun'
<1> SUFFICES ASSUME FaultsEndRun, [Next]_vars PROVE FaultsEndRun'
  OBVIOUS
<1>1. ASSUME NEW a \in Args, (\E in \in Inputs : Main(a, in)) \/ MainRejects(a)
      PROVE  FaultsEndRun'
  BY <1>1 DEF Main, MainRejects, sortVars, processVars, FaultsEndRun
<1>2. CASE SortStep /\ UNCHANGED mainVars
  <2>1. pc \notin {"failed", "off"}
    BY <1>2 DEF SortStep, Open, LoadUrl, PoolFull, EndOfInput, AggregateUrl, FlushLast,
                FreeUrl, ClearUrls, Retry
  <2>2. pc' = "failed" \/ faulted' \subseteq {"malloc", "remove"}
    BY <1>2, <2>1, SortStepFaults DEF FaultsEndRun
  <2> QED BY <1>2, <2>1, <2>2 DEF FaultsEndRun, mainVars
<1>3. CASE MergeStep /\ UNCHANGED mainVars
  <2>1. pc \notin {"failed", "off"}
    BY <1>3 DEF MergeStep, OpenSpill, OpenDone, NextResultTuple, Fold, EndMerge,
                RemoveSpill, CloseDone, Drain
  <2>2. faulted' \subseteq {"malloc", "remove"}
    BY <1>3, <2>1, MergeStepFaults DEF FaultsEndRun
  <2> QED BY <1>3, <2>1, <2>2 DEF FaultsEndRun, mainVars
<1>4. CASE PrintResult \/ PrintSummary \/ ExitOnError \/ Segv \/ Kill
  BY <1>4 DEF PrintResult, PrintSummary, ExitOnError, Segv, Kill, Die, mainVars, FaultsEndRun
<1>5. CASE Idle \/ UNCHANGED vars
  BY <1>5 DEF Idle, vars, sortVars, processVars, mainVars, FaultsEndRun
<1> QED
  BY <1>1, <1>2, <1>3, <1>4, <1>5 DEF Next, ProcessStep

(***************************************************************************)
(* Unless reading fails, a run that met an error which may have cost it    *)
(* rows does not reach its last line: such an error reaches Run            *)
(* (topn-freq-urls.cpp:123).                                               *)
(***************************************************************************)
THEOREM LossesEndRuns == ReadsSucceed => (Spec => []LossesReported)
<1> SUFFICES ASSUME ReadsSucceed PROVE Spec => []LossesReported
  OBVIOUS
<1>1. TopNInit => FaultsEndRun
  BY DEF TopNInit, StartStage, FaultsEndRun
<1>2. FaultsEndRun /\ [Next]_vars => FaultsEndRun'
  BY NextFaultsEndRun
<1>3. FaultsEndRun => LossesReported
  BY DEF FaultsEndRun, LossesReported
<1> QED
  BY <1>1, <1>2, <1>3, PTL DEF Spec

-----------------------------------------------------------------------------

\* The URLs of an input that are better than u.
Above(in, u) == {v \in Promise!Seen(in) : Promise!Better(in, v, u)}

\* TopNSpec's own copy of the operator.
LEMMA SameCardinality ==
  ASSUME NEW S PROVE Promise!Cardinality(S) = Cardinality(S)
BY DEF Cardinality, Promise!Cardinality

LEMMA OccurrencesFinite ==
  ASSUME NEW in \in Seq(Url), NEW u
  PROVE  Promise!Occurrences(in, u) \in Nat /\ Promise!Occurrences(in, u) <= Len(in)
<1> DEFINE S == {k \in DOMAIN in : in[k] = u}
<1>1. S \subseteq 1 .. Len(in) /\ Len(in) \in Nat
  OBVIOUS
<1> HIDE DEF S
<1>2. Cardinality(S) \in Nat /\ Cardinality(S) <= Len(in)
  BY <1>1, PlacesFinite
<1> QED
  BY <1>2, SameCardinality DEF S, Promise!Occurrences

LEMMA SeenFinite ==
  ASSUME NEW in \in Seq(Url)
  PROVE  IsFiniteSet(Promise!Seen(in)) /\ Cardinality(Promise!Seen(in)) \in Nat
<1> DEFINE lines == {in[k] : k \in 1 .. Len(in)}
           f == [k \in 1 .. Len(in) |-> in[k]]
<1>1. f \in Surjection(1 .. Len(in), lines)
  BY DEF Surjection
<1>2. IsFiniteSet(1 .. Len(in))
  BY FS_Interval
<1>3. IsFiniteSet(lines)
  <2> HIDE DEF f, lines
  <2> QED BY <1>1, <1>2, FS_Surjection
<1>4. ASSUME NEW u \in Promise!Seen(in) PROVE u \in lines
  <2>1. Promise!Occurrences(in, u) # 0
    BY DEF Promise!Seen
  <2>2. {k \in DOMAIN in : in[k] = u} # {}
    BY <2>1, SameCardinality, FS_EmptySet DEF Promise!Occurrences
  <2> QED BY <2>2
<1> HIDE DEF f, lines
<1> QED
  BY <1>3, <1>4, FS_Subset, FS_CardinalityType

\* The order of an answer is total on the URLs.
LEMMA BetterTotal ==
  ASSUME NEW in \in Seq(Url)
  PROVE  \A u, v, w \in Url :
           /\ ~Promise!Better(in, u, u)
           /\ u # v => Promise!Better(in, u, v) \/ Promise!Better(in, v, u)
           /\ Promise!Better(in, u, v) /\ Promise!Better(in, v, w) => Promise!Better(in, u, w)
<1> TAKE u, v, w \in Url
<1>1. /\ u \in Nat /\ v \in Nat /\ w \in Nat
      /\ Promise!Occurrences(in, u) \in Nat
      /\ Promise!Occurrences(in, v) \in Nat
      /\ Promise!Occurrences(in, w) \in Nat
  BY OccurrencesFinite, ProcessAssumption
<1> QED
  BY <1>1 DEF Promise!Better

\* No two URLs have the same number of better ones.
LEMMA RankUnique ==
  ASSUME NEW in \in Seq(Url), NEW u \in Promise!Seen(in), NEW v \in Promise!Seen(in),
         Cardinality(Above(in, u)) = Cardinality(Above(in, v))
  PROVE  u = v
<1>1. ASSUME NEW a \in Promise!Seen(in), NEW b \in Promise!Seen(in),
             Promise!Better(in, a, b),
             Cardinality(Above(in, a)) = Cardinality(Above(in, b))
      PROVE  FALSE
  <2>1. a \in Url /\ b \in Url /\ Promise!Seen(in) \subseteq Url
    BY DEF Promise!Seen
  <2>2. Above(in, a) \subseteq Above(in, b) /\ a \in Above(in, b) /\ a \notin Above(in, a)
    BY <1>1, <2>1, BetterTotal DEF Above
  <2>3. IsFiniteSet(Above(in, b))
    BY SeenFinite, FS_Subset DEF Above
  <2>4. Above(in, b) = Above(in, a)
    BY <1>1, <2>2, <2>3, FS_Subset
  <2> QED BY <2>2, <2>4
<1>2. u \in Url /\ v \in Url
  BY DEF Promise!Seen
<1> QED
  BY <1>1, <1>2, BetterTotal

(***************************************************************************)
(* URLs of which each is better than those after it and than all that are  *)
(* not among them are the answer.                                          *)
(***************************************************************************)
LEMMA AnswerOfRanks ==
  ASSUME NEW in \in Seq(Url), NEW n \in Nat, NEW m \in Nat,
         NEW g \in [1 .. m -> Promise!Seen(in)],
         m = IF n < Cardinality(Promise!Seen(in)) THEN n ELSE Cardinality(Promise!Seen(in)),
         \A j, k \in 1 .. m : j < k => Promise!Better(in, g[j], g[k]),
         \A v \in Promise!Seen(in), k \in 1 .. m :
           (\E j \in 1 .. m : v = g[j]) \/ Promise!Better(in, g[k], v)
  PROVE  Promise!Answer(in, n)
           = [k \in 1 .. m |-> [url |-> g[k], cnt |-> Promise!Occurrences(in, g[k])]]
<1>1. Promise!Seen(in) \subseteq Url
  BY DEF Promise!Seen
<1>2. ASSUME NEW k \in 1 .. m PROVE Promise!Ranked(in, k) = g[k]
  <2> DEFINE before == {g[j] : j \in 1 .. k - 1}
             f == [j \in 1 .. k - 1 |-> g[j]]
  <2>1. \A j \in 1 .. m : g[j] \in Promise!Seen(in) /\ g[j] \in Url
    BY <1>1
  <2>2. Above(in, g[k]) = before
    <3>1. ASSUME NEW v \in Above(in, g[k]) PROVE v \in before
      <4>1. v \in Promise!Seen(in) /\ v \in Url /\ Promise!Better(in, v, g[k])
        BY <1>1 DEF Above
      <4>2. ~Promise!Better(in, g[k], v)
        BY <2>1, <4>1, BetterTotal
      <4>3. PICK j \in 1 .. m : v = g[j]
        BY <4>1, <4>2
      <4>4. ~(k < j) /\ j # k
        BY <2>1, <4>1, <4>2, <4>3, BetterTotal
      <4>5. j \in 1 .. k - 1
        BY <4>4
      <4> QED BY <4>3, <4>5
    <3>2. ASSUME NEW j \in 1 .. k - 1 PROVE g[j] \in Above(in, g[k])
      BY <2>1 DEF Above
    <3> QED BY <3>1, <3>2
  <2>3. Cardinality(before) = k - 1
    <3>1. f \in Surjection(1 .. k - 1, before)
      BY DEF Surjection
    <3>2. \A i, j \in 1 .. k - 1 : g[i] = g[j] => i = j
      <4> SUFFICES ASSUME NEW i \in 1 .. k - 1, NEW j \in 1 .. k - 1, g[i] = g[j], i < j
                   PROVE  FALSE
        OBVIOUS
      <4>1. Promise!Better(in, g[i], g[j]) /\ g[i] \in Url
        BY <2>1
      <4> QED BY <4>1, BetterTotal
    <3>3. f \in Injection(1 .. k - 1, before)
      BY <3>2 DEF Injection, IsInjective
    <3>4. IsFiniteSet(1 .. k - 1) /\ Cardinality(1 .. k - 1) = k - 1
      BY FS_Interval
    <3> HIDE DEF f, before
    <3> QED BY <3>1, <3>3, <3>4, FS_Surjection
  <2> DEFINE w == Promise!Ranked(in, k)
  <2>4. w \in Promise!Seen(in) /\ Cardinality(Above(in, w)) = k - 1
    <3>1. \E u \in Promise!Seen(in) : Promise!Cardinality(Above(in, u)) = k - 1
      BY <2>1, <2>2, <2>3, SameCardinality
    <3>2. /\ Promise!Ranked(in, k) \in Promise!Seen(in)
          /\ Promise!Cardinality(Above(in, Promise!Ranked(in, k))) = k - 1
      BY <3>1 DEF Promise!Ranked, Above
    <3> QED BY <3>2, SameCardinality
  <2> HIDE DEF w, before, f
  <2>5. w = g[k]
    BY <2>1, <2>2, <2>3, <2>4, RankUnique
  <2> QED BY <2>5 DEF w
<1> QED
  BY <1>2, SameCardinality DEF Promise!Answer

-----------------------------------------------------------------------------

\* What the spill files say of a URL is what the input has.
FilesCountInput ==
  \A u \in Url : /\ Spilled(u) = Promise!Occurrences(input, u)
                 /\ RowsOf(u) = {} <=> Spilled(u) = 0

\* The strings of topN_tuples and of the results.
Kept == {mem[t.ptr] : t \in topN \cup Range(results)}

\* They are the num_results_ best URLs of the input, with their counts.
BestOfInput ==
  LET seen == Promise!Seen(input) IN
  /\ Kept \subseteq seen
  /\ Cardinality(Kept) = IF num_results < Cardinality(seen) THEN num_results
                         ELSE Cardinality(seen)
  /\ \A t \in topN \cup Range(results) :
       t.cnt = Promise!Occurrences(input, mem[t.ptr])
  /\ \A u \in seen \ Kept, k \in Kept : Promise!Better(input, k, u)

\* The end of the merge: topN_tuples has the best of all files.
MergeDone ==
  /\ MergeInv /\ KeepInv /\ AllRead /\ FilesCountInput
  /\ pc = "close" /\ idx = 0
  /\ input \in Seq(Url) /\ num_results \in Nat

LEMMA EndOfMergeBest == MergeDone => BestOfInput
<1> SUFFICES ASSUME MergeDone PROVE BestOfInput
  OBVIOUS
<1>1. KeepsBest(topN, SpilledUrls, num_results) /\ input \in Seq(Url) /\ num_results \in Nat
  BY DEF MergeDone, KeepInv
<1>2. results = <<>>
  BY DEF MergeDone, MergeInv, Places
<1>3. topN \cup Range(results) = topN /\ Kept = {mem[t.ptr] : t \in topN}
  BY <1>2 DEF Range, Kept
<1>4. \A u \in Url : /\ Spilled(u) = Promise!Occurrences(input, u)
                     /\ Spilled(u) \in Nat
                     /\ RowsOf(u) # {} <=> Promise!Occurrences(input, u) > 0
  BY <1>1, OccurrencesFinite DEF MergeDone, FilesCountInput
<1>5. SpilledUrls = Promise!Seen(input) /\ Promise!Seen(input) \subseteq Url
  BY <1>4 DEF SpilledUrls, Promise!Seen
<1>6. /\ Kept \subseteq SpilledUrls
      /\ Cardinality(Kept) = IF Cardinality(SpilledUrls) < num_results
                               THEN Cardinality(SpilledUrls) ELSE num_results
      /\ \A t \in topN : t.cnt = Spilled(mem[t.ptr])
      /\ \A u \in SpilledUrls \ Kept, k \in Kept :
           Spilled(u) < Spilled(k) \/ (Spilled(u) = Spilled(k) /\ u > k)
  BY <1>1, <1>3 DEF KeepsBest
<1>7. Cardinality(Promise!Seen(input)) \in Nat
  BY <1>1, SeenFinite
<1>8. \A u \in Promise!Seen(input) \ Kept, k \in Kept : Promise!Better(input, k, u)
  <2> TAKE u \in Promise!Seen(input) \ Kept, k \in Kept
  <2>1. u \in Url /\ k \in Url /\ u \in Nat /\ k \in Nat
    BY <1>5, <1>6, ProcessAssumption
  <2> QED BY <1>4, <1>5, <1>6, <2>1 DEF Promise!Better
<1>9. \A t \in topN : t.cnt = Promise!Occurrences(input, mem[t.ptr])
  BY <1>3, <1>4, <1>5, <1>6
<1>10. Cardinality(Kept) = IF num_results < Cardinality(Promise!Seen(input)) THEN num_results
                           ELSE Cardinality(Promise!Seen(input))
  BY <1>1, <1>5, <1>6, <1>7
<1> QED
  BY <1>3, <1>5, <1>6, <1>8, <1>9, <1>10 DEF BestOfInput

\* The results once the last is filled in: what is printed of them is the answer.
LEMMA ResultsAnswer ==
  ASSUME MergeInv, BestOfInput, topN = {}, input \in Seq(Url), num_results \in Nat
  PROVE  Promise!Answer(input, num_results) = [k \in 1 .. Len(results) |-> RowOf(results[k])]
<1> DEFINE m == Len(results)
           g == [k \in 1 .. m |-> mem[results[k].ptr]]
           seen == Promise!Seen(input)
<1>1. /\ results \in Seq(Tuples) /\ m \in Nat /\ DOMAIN results = 1 .. m
      /\ mem \in [Addr -> Url]
  BY DEF MergeInv, MergeTypeOK
<1>2. Range(results) = {results[k] : k \in 1 .. m}
  BY <1>1 DEF Range
<1>3. Kept = {g[k] : k \in 1 .. m}
  BY <1>2 DEF Kept
<1>4. /\ Kept \subseteq seen /\ seen \subseteq Url
      /\ Cardinality(Kept) = IF num_results < Cardinality(seen) THEN num_results
                             ELSE Cardinality(seen)
      /\ \A u \in seen \ Kept, k \in Kept : Promise!Better(input, k, u)
  BY DEF BestOfInput, Promise!Seen
<1>5. \A k \in 1 .. m : results[k].cnt = Promise!Occurrences(input, g[k])
  BY <1>2 DEF BestOfInput
<1>6. g \in [1 .. m -> seen]
  BY <1>3, <1>4
<1>7. \A j, k \in 1 .. m : j < k => Promise!Better(input, g[j], g[k])
  BY <1>1, <1>5 DEF MergeInv, ResultsBestFirst, Worse, Promise!Better
<1>8. \A v \in seen, k \in 1 .. m : (\E j \in 1 .. m : v = g[j]) \/ Promise!Better(input, g[k], v)
  BY <1>3, <1>4
<1>9. Cardinality(Kept) = m
  <2>1. g \in Surjection(1 .. m, Kept)
    BY <1>3 DEF Surjection
  <2>2. \A i, j \in 1 .. m : g[i] = g[j] => i = j
    <3> SUFFICES ASSUME NEW i \in 1 .. m, NEW j \in 1 .. m, g[i] = g[j], i < j
                 PROVE  FALSE
      OBVIOUS
    <3>1. Promise!Better(input, g[i], g[j]) /\ g[i] \in Url
      BY <1>4, <1>6, <1>7
    <3> QED BY <3>1, BetterTotal
  <2>3. g \in Injection(1 .. m, Kept)
    BY <1>3, <2>2 DEF Injection, IsInjective
  <2> HIDE DEF g, m
  <2>4. IsFiniteSet(1 .. m) /\ Cardinality(1 .. m) = m
    BY <1>1, FS_Interval
  <2> QED BY <2>1, <2>3, <2>4, FS_Surjection
<1>10. \A k \in 1 .. m : RowOf(results[k]) = [url |-> g[k], cnt |-> Promise!Occurrences(input, g[k])]
  BY <1>5 DEF RowOf
<1> HIDE DEF g, m
<1>11. Promise!Answer(input, num_results)
         = [k \in 1 .. m |-> [url |-> g[k], cnt |-> Promise!Occurrences(input, g[k])]]
  BY <1>1, <1>4, <1>6, <1>7, <1>8, <1>9, AnswerOfRanks
<1> QED
  BY <1>10, <1>11 DEF m

-----------------------------------------------------------------------------

\* No row has a count of 0.
RowsPositive ==
  \A f \in 0 .. File : \A j \in DOMAIN disk[f] : disk[f][j].cnt \in Nat \ {0}

(***************************************************************************)
(* What the first stage has counted, scanned and written: the batch it     *)
(* returns after is the one at the end of the input.                       *)
(***************************************************************************)
LoadInv ==
  /\ CountInv
  /\ urls_scanned = in_pos - Unstored
  /\ pc = "reopen" \/ (pc \in {"aggregate", "free"} /\ resume = "reopen")
       => in_pos = Len(input)
  /\ RowsPositive

LEMMA BeginSpillPositive ==
  ASSUME SortInv, OrderInv, RowsPositive, pc = "read", NEW ret, NEW fs,
         BeginSpill(ret, fs), pc' # "failed"
  PROVE  RowsPositive'
<1>1. /\ output_files \in Nat /\ output_files' = output_files + 1
      /\ disk' = NewOutputFile(output_files)
  BY DEF BeginSpill, SortInv, SortTypeOK
<1>2. \A f \in 0 .. File : f \in DOMAIN disk
  BY DEF OrderInv
<1>3. /\ File' = output_files /\ disk'[output_files] = <<>>
      /\ \A f \in 0 .. File : disk'[f] = disk[f]
  BY <1>1, <1>2, NewFileCounts
<1>4. \A f \in 0 .. output_files : f = output_files \/ f \in 0 .. File
  BY <1>1 DEF File
<1> QED
  BY <1>3, <1>4 DEF RowsPositive

LEMMA WritePositive ==
  ASSUME SortInv, OrderInv, CountInv, RowsPositive, pc = "aggregate", ~IsEmpty(curr), NEW then,
         WriteResultTuple(curr, then), UNCHANGED output_files, pc' # "failed"
  PROVE  RowsPositive'
<1>1. disk' = [disk EXCEPT ![File] = Append(@, RowOf(curr))] /\ File' = File
  BY DEF WriteResultTuple, File
<1>2. curr.cnt \in Nat \ {0} /\ RowOf(curr).cnt = curr.cnt
  BY DEF CountInv, IsEmpty, RowOf
<1>3. \A f \in 0 .. File : f \in DOMAIN disk /\ disk[f] \in Seq(Row)
  BY DEF OrderInv, SortInv, SortTypeOK
<1>4. ASSUME NEW f \in 0 .. File, NEW j \in DOMAIN disk'[f]
      PROVE  disk'[f][j].cnt \in Nat \ {0}
  <2>1. CASE f # File
    BY <1>1, <1>3, <2>1 DEF RowsPositive
  <2>2. CASE f = File
    <3>1. disk'[f] = Append(disk[f], RowOf(curr)) /\ disk[f] \in Seq(Row)
      BY <1>1, <1>3, <2>2
    <3>2. (j \in DOMAIN disk[f] /\ disk'[f][j] = disk[f][j]) \/ disk'[f][j] = RowOf(curr)
      BY <1>4, <3>1
    <3> QED BY <1>2, <3>2 DEF RowsPositive
  <2> QED BY <2>1, <2>2
<1> QED
  BY <1>1, <1>4 DEF RowsPositive

LEMMA SortStepLoad ==
  ASSUME ReadsSucceed, SortInv, OrderInv, LoadInv, SortStep, pc' \notin {"failed", "segv"}
  PROVE  LoadInv'
<1>1. CountInv' /\ CountInv /\ RowsPositive /\ in_pos \in Nat /\ urls_scanned = in_pos - Unstored
  BY CountNextInv DEF LoadInv, SortNext, SortInv, SortTypeOK
<1>2. CASE Open
  <2>1. /\ pc = "open" /\ pc' = "read" /\ UNCHANGED <<disk, output_files, in_pos, urls_scanned>>
    BY <1>2 DEF Open, localVars
  <2> QED BY <1>1, <2>1 DEF LoadInv, RowsPositive, File, Unstored
<1>3. CASE LoadUrl
  <2>1. /\ pc = "read" /\ pc' = "read" /\ UNCHANGED <<disk, output_files>>
        /\ in_pos' = in_pos + 1 /\ urls_scanned' = urls_scanned + 1
    BY <1>3 DEF LoadUrl, Push
  <2> QED BY <1>1, <2>1 DEF LoadInv, RowsPositive, File, Unstored
<1>4. CASE PoolFull
  <2>1. PICK r : BeginSpill("retry", IF r.pool = pool THEN {} ELSE {"malloc"})
    BY <1>4 DEF PoolFull
  <2>2. /\ pc = "read" /\ in_pos' = in_pos + 1 /\ urls_scanned' = urls_scanned
    BY <1>4 DEF PoolFull
  <2>3. pc' = "aggregate" /\ resume' = "retry"
    BY <2>1 DEF BeginSpill
  <2>4. RowsPositive'
    BY <1>1, <2>1, <2>2, BeginSpillPositive
  <2> QED BY <1>1, <2>2, <2>3, <2>4 DEF LoadInv, Unstored
<1>5. CASE EndOfInput
  <2>1. PICK fs \in {{}, {"read"}} :
          /\ fs = {} => in_pos = Len(input)
          /\ IF urls # <<>> THEN BeginSpill("reopen", fs)
             ELSE /\ pc' = "reopen" /\ idx' = 0 /\ Faulty(fs)
                  /\ UNCHANGED <<disk, output_files, curr, urls, resume>>
    BY <1>5 DEF EndOfInput
  <2>2. /\ pc = "read" /\ UNCHANGED <<input, in_pos, urls_scanned>>
    BY <1>5 DEF EndOfInput
  <2>3. fs \subseteq Faults
    BY <2>1 DEF BeginSpill, Faulty
  <2>4. in_pos = Len(input)
    BY <2>1, <2>3 DEF ReadsSucceed
  <2>5. CASE urls # <<>>
    <3>1. pc' = "aggregate" /\ resume' = "reopen"
      BY <2>1, <2>5 DEF BeginSpill
    <3>2. RowsPositive'
      BY <1>1, <2>1, <2>2, <2>5, BeginSpillPositive
    <3> QED BY <1>1, <2>2, <2>4, <3>1, <3>2 DEF LoadInv, Unstored
  <2>6. CASE urls = <<>>
    <3>1. pc' = "reopen" /\ UNCHANGED <<disk, output_files>>
      BY <2>1, <2>6
    <3> QED BY <1>1, <2>2, <2>4, <3>1 DEF LoadInv, Unstored, RowsPositive, File
  <2> QED BY <2>5, <2>6
<1>6. CASE AggregateUrl \/ FlushLast
  <2>1. /\ pc = "aggregate" /\ pc' \in {"aggregate", "free"}
        /\ UNCHANGED <<input, output_files, in_pos, urls_scanned, resume>>
        /\ UNCHANGED disk \/ (~IsEmpty(curr) /\ \E then : WriteResultTuple(curr, then))
    BY <1>6 DEF AggregateUrl, FlushLast, NothingLeft, WriteResultTuple, localVars
  <2>2. RowsPositive'
    BY <1>1, <2>1, WritePositive DEF RowsPositive, File
  <2> QED BY <1>1, <2>1, <2>2 DEF LoadInv, Unstored
<1>7. CASE FreeUrl \/ ClearUrls
  <2>1. /\ pc = "free" /\ UNCHANGED <<input, disk, output_files, in_pos, urls_scanned, resume>>
        /\ pc' = "free" \/ pc' = resume
    BY <1>7 DEF FreeUrl, ClearUrls, localVars
  <2>2. resume \in {"retry", "reopen"}
    BY DEF SortInv, SortTypeOK
  <2> QED BY <1>1, <2>1, <2>2 DEF LoadInv, Unstored, RowsPositive, File
<1>8. CASE Retry
  <2>1. /\ pc = "retry" /\ pc' = "read" /\ UNCHANGED <<disk, output_files, in_pos>>
        /\ urls_scanned' = urls_scanned + 1
    BY <1>8 DEF Retry, Push
  <2>2. Unstored = 1 /\ Unstored' = 0
    BY <2>1 DEF Unstored, SortInv, SpillReturns
  <2> QED BY <1>1, <2>1, <2>2 DEF LoadInv, RowsPositive, File
<1> QED
  BY <1>2, <1>3, <1>4, <1>5, <1>6, <1>7, <1>8 DEF SortStep

(***************************************************************************)
(* The hand-over: the files say of each URL what the input does, in sums   *)
(* that fit.                                                               *)
(***************************************************************************)
LoadDone ==
  /\ SortDone /\ LoadInv

LEMMA HandOverCounts ==
  LoadDone => KeepInv /\ FilesCountInput /\ urls_scanned = Len(input)
<1> SUFFICES ASSUME LoadDone PROVE KeepInv /\ FilesCountInput /\ urls_scanned = Len(input)
  OBVIOUS
<1>1. /\ SortInv /\ SortTypeOK /\ CountInv /\ RowsPositive /\ pc = "reopen" /\ urls = <<>>
      /\ input \in Seq(Url) /\ Len(input) \in Nat
      /\ in_pos = Len(input) /\ urls_scanned = in_pos - Unstored /\ Unstored = 0
  BY DEF LoadDone, SortDone, LoadInv, SortInv, SortTypeOK, Unstored
<1>2. MergeInit
  BY HandOver DEF LoadDone
<1>3. ASSUME NEW u \in Url
      PROVE  /\ Spilled(u) = Promise!Occurrences(input, u) /\ Spilled(u) <= IntMax
             /\ IsFiniteSet(Bytes(CountsOf(u)))
  <2>1. /\ Spilled(u) \in Nat /\ Spilled(u) + InCurr(u) + Pending(u) = Occurrences(u)
        /\ InCurr(u) = 0 /\ Spilled(u) + InCurr(u) + Pending(u) <= IntMax
        /\ IsFiniteSet(Bytes(CountsOf(u)))
    BY <1>1, CountInvForm DEF Running
  <2>2. Pending(u) = 0
    BY <1>1, NonePending
  <2>3. Occurrences(u) = Cardinality({k \in 1 .. Len(input) : input[k] = u})
    BY <1>1 DEF Occurrences
  <2>4. Promise!Occurrences(input, u) = Cardinality({k \in 1 .. Len(input) : input[k] = u})
    <3>1. DOMAIN input = 1 .. Len(input)
      BY <1>1
    <3>2. Promise!Occurrences(input, u) = Cardinality({k \in DOMAIN input : input[k] = u})
      BY SameCardinality DEF Promise!Occurrences
    <3> QED BY <3>1, <3>2
  <2> QED BY <2>1, <2>2, <2>3, <2>4
<1>4. CountsFit
  BY <1>1, <1>3 DEF CountsFit, RowsPositive, File, Files
<1>5. KeepInv
  BY <1>2, <1>4, InitKeepInv
<1>6. FilesCountInput
  BY <1>3, <1>4, SpilledPositive DEF FilesCountInput
<1> QED
  BY <1>1, <1>5, <1>6

LEMMA HandOverCountsNext ==
  LoadDone' => KeepInv' /\ FilesCountInput' /\ (urls_scanned = Len(input))'
BY HandOverCounts, PTL

-----------------------------------------------------------------------------

(***************************************************************************)
(* What the second stage has of the answer: the files say what the input   *)
(* does until they are merged, then the heap and the results have the      *)
(* best.                                                                   *)
(***************************************************************************)
AnswerInv ==
  /\ KeepInv
  /\ Merging => FilesCountInput
  /\ pc \in {"close", "drain", "print"} => BestOfInput
  /\ urls_scanned = Len(input)
  /\ pc = "drain" => idx = 0
  /\ pc = "print" => topN = {}

(***************************************************************************)
(* The invariant of the promise: each stage has what it has of the input,  *)
(* and the rows printed are the first of the results.                      *)
(***************************************************************************)
PromiseInv ==
  /\ input \in Inputs
  /\ Sorting /\ pc # "failed" => LoadInv
  /\ Serving => AnswerInv
  /\ pc \notin {"print", "off"} => printed = <<>>
  /\ pc = "print" => /\ idx <= Len(results)
                     /\ printed = [k \in 1 .. idx |-> RowOf(results[k])]

LEMMA BestKept ==
  ASSUME BestOfInput, UNCHANGED <<input, mem, num_results>>,
         topN' \cup Range(results)' = topN \cup Range(results)
  PROVE  BestOfInput'
<1>1. Kept' = Kept
  BY DEF Kept
<1> QED
  BY <1>1 DEF BestOfInput

LEMMA EndOfMergeBestNext == MergeDone' => BestOfInput'
BY EndOfMergeBest, PTL

LEMMA MergeStepAnswer ==
  ASSUME MergeInv, MergeInv', AnswerInv, AllRead', MergeStep, UNCHANGED localVars,
         input \in Seq(Url), num_results \in Nat
  PROVE  /\ pc' # "segv" => AnswerInv'
         /\ pc' = "print" => pc \in {"close", "drain"} /\ idx' = 0
<1>1. KeepInv' /\ urls_scanned = Len(input) /\ urls_scanned' = urls_scanned
  BY KeepNextInv DEF AnswerInv, MergeNext, localVars
<1>2. CASE OpenSpill \/ OpenDone \/ NextResultTuple \/ Fold
  <2>1. /\ pc \in {"reopen", "merge", "fold"} /\ pc' \in {"reopen", "merge", "fold", "segv"}
        /\ UNCHANGED <<input, disk, output_files>>
    BY <1>2 DEF OpenSpill, OpenDone, NextResultTuple, Fold, ReadTuple
  <2>2. FilesCountInput'
    BY <2>1, FilesKept DEF FilesCountInput, AnswerInv, Merging
  <2> QED BY <1>1, <2>1, <2>2 DEF AnswerInv
<1>3. CASE EndMerge
  <2>1. /\ pc = "merge" /\ pc' = "close" /\ idx' = 0
        /\ UNCHANGED <<input, disk, output_files, num_results>>
    BY <1>3 DEF EndMerge
  <2>2. FilesCountInput'
    BY <2>1, FilesKept DEF FilesCountInput, AnswerInv, Merging
  <2>3. BestOfInput'
    BY <1>1, <2>1, <2>2, EndOfMergeBestNext DEF MergeDone
  <2> QED BY <1>1, <2>1, <2>3 DEF AnswerInv, Merging
<1>4. CASE RemoveSpill \/ CloseDone
  <2>1. /\ pc = "close" /\ pc' \in {"close", "drain", "print"}
        /\ UNCHANGED <<input, mem, num_results, topN, results>>
        /\ pc' = "print" => topN = {}
        /\ pc' # "close" => idx' = 0
    BY <1>4 DEF RemoveSpill, CloseDone, mergeLocals
  <2>2. BestOfInput'
    BY <2>1, BestKept DEF AnswerInv
  <2> QED BY <1>1, <2>1, <2>2 DEF AnswerInv, Merging
<1>5. CASE Drain
  <2>1. PICK top \in topN : /\ results' = <<top>> \o results /\ topN' = topN \ {top}
                            /\ pc' = IF topN' = {} THEN "print" ELSE "drain"
    BY <1>5 DEF Drain, Fill
  <2>2. pc = "drain" /\ UNCHANGED <<input, mem, num_results, idx>>
    BY <1>5 DEF Drain
  <2>3. results \in Seq(Tuples) /\ top \in Tuples
    BY DEF MergeInv, MergeTypeOK
  <2>4. Range(results') = Range(results) \cup {top}
    <3>1. /\ DOMAIN results = 1 .. Len(results) /\ Len(results) \in Nat
          /\ DOMAIN results' = 1 .. Len(results) + 1
          /\ results'[1] = top
          /\ \A k \in DOMAIN results : results'[k + 1] = results[k]
          /\ \A k \in DOMAIN results' : k # 1 => results'[k] = results[k - 1]
      BY <2>1, <2>3
    <3>2. ASSUME NEW t \in Range(results') PROVE t \in Range(results) \cup {top}
      <4>1. PICK k \in DOMAIN results' : t = results'[k]
        BY DEF Range
      <4>2. k = 1 \/ k - 1 \in DOMAIN results
        BY <3>1
      <4> QED BY <3>1, <4>1, <4>2 DEF Range
    <3>3. ASSUME NEW t \in Range(results) PROVE t \in Range(results')
      <4>1. PICK k \in DOMAIN results : t = results[k]
        BY DEF Range
      <4>2. k + 1 \in DOMAIN results' /\ results'[k + 1] = t
        BY <3>1, <4>1
      <4> QED BY <4>2 DEF Range
    <3>4. top \in Range(results')
      BY <3>1 DEF Range
    <3> QED BY <3>2, <3>3, <3>4
  <2>5. Range(results)' = Range(results')
    BY DEF Range
  <2>6. BestOfInput'
    BY <2>1, <2>2, <2>4, <2>5, BestKept DEF AnswerInv
  <2> QED BY <1>1, <2>1, <2>2, <2>6 DEF AnswerInv, Merging
<1> QED
  BY <1>2, <1>3, <1>4, <1>5 DEF MergeStep

-----------------------------------------------------------------------------

\* A process that starts has read, counted, scanned and written nothing.
LoadStart ==
  /\ pc = "open" /\ in_pos = 0 /\ urls_scanned = 0 /\ urls = <<>> /\ output_files = 0
  /\ Len(input) <= IntMax

LEMMA StartLoad == LoadStart => LoadInv
<1> SUFFICES ASSUME LoadStart PROVE LoadInv
  OBVIOUS
<1>1. CountInv
  BY InitCountInv DEF LoadStart
<1>2. RowsPositive
  BY DEF LoadStart, RowsPositive, File
<1>3. Unstored = 0
  BY DEF LoadStart, Unstored
<1>4. urls_scanned = in_pos - Unstored
  BY <1>3 DEF LoadStart
<1> QED
  BY <1>1, <1>2, <1>4 DEF LoadStart, LoadInv

LEMMA StartLoadNext == LoadStart' => LoadInv'
BY StartLoad, PTL

\* An int can count the lines of an input.
InputsFit == \A in \in Inputs : Len(in) <= IntMax

LEMMA SortStepPromise ==
  ASSUME ReadsSucceed, TopNInv, PromiseInv, SortStep, UNCHANGED <<mergeLocals, mainVars>>
  PROVE  PromiseInv'
<1>1. /\ Sorting
      /\ pc' \in {"read", "aggregate", "free", "retry", "reopen", "failed", "segv"}
           \/ resume = pc'
      /\ pc' = "reopen" => idx' = 0 /\ urls' = <<>>
  BY SortStepControl
<1>2. SortInv /\ OrderInv /\ StartMerger /\ num_results \in Nat
  BY <1>1 DEF TopNInv
<1>3. pc' \in {"read", "aggregate", "free", "retry", "reopen", "failed", "segv"}
  BY <1>1, <1>2 DEF SortInv, SortTypeOK
<1>4. pc # "failed" /\ input' = input
  BY DEF SortStep, Open, LoadUrl, PoolFull, EndOfInput, AggregateUrl, FlushLast, FreeUrl,
         ClearUrls, Retry
<1>5. SortInv' /\ OrderInv'
  BY <1>2, SortNextInv, OrderNextInv DEF SortNext
<1>6. pc' \notin {"failed", "segv"} => LoadInv'
  BY <1>1, <1>2, <1>4, SortStepLoad DEF PromiseInv
<1>7. printed' = printed /\ printed = <<>>
  BY <1>1 DEF mainVars, Sorting, PromiseInv
<1>8. CASE pc' = "reopen"
  <2>1. StartMerger' /\ num_results' = num_results
    BY <1>2 DEF mergeLocals, StartMerger
  <2>2. LoadDone'
    BY <1>1, <1>2, <1>5, <1>6, <1>8, <2>1 DEF LoadDone, SortDone
  <2>3. AnswerInv'
    BY <1>8, <2>2, HandOverCountsNext DEF AnswerInv
  <2> QED BY <1>4, <1>7, <1>8, <2>3 DEF PromiseInv, Sorting
<1>9. CASE pc' # "reopen"
  BY <1>3, <1>4, <1>6, <1>7, <1>9 DEF PromiseInv, Sorting, Serving
<1> QED
  BY <1>8, <1>9

LEMMA MergeStepPromise ==
  ASSUME TopNInv, TopNInv', PromiseInv, faulted' \subseteq {"malloc", "remove"},
         MergeStep, UNCHANGED <<localVars, mainVars>>
  PROVE  PromiseInv'
<1>1. Serving /\ pc # "print" /\ input' = input
  BY DEF MergeStep, OpenSpill, OpenDone, NextResultTuple, Fold, EndMerge, RemoveSpill,
         CloseDone, Drain, Serving
<1>2. MergeInv /\ AnswerInv /\ num_results \in Nat /\ input \in Seq(Url)
  BY <1>1, ProcessAssumption DEF TopNInv, PromiseInv
<1>3. Serving' \/ pc' = "segv"
  BY <1>2, MergeStepControl
<1>4. MergeInv' /\ AllRead'
  BY <1>2, MergeNextInv DEF MergeNext, AllRead
<1>5. /\ pc' # "segv" => AnswerInv'
      /\ pc' = "print" => idx' = 0
  BY <1>2, <1>4, MergeStepAnswer
<1>6. printed' = printed /\ printed = <<>>
  BY <1>1 DEF mainVars, Serving, PromiseInv
<1>7. pc' = "print" => /\ idx' <= Len(results')
                       /\ printed' = [k \in 1 .. idx' |-> RowOf(results[k])']
  <2> SUFFICES ASSUME pc' = "print"
               PROVE  /\ idx' <= Len(results')
                      /\ printed' = [k \in 1 .. idx' |-> RowOf(results[k])']
    OBVIOUS
  <2>1. idx' = 0 /\ Len(results') \in Nat
    BY <1>4, <1>5 DEF MergeInv, MergeTypeOK
  <2>2. printed' = <<>> /\ 1 .. 0 = {}
    BY <1>6
  <2> QED BY <2>1, <2>2
<1> QED
  BY <1>1, <1>3, <1>5, <1>6, <1>7 DEF PromiseInv, Sorting, Serving

\* One more row.
LEMMA RowsPrinted ==
  ASSUME NEW n \in Nat, NEW g, NEW q, q = [k \in 1 .. n |-> g[k]]
  PROVE  /\ Len(q) = n
         /\ Append(q, g[n + 1]) = [k \in 1 .. n + 1 |-> g[k]]
<1> DEFINE T == {g[k] : k \in 1 .. n + 1}
<1>1. q \in Seq(T) /\ Len(q) = n /\ g[n + 1] \in T
  OBVIOUS
<1> HIDE DEF T
<1>2. Append(q, g[n + 1]) = [k \in 1 .. n + 1 |-> IF k = n + 1 THEN g[n + 1] ELSE q[k]]
  BY <1>1
<1>3. \A k \in 1 .. n + 1 : k = n + 1 \/ k \in 1 .. n
  OBVIOUS
<1> QED
  BY <1>1, <1>2, <1>3

\* A printed row is the next of the answer.
LEMMA PrintResultPromise ==
  ASSUME TopNInv, PromiseInv, PrintResult
  PROVE  PromiseInv' /\ Promise!PrintRow
<1>1. /\ pc = "print" /\ pc' = pc /\ idx < Len(results) /\ idx' = idx + 1
      /\ printed' = Append(printed, RowOf(results[idx + 1]))
      /\ UNCHANGED <<input, mem, disk, output_files, faulted, urls_scanned, num_results,
                     topN, results, scanned>>
  BY DEF PrintResult, localVars, mergeLocals
<1>2. /\ MergeInv /\ AnswerInv /\ BestOfInput /\ topN = {} /\ input \in Seq(Url)
      /\ num_results \in Nat /\ input \in Inputs
      /\ printed = [k \in 1 .. idx |-> RowOf(results[k])]
  BY <1>1, ProcessAssumption DEF TopNInv, PromiseInv, AnswerInv, Serving
<1>3. idx \in Nat /\ Len(results) \in Nat
  BY <1>2 DEF MergeInv, MergeTypeOK
<1>4. PICK g : g = [k \in 1 .. Len(results) |-> RowOf(results[k])]
  OBVIOUS
<1>5. /\ \A k \in 1 .. Len(results) : g[k] = RowOf(results[k])
      /\ idx + 1 \in 1 .. Len(results) /\ \A k \in 1 .. idx + 1 : k \in 1 .. Len(results)
  BY <1>1, <1>3, <1>4
<1>6. printed = [k \in 1 .. idx |-> g[k]]
  BY <1>1, <1>2, <1>3, <1>5
<1>7. Len(printed) = idx /\ Append(printed, g[idx + 1]) = [k \in 1 .. idx + 1 |-> g[k]]
  BY <1>3, <1>6, RowsPrinted
<1>8. printed' = [k \in 1 .. idx' |-> RowOf(results[k])']
  <2>1. printed' = [k \in 1 .. idx + 1 |-> g[k]]
    <3>1. g[idx + 1] = RowOf(results[idx + 1])
      BY <1>5
    <3> QED BY <1>1, <1>7, <3>1
  <2>2. \A k \in 1 .. idx + 1 : g[k] = RowOf(results[k])'
    <3>1. \A k : RowOf(results[k])' = RowOf(results[k])
      BY <1>1 DEF RowOf
    <3> QED BY <1>5, <3>1
  <2> QED BY <1>1, <2>1, <2>2
<1>9. AnswerInv'
  <2>1. BestOfInput'
    BY <1>1, <1>2, BestKept
  <2>2. KeepInv'
    BY <1>1 DEF KeepInv, Merging
  <2> QED BY <1>1, <1>2, <2>1, <2>2 DEF AnswerInv, Merging
<1>10. PromiseInv'
  BY <1>1, <1>2, <1>3, <1>8, <1>9 DEF PromiseInv, Sorting
<1>11. Promise!PrintRow
  <2>1. Promise!Answer(input, num_results) = g
    BY <1>2, <1>4, ResultsAnswer
  <2>2. Len(g) = Len(results)
    BY <1>3, <1>4
  <2>3. printed' = Append(printed, g[Len(printed) + 1])
    <3>1. g[idx + 1] = RowOf(results[idx + 1])
      BY <1>5
    <3> QED BY <1>1, <1>7, <3>1
  <2> QED BY <1>1, <1>7, <2>1, <2>2, <2>3 DEF Promise!PrintRow
<1> QED
  BY <1>10, <1>11

\* The last line is printed after the whole answer.
LEMMA PrintSummaryPromise ==
  ASSUME TopNInv, PromiseInv, PrintSummary
  PROVE  PromiseInv' /\ Promise!Finish
<1>1. /\ pc = "print" /\ pc' = "off" /\ idx = Len(results) /\ scanned' = urls_scanned
      /\ UNCHANGED <<input, num_results, printed>>
  BY DEF PrintSummary, mergeLocals
<1>2. /\ MergeInv /\ AnswerInv /\ BestOfInput /\ topN = {} /\ input \in Seq(Url)
      /\ num_results \in Nat /\ input \in Inputs
      /\ printed = [k \in 1 .. idx |-> RowOf(results[k])]
  BY <1>1, ProcessAssumption DEF TopNInv, PromiseInv, AnswerInv, Serving
<1>3. printed = Promise!Answer(input, num_results)
  BY <1>1, <1>2, ResultsAnswer
<1>4. scanned' = Len(input) /\ Len(input) \in Nat
  BY <1>1, <1>2 DEF AnswerInv
<1>5. scanned' # None
  BY <1>4 DEF None
<1>6. PromiseInv'
  BY <1>1, <1>2 DEF PromiseInv, Sorting, Serving
<1> QED
  BY <1>1, <1>3, <1>4, <1>5, <1>6 DEF Promise!Finish

\* A run that ends before that stops.
LEMMA StopPromise ==
  ASSUME FaultsEndRun, PromiseInv, ExitOnError \/ Segv \/ Kill
  PROVE  PromiseInv' /\ Promise!Stop
<1>1. /\ pc # "off" /\ pc' = "off" /\ UNCHANGED <<input, num_results, printed, scanned>>
  BY DEF ExitOnError, Segv, Kill, Die, mergeLocals, mainVars
<1>2. scanned = None
  BY <1>1 DEF FaultsEndRun
<1> QED
  BY <1>1, <1>2 DEF PromiseInv, Sorting, Serving, Promise!Stop

\* A process starts with nothing counted and nothing printed.
LEMMA MainPromise ==
  ASSUME InputsFit, NEW a \in Args, NEW in \in Inputs, Main(a, in)
  PROVE  PromiseInv' /\ Promise!Begin
<1>1. /\ pc = "off" /\ pc' = "open" /\ input' = in /\ num_results' = a.num_results
      /\ in_pos' = 0 /\ urls_scanned' = 0 /\ urls' = <<>> /\ output_files' = 0
      /\ printed' = <<>> /\ scanned' = None /\ ~Illegal(a)
  BY DEF Main
<1>2. LoadInv'
  BY <1>1, StartLoadNext DEF LoadStart, InputsFit
<1>3. num_results' \in Nat \ {0}
  <2>1. a.num_results \in Int
    BY MainAssumption
  <2> QED BY <1>1, <2>1 DEF Illegal
<1>4. Promise!Begin
  BY <1>1, <1>3 DEF Promise!Begin, None, Promise!None
<1> QED
  BY <1>1, <1>2, <1>4 DEF PromiseInv, Sorting, Serving

LEMMA StandstillPromise ==
  ASSUME TopNInv, PromiseInv, UNCHANGED <<sortVars, mergeLocals, printed>>
  PROVE  PromiseInv'
<1>1. /\ UNCHANGED sortVars /\ UNCHANGED mergeVars
      /\ UNCHANGED <<pc, input, mem, disk, output_files, idx, in_pos, urls_scanned, resume,
                     num_results, topN, results, printed>>
  BY DEF sortVars, processVars, localVars, mergeVars, mergeLocals
<1>2. ASSUME Sorting, pc # "failed" PROVE LoadInv'
  <2>1. SortInv /\ OrderInv /\ LoadInv
    BY <1>2 DEF TopNInv, PromiseInv
  <2>2. CountInv'
    BY <1>1, <2>1, CountNextInv DEF LoadInv
  <2> QED BY <1>1, <2>1, <2>2 DEF LoadInv, Unstored, RowsPositive, File
<1>3. ASSUME Serving PROVE AnswerInv'
  <2>1. MergeInv /\ AnswerInv
    BY <1>3 DEF TopNInv, PromiseInv
  <2>2. KeepInv'
    BY <1>1, <2>1, KeepNextInv DEF AnswerInv
  <2>3. Merging => FilesCountInput'
    BY <1>1, <2>1, FilesKept DEF AnswerInv, FilesCountInput
  <2>4. pc \in {"close", "drain", "print"} => BestOfInput'
    BY <1>1, <2>1, BestKept DEF AnswerInv
  <2> QED BY <1>1, <2>1, <2>2, <2>3, <2>4 DEF AnswerInv, Merging
<1>4. pc = "print" => /\ idx' <= Len(results')
                      /\ printed' = [k \in 1 .. idx' |-> RowOf(results[k])']
  <2>1. \A k : RowOf(results[k])' = RowOf(results[k])
    BY <1>1 DEF RowOf
  <2> QED BY <1>1, <2>1 DEF PromiseInv
<1> QED
  BY <1>1, <1>2, <1>3, <1>4 DEF PromiseInv, Sorting, Serving

(***************************************************************************)
(* Each step keeps the invariant, and is one of the promise or none.       *)
(***************************************************************************)
LEMMA NextPromise ==
  ASSUME ReadsSucceed, InputsFit, TopNInv, TopNInv', FaultsEndRun, FaultsEndRun',
         PromiseInv, [Next]_vars
  PROVE  PromiseInv' /\ [Promise!Next]_(Promise!specVars)
<1>1. ASSUME NEW a \in Args, NEW in \in Inputs, Main(a, in)
      PROVE  PromiseInv' /\ Promise!Next
  BY <1>1, MainPromise DEF Promise!Next
<1>2. ASSUME NEW a \in Args, MainRejects(a) PROVE PromiseInv' /\ UNCHANGED Promise!specVars
  BY <1>2, StandstillPromise
     DEF MainRejects, sortVars, processVars, mergeLocals, Promise!specVars
<1>3. CASE Idle \/ UNCHANGED vars
  BY <1>3, StandstillPromise
     DEF Idle, vars, mainVars, sortVars, processVars, mergeLocals, Promise!specVars
<1>4. CASE SortStep /\ UNCHANGED <<mergeLocals, mainVars>>
  <2>1. PromiseInv'
    BY <1>4, SortStepPromise
  <2>2. /\ pc # "off" /\ UNCHANGED <<input, num_results, printed, scanned>>
    BY <1>4 DEF SortStep, Open, LoadUrl, PoolFull, EndOfInput, AggregateUrl, FlushLast,
                FreeUrl, ClearUrls, Retry, mergeLocals, mainVars
  <2>3. pc' # "off"
    <3>1. SortInv
      BY <1>4, SortStepControl DEF TopNInv
    <3> QED BY <1>4, <3>1, SortStepControl DEF SortInv, SortTypeOK
  <2> QED BY <2>1, <2>2, <2>3 DEF Promise!specVars
<1>5. CASE MergeStep /\ UNCHANGED <<localVars, mainVars>>
  <2>1. Serving /\ pc # "off" /\ input' = input
    BY <1>5 DEF MergeStep, OpenSpill, OpenDone, NextResultTuple, Fold, EndMerge,
                RemoveSpill, CloseDone, Drain, Serving
  <2>2. MergeInv
    BY <2>1 DEF TopNInv
  <2>3. pc' \notin {"off", "failed"} /\ num_results' = num_results
    BY <1>5, <2>2, MergeStepControl DEF Serving
  <2>4. faulted' \subseteq {"malloc", "remove"}
    BY <2>3 DEF FaultsEndRun
  <2>5. PromiseInv'
    BY <1>5, <2>4, MergeStepPromise
  <2>6. UNCHANGED <<printed, scanned>>
    BY <1>5 DEF mainVars
  <2> QED BY <2>1, <2>3, <2>5, <2>6 DEF Promise!specVars
<1>6. CASE PrintResult \/ PrintSummary \/ ExitOnError \/ Segv \/ Kill
  BY <1>6, PrintResultPromise, PrintSummaryPromise, StopPromise DEF Promise!Next
<1> QED
  BY <1>1, <1>2, <1>3, <1>4, <1>5, <1>6 DEF Next, ProcessStep

(***************************************************************************)
(* The program implements its abstract specification: unless a read fails  *)
(* or a URL has more lines than an int can count, every run prints the     *)
(* answer for its input, or the beginning of it, and the number of lines   *)
(* after it, over any number of runs, kills and faults.                    *)
(***************************************************************************)
THEOREM RunsKeepPromise == ReadsSucceed /\ InputsFit => (Spec => KeepsPromise)
<1> SUFFICES ASSUME ReadsSucceed, InputsFit PROVE Spec => KeepsPromise
  OBVIOUS
<1>1. TopNInit => PromiseInv /\ FaultsEndRun /\ Promise!Init
  BY DEF TopNInit, StartStage, PromiseInv, FaultsEndRun, Sorting, Serving,
         Promise!Init, None, Promise!None
<1>2. /\ TopNInv /\ TopNInv' /\ FaultsEndRun /\ FaultsEndRun' /\ PromiseInv /\ [Next]_vars
        => PromiseInv' /\ [Promise!Next]_(Promise!specVars)
  BY NextPromise
<1>3. FaultsEndRun /\ [Next]_vars => FaultsEndRun'
  BY NextFaultsEndRun
<1> QED
  BY <1>1, <1>2, <1>3, SpecTopNInv, PTL DEF Spec, KeepsPromise, Promise!Spec

=============================================================================
