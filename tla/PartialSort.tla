---------------------------- MODULE PartialSort ----------------------------
(***************************************************************************)
(* The first stage, src/src/topn-freq-urls.cpp:24-72: PartialSort loads    *)
(* URLs into the pool, and when the pool is full AggregateAndSpillToDisk   *)
(* sorts them, counts the equal ones and writes the rows to a new file.    *)
(* A step is one iteration of a loop or the code between two loops; a step *)
(* writes at most one row, so a crash between steps sees every state the   *)
(* disk can be in.                                                         *)
(*                                                                         *)
(*   pc            code about to run                                       *)
(*   "open"        file_mgr_.Open()                                        *)
(*   "read"        while (file_mgr_.ReadLine(...))                         *)
(*   "aggregate"   for (StringVal& url : urls) of the counting loop        *)
(*   "free"        for (StringVal& url : urls) of the freeing loop         *)
(*   "retry"       the second TryAllocate                                  *)
(*   "reopen"      PartialSort has returned true: the merge stage          *)
(*   "failed"      PartialSort has returned false                          *)
(*   "segv"        memcpy to nullptr                                       *)
(***************************************************************************)
EXTENDS Process

VARIABLES
  in_pos,        \* lines consumed by ReadLine
  urls_scanned,  \* urls_scanned_
  urls,          \* the vector of the loaded strings
  resume         \* where AggregateAndSpillToDisk returns to

localVars == <<in_pos, urls_scanned, urls, resume>>
sortVars  == <<processVars, localVars>>

\* The locals of a process that has just started.
StartStage ==
  /\ mem = [a \in Addr |-> CHOOSE u \in Url : TRUE]
  /\ output_files = 0
  /\ curr = Empty
  /\ idx = 1
  /\ faulted = {}
  /\ in_pos = 0
  /\ urls_scanned = 0
  /\ urls = <<>>
  /\ resume = "reopen"

SortInit ==
  /\ pc = "open"
  /\ input \in Inputs
  /\ \E max \in Limits : pool = NewPool(max)
  /\ disk = EmptyMap
  /\ StartStage

-----------------------------------------------------------------------------

\* FileManager::Open.
Open ==
  /\ pc = "open"
  /\ \/ pc' = "read" /\ Faulty({})
     \/ pc' = "failed" /\ Faulty({"open"})
  /\ UNCHANGED <<input, pool, mem, disk, output_files, curr, idx, localVars>>

(***************************************************************************)
(* std::sort: any arrangement of the addresses in ascending order of the   *)
(* strings there.  It is not stable: equal strings come in any order.      *)
(***************************************************************************)
Arrangements(q) ==
  {[k \in DOMAIN q |-> q[f[k]]] : f \in Bijection(DOMAIN q, DOMAIN q)}
\* (Mutant NotSorted: no sort.)
NotSorted(q) == Arrangements(q)
Sorted(q) ==
  {s \in Arrangements(q) :
     \A j, k \in DOMAIN s : j < k => mem[s[j]] <= mem[s[k]]}

(***************************************************************************)
(* FileManager::NewOutputFile truncates the file of that number if there   *)
(* is one.  (Mutant OpenToAppend: ofstream::app.)                          *)
(***************************************************************************)
OpenToAppend(file)  == IF file \in DOMAIN disk THEN disk ELSE Put(disk, file, <<>>)
NewOutputFile(file) == Put(disk, file, <<>>)

(***************************************************************************)
(* AggregateAndSpillToDisk up to its first loop, to return to the control  *)
(* point ret.  fs are the faults that brought the caller here.             *)
(***************************************************************************)
BeginSpill(ret, fs) ==
  /\ output_files' = output_files + 1
  /\ resume' = ret
  /\ idx' = 1
  /\ \/ /\ Faulty(fs)
        /\ disk' = NewOutputFile(output_files)
        /\ urls' \in Sorted(urls)
        /\ curr' = Empty
        /\ pc' = "aggregate"
     \/ /\ Faulty(fs \cup {"create"})
        /\ pc' = "failed"
        /\ UNCHANGED <<disk, urls, curr>>

\* str.ptr = a: memcpy, push_back and ++urls_scanned_ for URL u.
Push(u, a) ==
  /\ mem' = [mem EXCEPT ![a] = u]
  /\ urls' = Append(urls, a)
  /\ urls_scanned' = urls_scanned + 1

\* ReadLine returned the next line and TryAllocate a chunk for it.
LoadUrl ==
  /\ pc = "read" /\ in_pos < Len(input)
  /\ in_pos' = in_pos + 1
  /\ LET u == input[in_pos'] IN
     \E r \in TryAllocate(pool, UrlLen[u]) :
       r.ptr # NULL /\ pool' = r.pool /\ Push(u, r.ptr)
  /\ UNCHANGED <<pc, input, disk, output_files, curr, idx, faulted, resume>>

(***************************************************************************)
(* TryAllocate returned nullptr, be it the tracker's or malloc's: what is  *)
(* loaded is spilled to make room.  The line stays in url_buf_.            *)
(***************************************************************************)
PoolFull ==
  /\ pc = "read" /\ in_pos < Len(input)
  /\ in_pos' = in_pos + 1
  /\ \E r \in TryAllocate(pool, UrlLen[input[in_pos']]) :
       /\ r.ptr = NULL
       /\ pool' = r.pool
       /\ BeginSpill("retry", IF r.pool = pool THEN {} ELSE {"malloc"})
  /\ UNCHANGED <<input, mem, urls_scanned>>

(***************************************************************************)
(* ReadLine returned false, at the end of the file or on an error: they    *)
(* look the same to PartialSort, which spills what is left.                *)
(***************************************************************************)
EndOfInput ==
  /\ pc = "read"
  /\ \E fs \in {{}, {"read"}} :
       /\ fs = {} => in_pos = Len(input)
       /\ IF urls # <<>> THEN BeginSpill("reopen", fs)
          ELSE /\ pc' = "reopen" /\ idx' = 0 /\ Faulty(fs)
               /\ UNCHANGED <<disk, output_files, curr, urls, resume>>
  /\ UNCHANGED <<input, pool, mem, in_pos, urls_scanned>>

\* WriteResultTuple(t); a write that fails leaves a row without its count.
\* (Mutant WriteUnchecked: the result is not looked at.)
WriteUnchecked(t, then) ==
  /\ pc' = then
  /\ \/ disk' = [disk EXCEPT ![output_files - 1] = Append(@, RowOf(t))] /\ Faulty({})
     \/ disk' = disk /\ Faulty({"write"})
WriteResultTuple(t, then) ==
  LET file == output_files - 1
      With(row) == [disk EXCEPT ![file] = Append(@, row)] IN
  \/ disk' = With(RowOf(t)) /\ pc' = then /\ Faulty({})
  \/ /\ disk' \in {disk, With([RowOf(t) EXCEPT !.cnt = 0])}
     /\ pc' = "failed" /\ Faulty({"write"})

\* ResultTuple::Init.  (Mutant InitCountOnly: str is not set.)
InitCountOnly(a) == [ptr |-> NULL, cnt |-> 1]
Init(a) == [ptr |-> a, cnt |-> 1]

\* One iteration of the counting loop.
AggregateUrl ==
  /\ pc = "aggregate" /\ idx <= Len(urls)
  /\ idx' = idx + 1
  /\ LET url == urls[idx] IN
     \/ IsEmpty(curr) /\ curr' = Init(url) /\ UNCHANGED <<pc, disk, faulted>>
     \/ /\ ~IsEmpty(curr) /\ mem[curr.ptr] = mem[url]
        /\ curr' = [curr EXCEPT !.cnt = IntAdd(@, 1)]
        /\ UNCHANGED <<pc, disk, faulted>>
     \/ /\ ~IsEmpty(curr) /\ mem[curr.ptr] # mem[url]
        /\ WriteResultTuple(curr, "aggregate")
        /\ curr' = IF pc' = "failed" THEN curr ELSE Init(url)
  /\ UNCHANGED <<input, pool, mem, output_files, localVars>>

\* There is no row left to write.  (Mutant NothingEver: the last is not written.)
NothingEver == TRUE
NothingLeft == IsEmpty(curr)

\* The row after the loop.
FlushLast ==
  /\ pc = "aggregate" /\ idx > Len(urls)
  /\ idx' = 1
  /\ IF NothingLeft THEN pc' = "free" /\ UNCHANGED <<disk, faulted>>
     ELSE WriteResultTuple(curr, "free")
  /\ UNCHANGED <<input, pool, mem, output_files, curr, localVars>>

\* One iteration of the freeing loop.
FreeUrl ==
  /\ pc = "free" /\ idx <= Len(urls)
  /\ pool' = Free(pool, urls[idx])
  /\ idx' = idx + 1
  /\ UNCHANGED <<pc, input, mem, disk, output_files, curr, faulted, localVars>>

\* urls.clear(), and AggregateAndSpillToDisk returns.
\* (Mutant NotCleared: the strings stay in the vector.)
NotCleared == urls
Cleared == <<>>
ClearUrls ==
  /\ pc = "free" /\ idx > Len(urls)
  /\ urls' = Cleared
  /\ pc' = resume
  /\ idx' = 0
  /\ UNCHANGED <<input, pool, mem, disk, output_files, curr, faulted,
                 in_pos, urls_scanned, resume>>

\* The second TryAllocate for the line in url_buf_, and the memcpy after it.
Retry ==
  /\ pc = "retry"
  /\ LET u == input[in_pos] IN
     \E r \in TryAllocate(pool, UrlLen[u]) :
       /\ pool' = r.pool
       /\ Faulty(IF r.ptr = NULL /\ r.pool # pool THEN {"malloc"} ELSE {})
       /\ IF r.ptr # NULL THEN pc' = "read" /\ Push(u, r.ptr)
          ELSE pc' = "segv" /\ UNCHANGED <<mem, urls, urls_scanned>>
  /\ UNCHANGED <<input, disk, output_files, curr, idx, in_pos, resume>>

SortStep ==
  \/ Open \/ LoadUrl \/ PoolFull \/ EndOfInput
  \/ AggregateUrl \/ FlushLast \/ FreeUrl \/ ClearUrls \/ Retry

SortReturned == pc \in {"reopen", "failed", "segv"} /\ UNCHANGED sortVars

SortNext == SortStep \/ SortReturned

SortSpec == SortInit /\ [][SortNext]_sortVars /\ WF_sortVars(SortStep)

-----------------------------------------------------------------------------

\* The types of the variables.
SortTypeOK ==
  /\ pc \in {"open", "read", "aggregate", "free", "retry",
             "reopen", "failed", "segv"}
  /\ input \in Seq(Url)
  /\ pool.max_size \in Limits /\ pool.current_size \in Int
  /\ DOMAIN pool.chunk_sizes \subseteq Addr \cup {NULL} /\ pool.live \subseteq Addr
  /\ mem \in [Addr -> Url]
  /\ output_files \in Nat
  /\ \A f \in DOMAIN disk : f \in Nat /\ disk[f] \in Seq(Row)
  /\ curr \in [ptr : Addr \cup {NULL}, cnt : Int]
  /\ IsEmpty(curr) \/ curr.ptr \in Addr
  /\ idx \in Nat
  /\ faulted \subseteq Faults
  /\ in_pos \in 0 .. Len(input) /\ urls_scanned \in Nat
  /\ urls \in Seq(Addr)
  /\ resume \in {"retry", "reopen"}

\* The loaded strings whose chunks are not freed yet.
Loaded == {urls[k] : k \in (IF pc = "free" THEN idx ELSE 1) .. Len(urls)}

(***************************************************************************)
(* The DCHECK that topn-freq-urls.cpp:63 has in a comment: after a spill   *)
(* TryAllocate finds room for the line in hand, so memcpy never writes to  *)
(* nullptr unless malloc itself has failed.                                *)
(***************************************************************************)
NoNullStore == pc = "segv" => "malloc" \in faulted

(***************************************************************************)
(* The blocks the process holds are those of the URLs loaded and not yet   *)
(* freed, each of them once: no chunk leaks from one batch into the next,  *)
(* and no two strings share one.                                           *)
(***************************************************************************)
UrlsOwnPool ==
  /\ pool.live = Loaded
  /\ \A j, k \in DOMAIN urls : j # k => urls[j] # urls[k]

\* The strings loaded never take more bytes than the limit allows.
LoadedWithinLimit == Held(pool.chunk_sizes) <= pool.max_size

(***************************************************************************)
(* What the tracker does not count, the entries of the vector and of the   *)
(* map of chunks, grows no further than the limit either: the memory they  *)
(* take is at most a constant times the limit, through all batches.        *)
(***************************************************************************)
EntriesWithinLimit ==
  /\ Len(urls) <= pool.max_size
  /\ Cardinality(DOMAIN pool.chunk_sizes) <= pool.max_size

(***************************************************************************)
(* Every spill file is sorted by URL with one row per URL, as the merge    *)
(* needs it, whatever the batch; a file whose last write failed excepted.  *)
(***************************************************************************)
SpillsSorted ==
  pc # "failed" => \A f \in 0 .. output_files - 1 :
    \A j, k \in DOMAIN disk[f] : j < k => disk[f][j].url < disk[f][k].url

\* The occurrences of URL u in curr_tuple, and those still to be counted.
InCurr(u)  == IF pc = "aggregate" /\ ~IsEmpty(curr) /\ mem[curr.ptr] = u
                THEN curr.cnt ELSE 0
PendingAt(u) ==
  {k \in DOMAIN urls : mem[urls[k]] = u /\ pc # "free" /\ (pc = "aggregate" => k >= idx)}
Pending(u) == Cardinality(PendingAt(u))

\* The lines read that hold URL u, but for the one in url_buf_.
Unstored   == IF pc \in {"aggregate", "free", "retry"} /\ resume = "retry" THEN 1 ELSE 0
Occurrences(u) == Cardinality({k \in 1 .. in_pos - Unstored : input[k] = u})

(***************************************************************************)
(* No occurrence of a URL is lost or counted twice on the way from the     *)
(* input over the pool to the spill files, at every point of every batch.  *)
(***************************************************************************)
CountsConserved ==
  pc \notin {"failed", "segv"} =>
    \A u \in Url : Spilled(u) + InCurr(u) + Pending(u) = Occurrences(u)

=============================================================================
