------------------------------ MODULE Process ------------------------------
(***************************************************************************)
(* What the two stages of the external sort share: the memory pool and the *)
(* contents of its chunks, the spill files on disk, and the tuples of      *)
(* src/src/data.h.                                                         *)
(*                                                                         *)
(* A URL is its rank in the order of StringVal::StrCompare, so that < and  *)
(* = on URLs are operator< and StrEquals.  A StringVal is the address of   *)
(* the chunk with its bytes: comparing two of them reads mem.  A row is a  *)
(* line of a spill file or of the printed result: a URL with its count.    *)
(***************************************************************************)
EXTENDS MemPool, Sequences

CONSTANTS
  Url,     \* the URLs, ranked by StrCompare
  UrlLen,  \* the length in bytes of each
  IntMax,  \* INT_MAX
  Inputs,  \* the input files: sequences of lines
  Limits,  \* the memory limits
  Faults   \* what the environment may do to a process, of AllFaults

AllFaults ==
  { "open",     \* the input file cannot be opened
    "read",     \* reading the input fails, or putting back a character of it
    "create",   \* a spill file cannot be created
    "write",    \* writing a row fails
    "reread",   \* opening a spill file, or reading a URL of it, fails, as when
                \* another process on the same input has removed it
    "recount",  \* reading the count after a URL fails
    "remove",   \* a spill file cannot be removed
    "malloc" }  \* malloc returns nullptr

\* A limit is 1 MiB or more (main.cpp) and a URL has 1 to 1024 bytes.
ASSUME ProcessAssumption ==
  /\ Url \subseteq Nat /\ Url # {}
  /\ UrlLen \in [Url -> Nat \ {0}]
  /\ IntMax \in Nat \ {0}
  /\ Inputs \subseteq Seq(Url)
  /\ Limits \subseteq Nat
  /\ \A u \in Url, max \in Limits : UrlLen[u] <= max
  /\ Faults \subseteq AllFaults

VARIABLES
  pc,            \* the code about to run
  input,         \* the lines of the input file
  pool,          \* mem_pool_ with mem_tracker_
  mem,           \* the string in the chunk at each address
  disk,          \* the spill files by number, each a sequence of rows
  output_files,  \* FileManager::output_files_
  curr,          \* curr_tuple of the running stage
  idx,           \* index of the loop being executed
  faulted        \* history: the faults met so far

processVars ==
  <<pc, input, pool, mem, disk, output_files, curr, idx, faulted>>

Row == [url : Url, cnt : Int]

\* ResultTuple::SetEmpty and IsEmpty; the pointer is not set yet.
Empty == [ptr |-> NULL, cnt |-> 0]
IsEmpty(t) == t.cnt = 0

\* What is written for a tuple: the string it points to, and its count.
RowOf(t) == [url |-> mem[t.ptr], cnt |-> t.cnt]

(***************************************************************************)
(* The rows of URL u in the spill files, their counts, which are positive, *)
(* and the sum of these: what the files say of u.                          *)
(***************************************************************************)
RowsOf(u) ==
  {r \in UNION {{f} \X DOMAIN disk[f] : f \in 0 .. output_files - 1} :
     disk[r[1]][r[2]].url = u}
CountsOf(u) == [r \in RowsOf(u) |-> disk[r[1]][r[2]].cnt]
Spilled(u) == Held(CountsOf(u))

(***************************************************************************)
(* int addition.  Overflow is undefined in C++; both build types compile   *)
(* it to an add instruction, which wraps around.                           *)
(***************************************************************************)
IntAdd(x, y) ==
  LET sum == x + y IN
  IF sum > IntMax THEN sum - 2 * (IntMax + 1)
  ELSE IF sum < -(IntMax + 1) THEN sum + 2 * (IntMax + 1)
  ELSE sum

\* The step meets the faults of fs, all of which the environment may cause.
Faulty(fs) == fs \subseteq Faults /\ faulted' = faulted \cup fs

\* The fault malloc's result a is a sign of.
Signs(a) == IF a = NULL THEN {"malloc"} ELSE {}

=============================================================================
