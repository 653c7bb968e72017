# topN-freq-urls in TLA+

`topN_freq_urls file_path num_results mem_limit_in_mb` prints the most frequent
lines (URLs) of a file far larger than memory. It is one single-threaded C++
process, an external sort of two stages: the first loads URLs into a bounded
memory pool and, each time the pool is full, sorts them, counts equal ones and
writes the rows (URL, count) to a *spill file*; the second merges the spill
files, adds the counts of equal URLs up and keeps the best in a heap.

The modules here model the program's own code, `src/src/`, and the script that
makes its test inputs, `src/gen-data/` (line numbers are those of the commit
modelled). TLC checks them on small instances; TLAPS proves for all instances
who owns the memory, what is sorted, that the first stage loses no occurrence
of a URL, that the second keeps the best of all that it finds, that the two
stages fit together, that the whole program implements its abstract
specification (`RunsKeepPromise`), and that files of text hold what the stages
take for lines, rows and an order of URLs. `PROJECT.json` lists the runs, the properties, the
definitions with the lines they stand for, the hazards and the findings.

## 1. Inventory

| part | state | operations | interacts with | hard behaviour | correct when |
|---|---|---|---|---|---|
| `MemTracker`, `MemPool` (`mem-pool.h`, `.cpp`) | `current_size_`, `max_size_`, `chunk_sizes_`, the C heap | `TryConsume`, `Consume`, `Release`; `TryAllocate`, `Allocate`, `Free`, destructor | called by both stages and by `FileMerger` | malloc fails, stale or repeated `Free`, unsigned counter | counter = bytes held, nothing leaks, limit kept |
| `StringVal`, `ResultTuple`, `StringLess` (`data.h`) | pointer, length, `cnt`, `file_index` | three orders, `Init`, `SetEmpty`, `IsEmpty` | compared inside `sort` and two priority queues | orders read memory that may be freed; `int` overflow; `cnt == 0` means empty | a total order on bytes, stable while in a heap |
| `FileManager` (`file-manager.cpp:10-79`) | input stream, output stream, `output_files_` | `Open`, `ReadLine`, `NewOutputFile`, `WriteResultTuple`, `Close` | first stage; `ReadLine` also by `FileMerger` | errors against end of file, long lines, tabs | each URL once; rows read back as written |
| `FileMerger` (`file-manager.cpp:81-149`) | streams, `drained_`, `res_tuples_heap_` | `Open`, `NextResultTuple`, `Close` | reads what `FileManager` wrote, allocates in the pool | one tuple per file in the heap, ties, files that fail, `remove()` that fails | rows in order of URL, files removed |
| first stage (`topn-freq-urls.cpp:24-72`) | `urls`, `url_buf_`, `urls_scanned_` | `PartialSort`, `AggregateAndSpillToDisk` | pool, `FileManager` | spill in the middle of a line, batch left behind by a failure | spill files sorted, counts conserved, no store to null |
| second stage (`topn-freq-urls.cpp:74-119`) | `curr_tuple`, `next_tuple`, `topN_tuples`, results | `MergeSort`, `UpdateHeap` | `FileMerger`, pool | strings owned by two heaps, ties at the last place | the best URLs with their summed counts, in order |
| program (`main.cpp`, `Run`) | arguments; on disk the spill files | argument check, stages, printing | all of the above | killed runs, spill files of earlier runs | what is printed is the answer, or its beginning |
| `Allocator<T>` (`mem-pool.h:54-71`) | - | - | nothing: never instantiated | - | not modelled |
| test data generator (`gen_file_from_ans.py`) | `url_cnt`, `given_urls_remaining_len`, `remaining_size` | the loop of `gen_random_urls_file` | writes an input whose answer is known | random choices, byte counts that are off | file holds the answer, is large enough, loop ends |
| `test/`, build files, `libs/` | - | - | beside the program | - | not modelled |

There are no threads, messages or timeouts. What makes the program hard is
what fails in the middle (allocation, disk, kill), what order equal elements
come in (`sort` and `priority_queue` leave it open), who owns which string, and
the edges of formats and numbers. The hazards in `PROJECT.json` name each place.

## 2. Modules

```
  MemPool ----------- PoolClient            every sequence of calls on a pool
     |
  Process                                   pool, strings, disk, tuples
     |------------------|
  PartialSort        MergeSort              the two stages
     |------------------|
         TopNFreqUrls ----INSTANCE----> TopNSpec     the program; what it promises

  LineReader                                text formats and StrCompare, on characters
  GenData                                   the generator of test inputs
```

An `MC` module gives a module its small inputs; `*.cfg` gives the constants.
The proofs are in modules of their own, composed the same way:

```
  MemPoolLemmas ------ PoolClientProofs
     |-----------------------|
  PartialSortProofs     MergeSortProofs     GenDataProofs     LineReaderProofs
     |-----------------------|
         KeepsBestProofs
                |
           TopNProofs
```

* **MemPool** - a pool is a record (`max_size`, `current_size`, `chunk_sizes`,
  and the history `live`, the heap blocks the pool owns), its methods are
  operators on it, so a step of a caller makes several calls. `TryAllocate` is a
  *set* of outcomes, because malloc is free to choose an address or fail.
  `Held` is the sum of the chunk sizes, written as the cardinality of the set of
  bytes: that needs no recursion and can be proved about.
* **PoolClient** - the pool under every call at any time: one action per method.
* **Process** - the variables both stages use. A URL is its rank in the order of
  `StrCompare`; a `StringVal` is the address of its chunk, and every comparison
  reads `mem` there, so a string freed too early is a string that changes.
* **PartialSort** - a step is one iteration of one loop of `PartialSort` or
  `AggregateAndSpillToDisk`, or the code between two loops; `pc` says which.
  `Sorted` is any ascending arrangement (`std::sort` is not stable).
  A step writes at most one row, so a kill between steps finds every state of
  the disk up to rows cut in two (see 7).
* **MergeSort** - one step per iteration of the five loops. The heaps are sets of
  tuples: `NextResultTuple` takes any tuple no other has to precede under
  `StringLess`, `UpdateHeap` and `Drain` any worst tuple, under `operator<`.
  A count whose reading fails was never initialised (`file-manager.cpp:88`,
  `99`, `140`): `Uninitialised` stands for the ints it may be.
  `MergeInit` says what the stage needs to find; it is the contract with
  the first one, checked and proved as `StagesMeet`.
* **TopNFreqUrls** - `Main` starts a process with arguments and an input,
  `Kill` ends it anywhere, `Main` may follow again: memory is gone, `disk` stays.
* **TopNSpec** - the abstract program, in terms of the input alone.
* **LineReader** - `ReadLine`, `WriteResultTuple` and the reading of a row on
  sequences of character codes, and `StrCompare` on them. The stages above take
  lines and rows as units and URLs as ranks; this module says when they may.
* **GenData** - one step per iteration of the generator's loop. `random` is any
  outcome it can have; a random URL is its length, which is all that the byte
  counts look at.

Faults are chosen by the environment: the constant `Faults` says which a run may
meet, the history `faulted` which it has met. A fault is part of the step of the
call that fails.

## 3. Runs that pass

| run | asks | bounds |
|---|---|---|
| `pool_client` | `TypeOK`, `Accounting`, `BlocksTracked`, `TeardownReleasesAll`, `GrowthWithinLimit` under all sequences of calls | 3 addresses, sizes 1-3, limit 4, 2 failing mallocs: enough for a full pool, a reused address, a double free and a second failure overwriting the first |
| `partial_sort` | `NoNullStore`, `UrlsOwnPool`, `LoadedWithinLimit`, `EntriesWithinLimit`, `SpillsSorted`, `CountsConserved` | all inputs of at most 4 lines over 3 URLs of 1 or 2 bytes, limits 2 to 4, all faults: one to four batches, full to the byte and not |
| `merge_sort` | `StringsLive`, `NothingLeaks`, `OnePerFile`, `TopNKeepsBest`, `ResultsBestFirst` | all sets of up to three sorted files (3, 4 and 3 rows in one, two and three of them) over 3 URLs with counts 1 and 2, `num_results` 1 and 2, 4 addresses, files that fail while they are read: ties within and between files, tuples evicted, files ending in any order |
| `topn` | `KeepsPromise` (refinement of TopNSpec), `StagesMeet`, `LossesReported`, `OwnSpillsOnly` | two runs, all inputs of at most 3 lines over 2 URLs of 1 and 2 bytes, limit 3 (batches of two URLs as well as of one), kill at any step, faults of open, create, write, remove, malloc |
| `topn_ends` | `RunEnds` | inputs of at most 2 lines, all faults |
| `line_reader` | `ReadsUrls`, `RowsRoundTrip`, `UrlsRanked` | all files of at most 5 characters over newline, blank, `1`, `a`; buffer of 4, so lines below, at, and one above its capacity |
| `gen_data` | `AnswerKept`, `SizeReached`, `GenEnds` | all answers over 2 URLs of 1 and 3 bytes with counts up to 3, random URLs of 2 to 4 bytes, sizes 0 to 30: below, at and above the bytes of an answer (at most 18), with room for several random URLs |

What they show. *Counts are conserved* at every step from the input over the
pool to the spill files. *The merge is right for every tie.* *The strings are
owned*: each has one live block, whichever heap it is in (`StringsLive`), and
none outlives its tuple (`NothingLeaks`; where the count of a row is not read,
the tuple can look empty and its string leaks, but no more strings than there
are files, since each such file is drained). *A run cleans up after itself and
after nobody else*: `OwnSpillsOnly` - it never touches the files of a killed run
that it has not reached itself, and leaves none of its own, unless `remove()`
fails, which `Close` does not notice: the file stays until a run reaches
its number, and is truncated then. *The stages fit*: what the first one
leaves is what the second takes for granted (`StagesMeet`). *The memory the
tracker does not see is bounded too*: the vector of strings and the map of
chunks have no more entries than the limit has bytes (`EntriesWithinLimit`). *The answer is right
whatever happened before*: `KeepsPromise` holds with spill files of a killed
run under the names the next one uses, because `NewOutputFile` truncates and
the merge reads only as many files as this run wrote. It also holds when malloc
fails: `TryAllocate` then returns nullptr as if the pool was full, and the batch
is spilled; only a second failure in the retry, or one in the merge, ends the
process, by a store to nullptr (`pc = "segv"`), before it prints a wrong row.
`topn` leaves out the faults of *reading*, of the input (`read`) and of the spill
files (`reread`, `recount`): with them neither the promise nor
`LossesReported` holds, which is what run `silent_error` finds (section 4).
`LossesReported` is the part of `ErrorsReported`, the promise of
`topn-freq-urls.h:31-36`, that the code keeps: an input that does not open, a file
that is not created and a row that is not written end the run.
`TopNKeepsBest` is stated for runs that read all rows; `StringsLive` holds in all.

`merge_sort` starts from all sets of sorted files, so it does not depend on
what the first stage writes; `StagesMeet` is what connects them.
Addresses are symmetric (no order of addresses is used anywhere), which the runs
use except `topn_ends`, a liveness check, where symmetry is not sound. With too
few addresses malloc can only fail; the instances have enough for every
behaviour in which it does not.

**Fairness.** `RunEnds` assumes weak fairness of `ProcessStep`, all the steps of
the process together: one thread, never blocked, that the operating system
keeps scheduling. Which outcome a step takes, kills and restarts are not
assumed fair. `SortSpec` states the same of the first stage. `GenSpec` assumes
it of the generator: one script that runs to its end.

## 4. Runs that find a disagreement

| run | the code | what it disagrees with |
|---|---|---|
| `silent_error` | `ReadLine` returns false on errors as at the end of the file and `PartialSort` returns true; an unreadable spill file counts as drained, `MergeSort` returns true and the file is removed; one that cannot be removed stays without a word | `topn-freq-urls.h:33`, `:36` |
| `gen_short` | the loop can end without the URLs of the answer: a random URL uses up what remains, or `given_urls_remaining_len`, short by a newline per repeated line, lets it | `gen_file_from_ans.py:4`, `:41` |
| `count_overflow` | `int cnt` wraps, at `topn-freq-urls.cpp:36` as at `:98`: the most frequent URL has a negative count and the last rank | `README.md:3`: 100 GB inputs |
| `negative_limit` | a negative limit passes as a huge unsigned one | `main.cpp:20-21` |
| `long_line` | lines two or more characters too long become two URLs and lose a character | test `ReadLongLine`, `file-manager.h:27` |

The generator also dies where it does no harm to the file: `NothingToChoose` is
the `IndexError` of `random.choice` (line 48) when the answer is all written
and there is room left (`AnswerKept` says that the file is then complete), and
`Start` the `ZeroDivisionError` of a size of 0 (line 36).

`count_overflow` scales `INT_MAX` down to 1, `negative_limit` scales a megabyte
to 2 and `UINT64_MAX` to 15; the arithmetic is that of the code. Signed overflow
is undefined in C++: `IntAdd` wraps, as the add instruction of either build does.

## 5. Proofs

All with TLAPS, for every value of the constants under the named assumptions
`NullAssumption` (nullptr is no address), `ClientAssumption`,
`ProcessAssumption` (a URL has at least one byte, and no more than any limit:
1024 against 1 MiB in the code), `MainAssumption` (what `main` accepts is a
limit), `GenAssumption` (a URL has a byte, an answer finitely many of them and
positive counts) and `ReaderAssumption`, `AlphabetAssumption` (characters are
numbers, a buffer takes at least one, a count is positive), which TLC evaluates
on the runs.

* **MemPoolLemmas** - each method keeps `PoolOK` (types, the map's keys are the
  live blocks, the counter covers the bytes held) and, when no malloc failed,
  `PoolExact` (the counter *is* the bytes held). The sum is a cardinality, so
  these are facts about finite sets of pairs.
* **PoolClientProofs** - the five properties of `pool_client`. The properties
  alone are not inductive: whether a failed malloc overwrites the charge of an
  earlier one depends on nullptr being a key of the map only after the first
  (`Inv`).
* **PartialSortProofs** - `SortTypeCorrect`, `NeverStoresToNull`,
  `UrlsOwnTheirBlocks`, `LoadStaysWithinLimit`, `EntriesStayWithinLimit` for all
  inputs, limits and faults. `NoNullStore` is not inductive: that the retry
  succeeds needs the pool to be *empty* after a spill, so that the tracker
  counts 0 (`ExactWithoutFailure`), so that live blocks be exactly those of the
  vector (`UrlsOwnPool`), through a sort that permutes it (`SortedAddresses`), a
  loop that frees half of it, and a malloc that fails and leaves its charge
  behind (`PoolWithinLimit` survives, `ExactWithoutFailure` then says nothing).
  The invariant is `SortInv`; there is one lemma per action.
  `EntriesWithinLimit` adds that no chunk is empty.

  `SpillsAreSorted`. The loop invariant `OrderInv`: rows
  written come before the URL being counted, that before the strings still to
  be counted. The second half is needed because a count that wraps to 0 makes
  the tuple look empty, and the next one starts without a row being written.

  `CountsAreConserved`, for inputs that have no more lines
  than an `int` can count; run `count_overflow` shows what happens to others.
  The counts in the rows of a URL are a map from places to numbers, and their
  sum is `Held` of it, a cardinality, so that a row written adds its count by
  the same lemma as a chunk allocated its size (`HeldPut`). The strings still
  to be counted are a set of places that `sort` permutes (`PendingSorted`). The
  equation itself (`CountInv`) bounds the count of a tuple by the number of
  lines, which keeps the next increment from overflowing.
* **MergeSortProofs** - for any number of files and results: `StringsStayLive`,
  `OneTuplePerFile`, `ResultsAreBestFirst`, `MergeTypeCorrect`. None is
  inductive. That the heap has no two tuples of a file needs the popped
  tuple to be replaced from its own file; that no string is freed too early
  needs all places together (`Owned`); that the heap of results has no two
  tuples of a URL, so that `Worse` is total on it, needs the URLs to come in
  ascending order (`Ascending`), hence the rows not yet read to be above
  their file's tuple, hence sorted files. `MergeInv` joins them, one lemma per
  action, and `ReadTupleOK` says once what reading a tuple does.
  `OnlyZeroLeaks` proves `NothingLeaks` under the hypothesis that no count in
  use is 0: an uninitialised count or an overflow are the only ways to leak.
  How much leaks by the former is for the run: at most a string per file.
* **KeepsBestProofs** - `MergeKeepsBest`: for any number of sorted files, every
  tie and every fault but those of reading, `TopNKeepsBest`. Its hypothesis
  `CountsFit` is that the counts in the files are positive and that an `int`
  holds the sum of those of a URL: run `count_overflow` is about the others. The
  sum over the files is the same `Spilled` that the first stage's equation
  has. `KeepInv` says where the rows of a URL are: not taken from the
  merge heap, in the tuples in hand (`HandCounts`: what `curr_tuple` and
  `next_tuple` hold is the sum of the rows *taken*), or, before the current URL,
  all in the heap of results. When the next URL comes no tuple of the
  merge heap is below it, so all rows of the current one are taken (`AllTaken`,
  from `Ascending`), and `KeepsBestUpdate` says that adding a URL and dropping
  the worst keeps the best.
* **TopNProofs** - the program: `StagesAlwaysMeet`, and from it that the
  invariants of the stages hold over any number of runs, kills and leftover
  files, hence `AnswerStringsLive`. `OwnSpillsCleared`: that no other run's file
  is touched holds step by step (`ForeignKept`), that none of its own is left
  needs to know how far `Close` has come, with files that could not be removed
  on the way (`Removed`). `LossesEndRuns` has the hypothesis that no read
  fails, which run `silent_error` shows to be needed. The invariant `TopNInv` is that
  of the stage that runs; the step from one to the other is `HandOver`.

  `RunsKeepPromise` is the refinement: `Spec` implies `KeepsPromise`, under the
  hypotheses that no read fails (`ReadsSucceed`; `silent_error` again) and
  that an input has no more lines than an `int` can count (`InputsFit`;
  `count_overflow`). `PromiseInv` has, of the input, what each stage has of it.
  While it is loaded: the equation `CountInv`, that no row counts 0, that
  `urls_scanned` is the lines stored, and that the batch after which the stage
  returns is the one at the end of the file (`LoadInv`). At the hand-over nothing
  waits, so the sums in the files *are* the occurrences in the input
  (`HandOverCounts`), which gives `CountsFit` and so `KeepInv` its start. After the
  merge the heap and the results together hold the best URLs (`BestOfInput`),
  which filling the results leaves alone; and once all are filled in they are
  the answer (`ResultsAnswer`): `TopNSpec` defines the k-th row as the URL with
  k - 1 better ones, and in a total order no two URLs have the same number of
  better ones (`RankUnique`), so a sequence in which each is better than those
  after it and than all left out has the k-th row in the k-th place
  (`AnswerOfRanks`). Then `Main` is a `Begin`, `PrintResult` a `PrintRow`,
  `PrintSummary` a `Finish`, every way to die a `Stop`, and every other step none.
* **GenDataProofs** - `GenTypeCorrect`; `AnswerIsKept`, from the invariant that
  no count is 0 while the loop runs. `FileIsBigEnough`: a sum is the
  cardinality of a set of units (`Units`), as `Held` is, so that taking one
  occurrence of a URL takes its line's bytes from the sum. The
  invariant `SizeInv` has the two facts that matter when the script stops to
  count bytes: what is in the file and `remaining_size` make up the size asked
  for, and `given_urls_remaining_len`, which is short by a newline per
  *repeated* line, is never above the bytes of the lines still to be written.
* **LineReaderProofs** - `StrCompareIsOrder`: `StrCompare` is the order by the
  first place where two strings differ or one ends, for strings of any
  characters; from it `UrlsAreRanked`.

  `AllUrlsAreRead`, under the hypothesis `LinesFit` that no line is more than
  one character longer than what the buffer takes; run `long_line` shows that it
  is needed, and `line_reader` satisfies it. The invariant `ReadInv` says
  where the stream is: after its first `p` characters, at a place between two
  URLs, with as many URLs returned as lines start before it. That a call then
  returns the next line, and none is skipped, is `LineRead`; that there is
  none left when it returns false is `NoMoreRuns`.

  `RowsAreReadBack`, under the hypothesis `NoTabs`. The invariant `RowsInv`
  has the text of all the rows (`whole`) and the place where each ends (`cut`):
  the stream is what follows the last row read. `RowRead` reads one row from the front of such a text: its
  URL ends at the first tab, its count at the newline, and the number the
  digits of `operator<<` stand for is the count (`DecimalValue`).

  Induction here goes over the least counterexample (`LeastExists`, from which
  `CompleteInduction`): it speaks of sets, where the library's induction
  theorems take an operator as a parameter. `RecursionExists` shows by it that
  the recursive functions `Decimal` and `Value` satisfy their equations.

## 6. Only model-checked

Liveness, `RunEnds` and `GenEnds`: out of the prover's reach. Every other property
of a passing run is stated by a theorem, seven of them (`NothingLeaks`,
`TopNKeepsBest`, `CountsConserved`, `LossesReported`, `KeepsPromise`,
`ReadsUrls`, `RowsRoundTrip`) under the hypotheses named above.

## 7. Not modelled

* `Allocator<T>`: dead code. `test_mode` of `FileMerger`: set by tests only.
* The bytes that the vector and the map themselves take, and the two heaps: only
  their numbers of entries (`EntriesWithinLimit`, `OnePerFile`). For URLs of a
  few bytes the entries take several times the limit.
* `seekg(-1)` in `ReadLine` (`file-manager.cpp:21`) as a step that can fail: on
  characters (`LineReader`) it puts the first one back, and where it cannot, as
  on a pipe, the stages see a failed read (faults `read`, `reread`).
* A tab in a URL, which ends the URL of its row: `Alphabet` of `line_reader` has
  none, and `NoTabs` is the hypothesis of `RowsAreReadBack`. With one (9)
  `RowsRoundTrip` fails; the row format of `README.md:41` has no escape for it.
* Rows cut in two by a kill: `endl` flushes every row at once, and no run reads
  a file it has not truncated and written itself. A row cut by a *failed write*
  is modelled, as a row without a count.
* Number formats beyond unsigned decimals that fit an `int` when a row is read;
  `LineReader` writes only such counts.
* `main`'s check of `argc`, `atoi` on text that is no number, the timings, and
  the exit status, which is 0 whenever the arguments are accepted.
* Two processes on one input path at a time. Of the other one the model has
  what a reader sees of a file removed under it (fault `reread`), not its rows.
* The generator: errors of writing its file, which end the script by an
  exception; a random URL that happens to equal one of the answer, and lines
  of the answer file that are no URL with a count of at least 1.
* Tests, build files, and `libs/`: googletest and gperftools, third-party code
  that the tests and profiling use. They are nearly all of the lines in the
  repository; the program's own code is `src/` and `gen-data/`.

## 8. Plan

Done, in this order: MemPool and its client; the two stages; the program and its
abstract specification; the text formats; proofs of the pool and of the first
stage; `StrCompare`; the generator; proofs of the order of the spill files, of
the second stage, of the composition, of the counts of the first stage, of the
answer of the second, of the refinement, of the generator's sums, and of the text
formats and `StrCompare`.

What is left:

* the rank of a URL in one theorem: `UrlsAreRanked` and the stages are proved
  apart, and only this text says that the stages' numbers are the ranks;
* weaker hypotheses where a fault is met: what of `KeepsPromise` and
  `NothingLeaks` remains true of the URLs of a file that was read to its end;
* two processes at a time on one input path, once the code says what is meant to
  happen.
