---------------------------- MODULE TopNFreqUrls ----------------------------
(***************************************************************************)
(* The program: src/src/main.cpp checks the arguments, TopNFreqUrls::Run   *)
(* (topn-freq-urls.cpp:121-139) executes the two stages and prints the     *)
(* results.  A process can be killed at any step, and a run can follow it  *)
(* with the spill files it left; only those survive a process.             *)
(***************************************************************************)
EXTENDS PartialSort, MergeSort

CONSTANTS
  Args,     \* the arguments: [num_results, mem_mb], what atoi makes of them
  Mega,     \* 1024 * 1024
  UMax,     \* UINT64_MAX
  Restarts  \* bound: how often a run follows another

\* uint64_t mem_limit = atoi(...) * 1024L * 1024L.
MemLimit(mb) == IF mb >= 0 THEN mb * Mega ELSE UMax + 1 + mb * Mega
Illegal(a) == a.num_results <= 0 \/ MemLimit(a.mem_mb) <= 0

ASSUME MainAssumption ==
  /\ Args \subseteq [num_results : Int, mem_mb : Int]
  /\ {Mega, UMax, Restarts} \subseteq Nat
  /\ \A a \in Args : ~Illegal(a) => MemLimit(a.mem_mb) \in Limits

VARIABLES
  args,     \* the arguments of the last run
  printed,  \* the rows the last run has printed
  scanned,  \* the "Scanned URLs" it has printed, None before that
  runs      \* the runs so far

mainVars == <<args, printed, scanned, runs>>
vars     == <<sortVars, mergeLocals, mainVars>>

None == -1

TopNInit ==
  /\ pc = "off"
  /\ input \in Inputs
  /\ pool = NewPool(0)
  /\ disk = EmptyMap
  /\ num_results = 0
  /\ StartStage
  /\ StartMerger
  /\ args \in Args
  /\ printed = <<>>
  /\ scanned = None
  /\ runs = 0

\* main with arguments a and a new file in: the constructors, up to Run.
Main(a, in) ==
  /\ pc = "off" /\ runs <= Restarts
  /\ runs' = runs + 1
  /\ args' = a
  /\ ~Illegal(a)
  /\ pc' = "open"
  /\ input' = in
  /\ pool' = NewPool(MemLimit(a.mem_mb))
  /\ num_results' = a.num_results
  /\ output_files' = 0 /\ curr' = Empty /\ idx' = 1 /\ faulted' = {}
  /\ in_pos' = 0 /\ urls_scanned' = 0 /\ urls' = <<>> /\ resume' = "reopen"
  /\ cursor' = EmptyMap /\ drained' = {} /\ merge_heap' = {}
  /\ next_tuple' = Empty /\ topN' = {} /\ results' = <<>>
  /\ printed' = <<>> /\ scanned' = None
  /\ UNCHANGED <<mem, disk>>

\* main with arguments it rejects: "Illegal arguments!".
MainRejects(a) ==
  /\ pc = "off" /\ runs <= Restarts
  /\ Illegal(a)
  /\ runs' = runs + 1
  /\ args' = a
  /\ UNCHANGED <<sortVars, mergeLocals, printed, scanned>>

\* One iteration of the printing loop of Run.
PrintResult ==
  /\ pc = "print" /\ idx < Len(results)
  /\ printed' = Append(printed, RowOf(results[idx + 1]))
  /\ idx' = idx + 1
  /\ UNCHANGED <<pc, input, pool, mem, disk, output_files, curr, faulted,
                 localVars, mergeLocals, args, scanned, runs>>

\* The rest of Run, the destructors and the end of the process.
PrintSummary ==
  /\ pc = "print" /\ idx = Len(results)
  /\ scanned' = urls_scanned
  /\ pc' = "off"
  /\ pool' = Destroy(pool)
  /\ UNCHANGED <<input, mem, disk, output_files, curr, idx, faulted,
                 localVars, mergeLocals, args, printed, runs>>

\* PartialSort has returned false: Run returns, then the destructors.
ExitOnError ==
  /\ pc = "failed"
  /\ pc' = "off"
  /\ pool' = Destroy(pool)
  /\ UNCHANGED <<input, mem, disk, output_files, curr, idx, faulted,
                 localVars, mergeLocals, mainVars>>

\* The process dies: killed, or of its own store to nullptr.
Die ==
  /\ pc' = "off"
  /\ pool' = NewPool(0)
  /\ UNCHANGED <<input, mem, disk, output_files, curr, idx, faulted,
                 localVars, mergeLocals, mainVars>>
Segv == pc = "segv" /\ Die
Kill == pc \notin {"off", "segv"} /\ Die

ProcessStep ==
  \/ SortStep  /\ UNCHANGED <<mergeLocals, mainVars>>
  \/ MergeStep /\ UNCHANGED <<localVars, mainVars>>
  \/ PrintResult \/ PrintSummary \/ ExitOnError \/ Segv

Idle == pc = "off" /\ runs > Restarts /\ UNCHANGED vars

Next ==
  \/ \E a \in Args : (\E in \in Inputs : Main(a, in)) \/ MainRejects(a)
  \/ ProcessStep
  \/ Kill
  \/ Idle

\* The process keeps running; that it is killed or started again is not fair.
Spec == TopNInit /\ [][Next]_vars /\ WF_vars(ProcessStep)

-----------------------------------------------------------------------------

Promise == INSTANCE TopNSpec WITH
  phase <- IF pc # "off" THEN "running"
           ELSE IF scanned # None THEN "done" ELSE "stopped"

(***************************************************************************)
(* What a run prints is the answer for its input, as far as it gets, and a *)
(* run that reaches its last line has printed all of it: after kills,      *)
(* failed writes and failed allocations, whatever spill files earlier runs *)
(* of other inputs left under the names this one uses.                     *)
(***************************************************************************)
KeepsPromise == Promise!Spec

(***************************************************************************)
(* The first stage hands over what the second takes for granted: sorted    *)
(* files under all the numbers it counted, no string left in the pool, and *)
(* no tuple in a heap, whatever was on disk and failed before.             *)
(***************************************************************************)
StagesMeet == [][pc # "reopen" /\ pc' = "reopen" => MergeInit']_vars

\* The numbers of the spill files this run has counted.
Own == 0 .. output_files - 1

(***************************************************************************)
(* Close goes by the numbers this run has counted, over a disk with other  *)
(* runs' files.  Those with higher numbers, which a killed run has left,   *)
(* stay as they are at every step, so that no run can lose them or mistake *)
(* them for its own; and of the names this run has used none is left once  *)
(* it reaches its last line, but for a remove that failed.                 *)
(***************************************************************************)
OwnSpillsOnly ==
  [][/\ \A f \in (DOMAIN disk \cup DOMAIN disk') \ Own' :
          f \in DOMAIN disk \cap DOMAIN disk' /\ disk'[f] = disk[f]
     /\ scanned = None /\ scanned' # None /\ "remove" \notin faulted
          => DOMAIN disk' \cap Own = {}]_vars

(***************************************************************************)
(* What topn-freq-urls.h:31-36 says of the two stages, "Return false on    *)
(* errors": a run that met one does not reach its last line as if nothing  *)
(* had happened.  A failed malloc is no error yet: the batch is spilled.   *)
(***************************************************************************)
ErrorsReported == scanned # None => faulted \subseteq {"malloc"}

(***************************************************************************)
(* A run that could not open its input, create a spill file or write all   *)
(* of a row does not reach its last line, as if its answer were complete.  *)
(* A failed malloc and a failed remove cost no row.                        *)
(***************************************************************************)
LossesReported == scanned # None => faulted \subseteq {"malloc", "remove"}

\* main.cpp:20-23 rejects a memory limit that is not positive.
OnlyLegalLimits == pc # "off" => args.mem_mb > 0

(***************************************************************************)
(* Every run ends on its own: no loop of the two stages, their retry and   *)
(* the merge of files that fail included, goes on for ever.                *)
(***************************************************************************)
RunEnds == pc # "off" ~> pc = "off"

=============================================================================
