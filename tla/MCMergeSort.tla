---------------------------- MODULE MCMergeSort ----------------------------
(***************************************************************************)
(* MergeSort on its own, from all sets of a few sorted files, whether the  *)
(* first stage would have written them or not.                             *)
(***************************************************************************)
EXTENDS MergeSort, TLC

CONSTANTS
  MaxRows,     \* bound: the rows of one, two, ... spill files together
  MaxCount,    \* bound: count of a row
  NumResults   \* the values of num_results_

MCUrl == 1 .. 3
MCUrlLen == <<1, 2, 1>>
MCMaxRows == <<3, 4, 3>>
AddrSymmetry == Permutations(Addr)

\* The files sorted by URL, one row for each URL of a set.
SortedFiles ==
  {q \in UNION {[1 .. n -> [url : MCUrl, cnt : 1 .. MaxCount]] :
                 n \in 0 .. Cardinality(MCUrl)} :
     \A j, k \in DOMAIN q : j < k => q[j].url < q[k].url}

MCInit ==
  /\ input = <<>>
  /\ \E max \in Limits : pool = NewPool(max)
  /\ mem = [a \in Addr |-> CHOOSE u \in Url : TRUE]
  /\ output_files \in 0 .. Len(MaxRows)
  /\ disk \in [0 .. output_files - 1 -> SortedFiles]
  /\ output_files > 0 =>
       SumFunction([f \in DOMAIN disk |-> Len(disk[f])]) <= MaxRows[output_files]
  /\ num_results \in NumResults
  /\ curr = Empty /\ faulted = {}
  /\ MergeInit

MCSpec == MCInit /\ [][MergeNext]_mergeVars

=============================================================================
