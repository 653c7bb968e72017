--------------------------- MODULE MCTopNFreqUrls ---------------------------
(***************************************************************************)
(* The program on all inputs of a few lines, started again after it ended  *)
(* or was killed.                                                          *)
(***************************************************************************)
EXTENDS TopNFreqUrls, TLC

CONSTANTS
  Lines,       \* bound: lines of the longest input
  NumResults,  \* the numbers of results asked for
  MemMb        \* the memory limits asked for

MCUrl == 1 .. 2
MCUrlLen == <<1, 2>>
MCInputs == UNION {[1 .. n -> MCUrl] : n \in 0 .. Lines}
MCArgs == [num_results : NumResults, mem_mb : MemMb]
MCLimits == {MemLimit(mb) : mb \in {m \in MemMb : MemLimit(m) > 0}}
SignedMb == -1 .. 1
AddrSymmetry == Permutations(Addr)

=============================================================================
