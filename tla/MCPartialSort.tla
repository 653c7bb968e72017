---------------------------- MODULE MCPartialSort ----------------------------
(***************************************************************************)
(* PartialSort on all inputs of a few lines of URLs of different lengths.  *)
(***************************************************************************)
EXTENDS PartialSort, TLC

CONSTANTS Lines  \* bound: lines of the longest input

MCUrl == 1 .. 3
MCUrlLen == <<1, 2, 1>>
MCInputs == UNION {[1 .. n -> MCUrl] : n \in 0 .. Lines}
AddrSymmetry == Permutations(Addr)

=============================================================================
