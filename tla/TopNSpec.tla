------------------------------ MODULE TopNSpec ------------------------------
(***************************************************************************)
(* What the program promises (README.md, data.h:45-46): for a file of URLs *)
(* and a number n it prints the n most frequent URLs with their counts,    *)
(* best first, of equal counts the smaller URL first, and then how many    *)
(* URLs it has scanned.  A run may stop at any point, and what it has      *)
(* printed until then is the beginning of the answer.                      *)
(***************************************************************************)
EXTENDS Integers, FiniteSets, Sequences

CONSTANTS
  Url,     \* the URLs, in their order
  Inputs   \* the input files

VARIABLES
  input,        \* the input file
  num_results,  \* the number of URLs asked for
  phase,        \* "stopped", "running", "done"
  printed,      \* the rows printed
  scanned       \* the number of URLs scanned, as printed at the end

specVars == <<input, num_results, phase, printed, scanned>>

None == -1

Occurrences(in, u) == Cardinality({k \in DOMAIN in : in[k] = u})
Seen(in) == {u \in Url : Occurrences(in, u) > 0}
Better(in, u, v) ==
  \/ Occurrences(in, u) > Occurrences(in, v)
  \/ Occurrences(in, u) = Occurrences(in, v) /\ u < v

\* The URL with exactly k - 1 better ones.
Ranked(in, k) ==
  CHOOSE u \in Seen(in) : Cardinality({v \in Seen(in) : Better(in, v, u)}) = k - 1

Answer(in, n) ==
  LET size == IF n < Cardinality(Seen(in)) THEN n ELSE Cardinality(Seen(in)) IN
  [k \in 1 .. size |->
     [url |-> Ranked(in, k), cnt |-> Occurrences(in, Ranked(in, k))]]

Init ==
  /\ input \in Inputs
  /\ num_results = 0
  /\ phase = "stopped"
  /\ printed = <<>>
  /\ scanned = None

Begin ==
  /\ phase # "running"
  /\ phase' = "running"
  /\ input' \in Inputs
  /\ num_results' \in Nat \ {0}
  /\ printed' = <<>>
  /\ scanned' = None

PrintRow ==
  /\ phase = "running"
  /\ Len(printed) < Len(Answer(input, num_results))
  /\ printed' = Append(printed, Answer(input, num_results)[Len(printed) + 1])
  /\ UNCHANGED <<input, num_results, phase, scanned>>

Finish ==
  /\ phase = "running"
  /\ printed = Answer(input, num_results)
  /\ phase' = "done"
  /\ scanned' = Len(input)
  /\ UNCHANGED <<input, num_results, printed>>

Stop ==
  /\ phase = "running"
  /\ phase' = "stopped"
  /\ UNCHANGED <<input, num_results, printed, scanned>>

Next == Begin \/ PrintRow \/ Finish \/ Stop

Spec == Init /\ [][Next]_specVars

=============================================================================
