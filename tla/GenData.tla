------------------------------ MODULE GenData ------------------------------
(***************************************************************************)
(* src/gen-data/gen_file_from_ans.py:32-57: the script that writes a test  *)
(* input of about file_size bytes, in which each URL of an expected answer *)
(* occurs as often as the answer says, mixed with random URLs.  What is    *)
(* random is open here: any outcome of random that can occur.              *)
(*                                                                         *)
(* Only the lengths of the random URLs matter: that one of them equals a   *)
(* URL of the answer is left out.                                          *)
(***************************************************************************)
EXTENDS Integers, FiniteSets, Functions

CONSTANTS
  Url,         \* the URLs of the answers
  UrlLen,      \* the length in bytes of each
  MinUrlLen,   \* the length of the shortest random URL
  MaxUrlLen,   \* MAX_URL_LEN
  Answers,     \* the answers: maps from URLs to counts
  Sizes        \* the file sizes asked for

\* An answer is a file; with a count below 1 it is no answer of the program.
ASSUME GenAssumption ==
  /\ UrlLen \in [Url -> Nat \ {0}] /\ {MinUrlLen, MaxUrlLen} \subseteq Nat \ {0}
  /\ \A ans \in Answers : /\ DOMAIN ans \subseteq Url /\ IsFiniteSet(DOMAIN ans)
                          /\ ans \in [DOMAIN ans -> Nat \ {0}]
  /\ Sizes \subseteq Nat

VARIABLES
  pc,         \* "start", "loop", "done", "crashed"
  answer,     \* the answer file
  file_size,  \* the size asked for
  url_cnt,    \* what is still to be written of each URL of the answer
  given_len,  \* given_urls_remaining_len
  remaining,  \* remaining_size
  written,    \* how often each URL of the answer is in the file
  size        \* the bytes in the file

genVars == <<pc, answer, file_size, url_cnt, given_len, remaining, written, size>>

GenInit ==
  /\ pc = "start"
  /\ answer \in Answers /\ file_size \in Sizes
  /\ url_cnt = answer
  /\ given_len = 0 /\ remaining = 0 /\ size = 0
  /\ written = [u \in DOMAIN answer |-> 0]

\* The sum of a map to Nat, counted out: f[u] units for each u.
Units(f) == UNION {{u} \X (1 .. f[u]) : u \in DOMAIN f}
Sum(f) == Cardinality(Units(f))

\* The bytes of a URL with its newline, and of all URLs still to be written.
Line(u) == UrlLen[u] + 1
LinesLen(cnt) == Sum([u \in DOMAIN cnt |-> cnt[u] * Line(u)])

\* The lengths a random URL may have.
gen_random_url == MinUrlLen .. MaxUrlLen

\* Up to the loop; ans_ratio divides by file_size.
Start ==
  /\ pc = "start"
  /\ pc' = IF file_size = 0 THEN "crashed" ELSE "loop"
  /\ given_len' = Sum([u \in DOMAIN answer |-> UrlLen[u] * answer[u] + 1])
  /\ remaining' = file_size
  /\ UNCHANGED <<answer, file_size, url_cnt, written, size>>

\* There is room for more than the URLs of the answer.
Choosing == pc = "loop" /\ remaining > 0 /\ given_len < remaining

\* One occurrence less of u.
\* (Mutants PopFirst, KeepEmpty: popped the first time; not popped at 1.)
KeepEmpty(u) == [url_cnt EXCEPT ![u] = @ - 1]
PopFirst(u) == Restrict(url_cnt, DOMAIN url_cnt \ {u})
TakeOne(u) ==
  IF url_cnt[u] = 1 THEN Restrict(url_cnt, DOMAIN url_cnt \ {u})
  ELSE [url_cnt EXCEPT ![u] = @ - 1]

\* given_urls_remaining_len without a line.  (Mutant GivenLenKept: with it.)
GivenLenKept(u) == given_len
GivenLenLess(u) == given_len - Line(u)

\* random() < ans_ratio, which can be if the answer is not empty.
WriteGiven ==
  /\ Choosing
  /\ \E u \in DOMAIN url_cnt :
       /\ url_cnt' = TakeOne(u) /\ given_len' = GivenLenLess(u)
       /\ written' = [written EXCEPT ![u] = @ + 1]
       /\ remaining' = remaining - Line(u) /\ size' = size + Line(u)
  /\ UNCHANGED <<pc, answer, file_size>>

\* random.choice of no URLs raises IndexError.
NothingToChoose ==
  /\ Choosing
  /\ DOMAIN url_cnt = {} /\ DOMAIN answer # {}
  /\ pc' = "crashed"
  /\ UNCHANGED <<answer, file_size, url_cnt, given_len, remaining, written, size>>

\* random() >= ans_ratio, which is below 1 here.
WriteRandom ==
  /\ Choosing
  /\ \E len \in gen_random_url :
       remaining' = remaining - (len + 1) /\ size' = size + len + 1
  /\ UNCHANGED <<pc, answer, file_size, url_cnt, given_len, written>>

\* "Just fulfill our given URLs": all that is left of them, and break.
\* (Mutant NoBreak: without it.)
FulfillThen(then) ==
  /\ pc = "loop" /\ remaining > 0 /\ given_len >= remaining
  /\ pc' = then
  /\ written' = [u \in DOMAIN answer |->
                   written[u] + IF u \in DOMAIN url_cnt THEN url_cnt[u] ELSE 0]
  /\ size' = size + LinesLen(url_cnt)
  /\ url_cnt' = [u \in DOMAIN url_cnt |-> 0]
  /\ UNCHANGED <<answer, file_size, given_len, remaining>>
NoBreak == FulfillThen("loop")
Fulfill == FulfillThen("done")

\* The condition of the loop fails.
LoopEnds ==
  /\ pc = "loop" /\ remaining <= 0
  /\ pc' = "done"
  /\ UNCHANGED <<answer, file_size, url_cnt, given_len, remaining, written, size>>

GenStep == Start \/ WriteGiven \/ NothingToChoose \/ WriteRandom \/ Fulfill \/ LoopEnds
GenEnded == pc \in {"done", "crashed"} /\ UNCHANGED genVars
GenNext == GenStep \/ GenEnded

\* One script, that runs to its end.
GenSpec == GenInit /\ [][GenNext]_genVars /\ WF_genVars(GenStep)

-----------------------------------------------------------------------------

\* The types of the variables.
GenTypeOK ==
  /\ pc \in {"start", "loop", "done", "crashed"}
  /\ answer \in Answers /\ file_size \in Sizes
  /\ DOMAIN url_cnt \subseteq DOMAIN answer /\ url_cnt \in [DOMAIN url_cnt -> Nat]
  /\ pc \in {"start", "loop"} => \A u \in DOMAIN url_cnt : url_cnt[u] > 0
  /\ given_len \in Int /\ remaining \in Int /\ size \in Nat
  /\ written \in [DOMAIN answer -> Nat]

(***************************************************************************)
(* No URL of the answer is written more often than asked, or forgotten     *)
(* while the script runs: what is in the file and what url_cnt still holds *)
(* make up the answer, however the two kinds are mixed.  So when           *)
(* random.choice fails for want of URLs, the file holds the whole answer.  *)
(***************************************************************************)
AnswerKept ==
  /\ \A u \in DOMAIN answer :
       written[u] + (IF u \in DOMAIN url_cnt THEN url_cnt[u] ELSE 0) = answer[u]
  /\ pc = "crashed" /\ file_size > 0 => written = answer

(***************************************************************************)
(* A finished file is no smaller than asked, although the script stops to  *)
(* count bytes when only the answer is left, and given_urls_remaining_len  *)
(* counts one newline for each URL of it, not for each line.               *)
(***************************************************************************)
SizeReached == pc = "done" => size >= file_size

(***************************************************************************)
(* "Generate a large input file based on the answer" (line 4, README.md    *)
(* lines 6-10): a finished file has each URL of the answer as often as the *)
(* answer says.                                                            *)
(***************************************************************************)
AnswerComplete == pc = "done" => written = answer

\* The loop comes to an end, whatever is random.
GenEnds == <>(pc \in {"done", "crashed"})

=============================================================================
