----------------------------- MODULE LineReader -----------------------------
(***************************************************************************)
(* The two text formats of src/src/file-manager.cpp at the level of        *)
(* characters, given by their codes: the URLs of the input file, as        *)
(* ReadLine splits them, and the rows of a spill file, as WriteResultTuple *)
(* writes and NextResultTupleInFile reads them.  Reader reads a file to    *)
(* its end, writes its URLs as rows with some counts, and reads them back. *)
(* A stream is the sequence of the characters still to be read; one that   *)
(* has failed has none.                                                    *)
(***************************************************************************)
EXTENDS Integers, SequencesExt

CONSTANTS
  Files,   \* the input files, sequences of characters
  MaxLen,  \* MAX_URL_LEN
  Counts   \* counts of the rows

ASSUME ReaderAssumption ==
  Files \subseteq Seq(Nat) /\ MaxLen \in Nat \ {0, 1} /\ Counts \subseteq Nat \ {0}

Tab     == 9
Newline == 10
Space == 9 .. 13 \cup {32}
Digit == 48 .. 57

\* How many of its first characters are in chars, and what follows the first n.
Span(s, chars) ==
  LET others == {k \in DOMAIN s : s[k] \notin chars} IN
  IF others = {} THEN Len(s) ELSE Min(others) - 1
Drop(s, n) == SubSeq(s, n + 1, Len(s))

(***************************************************************************)
(* FileManager::ReadLine: skip the delimiters, take what comes before the  *)
(* next one, but no more than max_len - 1 characters, and drop one more.   *)
(* (Mutant NoSkip: leading delimiters are not skipped.)                    *)
(***************************************************************************)
NoSkip(s, delimiter) == s
Skip(s, delimiter) == Drop(s, Span(s, {delimiter}))
ReadLine(s, max_len, delimiter) ==
  LET t   == Skip(s, delimiter)
      len == Min({Span(t, Nat \ {delimiter}), max_len - 1}) IN
  IF t = <<>> THEN [ok |-> FALSE, str |-> <<>>, rest |-> <<>>]
  ELSE [ok |-> TRUE, str |-> SubSeq(t, 1, len), rest |-> Drop(t, len + 1)]

\* The decimal digits of a count, and the number some digits stand for.
Decimal[n \in Nat] ==
  IF n < 10 THEN <<48 + n>> ELSE Append(Decimal[n \div 10], 48 + (n % 10))
Value(digits) ==
  LET v[k \in 0 .. Len(digits)] == IF k = 0 THEN 0 ELSE 10 * v[k - 1] + digits[k] - 48
  IN v[Len(digits)]

\* FileManager::WriteResultTuple.
WriteResultTuple(row) == row.url \o <<Tab>> \o Decimal[row.cnt] \o <<Newline>>

(***************************************************************************)
(* *in >> res->cnt, then in->get(): the counts it may store, with the rest *)
(* of the stream.  At the end of the stream cnt keeps what it was, and it  *)
(* was never initialised; what is no number gives 0; both make in fail.    *)
(* (Mutant NewlineLeft: the newline is not consumed.)                      *)
(***************************************************************************)
NewlineLeft(t, n) == Drop(t, n)
NewlineConsumed(t, n) == Drop(t, n + 1)
ReadCount(s) ==
  LET t == Drop(s, Span(s, Space))
      n == Span(t, Digit) IN
  IF t = <<>> THEN [cnt : Counts \cup {0}, rest : {<<>>}]
  ELSE IF n = 0 THEN {[cnt |-> 0, rest |-> <<>>]}
  ELSE {[cnt |-> Value(SubSeq(t, 1, n)), rest |-> NewlineConsumed(t, n)]}

\* memcmp of the first n bytes: the difference where they first differ.
Memcmp(a, b, n) ==
  LET differ == {k \in 1 .. n : a[k] # b[k]} IN
  IF differ = {} THEN 0 ELSE a[Min(differ)] - b[Min(differ)]

(***************************************************************************)
(* StringVal::StrCompare of src/src/data.h: the bytes both have, then the  *)
(* lengths.  (Mutant ComparePrefix: the bytes alone.)                      *)
(***************************************************************************)
ComparePrefix(a, b) == Memcmp(a, b, Min({Len(a), Len(b)}))
StrCompare(a, b) ==
  LET cmp == Memcmp(a, b, Min({Len(a), Len(b)})) IN
  IF cmp = 0 THEN Len(a) - Len(b) ELSE cmp

-----------------------------------------------------------------------------

VARIABLES
  state,    \* "input", "spill", "done"
  in,       \* the input file
  urls,     \* the URLs ReadLine has returned
  file,     \* the spill file
  written,  \* the rows written to it
  tuples    \* the rows read from it

readerVars == <<state, in, urls, file, written, tuples>>

ReaderInit ==
  /\ state = "input"
  /\ in \in Files
  /\ urls = <<>> /\ file = <<>> /\ written = <<>> /\ tuples = <<>>

\* A URL is read from the input and written to the spill file with a count.
TransferUrl ==
  /\ state = "input"
  /\ LET r == ReadLine(in, MaxLen, Newline) IN
     /\ r.ok
     /\ in' = r.rest
     /\ urls' = Append(urls, r.str)
     /\ \E c \in Counts :
          LET row == [url |-> r.str, cnt |-> c] IN
          written' = Append(written, row) /\ file' = file \o WriteResultTuple(row)
  /\ UNCHANGED <<state, tuples>>

InputRead ==
  /\ state = "input"
  /\ ~ReadLine(in, MaxLen, Newline).ok
  /\ state' = "spill"
  /\ UNCHANGED <<in, urls, file, written, tuples>>

\* FileMerger::NextResultTupleInFile.
NextResultTupleInFile ==
  /\ state = "spill"
  /\ LET r == ReadLine(file, MaxLen, Tab) IN
     \/ /\ r.ok
        /\ \E c \in ReadCount(r.rest) :
             /\ tuples' = Append(tuples, [url |-> r.str, cnt |-> c.cnt])
             /\ file' = c.rest
        /\ UNCHANGED state
     \/ ~r.ok /\ state' = "done" /\ UNCHANGED <<tuples, file>>
  /\ UNCHANGED <<in, urls, written>>

ReaderDone == state = "done" /\ UNCHANGED readerVars

ReaderNext == TransferUrl \/ InputRead \/ NextResultTupleInFile \/ ReaderDone

ReaderSpec == ReaderInit /\ [][ReaderNext]_readerVars

=============================================================================
