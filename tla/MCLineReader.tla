---------------------------- MODULE MCLineReader ----------------------------
(***************************************************************************)
(* LineReader on all short files over a small alphabet, with the history   *)
(* of which file was read.                                                 *)
(***************************************************************************)
EXTENDS LineReader

CONSTANTS
  Alphabet,    \* the characters of the files, by their codes
  FileLen,     \* bound: characters of the longest file
  LongestLine  \* bound: characters of the longest line

ASSUME AlphabetAssumption == Alphabet \subseteq Nat

VARIABLE original  \* history: the input file

\* The maximal runs of other characters than Newline, as <<first, last>>.
Runs(f) ==
  {r \in (DOMAIN f) \X (DOMAIN f) :
     /\ r[1] <= r[2]
     /\ \A k \in r[1] .. r[2] : f[k] # Newline
     /\ r[1] = 1 \/ f[r[1] - 1] = Newline
     /\ r[2] = Len(f) \/ f[r[2] + 1] = Newline}

\* How many of them start at one of the first p characters, and the k-th one.
Started(f, p) == Cardinality({r \in Runs(f) : r[1] <= p})
RunAt(f, k) == CHOOSE r \in Runs(f) : Started(f, r[1]) = k

\* The URLs of a file: its nonempty lines, of each the first MaxLen - 1 characters.
Url(f, r) == SubSeq(f, r[1], Min({r[2], r[1] + MaxLen - 2}))
UrlsOf(f) == [k \in 1 .. Cardinality(Runs(f)) |-> Url(f, RunAt(f, k))]

MCFiles ==
  {f \in UNION {[1 .. n -> Alphabet] : n \in 0 .. FileLen} :
     \A r \in Runs(f) : r[2] - r[1] < LongestLine}

\* No line is so long that what the buffer leaves of it is a line of its own.
LinesFit == \A f \in Files : \A r \in Runs(f) : r[2] - r[1] < MaxLen

\* No URL has a Tab, which would end it in a spill file.
NoTabs == \A f \in Files : \A k \in DOMAIN f : f[k] # Tab

MCInit == ReaderInit /\ original = in
MCNext == ReaderNext /\ UNCHANGED original
MCSpec == MCInit /\ [][MCNext]_<<readerVars, original>>

(***************************************************************************)
(* ReadLine returns the URLs of the file one by one, all of them, no empty *)
(* one, in their order, whether or not the last line has its newline; a    *)
(* line too long for the buffer counts once, cut to the buffer's length.   *)
(***************************************************************************)
ReadsUrls ==
  /\ IsPrefix(urls, UrlsOf(original))
  /\ state # "input" => urls = UrlsOf(original)

(***************************************************************************)
(* The merge reads from a spill file the rows the first stage wrote to it, *)
(* also where a URL is made of digits or spaces.                           *)
(***************************************************************************)
RowsRoundTrip ==
  /\ IsPrefix(tuples, written)
  /\ state = "done" => tuples = written

\* The URLs that fit the buffer.
Words == UNION {[1 .. n -> Alphabet \ {Newline}] : n \in 1 .. MaxLen - 1}

(***************************************************************************)
(* StrCompare ranks the URLs that are read among all others, as the two    *)
(* stages take for granted where they sort, merge and group by it: it is 0 *)
(* for the same URL only, changes its sign with its operands, and agrees   *)
(* on what is between two URLs; a URL comes before its extensions.         *)
(***************************************************************************)
UrlsRanked ==
  \A u \in Range(urls), v \in Words :
    /\ StrCompare(u, v) = 0 <=> u = v
    /\ StrCompare(u, v) < 0 <=> StrCompare(v, u) > 0
    /\ IsStrictPrefix(u, v) => StrCompare(u, v) < 0
    /\ \A w \in Range(urls) :
         StrCompare(u, v) < 0 /\ StrCompare(v, w) < 0 => StrCompare(u, w) < 0

=============================================================================
