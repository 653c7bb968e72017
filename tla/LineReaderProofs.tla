-------------------------- MODULE LineReaderProofs --------------------------
(***************************************************************************)
(* The text formats, for all files, buffers and counts: StrCompare ranks   *)
(* the URLs, ReadLine returns the URLs of a file, and the rows of a spill  *)
(* file are read as they were written.                                     *)
(***************************************************************************)
EXTENDS MCLineReader, FiniteSetTheorems, SequenceTheorems, TLAPS

(***************************************************************************)
(* Every set of natural numbers has a least element.  This is induction    *)
(* without an operator as a parameter: what fails for some number fails    *)
(* for a least one.                                                        *)
(***************************************************************************)
LEMMA LeastExists ==
  ASSUME NEW S, S \subseteq Nat, S # {}
  PROVE  \E m \in S : \A k \in S : m <= k
<1> DEFINE R == {p \in Nat \X Nat : p[1] < p[2]}
<1>1. IsWellFoundedOn(R, Nat)
  BY NatLessThanWellFounded DEF OpToRel
<1>2. \E m \in S : \A k \in S : ~ (<<k, m>> \in R)
  <2> HIDE DEF R
  <2> QED BY <1>1, WFMin
<1>3. PICK m \in S : \A k \in S : ~ (<<k, m>> \in R)
  BY <1>2
<1>4. \A k \in S : ~ (k < m)
  BY <1>3
<1> QED
  BY <1>4

LEMMA MinIsLeast ==
  ASSUME NEW S, S \subseteq Nat, S # {}
  PROVE  Min(S) \in S /\ \A k \in S : Min(S) <= k
BY LeastExists DEF Min

\* The lesser of two numbers.
LEMMA MinOfTwo ==
  ASSUME NEW a \in Nat, NEW b \in Nat
  PROVE  Min({a, b}) = IF a <= b THEN a ELSE b
<1>1. {a, b} \subseteq Nat /\ {a, b} # {}
  OBVIOUS
<1>2. Min({a, b}) \in {a, b} /\ \A k \in {a, b} : Min({a, b}) <= k
  BY <1>1, MinIsLeast
<1> QED
  BY <1>2

-----------------------------------------------------------------------------

(***************************************************************************)
(* The order of StrCompare: a is less than b where they first differ, or   *)
(* ends before b does.                                                     *)
(***************************************************************************)
AgreeBefore(a, b, k) == \A j \in 1 .. k - 1 : a[j] = b[j]
Precedes(a, b) ==
  \E k \in 1 .. Len(b) :
    /\ k <= Len(a) + 1 /\ AgreeBefore(a, b, k)
    /\ k <= Len(a) => a[k] < b[k]

LEMMA MemcmpForm ==
  ASSUME NEW a \in Seq(Nat), NEW b \in Seq(Nat), NEW n \in Nat, n <= Len(a), n <= Len(b)
  PROVE  \/ Memcmp(a, b, n) = 0 /\ AgreeBefore(a, b, n + 1)
         \/ \E k \in 1 .. n : /\ AgreeBefore(a, b, k) /\ a[k] # b[k]
                              /\ Memcmp(a, b, n) = a[k] - b[k]
<1> DEFINE differ == {k \in 1 .. n : a[k] # b[k]}
<1>1. CASE differ = {}
  <2>1. Memcmp(a, b, n) = 0
    BY <1>1 DEF Memcmp
  <2>2. \A j \in 1 .. n : a[j] = b[j]
    BY <1>1
  <2>3. AgreeBefore(a, b, n + 1)
    BY <2>2 DEF AgreeBefore
  <2> QED BY <2>1, <2>3
<1>2. CASE differ # {}
  <2>1. differ \subseteq Nat
    OBVIOUS
  <2>2. PICK k : k = Min(differ)
    OBVIOUS
  <2> HIDE DEF differ
  <2>3. k \in differ /\ \A j \in differ : k <= j
    BY <1>2, <2>1, <2>2, MinIsLeast
  <2>4. Memcmp(a, b, n) = a[k] - b[k]
    BY <1>2, <2>2 DEF Memcmp, differ
  <2>5. AgreeBefore(a, b, k)
    <3> SUFFICES ASSUME NEW j \in 1 .. k - 1 PROVE a[j] = b[j]
      BY DEF AgreeBefore
    <3>1. j \notin differ /\ j \in 1 .. n
      BY <2>3 DEF differ
    <3> QED BY <3>1 DEF differ
  <2> QED BY <2>3, <2>4, <2>5 DEF differ
<1> QED
  BY <1>1, <1>2

\* The sign of StrCompare.
LEMMA StrCompareSign ==
  ASSUME NEW a \in Seq(Nat), NEW b \in Seq(Nat)
  PROVE  /\ StrCompare(a, b) \in Int
         /\ \/ a = b /\ StrCompare(a, b) = 0
            \/ Precedes(a, b) /\ StrCompare(a, b) < 0
            \/ Precedes(b, a) /\ StrCompare(a, b) > 0
<1>1. PICK n \in Nat : n = IF Len(a) <= Len(b) THEN Len(a) ELSE Len(b)
  OBVIOUS
<1>2. Min({Len(a), Len(b)}) = n
  <2>1. Len(a) \in Nat /\ Len(b) \in Nat
    OBVIOUS
  <2> QED BY <1>1, <2>1, MinOfTwo
<1>3. StrCompare(a, b) = IF Memcmp(a, b, n) = 0 THEN Len(a) - Len(b) ELSE Memcmp(a, b, n)
  BY <1>2 DEF StrCompare
<1>4. n <= Len(a) /\ n <= Len(b)
  BY <1>1
<1>5. CASE Memcmp(a, b, n) = 0 /\ AgreeBefore(a, b, n + 1)
  <2>1. StrCompare(a, b) = Len(a) - Len(b)
    BY <1>3, <1>5
  <2>2. \A j \in 1 .. n : a[j] = b[j]
    BY <1>5 DEF AgreeBefore
  <2>3. CASE Len(a) = Len(b)
    <3>1. a = b
      BY <1>1, <2>2, <2>3
    <3> QED BY <2>1, <2>3, <3>1
  <2>4. CASE Len(a) < Len(b)
    <3>1. Precedes(a, b)
      <4>1. n = Len(a) /\ n + 1 \in 1 .. Len(b)
        BY <1>1, <2>4
      <4> QED BY <1>5, <4>1 DEF Precedes
    <3> QED BY <2>1, <2>4, <3>1
  <2>5. CASE Len(a) > Len(b)
    <3>1. n = Len(b) /\ n + 1 \in 1 .. Len(a)
      BY <1>1, <2>5
    <3>2. AgreeBefore(b, a, n + 1)
      BY <2>2 DEF AgreeBefore
    <3>3. Precedes(b, a)
      BY <3>1, <3>2 DEF Precedes
    <3> QED BY <2>1, <2>5, <3>3
  <2> QED BY <2>3, <2>4, <2>5
<1>6. ASSUME NEW k \in 1 .. n, AgreeBefore(a, b, k), a[k] # b[k],
             Memcmp(a, b, n) = a[k] - b[k]
      PROVE  /\ StrCompare(a, b) \in Int
             /\ \/ Precedes(a, b) /\ StrCompare(a, b) < 0
                \/ Precedes(b, a) /\ StrCompare(a, b) > 0
  <2>1. a[k] \in Nat /\ b[k] \in Nat /\ k \in 1 .. Len(a) /\ k \in 1 .. Len(b)
    BY <1>4
  <2>2. StrCompare(a, b) = a[k] - b[k]
    BY <1>3, <1>6, <2>1
  <2>3. CASE a[k] < b[k]
    <3>1. Precedes(a, b)
      BY <1>6, <2>1, <2>3 DEF Precedes
    <3> QED BY <2>1, <2>2, <2>3, <3>1
  <2>4. CASE a[k] > b[k]
    <3>1. AgreeBefore(b, a, k)
      BY <1>6 DEF AgreeBefore
    <3>2. Precedes(b, a)
      BY <2>1, <2>4, <3>1 DEF Precedes
    <3> QED BY <2>1, <2>2, <2>4, <3>2
  <2> QED BY <1>6, <2>1, <2>3, <2>4
<1> QED
  BY <1>4, <1>5, <1>6, MemcmpForm

\* Precedes is a strict order.
LEMMA PrecedesTransitive ==
  ASSUME NEW a \in Seq(Nat), NEW b \in Seq(Nat), NEW c \in Seq(Nat),
         Precedes(a, b), Precedes(b, c)
  PROVE  Precedes(a, c)
<1>1. PICK j \in 1 .. Len(b) : /\ j <= Len(a) + 1 /\ AgreeBefore(a, b, j)
                               /\ j <= Len(a) => a[j] < b[j]
  BY DEF Precedes
<1>2. PICK k \in 1 .. Len(c) : /\ k <= Len(b) + 1 /\ AgreeBefore(b, c, k)
                               /\ k <= Len(b) => b[k] < c[k]
  BY DEF Precedes
<1>3. CASE j < k
  <2>1. j \in 1 .. Len(c) /\ AgreeBefore(a, c, j) /\ b[j] = c[j]
    BY <1>1, <1>2, <1>3 DEF AgreeBefore
  <2> QED BY <1>1, <2>1 DEF Precedes
<1>4. CASE j = k
  <2>1. AgreeBefore(a, c, k)
    BY <1>1, <1>2, <1>4 DEF AgreeBefore
  <2>2. k <= Len(a) => a[k] < c[k]
    BY <1>1, <1>2, <1>4
  <2> QED BY <1>1, <1>4, <2>1, <2>2 DEF Precedes
<1>5. CASE j > k
  <2>1. k <= Len(a) /\ AgreeBefore(a, c, k) /\ a[k] = b[k] /\ b[k] < c[k]
    <3>1. k \in 1 .. j - 1 /\ k <= Len(a) /\ k <= Len(b)
      BY <1>1, <1>2, <1>5
    <3>2. a[k] = b[k]
      BY <1>1, <3>1 DEF AgreeBefore
    <3>3. ASSUME NEW i \in 1 .. k - 1 PROVE a[i] = c[i]
      <4>1. i \in 1 .. j - 1
        BY <3>1
      <4> QED BY <1>1, <1>2, <4>1 DEF AgreeBefore
    <3>4. AgreeBefore(a, c, k)
      BY <3>3 DEF AgreeBefore
    <3> QED BY <1>2, <3>1, <3>2, <3>4
  <2>2. k <= Len(a) + 1 /\ a[k] < c[k]
    BY <2>1
  <2> QED BY <2>1, <2>2 DEF Precedes
<1> QED
  BY <1>3, <1>4, <1>5

LEMMA PrecedesIrreflexive ==
  ASSUME NEW a \in Seq(Nat)
  PROVE  ~Precedes(a, a)
BY DEF Precedes

(***************************************************************************)
(* StrCompare is the order of the bytes and the lengths: negative just if  *)
(* the first string precedes the other, positive just if it follows it, 0  *)
(* for equal strings only.                                                 *)
(***************************************************************************)
THEOREM StrCompareIsOrder ==
  ASSUME NEW a \in Seq(Nat), NEW b \in Seq(Nat)
  PROVE  /\ StrCompare(a, b) = 0 <=> a = b
         /\ StrCompare(a, b) < 0 <=> Precedes(a, b)
         /\ StrCompare(a, b) > 0 <=> Precedes(b, a)
<1>1. ~(Precedes(a, b) /\ Precedes(b, a)) /\ (a = b => ~Precedes(a, b) /\ ~Precedes(b, a))
  BY PrecedesTransitive, PrecedesIrreflexive
<1> QED
  BY <1>1, StrCompareSign

-----------------------------------------------------------------------------

(***************************************************************************)
(* What a stream still holds.                                              *)
(***************************************************************************)

LEMMA DropForm ==
  ASSUME NEW s \in Seq(Nat), NEW n \in Nat
  PROVE  /\ Drop(s, n) \in Seq(Nat)
         /\ Len(Drop(s, n)) = IF n <= Len(s) THEN Len(s) - n ELSE 0
         /\ \A k \in 1 .. Len(s) - n : Drop(s, n)[k] = s[n + k]
<1>1. PICK m \in Nat : m = Len(s)
  OBVIOUS
<1>2. PICK i \in Nat : i = n + 1
  OBVIOUS
<1>3. PICK t : t = SubSeq(s, i, m)
  OBVIOUS
<1>4. i \in Int /\ m \in Int /\ \A j \in i .. m : s[j] \in Nat
  BY <1>1, <1>2
<1>5. /\ t \in Seq(Nat) /\ Len(t) = IF i <= m THEN m - i + 1 ELSE 0
      /\ \A k \in 1 .. m - i + 1 : t[k] = s[i + k - 1]
  BY <1>3, <1>4, SubSeqProperties
<1>6. Len(t) = IF n <= m THEN m - n ELSE 0
  BY <1>2, <1>5
<1>7. ASSUME NEW k \in 1 .. m - n PROVE t[k] = s[n + k]
  <2>1. k \in 1 .. m - i + 1 /\ i + k - 1 = n + k
    BY <1>2
  <2> QED BY <1>5, <2>1
<1>8. Drop(s, n) = t
  BY <1>1, <1>2, <1>3 DEF Drop
<1> QED
  BY <1>1, <1>5, <1>6, <1>7, <1>8

LEMMA DropNone == \A s \in Seq(Nat) : Drop(s, 0) = s
BY DEF Drop

LEMMA DropDrop ==
  ASSUME NEW s \in Seq(Nat), NEW m \in Nat, NEW n \in Nat, m <= Len(s)
  PROVE  Drop(Drop(s, m), n) = Drop(s, m + n)
<1> DEFINE t == Drop(s, m)
<1>1. /\ t \in Seq(Nat) /\ Len(t) = Len(s) - m
      /\ \A k \in 1 .. Len(s) - m : t[k] = s[m + k]
  BY DropForm
<1> HIDE DEF t
<1>2. /\ Drop(t, n) \in Seq(Nat)
      /\ Len(Drop(t, n)) = IF n <= Len(t) THEN Len(t) - n ELSE 0
      /\ \A k \in 1 .. Len(t) - n : Drop(t, n)[k] = t[n + k]
  BY <1>1, DropForm
<1>3. PICK p \in Nat : p = m + n
  OBVIOUS
<1>4. /\ Drop(s, p) \in Seq(Nat)
      /\ Len(Drop(s, p)) = IF p <= Len(s) THEN Len(s) - p ELSE 0
      /\ \A k \in 1 .. Len(s) - p : Drop(s, p)[k] = s[p + k]
  BY DropForm
<1>5. Len(Drop(t, n)) = Len(Drop(s, p))
  BY <1>1, <1>2, <1>3, <1>4
<1>6. \A k \in 1 .. Len(Drop(t, n)) : Drop(t, n)[k] = Drop(s, p)[k]
  <2> SUFFICES ASSUME NEW k \in 1 .. Len(Drop(t, n)) PROVE Drop(t, n)[k] = Drop(s, p)[k]
    OBVIOUS
  <2>1. k \in 1 .. Len(t) - n /\ k \in 1 .. Len(s) - p /\ n + k \in 1 .. Len(s) - m
    BY <1>1, <1>2, <1>3, <1>4
  <2>2. Drop(t, n)[k] = t[n + k] /\ Drop(s, p)[k] = s[p + k] /\ t[n + k] = s[m + (n + k)]
    BY <1>1, <1>2, <1>4, <2>1
  <2> QED BY <1>3, <2>2
<1>7. Drop(t, n) = Drop(s, p)
  BY <1>2, <1>4, <1>5, <1>6, SeqEqual
<1> QED
  BY <1>3, <1>7 DEF t

\* SubSeq by a name of its own, which the provers leave as it is.
Piece(s, i, k) == SubSeq(s, i, k)

LEMMA PieceForm ==
  ASSUME NEW s \in Seq(Nat), NEW i \in Nat \ {0}, NEW k \in Nat, i <= k + 1, k <= Len(s)
  PROVE  /\ Piece(s, i, k) \in Seq(Nat) /\ Len(Piece(s, i, k)) = k - i + 1
         /\ \A x \in 1 .. k - i + 1 : Piece(s, i, k)[x] = s[i + x - 1]
<1>1. i \in Int /\ k \in Int /\ \A x \in i .. k : s[x] \in Nat
  OBVIOUS
<1>2. /\ SubSeq(s, i, k) \in Seq(Nat)
      /\ Len(SubSeq(s, i, k)) = IF i <= k THEN k - i + 1 ELSE 0
      /\ \A x \in 1 .. k - i + 1 : SubSeq(s, i, k)[x] = s[i + x - 1]
  BY <1>1, SubSeqProperties
<1> QED
  BY <1>2 DEF Piece

\* Pieces of the same length with the same characters are equal.
SamePiece(s, i, k, t, b, e) ==
  /\ s \in Seq(Nat) /\ i \in Nat \ {0} /\ k \in Nat /\ i <= k + 1 /\ k <= Len(s)
  /\ t \in Seq(Nat) /\ b \in Nat \ {0} /\ e \in Nat /\ b <= e + 1 /\ e <= Len(t)
  /\ e - b = k - i /\ \A x \in 0 .. k - i : s[i + x] = t[b + x]

LEMMA PieceEqual ==
  ASSUME NEW s, NEW i, NEW k, NEW t, NEW b, NEW e, SamePiece(s, i, k, t, b, e)
  PROVE  Piece(s, i, k) = Piece(t, b, e)
<1>1. /\ s \in Seq(Nat) /\ i \in Nat \ {0} /\ k \in Nat /\ i <= k + 1 /\ k <= Len(s)
      /\ t \in Seq(Nat) /\ b \in Nat \ {0} /\ e \in Nat /\ b <= e + 1 /\ e <= Len(t)
      /\ e - b = k - i
  BY DEF SamePiece
<1>2. PICK n \in Nat : n = k - i + 1 /\ n = e - b + 1
  BY <1>1
<1>3. PICK u, v : u = Piece(s, i, k) /\ v = Piece(t, b, e)
  OBVIOUS
<1>4. u \in Seq(Nat) /\ Len(u) = n /\ \A x \in 1 .. n : u[x] = s[i + x - 1]
  <2>1. Piece(s, i, k) \in Seq(Nat) /\ Len(Piece(s, i, k)) = k - i + 1
    BY <1>1, PieceForm
  <2>2. \A x \in 1 .. k - i + 1 : Piece(s, i, k)[x] = s[i + x - 1]
    BY <1>1, PieceForm
  <2>3. k - i + 1 = n
    BY <1>2
  <2> QED BY <1>3, <2>1, <2>2, <2>3
<1>5. v \in Seq(Nat) /\ Len(v) = n /\ \A x \in 1 .. n : v[x] = t[b + x - 1]
  <2>1. Piece(t, b, e) \in Seq(Nat) /\ Len(Piece(t, b, e)) = e - b + 1
    BY <1>1, PieceForm
  <2>2. \A x \in 1 .. e - b + 1 : Piece(t, b, e)[x] = t[b + x - 1]
    BY <1>1, PieceForm
  <2>3. e - b + 1 = n
    BY <1>2
  <2> QED BY <1>3, <2>1, <2>2, <2>3
<1>6. ASSUME NEW x \in 1 .. n
      PROVE  u[x] = v[x]
  <2>1. PICK y \in 0 .. k - i : y = x - 1
    BY <1>1, <1>2
  <2>2. i + x - 1 = i + y /\ b + x - 1 = b + y
    BY <1>1, <2>1
  <2>3. s[i + y] = t[b + y]
    BY <2>1 DEF SamePiece
  <2> QED BY <1>4, <1>5, <2>2, <2>3
<1> QED
  BY <1>3, <1>4, <1>5, <1>6, SeqEqual

\* The first characters that are in chars are counted up to one that is not.
LEMMA SpanForm ==
  ASSUME NEW s \in Seq(Nat), NEW chars
  PROVE  /\ Span(s, chars) \in 0 .. Len(s)
         /\ \A k \in 1 .. Span(s, chars) : s[k] \in chars
         /\ Span(s, chars) < Len(s) => s[Span(s, chars) + 1] \notin chars
<1> DEFINE others == {k \in DOMAIN s : s[k] \notin chars}
<1>1. CASE others = {}
  <2>1. Span(s, chars) = Len(s) /\ \A k \in 1 .. Len(s) : s[k] \in chars
    BY <1>1 DEF Span
  <2> QED BY <2>1
<1>2. CASE others # {}
  <2>1. others \subseteq Nat
    OBVIOUS
  <2>2. PICK m : m = Min(others)
    OBVIOUS
  <2>3. Span(s, chars) = m - 1
    BY <1>2, <2>2 DEF Span
  <2> HIDE DEF others
  <2>4. m \in others /\ \A k \in others : m <= k
    BY <1>2, <2>1, <2>2, MinIsLeast
  <2>5. m \in 1 .. Len(s) /\ s[m] \notin chars
    BY <2>4 DEF others
  <2>6. \A k \in 1 .. m - 1 : s[k] \in chars
    <3> SUFFICES ASSUME NEW k \in 1 .. m - 1 PROVE s[k] \in chars
      OBVIOUS
    <3>1. k \notin others /\ k \in DOMAIN s
      BY <2>4, <2>5
    <3> QED BY <3>1 DEF others
  <2> QED BY <2>3, <2>5, <2>6
<1> QED
  BY <1>1, <1>2

LEMMA SpanIs ==
  ASSUME NEW s \in Seq(Nat), NEW chars, NEW n \in 0 .. Len(s),
         \A k \in 1 .. n : s[k] \in chars,
         n < Len(s) => s[n + 1] \notin chars
  PROVE  Span(s, chars) = n
<1>1. PICK m : m = Span(s, chars)
  OBVIOUS
<1>2. /\ m \in 0 .. Len(s) /\ \A k \in 1 .. m : s[k] \in chars
      /\ m < Len(s) => s[m + 1] \notin chars
  BY <1>1, SpanForm
<1>3. ~(m < n) /\ ~(n < m)
  BY <1>2
<1> QED
  BY <1>1, <1>2, <1>3

(***************************************************************************)
(* What ReadLine does: n delimiters are skipped, and len characters taken, *)
(* at least one, up to a delimiter, the end, or the end of the buffer.     *)
(***************************************************************************)
TakesLine(s, max_len, delimiter, n, len) ==
  /\ \A k \in 1 .. n : s[k] = delimiter
  /\ n + len <= Len(s) /\ len <= max_len - 1
  /\ \A k \in n + 1 .. n + len : s[k] # delimiter
  /\ n + len < Len(s) => s[n + len + 1] = delimiter \/ len = max_len - 1
  /\ ReadLine(s, max_len, delimiter) =
       [ok |-> TRUE, str |-> SubSeq(s, n + 1, n + len), rest |-> Drop(s, n + len + 1)]

LEMMA ReadLineForm ==
  ASSUME NEW s \in Seq(Nat), NEW max_len \in Nat \ {0, 1}, NEW delimiter \in Nat
  PROVE  \/ /\ ~ReadLine(s, max_len, delimiter).ok
            /\ \A k \in 1 .. Len(s) : s[k] = delimiter
         \/ \E n \in Nat, len \in Nat \ {0} : TakesLine(s, max_len, delimiter, n, len)
<1>1. PICK n : n = Span(s, {delimiter})
  OBVIOUS
<1>2. /\ n \in 0 .. Len(s) /\ \A k \in 1 .. n : s[k] = delimiter
      /\ n < Len(s) => s[n + 1] # delimiter
  BY <1>1, SpanForm
<1>3. PICK t : t = Drop(s, n)
  OBVIOUS
<1>4. /\ t \in Seq(Nat) /\ Len(t) = Len(s) - n
      /\ \A k \in 1 .. Len(s) - n : t[k] = s[n + k]
  <2>1. n \in Nat /\ n <= Len(s)
    BY <1>2
  <2> QED BY <1>3, <2>1, DropForm
<1>5. Skip(s, delimiter) = t
  BY <1>1, <1>3 DEF Skip
<1>6. CASE n = Len(s)
  <2>1. t = <<>>
    BY <1>4, <1>6
  <2> QED BY <1>2, <1>5, <1>6, <2>1 DEF ReadLine
<1>7. CASE n < Len(s)
  <2>1. PICK q : q = Span(t, Nat \ {delimiter})
    OBVIOUS
  <2>2. /\ q \in 0 .. Len(t) /\ \A k \in 1 .. q : t[k] # delimiter
        /\ q < Len(t) => t[q + 1] = delimiter
    <3>1. /\ q \in 0 .. Len(t) /\ \A k \in 1 .. q : t[k] \in Nat \ {delimiter}
          /\ q < Len(t) => t[q + 1] \notin Nat \ {delimiter}
      BY <1>4, <2>1, SpanForm
    <3>2. \A k \in 1 .. Len(t) : t[k] \in Nat
      BY <1>4
    <3> QED BY <3>1, <3>2
  <2>3. q >= 1
    BY <1>2, <1>4, <1>7, <2>2
  <2>4. PICK len \in Nat : len = IF q <= max_len - 1 THEN q ELSE max_len - 1
    BY <2>2
  <2>5. Min({q, max_len - 1}) = len
    <3>1. q \in Nat /\ max_len - 1 \in Nat
      BY <2>2
    <3> QED BY <2>4, <3>1, MinOfTwo
  <2>6. t # <<>>
    <3>1. Len(t) # 0 /\ Len(<<>>) = 0
      BY <1>2, <1>4, <1>7
    <3> QED BY <3>1
  <2>7. ReadLine(s, max_len, delimiter)
          = [ok |-> TRUE, str |-> SubSeq(t, 1, len), rest |-> Drop(t, len + 1)]
    BY <1>5, <2>1, <2>5, <2>6 DEF ReadLine
  <2>8. n \in Nat /\ len \in Nat \ {0} /\ n + len <= Len(s) /\ len <= max_len - 1
    BY <1>2, <1>4, <2>2, <2>3, <2>4
  <2>9. SubSeq(t, 1, len) = SubSeq(s, n + 1, n + len)
    <3>1. PICK b \in Nat, e \in Nat : b = n + 1 /\ e = n + len
      BY <2>8
    <3>2. ASSUME NEW x \in 0 .. len - 1 PROVE t[1 + x] = s[b + x]
      <4>1. 1 + x \in 1 .. Len(s) - n /\ n + (1 + x) = b + x
        BY <1>4, <2>8, <3>1
      <4> QED BY <1>4, <4>1
    <3>3. SamePiece(t, 1, len, s, b, e)
      BY <1>4, <2>8, <3>1, <3>2 DEF SamePiece
    <3>4. Piece(t, 1, len) = Piece(s, b, e)
      BY <3>3, PieceEqual
    <3> QED BY <3>1, <3>4 DEF Piece
  <2>10. Drop(t, len + 1) = Drop(s, n + len + 1)
    <3>1. len + 1 \in Nat /\ n + (len + 1) = n + len + 1 /\ n <= Len(s)
      BY <2>8
    <3>2. Drop(Drop(s, n), len + 1) = Drop(s, n + (len + 1))
      BY <2>8, <3>1, DropDrop
    <3> QED BY <1>3, <3>1, <3>2
  <2>11. \A k \in n + 1 .. n + len : s[k] # delimiter
    <3> SUFFICES ASSUME NEW k \in n + 1 .. n + len PROVE s[k] # delimiter
      OBVIOUS
    <3>1. k - n \in 1 .. q /\ k - n \in 1 .. Len(s) - n /\ n + (k - n) = k
      BY <1>4, <2>2, <2>4, <2>8
    <3> QED BY <1>4, <2>2, <3>1
  <2>12. n + len < Len(s) => s[n + len + 1] = delimiter \/ len = max_len - 1
    <3> SUFFICES ASSUME n + len < Len(s), len # max_len - 1
                 PROVE  s[n + len + 1] = delimiter
      OBVIOUS
    <3>1. len = q /\ q + 1 \in 1 .. Len(s) - n /\ q < Len(t) /\ n + (q + 1) = n + len + 1
      BY <1>4, <2>2, <2>4, <2>8
    <3> QED BY <1>4, <2>2, <3>1
  <2>13. TakesLine(s, max_len, delimiter, n, len)
    BY <1>2, <2>7, <2>8, <2>9, <2>10, <2>11, <2>12 DEF TakesLine
  <2> QED BY <2>8, <2>13
<1> QED
  BY <1>2, <1>6, <1>7

-----------------------------------------------------------------------------

(***************************************************************************)
(* The lines of a file.                                                    *)
(***************************************************************************)

LEMMA RunForm ==
  ASSUME NEW f \in Seq(Nat), NEW r
  PROVE  r \in Runs(f) <=>
           \E b \in 1 .. Len(f), e \in 1 .. Len(f) :
             /\ r = <<b, e>> /\ b <= e
             /\ \A k \in b .. e : f[k] # Newline
             /\ b = 1 \/ f[b - 1] = Newline
             /\ e = Len(f) \/ f[e + 1] = Newline
<1>1. DOMAIN f = 1 .. Len(f)
  OBVIOUS
<1>2. ASSUME r \in Runs(f)
      PROVE  /\ r = <<r[1], r[2]>> /\ r[1] \in 1 .. Len(f) /\ r[2] \in 1 .. Len(f)
             /\ r[1] <= r[2] /\ \A k \in r[1] .. r[2] : f[k] # Newline
             /\ r[1] = 1 \/ f[r[1] - 1] = Newline
             /\ r[2] = Len(f) \/ f[r[2] + 1] = Newline
  BY <1>1, <1>2 DEF Runs
<1>3. ASSUME NEW b \in 1 .. Len(f), NEW e \in 1 .. Len(f), r = <<b, e>>, b <= e,
             \A k \in b .. e : f[k] # Newline,
             b = 1 \/ f[b - 1] = Newline, e = Len(f) \/ f[e + 1] = Newline
      PROVE  r \in Runs(f)
  <2>1. r \in (DOMAIN f) \X (DOMAIN f) /\ r[1] = b /\ r[2] = e
    BY <1>1, <1>3
  <2> QED BY <1>3, <2>1 DEF Runs
<1> QED
  BY <1>2, <1>3

LEMMA RunsFinite ==
  ASSUME NEW f \in Seq(Nat)
  PROVE  /\ IsFiniteSet(Runs(f)) /\ Cardinality(Runs(f)) \in Nat
         /\ \A p : /\ IsFiniteSet({r \in Runs(f) : r[1] <= p})
                   /\ Started(f, p) \in Nat /\ Started(f, p) <= Cardinality(Runs(f))
<1>1. DOMAIN f = 1 .. Len(f) /\ Len(f) \in Int /\ 1 \in Int
  OBVIOUS
<1>2. IsFiniteSet(1 .. Len(f))
  BY <1>1, FS_Interval
<1>3. IsFiniteSet(DOMAIN f)
  BY <1>1, <1>2
<1>4. IsFiniteSet((DOMAIN f) \X (DOMAIN f))
  BY <1>3, FS_Product
<1>5. Runs(f) \subseteq (DOMAIN f) \X (DOMAIN f)
  BY DEF Runs
<1>6. IsFiniteSet(Runs(f)) /\ Cardinality(Runs(f)) \in Nat
  BY <1>4, <1>5, FS_Subset, FS_CardinalityType
<1>7. ASSUME NEW p
      PROVE  /\ IsFiniteSet({r \in Runs(f) : r[1] <= p})
             /\ Started(f, p) \in Nat /\ Started(f, p) <= Cardinality(Runs(f))
  <2> DEFINE some == {r \in Runs(f) : r[1] <= p}
  <2>1. some \subseteq Runs(f)
    OBVIOUS
  <2>2. Started(f, p) = Cardinality(some)
    BY DEF Started
  <2> HIDE DEF some
  <2>3. IsFiniteSet(some) /\ Cardinality(some) <= Cardinality(Runs(f))
    BY <1>6, <2>1, FS_Subset
  <2>4. Cardinality(some) \in Nat
    BY <2>3, FS_CardinalityType
  <2> QED BY <2>2, <2>3, <2>4 DEF some
<1> QED
  BY <1>6, <1>7

LEMMA RunPlaces ==
  ASSUME NEW f \in Seq(Nat), NEW r \in Runs(f)
  PROVE  r[1] \in Nat /\ r[2] \in Nat
<1>1. r[1] \in DOMAIN f /\ r[2] \in DOMAIN f
  BY DEF Runs
<1> QED
  BY <1>1

\* A run is known by its beginning.
LEMMA RunIsMaximal ==
  ASSUME NEW f \in Seq(Nat), NEW q \in Runs(f), NEW r \in Runs(f), q[1] = r[1]
  PROVE  q = r
<1>1. PICK b \in 1 .. Len(f), d \in 1 .. Len(f) :
        /\ q = <<b, d>> /\ b <= d /\ \A k \in b .. d : f[k] # Newline
        /\ d = Len(f) \/ f[d + 1] = Newline
  BY RunForm
<1>2. PICK c \in 1 .. Len(f), e \in 1 .. Len(f) :
        /\ r = <<c, e>> /\ c <= e /\ \A k \in c .. e : f[k] # Newline
        /\ e = Len(f) \/ f[e + 1] = Newline
  BY RunForm
<1>3. b = c
  BY <1>1, <1>2
<1>4. ~(d < e)
  <2> SUFFICES ASSUME d < e PROVE FALSE
    OBVIOUS
  <2>1. d + 1 \in c .. e /\ d # Len(f)
    BY <1>1, <1>2, <1>3
  <2>2. f[d + 1] = Newline
    BY <1>1, <2>1
  <2>3. f[d + 1] # Newline
    BY <1>2, <2>1
  <2> QED BY <2>2, <2>3
<1>5. ~(e < d)
  <2> SUFFICES ASSUME e < d PROVE FALSE
    OBVIOUS
  <2>1. e + 1 \in b .. d /\ e # Len(f)
    BY <1>1, <1>2, <1>3
  <2>2. f[e + 1] = Newline
    BY <1>2, <2>1
  <2>3. f[e + 1] # Newline
    BY <1>1, <2>1
  <2> QED BY <2>2, <2>3
<1> QED
  BY <1>1, <1>2, <1>3, <1>4, <1>5

\* It is also known by the number of runs that start no later.
LEMMA RunAtRank ==
  ASSUME NEW f \in Seq(Nat), NEW r \in Runs(f)
  PROVE  RunAt(f, Started(f, r[1])) = r
<1>1. ASSUME NEW q \in Runs(f), NEW x \in Runs(f), q[1] < x[1]
      PROVE  Started(f, q[1]) # Started(f, x[1])
  <2> DEFINE Q == {y \in Runs(f) : y[1] <= q[1]}
             X == {y \in Runs(f) : y[1] <= x[1]}
  <2>1. \A y \in Runs(f) : y[1] \in Nat
    BY RunPlaces
  <2>2. Q \subseteq X /\ x \in X /\ x \notin Q
    BY <1>1, <2>1
  <2>3. IsFiniteSet(X)
    BY RunsFinite
  <2>4. Started(f, q[1]) = Cardinality(Q) /\ Started(f, x[1]) = Cardinality(X)
    BY DEF Started
  <2> HIDE DEF Q, X
  <2>5. Cardinality(Q) # Cardinality(X)
    BY <2>2, <2>3, FS_Subset
  <2> QED BY <2>4, <2>5
<1>2. ASSUME NEW q \in Runs(f), Started(f, q[1]) = Started(f, r[1])
      PROVE  q = r
  <2>1. q[1] \in Nat /\ r[1] \in Nat
    BY RunForm
  <2>2. ~(q[1] < r[1]) /\ ~(r[1] < q[1])
    BY <1>1, <1>2
  <2>3. q[1] = r[1]
    BY <2>1, <2>2
  <2> QED BY <2>3, RunIsMaximal
<1> QED
  BY <1>2 DEF RunAt

\* Not inside a line.
BetweenLines(f, p) ==
  \/ p = 0 \/ p = Len(f)
  \/ p \in 1 .. Len(f) /\ f[p] = Newline
  \/ p + 1 \in 1 .. Len(f) /\ f[p + 1] = Newline

\* After delimiters a line begins, and it has an end.
LEMMA RunFrom ==
  ASSUME NEW f \in Seq(Nat), NEW p \in 0 .. Len(f), BetweenLines(f, p),
         NEW b \in p + 1 .. Len(f), f[b] # Newline,
         \A k \in p + 1 .. b - 1 : f[k] = Newline
  PROVE  \E e \in b .. Len(f) : <<b, e>> \in Runs(f)
<1> DEFINE ends == {k \in b .. Len(f) : k = Len(f) \/ f[k + 1] = Newline}
<1>1. ends \subseteq Nat /\ Len(f) \in ends
  OBVIOUS
<1>2. PICK e \in ends : \A k \in ends : e <= k
  <2> HIDE DEF ends
  <2> QED BY <1>1, LeastExists
<1>3. ASSUME NEW k \in b .. e
      PROVE  f[k] # Newline
  <2>1. CASE k = b
    BY <2>1
  <2>2. CASE k > b
    <3>1. k - 1 \in b .. Len(f) /\ k - 1 < e /\ (k - 1) + 1 = k
      BY <1>2, <2>2
    <3>2. k - 1 \notin ends
      <4> HIDE DEF ends
      <4>1. e \in Int /\ k - 1 \in Int /\ ~(e <= k - 1)
        BY <1>1, <1>2, <3>1
      <4> QED BY <1>2, <4>1
    <3> QED BY <3>1, <3>2
  <2> QED BY <2>1, <2>2
<1>4. b = 1 \/ f[b - 1] = Newline
  <2>1. CASE b > p + 1
    <3>1. b - 1 \in p + 1 .. b - 1
      BY <2>1
    <3> QED BY <3>1
  <2>2. CASE b = p + 1
    BY <2>2 DEF BetweenLines
  <2> QED BY <2>1, <2>2
<1>5. e \in b .. Len(f) /\ (e = Len(f) \/ f[e + 1] = Newline)
  BY <1>2
<1>6. <<b, e>> \in Runs(f)
  BY <1>3, <1>4, <1>5, RunForm
<1> QED
  BY <1>5, <1>6

\* It is the next one in the order of the lines.
LEMMA NextRun ==
  ASSUME NEW f \in Seq(Nat), NEW p \in 0 .. Len(f),
         NEW b \in p + 1 .. Len(f), NEW e \in b .. Len(f), <<b, e>> \in Runs(f),
         \A k \in p + 1 .. b - 1 : f[k] = Newline,
         NEW x \in b .. Len(f), x <= e + 1
  PROVE  Started(f, x) = Started(f, p) + 1
<1> DEFINE before == {q \in Runs(f) : q[1] <= p}
           upto == {q \in Runs(f) : q[1] <= x}
<1>1. \A k \in b .. e : f[k] # Newline
  BY RunForm
<1>2. e = Len(f) \/ f[e + 1] = Newline
  BY RunForm
<1>3. ASSUME NEW q \in Runs(f), q[1] <= x, ~(q[1] <= p)
      PROVE  q = <<b, e>>
  <2>1. PICK c \in 1 .. Len(f), d \in 1 .. Len(f) :
          /\ q = <<c, d>> /\ c <= d /\ \A k \in c .. d : f[k] # Newline
          /\ c = 1 \/ f[c - 1] = Newline
          /\ d = Len(f) \/ f[d + 1] = Newline
    BY RunForm
  <2>2. c \in p + 1 .. x /\ f[c] # Newline /\ q[1] = c
    BY <1>3, <2>1
  <2>3. ~(c < b)
    <3> SUFFICES ASSUME c < b PROVE FALSE
      OBVIOUS
    <3>1. c \in p + 1 .. b - 1
      BY <2>2
    <3> QED BY <2>2, <3>1
  <2>4. ~(c \in b + 1 .. e)
    <3> SUFFICES ASSUME c \in b + 1 .. e PROVE FALSE
      OBVIOUS
    <3>1. PICK k \in b .. e : k = c - 1
      OBVIOUS
    <3>2. f[k] = Newline
      BY <2>1, <3>1
    <3> QED BY <1>1, <3>2
  <2>5. ~(c = e + 1)
    BY <1>2, <2>2
  <2>6. c = b
    BY <2>2, <2>3, <2>4, <2>5
  <2> QED BY <2>2, <2>6, RunIsMaximal
<1>4. \A q \in Runs(f) : q[1] \in Nat
  BY RunForm
<1>5. upto = before \cup {<<b, e>>} /\ <<b, e>> \notin before
  <2>1. <<b, e>>[1] = b
    OBVIOUS
  <2> QED BY <1>3, <1>4, <2>1
<1>6. IsFiniteSet(before)
  BY RunsFinite
<1>7. Started(f, p) = Cardinality(before) /\ Started(f, x) = Cardinality(upto)
  BY DEF Started
<1> HIDE DEF before, upto
<1> QED
  BY <1>5, <1>6, <1>7, FS_AddElement

(***************************************************************************)
(* One ReadLine from between two lines reads the next run, cut to the      *)
(* buffer, and gets between two lines again, if all lines fit.             *)
(***************************************************************************)
LEMMA LineRead ==
  ASSUME NEW f \in Seq(Nat), \A r \in Runs(f) : r[2] - r[1] < MaxLen,
         NEW p \in 0 .. Len(f), BetweenLines(f, p),
         NEW n \in Nat, NEW len \in Nat \ {0},
         TakesLine(Drop(f, p), MaxLen, Newline, n, len)
  PROVE  \E x \in p + 1 .. Len(f) :
           /\ BetweenLines(f, x) /\ Started(f, x) = Started(f, p) + 1
           /\ Drop(Drop(f, p), n + len + 1) = Drop(f, x)
           /\ SubSeq(Drop(f, p), n + 1, n + len) = UrlsOf(f)[Started(f, x)]
<1>1. PICK s : s = Drop(f, p)
  OBVIOUS
<1>2. /\ s \in Seq(Nat) /\ Len(s) = Len(f) - p
      /\ \A k \in 1 .. Len(f) - p : s[k] = f[p + k]
  <2>1. p \in Nat /\ p <= Len(f)
    OBVIOUS
  <2> QED BY <1>1, <2>1, DropForm
<1>3. /\ \A k \in 1 .. n : s[k] = Newline
      /\ n + len <= Len(s) /\ len <= MaxLen - 1
      /\ \A k \in n + 1 .. n + len : s[k] # Newline
      /\ n + len < Len(s) => s[n + len + 1] = Newline \/ len = MaxLen - 1
  BY <1>1 DEF TakesLine
<1>4. PICK b \in Nat, last \in Nat : b = p + n + 1 /\ last = p + n + len
  OBVIOUS
<1>5. b \in p + 1 .. Len(f) /\ last \in b .. Len(f) /\ last - b = len - 1
  <2>1. n + len <= Len(f) - p /\ Len(f) \in Nat
    BY <1>2, <1>3
  <2> QED BY <1>4, <2>1
<1>6. \A k \in p + 1 .. b - 1 : f[k] = Newline
  <2> SUFFICES ASSUME NEW k \in p + 1 .. b - 1 PROVE f[k] = Newline
    OBVIOUS
  <2>1. k - p \in 1 .. n /\ k - p \in 1 .. Len(f) - p /\ p + (k - p) = k
    BY <1>4, <1>5
  <2> QED BY <1>2, <1>3, <2>1
<1>7. \A k \in b .. last : f[k] # Newline
  <2> SUFFICES ASSUME NEW k \in b .. last PROVE f[k] # Newline
    OBVIOUS
  <2>1. k - p \in n + 1 .. n + len /\ k - p \in 1 .. Len(f) - p /\ p + (k - p) = k
    BY <1>4, <1>5
  <2> QED BY <1>2, <1>3, <2>1
<1>8. last < Len(f) => f[last + 1] = Newline \/ len = MaxLen - 1
  <2> SUFFICES ASSUME last < Len(f) PROVE f[last + 1] = Newline \/ len = MaxLen - 1
    OBVIOUS
  <2>1. /\ n + len < Len(s) /\ n + len + 1 \in 1 .. Len(f) - p
        /\ p + (n + len + 1) = last + 1
    BY <1>2, <1>4
  <2> QED BY <1>2, <1>3, <2>1
<1>9. PICK e \in b .. Len(f) : <<b, e>> \in Runs(f)
  <2>1. f[b] # Newline
    BY <1>5, <1>7
  <2> QED BY <1>5, <1>6, <2>1, RunFrom
<1>10. e - b < MaxLen
  <2>1. <<b, e>>[1] = b /\ <<b, e>>[2] = e
    OBVIOUS
  <2> QED BY <1>9, <2>1
<1>11. (\A k \in b .. e : f[k] # Newline) /\ (e = Len(f) \/ f[e + 1] = Newline)
  BY <1>9, RunForm
<1>12. last <= e
  <2> SUFFICES ASSUME e < last PROVE FALSE
    BY <1>5
  <2>1. e + 1 \in b .. last /\ e # Len(f)
    BY <1>5
  <2> QED BY <1>7, <1>11, <2>1
<1>13. e = last \/ (e = last + 1 /\ len = MaxLen - 1)
  <2> SUFFICES ASSUME e # last PROVE e = last + 1 /\ len = MaxLen - 1
    OBVIOUS
  <2>1. last + 1 \in b .. e /\ last < Len(f)
    BY <1>5, <1>12
  <2>2. len = MaxLen - 1
    BY <1>8, <1>11, <2>1
  <2>3. MaxLen \in Nat
    BY ReaderAssumption
  <2> QED BY <1>5, <1>10, <1>12, <2>2, <2>3
<1>14. PICK x \in p + 1 .. Len(f) : x = IF last + 1 <= Len(f) THEN last + 1 ELSE Len(f)
  BY <1>5
<1>15. x \in b .. Len(f) /\ x <= e + 1
  BY <1>5, <1>12, <1>14
<1>16. BetweenLines(f, x)
  <2>1. CASE x = Len(f)
    BY <2>1 DEF BetweenLines
  <2>2. CASE x < Len(f)
    <3>1. x = last + 1
      BY <1>14, <2>2
    <3>2. CASE e = last
      BY <1>11, <2>2, <3>1, <3>2 DEF BetweenLines
    <3>3. CASE e = last + 1
      <4>1. x + 1 \in 1 .. Len(f) /\ f[x + 1] = Newline
        BY <1>11, <2>2, <3>1, <3>3
      <4> QED BY <4>1 DEF BetweenLines
    <3> QED BY <1>13, <3>2, <3>3
  <2> QED BY <2>1, <2>2
<1>17. Started(f, x) = Started(f, p) + 1 /\ Started(f, b) = Started(f, p) + 1
  <2>1. b \in b .. Len(f) /\ b <= e + 1
    BY <1>5
  <2> QED BY <1>5, <1>6, <1>9, <1>15, <2>1, NextRun
<1>18. Drop(Drop(f, p), n + len + 1) = Drop(f, x)
  <2>1. PICK y \in Nat : y = p + (n + len + 1)
    OBVIOUS
  <2>2. Drop(Drop(f, p), n + len + 1) = Drop(f, y)
    <3>1. n + len + 1 \in Nat /\ p \in Nat /\ p <= Len(f)
      OBVIOUS
    <3> QED BY <2>1, <3>1, DropDrop
  <2>3. CASE x = y
    BY <2>2, <2>3
  <2>4. CASE x # y
    <3>1. x = Len(f) /\ y > Len(f) /\ x \in Nat
      BY <1>4, <1>5, <1>14, <2>1, <2>4
    <3>2. Drop(f, x) \in Seq(Nat) /\ Len(Drop(f, x)) = 0
      BY <3>1, DropForm
    <3>3. Drop(f, y) \in Seq(Nat) /\ Len(Drop(f, y)) = 0
      BY <3>1, DropForm
    <3>4. Drop(f, x) = Drop(f, y)
      BY <3>2, <3>3, SeqEqual
    <3> QED BY <2>2, <3>4
  <2> QED BY <2>3, <2>4
<1>19. SubSeq(Drop(f, p), n + 1, n + len) = UrlsOf(f)[Started(f, x)]
  <2>1. SubSeq(Drop(f, p), n + 1, n + len) = SubSeq(f, b, last)
    <3>1. PICK i \in Nat \ {0}, k \in Nat : i = n + 1 /\ k = n + len
      OBVIOUS
    <3>2. ASSUME NEW h \in 0 .. k - i PROVE s[i + h] = f[b + h]
      <4>1. i + h \in 1 .. Len(f) - p /\ p + (i + h) = b + h
        BY <1>2, <1>3, <1>4, <3>1
      <4> QED BY <1>2, <4>1
    <3>3. SamePiece(s, i, k, f, b, last)
      <4>1. s \in Seq(Nat) /\ f \in Seq(Nat) /\ k <= Len(s) /\ last <= Len(f)
        BY <1>2, <1>3, <1>5, <3>1
      <4>2. i <= k + 1 /\ b \in Nat \ {0} /\ b <= last + 1 /\ last - b = k - i
        BY <1>4, <1>5, <3>1
      <4> QED BY <3>2, <4>1, <4>2 DEF SamePiece
    <3>4. Piece(s, i, k) = Piece(f, b, last)
      BY <3>3, PieceEqual
    <3> QED BY <1>1, <3>1, <3>4 DEF Piece
  <2>2. PICK c \in Nat : c = b + MaxLen - 2
    BY ReaderAssumption
  <2>3. Min({e, c}) = last
    <3>1. e \in Nat /\ MaxLen \in Nat
      BY <1>9, ReaderAssumption
    <3>2. last = IF e <= c THEN e ELSE c
      BY <1>3, <1>5, <1>13, <2>2, <3>1
    <3> QED BY <3>1, <3>2, MinOfTwo
  <2>4. Url(f, <<b, e>>) = SubSeq(f, b, last)
    BY <2>2, <2>3 DEF Url
  <2>5. <<b, e>>[1] = b
    OBVIOUS
  <2>6. RunAt(f, Started(f, x)) = <<b, e>>
    BY <1>9, <1>17, <2>5, RunAtRank
  <2>7. Started(f, x) \in 1 .. Cardinality(Runs(f))
    <3>1. /\ Started(f, x) \in Nat /\ Started(f, x) <= Cardinality(Runs(f))
          /\ Started(f, p) \in Nat /\ Cardinality(Runs(f)) \in Nat
      BY RunsFinite
    <3> QED BY <1>17, <3>1
  <2>8. UrlsOf(f)[Started(f, x)] = Url(f, RunAt(f, Started(f, x)))
    BY <2>7 DEF UrlsOf
  <2> QED BY <2>1, <2>4, <2>6, <2>8
<1> QED
  BY <1>16, <1>17, <1>18, <1>19

\* When only delimiters are left all lines are read.
LEMMA NoMoreRuns ==
  ASSUME NEW f \in Seq(Nat), NEW p \in 0 .. Len(f),
         \A k \in 1 .. Len(Drop(f, p)) : Drop(f, p)[k] = Newline
  PROVE  Started(f, p) = Cardinality(Runs(f))
<1>1. PICK s : s = Drop(f, p)
  OBVIOUS
<1>2. Len(s) = Len(f) - p /\ \A k \in 1 .. Len(f) - p : s[k] = f[p + k]
  <2>1. p \in Nat /\ p <= Len(f)
    OBVIOUS
  <2> QED BY <1>1, <2>1, DropForm
<1>3. ASSUME NEW r \in Runs(f)
      PROVE  r[1] <= p
  <2>1. r[1] \in 1 .. Len(f) /\ f[r[1]] # Newline
    BY RunForm
  <2>2. ASSUME r[1] > p PROVE FALSE
    <3>1. r[1] - p \in 1 .. Len(f) - p /\ p + (r[1] - p) = r[1]
      BY <2>1, <2>2
    <3> QED BY <1>1, <1>2, <2>1, <3>1
  <2> QED BY <2>1, <2>2
<1>4. {r \in Runs(f) : r[1] <= p} = Runs(f)
  BY <1>3
<1> QED
  BY <1>4 DEF Started

-----------------------------------------------------------------------------

(***************************************************************************)
(* Prefixes, character by character.                                       *)
(***************************************************************************)

LEMMA PrefixIs ==
  ASSUME NEW S, NEW u \in Seq(S), NEW w \in Seq(S), Len(u) <= Len(w),
         \A k \in 1 .. Len(u) : u[k] = w[k]
  PROVE  IsPrefix(u, w)
<1>1. PICK m \in Nat : m = Len(u)
  OBVIOUS
<1>2. /\ SubSeq(u, 1, m) \in Seq(S) /\ Len(SubSeq(u, 1, m)) = m
      /\ \A k \in 1 .. m : SubSeq(u, 1, m)[k] = u[k]
  BY <1>1
<1>3. /\ SubSeq(w, 1, m) \in Seq(S) /\ Len(SubSeq(w, 1, m)) = m
      /\ \A k \in 1 .. m : SubSeq(w, 1, m)[k] = w[k]
  BY <1>1
<1>4. SubSeq(u, 1, m) = SubSeq(w, 1, m)
  BY <1>1, <1>2, <1>3, SeqEqual
<1> QED
  BY <1>1, <1>4 DEF IsPrefix

LEMMA PrefixForm ==
  ASSUME NEW u \in Seq(Nat), NEW w \in Seq(Nat), IsPrefix(u, w)
  PROVE  Len(u) <= Len(w) /\ \A k \in 1 .. Len(u) : u[k] = w[k]
<1>1. PICK m \in Nat : m = Len(u)
  OBVIOUS
<1>2. m <= Len(w) /\ SubSeq(u, 1, m) = SubSeq(w, 1, m)
  BY <1>1 DEF IsPrefix
<1>3. \A k \in 1 .. m : SubSeq(u, 1, m)[k] = u[k] /\ SubSeq(w, 1, m)[k] = w[k]
  BY <1>1, <1>2
<1> QED
  BY <1>1, <1>2, <1>3

\* A string precedes its extensions.
LEMMA PrefixPrecedes ==
  ASSUME NEW u \in Seq(Nat), NEW w \in Seq(Nat), IsStrictPrefix(u, w)
  PROVE  Precedes(u, w)
<1>1. Len(u) <= Len(w) /\ (\A k \in 1 .. Len(u) : u[k] = w[k]) /\ u # w
  BY PrefixForm DEF IsStrictPrefix
<1>2. Len(u) # Len(w)
  BY <1>1
<1>3. PICK k \in 1 .. Len(w) : k = Len(u) + 1
  BY <1>1, <1>2
<1>4. AgreeBefore(u, w, k)
  BY <1>1, <1>3 DEF AgreeBefore
<1>5. k <= Len(u) + 1 /\ ~(k <= Len(u))
  BY <1>3
<1> QED
  BY <1>4, <1>5 DEF Precedes

-----------------------------------------------------------------------------

(***************************************************************************)
(* One step of the program, as far as the input is concerned.              *)
(***************************************************************************)
ReadType ==
  /\ original \in Files /\ original \in Seq(Nat)
  /\ in \in Seq(Nat) /\ urls \in Seq(Seq(Nat))
  /\ state \in {"input", "spill", "done"}

\* What the reading of a URL with n delimiters and len characters does.
Transfers(n, len) ==
  /\ TakesLine(in, MaxLen, Newline, n, len)
  /\ in' = Drop(in, n + len + 1)
  /\ urls' = Append(urls, SubSeq(in, n + 1, n + len))

LEMMA MaxLenType == MaxLen \in Nat \ {0, 1} /\ Newline \in Nat /\ Tab \in Nat
BY ReaderAssumption DEF Newline, Tab

LEMMA TransferForm ==
  ASSUME ReadType, TransferUrl
  PROVE  \E n \in Nat, len \in Nat \ {0} : Transfers(n, len)
<1>1. ReadLine(in, MaxLen, Newline).ok
  BY DEF TransferUrl
<1>2. PICK n \in Nat, len \in Nat \ {0} : TakesLine(in, MaxLen, Newline, n, len)
  BY <1>1, ReadLineForm, MaxLenType DEF ReadType
<1>3. ReadLine(in, MaxLen, Newline) =
        [ok |-> TRUE, str |-> SubSeq(in, n + 1, n + len), rest |-> Drop(in, n + len + 1)]
  BY <1>2 DEF TakesLine
<1>4. in' = ReadLine(in, MaxLen, Newline).rest
      /\ urls' = Append(urls, ReadLine(in, MaxLen, Newline).str)
  BY DEF TransferUrl
<1>5. in' = Drop(in, n + len + 1) /\ urls' = Append(urls, SubSeq(in, n + 1, n + len))
  BY <1>3, <1>4
<1> QED
  BY <1>2, <1>5 DEF Transfers

\* The line that is read is made of characters of the stream.
Taken(v, s, n, len) ==
  v \in Seq(Nat) /\ Len(v) = len /\ \A k \in 1 .. len : v[k] = s[n + k]

LEMMA LineTaken ==
  ASSUME NEW s \in Seq(Nat), NEW max_len, NEW delimiter, NEW n \in Nat, NEW len \in Nat \ {0},
         TakesLine(s, max_len, delimiter, n, len)
  PROVE  Taken(SubSeq(s, n + 1, n + len), s, n, len)
<1>1. PICK i \in Nat \ {0}, k \in Nat : i = n + 1 /\ k = n + len
  OBVIOUS
<1>2. i <= k + 1 /\ k <= Len(s) /\ k - i + 1 = len
  BY <1>1 DEF TakesLine
<1>3. /\ Piece(s, i, k) \in Seq(Nat) /\ Len(Piece(s, i, k)) = k - i + 1
      /\ \A x \in 1 .. k - i + 1 : Piece(s, i, k)[x] = s[i + x - 1]
  BY <1>2, PieceForm
<1>4. PICK u : u = Piece(s, i, k)
  OBVIOUS
<1>5. u \in Seq(Nat) /\ Len(u) = len /\ \A x \in 1 .. len : u[x] = s[i + x - 1]
  BY <1>2, <1>3, <1>4
<1>6. \A x \in 1 .. len : i + x - 1 = n + x
  BY <1>1
<1>7. \A x \in 1 .. len : u[x] = s[n + x]
  BY <1>5, <1>6
<1>8. u = SubSeq(s, n + 1, n + len)
  BY <1>1, <1>4 DEF Piece
<1>9. Taken(u, s, n, len)
  BY <1>5, <1>7 DEF Taken
<1> QED
  BY <1>8, <1>9

LEMMA ReadTypeInit ==
  ASSUME MCInit
  PROVE  ReadType
BY ReaderAssumption DEF MCInit, ReaderInit, ReadType

LEMMA ReadTypeStep ==
  ASSUME ReadType, [MCNext]_<<readerVars, original>>
  PROVE  ReadType'
<1>1. CASE TransferUrl /\ UNCHANGED original
  <2>1. PICK n \in Nat, len \in Nat \ {0} : Transfers(n, len)
    BY <1>1, TransferForm
  <2>2. SubSeq(in, n + 1, n + len) \in Seq(Nat)
    BY <2>1, LineTaken DEF Transfers, ReadType, Taken
  <2>3. urls' \in Seq(Seq(Nat))
    <3>1. PICK u : u = SubSeq(in, n + 1, n + len)
      OBVIOUS
    <3> QED BY <2>1, <2>2, <3>1 DEF Transfers, ReadType
  <2>4. in' \in Seq(Nat)
    <3>1. n + len + 1 \in Nat
      OBVIOUS
    <3> QED BY <2>1, <3>1, DropForm DEF Transfers, ReadType
  <2> QED BY <1>1, <2>3, <2>4 DEF TransferUrl, ReadType
<1>2. CASE InputRead /\ UNCHANGED original
  BY <1>2 DEF InputRead, ReadType
<1>3. CASE NextResultTupleInFile /\ UNCHANGED original
  BY <1>3 DEF NextResultTupleInFile, ReadType
<1>4. CASE ReaderDone /\ UNCHANGED original
  BY <1>4 DEF ReaderDone, readerVars, ReadType
<1>5. CASE UNCHANGED <<readerVars, original>>
  BY <1>5 DEF readerVars, ReadType
<1> QED
  BY <1>1, <1>2, <1>3, <1>4, <1>5 DEF MCNext, ReaderNext

(***************************************************************************)
(* The streams, the URLs and the rows keep their types (ReadType), for all *)
(* files, whatever ReadLine and the reading of a count return.             *)
(***************************************************************************)
THEOREM ReaderTypes == MCSpec => []ReadType
<1>1. MCInit => ReadType
  BY ReadTypeInit
<1>2. ReadType /\ [MCNext]_<<readerVars, original>> => ReadType'
  BY ReadTypeStep
<1> QED
  BY <1>1, <1>2, PTL DEF MCSpec

LEMMA WordType == Words \subseteq Seq(Nat)
<1> SUFFICES ASSUME NEW n \in 1 .. MaxLen - 1, NEW v \in [1 .. n -> Alphabet \ {Newline}]
             PROVE  v \in Seq(Nat)
  BY DEF Words
<1>1. n \in Nat
  BY MaxLenType
<1>2. v \in [1 .. n -> Nat]
  BY AlphabetAssumption
<1> QED
  BY <1>1, <1>2

(***************************************************************************)
(* StrCompare ranks the URLs that are read (UrlsRanked), for every         *)
(* alphabet, every file and every buffer.                                  *)
(***************************************************************************)
THEOREM UrlsAreRanked == MCSpec => []UrlsRanked
<1>1. ASSUME ReadType PROVE UrlsRanked
  <2>1. ASSUME NEW u \in Range(urls) PROVE u \in Seq(Nat)
    BY <1>1 DEF ReadType, Range
  <2>2. ASSUME NEW u \in Range(urls), NEW v \in Words, NEW w \in Range(urls)
        PROVE  /\ StrCompare(u, v) = 0 <=> u = v
               /\ StrCompare(u, v) < 0 <=> StrCompare(v, u) > 0
               /\ IsStrictPrefix(u, v) => StrCompare(u, v) < 0
               /\ StrCompare(u, v) < 0 /\ StrCompare(v, w) < 0 => StrCompare(u, w) < 0
    <3>1. u \in Seq(Nat) /\ v \in Seq(Nat) /\ w \in Seq(Nat)
      BY <2>1, WordType
    <3>2. /\ StrCompare(u, v) = 0 <=> u = v
          /\ StrCompare(u, v) < 0 <=> Precedes(u, v)
          /\ StrCompare(v, u) > 0 <=> Precedes(u, v)
          /\ StrCompare(v, w) < 0 <=> Precedes(v, w)
          /\ StrCompare(u, w) < 0 <=> Precedes(u, w)
      BY <3>1, StrCompareIsOrder
    <3> QED BY <3>1, <3>2, PrecedesTransitive, PrefixPrecedes
  <2> QED BY <2>2 DEF UrlsRanked
<1> QED
  BY <1>1, ReaderTypes, PTL

-----------------------------------------------------------------------------

(***************************************************************************)
(* What of the file has been read, p characters, ends between two lines,   *)
(* and the URLs are those of the lines that have started by then.          *)
(***************************************************************************)
ReadUpTo(p) ==
  /\ in = Drop(original, p) /\ BetweenLines(original, p)
  /\ Len(urls) = Started(original, p)
  /\ \A k \in 1 .. Len(urls) : urls[k] = UrlsOf(original)[k]

ReadInv ==
  /\ \E p \in 0 .. Len(original) : ReadUpTo(p)
  /\ state # "input" => Len(urls) = Cardinality(Runs(original))

LEMMA ReadInvInit ==
  ASSUME MCInit
  PROVE  ReadInv
<1>1. original \in Seq(Nat) /\ in = original /\ urls = <<>> /\ state = "input"
  BY ReaderAssumption DEF MCInit, ReaderInit
<1>2. {r \in Runs(original) : r[1] <= 0} = {}
  BY <1>1, RunForm
<1>3. Started(original, 0) = 0
  BY <1>2, FS_EmptySet DEF Started
<1>4. ReadUpTo(0)
  BY <1>1, <1>3, DropNone DEF ReadUpTo, BetweenLines
<1> QED
  BY <1>1, <1>4 DEF ReadInv

LEMMA ReadInvTransfer ==
  ASSUME LinesFit, ReadType, ReadInv, TransferUrl, UNCHANGED original
  PROVE  ReadInv'
<1>1. PICK p \in 0 .. Len(original) : ReadUpTo(p)
  BY DEF ReadInv
<1>2. PICK n \in Nat, len \in Nat \ {0} : Transfers(n, len)
  BY TransferForm
<1>3. PICK f \in Seq(Nat) : f = original
  BY DEF ReadType
<1>4. \A r \in Runs(f) : r[2] - r[1] < MaxLen
  BY <1>3 DEF LinesFit, ReadType
<1>5. /\ in = Drop(f, p) /\ BetweenLines(f, p) /\ Len(urls) = Started(f, p)
      /\ \A k \in 1 .. Len(urls) : urls[k] = UrlsOf(f)[k]
  BY <1>1, <1>3 DEF ReadUpTo
<1>6. TakesLine(Drop(f, p), MaxLen, Newline, n, len)
  BY <1>2, <1>5 DEF Transfers
<1>7. PICK x \in p + 1 .. Len(f) :
        /\ BetweenLines(f, x) /\ Started(f, x) = Started(f, p) + 1
        /\ Drop(Drop(f, p), n + len + 1) = Drop(f, x)
        /\ SubSeq(Drop(f, p), n + 1, n + len) = UrlsOf(f)[Started(f, x)]
  <2>1. p \in 0 .. Len(f)
    BY <1>3
  <2> QED BY <1>4, <1>5, <1>6, <2>1, LineRead
<1>8. PICK u : u = SubSeq(in, n + 1, n + len)
  OBVIOUS
<1>9. urls' = Append(urls, u) /\ in' = Drop(f, x) /\ u = UrlsOf(f)[Started(f, x)]
  BY <1>2, <1>5, <1>7, <1>8 DEF Transfers
<1>10. /\ Len(urls') = Len(urls) + 1 /\ urls'[Len(urls) + 1] = u
       /\ \A k \in 1 .. Len(urls) : urls'[k] = urls[k]
  BY <1>9 DEF ReadType
<1>11. Len(urls') = Started(f, x) /\ Len(urls) \in Nat
  BY <1>5, <1>7, <1>10 DEF ReadType
<1>12. ASSUME NEW k \in 1 .. Len(urls')
       PROVE  urls'[k] = UrlsOf(f)[k]
  <2>1. CASE k = Len(urls) + 1
    BY <1>5, <1>7, <1>9, <1>10, <2>1
  <2>2. CASE k # Len(urls) + 1
    <3>1. k \in 1 .. Len(urls)
      BY <1>10, <1>11, <2>2
    <3> QED BY <1>5, <1>10, <3>1
  <2> QED BY <2>1, <2>2
<1>13. ReadUpTo(x)'
  BY <1>3, <1>7, <1>9, <1>11, <1>12 DEF ReadUpTo
<1>14. x \in 0 .. Len(original)' /\ state' = "input"
  BY <1>3 DEF TransferUrl
<1> QED
  BY <1>13, <1>14 DEF ReadInv

LEMMA ReadInvEnd ==
  ASSUME ReadType, ReadInv, InputRead, UNCHANGED original
  PROVE  ReadInv'
<1>1. PICK p \in 0 .. Len(original) : ReadUpTo(p)
  BY DEF ReadInv
<1>2. ~ReadLine(in, MaxLen, Newline).ok /\ UNCHANGED <<in, urls>>
  BY DEF InputRead
<1>3. \A k \in 1 .. Len(in) : in[k] = Newline
  <2>1. ASSUME NEW n \in Nat, NEW len \in Nat \ {0}, TakesLine(in, MaxLen, Newline, n, len)
        PROVE  FALSE
    BY <1>2, <2>1 DEF TakesLine
  <2>2. in \in Seq(Nat)
    BY DEF ReadType
  <2> QED BY <2>1, <2>2, ReadLineForm, MaxLenType
<1>4. PICK f \in Seq(Nat) : f = original
  BY DEF ReadType
<1>5. Started(f, p) = Cardinality(Runs(f))
  <2>1. p \in 0 .. Len(f) /\ \A k \in 1 .. Len(Drop(f, p)) : Drop(f, p)[k] = Newline
    BY <1>1, <1>3, <1>4 DEF ReadUpTo
  <2> QED BY <2>1, NoMoreRuns
<1>6. Len(urls) = Cardinality(Runs(original))
  BY <1>1, <1>4, <1>5 DEF ReadUpTo
<1>7. ReadUpTo(p)'
  BY <1>1, <1>2 DEF ReadUpTo
<1> QED
  BY <1>2, <1>6, <1>7 DEF ReadInv

LEMMA ReadInvStep ==
  ASSUME LinesFit, ReadType, ReadInv, [MCNext]_<<readerVars, original>>
  PROVE  ReadInv'
<1>1. CASE TransferUrl /\ UNCHANGED original
  BY <1>1, ReadInvTransfer
<1>2. CASE InputRead /\ UNCHANGED original
  BY <1>2, ReadInvEnd
<1>3. ASSUME UNCHANGED <<in, urls, original>>, state # "input" \/ state' = state
      PROVE  ReadInv'
  <2>1. PICK p \in 0 .. Len(original) : ReadUpTo(p)
    BY DEF ReadInv
  <2>2. ReadUpTo(p)'
    BY <1>3, <2>1 DEF ReadUpTo
  <2> QED BY <1>3, <2>2 DEF ReadInv
<1>4. CASE NextResultTupleInFile /\ UNCHANGED original
  <2>1. UNCHANGED <<in, urls, original>> /\ state # "input"
    BY <1>4 DEF NextResultTupleInFile
  <2> QED BY <1>3, <2>1
<1>5. CASE UNCHANGED <<readerVars, original>>
  BY <1>3, <1>5 DEF readerVars
<1>6. CASE ReaderDone /\ UNCHANGED original
  BY <1>3, <1>6 DEF ReaderDone, readerVars
<1> QED
  BY <1>1, <1>2, <1>4, <1>5, <1>6 DEF MCNext, ReaderNext

(***************************************************************************)
(* ReadLine reads the URLs of every file, one by one and all of them       *)
(* (ReadsUrls), if no line is longer than the buffer by more than the one  *)
(* character that ReadLine drops.                                          *)
(***************************************************************************)
THEOREM AllUrlsAreRead ==
  ASSUME LinesFit
  PROVE  MCSpec => []ReadsUrls
<1>1. MCInit => ReadType /\ ReadInv
  BY ReadTypeInit, ReadInvInit
<1>2. ReadType /\ ReadInv /\ [MCNext]_<<readerVars, original>> => ReadType' /\ ReadInv'
  BY ReadTypeStep, ReadInvStep
<1>3. ASSUME ReadType, ReadInv PROVE ReadsUrls
  <2>1. PICK N \in Nat : N = Cardinality(Runs(original))
    BY <1>3, RunsFinite DEF ReadType
  <2>2. PICK p \in 0 .. Len(original) : ReadUpTo(p)
    BY <1>3 DEF ReadInv
  <2>3. PICK w, S : w = UrlsOf(original) /\ S = {w[k] : k \in 1 .. N} \cup Seq(Nat)
    OBVIOUS
  <2>4. w \in Seq(S) /\ Len(w) = N
    <3>1. w = [k \in 1 .. N |-> Url(original, RunAt(original, k))]
      BY <2>1, <2>3 DEF UrlsOf
    <3>2. w \in [1 .. N -> S]
      BY <2>3, <3>1
    <3> QED BY <3>2
  <2>5. urls \in Seq(S)
    <3>1. Seq(Nat) \subseteq S
      BY <2>3
    <3> QED BY <1>3, <3>1, SeqMonotonic DEF ReadType
  <2>6. Len(urls) <= Len(w) /\ \A k \in 1 .. Len(urls) : urls[k] = w[k]
    BY <1>3, <2>1, <2>2, <2>3, <2>4, RunsFinite DEF ReadUpTo, ReadType
  <2>7. IsPrefix(urls, w)
    BY <2>4, <2>5, <2>6, PrefixIs
  <2>8. state # "input" => urls = w
    <3> SUFFICES ASSUME state # "input" PROVE urls = w
      OBVIOUS
    <3>1. Len(urls) = Len(w)
      BY <1>3, <2>1, <2>4 DEF ReadInv
    <3> QED BY <2>4, <2>5, <2>6, <3>1, SeqEqual
  <2> QED BY <2>3, <2>7, <2>8 DEF ReadsUrls
<1> QED
  BY <1>1, <1>2, <1>3, PTL DEF MCSpec

-----------------------------------------------------------------------------

(***************************************************************************)
(* A recursion whose calls go to lesser numbers defines a function: pred   *)
(* is the number called, step the value from the number and what the call  *)
(* returns.                                                                *)
(***************************************************************************)
Descends(pred) == pred \in [Nat -> Nat] /\ \A k \in Nat \ {0} : pred[k] < k
Obeys(f, n, base, pred, step) ==
  \A k \in 0 .. n : f[k] = IF k = 0 THEN base ELSE step[k][f[pred[k]]]

LEMMA ObeysAgree ==
  ASSUME NEW base, NEW pred, Descends(pred), NEW step,
         NEW f, NEW m \in Nat, Obeys(f, m, base, pred, step),
         NEW g, NEW n \in Nat, Obeys(g, n, base, pred, step),
         NEW k \in Nat, k <= m, k <= n
  PROVE  f[k] = g[k]
<1> DEFINE differ == {j \in Nat : j <= m /\ j <= n /\ f[j] # g[j]}
<1>1. CASE differ = {}
  BY <1>1
<1>2. CASE differ # {}
  <2>1. PICK j \in differ : \A i \in differ : j <= i
    <3>1. differ \subseteq Nat
      OBVIOUS
    <3> HIDE DEF differ
    <3> QED BY <1>2, <3>1, LeastExists
  <2>2. /\ j \in 0 .. m /\ j \in 0 .. n /\ f[j] # g[j]
        /\ \A i \in Nat : i < j => f[i] = g[i]
    <3>1. j \in Nat /\ j <= m /\ j <= n /\ f[j] # g[j]
      OBVIOUS
    <3>2. ASSUME NEW i \in Nat, i < j PROVE f[i] = g[i]
      <4>1. i \notin differ
        BY <2>1, <3>1, <3>2
      <4> QED BY <3>1, <3>2, <4>1
    <3> QED BY <3>1, <3>2
  <2>3. j # 0
    BY <2>2 DEF Obeys
  <2>4. PICK i \in Nat : i = pred[j] /\ i < j
    BY <2>2, <2>3 DEF Descends
  <2>5. f[j] = step[j][f[i]] /\ g[j] = step[j][g[i]]
    BY <2>2, <2>3, <2>4 DEF Obeys
  <2> QED BY <2>2, <2>4, <2>5
<1> QED
  BY <1>1, <1>2

LEMMA ObeysExists ==
  ASSUME NEW S, NEW base \in S, NEW pred, Descends(pred),
         NEW step \in [Nat -> [S -> S]],
         NEW n \in Nat
  PROVE  \E f \in [Nat -> S] : Obeys(f, n, base, pred, step)
<1> DEFINE Has(k) == \E f \in [Nat -> S] : Obeys(f, k, base, pred, step)
<1> DEFINE fail == {k \in Nat : ~Has(k)}
<1>1. CASE fail = {}
  BY <1>1
<1>2. CASE fail # {}
  <2>1. PICK m \in fail : \A i \in fail : m <= i
    <3>1. fail \subseteq Nat
      OBVIOUS
    <3> HIDE DEF fail
    <3> QED BY <1>2, <3>1, LeastExists
  <2>2. m # 0
    <3>1. [k \in Nat |-> base] \in [Nat -> S]
      OBVIOUS
    <3>2. Obeys([k \in Nat |-> base], 0, base, pred, step)
      BY DEF Obeys
    <3> QED BY <2>1, <3>1, <3>2
  <2>3. PICK l \in Nat : m = l + 1
    BY <2>1, <2>2
  <2>4. Has(l)
    <3>1. l \notin fail
      <4> HIDE DEF fail
      <4>1. ~(m <= l)
        BY <2>3
      <4> QED BY <2>1, <4>1
    <3> QED BY <3>1
  <2>5. PICK f \in [Nat -> S] : Obeys(f, l, base, pred, step)
    BY <2>4
  <2>6. PICK g : g = [k \in Nat |-> IF k = m THEN step[m][f[pred[m]]] ELSE f[k]]
    OBVIOUS
  <2>7. pred[m] \in Nat /\ pred[m] < m /\ m \in Nat \ {0}
    BY <2>1, <2>2 DEF Descends
  <2>8. step[m][f[pred[m]]] \in S
    BY <2>7
  <2>9. g \in [Nat -> S]
    BY <2>6, <2>8
  <2>10. ASSUME NEW k \in 0 .. m
         PROVE  g[k] = IF k = 0 THEN base ELSE step[k][g[pred[k]]]
    <3>1. CASE k = m
      <4>1. g[pred[m]] = f[pred[m]] /\ g[m] = step[m][f[pred[m]]]
        BY <2>6, <2>7
      <4> QED BY <2>2, <3>1, <4>1
    <3>2. CASE k # m
      <4>1. k \in 0 .. l
        BY <2>3, <2>7, <3>2
      <4>2. f[k] = IF k = 0 THEN base ELSE step[k][f[pred[k]]]
        BY <2>5, <4>1 DEF Obeys
      <4>3. g[k] = f[k]
        BY <2>6, <3>2
      <4>4. k # 0 => g[pred[k]] = f[pred[k]]
        <5> SUFFICES ASSUME k # 0 PROVE g[pred[k]] = f[pred[k]]
          OBVIOUS
        <5>1. pred[k] \in Nat /\ pred[k] < k /\ k < m
          BY <2>3, <4>1 DEF Descends
        <5>2. pred[k] # m
          BY <2>7, <4>1, <5>1
        <5> QED BY <2>6, <5>1, <5>2
      <4> QED BY <4>2, <4>3, <4>4
    <3> QED BY <3>1, <3>2
  <2>11. Obeys(g, m, base, pred, step)
    BY <2>10 DEF Obeys
  <2> QED BY <2>1, <2>9, <2>11
<1> QED
  BY <1>1, <1>2

Recursive(f, base, pred, step) ==
  \A n \in Nat : f[n] = IF n = 0 THEN base ELSE step[n][f[pred[n]]]

LEMMA RecursionExists ==
  ASSUME NEW S, NEW base \in S, NEW pred, Descends(pred),
         NEW step \in [Nat -> [S -> S]]
  PROVE  \E f \in [Nat -> S] : Recursive(f, base, pred, step)
<1> DEFINE G(n) == CHOOSE f \in [Nat -> S] : Obeys(f, n, base, pred, step)
<1>1. \A n \in Nat : G(n) \in [Nat -> S] /\ Obeys(G(n), n, base, pred, step)
  BY ObeysExists
<1>2. PICK f : f = [n \in Nat |-> G(n)[n]]
  OBVIOUS
<1> HIDE DEF G
<1>3. f \in [Nat -> S]
  BY <1>1, <1>2
<1>4. ASSUME NEW n \in Nat
      PROVE  f[n] = IF n = 0 THEN base ELSE step[n][f[pred[n]]]
  <2>1. PICK g : g = G(n)
    OBVIOUS
  <2>2. Obeys(g, n, base, pred, step) /\ f[n] = g[n]
    BY <1>1, <1>2, <2>1
  <2>3. g[n] = IF n = 0 THEN base ELSE step[n][g[pred[n]]]
    <3>1. n \in 0 .. n
      OBVIOUS
    <3> QED BY <2>2, <3>1 DEF Obeys
  <2>4. n # 0 => g[pred[n]] = f[pred[n]]
    <3> SUFFICES ASSUME n # 0 PROVE g[pred[n]] = f[pred[n]]
      OBVIOUS
    <3>1. PICK k \in Nat : k = pred[n] /\ k < n
      BY DEF Descends
    <3>2. PICK h : h = G(k)
      OBVIOUS
    <3>3. Obeys(h, k, base, pred, step) /\ f[k] = h[k]
      BY <1>1, <1>2, <3>2
    <3>4. k <= k /\ k <= n
      BY <3>1
    <3>5. h[k] = g[k]
      BY <2>2, <3>3, <3>4, ObeysAgree
    <3> QED BY <3>1, <3>3, <3>5
  <2> QED BY <2>2, <2>3, <2>4
<1> QED
  BY <1>3, <1>4 DEF Recursive

-----------------------------------------------------------------------------

(***************************************************************************)
(* The counts of the rows: Decimal and Value compute what their equations  *)
(* say, and Value takes back what Decimal writes.                          *)
(***************************************************************************)

LEMMA DivMod ==
  ASSUME NEW n \in Nat
  PROVE  /\ n \div 10 \in Nat /\ n % 10 \in Nat /\ n % 10 < 10
         /\ n = 10 * (n \div 10) + (n % 10)
         /\ n # 0 => n \div 10 < n
OBVIOUS

DecimalStep(n, d) == IF n < 10 THEN <<48 + n>> ELSE Append(d, 48 + (n % 10))

LEMMA DecimalStepType ==
  ASSUME NEW n \in Nat, NEW d \in Seq(Nat)
  PROVE  DecimalStep(n, d) \in Seq(Nat)
<1>1. PICK c \in Nat : c = 48 + (n % 10)
  BY DivMod
<1>2. 48 + n \in Nat
  OBVIOUS
<1> QED
  BY <1>1, <1>2 DEF DecimalStep

LEMMA DecimalEquation ==
  /\ Decimal \in [Nat -> Seq(Nat)]
  /\ \A n \in Nat : Decimal[n] = DecimalStep(n, Decimal[n \div 10])
<1> DEFINE D(f) == f = [n \in Nat |-> IF n < 10 THEN <<48 + n>>
                                      ELSE Append(f[n \div 10], 48 + (n % 10))]
<1>1. \E f \in [Nat -> Seq(Nat)] : D(f)
  <2>1. PICK pred : pred = [n \in Nat |-> n \div 10]
    OBVIOUS
  <2>2. Descends(pred)
    BY <2>1, DivMod DEF Descends
  <2>3. PICK step : step = [n \in Nat |-> [d \in Seq(Nat) |-> DecimalStep(n, d)]]
    OBVIOUS
  <2>4. step \in [Nat -> [Seq(Nat) -> Seq(Nat)]]
    BY <2>3, DecimalStepType
  <2>5. PICK base, S : base = <<48>> /\ S = Seq(Nat)
    OBVIOUS
  <2>6. PICK f \in [Nat -> S] : Recursive(f, base, pred, step)
    <3>1. base \in S
      BY <2>5
    <3>2. step \in [Nat -> [S -> S]]
      BY <2>4, <2>5
    <3> QED BY <2>2, <3>1, <3>2, RecursionExists
  <2>7. ASSUME NEW n \in Nat
        PROVE  f[n] = DecimalStep(n, f[n \div 10])
    <3>1. n \div 10 \in Nat /\ pred[n] = n \div 10 /\ f[n \div 10] \in Seq(Nat)
      BY <2>1, <2>5, DivMod
    <3>2. step[n][f[pred[n]]] = DecimalStep(n, f[n \div 10])
      BY <2>3, <3>1
    <3>3. CASE n = 0
      BY <2>5, <2>6, <3>3 DEF Recursive, DecimalStep
    <3>4. CASE n # 0
      BY <2>6, <3>2, <3>4 DEF Recursive
    <3> QED BY <3>3, <3>4
  <2>8. f = [n \in Nat |-> DecimalStep(n, f[n \div 10])]
    BY <2>6, <2>7
  <2>9. D(f)
    BY <2>8 DEF DecimalStep
  <2> QED BY <2>5, <2>9
<1>2. Decimal = CHOOSE f : D(f)
  BY DEF Decimal
<1>3. D(Decimal)
  <2> HIDE DEF D
  <2> QED BY <1>1, <1>2
<1>4. Decimal = [n \in Nat |-> DecimalStep(n, Decimal[n \div 10])]
  BY <1>3 DEF DecimalStep
<1>5. ASSUME NEW n \in Nat
      PROVE  Decimal[n] \in Seq(Nat)
  <2> DEFINE fail == {k \in Nat : Decimal[k] \notin Seq(Nat)}
  <2>1. CASE fail = {}
    BY <2>1
  <2>2. CASE fail # {}
    <3>1. PICK m \in fail : \A i \in fail : m <= i
      <4>1. fail \subseteq Nat
        OBVIOUS
      <4> HIDE DEF fail
      <4> QED BY <2>2, <4>1, LeastExists
    <3>2. m \in Nat /\ Decimal[m] \notin Seq(Nat) /\ Decimal[m] = DecimalStep(m, Decimal[m \div 10])
      BY <1>4
    <3>3. CASE m < 10
      <4>1. Decimal[m] = <<48 + m>> /\ 48 + m \in Nat
        BY <3>2, <3>3 DEF DecimalStep
      <4> QED BY <3>2, <4>1
    <3>4. CASE ~(m < 10)
      <4>1. PICK q : q = m \div 10
        OBVIOUS
      <4>2. q \in Nat /\ q < m
        BY <3>2, <3>4, <4>1, DivMod
      <4>3. q \notin fail
        <5> HIDE DEF fail
        <5>1. ~(m <= q)
          BY <3>2, <4>2
        <5> QED BY <3>1, <5>1
      <4>4. Decimal[q] \in Seq(Nat)
        BY <4>2, <4>3
      <4> QED BY <3>2, <4>1, <4>4, DecimalStepType
    <3> QED BY <3>3, <3>4
  <2> QED BY <2>1, <2>2
<1> QED
  BY <1>4, <1>5

\* Complete induction on a set of numbers.
LEMMA CompleteInduction ==
  ASSUME NEW T, \A n \in Nat : (\A k \in Nat : k < n => k \in T) => n \in T
  PROVE  \A n \in Nat : n \in T
<1> DEFINE fail == {n \in Nat : n \notin T}
<1>1. CASE fail = {}
  BY <1>1
<1>2. CASE fail # {}
  <2>1. PICK m \in fail : \A i \in fail : m <= i
    <3>1. fail \subseteq Nat
      OBVIOUS
    <3> HIDE DEF fail
    <3> QED BY <1>2, <3>1, LeastExists
  <2>2. ASSUME NEW k \in Nat, k < m PROVE k \in T
    <3>1. ~(m <= k)
      BY <2>2
    <3>2. k \notin fail
      <4> HIDE DEF fail
      <4> QED BY <2>1, <3>1
    <3> QED BY <3>2
  <2> QED BY <2>2
<1> QED
  BY <1>1, <1>2

Valued(v, d) == v[0] = 0 /\ \A k \in 1 .. Len(d) : v[k] = 10 * v[k - 1] + d[k] - 48

LEMMA ValuedType ==
  ASSUME NEW d \in Seq(Nat), NEW v, Valued(v, d)
  PROVE  \A k \in 0 .. Len(d) : v[k] \in Int
<1> DEFINE T == {k \in Nat : k <= Len(d) => v[k] \in Int}
<1>1. ASSUME NEW n \in Nat, \A k \in Nat : k < n => k \in T
      PROVE  n \in T
  <2>1. CASE n = 0
    BY <2>1 DEF Valued
  <2>2. CASE n # 0 /\ n <= Len(d)
    <3>1. PICK k \in Nat : k = n - 1
      BY <2>2
    <3>2. k < n /\ k <= Len(d)
      BY <2>2, <3>1
    <3>3. v[k] \in Int
      BY <1>1, <3>2
    <3>4. n \in 1 .. Len(d) /\ d[n] \in Nat
      BY <2>2
    <3>5. v[n] = 10 * v[k] + d[n] - 48
      BY <3>1, <3>4 DEF Valued
    <3> QED BY <3>3, <3>4, <3>5
  <2>3. CASE ~(n <= Len(d))
    BY <2>3
  <2> QED BY <2>1, <2>2, <2>3
<1>2. \A n \in Nat : n \in T
  <2> HIDE DEF T
  <2> QED BY <1>1, CompleteInduction
<1> QED
  BY <1>2

LEMMA ValueForm ==
  ASSUME NEW d \in Seq(Nat)
  PROVE  \E v : Valued(v, d) /\ Value(d) = v[Len(d)]
<1> DEFINE E(v) == v = [k \in 0 .. Len(d) |-> IF k = 0 THEN 0 ELSE 10 * v[k - 1] + d[k] - 48]
<1>1. \E v : E(v)
  <2>1. PICK pred : pred = [n \in Nat |-> IF n = 0 THEN 0 ELSE n - 1]
    OBVIOUS
  <2>2. Descends(pred)
    BY <2>1 DEF Descends
  <2>3. PICK step : step = [n \in Nat |-> [x \in Int |->
                              IF n \in 1 .. Len(d) THEN 10 * x + d[n] - 48 ELSE 0]]
    OBVIOUS
  <2>4. step \in [Nat -> [Int -> Int]]
    <3>1. \A n \in 1 .. Len(d) : d[n] \in Nat
      OBVIOUS
    <3>2. \A n \in Nat, x \in Int : (IF n \in 1 .. Len(d) THEN 10 * x + d[n] - 48 ELSE 0) \in Int
      BY <3>1
    <3> QED BY <2>3, <3>2
  <2>5. PICK base, S : base = 0 /\ base \in Int /\ S = Int
    OBVIOUS
  <2>6. PICK f \in [Nat -> S] : Recursive(f, base, pred, step)
    <3>1. base \in S
      BY <2>5, Zenon
    <3>2. step \in [Nat -> [S -> S]]
      BY <2>4, <2>5, Zenon
    <3> QED BY <2>2, <3>1, <3>2, RecursionExists
  <2>7. PICK v : v = [k \in 0 .. Len(d) |-> f[k]]
    OBVIOUS
  <2>8. ASSUME NEW k \in 0 .. Len(d)
        PROVE  v[k] = IF k = 0 THEN 0 ELSE 10 * v[k - 1] + d[k] - 48
    <3>1. CASE k = 0
      <4>1. v[0] = f[0] /\ f[0] = 0
        BY <2>5, <2>6, <2>7 DEF Recursive
      <4> QED BY <3>1, <4>1
    <3>2. CASE k # 0
      <4>1. PICK l \in Nat : l = k - 1
        BY <3>2
      <4>2. k \in Nat /\ k \in 1 .. Len(d) /\ l \in 0 .. Len(d)
        BY <3>2, <4>1
      <4>3. pred[k] = l /\ f[l] \in Int
        BY <2>1, <2>5, <3>2, <4>1, <4>2
      <4>4. f[k] = step[k][f[l]]
        BY <2>6, <3>2, <4>2, <4>3 DEF Recursive
      <4>5. step[k][f[l]] = 10 * f[l] + d[k] - 48
        BY <2>3, <4>2, <4>3
      <4>6. v[k] = f[k] /\ v[l] = f[l]
        BY <2>7, <4>2
      <4> QED BY <3>2, <4>1, <4>4, <4>5, <4>6
    <3> QED BY <3>1, <3>2
  <2>9. E(v)
    BY <2>7, <2>8
  <2> QED BY <2>9
<1>2. PICK v : v = CHOOSE w : E(w)
  OBVIOUS
<1>3. E(v)
  <2> HIDE DEF E
  <2> QED BY <1>1, <1>2
<1>4. Value(d) = v[Len(d)]
  BY <1>2 DEF Value
<1>5. Valued(v, d)
  <2>1. v[0] = 0
    BY <1>3
  <2>2. \A k \in 0 .. Len(d) : v[k] = IF k = 0 THEN 0 ELSE 10 * v[k - 1] + d[k] - 48
    BY <1>3, Zenon
  <2>3. ASSUME NEW k \in 1 .. Len(d)
        PROVE  v[k] = 10 * v[k - 1] + d[k] - 48
    <3>1. k \in 0 .. Len(d) /\ k # 0
      OBVIOUS
    <3> QED BY <2>2, <3>1, Zenon
  <2> QED BY <2>1, <2>3 DEF Valued
<1> QED
  BY <1>4, <1>5

\* One more digit.
LEMMA ValueAppend ==
  ASSUME NEW d \in Seq(Nat), NEW c \in Nat
  PROVE  Value(d) \in Int /\ Value(Append(d, c)) = 10 * Value(d) + c - 48
<1>1. PICK e : e = Append(d, c)
  OBVIOUS
<1>2. /\ e \in Seq(Nat) /\ Len(e) = Len(d) + 1 /\ e[Len(d) + 1] = c /\ Len(d) \in Nat
      /\ \A k \in 1 .. Len(d) : e[k] = d[k]
  BY <1>1
<1>3. PICK v : Valued(v, d) /\ Value(d) = v[Len(d)]
  BY ValueForm
<1>4. PICK w : Valued(w, e) /\ Value(e) = w[Len(e)]
  BY <1>2, ValueForm
<1> DEFINE T == {k \in Nat : k <= Len(d) => w[k] = v[k]}
<1>5. ASSUME NEW n \in Nat, \A k \in Nat : k < n => k \in T
      PROVE  n \in T
  <2>1. CASE n = 0
    BY <1>3, <1>4, <2>1 DEF Valued
  <2>2. CASE n # 0 /\ n <= Len(d)
    <3>1. PICK k \in Nat : k = n - 1
      BY <2>2
    <3>2. k < n /\ k <= Len(d) /\ n \in 1 .. Len(d) /\ n \in 1 .. Len(e)
      BY <1>2, <2>2, <3>1
    <3>3. w[k] = v[k] /\ e[n] = d[n]
      BY <1>2, <1>5, <3>2
    <3>4. v[n] = 10 * v[k] + d[n] - 48 /\ w[n] = 10 * w[k] + e[n] - 48
      BY <1>3, <1>4, <3>1, <3>2 DEF Valued
    <3> QED BY <3>3, <3>4
  <2>3. CASE ~(n <= Len(d))
    BY <2>3
  <2> QED BY <2>1, <2>2, <2>3
<1>6. \A n \in Nat : n \in T
  <2> HIDE DEF T
  <2> QED BY <1>5, CompleteInduction
<1>7. PICK n \in Nat : n = Len(d)
  BY <1>2
<1>8. w[n] = v[n] /\ v[n] \in Int
  <2>1. n \in T /\ n \in 0 .. Len(d)
    BY <1>6, <1>7
  <2> QED BY <1>3, <1>7, <2>1, ValuedType
<1>9. w[n + 1] = 10 * w[n] + c - 48
  <2>1. n + 1 \in 1 .. Len(e) /\ (n + 1) - 1 = n /\ e[n + 1] = c
    BY <1>2, <1>7
  <2> QED BY <1>4, <2>1 DEF Valued
<1> QED
  BY <1>1, <1>2, <1>3, <1>4, <1>7, <1>8, <1>9

LEMMA ValueOne ==
  ASSUME NEW c \in Nat
  PROVE  Value(<<c>>) = c - 48
<1>1. PICK d : d = <<c>>
  OBVIOUS
<1>2. d \in Seq(Nat) /\ Len(d) = 1 /\ d[1] = c
  BY <1>1
<1>3. PICK v : Valued(v, d) /\ Value(d) = v[Len(d)]
  BY <1>2, ValueForm
<1>4. v[0] = 0 /\ v[1] = 10 * v[1 - 1] + d[1] - 48
  BY <1>2, <1>3 DEF Valued
<1> QED
  BY <1>1, <1>2, <1>3, <1>4

(***************************************************************************)
(* A count is written with digits only, at least one, and they stand for   *)
(* the count again.                                                        *)
(***************************************************************************)
IsNumeral(d, n) ==
  /\ d \in Seq(Nat) /\ Len(d) > 0
  /\ \A k \in 1 .. Len(d) : d[k] \in 48 .. 57
  /\ Value(d) = n

LEMMA DecimalValue == \A n \in Nat : IsNumeral(Decimal[n], n)
<1> DEFINE T == {n \in Nat : IsNumeral(Decimal[n], n)}
<1>1. ASSUME NEW n \in Nat, \A k \in Nat : k < n => k \in T
      PROVE  n \in T
  <2>1. CASE n < 10
    <3>1. PICK c \in 48 .. 57 : c = 48 + n
      BY <2>1
    <3>2. Decimal[n] = <<c>>
      BY <2>1, <3>1, DecimalEquation DEF DecimalStep
    <3>3. Value(<<c>>) = n
      BY <3>1, ValueOne
    <3>4. IsNumeral(<<c>>, n)
      BY <3>3 DEF IsNumeral
    <3> QED BY <3>2, <3>4
  <2>2. CASE ~(n < 10)
    <3>1. PICK q \in Nat, c \in 48 .. 57 :
            q = n \div 10 /\ c = 48 + (n % 10) /\ n = 10 * q + c - 48 /\ q < n
      BY <2>2, DivMod
    <3>2. PICK d : d = Decimal[q]
      OBVIOUS
    <3>3. IsNumeral(d, q)
      BY <1>1, <3>1, <3>2
    <3>4. PICK e : e = Append(d, c)
      OBVIOUS
    <3>5. Decimal[n] = e
      BY <2>2, <3>1, <3>2, <3>4, DecimalEquation DEF DecimalStep
    <3>6. d \in Seq(Nat) /\ Len(d) > 0 /\ \A k \in 1 .. Len(d) : d[k] \in 48 .. 57
      BY <3>3 DEF IsNumeral
    <3>7. /\ e \in Seq(Nat) /\ Len(e) = Len(d) + 1 /\ e[Len(d) + 1] = c
          /\ \A k \in 1 .. Len(d) : e[k] = d[k]
      BY <3>4, <3>6
    <3>8. \A k \in 1 .. Len(e) : e[k] \in 48 .. 57
      <4> SUFFICES ASSUME NEW k \in 1 .. Len(e) PROVE e[k] \in 48 .. 57
        OBVIOUS
      <4>1. k \in 1 .. Len(d) \/ k = Len(d) + 1
        BY <3>6, <3>7
      <4> QED BY <3>6, <3>7, <4>1
    <3>9. Value(e) = n
      <4>1. Value(d) = q
        BY <3>3 DEF IsNumeral
      <4>2. Value(e) = 10 * Value(d) + c - 48
        BY <3>4, <3>6, ValueAppend
      <4> QED BY <3>1, <4>1, <4>2
    <3>10. IsNumeral(e, n)
      BY <3>6, <3>7, <3>8, <3>9 DEF IsNumeral
    <3> QED BY <3>5, <3>10
  <2> QED BY <2>1, <2>2
<1>2. \A n \in Nat : n \in T
  <2> HIDE DEF T
  <2> QED BY <1>1, CompleteInduction
<1> QED
  BY <1>2

-----------------------------------------------------------------------------

(***************************************************************************)
(* A row in a spill file: whole[a + 1 .. b] is its text.                   *)
(***************************************************************************)
IsRow(row) ==
  /\ row.url \in Seq(Nat) /\ Len(row.url) \in 1 .. MaxLen - 1
  /\ \A k \in 1 .. Len(row.url) : row.url[k] # Tab
  /\ row.cnt \in Counts
  /\ row = [url |-> row.url, cnt |-> row.cnt]

\* The text of a row with l characters of url and d of the count.
HasText(s, a, row, b) ==
  LET l == Len(row.url)
      d == Decimal[row.cnt] IN
  /\ b = a + l + Len(d) + 2 /\ b <= Len(s)
  /\ \A k \in 1 .. l : s[a + k] = row.url[k]
  /\ s[a + l + 1] = Tab
  /\ \A k \in 1 .. Len(d) : s[a + l + 1 + k] = d[k]
  /\ s[b] = Newline

Joined(r, p, q) ==
  /\ r \in Seq(Nat) /\ Len(r) = Len(p) + Len(q)
  /\ \A k \in 1 .. Len(p) : r[k] = p[k]
  /\ \A k \in 1 .. Len(q) : r[Len(p) + k] = q[k]

LEMMA ConcatForm ==
  ASSUME NEW p \in Seq(Nat), NEW q \in Seq(Nat)
  PROVE  Joined(p \o q, p, q)
<1>1. /\ p \o q \in Seq(Nat) /\ Len(p \o q) = Len(p) + Len(q)
      /\ \A k \in 1 .. Len(p) : (p \o q)[k] = p[k]
  BY ConcatProperties
<1>2. ASSUME NEW k \in 1 .. Len(q) PROVE (p \o q)[Len(p) + k] = q[k]
  <2>1. PICK j : j = Len(p) + k
    OBVIOUS
  <2>2. j \in 1 .. Len(p) + Len(q) /\ ~(j <= Len(p)) /\ j - Len(p) = k
    BY <2>1
  <2>3. (p \o q)[j] = q[j - Len(p)]
    BY <2>2, ConcatProperties
  <2> QED BY <2>1, <2>2, <2>3
<1> QED
  BY <1>1, <1>2 DEF Joined

\* What WriteResultTuple writes is the text of the row.
Extends(t, s) ==
  t \in Seq(Nat) /\ Len(t) >= Len(s) /\ \A k \in 1 .. Len(s) : t[k] = s[k]

LEMMA WrittenText ==
  ASSUME NEW row, IsRow(row), NEW s \in Seq(Nat), NEW t, t = s \o WriteResultTuple(row)
  PROVE  Extends(t, s) /\ HasText(t, Len(s), row, Len(t))
<1>1. PICK u, d : u = row.url /\ d = Decimal[row.cnt]
  OBVIOUS
<1>2. u \in Seq(Nat) /\ d \in Seq(Nat)
  BY <1>1, ReaderAssumption, DecimalEquation DEF IsRow
<1>3. PICK l \in Nat, m \in Nat, n \in Nat : l = Len(u) /\ m = Len(d) /\ n = Len(s)
  BY <1>2
<1>4. PICK tab, newline : tab = <<Tab>> /\ newline = <<Newline>>
  OBVIOUS
<1>5. /\ tab \in Seq(Nat) /\ Len(tab) = 1 /\ tab[1] = Tab
      /\ newline \in Seq(Nat) /\ Len(newline) = 1 /\ newline[1] = Newline
  BY <1>4 DEF Tab, Newline
<1>6. PICK v, w, x : v = u \o tab /\ w = v \o d /\ x = w \o newline
  OBVIOUS
<1>7. Joined(v, u, tab)
  BY <1>2, <1>5, <1>6, ConcatForm
<1>8. Joined(w, v, d)
  <2>1. v \in Seq(Nat)
    BY <1>7 DEF Joined
  <2> QED BY <1>2, <1>6, <2>1, ConcatForm
<1>9. Joined(x, w, newline)
  <2>1. w \in Seq(Nat) /\ newline \in Seq(Nat)
    BY <1>5, <1>8 DEF Joined
  <2> QED BY <1>6, <2>1, ConcatForm
<1>10. t = s \o x
  BY <1>1, <1>4, <1>6 DEF WriteResultTuple
<1>11. Joined(t, s, x)
  <2>1. x \in Seq(Nat)
    BY <1>9 DEF Joined
  <2> QED BY <1>10, <2>1, ConcatForm
<1>12. Len(v) = l + 1 /\ Len(w) = l + 1 + m /\ Len(x) = l + m + 2 /\ Len(t) = n + l + m + 2
  BY <1>3, <1>5, <1>7, <1>8, <1>9, <1>11 DEF Joined
<1>13. ASSUME NEW k \in 1 .. l + m + 2 PROVE t[n + k] = x[k]
  BY <1>3, <1>11, <1>12 DEF Joined
<1>14. ASSUME NEW k \in 1 .. l + 1 + m PROVE x[k] = w[k]
  BY <1>9, <1>12 DEF Joined
<1>15. ASSUME NEW k \in 1 .. l PROVE t[n + k] = u[k]
  <2>1. k \in 1 .. l + m + 2 /\ k \in 1 .. l + 1 + m /\ k \in 1 .. l + 1
    OBVIOUS
  <2>2. w[k] = v[k]
    BY <1>8, <1>12, <2>1 DEF Joined
  <2>3. v[k] = u[k]
    BY <1>3, <1>7 DEF Joined
  <2> QED BY <1>13, <1>14, <2>1, <2>2, <2>3
<1>16. t[n + l + 1] = Tab
  <2>1. PICK k \in 1 .. l + 1 : k = l + 1
    OBVIOUS
  <2>2. k \in 1 .. l + m + 2 /\ k \in 1 .. l + 1 + m /\ n + l + 1 = n + k
    BY <2>1
  <2>3. w[k] = v[k]
    BY <1>8, <1>12, <2>1 DEF Joined
  <2>4. v[k] = tab[1]
    <3>1. 1 \in 1 .. Len(tab)
      BY <1>5
    <3> QED BY <1>3, <1>7, <2>1, <3>1 DEF Joined
  <2> QED BY <1>5, <1>13, <1>14, <2>2, <2>3, <2>4
<1>17. ASSUME NEW k \in 1 .. m PROVE t[n + l + 1 + k] = d[k]
  <2>1. PICK j \in 1 .. l + 1 + m : j = l + 1 + k
    OBVIOUS
  <2>2. j \in 1 .. l + m + 2 /\ n + l + 1 + k = n + j
    BY <2>1
  <2>3. w[j] = d[k]
    BY <1>3, <1>8, <1>12, <2>1 DEF Joined
  <2> QED BY <1>13, <1>14, <2>1, <2>2, <2>3
<1>18. t[Len(t)] = Newline
  <2>1. PICK k \in 1 .. l + m + 2 : k = l + m + 2
    OBVIOUS
  <2>2. n + k = Len(t) /\ k = Len(w) + 1
    BY <1>12, <2>1
  <2>3. x[k] = newline[1]
    <3>1. 1 \in 1 .. Len(newline)
      BY <1>5
    <3> QED BY <1>9, <2>2, <3>1 DEF Joined
  <2> QED BY <1>5, <1>13, <2>2, <2>3
<1>19. HasText(t, n, row, Len(t))
  <2>1. Len(t) = n + l + m + 2 /\ Len(t) <= Len(t)
    BY <1>12
  <2> QED BY <1>1, <1>3, <1>15, <1>16, <1>17, <1>18, <2>1 DEF HasText
<1>20. t \in Seq(Nat) /\ Len(t) >= Len(s) /\ \A k \in 1 .. Len(s) : t[k] = s[k]
  BY <1>3, <1>11, <1>12 DEF Joined
<1>21. Extends(t, s)
  BY <1>20 DEF Extends
<1> QED
  BY <1>3, <1>19, <1>21

(***************************************************************************)
(* What NextResultTupleInFile reads where the text of a row begins is the  *)
(* row, and it leaves the stream at its end.                               *)
(***************************************************************************)
StartsWithCount(q, d, m) ==
  /\ q \in Seq(Nat) /\ m \in Nat /\ m = Len(d) /\ m + 1 <= Len(q)
  /\ \A k \in 1 .. m : q[k] = d[k]
  /\ q[m + 1] = Newline

LEMMA CountRead ==
  ASSUME NEW cnt \in Nat, NEW q, NEW m, NEW d, d = Decimal[cnt], StartsWithCount(q, d, m)
  PROVE  ReadCount(q) = {[cnt |-> cnt, rest |-> Drop(q, m + 1)]}
<1>1. /\ q \in Seq(Nat) /\ m \in Nat /\ m = Len(d) /\ m + 1 <= Len(q)
      /\ \A k \in 1 .. m : q[k] = d[k]
      /\ q[m + 1] = Newline
  BY DEF StartsWithCount
<1>2. IsNumeral(d, cnt)
  BY DecimalValue
<1>3. /\ d \in Seq(Nat) /\ m = Len(d) /\ m > 0 /\ Value(d) = cnt
      /\ \A k \in 1 .. m : q[k] = d[k] /\ d[k] \in 48 .. 57
  BY <1>1, <1>2 DEF IsNumeral
<1>4. Span(q, Space) = 0
  <2>1. PICK c \in 48 .. 57 : c = q[1]
    <3>1. 1 \in 1 .. m
      BY <1>1, <1>3
    <3> QED BY <1>3, <3>1
  <2>2. q[0 + 1] \notin Space
    <3>1. c \notin Space /\ 0 + 1 = 1
      BY DEF Space
    <3> QED BY <2>1, <3>1
  <2>3. 0 \in 0 .. Len(q) /\ \A k \in 1 .. 0 : q[k] \in Space
    BY <1>1
  <2> QED BY <1>1, <2>2, <2>3, SpanIs
<1>5. Drop(q, Span(q, Space)) = q
  BY <1>1, <1>4, DropNone
<1>6. q # <<>>
  <2>1. Len(q) # 0
    BY <1>1, <1>3
  <2> QED BY <2>1
<1>7. Span(q, Digit) = m
  <2>1. m \in 0 .. Len(q) /\ \A k \in 1 .. m : q[k] \in Digit
    <3>1. m \in 0 .. Len(q)
      BY <1>1
    <3>2. \A k \in 1 .. m : q[k] \in 48 .. 57
      BY <1>3
    <3> QED BY <3>1, <3>2 DEF Digit
  <2>2. q[m + 1] \notin Digit
    BY <1>1 DEF Digit, Newline
  <2> QED BY <1>1, <2>1, <2>2, SpanIs
<1>8. SubSeq(q, 1, m) = d
  <2>1. 1 \in Nat \ {0} /\ 1 <= m + 1 /\ m <= Len(q) /\ m - 1 + 1 = m
    BY <1>1
  <2>2. PICK u : u = Piece(q, 1, m)
    OBVIOUS
  <2>3. u \in Seq(Nat) /\ Len(u) = m - 1 + 1 /\ \A x \in 1 .. m - 1 + 1 : u[x] = q[1 + x - 1]
    BY <1>1, <2>1, <2>2, PieceForm
  <2>4. ASSUME NEW x \in 1 .. m PROVE u[x] = d[x]
    <3>1. 1 + x - 1 = x
      OBVIOUS
    <3> QED BY <1>1, <1>3, <2>1, <2>3, <3>1
  <2>5. u \in Seq(Nat) /\ Len(u) = m /\ Len(d) = m /\ d \in Seq(Nat)
    BY <1>1, <1>3, <2>1, <2>3
  <2>6. u = d
    BY <2>4, <2>5, SeqEqual
  <2> QED BY <2>2, <2>6 DEF Piece
<1>9. NewlineConsumed(q, m) = Drop(q, m + 1)
  BY DEF NewlineConsumed
<1>10. PICK t, n : t = Drop(q, Span(q, Space)) /\ n = Span(t, Digit)
  OBVIOUS
<1>11. ReadCount(q) = IF t = <<>> THEN [cnt : Counts \cup {0}, rest : {<<>>}]
                      ELSE IF n = 0 THEN {[cnt |-> 0, rest |-> <<>>]}
                      ELSE {[cnt |-> Value(SubSeq(t, 1, n)), rest |-> NewlineConsumed(t, n)]}
  BY <1>10, Zenon DEF ReadCount
<1>12. t = q /\ n = m /\ ~(m = 0)
  BY <1>3, <1>5, <1>7, <1>10
<1> QED
  BY <1>3, <1>6, <1>8, <1>9, <1>11, <1>12, Zenon

LEMMA RowRead ==
  ASSUME NEW s \in Seq(Nat), NEW a \in Nat, NEW b, NEW row, IsRow(row), HasText(s, a, row, b),
         NEW r, r = ReadLine(Drop(s, a), MaxLen, Tab)
  PROVE  /\ r.ok /\ r.str = row.url
         /\ ReadCount(r.rest) = {[cnt |-> row.cnt, rest |-> Drop(s, b)]}
<1>1. PICK u, d : u = row.url /\ d = Decimal[row.cnt]
  OBVIOUS
<1>2. row.cnt \in Nat
  BY ReaderAssumption DEF IsRow
<1>3. /\ u \in Seq(Nat) /\ Len(u) \in 1 .. MaxLen - 1 /\ \A k \in 1 .. Len(u) : u[k] # Tab
      /\ d \in Seq(Nat)
  BY <1>1, <1>2, DecimalEquation DEF IsRow
<1>4. PICK l \in Nat, m \in Nat : l = Len(u) /\ m = Len(d) /\ l \in 1 .. MaxLen - 1
  BY <1>3
<1>5. /\ b = a + l + m + 2 /\ b <= Len(s)
      /\ \A k \in 1 .. l : s[a + k] = u[k]
      /\ s[a + l + 1] = Tab /\ s[b] = Newline
      /\ \A k \in 1 .. m : s[a + l + 1 + k] = d[k]
  BY <1>1, <1>4 DEF HasText
<1>6. PICK t : t = Drop(s, a)
  OBVIOUS
<1>7. t \in Seq(Nat) /\ Len(t) = Len(s) - a /\ \A k \in 1 .. Len(s) - a : t[k] = s[a + k]
  <2>1. a <= Len(s)
    BY <1>5
  <2> QED BY <1>6, <2>1, DropForm
<1>8. l + 1 <= Len(t)
  BY <1>5, <1>7
<1>9. (\A k \in 1 .. l : t[k] = u[k] /\ t[k] # Tab) /\ t[l + 1] = Tab
  <2>1. ASSUME NEW k \in 1 .. l PROVE t[k] = u[k] /\ t[k] # Tab
    <3>1. k \in 1 .. Len(s) - a
      BY <1>7, <1>8
    <3> QED BY <1>3, <1>4, <1>5, <1>7, <3>1
  <2>2. t[l + 1] = Tab
    <3>1. PICK k : k = l + 1
      OBVIOUS
    <3>2. k \in 1 .. Len(s) - a /\ a + k = a + l + 1
      BY <1>7, <1>8, <3>1
    <3>3. t[k] = s[a + k]
      BY <1>7, <3>2
    <3>4. s[a + k] = Tab
      BY <1>5, <3>2
    <3> QED BY <3>1, <3>3, <3>4
  <2> QED BY <2>1, <2>2
<1>10. PICK n \in Nat, len \in Nat \ {0} : TakesLine(t, MaxLen, Tab, n, len)
  <2>1. ~(\A k \in 1 .. Len(t) : t[k] = Tab)
    <3>1. 1 \in 1 .. l /\ 1 \in 1 .. Len(t)
      BY <1>4, <1>8
    <3> QED BY <1>9, <3>1
  <2> QED BY <1>7, <2>1, ReadLineForm, MaxLenType
<1>11. /\ \A k \in 1 .. n : t[k] = Tab
       /\ n + len <= Len(t) /\ len <= MaxLen - 1
       /\ \A k \in n + 1 .. n + len : t[k] # Tab
       /\ n + len < Len(t) => t[n + len + 1] = Tab \/ len = MaxLen - 1
       /\ ReadLine(t, MaxLen, Tab) =
            [ok |-> TRUE, str |-> SubSeq(t, n + 1, n + len), rest |-> Drop(t, n + len + 1)]
  BY <1>10 DEF TakesLine
<1>12. n = 0
  <2> SUFFICES ASSUME n > 0 PROVE FALSE
    OBVIOUS
  <2>1. 1 \in 1 .. n /\ 1 \in 1 .. l
    BY <1>4
  <2> QED BY <1>9, <1>11, <2>1
<1>13. len = l
  <2>1. ASSUME len > l PROVE FALSE
    <3>1. l + 1 \in n + 1 .. n + len
      BY <1>12, <2>1
    <3> QED BY <1>9, <1>11, <3>1
  <2>2. ASSUME len < l PROVE FALSE
    <3>1. PICK k \in 1 .. l : k = len + 1 /\ k = n + len + 1
      BY <1>12, <2>2
    <3>2. n + len < Len(t) /\ len # MaxLen - 1
      BY <1>4, <1>8, <1>12, <2>2, MaxLenType
    <3> QED BY <1>9, <1>11, <3>1, <3>2
  <2> QED BY <2>1, <2>2
<1>14. PICK v : v = SubSeq(t, n + 1, n + len)
  OBVIOUS
<1>15. v = u
  <2>1. v \in Seq(Nat) /\ Len(v) = len /\ \A k \in 1 .. len : v[k] = t[n + k]
    <3>1. Taken(SubSeq(t, n + 1, n + len), t, n, len)
      BY <1>7, <1>10, LineTaken
    <3>2. Taken(v, t, n, len)
      BY <1>14, <3>1, Zenon
    <3> QED BY <3>2 DEF Taken
  <2>2. ASSUME NEW k \in 1 .. l PROVE v[k] = u[k]
    <3>1. n + k = k /\ k \in 1 .. len
      BY <1>12, <1>13
    <3> QED BY <1>9, <2>1, <3>1
  <2> QED BY <1>3, <1>4, <1>13, <2>1, <2>2, SeqEqual
<1>16. r.ok /\ r.str = row.url /\ r.rest = Drop(t, n + len + 1)
  BY <1>1, <1>6, <1>11, <1>14, <1>15
<1>17. PICK c \in Nat, i \in Nat : c = a + l + 1 /\ i = n + len + 1 /\ c = a + i
  BY <1>12, <1>13
<1>18. PICK q : q = Drop(s, c)
  OBVIOUS
<1>19. q \in Seq(Nat) /\ Len(q) = Len(s) - c /\ \A k \in 1 .. Len(s) - c : q[k] = s[c + k]
  <2>1. c <= Len(s)
    BY <1>5, <1>17
  <2> QED BY <1>18, <2>1, DropForm
<1>20. r.rest = q
  <2>1. a <= Len(s)
    BY <1>5
  <2>2. Drop(Drop(s, a), i) = Drop(s, a + i)
    BY <2>1, DropDrop
  <2> QED BY <1>6, <1>16, <1>17, <1>18, <2>2
<1>21. m + 1 <= Len(q)
  BY <1>5, <1>17, <1>19
<1>22. ASSUME NEW k \in 1 .. m PROVE q[k] = d[k]
  <2>1. k \in 1 .. Len(s) - c /\ c + k = a + l + 1 + k
    BY <1>17, <1>19, <1>21
  <2> QED BY <1>5, <1>19, <2>1
<1>23. q[m + 1] = Newline
  <2>1. m + 1 \in 1 .. Len(s) - c /\ c + (m + 1) = b
    BY <1>5, <1>17, <1>19, <1>21
  <2> QED BY <1>5, <1>19, <2>1
<1>24. ReadCount(q) = {[cnt |-> row.cnt, rest |-> Drop(q, m + 1)]}
  <2>1. StartsWithCount(q, d, m)
    BY <1>4, <1>19, <1>21, <1>22, <1>23 DEF StartsWithCount
  <2> QED BY <1>1, <1>2, <2>1, CountRead
<1>25. Drop(q, m + 1) = Drop(s, b)
  <2>1. PICK j \in Nat : j = m + 1
    OBVIOUS
  <2>2. c <= Len(s) /\ c + j = b
    BY <1>5, <1>17, <2>1
  <2>3. Drop(Drop(s, c), j) = Drop(s, c + j)
    BY <2>2, DropDrop
  <2> QED BY <1>18, <2>1, <2>2, <2>3
<1> QED
  BY <1>16, <1>20, <1>24, <1>25

-----------------------------------------------------------------------------

(***************************************************************************)
(* The spill file, through the whole run: `whole' is all that was written  *)
(* to it, cut[k] where the text of the k-th row ends, and the file what    *)
(* follows the rows that have been read.  No URL has a Tab.                *)
(***************************************************************************)
Rows == [url : Seq(Nat), cnt : Nat]

Laid(whole, cut) ==
  /\ whole \in Seq(Nat) /\ cut \in [0 .. Len(written) -> Nat]
  /\ cut[0] = 0 /\ cut[Len(written)] = Len(whole)
  /\ \A k \in 1 .. Len(written) :
       IsRow(written[k]) /\ HasText(whole, cut[k - 1], written[k], cut[k])
  /\ file = Drop(whole, cut[Len(tuples)])

RowsInv ==
  /\ written \in Seq(Rows) /\ tuples \in Seq(Rows)
  /\ Len(tuples) <= Len(written) /\ \A k \in 1 .. Len(tuples) : tuples[k] = written[k]
  /\ state = "input" => Len(tuples) = 0
  /\ state = "done" => Len(tuples) = Len(written)
  /\ \A k \in 1 .. Len(in) : in[k] # Tab
  /\ \E whole, cut : Laid(whole, cut)

LEMMA RowsInvInit ==
  ASSUME NoTabs, MCInit
  PROVE  RowsInv
<1>1. in \in Files /\ state = "input" /\ file = <<>> /\ written = <<>> /\ tuples = <<>>
  BY DEF MCInit, ReaderInit
<1>2. \A k \in 1 .. Len(in) : in[k] # Tab
  <2>1. in \in Seq(Nat)
    BY <1>1, ReaderAssumption
  <2>2. DOMAIN in = 1 .. Len(in)
    BY <2>1
  <2> QED BY <1>1, <2>2 DEF NoTabs
<1>3. PICK whole, cut : whole = <<>> /\ cut = [k \in 0 .. 0 |-> 0]
  OBVIOUS
<1>4. whole \in Seq(Nat) /\ Len(whole) = 0 /\ cut \in [0 .. 0 -> Nat] /\ cut[0] = 0
  BY <1>3
<1>5. file = Drop(whole, 0)
  BY <1>1, <1>3, <1>4, DropNone
<1>6. Laid(whole, cut)
  <2>1. Len(written) = 0 /\ Len(tuples) = 0
    BY <1>1
  <2> QED BY <1>4, <1>5, <2>1 DEF Laid
<1>7. written \in Seq(Rows) /\ tuples \in Seq(Rows) /\ Len(tuples) = 0 /\ Len(written) = 0
  BY <1>1
<1> QED
  BY <1>1, <1>2, <1>6, <1>7 DEF RowsInv

\* What is appended to a file leaves the text of its rows as it is.
LEMMA TextStays ==
  ASSUME NEW s \in Seq(Nat), NEW t, Extends(t, s),
         NEW a \in Nat, NEW b, NEW row, IsRow(row), HasText(s, a, row, b)
  PROVE  HasText(t, a, row, b)
<1>1. PICK u, d : u = row.url /\ d = Decimal[row.cnt]
  OBVIOUS
<1>2. PICK l \in Nat, m \in Nat : l = Len(u) /\ m = Len(d)
  <2>1. u \in Seq(Nat) /\ row.cnt \in Nat
    BY <1>1, ReaderAssumption DEF IsRow
  <2>2. d \in Seq(Nat)
    BY <1>1, <2>1, DecimalEquation
  <2> QED BY <2>1, <2>2
<1>3. /\ b = a + l + m + 2 /\ b <= Len(s)
      /\ \A k \in 1 .. l : s[a + k] = u[k]
      /\ s[a + l + 1] = Tab /\ s[b] = Newline
      /\ \A k \in 1 .. m : s[a + l + 1 + k] = d[k]
  BY <1>1, <1>2 DEF HasText
<1>4. b = a + l + m + 2 /\ b <= Len(s) /\ Len(s) \in Nat
  BY <1>3
<1>5. ASSUME NEW k \in 1 .. l PROVE t[a + k] = u[k]
  <2>1. a + k \in 1 .. Len(s)
    BY <1>4
  <2> QED BY <1>3, <2>1 DEF Extends
<1>6. t[a + l + 1] = Tab /\ t[b] = Newline
  <2>1. a + l + 1 \in 1 .. Len(s) /\ b \in 1 .. Len(s)
    BY <1>4
  <2> QED BY <1>3, <2>1 DEF Extends
<1>7. ASSUME NEW k \in 1 .. m PROVE t[a + l + 1 + k] = d[k]
  <2>1. a + l + 1 + k \in 1 .. Len(s)
    BY <1>4
  <2> QED BY <1>3, <2>1 DEF Extends
<1>8. b <= Len(t)
  BY <1>3 DEF Extends
<1> QED
  BY <1>1, <1>2, <1>3, <1>5, <1>6, <1>7, <1>8 DEF HasText

LEMMA RowsInvTransfer ==
  ASSUME ReadType, RowsInv, TransferUrl
  PROVE  RowsInv'
<1>1. PICK n \in Nat, len \in Nat \ {0} : TakesLine(in, MaxLen, Newline, n, len)
  BY TransferForm DEF Transfers
<1>2. PICK u : u = SubSeq(in, n + 1, n + len)
  OBVIOUS
<1>3. Taken(u, in, n, len)
  BY <1>1, <1>2, LineTaken DEF ReadType
<1>4. PICK c \in Counts :
        LET row == [url |-> u, cnt |-> c] IN
        /\ written' = Append(written, row) /\ file' = file \o WriteResultTuple(row)
        /\ in' = Drop(in, n + len + 1) /\ state' = "input" /\ tuples' = tuples
  <2>1. PICK r : r = ReadLine(in, MaxLen, Newline)
    OBVIOUS
  <2>2. r.str = u /\ r.rest = Drop(in, n + len + 1)
    BY <1>1, <1>2, <2>1 DEF TakesLine
  <2>3. in' = r.rest /\ state' = "input" /\ tuples' = tuples
    BY <2>1 DEF TransferUrl
  <2>4. PICK c \in Counts :
          LET row == [url |-> r.str, cnt |-> c] IN
          written' = Append(written, row) /\ file' = file \o WriteResultTuple(row)
    BY <2>1 DEF TransferUrl
  <2> QED BY <2>2, <2>3, <2>4
<1>5. PICK row : row = [url |-> u, cnt |-> c]
  OBVIOUS
<1>6. IsRow(row) /\ row \in Rows
  <2>1. u \in Seq(Nat) /\ Len(u) = len /\ \A k \in 1 .. len : u[k] = in[n + k]
    BY <1>3 DEF Taken
  <2>2. len \in 1 .. MaxLen - 1 /\ n + len <= Len(in)
    BY <1>1, MaxLenType DEF TakesLine
  <2>3. ASSUME NEW k \in 1 .. len PROVE u[k] # Tab
    <3>1. n + k \in 1 .. Len(in)
      BY <2>2 DEF ReadType
    <3> QED BY <2>1, <3>1 DEF RowsInv
  <2>4. c \in Nat
    BY ReaderAssumption
  <2> QED BY <1>5, <2>1, <2>2, <2>3, <2>4 DEF IsRow, Rows
<1>7. PICK whole, cut : Laid(whole, cut)
  BY DEF RowsInv
<1>8. PICK N \in Nat : N = Len(written)
  BY DEF RowsInv
<1>9. /\ whole \in Seq(Nat) /\ cut \in [0 .. N -> Nat] /\ cut[0] = 0 /\ cut[N] = Len(whole)
      /\ \A k \in 1 .. N : IsRow(written[k]) /\ HasText(whole, cut[k - 1], written[k], cut[k])
      /\ file = whole
  <2>1. Len(tuples) = 0
    BY DEF RowsInv, TransferUrl
  <2> QED BY <1>7, <1>8, <2>1, DropNone DEF Laid
<1>10. PICK t : t = whole \o WriteResultTuple(row)
  OBVIOUS
<1>11. Extends(t, whole) /\ HasText(t, Len(whole), row, Len(t))
  BY <1>6, <1>9, <1>10, WrittenText
<1>12. PICK longer : longer = [k \in 0 .. N + 1 |-> IF k = N + 1 THEN Len(t) ELSE cut[k]]
  OBVIOUS
<1>13. /\ longer \in [0 .. N + 1 -> Nat] /\ longer[0] = 0
       /\ longer[N] = Len(whole) /\ longer[N + 1] = Len(t)
       /\ \A k \in 0 .. N : longer[k] = cut[k]
  <2>1. Len(t) \in Nat
    BY <1>11 DEF Extends
  <2>2. \A k \in 0 .. N + 1 : longer[k] = IF k = N + 1 THEN Len(t) ELSE cut[k]
    BY <1>12
  <2>3. \A k \in 0 .. N + 1 : k # N + 1 => k \in 0 .. N
    OBVIOUS
  <2>4. longer \in [0 .. N + 1 -> Nat]
    BY <1>9, <1>12, <2>1, <2>3
  <2>5. ASSUME NEW k \in 0 .. N PROVE longer[k] = cut[k]
    <3>1. k \in 0 .. N + 1 /\ k # N + 1
      OBVIOUS
    <3> QED BY <2>2, <3>1
  <2>6. 0 \in 0 .. N /\ N \in 0 .. N /\ N + 1 \in 0 .. N + 1
    OBVIOUS
  <2> QED BY <1>9, <2>2, <2>4, <2>5, <2>6
<1>14. /\ written' \in Seq(Rows) /\ Len(written') = N + 1 /\ written'[N + 1] = row
       /\ \A k \in 1 .. N : written'[k] = written[k]
  <2>1. written' = Append(written, row)
    BY <1>4, <1>5
  <2> QED BY <1>6, <1>8, <2>1 DEF RowsInv
<1>15. ASSUME NEW k \in 1 .. N + 1
       PROVE  IsRow(written'[k]) /\ HasText(t, longer[k - 1], written'[k], longer[k])
  <2>1. CASE k = N + 1
    <3>1. k - 1 = N
      BY <2>1
    <3> QED BY <1>6, <1>11, <1>13, <1>14, <2>1, <3>1
  <2>2. CASE k # N + 1
    <3>1. PICK j \in 0 .. N : j = k - 1
      BY <2>2
    <3>2. k \in 1 .. N /\ k \in 0 .. N
      BY <2>2
    <3>3. /\ longer[k] = cut[k] /\ longer[j] = cut[j] /\ cut[j] \in Nat
          /\ written'[k] = written[k]
      BY <1>9, <1>13, <1>14, <3>1, <3>2
    <3>4. IsRow(written[k]) /\ HasText(whole, cut[j], written[k], cut[k])
      BY <1>9, <3>1, <3>2
    <3>5. HasText(t, cut[j], written[k], cut[k])
      BY <1>9, <1>11, <3>3, <3>4, TextStays
    <3> QED BY <3>1, <3>3, <3>4, <3>5
  <2> QED BY <2>1, <2>2
<1>16. Laid(t, longer)'
  <2>1. file' = Drop(t, 0)
    <3>1. file' = t
      BY <1>4, <1>5, <1>9, <1>10
    <3> QED BY <1>11, <3>1, DropNone DEF Extends
  <2>2. Len(tuples') = 0
    BY <1>4 DEF RowsInv, TransferUrl
  <2> QED BY <1>11, <1>13, <1>14, <1>15, <2>1, <2>2 DEF Laid, Extends
<1>17. ASSUME NEW k \in 1 .. Len(in') PROVE in'[k] # Tab
  <2>1. PICK m \in Nat : m = n + len + 1
    OBVIOUS
  <2>2. /\ Len(in') = IF m <= Len(in) THEN Len(in) - m ELSE 0
        /\ \A j \in 1 .. Len(in) - m : in'[j] = in[m + j]
    BY <1>4, <2>1, DropForm DEF ReadType
  <2>3. k \in 1 .. Len(in) - m /\ m + k \in 1 .. Len(in)
    BY <2>2 DEF ReadType
  <2> QED BY <2>2, <2>3 DEF RowsInv
<1>18. Len(tuples') = 0 /\ tuples' \in Seq(Rows) /\ state' = "input"
  BY <1>4 DEF RowsInv, TransferUrl
<1> QED
  BY <1>14, <1>16, <1>17, <1>18 DEF RowsInv

\* While rows are left the next one is read; after the last the file is empty.
LEMMA NextRow ==
  ASSUME RowsInv,
         NEW whole, NEW cut, Laid(whole, cut),
         NEW r, r = ReadLine(file, MaxLen, Tab)
  PROVE  \/ /\ Len(tuples) = Len(written) /\ ~r.ok
         \/ \E k \in 1 .. Len(written) :
              /\ k = Len(tuples) + 1 /\ r.ok /\ r.str = written[k].url
              /\ IsRow(written[k])
              /\ ReadCount(r.rest) = {[cnt |-> written[k].cnt, rest |-> Drop(whole, cut[k])]}
<1>1. PICK N \in Nat, j \in Nat : N = Len(written) /\ j = Len(tuples) /\ j <= N
  BY DEF RowsInv
<1>2. /\ whole \in Seq(Nat) /\ cut \in [0 .. N -> Nat] /\ cut[N] = Len(whole)
      /\ \A k \in 1 .. N : IsRow(written[k]) /\ HasText(whole, cut[k - 1], written[k], cut[k])
      /\ file = Drop(whole, cut[j])
  BY <1>1 DEF Laid
<1>3. CASE j = N
  <2>1. PICK n \in Nat : n = cut[j] /\ n = Len(whole)
    BY <1>2, <1>3
  <2>2. file \in Seq(Nat) /\ Len(file) = 0
    BY <1>2, <2>1, DropForm
  <2>3. ASSUME NEW m \in Nat, NEW len \in Nat \ {0}, TakesLine(file, MaxLen, Tab, m, len)
        PROVE  FALSE
    <3>1. m + len <= Len(file)
      BY <2>3 DEF TakesLine
    <3> QED BY <2>2, <3>1
  <2>4. ~ReadLine(file, MaxLen, Tab).ok
    BY <2>2, <2>3, ReadLineForm, MaxLenType
  <2> QED BY <1>1, <1>3, <2>4
<1>4. CASE j < N
  <2>1. PICK k \in 1 .. N : k = j + 1 /\ k - 1 = j
    BY <1>1, <1>4
  <2>2. PICK a \in Nat, b \in Nat : a = cut[j] /\ b = cut[k]
    <3>1. j \in 0 .. N /\ k \in 0 .. N
      BY <1>1, <1>4, <2>1
    <3>2. cut[j] \in Nat /\ cut[k] \in Nat
      BY <1>2, <3>1
    <3> QED BY <3>2
  <2>3. PICK row : row = written[k]
    OBVIOUS
  <2>4. IsRow(row) /\ HasText(whole, a, row, b) /\ r = ReadLine(Drop(whole, a), MaxLen, Tab)
    BY <1>2, <2>1, <2>2, <2>3
  <2>5. r.ok /\ r.str = row.url
        /\ ReadCount(r.rest) = {[cnt |-> row.cnt, rest |-> Drop(whole, b)]}
    BY <1>2, <2>4, RowRead
  <2> QED BY <1>1, <2>1, <2>2, <2>3, <2>4, <2>5
<1> QED
  BY <1>1, <1>3, <1>4

LEMMA RowsInvRead ==
  ASSUME RowsInv, NextResultTupleInFile
  PROVE  RowsInv'
<1>1. PICK whole, cut : Laid(whole, cut)
  BY DEF RowsInv
<1>2. PICK r : r = ReadLine(file, MaxLen, Tab)
  OBVIOUS
<1>3. state = "spill" /\ in' = in /\ written' = written
  BY DEF NextResultTupleInFile
<1>4. PICK N \in Nat, j \in Nat : N = Len(written) /\ j = Len(tuples) /\ j <= N
  BY DEF RowsInv
<1>5. CASE r.ok
  <2>1. PICK c \in ReadCount(r.rest) :
          /\ tuples' = Append(tuples, [url |-> r.str, cnt |-> c.cnt])
          /\ file' = c.rest /\ state' = state
    BY <1>2, <1>5 DEF NextResultTupleInFile
  <2>2. PICK k \in 1 .. N :
          /\ k = j + 1 /\ r.str = written[k].url /\ IsRow(written[k])
          /\ ReadCount(r.rest) = {[cnt |-> written[k].cnt, rest |-> Drop(whole, cut[k])]}
    BY <1>1, <1>2, <1>4, <1>5, NextRow
  <2>3. c.cnt = written[k].cnt /\ c.rest = Drop(whole, cut[k])
    BY <2>1, <2>2
  <2>4. tuples' = Append(tuples, written[k]) /\ file' = Drop(whole, cut[k])
    BY <2>1, <2>2, <2>3 DEF IsRow
  <2>5. written[k] \in Rows
    BY <1>4 DEF RowsInv
  <2>6. /\ tuples' \in Seq(Rows) /\ Len(tuples') = k /\ tuples'[k] = written[k]
        /\ \A i \in 1 .. j : tuples'[i] = tuples[i]
    BY <1>4, <2>2, <2>4, <2>5 DEF RowsInv
  <2>7. ASSUME NEW i \in 1 .. k PROVE tuples'[i] = written[i]
    <3>1. CASE i = k
      BY <2>6, <3>1
    <3>2. CASE i # k
      <4>1. i \in 1 .. j
        BY <2>2, <3>2
      <4> QED BY <1>4, <2>6, <4>1 DEF RowsInv
    <3> QED BY <3>1, <3>2
  <2>8. Laid(whole, cut)'
    BY <1>1, <1>3, <2>4, <2>6 DEF Laid
  <2> QED BY <1>3, <1>4, <2>1, <2>6, <2>7, <2>8 DEF RowsInv
<1>6. CASE ~r.ok
  <2>1. Len(tuples) = Len(written)
    BY <1>1, <1>2, <1>6, NextRow
  <2>2. state' = "done" /\ tuples' = tuples /\ file' = file
    BY <1>2, <1>6 DEF NextResultTupleInFile
  <2>3. Laid(whole, cut)'
    BY <1>1, <1>3, <2>2 DEF Laid
  <2> QED BY <1>3, <2>1, <2>2, <2>3 DEF RowsInv
<1> QED
  BY <1>5, <1>6

LEMMA RowsInvStep ==
  ASSUME ReadType, RowsInv, [MCNext]_<<readerVars, original>>
  PROVE  RowsInv'
<1>1. CASE TransferUrl
  BY <1>1, RowsInvTransfer
<1>2. CASE NextResultTupleInFile
  BY <1>2, RowsInvRead
<1>3. ASSUME UNCHANGED <<in, file, written, tuples>>,
             state' = state \/ (state = "input" /\ state' = "spill")
      PROVE  RowsInv'
  <2>1. PICK whole, cut : Laid(whole, cut)
    BY DEF RowsInv
  <2>2. Laid(whole, cut)'
    BY <1>3, <2>1 DEF Laid
  <2> QED BY <1>3, <2>2 DEF RowsInv
<1>4. CASE InputRead
  BY <1>3, <1>4 DEF InputRead
<1>5. CASE ReaderDone
  BY <1>3, <1>5 DEF ReaderDone, readerVars
<1>6. CASE UNCHANGED <<readerVars, original>>
  BY <1>3, <1>6 DEF readerVars
<1> QED
  BY <1>1, <1>2, <1>4, <1>5, <1>6 DEF MCNext, ReaderNext

(***************************************************************************)
(* The rows of a spill file are read as they were written, all of them, in *)
(* their order, with their counts (RowsRoundTrip), if no URL has the Tab   *)
(* that separates it from its count; digits and spaces in it do no harm.   *)
(***************************************************************************)
THEOREM RowsAreReadBack ==
  ASSUME NoTabs
  PROVE  MCSpec => []RowsRoundTrip
<1>1. MCInit => ReadType /\ RowsInv
  BY ReadTypeInit, RowsInvInit
<1>2. ReadType /\ RowsInv /\ [MCNext]_<<readerVars, original>> => ReadType' /\ RowsInv'
  BY ReadTypeStep, RowsInvStep
<1>3. ASSUME RowsInv PROVE RowsRoundTrip
  <2>1. PICK S : S = Rows
    OBVIOUS
  <2>2. /\ tuples \in Seq(S) /\ written \in Seq(S) /\ Len(tuples) <= Len(written)
        /\ \A k \in 1 .. Len(tuples) : tuples[k] = written[k]
        /\ state = "done" => Len(tuples) = Len(written)
    BY <1>3, <2>1 DEF RowsInv
  <2>3. IsPrefix(tuples, written)
    BY <2>2, PrefixIs
  <2>4. state = "done" => tuples = written
    BY <2>2, SeqEqual
  <2> QED BY <2>3, <2>4 DEF RowsRoundTrip
<1> QED
  BY <1>1, <1>2, <1>3, PTL DEF MCSpec

=============================================================================
