--------------------------- MODULE GenDataProofs ---------------------------
(***************************************************************************)
(* The generator neither forgets a URL of the answer nor writes one too    *)
(* often, and the file gets the size asked for, for all answers, sizes and *)
(* random choices.                                                         *)
(***************************************************************************)
EXTENDS GenData, FiniteSetTheorems, TLAPS

\* What url_cnt still holds of a URL: nothing once it is popped.
Left(u) == IF u \in DOMAIN url_cnt THEN url_cnt[u] ELSE 0

(***************************************************************************)
(* The inductive invariant.  AnswerKept needs that no count is 0 before    *)
(* the end, since a URL is popped when its count is 1.                     *)
(***************************************************************************)
AnswerInv ==
  /\ answer \in [DOMAIN answer -> Nat]
  /\ written \in [DOMAIN answer -> Nat]
  /\ DOMAIN url_cnt \subseteq DOMAIN answer
  /\ url_cnt \in [DOMAIN url_cnt -> Nat]
  /\ pc \in {"start", "loop"} => \A u \in DOMAIN url_cnt : url_cnt[u] > 0
  /\ AnswerKept

LEMMA GenInitInv == GenInit => AnswerInv
<1> SUFFICES ASSUME GenInit PROVE AnswerInv
  OBVIOUS
<1>1. answer \in [DOMAIN answer -> Nat \ {0}]
  BY GenAssumption DEF GenInit
<1> QED
  BY <1>1 DEF GenInit, AnswerInv, AnswerKept

\* One occurrence moves from url_cnt to the file.
LEMMA TakeOneOK ==
  ASSUME AnswerInv, NEW u \in DOMAIN url_cnt, url_cnt[u] > 0
  PROVE  LET cnt == TakeOne(u) IN
         /\ DOMAIN cnt \subseteq DOMAIN url_cnt /\ cnt \in [DOMAIN cnt -> Nat]
         /\ \A v \in DOMAIN url_cnt : v # u => v \in DOMAIN cnt /\ cnt[v] = url_cnt[v]
         /\ (IF u \in DOMAIN cnt THEN cnt[u] ELSE 0) = url_cnt[u] - 1
         /\ u \in DOMAIN cnt => cnt[u] > 0
<1>1. url_cnt \in [DOMAIN url_cnt -> Nat]
  BY DEF AnswerInv
<1>2. CASE url_cnt[u] = 1
  BY <1>1, <1>2 DEF TakeOne, Restrict
<1>3. CASE url_cnt[u] # 1
  <2>1. TakeOne(u) = [url_cnt EXCEPT ![u] = @ - 1]
    BY <1>3 DEF TakeOne
  <2>2. url_cnt[u] - 1 \in Nat /\ url_cnt[u] - 1 > 0
    BY <1>1, <1>3
  <2> QED BY <1>1, <2>1, <2>2
<1> QED
  BY <1>2, <1>3

LEMMA WriteGivenInv == AnswerInv /\ WriteGiven => AnswerInv'
<1> SUFFICES ASSUME AnswerInv, WriteGiven PROVE AnswerInv'
  OBVIOUS
<1>1. PICK u \in DOMAIN url_cnt :
        url_cnt' = TakeOne(u) /\ written' = [written EXCEPT ![u] = @ + 1]
  BY DEF WriteGiven
<1>2. pc = "loop" /\ UNCHANGED <<pc, answer, file_size>>
  BY DEF WriteGiven, Choosing
<1>3. url_cnt[u] > 0 /\ url_cnt[u] \in Nat /\ u \in DOMAIN answer
  BY <1>2 DEF AnswerInv
<1>4. /\ DOMAIN url_cnt' \subseteq DOMAIN url_cnt /\ url_cnt' \in [DOMAIN url_cnt' -> Nat]
      /\ \A v \in DOMAIN url_cnt :
           v # u => v \in DOMAIN url_cnt' /\ url_cnt'[v] = url_cnt[v]
      /\ (IF u \in DOMAIN url_cnt' THEN url_cnt'[u] ELSE 0) = url_cnt[u] - 1
      /\ u \in DOMAIN url_cnt' => url_cnt'[u] > 0
  BY <1>1, <1>3, TakeOneOK
<1>5. /\ written' \in [DOMAIN answer -> Nat] /\ written'[u] = written[u] + 1
      /\ \A v \in DOMAIN answer : v # u => written'[v] = written[v]
  BY <1>1, <1>3 DEF AnswerInv
<1>6. AnswerKept'
  <2>1. ASSUME NEW v \in DOMAIN answer
        PROVE  written'[v] + (IF v \in DOMAIN url_cnt' THEN url_cnt'[v] ELSE 0)
                 = answer[v]
    <3>1. /\ written[v] + (IF v \in DOMAIN url_cnt THEN url_cnt[v] ELSE 0) = answer[v]
          /\ written[v] \in Nat
      BY DEF AnswerInv, AnswerKept
    <3>2. CASE v = u
      BY <1>3, <1>4, <1>5, <3>1, <3>2
    <3>3. CASE v # u
      BY <1>4, <1>5, <3>1, <3>3
    <3> QED BY <3>2, <3>3
  <2> QED BY <1>2, <2>1 DEF AnswerKept
<1> QED
  BY <1>2, <1>4, <1>5, <1>6 DEF AnswerInv

LEMMA NothingToChooseInv == AnswerInv /\ NothingToChoose => AnswerInv'
<1> SUFFICES ASSUME AnswerInv, NothingToChoose PROVE AnswerInv'
  OBVIOUS
<1>1. /\ DOMAIN url_cnt = {} /\ pc' = "crashed"
      /\ UNCHANGED <<answer, file_size, url_cnt, written>>
  BY DEF NothingToChoose
<1>2. \A u \in DOMAIN answer : written[u] \in Nat /\ written[u] + 0 = answer[u]
  BY <1>1 DEF AnswerInv, AnswerKept
<1>3. written = answer
  BY <1>2 DEF AnswerInv
<1> QED
  BY <1>1, <1>3 DEF AnswerInv, AnswerKept

LEMMA FulfillInv == AnswerInv /\ Fulfill => AnswerInv'
<1> SUFFICES ASSUME AnswerInv, Fulfill PROVE AnswerInv'
  OBVIOUS
<1>1. /\ pc' = "done" /\ UNCHANGED <<answer, file_size>>
      /\ written' = [u \in DOMAIN answer |-> written[u] + Left(u)]
      /\ url_cnt' = [u \in DOMAIN url_cnt |-> 0]
  BY DEF Fulfill, FulfillThen, Left
<1>2. \A u \in DOMAIN answer : /\ written[u] \in Nat /\ Left(u) \in Nat
                               /\ written[u] + Left(u) = answer[u]
  BY DEF AnswerInv, AnswerKept, Left
<1>3. \A u \in DOMAIN answer : written'[u] = answer[u] /\ answer[u] \in Nat
  BY <1>1, <1>2 DEF AnswerInv
<1>4. \A u \in DOMAIN answer : IF u \in DOMAIN url_cnt' THEN url_cnt'[u] = 0 ELSE TRUE
  BY <1>1
<1>5. AnswerKept'
  BY <1>1, <1>3, <1>4 DEF AnswerKept
<1> QED
  BY <1>1, <1>2, <1>5 DEF AnswerInv

LEMMA GenNextInv == AnswerInv /\ [GenNext]_genVars => AnswerInv'
<1> SUFFICES ASSUME AnswerInv, [GenNext]_genVars PROVE AnswerInv'
  OBVIOUS
<1>1. CASE Start
  BY <1>1 DEF Start, AnswerInv, AnswerKept
<1>2. CASE WriteRandom
  BY <1>2 DEF WriteRandom, Choosing, AnswerInv, AnswerKept
<1>3. CASE LoopEnds
  BY <1>3 DEF LoopEnds, AnswerInv, AnswerKept
<1>4. CASE UNCHANGED genVars
  BY <1>4 DEF genVars, AnswerInv, AnswerKept
<1> QED
  BY <1>1, <1>2, <1>3, <1>4, WriteGivenInv, NothingToChooseInv, FulfillInv
     DEF GenNext, GenStep, GenEnded

\* What is in the file and what is still to be written make up the answer.
THEOREM AnswerIsKept == GenSpec => []AnswerKept
<1>1. GenInit => AnswerInv
  BY GenInitInv
<1>2. AnswerInv /\ [GenNext]_genVars => AnswerInv'
  BY GenNextInv
<1>3. AnswerInv => AnswerKept
  BY DEF AnswerInv
<1> QED
  BY <1>1, <1>2, <1>3, PTL DEF GenSpec

-----------------------------------------------------------------------------

(***************************************************************************)
(* The sums of bytes.                                                      *)
(***************************************************************************)

\* Some consecutive units of one URL.
LEMMA UnitsOfOne ==
  ASSUME NEW u, NEW a \in Int, NEW b \in Int, a <= b + 1
  PROVE  IsFiniteSet({u} \X (a .. b)) /\ Cardinality({u} \X (a .. b)) = b - a + 1
<1>1. IsFiniteSet({u}) /\ Cardinality({u}) = 1
  BY FS_Singleton
<1>2. IsFiniteSet(a .. b) /\ Cardinality(a .. b) = b - a + 1
  BY FS_Interval
<1>3. /\ IsFiniteSet({u} \X (a .. b))
      /\ Cardinality({u} \X (a .. b)) = Cardinality({u}) * Cardinality(a .. b)
  BY <1>1, <1>2, FS_Product
<1> QED
  BY <1>1, <1>2, <1>3

\* A finite map has a sum.
LEMMA SumType ==
  ASSUME NEW f, IsFiniteSet(DOMAIN f), \A u \in DOMAIN f : f[u] \in Nat
  PROVE  IsFiniteSet(Units(f)) /\ Sum(f) \in Nat
<1> DEFINE part == [u \in DOMAIN f |-> {u} \X (1 .. f[u])]
           parts == {{u} \X (1 .. f[u]) : u \in DOMAIN f}
<1>1. part \in Surjection(DOMAIN f, parts)
  BY DEF Surjection
<1>2. \A p \in parts : IsFiniteSet(p)
  <2> SUFFICES ASSUME NEW u \in DOMAIN f PROVE IsFiniteSet({u} \X (1 .. f[u]))
    OBVIOUS
  <2>1. 1 \in Int /\ f[u] \in Int /\ 1 <= f[u] + 1
    OBVIOUS
  <2> QED BY <2>1, UnitsOfOne
<1> HIDE DEF part, parts
<1>3. IsFiniteSet(parts)
  BY <1>1, FS_Surjection
<1>4. IsFiniteSet(UNION parts)
  BY <1>2, <1>3, FS_UNION
<1>5. Units(f) = UNION parts
  BY DEF Units, parts
<1> QED
  BY <1>4, <1>5, FS_CardinalityType DEF Sum

\* Sums are monotonic.
LEMMA SumMonotonic ==
  ASSUME NEW f, NEW g, IsFiniteSet(DOMAIN g), \A u \in DOMAIN g : g[u] \in Nat,
         DOMAIN f \subseteq DOMAIN g,
         \A u \in DOMAIN f : f[u] \in Nat /\ f[u] <= g[u]
  PROVE  Sum(f) <= Sum(g)
<1>1. Units(f) \subseteq Units(g)
  BY DEF Units
<1>2. IsFiniteSet(Units(g))
  BY SumType
<1> QED
  BY <1>1, <1>2, FS_Subset DEF Sum

\* A map that has n less at one place has no more than n less in sum.
LEMMA SumLess ==
  ASSUME NEW f, NEW g, IsFiniteSet(DOMAIN f), IsFiniteSet(DOMAIN g),
         \A x \in DOMAIN f : f[x] \in Nat, \A x \in DOMAIN g : g[x] \in Nat,
         NEW u \in DOMAIN f, NEW n \in Nat,
         \A x \in DOMAIN f : x # u => x \in DOMAIN g /\ g[x] = f[x],
         f[u] <= n + (IF u \in DOMAIN g THEN g[u] ELSE 0)
  PROVE  Sum(f) <= Sum(g) + n
<1>1. PICK m \in Nat, k \in Nat : (m = IF u \in DOMAIN g THEN g[u] ELSE 0) /\ k = m + n
  OBVIOUS
<1> DEFINE top == {u} \X (m + 1 .. k)
<1>2. Units(f) \subseteq Units(g) \cup top
  BY <1>1 DEF Units
<1>3. IsFiniteSet(top) /\ Cardinality(top) = n
  <2>1. m + 1 \in Int /\ k \in Int /\ m + 1 <= k + 1 /\ k - (m + 1) + 1 = n
    BY <1>1
  <2> QED BY <2>1, UnitsOfOne
<1> HIDE DEF top
<1>4. IsFiniteSet(Units(f)) /\ IsFiniteSet(Units(g))
  BY SumType
<1>5. /\ IsFiniteSet(Units(g) \cup top)
      /\ Cardinality(Units(g) \cup top)
           = Cardinality(Units(g)) + Cardinality(top) - Cardinality(Units(g) \cap top)
  BY <1>3, <1>4, FS_Union
<1>6. Cardinality(Units(f)) <= Cardinality(Units(g) \cup top)
  BY <1>2, <1>5, FS_Subset
<1>7. Cardinality(Units(g) \cap top) \in Nat
  BY <1>4, FS_Intersection, FS_CardinalityType
<1>8. Cardinality(Units(f)) \in Nat /\ Cardinality(Units(g)) \in Nat
  BY <1>4, FS_CardinalityType
<1> QED
  BY <1>3, <1>5, <1>6, <1>7, <1>8 DEF Sum

-----------------------------------------------------------------------------

(***************************************************************************)
(* What is counted.  While the script loops, the lines it has yet to write *)
(* of the answer have at least given_len bytes; so does what they add to   *)
(* the file in the end.                                                    *)
(***************************************************************************)
SizeInv ==
  /\ pc \in {"start", "loop", "done", "crashed"}
  /\ answer \in Answers /\ file_size \in Sizes
  /\ given_len \in Int /\ remaining \in Int /\ size \in Nat
  /\ pc = "start" => url_cnt = answer /\ size = 0
  /\ pc = "loop" => size + remaining = file_size /\ given_len <= LinesLen(url_cnt)
  /\ SizeReached

\* The lengths of lines.
LEMMA LineType == \A u \in Url : UrlLen[u] \in Nat /\ Line(u) \in Nat /\ Line(u) = UrlLen[u] + 1
BY GenAssumption DEF Line

LEMMA LinesType ==
  ASSUME NEW cnt, IsFiniteSet(DOMAIN cnt), DOMAIN cnt \subseteq Url,
         \A u \in DOMAIN cnt : cnt[u] \in Nat
  PROVE  LinesLen(cnt) \in Nat
<1> DEFINE f == [u \in DOMAIN cnt |-> cnt[u] * Line(u)]
<1>1. \A u \in DOMAIN f : f[u] \in Nat
  BY LineType
<1>2. IsFiniteSet(DOMAIN f)
  OBVIOUS
<1> HIDE DEF f
<1>3. Sum(f) \in Nat
  BY <1>1, <1>2, SumType
<1> QED
  BY <1>3 DEF LinesLen, f

\* One line less to write of u.
LEMMA LineLess ==
  ASSUME NEW c, NEW d, IsFiniteSet(DOMAIN c), DOMAIN c \subseteq Url,
         DOMAIN d \subseteq DOMAIN c,
         \A x \in DOMAIN c : c[x] \in Nat, \A x \in DOMAIN d : d[x] \in Nat,
         NEW u \in DOMAIN c,
         \A x \in DOMAIN c : x # u => x \in DOMAIN d /\ d[x] = c[x],
         (IF u \in DOMAIN d THEN d[u] ELSE 0) = c[u] - 1
  PROVE  LinesLen(c) <= LinesLen(d) + Line(u)
<1> DEFINE f == [x \in DOMAIN c |-> c[x] * Line(x)]
           g == [x \in DOMAIN d |-> d[x] * Line(x)]
<1>1. IsFiniteSet(DOMAIN f) /\ IsFiniteSet(DOMAIN g)
  BY FS_Subset
<1>2. \A x \in DOMAIN f : f[x] \in Nat
  BY LineType
<1>3. \A x \in DOMAIN g : g[x] \in Nat
  BY LineType
<1>4. \A x \in DOMAIN f : x # u => x \in DOMAIN g /\ g[x] = f[x]
  OBVIOUS
<1>5. u \in DOMAIN f /\ Line(u) \in Nat
  BY LineType
<1>6. f[u] <= Line(u) + (IF u \in DOMAIN g THEN g[u] ELSE 0)
  <2>1. f[u] = c[u] * Line(u) /\ c[u] \in Nat
    OBVIOUS
  <2>2. CASE u \in DOMAIN d
    <3>1. g[u] = (c[u] - 1) * Line(u) /\ u \in DOMAIN g
      BY <2>2
    <3>2. (c[u] - 1) * Line(u) = c[u] * Line(u) - Line(u)
      BY <1>5, <2>1
    <3> QED BY <1>2, <1>3, <1>5, <2>1, <3>1, <3>2
  <2>3. CASE u \notin DOMAIN d
    <3>1. c[u] = 1 /\ f[u] = Line(u) /\ u \notin DOMAIN g
      BY <1>5, <2>1, <2>3
    <3> QED BY <1>5, <3>1
  <2> QED BY <2>2, <2>3
<1> HIDE DEF f, g
<1>7. Sum(f) <= Sum(g) + Line(u)
  BY <1>1, <1>2, <1>3, <1>4, <1>5, <1>6, SumLess
<1> QED
  BY <1>7 DEF LinesLen, f, g

\* What Start counts is no more than the lines.
LEMMA StartCounts ==
  ASSUME NEW ans \in Answers
  PROVE  LET n == Sum([u \in DOMAIN ans |-> UrlLen[u] * ans[u] + 1]) IN
         n \in Nat /\ n <= LinesLen(ans)
<1> DEFINE f == [u \in DOMAIN ans |-> UrlLen[u] * ans[u] + 1]
           g == [u \in DOMAIN ans |-> ans[u] * Line(u)]
<1>1. /\ IsFiniteSet(DOMAIN f) /\ IsFiniteSet(DOMAIN g)
      /\ DOMAIN f = DOMAIN ans /\ DOMAIN g = DOMAIN ans
  BY GenAssumption
<1>2. ASSUME NEW u \in DOMAIN ans
      PROVE  f[u] \in Nat /\ g[u] \in Nat /\ f[u] <= g[u]
  <2>1. UrlLen[u] \in Nat /\ ans[u] \in Nat /\ ans[u] >= 1
    BY GenAssumption
  <2>2. ans[u] * (UrlLen[u] + 1) = UrlLen[u] * ans[u] + ans[u]
    BY <2>1
  <2>3. UrlLen[u] * ans[u] \in Nat
    BY <2>1
  <2>4. f[u] = UrlLen[u] * ans[u] + 1 /\ g[u] = ans[u] * (UrlLen[u] + 1)
    BY DEF Line
  <2> QED BY <2>1, <2>2, <2>3, <2>4
<1> HIDE DEF f, g
<1>3. Sum(f) \in Nat
  BY <1>1, <1>2, SumType
<1>4. Sum(f) <= Sum(g)
  BY <1>1, <1>2, SumMonotonic
<1> QED
  BY <1>3, <1>4 DEF LinesLen, f, g

\* url_cnt is finite, and what it holds has a size.
LEMMA LeftFinite ==
  ASSUME AnswerInv, answer \in Answers
  PROVE  /\ DOMAIN url_cnt \subseteq Url /\ IsFiniteSet(DOMAIN url_cnt)
         /\ LinesLen(url_cnt) \in Nat
<1>1. DOMAIN url_cnt \subseteq Url /\ IsFiniteSet(DOMAIN url_cnt)
  BY GenAssumption, FS_Subset DEF AnswerInv
<1>2. \A u \in DOMAIN url_cnt : url_cnt[u] \in Nat
  BY DEF AnswerInv
<1> QED
  BY <1>1, <1>2, LinesType

LEMMA GenInitSize == GenInit => SizeInv
<1> SUFFICES ASSUME GenInit PROVE SizeInv
  OBVIOUS
<1> QED
  BY DEF GenInit, SizeInv, SizeReached

LEMMA StartSize == SizeInv /\ Start => SizeInv'
<1> SUFFICES ASSUME SizeInv, Start PROVE SizeInv'
  OBVIOUS
<1>1. /\ pc = "start" /\ pc' \in {"crashed", "loop"} /\ remaining' = file_size
      /\ given_len' = Sum([u \in DOMAIN answer |-> UrlLen[u] * answer[u] + 1])
      /\ UNCHANGED <<answer, file_size, url_cnt, written, size>>
  BY DEF Start
<1>2. url_cnt = answer /\ size = 0 /\ answer \in Answers /\ file_size \in Sizes
  BY <1>1 DEF SizeInv
<1>3. given_len' \in Nat /\ given_len' <= LinesLen(answer)
  BY <1>1, <1>2, StartCounts
<1>4. file_size \in Nat
  BY <1>2, GenAssumption
<1>5. LinesLen(url_cnt)' = LinesLen(answer)
  BY <1>1, <1>2
<1> QED
  BY <1>1, <1>2, <1>3, <1>4, <1>5 DEF SizeInv, SizeReached

LEMMA WriteGivenSize == AnswerInv /\ SizeInv /\ WriteGiven => SizeInv'
<1> SUFFICES ASSUME AnswerInv, SizeInv, WriteGiven PROVE SizeInv'
  OBVIOUS
<1>1. pc = "loop" /\ UNCHANGED <<pc, answer, file_size>>
  BY DEF WriteGiven, Choosing
<1>2. PICK u \in DOMAIN url_cnt :
        /\ url_cnt' = TakeOne(u) /\ given_len' = GivenLenLess(u)
        /\ remaining' = remaining - Line(u) /\ size' = size + Line(u)
  BY DEF WriteGiven
<1>3. /\ answer \in Answers /\ file_size \in Sizes /\ size + remaining = file_size
      /\ given_len \in Int /\ remaining \in Int /\ size \in Nat
      /\ given_len <= LinesLen(url_cnt)
  BY <1>1 DEF SizeInv
<1>4. /\ DOMAIN url_cnt \subseteq Url /\ IsFiniteSet(DOMAIN url_cnt)
      /\ LinesLen(url_cnt) \in Nat
  BY <1>3, LeftFinite
<1>5. url_cnt[u] > 0 /\ \A x \in DOMAIN url_cnt : url_cnt[x] \in Nat
  BY <1>1 DEF AnswerInv
<1>6. PICK cnt : cnt = TakeOne(u)
  OBVIOUS
<1>7. /\ DOMAIN cnt \subseteq DOMAIN url_cnt /\ cnt \in [DOMAIN cnt -> Nat]
      /\ \A v \in DOMAIN url_cnt : v # u => v \in DOMAIN cnt /\ cnt[v] = url_cnt[v]
      /\ (IF u \in DOMAIN cnt THEN cnt[u] ELSE 0) = url_cnt[u] - 1
  BY <1>5, <1>6, TakeOneOK
<1>8. IsFiniteSet(DOMAIN cnt) /\ DOMAIN cnt \subseteq Url /\ \A x \in DOMAIN cnt : cnt[x] \in Nat
  BY <1>4, <1>7, FS_Subset
<1>9. LinesLen(cnt) \in Nat
  BY <1>8, LinesType
<1>10. LinesLen(url_cnt) <= LinesLen(cnt) + Line(u)
  <2>1. PICK old : old = url_cnt
    OBVIOUS
  <2>2. LinesLen(old) <= LinesLen(cnt) + Line(u)
    BY <1>4, <1>5, <1>7, <1>8, <2>1, LineLess
  <2> QED BY <2>1, <2>2
<1>11. Line(u) \in Nat
  BY <1>4, LineType
<1>12. given_len' = given_len - Line(u)
  BY <1>2 DEF GivenLenLess
<1>13. LinesLen(url_cnt)' = LinesLen(cnt)
  BY <1>2, <1>6
<1>14. given_len' <= LinesLen(url_cnt)'
  BY <1>3, <1>4, <1>9, <1>10, <1>11, <1>12, <1>13
<1>15. /\ given_len' \in Int /\ remaining' \in Int /\ size' \in Nat
       /\ size' + remaining' = file_size
  BY <1>2, <1>3, <1>11, <1>12
<1> QED
  BY <1>1, <1>3, <1>14, <1>15 DEF SizeInv, SizeReached

LEMMA WriteRandomSize == SizeInv /\ WriteRandom => SizeInv'
<1> SUFFICES ASSUME SizeInv, WriteRandom PROVE SizeInv'
  OBVIOUS
<1>1. pc = "loop" /\ UNCHANGED <<pc, answer, file_size, url_cnt, given_len, written>>
  BY DEF WriteRandom, Choosing
<1>2. PICK len \in gen_random_url :
        remaining' = remaining - (len + 1) /\ size' = size + len + 1
  BY DEF WriteRandom
<1>3. len \in Nat
  BY GenAssumption DEF gen_random_url
<1>4. /\ size + remaining = file_size /\ file_size \in Sizes
      /\ remaining \in Int /\ size \in Nat
  BY <1>1 DEF SizeInv
<1>5. remaining' \in Int /\ size' \in Nat /\ size' + remaining' = file_size
  BY <1>2, <1>3, <1>4
<1>6. LinesLen(url_cnt)' = LinesLen(url_cnt)
  BY <1>1
<1> QED
  BY <1>1, <1>4, <1>5, <1>6 DEF SizeInv, SizeReached

\* What is left of the answer fills the file.
LEMMA FulfillSize == AnswerInv /\ SizeInv /\ Fulfill => SizeInv'
<1> SUFFICES ASSUME AnswerInv, SizeInv, Fulfill PROVE SizeInv'
  OBVIOUS
<1>1. /\ pc = "loop" /\ given_len >= remaining /\ pc' = "done"
      /\ size' = size + LinesLen(url_cnt)
      /\ UNCHANGED <<answer, file_size, given_len, remaining>>
  BY DEF Fulfill, FulfillThen
<1>2. /\ answer \in Answers /\ file_size \in Sizes /\ size + remaining = file_size
      /\ given_len \in Int /\ remaining \in Int /\ size \in Nat
      /\ given_len <= LinesLen(url_cnt)
  BY <1>1 DEF SizeInv
<1>3. LinesLen(url_cnt) \in Nat
  BY <1>2, LeftFinite
<1>4. size' \in Nat /\ size' >= file_size
  BY <1>1, <1>2, <1>3
<1> QED
  BY <1>1, <1>2, <1>4 DEF SizeInv, SizeReached

LEMMA GenNextSize == AnswerInv /\ SizeInv /\ [GenNext]_genVars => SizeInv'
<1> SUFFICES ASSUME AnswerInv, SizeInv, [GenNext]_genVars PROVE SizeInv'
  OBVIOUS
<1>1. CASE NothingToChoose
  BY <1>1 DEF NothingToChoose, SizeInv, SizeReached
<1>2. CASE LoopEnds
  <2>1. /\ pc = "loop" /\ remaining <= 0 /\ pc' = "done"
        /\ UNCHANGED <<answer, file_size, given_len, remaining, size>>
    BY <1>2 DEF LoopEnds
  <2>2. size >= file_size
    <3>1. file_size \in Nat
      BY GenAssumption DEF SizeInv
    <3> QED BY <2>1, <3>1 DEF SizeInv
  <2> QED BY <2>1, <2>2 DEF SizeInv, SizeReached
<1>3. CASE UNCHANGED genVars
  <2>1. LinesLen(url_cnt)' = LinesLen(url_cnt)
    BY <1>3 DEF genVars
  <2> QED BY <1>3, <2>1 DEF genVars, SizeInv, SizeReached
<1> QED
  BY <1>1, <1>2, <1>3, StartSize, WriteGivenSize, WriteRandomSize, FulfillSize
     DEF GenNext, GenStep, GenEnded

\* Both invariants hold together.
LEMMA GenInvariant == GenSpec => [](AnswerInv /\ SizeInv)
<1>1. GenInit => AnswerInv /\ SizeInv
  BY GenInitInv, GenInitSize
<1>2. AnswerInv /\ SizeInv /\ [GenNext]_genVars => (AnswerInv /\ SizeInv)'
  BY GenNextInv, GenNextSize
<1> QED
  BY <1>1, <1>2, PTL DEF GenSpec

\* The types of the generator's variables.
THEOREM GenTypeCorrect == GenSpec => []GenTypeOK
<1>1. AnswerInv /\ SizeInv => GenTypeOK
  BY DEF AnswerInv, SizeInv, GenTypeOK
<1> QED
  BY <1>1, GenInvariant, PTL

\* A finished file is no smaller than asked.
THEOREM FileIsBigEnough == GenSpec => []SizeReached
<1>1. AnswerInv /\ SizeInv => SizeReached
  BY DEF SizeInv
<1> QED
  BY <1>1, GenInvariant, PTL

=============================================================================
