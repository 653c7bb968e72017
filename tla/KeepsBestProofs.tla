-------------------------- MODULE KeepsBestProofs --------------------------
(***************************************************************************)
(* The answer of the second stage: topN_tuples keeps the num_results_ best *)
(* URLs with the sums of their counts, for any sorted spill files that can *)
(* be read, whichever way the ties of the two heaps fall.  The sums are    *)
(* those of the first stage, Spilled, and so are the facts about rows.     *)
(***************************************************************************)
EXTENDS PartialSortProofs, MergeSortProofs

HasTuple(f) == \E t \in merge_heap : t.file_index = f

\* The rows of URL u whose tuples have left the merge heap, and their counts.
TakenRows(u) ==
  {r \in RowsOf(u) :
     r[2] < RowsRead(r[1]) \/ (r[2] = RowsRead(r[1]) /\ ~HasTuple(r[1]))}
Taken(u) == [r \in TakenRows(u) |-> disk[r[1]][r[2]].cnt]

\* What of them is in curr_tuple and in next_tuple.
CurrCount(u) == IF ~IsEmpty(curr) /\ UrlOf(curr) = u THEN curr.cnt ELSE 0
NextCount(u) == IF pc = "fold" /\ UrlOf(next_tuple) = u THEN next_tuple.cnt ELSE 0

\* The counts are positive, and an int holds the sum of those of a URL.
CountsFit ==
  /\ \A f \in Files : \A j \in DOMAIN disk[f] : disk[f][j].cnt \in Nat \ {0}
  /\ \A u \in Url : Spilled(u) <= IntMax

\* Tuple t has the URL and the count of the last row read of its file.
HoldsRow(t) ==
  LET f == t.file_index
      j == RowsRead(f) IN
  j \in DOMAIN disk[f] /\ UrlOf(t) = disk[f][j].url /\ t.cnt = disk[f][j].cnt

\* The URLs of the spill files.
SpilledUrls == {u \in Url : RowsOf(u) # {}}

AllRead == {"reread", "recount"} \cap faulted = {}

(***************************************************************************)
(* What the heap and the files hold while they are merged.                 *)
(***************************************************************************)
HeapRows ==
  /\ CountsFit
  /\ \A t \in merge_heap : HoldsRow(t)
  /\ \A f \in drained : RowsRead(f) = Len(disk[f])

(***************************************************************************)
(* What has left the heap of a URL is in the two tuples in hand, unless    *)
(* the URL is before that of curr_tuple: then topN_tuples has had it.      *)
(***************************************************************************)
HandCounts ==
  /\ ~IsEmpty(curr) => curr.cnt > 0
  /\ pc = "fold" => next_tuple.cnt > 0
  /\ \A u \in Url : IsEmpty(curr) \/ UrlOf(curr) <= u
       => CurrCount(u) + NextCount(u) = Held(Taken(u))
  /\ IsEmpty(curr) => topN = {}
  /\ ~IsEmpty(curr) => KeepsBest(topN, Merged(UrlOf(curr)), num_results)

KeepInv ==
  AllRead =>
    /\ Merging => HeapRows
    /\ pc = "reopen" =>
         (\A f \in DOMAIN cursor : f < idx) /\ \A u \in Url : TakenRows(u) = {}
    /\ pc \in {"merge", "fold"} => HandCounts
    /\ pc = "close" /\ idx = 0 => KeepsBest(topN, SpilledUrls, num_results)

-----------------------------------------------------------------------------

\* A map with finitely many keys to natural numbers has a finite sum.
LEMMA BytesFinite ==
  ASSUME NEW c, IsFiniteSet(DOMAIN c), \A a \in DOMAIN c : c[a] \in Nat
  PROVE  IsFiniteSet(Bytes(c)) /\ Held(c) \in Nat
<1> DEFINE block == [a \in DOMAIN c |-> {a} \X (1 .. c[a])]
           blocks == {{a} \X (1 .. c[a]) : a \in DOMAIN c}
<1>1. block \in Surjection(DOMAIN c, blocks)
  BY DEF Surjection
<1>2. \A b \in blocks : IsFiniteSet(b)
  <2>1. ASSUME NEW a \in DOMAIN c PROVE IsFiniteSet({a} \X (1 .. c[a]))
    <3>1. c[a] \in Nat
      OBVIOUS
    <3> QED BY <3>1, Block
  <2> QED BY <2>1
<1> HIDE DEF block, blocks
<1>3. IsFiniteSet(blocks)
  BY <1>1, FS_Surjection
<1>4. IsFiniteSet(UNION blocks)
  BY <1>2, <1>3, FS_UNION
<1>5. Bytes(c) = UNION blocks
  BY DEF Bytes, blocks
<1> QED
  BY <1>4, <1>5, FS_CardinalityType DEF Held

\* There are finitely many rows of a URL, and their counts add up.
LEMMA SpilledFinite ==
  ASSUME MergeTypeOK, Files \subseteq DOMAIN disk, CountsFit, NEW u
  PROVE  IsFiniteSet(Bytes(CountsOf(u))) /\ Spilled(u) \in Nat
<1> DEFINE lens == [f \in Files |-> Len(disk[f])]
<1>1. \A f \in Files : DOMAIN disk[f] = 1 .. Len(disk[f]) /\ Len(disk[f]) \in Nat
  BY DEF MergeTypeOK
<1>2. IsFiniteSet(Files)
  BY FS_Interval DEF MergeTypeOK, Files
<1>3. IsFiniteSet(Bytes(lens))
  <2>1. IsFiniteSet(DOMAIN lens) /\ \A f \in DOMAIN lens : lens[f] \in Nat
    BY <1>1, <1>2
  <2> HIDE DEF lens
  <2> QED BY <2>1, BytesFinite
<1>4. RowsOf(u) \subseteq Bytes(lens)
  <2> SUFFICES ASSUME NEW x \in RowsOf(u) PROVE x \in Bytes(lens)
    OBVIOUS
  <2>1. PICK f \in 0 .. File : \E j \in DOMAIN disk[f] : x = <<f, j>> /\ disk[f][j].url = u
    BY RowsForm
  <2>2. f \in Files
    BY <2>1 DEF File, Files
  <2> QED BY <1>1, <2>1, <2>2 DEF Bytes
<1>5. IsFiniteSet(RowsOf(u))
  BY <1>3, <1>4, FS_Subset
<1>6. \A x \in RowsOf(u) : CountsOf(u)[x] \in Nat
  <2> SUFFICES ASSUME NEW x \in RowsOf(u) PROVE CountsOf(u)[x] \in Nat
    OBVIOUS
  <2>1. PICK f \in 0 .. File : \E j \in DOMAIN disk[f] : x = <<f, j>> /\ disk[f][j].url = u
    BY RowsForm
  <2>2. f \in Files
    BY <2>1 DEF File, Files
  <2> QED BY <2>1, <2>2, CountOfRow DEF CountsFit
<1> QED
  BY <1>5, <1>6, CountsForm, BytesFinite DEF Spilled

\* A URL has rows just if its sum is positive.
LEMMA SpilledPositive ==
  ASSUME CountsFit, NEW u, IsFiniteSet(Bytes(CountsOf(u)))
  PROVE  Spilled(u) = 0 <=> RowsOf(u) = {}
<1>1. Spilled(u) = 0 <=> Bytes(CountsOf(u)) = {}
  BY FS_EmptySet DEF Spilled, Held
<1>2. ASSUME NEW x \in RowsOf(u) PROVE <<x, 1>> \in Bytes(CountsOf(u))
  <2>1. PICK f \in 0 .. File : \E j \in DOMAIN disk[f] : x = <<f, j>> /\ disk[f][j].url = u
    BY RowsForm
  <2>2. f \in Files
    BY <2>1 DEF File, Files
  <2>3. CountsOf(u)[x] \in Nat \ {0} /\ x \in DOMAIN CountsOf(u)
    BY <2>1, <2>2, CountOfRow, CountsForm DEF CountsFit
  <2> QED BY <2>3 DEF Bytes
<1>3. RowsOf(u) = {} => Bytes(CountsOf(u)) = {}
  BY CountsForm DEF Bytes
<1> QED
  BY <1>1, <1>2, <1>3

-----------------------------------------------------------------------------

\* The counts taken, before and after a step.
LEMMA TakenForm ==
  ASSUME NEW u
  PROVE  /\ Taken(u) = [x \in DOMAIN Taken(u) |-> Taken(u)[x]]
         /\ DOMAIN Taken(u) = TakenRows(u)
         /\ \A x \in TakenRows(u) : Taken(u)[x] = disk[x[1]][x[2]].cnt
         /\ Taken(u)' = [x \in DOMAIN Taken(u)' |-> Taken(u)'[x]]
         /\ DOMAIN Taken(u)' = TakenRows(u)'
         /\ \A x \in TakenRows(u)' : Taken(u)'[x] = disk'[x[1]][x[2]].cnt
BY DEF Taken

\* They are some of all.
LEMMA TakenWithin ==
  ASSUME NEW u, IsFiniteSet(Bytes(CountsOf(u)))
  PROVE  /\ IsFiniteSet(Bytes(Taken(u))) /\ Held(Taken(u)) \in Nat
         /\ Held(Taken(u)) <= Spilled(u)
<1>1. Bytes(Taken(u)) \subseteq Bytes(CountsOf(u))
  <2>1. \A x \in TakenRows(u) : x \in RowsOf(u) /\ Taken(u)[x] = CountsOf(u)[x]
    BY DEF TakenRows, Taken, CountsOf
  <2> QED BY <2>1, TakenForm, CountsForm DEF Bytes
<1> QED
  BY <1>1, FS_Subset, FS_CardinalityType DEF Spilled, Held

(***************************************************************************)
(* A URL before all those of the heap: the files have no more rows of it.  *)
(***************************************************************************)
LEMMA AllTaken ==
  ASSUME MergeInv, HeapRows, pc \in {"merge", "fold"}, NEW u \in Url,
         \A h \in merge_heap : u < UrlOf(h)
  PROVE  Held(Taken(u)) = Spilled(u)
<1>1. Files \subseteq DOMAIN disk /\ \A f \in Files : f \in drained \/ HasTuple(f)
  BY DEF MergeInv, Places, Merging, Opened, HasTuple
<1>2. \A f \in Files : SortedFile(disk[f])
  BY <1>1 DEF MergeInv, Ascending
<1>3. ASSUME NEW x \in RowsOf(u) PROVE x \in TakenRows(u)
  <2>0. PICK f \in 0 .. File : \E j \in DOMAIN disk[f] : x = <<f, j>> /\ disk[f][j].url = u
    BY RowsForm
  <2>1. PICK j \in DOMAIN disk[f] : x = <<f, j>> /\ disk[f][j].url = u
    BY <2>0
  <2>2. f \in Files /\ disk[f] \in Seq(Row) /\ j \in 1 .. Len(disk[f]) /\ u \in Nat
    BY <1>1, <2>1, ProcessAssumption DEF File, Files, MergeInv, MergeTypeOK
  <2>3. CASE HasTuple(f)
    <3>1. PICK t \in merge_heap : t.file_index = f
      BY <2>3 DEF HasTuple
    <3>2. HoldsRow(t) /\ u < UrlOf(t)
      BY DEF HeapRows
    <3> DEFINE k == RowsRead(f)
    <3>3. k \in DOMAIN disk[f] /\ u < disk[f][k].url
      BY <3>1, <3>2 DEF HoldsRow
    <3>4. j < k
      <4>1. disk[f][k].url \in Nat
        <5>1. disk[f][k] \in Row
          BY <2>2, <3>3
        <5> QED BY <5>1, ProcessAssumption DEF Row
      <4>2. j # k /\ ~(k < j)
        BY <1>2, <2>1, <2>2, <3>3, <4>1 DEF SortedFile
      <4> QED BY <2>2, <3>3, <4>2
    <3> QED BY <2>1, <3>4 DEF TakenRows
  <2>4. CASE ~HasTuple(f)
    <3>1. RowsRead(f) = Len(disk[f])
      BY <1>1, <2>2, <2>4 DEF HeapRows
    <3> QED BY <2>1, <2>2, <2>4, <3>1 DEF TakenRows
  <2> QED BY <2>3, <2>4
<1>4. TakenRows(u) = RowsOf(u)
  BY <1>3 DEF TakenRows
<1> QED
  BY <1>4 DEF Taken, CountsOf, Spilled

(***************************************************************************)
(* The last row read of file i leaves the heap: the next row of the file   *)
(* comes in, or there is none.                                             *)
(***************************************************************************)
LEMMA TakenNext ==
  ASSUME UNCHANGED <<disk, output_files>>, NEW i \in Files, HasTuple(i),
         RowsRead(i) \in DOMAIN disk[i], disk[i] \in Seq(Row),
         \A f : f # i => RowsRead(f)' = RowsRead(f) /\ (HasTuple(f)' <=> HasTuple(f)),
         \/ RowsRead(i)' = RowsRead(i) + 1 /\ HasTuple(i)'
         \/ RowsRead(i)' = RowsRead(i) /\ ~HasTuple(i)',
         NEW u
  PROVE  LET row == disk[i][RowsRead(i)]
             r == <<i, RowsRead(i)>> IN
         /\ r \notin DOMAIN Taken(u)
         /\ Taken(u)' = IF row.url = u THEN Put(Taken(u), r, row.cnt) ELSE Taken(u)
<1> DEFINE k == RowsRead(i)
           row == disk[i][k]
           r == <<i, k>>
<1>1. RowsOf(u)' = RowsOf(u)
  BY DEF RowsOf
<1>2. k \in Nat
  OBVIOUS
<1>3. r \in RowsOf(u) <=> row.url = u
  <2>1. i \in 0 .. File
    BY DEF File, Files
  <2> QED BY <2>1, RowsForm
<1>4. ASSUME NEW x \in RowsOf(u)
      PROVE  /\ x \in TakenRows(u)' <=> x \in TakenRows(u) \/ x = r
             /\ x = r => x \notin TakenRows(u)
  <2>0. PICK f \in 0 .. File : \E j \in DOMAIN disk[f] : x = <<f, j>> /\ disk[f][j].url = u
    BY RowsForm
  <2>1. PICK j \in DOMAIN disk[f] : x = <<f, j>> /\ disk[f][j].url = u
    BY <2>0
  <2>2. /\ x \in TakenRows(u) <=> j < RowsRead(f) \/ (j = RowsRead(f) /\ ~HasTuple(f))
        /\ x \in TakenRows(u)' <=> j < RowsRead(f)' \/ (j = RowsRead(f)' /\ ~HasTuple(f)')
    BY <1>1, <2>1 DEF TakenRows
  <2>3. CASE f # i
    BY <2>1, <2>2, <2>3
  <2>4. CASE f = i
    <3>1. j \in Nat
      BY <2>1, <2>4
    <3> QED BY <1>2, <2>1, <2>2, <2>4, <3>1
  <2> QED BY <2>3, <2>4
<1>5. TakenRows(u) \subseteq RowsOf(u) /\ TakenRows(u)' \subseteq RowsOf(u)
  BY <1>1 DEF TakenRows
<1>6. r \notin TakenRows(u)
  BY <1>4, <1>5
<1>7. CASE row.url # u
  <2>1. TakenRows(u)' = TakenRows(u)
    BY <1>3, <1>4, <1>5, <1>7
  <2> QED BY <1>6, <1>7, <2>1, TakenForm DEF Taken
<1>8. CASE row.url = u
  <2> DEFINE d == Put(Taken(u), r, row.cnt)
  <2>1. TakenRows(u)' = TakenRows(u) \cup {r}
    BY <1>3, <1>4, <1>5, <1>8
  <2>2. /\ d = [x \in DOMAIN d |-> d[x]] /\ DOMAIN d = TakenRows(u) \cup {r}
        /\ d[r] = row.cnt /\ \A x \in TakenRows(u) : d[x] = Taken(u)[x]
    BY <1>6, TakenForm DEF Put
  <2> HIDE DEF d
  <2>3. \A x \in DOMAIN d : Taken(u)'[x] = d[x]
    <3>1. disk'[r[1]][r[2]].cnt = row.cnt
      OBVIOUS
    <3>2. Taken(u)'[r] = row.cnt
      BY <2>1, <3>1, TakenForm
    <3>3. ASSUME NEW x \in TakenRows(u) PROVE Taken(u)'[x] = Taken(u)[x]
      BY <2>1, TakenForm
    <3> QED BY <2>2, <3>2, <3>3
  <2>4. DOMAIN Taken(u)' = DOMAIN d
    BY <2>1, <2>2, TakenForm
  <2>5. Taken(u)' = d
    BY <2>2, <2>3, <2>4, TakenForm, SameFunction
  <2> QED BY <1>6, <1>8, <2>5, TakenForm DEF d
<1> QED
  BY <1>7, <1>8

-----------------------------------------------------------------------------

\* What it is to keep the best, after a step that leaves the files alone.
LEMMA KeepsBestNext ==
  ASSUME UNCHANGED <<mem, disk, output_files, num_results>>, NEW us, NEW kept,
         kept = {mem[t.ptr] : t \in topN'}, kept \subseteq us,
         Cardinality(topN') = Cardinality(kept),
         Cardinality(kept) = IF Cardinality(us) < num_results
                               THEN Cardinality(us) ELSE num_results,
         \A t \in topN' : t.cnt = Spilled(mem[t.ptr]),
         \A u \in us \ kept, k \in kept :
           Spilled(u) < Spilled(k) \/ (Spilled(u) = Spilled(k) /\ u > k)
  PROVE  KeepsBest(topN, us, num_results)'
<1>1. \A u : Spilled(u)' = Spilled(u)
  BY FilesUntouched DEF Spilled
<1>2. {mem'[t.ptr] : t \in topN'} = kept
  OBVIOUS
<1> QED
  BY <1>1, <1>2 DEF KeepsBest

(***************************************************************************)
(* UpdateHeap adds the URL of curr_tuple, which is not among the URLs us   *)
(* kept so far, and drops the worst URL if there are too many.             *)
(***************************************************************************)
LEMMA KeepsBestUpdate ==
  ASSUME UNCHANGED <<mem, disk, output_files, num_results>>, mem \in [Addr -> Url],
         num_results \in Nat, topN \subseteq Tuples, IsFiniteSet(topN), curr \in Tuples,
         NEW us, us \subseteq Url, IsFiniteSet(us),
         NEW u0, u0 = UrlOf(curr), u0 \notin us,
         \A u \in Url : Spilled(u) \in Nat,
         \A s, t \in topN : UrlOf(s) = UrlOf(t) => s = t,
         curr.cnt = Spilled(u0),
         KeepsBest(topN, us, num_results), UpdateHeap(curr)
  PROVE  KeepsBest(topN, us \cup {u0}, num_results)'
<1> DEFINE n == num_results
           kept == {mem[t.ptr] : t \in topN}
           heap == topN \cup {curr}
           all == kept \cup {u0}
<1>1. u0 = mem[curr.ptr]
  BY DEF UrlOf
<1>2. /\ kept \subseteq us /\ Cardinality(topN) = Cardinality(kept)
      /\ Cardinality(kept) = IF Cardinality(us) < n THEN Cardinality(us) ELSE n
      /\ \A t \in topN : t.cnt = Spilled(mem[t.ptr])
      /\ \A u \in us \ kept, k \in kept :
           Spilled(u) < Spilled(k) \/ (Spilled(u) = Spilled(k) /\ u > k)
  BY DEF KeepsBest
<1>3. u0 \notin us /\ u0 \notin kept /\ curr \notin topN /\ u0 \in Url
  <2>1. mem[curr.ptr] \in Url
    BY UrlIsNat DEF UrlOf
  <2> QED BY <1>1, <1>2, <2>1 DEF UrlOf
<1>4. /\ IsFiniteSet(kept) /\ Cardinality(kept) \in Nat /\ Cardinality(us) \in Nat
      /\ IsFiniteSet(all) /\ Cardinality(all) = Cardinality(kept) + 1
      /\ Cardinality(us \cup {u0}) = Cardinality(us) + 1
      /\ IsFiniteSet(heap) /\ Cardinality(heap) = Cardinality(kept) + 1
  <2> HIDE DEF kept
  <2>1. IsFiniteSet(kept)
    BY <1>2, FS_Subset
  <2>2. IsFiniteSet(all) /\ Cardinality(all) = Cardinality(kept) + 1
    BY <1>3, <2>1, FS_AddElement
  <2>3. Cardinality(us \cup {u0}) = Cardinality(us) + 1
    BY <1>3, FS_AddElement
  <2>4. IsFiniteSet(heap) /\ Cardinality(heap) = Cardinality(kept) + 1
    BY <1>2, <1>3, FS_AddElement
  <2> QED BY <2>1, <2>2, <2>3, <2>4, FS_CardinalityType
<1>5. /\ all = {mem[t.ptr] : t \in heap}
      /\ \A s, t \in heap : mem[s.ptr] = mem[t.ptr] => s = t
      /\ \A t \in heap : t.cnt = Spilled(mem[t.ptr])
  BY <1>1, <1>2, <1>3 DEF UrlOf
<1>6. \A u \in us \cup {u0} : Spilled(u) \in Nat /\ u \in Nat
  BY <1>3, ProcessAssumption
<1>7. CASE Cardinality(heap) <= n /\ topN' = heap
  <2>1. Cardinality(kept) = Cardinality(us)
    BY <1>2, <1>4, <1>7
  <2>2. kept = us
    <3> HIDE DEF kept
    <3> QED BY <1>2, <2>1, FS_Subset
  <2>3. Cardinality(all) = IF Cardinality(us \cup {u0}) < n
                             THEN Cardinality(us \cup {u0}) ELSE n
    BY <1>4, <1>7, <2>1
  <2>4. all = us \cup {u0} /\ all = {mem[t.ptr] : t \in topN'}
    BY <1>5, <1>7, <2>2
  <2>5. Cardinality(topN') = Cardinality(all) /\ \A t \in topN' : t.cnt = Spilled(mem[t.ptr])
    BY <1>4, <1>5, <1>7
  <2> HIDE DEF all, kept, heap
  <2> QED BY <2>3, <2>4, <2>5, KeepsBestNext
<1>8. ASSUME ~(Cardinality(heap) <= n), NEW top \in heap, IsTop(top, heap),
             topN' = heap \ {top}
      PROVE  KeepsBest(topN, us \cup {u0}, num_results)'
  <2>1. PICK w : w = mem[top.ptr]
    OBVIOUS
  <2> DEFINE rest == all \ {w}
  <2>2. w \in all /\ rest = {mem[t.ptr] : t \in topN'}
    BY <1>5, <1>8, <2>1
  <2>3. /\ Cardinality(kept) = n
        /\ Cardinality(rest) = n /\ Cardinality(topN') = n
    <3>1. Cardinality(kept) = n
      BY <1>2, <1>4, <1>8
    <3>2. Cardinality(rest) = Cardinality(all) - 1
      <4> HIDE DEF all
      <4> QED BY <1>4, <2>2, FS_RemoveElement
    <3>3. Cardinality(topN') = Cardinality(heap) - 1
      <4> HIDE DEF heap
      <4> QED BY <1>4, <1>8, FS_RemoveElement
    <3> QED BY <1>4, <3>1, <3>2, <3>3
  <2>4. rest \subseteq us \cup {u0}
    BY <1>2
  <2>5. n <= Cardinality(us)
    BY <1>2, <1>4, <2>3
  <2>6. \A k \in rest : Spilled(w) < Spilled(k) \/ (Spilled(w) = Spilled(k) /\ w > k)
    <3> SUFFICES ASSUME NEW t \in topN'
                 PROVE  LET k == mem[t.ptr] IN
                        Spilled(w) < Spilled(k) \/ (Spilled(w) = Spilled(k) /\ w > k)
      BY <2>2
    <3>1. t \in heap /\ t # top /\ ~Worse(top, t)
      BY <1>8 DEF IsTop
    <3>2. PICK k : k = mem[t.ptr]
      OBVIOUS
    <3>3. k # w /\ t.cnt = Spilled(k) /\ top.cnt = Spilled(w)
      BY <1>5, <1>8, <2>1, <3>1, <3>2
    <3>4. k \in us \cup {u0} /\ w \in us \cup {u0}
      BY <1>2, <1>5, <2>2, <3>1, <3>2
    <3>5. ~(Spilled(w) > Spilled(k)) /\ ~(Spilled(w) = Spilled(k) /\ w < k)
      BY <2>1, <3>1, <3>2, <3>3 DEF Worse
    <3> QED BY <1>6, <3>2, <3>3, <3>4, <3>5
  <2>7. ASSUME NEW u \in (us \cup {u0}) \ rest, NEW k \in rest
        PROVE  Spilled(u) < Spilled(k) \/ (Spilled(u) = Spilled(k) /\ u > k)
    <3>1. CASE u = w
      BY <2>6, <3>1
    <3>2. CASE u # w
      <4>1. u \in us \ kept
        BY <2>7, <3>2
      <4>2. CASE k \in kept
        BY <1>2, <4>1, <4>2
      <4>3. CASE k \notin kept
        <5>1. k = u0 /\ w \in kept
          BY <2>2, <2>7, <4>3
        <5>2. Spilled(u) < Spilled(w) \/ (Spilled(u) = Spilled(w) /\ u > w)
          BY <1>2, <4>1, <5>1
        <5>3. Spilled(w) < Spilled(k) \/ (Spilled(w) = Spilled(k) /\ w > k)
          BY <2>6, <2>7
        <5>4. {u, w, k} \subseteq us \cup {u0}
          BY <1>2, <4>1, <5>1
        <5> QED BY <1>6, <5>2, <5>3, <5>4
      <4> QED BY <4>2, <4>3
    <3> QED BY <3>1, <3>2
  <2>8. \A t \in topN' : t.cnt = Spilled(mem[t.ptr])
    BY <1>5, <1>8
  <2>9. Cardinality(rest) = IF Cardinality(us \cup {u0}) < n
                              THEN Cardinality(us \cup {u0}) ELSE n
    BY <1>4, <2>3, <2>5
  <2> HIDE DEF rest, all, kept, heap
  <2> QED BY <2>2, <2>3, <2>4, <2>7, <2>8, <2>9, KeepsBestNext
<1> QED
  BY <1>7, <1>8 DEF UpdateHeap

-----------------------------------------------------------------------------

\* What a step that leaves the files alone keeps.
LEMMA FilesKept ==
  ASSUME UNCHANGED <<disk, output_files>>
  PROVE  /\ CountsFit <=> CountsFit'
         /\ \A u : RowsOf(u)' = RowsOf(u) /\ Spilled(u)' = Spilled(u)
         /\ \A b : Merged(b)' = Merged(b)
         /\ SpilledUrls' = SpilledUrls /\ Files' = Files
<1>1. \A u : RowsOf(u)' = RowsOf(u) /\ Spilled(u)' = Spilled(u)
  BY FilesUntouched DEF Spilled, RowsOf
<1>2. Files' = Files
  BY DEF Files
<1> QED
  BY <1>1, <1>2 DEF CountsFit, Merged, SpilledUrls

\* One that leaves the strings of topN_tuples alone, too.
LEMMA KeepsBestSame ==
  ASSUME UNCHANGED <<disk, output_files, num_results, topN>>, NEW us,
         \A t \in topN : mem'[t.ptr] = mem[t.ptr], KeepsBest(topN, us, num_results)
  PROVE  KeepsBest(topN, us, num_results)'
<1>1. \A u : Spilled(u)' = Spilled(u)
  BY FilesKept
<1>2. {mem'[t.ptr] : t \in topN} = {mem[t.ptr] : t \in topN}
  OBVIOUS
<1> QED
  BY <1>1, <1>2 DEF KeepsBest

\* One that leaves the heap and the files alone.
LEMMA HeapKept ==
  ASSUME HeapRows, UNCHANGED <<disk, output_files, mem, merge_heap, cursor, drained>>
  PROVE  HeapRows' /\ \A u : Taken(u)' = Taken(u)
<1>1. CountsFit' /\ \A u : RowsOf(u)' = RowsOf(u)
  BY FilesKept DEF HeapRows
<1>2. \A f : RowsRead(f)' = RowsRead(f) /\ (HasTuple(f)' <=> HasTuple(f))
  BY DEF RowsRead, HasTuple
<1>3. HeapRows'
  BY <1>1, <1>2 DEF HeapRows, HoldsRow, UrlOf
<1> QED
  BY <1>1, <1>2, <1>3 DEF Taken, TakenRows

LEMMA InitKeepInv == MergeInit /\ CountsFit => KeepInv
<1> SUFFICES ASSUME MergeInit, CountsFit PROVE KeepInv
  OBVIOUS
<1>1. /\ pc = "reopen" /\ DOMAIN cursor = {} /\ drained = {} /\ merge_heap = {}
  BY DEF MergeInit, StartMerger, EmptyMap
<1>2. ASSUME NEW u, NEW x \in TakenRows(u) PROVE FALSE
  <2>1. PICK f \in 0 .. File : \E j \in DOMAIN disk[f] : x = <<f, j>> /\ disk[f][j].url = u
    BY <1>2, RowsForm DEF TakenRows
  <2>2. disk[f] \in Seq(Row) /\ x[2] \in DOMAIN disk[f]
    BY <2>1 DEF MergeInit, SortedFile, File
  <2>3. RowsRead(x[1]) = 0 /\ x[2] \in Nat \ {0}
    BY <1>1, <2>2 DEF RowsRead
  <2> QED BY <1>2, <2>3 DEF TakenRows
<1> QED
  BY <1>1, <1>2 DEF KeepInv, HeapRows

\* FileMerger::Open takes no row from the heap.
LEMMA OpenSpillKeep == MergeInv /\ KeepInv /\ OpenSpill => KeepInv'
<1> SUFFICES ASSUME MergeInv, KeepInv, OpenSpill, AllRead', pc' # "segv" PROVE KeepInv'
  BY DEF KeepInv, Merging
<1>1. /\ pc = "reopen" /\ idx < output_files /\ idx' = idx + 1
      /\ ReadTuple(idx, merge_heap, "reopen")
      /\ UNCHANGED <<disk, output_files>>
  BY DEF OpenSpill
<1>2. /\ MergeTypeOK /\ PoolOK(pool) /\ idx \in Nat /\ merge_heap \subseteq Tuples
      /\ Files \subseteq DOMAIN disk /\ OwnBlocks(merge_heap)
      /\ \A t \in merge_heap : t.file_index < idx
      /\ \A f \in Files : SortedFile(disk[f])
  BY <1>1 DEF MergeInv, MergeTypeOK, Places, Merging, Owned, OwnBlocks, Ascending
<1>3. PICK i : i = idx
  OBVIOUS
<1>4. i \in Files /\ i \in DOMAIN disk /\ SortedFile(disk[i]) /\ disk[i] \in Seq(Row)
  BY <1>1, <1>2, <1>3 DEF Files, MergeTypeOK
<1>5. /\ faulted \subseteq faulted'
      /\ \A f \in DOMAIN cursor : f # i => cursor'[f] = cursor[f]
      /\ \/ FileDrained(i, merge_heap, "reopen")
         \/ \E t \in Tuples : TupleRead(i, merge_heap, "reopen", t)
  BY <1>1, <1>2, <1>3, <1>4, ReadTupleOK DEF OutOfMemory
<1>6. /\ HeapRows /\ \A f \in DOMAIN cursor : f < idx
      /\ \A u \in Url : TakenRows(u) = {}
  BY <1>1, <1>5 DEF KeepInv, Merging, AllRead
<1>7. CASE FileDrained(i, merge_heap, "reopen")
  <2>1. /\ pc' = "reopen" /\ UNCHANGED <<merge_heap, mem, cursor>>
        /\ drained' = drained \cup {i} /\ RowsRead(i) = Len(disk[i])
    BY <1>7 DEF FileDrained, AllRead
  <2>2. /\ \A f : RowsRead(f)' = RowsRead(f) /\ (HasTuple(f)' <=> HasTuple(f))
        /\ CountsFit' /\ \A u : RowsOf(u)' = RowsOf(u)
    BY <1>1, <1>6, <2>1, FilesKept DEF RowsRead, HasTuple, HeapRows
  <2>3. HeapRows'
    BY <1>1, <1>6, <2>1, <2>2 DEF HeapRows, HoldsRow, UrlOf
  <2>4. \A f \in DOMAIN cursor' : f < idx'
    <3>1. \A f \in DOMAIN cursor : f \in Int
      BY <1>2 DEF MergeTypeOK
    <3> QED BY <1>1, <1>2, <1>6, <2>1, <3>1
  <2>5. \A u \in Url : TakenRows(u)' = {}
    BY <1>6, <2>2 DEF TakenRows
  <2> QED BY <2>1, <2>3, <2>4, <2>5 DEF KeepInv
<1>8. ASSUME NEW n \in Tuples, TupleRead(i, merge_heap, "reopen", n)
      PROVE  KeepInv'
  <2>1. i \notin DOMAIN cursor
    BY <1>2, <1>3, <1>6
  <2>2. /\ pc' = "reopen" /\ merge_heap' = merge_heap \cup {n} /\ drained' = drained
        /\ n.file_index = i /\ DOMAIN cursor' = DOMAIN cursor \cup {i}
        /\ n.ptr \notin pool.live
        /\ \A a \in Addr : a # n.ptr => mem'[a] = mem[a]
        /\ 1 \in DOMAIN disk[i] /\ cursor'[i] = 1
        /\ mem'[n.ptr] = disk[i][1].url /\ n.cnt = disk[i][1].cnt
    BY <1>8, <2>1 DEF TupleRead, RowsRead, AllRead
  <2>3. /\ \A f : f # i => RowsRead(f)' = RowsRead(f) /\ (HasTuple(f)' <=> HasTuple(f))
        /\ RowsRead(i) = 0 /\ RowsRead(i)' = 1 /\ HasTuple(i)'
    BY <1>5, <2>1, <2>2 DEF RowsRead, HasTuple
  <2>4. CountsFit' /\ \A u : RowsOf(u)' = RowsOf(u)
    BY <1>1, <1>6, FilesKept DEF HeapRows
  <2>5. HeapRows'
    <3>1. HoldsRow(n)'
      BY <1>1, <2>2, <2>3 DEF HoldsRow, UrlOf
    <3>2. ASSUME NEW t \in merge_heap PROVE HoldsRow(t)'
      <4>1. mem'[t.ptr] = mem[t.ptr]
        BY <1>2, <2>2 DEF OwnBlocks, Tuples
      <4>2. t.file_index # i /\ HoldsRow(t)
        BY <1>2, <1>3, <1>6 DEF HeapRows
      <4> QED BY <1>1, <2>3, <4>1, <4>2 DEF HoldsRow, UrlOf
    <3>3. ASSUME NEW f \in drained PROVE RowsRead(f)' = Len(disk'[f])
      <4>1. RowsRead(f) = Len(disk[f])
        BY <1>6 DEF HeapRows
      <4>2. f # i
        BY <1>4, <2>2, <2>3, <4>1
      <4> QED BY <1>1, <2>3, <4>1, <4>2
    <3> QED BY <2>2, <2>4, <3>1, <3>2, <3>3 DEF HeapRows
  <2>6. \A f \in DOMAIN cursor' : f < idx'
    <3>1. \A f \in DOMAIN cursor : f \in Int
      BY <1>2 DEF MergeTypeOK
    <3> QED BY <1>1, <1>2, <1>3, <1>6, <2>2, <3>1
  <2>7. ASSUME NEW u \in Url, NEW x \in TakenRows(u)' PROVE FALSE
    <3>1. /\ x \in RowsOf(u) /\ x \notin TakenRows(u)
          /\ x[2] < RowsRead(x[1])' \/ (x[2] = RowsRead(x[1])' /\ ~HasTuple(x[1])')
      BY <1>6, <2>4, <2>7 DEF TakenRows
    <3>2. PICK f \in 0 .. File : \E j \in DOMAIN disk[f] : x = <<f, j>> /\ disk[f][j].url = u
      BY <3>1, RowsForm
    <3>3. f = i
      BY <2>3, <3>1, <3>2 DEF TakenRows
    <3>4. x[2] \in 1 .. Len(disk[i]) /\ x[1] = i
      BY <1>4, <3>2, <3>3
    <3> QED BY <2>3, <3>1, <3>4
  <2> QED BY <2>2, <2>5, <2>6, <2>7 DEF KeepInv
<1> QED
  BY <1>5, <1>7, <1>8

\* The merge begins with all tuples in the heap.
LEMMA OpenDoneKeep == MergeInv /\ KeepInv /\ OpenDone => KeepInv'
<1> SUFFICES ASSUME MergeInv, KeepInv, OpenDone, AllRead' PROVE KeepInv'
  BY DEF KeepInv
<1>1. /\ pc = "reopen" /\ pc' = "merge" /\ curr' = Empty
      /\ UNCHANGED <<mem, disk, output_files, faulted, cursor, drained, merge_heap, topN>>
  BY DEF OpenDone, mergeLocals
<1>2. HeapRows /\ topN = {} /\ \A u \in Url : TakenRows(u) = {}
  BY <1>1 DEF KeepInv, AllRead, Merging, MergeInv, Places
<1>3. HeapRows' /\ \A u : Taken(u)' = Taken(u)
  BY <1>1, <1>2, HeapKept
<1>4. \A u \in Url : Held(Taken(u)) = 0
  <2> SUFFICES ASSUME NEW u \in Url PROVE Held(Taken(u)) = 0
    OBVIOUS
  <2>1. Bytes(Taken(u)) = {}
    BY <1>2, TakenForm DEF Bytes
  <2> QED BY <2>1, FS_EmptySet DEF Held
<1>5. \A u : CurrCount(u)' + NextCount(u)' = 0
  BY <1>1 DEF CurrCount, NextCount, IsEmpty, Empty
<1>6. HandCounts'
  <2>1. IsEmpty(curr)' /\ topN' = {}
    BY <1>1, <1>2 DEF IsEmpty, Empty
  <2>2. \A u : Held(Taken(u))' = Held(Taken(u))
    BY <1>3 DEF Held
  <2> QED BY <1>1, <1>4, <1>5, <2>1, <2>2 DEF HandCounts
<1> QED
  BY <1>1, <1>3, <1>6 DEF KeepInv

(***************************************************************************)
(* NextResultTuple: the row of the tuple that leaves the heap is taken,    *)
(* and its count is that of next_tuple.                                    *)
(***************************************************************************)
LEMMA NextResultTupleKeep == MergeInv /\ KeepInv /\ NextResultTuple => KeepInv'
<1> SUFFICES ASSUME MergeInv, KeepInv, NextResultTuple, AllRead', pc' # "segv" PROVE KeepInv'
  BY DEF KeepInv, Merging
<1>1. PICK t \in merge_heap :
        /\ next_tuple' = t
        /\ IF t.file_index \notin drained THEN ReadTuple(t.file_index, Pop(t), "fold")
           ELSE /\ merge_heap' = Pop(t) /\ pc' = "fold"
                /\ UNCHANGED <<pool, mem, cursor, drained, faulted>>
  BY DEF NextResultTuple
<1>2. /\ pc = "merge" /\ UNCHANGED <<disk, output_files, curr, num_results, topN>>
  BY DEF NextResultTuple
<1> DEFINE heap == merge_heap \ {t}
<1>3. PICK i : i = t.file_index
  OBVIOUS
<1>4. /\ MergeTypeOK /\ PoolOK(pool) /\ merge_heap \subseteq Tuples /\ topN \subseteq Tuples
      /\ t \in Tuples /\ i \in Files /\ Files \subseteq DOMAIN disk
      /\ i \in DOMAIN disk /\ SortedFile(disk[i]) /\ disk[i] \in Seq(Row)
      /\ \A r, s \in merge_heap : r.file_index = s.file_index => r = s
      /\ IsEmpty(curr) \/ curr \in Tuples
  BY <1>2, <1>3 DEF MergeInv, MergeTypeOK, Places, Merging, Ascending, Files
<1>5. /\ OwnBlocks(merge_heap \cup topN)
      /\ ~IsEmpty(curr) => OwnsApart(curr, merge_heap \cup topN)
  BY <1>2 DEF MergeInv, Owned
<1>6. /\ pc' = "fold" /\ faulted \subseteq faulted'
      /\ \A f \in DOMAIN cursor : f # i => cursor'[f] = cursor[f]
      /\ \/ /\ i \in drained
            /\ merge_heap' = heap /\ UNCHANGED <<mem, cursor, drained>>
         \/ /\ i \notin drained
            /\ FileDrained(i, heap, "fold") \/ \E n \in Tuples : TupleRead(i, heap, "fold", n)
  <2>1. CASE i \in drained
    BY <1>1, <1>3, <2>1 DEF Pop
  <2>2. CASE i \notin drained
    <3>1. ReadTuple(i, heap, "fold")
      BY <1>1, <1>3, <2>2 DEF Pop
    <3> HIDE DEF heap
    <3>2. /\ faulted \subseteq faulted'
          /\ \A f \in DOMAIN cursor : f # i => cursor'[f] = cursor[f]
          /\ FileDrained(i, heap, "fold") \/ \E n \in Tuples : TupleRead(i, heap, "fold", n)
      BY <1>4, <3>1, ReadTupleOK DEF OutOfMemory
    <3> QED BY <2>2, <3>2 DEF FileDrained, TupleRead
  <2> QED BY <2>1, <2>2
<1>7. /\ HeapRows /\ HandCounts /\ CountsFit /\ HoldsRow(t)
  BY <1>2, <1>6 DEF KeepInv, Merging, AllRead, HeapRows
(* Whether a row comes in or not. *)
<1>8. /\ HeapRows'
      /\ \A f : f # i => RowsRead(f)' = RowsRead(f) /\ (HasTuple(f)' <=> HasTuple(f))
      /\ \/ RowsRead(i)' = RowsRead(i) + 1 /\ HasTuple(i)'
         \/ RowsRead(i)' = RowsRead(i) /\ ~HasTuple(i)'
      /\ \A s \in merge_heap \cup topN : mem'[s.ptr] = mem[s.ptr]
      /\ ~IsEmpty(curr) => mem'[curr.ptr] = mem[curr.ptr]
  <2>1. CASE /\ merge_heap' = heap /\ UNCHANGED <<mem, cursor>>
             /\ \A f \in drained' : RowsRead(f) = Len(disk[f])
    <3>1. /\ \A f : RowsRead(f)' = RowsRead(f)
          /\ \A f : f # i => (HasTuple(f)' <=> HasTuple(f))
          /\ ~HasTuple(i)'
      BY <1>3, <1>4, <2>1 DEF RowsRead, HasTuple
    <3>2. HeapRows'
      <4>1. \A s \in merge_heap' : HoldsRow(s)'
        BY <1>2, <1>7, <2>1, <3>1 DEF HeapRows, HoldsRow, UrlOf
      <4>2. CountsFit'
        BY <1>2, <1>7, FilesKept
      <4> QED BY <1>2, <2>1, <3>1, <4>1, <4>2 DEF HeapRows
    <3> QED BY <2>1, <3>1, <3>2
  <2>2. ASSUME i \notin drained, NEW n \in Tuples, TupleRead(i, heap, "fold", n)
        PROVE  /\ HeapRows'
               /\ \A f : f # i => RowsRead(f)' = RowsRead(f) /\ (HasTuple(f)' <=> HasTuple(f))
               /\ RowsRead(i)' = RowsRead(i) + 1 /\ HasTuple(i)'
               /\ \A s \in merge_heap \cup topN : mem'[s.ptr] = mem[s.ptr]
               /\ ~IsEmpty(curr) => mem'[curr.ptr] = mem[curr.ptr]
    <3>1. /\ merge_heap' = heap \cup {n} /\ drained' = drained
          /\ n.file_index = i /\ DOMAIN cursor' = DOMAIN cursor \cup {i}
          /\ n.ptr \notin pool.live
          /\ \A a \in Addr : a # n.ptr => mem'[a] = mem[a]
          /\ RowsRead(i) + 1 \in DOMAIN disk[i] /\ cursor'[i] = RowsRead(i) + 1
          /\ mem'[n.ptr] = disk[i][RowsRead(i) + 1].url
          /\ n.cnt = disk[i][RowsRead(i) + 1].cnt
      BY <2>2 DEF TupleRead, AllRead
    <3>2. /\ \A f : f # i => RowsRead(f)' = RowsRead(f) /\ (HasTuple(f)' <=> HasTuple(f))
          /\ RowsRead(i)' = RowsRead(i) + 1 /\ HasTuple(i)'
      <4>1. \A f : f # i => RowsRead(f)' = RowsRead(f)
        BY <1>6, <3>1 DEF RowsRead
      <4>2. RowsRead(i)' = RowsRead(i) + 1
        BY <3>1 DEF RowsRead
      <4> QED BY <1>3, <3>1, <4>1, <4>2 DEF HasTuple
    <3>3. /\ \A s \in merge_heap \cup topN : mem'[s.ptr] = mem[s.ptr]
          /\ ~IsEmpty(curr) => mem'[curr.ptr] = mem[curr.ptr]
      BY <1>4, <1>5, <3>1 DEF OwnBlocks, OwnsApart, Tuples
    <3>4. HoldsRow(n)'
      BY <1>2, <3>1, <3>2 DEF HoldsRow, UrlOf
    <3>5. ASSUME NEW s \in heap PROVE HoldsRow(s)'
      <4>1. s.file_index # i /\ HoldsRow(s) /\ mem'[s.ptr] = mem[s.ptr]
        BY <1>3, <1>4, <1>7, <3>3 DEF HeapRows
      <4> QED BY <1>2, <3>2, <4>1 DEF HoldsRow, UrlOf
    <3>6. ASSUME NEW f \in drained PROVE RowsRead(f)' = Len(disk'[f])
      BY <1>2, <1>7, <2>2, <3>2 DEF HeapRows
    <3>7. CountsFit'
      BY <1>2, <1>7, FilesKept
    <3> QED BY <3>1, <3>2, <3>3, <3>4, <3>5, <3>6, <3>7 DEF HeapRows
  <2>3. CASE i \in drained /\ merge_heap' = heap /\ UNCHANGED <<mem, cursor, drained>>
    BY <1>7, <2>1, <2>3 DEF HeapRows
  <2>4. CASE FileDrained(i, heap, "fold")
    BY <1>7, <2>1, <2>4 DEF HeapRows, FileDrained, AllRead
  <2> QED BY <1>6, <2>2, <2>3, <2>4
<1>9. PICK v : v = UrlOf(t)
  OBVIOUS
<1>10. t.cnt \in Nat \ {0} /\ mem'[t.ptr] = v
  BY <1>3, <1>4, <1>7, <1>8, <1>9 DEF HoldsRow, CountsFit, UrlOf
<1>11. ASSUME NEW u \in Url, IsEmpty(curr) \/ UrlOf(curr) <= u
       PROVE  CurrCount(u)' + NextCount(u)' = Held(Taken(u))'
  <2>1. CurrCount(u)' = CurrCount(u) /\ CurrCount(u) \in Int
    <3>1. ~IsEmpty(curr) => curr.cnt \in Int
      BY <1>4 DEF Tuples
    <3> QED BY <1>2, <1>8, <3>1 DEF CurrCount, IsEmpty, UrlOf
  <2>2. NextCount(u) = 0 /\ NextCount(u)' = IF v = u THEN t.cnt ELSE 0
    BY <1>1, <1>2, <1>6, <1>10 DEF NextCount, UrlOf
  <2>3. CurrCount(u) = Held(Taken(u))
    BY <1>7, <1>11, <2>1, <2>2 DEF HandCounts
  <2>4. PICK k : k = RowsRead(i)
    OBVIOUS
  <2>5. k \in DOMAIN disk[i] /\ disk[i][k].url = v /\ disk[i][k].cnt = t.cnt /\ HasTuple(i)
    BY <1>3, <1>7, <1>9, <2>4 DEF HoldsRow, HasTuple
  <2>6. PICK taken : taken = Taken(u)
    OBVIOUS
  <2>7. PICK r : r = <<i, k>>
    OBVIOUS
  <2>8. /\ r \notin DOMAIN taken
        /\ Taken(u)' = IF v = u THEN Put(taken, r, t.cnt) ELSE taken
    BY <1>2, <1>4, <1>8, <2>4, <2>5, <2>6, <2>7, TakenNext
  <2>9. IsFiniteSet(Bytes(taken))
    BY <1>4, <1>7, <2>6, SpilledFinite, TakenWithin
  <2>10. CASE v = u
    <3>1. Held(Taken(u))' = Held(taken) + t.cnt
      <4>1. Held(Put(taken, r, t.cnt)) = Held(taken) + t.cnt
        BY <1>10, <2>8, <2>9, HeldPut
      <4> QED BY <2>8, <2>10, <4>1 DEF Held
    <3> QED BY <2>1, <2>2, <2>3, <2>6, <2>10, <3>1
  <2>11. CASE v # u
    <3>1. Held(Taken(u))' = Held(taken)
      BY <2>8, <2>11 DEF Held
    <3> QED BY <2>1, <2>2, <2>3, <2>6, <2>11, <3>1
  <2> QED BY <2>10, <2>11
<1>12. HandCounts'
  <2>1. (~IsEmpty(curr) => curr.cnt > 0)' /\ (IsEmpty(curr) => topN = {})'
    BY <1>2, <1>7 DEF HandCounts, IsEmpty
  <2>2. next_tuple'.cnt > 0
    BY <1>1, <1>10
  <2>3. ASSUME ~IsEmpty(curr)' PROVE KeepsBest(topN, Merged(UrlOf(curr)), num_results)'
    <3>1. PICK b : b = UrlOf(curr)
      OBVIOUS
    <3>2. PICK us : us = Merged(b)
      OBVIOUS
    <3>3. UrlOf(curr)' = b /\ Merged(b)' = us /\ KeepsBest(topN, us, num_results)
      BY <1>2, <1>7, <1>8, <2>3, <3>1, <3>2, FilesKept DEF HandCounts, UrlOf, IsEmpty
    <3>4. KeepsBest(topN, us, num_results)'
      BY <1>2, <1>8, <3>3, KeepsBestSame
    <3> QED BY <3>3, <3>4
  <2>4. ASSUME NEW u \in Url, IsEmpty(curr)' \/ UrlOf(curr)' <= u
        PROVE  CurrCount(u)' + NextCount(u)' = Held(Taken(u))'
    BY <1>2, <1>8, <1>11, <2>4 DEF IsEmpty, UrlOf
  <2> QED BY <2>1, <2>2, <2>3, <2>4 DEF HandCounts
<1> QED
  BY <1>6, <1>8, <1>12 DEF KeepInv

\* A URL before the heap and not before curr_tuple: all of it is in hand.
LEMMA InHandWhole ==
  ASSUME MergeInv, HeapRows, HandCounts, pc \in {"merge", "fold"}, NEW u \in Url,
         \A h \in merge_heap : u < UrlOf(h), IsEmpty(curr) \/ UrlOf(curr) <= u
  PROVE  /\ Spilled(u) \in Nat /\ CurrCount(u) + NextCount(u) = Spilled(u)
         /\ CurrCount(u) + NextCount(u) = 0 <=> RowsOf(u) = {}
<1>1. CurrCount(u) + NextCount(u) = Spilled(u)
  BY AllTaken DEF HandCounts
<1>2. MergeTypeOK /\ Files \subseteq DOMAIN disk /\ CountsFit
  BY DEF MergeInv, Places, Merging, HeapRows
<1>3. IsFiniteSet(Bytes(CountsOf(u))) /\ Spilled(u) \in Nat
  BY <1>2, SpilledFinite
<1> QED
  BY <1>1, <1>2, <1>3, SpilledPositive

\* The URL of curr_tuple joins those before it when no tuple can add to it.
LEMMA CurrComplete ==
  ASSUME MergeInv, HeapRows, HandCounts, pc \in {"merge", "fold"}, ~IsEmpty(curr),
         \A h \in merge_heap : UrlOf(curr) < UrlOf(h),
         pc = "fold" => UrlOf(curr) < UrlOf(next_tuple),
         UNCHANGED <<mem, disk, output_files, num_results>>, UpdateHeap(curr),
         NEW us, us = Merged(UrlOf(curr)) \cup {UrlOf(curr)}
  PROVE  KeepsBest(topN, us, num_results)' /\ RowsOf(UrlOf(curr)) # {}
<1>1. PICK u : u = UrlOf(curr)
  OBVIOUS
<1>2. PICK before : before = Merged(u)
  OBVIOUS
<1>3. /\ MergeTypeOK /\ mem \in [Addr -> Url] /\ num_results \in Nat
      /\ topN \subseteq Tuples /\ IsFiniteSet(topN) /\ curr \in Tuples
      /\ \A s, t \in topN : UrlOf(s) = UrlOf(t) => s = t
      /\ Files \subseteq DOMAIN disk /\ CountsFit
  BY DEF MergeInv, MergeTypeOK, TopNBounded, Ascending, Places, Merging, HeapRows
<1>4. u \in Url /\ u \in Nat
  BY <1>1, <1>3, UrlIsNat
<1>5. curr.cnt = Spilled(u) /\ RowsOf(u) # {}
  <2>1. /\ CurrCount(u) + NextCount(u) = Spilled(u)
        /\ CurrCount(u) + NextCount(u) = 0 <=> RowsOf(u) = {}
    BY <1>1, <1>4, InHandWhole
  <2>2. CurrCount(u) = curr.cnt /\ NextCount(u) = 0
    BY <1>1, <1>4 DEF CurrCount, NextCount
  <2>3. curr.cnt \in Int /\ curr.cnt > 0
    BY <1>3 DEF HandCounts, Tuples
  <2> QED BY <2>1, <2>2, <2>3
<1>6. before \subseteq Url /\ u \notin before /\ IsFiniteSet(before)
  <2>1. \A x \in before : x \in Url /\ x < u
    BY <1>2 DEF Merged
  <2>2. before \subseteq 0 .. u
    <3>1. \A x \in before : x \in Nat /\ x < u
      BY <2>1, ProcessAssumption
    <3> QED BY <1>4, <3>1
  <2>3. IsFiniteSet(0 .. u)
    BY <1>4, FS_Interval
  <2>4. IsFiniteSet(before)
    BY <2>2, <2>3, FS_Subset
  <2> QED BY <1>4, <2>1, <2>4
<1>7. \A x \in Url : Spilled(x) \in Nat
  BY <1>3, SpilledFinite
<1>8. KeepsBest(topN, before, num_results)
  BY <1>1, <1>2 DEF HandCounts
<1>9. KeepsBest(topN, before \cup {u}, num_results)'
  BY <1>1, <1>3, <1>5, <1>6, <1>7, <1>8, KeepsBestUpdate
<1> QED
  BY <1>1, <1>2, <1>5, <1>9

(***************************************************************************)
(* The body of the merge loop.  No URL lies between curr_tuple's and that  *)
(* of next_tuple: its rows would be taken, and in hand.                    *)
(***************************************************************************)
LEMMA FoldKeep == MergeInv /\ KeepInv /\ Fold => KeepInv'
<1> SUFFICES ASSUME MergeInv, KeepInv, Fold, AllRead' PROVE KeepInv'
  BY DEF KeepInv
<1>1. /\ pc = "fold" /\ pc' = "merge"
      /\ UNCHANGED <<mem, disk, output_files, faulted, num_results,
                     cursor, drained, merge_heap, next_tuple>>
  BY DEF Fold
<1>2. HeapRows /\ HandCounts /\ CountsFit
  BY <1>1 DEF KeepInv, AllRead, Merging, HeapRows
<1>3. HeapRows' /\ \A u : Taken(u)' = Taken(u)
  BY <1>1, <1>2, HeapKept
<1>4. /\ MergeTypeOK /\ next_tuple \in Tuples /\ (IsEmpty(curr) \/ curr \in Tuples)
      /\ Files \subseteq DOMAIN disk /\ num_results \in Nat
      /\ \A h \in merge_heap : UrlOf(next_tuple) <= UrlOf(h) /\ UrlOf(h) \in Nat
      /\ ~IsEmpty(curr) => UrlOf(curr) <= UrlOf(next_tuple)
  BY <1>1, UrlIsNat DEF MergeInv, MergeTypeOK, Places, Ascending, Merging
<1>5. PICK v : v = UrlOf(next_tuple)
  OBVIOUS
<1>6. /\ v \in Url /\ v \in Nat /\ next_tuple.cnt \in Nat \ {0}
      /\ ~IsEmpty(curr) => UrlOf(curr) \in Url /\ UrlOf(curr) \in Nat /\ curr.cnt \in Nat \ {0}
  BY <1>1, <1>2, <1>4, <1>5, UrlIsNat DEF MergeTypeOK, HandCounts, Tuples
<1>7. /\ \A u : Spilled(u)' = Spilled(u) /\ RowsOf(u)' = RowsOf(u)
      /\ \A b : Merged(b)' = Merged(b)
      /\ \A u : Held(Taken(u))' = Held(Taken(u))
  BY <1>1, <1>3, FilesKept DEF Held
<1>8. ASSUME NEW u \in Url, u < v, IsEmpty(curr) \/ UrlOf(curr) < u
      PROVE  RowsOf(u) = {}
  <2>1. u \in Nat /\ \A h \in merge_heap : u < UrlOf(h)
    BY <1>4, <1>5, <1>6, <1>8, ProcessAssumption
  <2>2. CurrCount(u) + NextCount(u) = 0 <=> RowsOf(u) = {}
    BY <1>1, <1>2, <1>6, <1>8, <2>1, InHandWhole
  <2>3. CurrCount(u) = 0 /\ NextCount(u) = 0
    BY <1>5, <1>6, <1>8, <2>1 DEF CurrCount, NextCount
  <2> QED BY <2>2, <2>3
(* What is left to show of each case. *)
<1>9. ASSUME NEW cnt \in Nat \ {0}, curr'.cnt = cnt, mem[curr'.ptr] = v,
             CurrCount(v) + NextCount(v) = cnt, KeepsBest(topN, Merged(v), num_results)'
      PROVE  KeepInv'
  <2>1. ~IsEmpty(curr)' /\ UrlOf(curr)' = v
    BY <1>1, <1>9 DEF IsEmpty, UrlOf
  <2>2. ASSUME NEW u \in Url, v <= u
        PROVE  CurrCount(u)' + NextCount(u)' = Held(Taken(u))'
    <3>1. CurrCount(u)' = IF v = u THEN cnt ELSE 0
      BY <1>9, <2>1 DEF CurrCount
    <3>2. NextCount(u)' = 0
      BY <1>1 DEF NextCount
    <3>3. CurrCount(u) + NextCount(u) = Held(Taken(u))
      BY <1>2, <1>4, <1>5, <1>6, <2>2, ProcessAssumption DEF HandCounts
    <3>4. v # u => CurrCount(u) = 0 /\ NextCount(u) = 0
      BY <1>4, <1>5, <1>6, <2>2, ProcessAssumption DEF CurrCount, NextCount
    <3> QED BY <1>7, <1>9, <3>1, <3>2, <3>3, <3>4
  <2>3. (curr.cnt > 0)' /\ pc' # "fold"
    BY <1>1, <1>9
  <2>4. HandCounts'
    BY <1>9, <2>1, <2>2, <2>3 DEF HandCounts
  <2> QED BY <1>1, <1>3, <2>4 DEF KeepInv
<1>10. CASE IsEmpty(curr) /\ curr' = next_tuple /\ UNCHANGED <<pool, topN>>
  <2>1. CurrCount(v) + NextCount(v) = next_tuple.cnt
    BY <1>1, <1>5, <1>6, <1>10 DEF CurrCount, NextCount
  <2>2. topN = {} /\ Merged(v) = {}
    BY <1>2, <1>8, <1>10 DEF HandCounts, Merged
  <2>3. KeepsBest(topN, {}, num_results)
    BY <1>4, <2>2, FS_EmptySet DEF KeepsBest
  <2>4. KeepsBest(topN, {}, num_results)'
    BY <1>1, <1>10, <2>3, KeepsBestSame
  <2>5. KeepsBest(topN, Merged(v), num_results)'
    BY <1>7, <2>2, <2>4
  <2> QED BY <1>5, <1>6, <1>9, <1>10, <2>1, <2>5 DEF UrlOf
<1>11. CASE /\ ~IsEmpty(curr) /\ mem[curr.ptr] = mem[next_tuple.ptr]
            /\ curr' = [curr EXCEPT !.cnt = IntAdd(@, next_tuple.cnt)]
            /\ pool' = FreeString(next_tuple) /\ UNCHANGED topN
  <2>1. UrlOf(curr) = v
    BY <1>5, <1>11 DEF UrlOf
  <2>2. PICK cnt : cnt = curr.cnt + next_tuple.cnt
    OBVIOUS
  <2>3. CurrCount(v) + NextCount(v) = cnt /\ cnt \in Nat \ {0}
    BY <1>1, <1>5, <1>6, <1>11, <2>1, <2>2 DEF CurrCount, NextCount
  <2>4. cnt <= IntMax
    <3>1. CurrCount(v) + NextCount(v) = Held(Taken(v))
      BY <1>2, <1>6, <1>11, <2>1 DEF HandCounts
    <3>2. /\ Held(Taken(v)) \in Nat /\ Held(Taken(v)) <= Spilled(v)
          /\ Spilled(v) \in Nat /\ Spilled(v) <= IntMax
      BY <1>2, <1>4, <1>6, SpilledFinite, TakenWithin DEF CountsFit
    <3> QED BY <2>3, <3>1, <3>2, ProcessAssumption
  <2>5. IntAdd(curr.cnt, next_tuple.cnt) = cnt
    BY <2>2, <2>3, <2>4, ProcessAssumption DEF IntAdd
  <2>6. curr'.cnt = cnt /\ curr'.ptr = curr.ptr
    BY <1>4, <1>11, <2>5 DEF Tuples
  <2>7. PICK us : us = Merged(v)
    OBVIOUS
  <2>8. KeepsBest(topN, us, num_results)
    BY <1>2, <1>11, <2>1, <2>7 DEF HandCounts
  <2>9. KeepsBest(topN, us, num_results)'
    BY <1>1, <1>11, <2>8, KeepsBestSame
  <2>10. KeepsBest(topN, Merged(v), num_results)'
    BY <1>7, <2>7, <2>9
  <2>11. mem[curr'.ptr] = v
    BY <2>1, <2>6 DEF UrlOf
  <2> QED BY <1>9, <2>3, <2>6, <2>10, <2>11
<1>12. CASE /\ ~IsEmpty(curr) /\ mem[curr.ptr] # mem[next_tuple.ptr]
            /\ UpdateHeap(curr) /\ curr' = next_tuple
  <2>1. PICK b : b = UrlOf(curr)
    OBVIOUS
  <2>2. b < v /\ b \in Url
    BY <1>4, <1>5, <1>6, <1>12, <2>1 DEF UrlOf
  <2>3. \A h \in merge_heap : UrlOf(curr) < UrlOf(h)
    BY <1>4, <1>5, <1>6, <1>12, <2>1, <2>2
  <2>4. PICK us : us = Merged(b) \cup {b}
    OBVIOUS
  <2>5. KeepsBest(topN, us, num_results)' /\ RowsOf(b) # {}
    BY <1>1, <1>2, <1>5, <1>12, <2>1, <2>2, <2>3, <2>4, CurrComplete
  <2>6. us = Merged(v)
    <3>1. ASSUME NEW u \in Url PROVE u \in Merged(b) \cup {b} <=> u \in Merged(v)
      <4>1. b \in Nat /\ u \in Nat
        BY <2>2, ProcessAssumption
      <4>2. u < v /\ b < u => RowsOf(u) = {}
        BY <1>8, <2>1
      <4> QED BY <1>6, <2>2, <2>5, <4>1, <4>2 DEF Merged
    <3> QED BY <2>2, <2>4, <3>1 DEF Merged
  <2>7. KeepsBest(topN, Merged(v), num_results)'
    BY <1>7, <2>5, <2>6
  <2>8. CurrCount(v) + NextCount(v) = next_tuple.cnt
    BY <1>1, <1>5, <1>6, <2>1, <2>2 DEF CurrCount, NextCount
  <2> QED BY <1>5, <1>6, <1>9, <1>12, <2>7, <2>8 DEF UrlOf
<1> QED
  BY <1>10, <1>11, <1>12 DEF Fold

\* The loop ends: curr_tuple has the last URL of all.
LEMMA EndMergeKeep == MergeInv /\ KeepInv /\ EndMerge => KeepInv'
<1> SUFFICES ASSUME MergeInv, KeepInv, EndMerge, AllRead' PROVE KeepInv'
  BY DEF KeepInv
<1>1. /\ pc = "merge" /\ merge_heap = {} /\ pc' = "close"
      /\ UNCHANGED <<mem, disk, output_files, curr, faulted, num_results>>
  BY DEF EndMerge
<1>2. HeapRows /\ HandCounts
  BY <1>1 DEF KeepInv, AllRead, Merging
<1>3. MergeTypeOK /\ num_results \in Nat /\ (IsEmpty(curr) \/ curr \in Tuples)
  BY <1>1 DEF MergeInv, MergeTypeOK
<1>4. SpilledUrls' = SpilledUrls
  BY <1>1, FilesKept
<1>5. ASSUME NEW u \in Url, IsEmpty(curr) \/ UrlOf(curr) < u
      PROVE  RowsOf(u) = {}
  <2>1. u \in Nat /\ (~IsEmpty(curr) => UrlOf(curr) \in Nat)
    BY <1>3, UrlIsNat, ProcessAssumption DEF MergeTypeOK
  <2>2. CurrCount(u) + NextCount(u) = 0 <=> RowsOf(u) = {}
    BY <1>1, <1>2, <1>5, <2>1, InHandWhole
  <2>3. CurrCount(u) = 0 /\ NextCount(u) = 0
    BY <1>1, <1>5, <2>1 DEF CurrCount, NextCount
  <2> QED BY <2>2, <2>3
<1>6. KeepsBest(topN, SpilledUrls, num_results)'
  <2>1. CASE IsEmpty(curr)
    <3>1. topN = {} /\ topN' = topN /\ SpilledUrls = {}
      BY <1>2, <1>5, <2>1 DEF EndMerge, HandCounts, SpilledUrls
    <3>2. KeepsBest(topN, {}, num_results)
      BY <1>3, <3>1, FS_EmptySet DEF KeepsBest
    <3>3. KeepsBest(topN, {}, num_results)'
      BY <1>1, <3>1, <3>2, KeepsBestSame
    <3> QED BY <1>4, <3>1, <3>3
  <2>2. CASE ~IsEmpty(curr)
    <3>1. PICK b : b = UrlOf(curr)
      OBVIOUS
    <3>2. PICK us : us = Merged(b) \cup {b}
      OBVIOUS
    <3>3. UpdateHeap(curr) /\ b \in Url
      BY <1>3, <2>2, <3>1, UrlIsNat DEF EndMerge, MergeTypeOK
    <3>4. KeepsBest(topN, us, num_results)' /\ RowsOf(b) # {}
      BY <1>1, <1>2, <2>2, <3>1, <3>2, <3>3, CurrComplete
    <3>5. us = SpilledUrls
      <4>1. ASSUME NEW u \in Url PROVE u \in Merged(b) \cup {b} <=> RowsOf(u) # {}
        <5>1. b \in Nat /\ u \in Nat
          BY <3>3, ProcessAssumption
        <5>2. b < u => RowsOf(u) = {}
          BY <1>5, <3>1
        <5> QED BY <3>4, <5>1, <5>2 DEF Merged
      <4> QED BY <3>2, <3>3, <4>1 DEF SpilledUrls, Merged
    <3> QED BY <1>4, <3>4, <3>5
  <2> QED BY <2>1, <2>2
<1> QED
  BY <1>1, <1>6 DEF KeepInv, Merging

LEMMA KeepNextInv == MergeInv /\ KeepInv /\ [MergeNext]_mergeVars => KeepInv'
<1> SUFFICES ASSUME MergeInv, KeepInv, [MergeNext]_mergeVars PROVE KeepInv'
  OBVIOUS
<1>1. CASE RemoveSpill \/ CloseDone \/ Drain
  <2>1. /\ pc' \in {"close", "drain", "print"}
        /\ pc' = "close" => idx' # 0
    BY <1>1 DEF RemoveSpill, CloseDone, Drain, mergeLocals, MergeInv, MergeTypeOK
  <2> QED BY <2>1 DEF KeepInv, Merging
<1>2. CASE UNCHANGED mergeVars
  <2>1. UNCHANGED <<pc, mem, disk, output_files, curr, idx, faulted, num_results,
                    cursor, drained, merge_heap, next_tuple, topN>>
    BY <1>2 DEF mergeVars, processVars, mergeLocals
  <2>2. /\ AllRead' <=> AllRead
        /\ \A u : RowsOf(u)' = RowsOf(u)
        /\ \A f : RowsRead(f)' = RowsRead(f) /\ (HasTuple(f)' <=> HasTuple(f))
    BY <2>1 DEF AllRead, RowsOf, RowsRead, HasTuple
  <2>3. AllRead /\ Merging => HeapRows'
    BY <2>1, HeapKept DEF KeepInv
  <2>4. \A u : TakenRows(u)' = TakenRows(u) /\ Taken(u)' = Taken(u)
    BY <2>1, <2>2 DEF TakenRows, Taken
  <2>5. ASSUME NEW us, KeepsBest(topN, us, num_results)
        PROVE  KeepsBest(topN, us, num_results)'
    BY <2>1, <2>5, KeepsBestSame
  <2>6. SpilledUrls' = SpilledUrls /\ \A b : Merged(b)' = Merged(b)
    BY <2>1, FilesKept
  <2>7. AllRead /\ pc \in {"merge", "fold"} => HandCounts'
    <3> SUFFICES ASSUME AllRead, pc \in {"merge", "fold"} PROVE HandCounts'
      OBVIOUS
    <3>1. HandCounts
      BY DEF KeepInv
    <3>2. \A u : /\ CurrCount(u)' = CurrCount(u) /\ NextCount(u)' = NextCount(u)
                 /\ Held(Taken(u))' = Held(Taken(u))
      BY <2>1, <2>4 DEF CurrCount, NextCount, IsEmpty, UrlOf, Held
    <3>3. (IsEmpty(curr)' <=> IsEmpty(curr)) /\ UrlOf(curr)' = UrlOf(curr)
      BY <2>1 DEF IsEmpty, UrlOf
    <3>4. PICK us : us = Merged(UrlOf(curr))
      OBVIOUS
    <3>5. ~IsEmpty(curr) => KeepsBest(topN, Merged(UrlOf(curr)), num_results)'
      BY <2>5, <2>6, <3>1, <3>3, <3>4 DEF HandCounts
    <3> QED BY <2>1, <3>1, <3>2, <3>3, <3>5 DEF HandCounts
  <2>8. PICK us : us = SpilledUrls
    OBVIOUS
  <2>9. AllRead /\ pc = "close" /\ idx = 0 => KeepsBest(topN, SpilledUrls, num_results)'
    BY <2>5, <2>6, <2>8 DEF KeepInv
  <2> QED BY <2>1, <2>2, <2>3, <2>4, <2>7, <2>9 DEF KeepInv, Merging
<1> QED
  BY <1>1, <1>2, OpenSpillKeep, OpenDoneKeep, NextResultTupleKeep, FoldKeep, EndMergeKeep
     DEF MergeNext, MergeStep, MergeReturned

(***************************************************************************)
(* From sorted files whose counts an int can hold, all of which can be     *)
(* read, topN_tuples holds the best of what has been merged at every step  *)
(* of the loop, and of all URLs at its end, with the sums of their counts. *)
(***************************************************************************)
THEOREM MergeKeepsBest == MergeSpec /\ CountsFit => []TopNKeepsBest
<1>1. MergeInit /\ CountsFit => KeepInv
  BY InitKeepInv
<1>2. MergeInv /\ KeepInv /\ [MergeNext]_mergeVars => KeepInv'
  BY KeepNextInv
<1>3. KeepInv => TopNKeepsBest
  BY DEF KeepInv, TopNKeepsBest, AllRead, HandCounts, SpilledUrls, UrlOf
<1> QED
  BY <1>1, <1>2, <1>3, MergeSpecInv, PTL DEF MergeSpec

=============================================================================
