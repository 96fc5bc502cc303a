---------------------------- MODULE MallocProofs -----------------------------
(***************************************************************************)
(* malloc.c keeps its heap sound and the blocks of programs as they are,   *)
(* for heaps, requests and sequences of calls of any size: malloc(),       *)
(* memalign(), realloc() and calloc() on the layout of MallocLemmas, then  *)
(* the calls programs make with the blocks they hold, the steps of the     *)
(* specification and the theorems.                                         *)
(***************************************************************************)
EXTENDS MallocLemmas

-----------------------------------------------------------------------------
(* The search of the bins.                                                  *)

\* What the search reads of the free chunks.
ReadsFree(h, S, F) ==
    \A x \in F : /\ chunksize(h, x) = S[x] /\ x \in Nat /\ x > 0
                 /\ S[x] \in Nat /\ S[x] >= 16 /\ S[x] % 8 = 0

\* A heap's free chunks are what the search reads.
LEMMA ReadsOf ==
    ASSUME NEW h, NEW S, NEW F, NEW U, Layout(h, S, F, U)
    PROVE  ReadsFree(h, S, F) /\ SizedFree(S, F)
<1>1. \A x \in F : /\ chunksize(h, x) = S[x] /\ x \in Nat /\ x > 0
                   /\ S[x] \in Nat /\ S[x] >= 16 /\ S[x] % 8 = 0
  <2> TAKE x \in F
  <2>1. x \in F \union U OBVIOUS
  <2> QED BY <2>1, NormalAt
<1> QED BY <1>1 DEF ReadsFree, SizedFree

\* A change of the bins does not change it.
LEMMA ReadsSame ==
    ASSUME NEW h, NEW g, NEW S, NEW F, ReadsFree(h, S, F), SameMem(h, g)
    PROVE  ReadsFree(g, S, F)
<1>1. \A p : chunksize(g, p) = chunksize(h, p) BY SameMemHeads
<1> QED BY <1>1 DEF ReadsFree

\* FirstFit() finds a chunk, if the bin has one.
FirstFits(h, S, F, i, nb) ==
    /\ FirstFit(h, i, nb) # 0 =>
          /\ FirstFit(h, i, nb) \in F /\ In(OfBin(h.bin, i), FirstFit(h, i, nb))
          /\ S[FirstFit(h, i, nb)] >= nb /\ i \in DOMAIN h.bin
    /\ FirstFit(h, i, nb) = 0 => \A x : In(OfBin(h.bin, i), x) => ~(S[x] >= nb)

\* The search of one bin finds a chunk that is large enough, if there is one.
LEMMA FirstFitIs ==
    ASSUME NEW h, NEW S, NEW m, NEW F, NEW i, NEW nb, BinsOk(h.bin, m, S, F), ReadsFree(h, S, F)
    PROVE  FirstFits(h, S, F, i, nb)
<1> DEFINE s == Bin(h, i)
           fits == {k \in DOMAIN s : chunksize(h, s[k]) >= nb}
<1>1. FirstFit(h, i, nb) = IF fits = {} THEN 0 ELSE s[Max(fits)] BY DEF FirstFit
<1>2. s = OfBin(h.bin, i) BY BinIs
<1>3. CASE i \notin DOMAIN h.bin
  <2>1. s = << >> BY <1>2, <1>3 DEF OfBin
  <2>2. DOMAIN s = {} BY <2>1
  <2>3. fits = {} BY <2>2
  <2> HIDE DEF s, fits
  <2>4. FirstFit(h, i, nb) = 0 BY <1>1, <2>3
  <2>5. \A x : ~In(OfBin(h.bin, i), x) BY <1>2, <2>2 DEF In
  <2> QED BY <2>4, <2>5 DEF FirstFits
<1>4. CASE i \in DOMAIN h.bin
  <2>1. s = h.bin[i] BY <1>2, <1>4 DEF OfBin
  <2>2. /\ Len(s) \in Nat /\ DOMAIN s = 1 .. Len(s)
        /\ \A k \in DOMAIN s : s[k] \in F
    BY <2>1, <1>4, BinIn
  <2> HIDE DEF s
  <2>3. \A k \in DOMAIN s : k \in fits <=> S[s[k]] >= nb BY <2>2 DEF ReadsFree
  <2>4. fits \subseteq 1 .. Len(s) BY <2>2
  <2>5. fits # {} => Max(fits) \in fits BY <2>2, <2>4, MaxIs
  <2>6. \A k \in fits : k \in DOMAIN s OBVIOUS
  <2> HIDE DEF fits
  <2>7. CASE fits = {}
    <3>1. FirstFit(h, i, nb) = 0 BY <1>1, <2>7
    <3>2. \A x : In(OfBin(h.bin, i), x) => ~(S[x] >= nb) BY <1>2, <2>3, <2>7 DEF In
    <3> QED BY <3>1, <3>2 DEF FirstFits
  <2>8. CASE fits # {}
    <3> DEFINE k == Max(fits)
               f == FirstFit(h, i, nb)
    <3>1. k \in fits /\ k \in DOMAIN s BY <2>5, <2>6, <2>8
    <3>2. f = s[k] BY <1>1, <2>8
    <3> HIDE DEF k, f
    <3>3. f \in F /\ In(OfBin(h.bin, i), f) /\ S[f] >= nb BY <3>1, <3>2, <2>2, <2>3, <1>2 DEF In
    <3>4. f # 0 BY <3>3 DEF ReadsFree
    <3> QED BY <3>3, <3>4, <1>4 DEF FirstFits, f
  <2> QED BY <2>7, <2>8
<1> QED BY <1>3, <1>4

\* A free chunk is the last remainder, or in the bin of its size.
LEMMA BinOfSize ==
    ASSUME NEW b, NEW m, NEW S, NEW F, NEW x \in F, BinsOk(b, m, S, F)
    PROVE  \/ In(OfBin(b, 1), x)
           \/ /\ bin_index(S[x]) \in DOMAIN b /\ In(OfBin(b, bin_index(S[x])), x)
              /\ bin_index(S[x]) # 1 /\ idx2binblock(bin_index(S[x])) \in m
<1>1. PICK i \in DOMAIN b : In(b[i], x) BY DEF BinsOk, BinsEach
<1>2. OfBin(b, i) = b[i] BY DEF OfBin
<1>3. CASE i = 1 BY <1>1, <1>2, <1>3
<1>4. CASE i # 1
  <2>1. Indexed(S, b[i], i) /\ idx2binblock(i) \in m BY <1>4 DEF BinsOk, BinsSized
  <2>2. bin_index(S[x]) = i BY <2>1, <1>1 DEF Indexed, In
  <2> QED BY <2>1, <2>2, <1>1, <1>2, <1>4
<1> QED BY <1>3, <1>4

\* A chunk in a bin has a size of that bin.
LEMMA SizeOfBin ==
    ASSUME NEW b, NEW m, NEW S, NEW F, NEW x, NEW i, BinsOk(b, m, S, F), In(OfBin(b, i), x)
    PROVE  x \in F /\ i \in DOMAIN b /\ (i # 1 => bin_index(S[x]) = i)
<1>1. i \in DOMAIN b
  <2> SUFFICES ASSUME i \notin DOMAIN b PROVE FALSE OBVIOUS
  <2>1. OfBin(b, i) = << >> BY DEF OfBin
  <2>2. DOMAIN OfBin(b, i) = {} BY <2>1
  <2> QED BY <2>2 DEF In
<1>2. In(b[i], x) BY <1>1 DEF OfBin
<1>3. x \in F BY <1>1, <1>2, BinIn DEF In
<1>4. i # 1 => bin_index(S[x]) = i
  <2> HAVE i # 1
  <2>1. Indexed(S, b[i], i) BY <1>1 DEF BinsOk, BinsSized
  <2> QED BY <2>1, <1>2 DEF Indexed, In
<1> QED BY <1>1, <1>3, <1>4

ExactFits(h, S, F, nb) ==
    /\ ExactFit(h, nb) # 0 => ExactFit(h, nb) \in F /\ S[ExactFit(h, nb)] >= nb
    /\ ExactFit(h, nb) = 0 /\ is_small_request(nb) =>
          OfBin(h.bin, bin_index(nb)) = << >> /\ OfBin(h.bin, bin_index(nb) + 1) = << >>

\* A later bin has larger chunks.
LEMMA SizeGrows ==
    ASSUME NEW x \in Nat, NEW y \in Nat, bin_index(x) < bin_index(y), x >= 16, y >= 16
    PROVE  x < y
<1> SUFFICES ASSUME ~(x < y) PROVE FALSE OBVIOUS
<1>1. y <= x OBVIOUS
<1>2. bin_index(y) <= bin_index(x) BY <1>1, BinIndexGrows
<1>3. bin_index(x) \in Nat /\ bin_index(y) \in Nat BY BinIndexIs
<1> QED BY <1>2, <1>3

\* The search for an exact fit; of a small size, the next bin as well.
LEMMA ExactFitIs ==
    ASSUME NEW h, NEW S, NEW m, NEW F, NEW nb, BinsOk(h.bin, m, S, F), ReadsFree(h, S, F),
           Size8(nb)
    PROVE  ExactFits(h, S, F, nb)
<1> DEFINE i == bin_index(nb)
           q == FirstFit(h, i, nb)
           small == {j \in {i, i + 1} : Bin(h, j) # << >>}
           j == Min(small)
           f == Last(Bin(h, j))
           E == ExactFit(h, nb)
<1>1. E = CASE is_small_request(nb) /\ small = {} -> 0
            [] is_small_request(nb) /\ small # {} -> f
            [] ~is_small_request(nb) /\ q # 0 -> IF chunksize(h, q) - nb < MINSIZE THEN q ELSE 0
            [] OTHER -> 0
  BY DEF ExactFit
<1>2. nb \in Nat /\ nb >= 16 /\ nb % 8 = 0 BY DEF Size8
<1>3. i \in Nat /\ i >= 2 BY <1>2, BinIndexIs
<1>4. FirstFits(h, S, F, i, nb) BY FirstFitIs
<1> HIDE DEF E, q, i
<1>5. CASE ~is_small_request(nb)
  <2>1. E = 0 \/ (E = q /\ q # 0) BY <1>1, <1>5
  <2>2. q # 0 => q \in F /\ S[q] >= nb BY <1>4 DEF FirstFits, q
  <2> QED BY <1>5, <2>1, <2>2 DEF ExactFits, E
<1>6. CASE is_small_request(nb)
  <2>1. nb < 504 BY <1>6 DEF is_small_request, MAX_SMALLBIN_SIZE
  <2>2. CASE small = {}
    <3>1. Bin(h, i) = << >> /\ Bin(h, i + 1) = << >> BY <2>2
    <3>2. OfBin(h.bin, i) = << >> /\ OfBin(h.bin, i + 1) = << >> BY <3>1, BinIs
    <3>3. E = 0 BY <1>1, <1>6, <2>2
    <3> QED BY <3>2, <3>3 DEF ExactFits, E, i
  <2>3. CASE small # {}
    <3>1. small \subseteq Nat BY <1>3
    <3>2. j \in small BY <3>1, <2>3, MinIs
    <3>3. (j = i \/ j = i + 1) /\ Bin(h, j) # << >> BY <3>2
    <3> HIDE DEF small, j
    <3> DEFINE s == Bin(h, j)
    <3>4. s = OfBin(h.bin, j) BY BinIs
    <3>5. j \in DOMAIN h.bin BY <3>3, <3>4 DEF OfBin
    <3>6. s = h.bin[j] BY <3>4, <3>5 DEF OfBin
    <3>7. Len(s) \in Nat /\ Len(s) > 0 /\ DOMAIN s = 1 .. Len(s) /\ s \in Seq(F)
      BY <3>5, <3>6, BinIn
    <3> HIDE DEF s
    <3>8. f = s[Len(s)] /\ Len(s) \in DOMAIN s BY <3>7 DEF Last, s
    <3> HIDE DEF f
    <3>9. In(OfBin(h.bin, j), f) BY <3>4, <3>8 DEF In
    <3>10. j # 1 /\ j >= i /\ j \in Nat BY <3>3, <1>3
    <3>11. f \in F /\ bin_index(S[f]) = j BY <3>9, <3>10, SizeOfBin
    <3>12. S[f] \in Nat /\ S[f] >= 16 /\ S[f] % 8 = 0 /\ f # 0 BY <3>11 DEF ReadsFree
    <3>13. S[f] >= nb
      <4>1. CASE j = i
        <5>1. bin_index(S[f]) = bin_index(nb) BY <4>1, <3>11 DEF i
        <5>2. nb < 512 BY <2>1, <1>2
        <5>3. S[f] = nb BY ONLY <5>1, <5>2, <3>12, <1>2, SmallSizes
        <5> QED BY <5>3, <1>2
      <4>2. CASE j # i
        <5>1. bin_index(nb) < bin_index(S[f]) BY <4>2, <3>10, <3>11, <1>3 DEF i
        <5>2. nb < S[f] BY ONLY <5>1, <3>12, <1>2, SizeGrows
        <5> QED BY <5>2, <3>12, <1>2
      <4> QED BY <4>1, <4>2
    <3>14. E = f BY <1>1, <1>6, <2>3 DEF small
    <3> QED BY <3>11, <3>12, <3>13, <3>14 DEF ExactFits, E
  <2> QED BY <2>2, <2>3
<1> QED BY <1>5, <1>6

\* Every chunk for nb bytes is in a bin the search looks at.
Covers(S, F, from, nb) ==
    from \in Nat /\ from >= 2 /\ \A x \in F : S[x] >= nb => bin_index(S[x]) >= from

\* When there is none, the search goes on where all that fit are.
LEMMA SearchCovers ==
    ASSUME NEW h, NEW S, NEW m, NEW F, NEW nb, BinsOk(h.bin, m, S, F), ReadsFree(h, S, F),
           Size8(nb), ExactFit(h, nb) = 0,
           \A x \in F : In(OfBin(h.bin, 1), x) => ~(S[x] >= nb)
    PROVE  /\ Covers(S, F, SearchFrom(h, nb), nb)
           /\ \/ SearchFrom(h, nb) = bin_index(nb) /\ FirstFit(h, bin_index(nb), nb) # 0
              \/ SearchFrom(h, nb) > bin_index(nb)
<1> DEFINE i == bin_index(nb)
           from == SearchFrom(h, nb)
<1>1. nb \in Nat /\ nb >= 16 /\ nb % 8 = 0 BY DEF Size8
<1>2. i \in Nat /\ i >= 2 BY <1>1, BinIndexIs
<1>3. FirstFits(h, S, F, i, nb) BY FirstFitIs
<1>4. ExactFits(h, S, F, nb) BY ExactFitIs
<1>5. /\ is_small_request(nb) => from = i + 2
      /\ ~is_small_request(nb) /\ FirstFit(h, i, nb) # 0 => from = i
      /\ ~is_small_request(nb) /\ FirstFit(h, i, nb) = 0 => from = i + 1
  <2>1. is_small_request(nb) => smallbin_index(nb) = i
    <3>1. is_small_request(nb) => nb < 512 BY <1>1 DEF is_small_request, MAX_SMALLBIN_SIZE
    <3> QED BY <3>1, <1>1, BinIndexIs
  <2> QED BY <2>1 DEF SearchFrom
<1> HIDE DEF i, from
<1>6. from \in Nat /\ from >= 2 BY <1>2, <1>5
<1>7. \A x \in F : S[x] >= nb => bin_index(S[x]) >= from
  <2> TAKE x \in F
  <2> HAVE S[x] >= nb
  <2> DEFINE j == bin_index(S[x])
  <2>1. ~In(OfBin(h.bin, 1), x) OBVIOUS
  <2>2. In(OfBin(h.bin, j), x) BY <2>1, BinOfSize
  <2>3. S[x] \in Nat /\ S[x] >= 16 BY DEF ReadsFree
  <2>4. j >= i /\ j \in Nat BY <2>3, <1>1, BinIndexGrows, BinIndexIs DEF i
  <2> HIDE DEF j
  <2>5. CASE is_small_request(nb)
    <3>1. OfBin(h.bin, i) = << >> /\ OfBin(h.bin, i + 1) = << >> BY <2>5, <1>4 DEF ExactFits, i
    <3>2. ~In(<< >>, x) BY DEF In
    <3>3. j # i /\ j # i + 1 BY <3>1, <3>2, <2>2
    <3> QED BY <3>3, <2>4, <2>5, <1>2, <1>5 DEF j
  <2>6. CASE ~is_small_request(nb) /\ FirstFit(h, i, nb) # 0 BY <2>4, <2>6, <1>5 DEF j
  <2>7. CASE ~is_small_request(nb) /\ FirstFit(h, i, nb) = 0
    <3>1. j # i BY <2>2, <2>7, <1>3 DEF FirstFits
    <3> QED BY <3>1, <2>4, <2>7, <1>2, <1>5 DEF j
  <2> QED BY <2>5, <2>6, <2>7
<1>8. Covers(S, F, from, nb) BY <1>6, <1>7 DEF Covers
<1>9. \/ from = i /\ FirstFit(h, i, nb) # 0
      \/ from > i
  BY <1>2, <1>5
<1> QED BY <1>8, <1>9 DEF i, from

-----------------------------------------------------------------------------
(* The end of the search: the bins, then top.                               *)

\* No chunk of nb bytes is to be had.
TooSmall(S, F, nb) == \A x \in F : S[x] < nb
RefusedAt(h, r, S, U, nb, T, G) ==
    /\ r.mem = 0 /\ HeapAt(r.h, T, G, U) /\ Kept(h, r.h, S, T, U) /\ TooSmall(T, G, nb)
    /\ chunksize(r.h, r.h.top) < nb + MINSIZE
    /\ r.h.brk + RoundUp(nb + r.h.top_pad + MINSIZE, PageSize) + MALLOC_ALIGNMENT > r.h.end
Refused(h, r, S, U, nb) == \E T, G : RefusedAt(h, r, S, U, nb, T, G)
Answer(h, r, S, U, nb) == Given(h, r, S, U, nb) \/ Refused(h, r, S, U, nb)

\* An answer after a step that keeps the blocks.
LEMMA AnswerTrans ==
    ASSUME NEW h, NEW g, NEW r, NEW S, NEW T, NEW U, NEW nb, Kept(h, g, S, T, U),
           Answer(g, r, T, U, nb)
    PROVE  Answer(h, r, S, U, nb)
<1>1. CASE Given(g, r, T, U, nb)
  <2>1. PICK P, G, p : GivenAt(g, r, T, U, nb, P, G, p) BY <1>1 DEF Given
  <2>2. Kept(g, r.h, T, P, U) BY <2>1 DEF GivenAt
  <2>3. Kept(h, r.h, S, P, U \intersect U) BY <2>2, KeptTrans
  <2>4. GivenAt(h, r, S, U, nb, P, G, p) BY <2>1, <2>3 DEF GivenAt
  <2> QED BY <2>4 DEF Given, Answer
<1>2. CASE Refused(g, r, T, U, nb)
  <2>1. PICK P, G : RefusedAt(g, r, T, U, nb, P, G) BY <1>2 DEF Refused
  <2>2. Kept(g, r.h, T, P, U) BY <2>1 DEF RefusedAt
  <2>3. Kept(h, r.h, S, P, U \intersect U) BY <2>2, KeptTrans
  <2>4. RefusedAt(h, r, S, U, nb, P, G) BY <2>1, <2>3 DEF RefusedAt
  <2> QED BY <2>4 DEF Refused, Answer
<1> QED BY <1>1, <1>2 DEF Answer

\* An answer after a change of the bins.
LEMMA AnswerSame ==
    ASSUME NEW h, NEW g, NEW r, NEW S, NEW U, NEW nb, SameMem(h, g), Answer(g, r, S, U, nb)
    PROVE  Answer(h, r, S, U, nb)
<1>1. \A x \in Nat : Word(g, x) = Word(h, x) BY DEF SameMem
<1>2. Kept(h, g, S, S, U) BY <1>1, KeptSameWords
<1> QED BY <1>2, AnswerTrans

\* The end of malloc(): top, extended if need be, or nothing.
LEMMA FromTopAt ==
    ASSUME NEW h, NEW S, NEW F, NEW U, NEW nb, HeapAt(h, S, F, U), TooSmall(S, F, nb),
           Size8(nb), PageFacts
    PROVE  Answer(h, FromTop(h, nb), S, U, nb)
<1> DEFINE t == h.top
<1>1. Layout(h, S, F, U) BY DEF HeapAt
<1>2. nb \in Nat /\ nb >= 16 BY DEF Size8
<1>3. t # 0 => chunksize(h, t) = S[t] /\ S[t] \in Nat BY <1>1, TopIs
<1>4. t = 0 => chunksize(h, t) = 0 BY DEF chunksize, InitialTop
<1>5. CASE SpareInTop(h, nb) < MINSIZE
  <2> DEFINE g == malloc_extend_top(h, nb)
  <2>1. FromTop(h, nb) = TakeFromTop(g, nb) BY <1>5 DEF FromTop
  <2>2. Extended(h, g, S, F, U, nb) BY <1>2, ExtendTopAt
  <2> HIDE DEF g
  <2>3. CASE TopOf(h, g, S, U, nb + MINSIZE)
    <3>1. PICK T, G : /\ HeapAt(g, T, G, U) /\ Kept(h, g, S, T, U) /\ g.top # 0
                      /\ T[g.top] >= nb + MINSIZE
      BY <2>3 DEF TopOf
    <3>2. Given(g, TakeFromTop(g, nb), T, U, nb) BY <3>1, TakeFromTopAt
    <3>3. Answer(g, TakeFromTop(g, nb), T, U, nb) BY <3>2 DEF Answer
    <3> QED BY <2>1, <3>1, <3>3, AnswerTrans
  <2>4. CASE NotExtended(h, g, S, F, U, nb)
    <3>1. HeapAt(g, S, F, U) /\ g.top = t BY <2>4 DEF NotExtended
    <3>2. chunksize(g, g.top) = chunksize(h, t)
      <4>1. CASE t = 0 BY <4>1, <1>4, <3>1 DEF chunksize, InitialTop
      <4>2. CASE t # 0
        <5>1. Layout(g, S, F, U) BY <3>1 DEF HeapAt
        <5>2. chunksize(g, g.top) = S[t] BY <5>1, <4>2, <3>1, TopIs
        <5> QED BY <5>2, <4>2, <1>3
      <4> QED BY <4>1, <4>2
    <3>3. SpareInTop(g, nb) < MINSIZE BY <3>2, <1>5 DEF SpareInTop
    <3>4. TakeFromTop(g, nb) = Null(g) BY <3>3 DEF TakeFromTop
    <3>5. chunksize(g, g.top) < nb + MINSIZE BY <3>2, <1>2, <1>3, <1>4, <1>5 DEF SpareInTop, MINSIZE
    <3>6. RefusedAt(h, Null(g), S, U, nb, S, F)
      BY <2>4, <3>5 DEF RefusedAt, NotExtended, Null
    <3> QED BY <2>1, <3>4, <3>6 DEF Refused, Answer
  <2> QED BY <2>2, <2>3, <2>4 DEF Extended
<1>6. CASE ~(SpareInTop(h, nb) < MINSIZE)
  <2>1. FromTop(h, nb) = TakeFromTop(h, nb) BY <1>6 DEF FromTop
  <2>2. t # 0 BY <1>2, <1>4, <1>6 DEF SpareInTop, MINSIZE
  <2>3. S[t] >= nb + MINSIZE BY <2>2, <1>2, <1>3, <1>6 DEF SpareInTop, MINSIZE
  <2>4. Given(h, TakeFromTop(h, nb), S, U, nb) BY <2>2, <2>3, TakeFromTopAt
  <2> QED BY <2>1, <2>4 DEF Answer
<1> QED BY <1>5, <1>6

\* Unmarking the blocks of bins that the search left keeps the others marked.
Searched(h, from, nb) ==
    LET hits == {i \in DOMAIN h.bin : /\ i >= from
                                      /\ idx2binblock(i) \in h.marked
                                      /\ FirstFit(h, i, nb) # 0}
    IN {b \in h.marked : /\ b >= idx2binblock(from)
                         /\ \A i \in hits : b < idx2binblock(i)}
Remarked(h, from, nb) == h.marked \ Unmarked(h, from, Searched(h, from, nb))

Searchable(h, from, nb) ==
    \/ FirstFit(h, from, nb) # 0
    \/ \A i \in DOMAIN h.bin : i >= from => FirstFit(h, i, nb) # 0

\* A bin is in its block of four.
LEMMA BlockIs ==
    ASSUME NEW i \in Nat
    PROVE  idx2binblock(i) \in Nat /\ i \in idx2binblock(i) * BINBLOCKWIDTH .. i
<1>1. i \div 4 \in Nat /\ (i \div 4) * 4 <= i /\ i <= i OBVIOUS
<1>2. idx2binblock(i) = i \div 4 BY DEF idx2binblock, BINBLOCKWIDTH
<1> QED BY <1>1, <1>2 DEF BINBLOCKWIDTH

\* The search only unmarks blocks of bins that are empty.
LEMMA RemarkedOk ==
    ASSUME NEW h, NEW S, NEW F, NEW from, NEW nb, BinsOk(h.bin, h.marked, S, F),
           ReadsFree(h, S, F), from \in Nat, from >= 2, Searchable(h, from, nb)
    PROVE  BinsOk(h.bin, Remarked(h, from, nb), S, F)
<1> DEFINE hits == {i \in DOMAIN h.bin : /\ i >= from
                                         /\ idx2binblock(i) \in h.marked
                                         /\ FirstFit(h, i, nb) # 0}
           passed == Searched(h, from, nb)
<1>1. passed = {b \in h.marked : /\ b >= idx2binblock(from) /\ \A i \in hits : b < idx2binblock(i)}
  BY DEF Searched
<1>2. \A i \in DOMAIN h.bin \ {1} : idx2binblock(i) \in h.marked BY DEF BinsOk, BinsSized
<1>3. \A i \in DOMAIN h.bin : i \in Nat /\ i > 0 /\ h.bin[i] # << >> BY BinIn
<1>4. FirstFits(h, S, F, from, nb) BY FirstFitIs
<1> HIDE DEF passed
<1>5. ASSUME NEW i \in DOMAIN h.bin \ {1}, idx2binblock(i) \in Unmarked(h, from, passed)
      PROVE  FALSE
  <2> DEFINE b == idx2binblock(i)
  <2>1. i \in Nat /\ b \in Nat /\ i \in b * BINBLOCKWIDTH .. i BY <1>3, BlockIs
  <2>2. b \in passed /\ \A j \in b * BINBLOCKWIDTH .. from - 1 : Bin(h, j) = << >>
    BY <1>5 DEF Unmarked
  <2>3. b >= idx2binblock(from) /\ \A j \in hits : b < idx2binblock(j) BY <1>1, <2>2
  <2>4. i \notin hits
    <3>1. ~(b < b) BY <2>1
    <3> QED BY <2>3, <3>1
  <2>5. CASE i >= from
    <3>1. FirstFit(h, i, nb) = 0 BY <2>4, <2>5, <1>2, <1>5
    <3>2. FirstFit(h, from, nb) # 0 BY <3>1, <2>5, <1>5 DEF Searchable
    <3>3. from \in DOMAIN h.bin BY <3>2, <1>4 DEF FirstFits
    <3>4. from \in hits
      <4>1. from >= from /\ from # 1 OBVIOUS
      <4>2. idx2binblock(from) \in h.marked BY <4>1, <3>3, <1>2
      <4> QED BY <3>2, <3>3, <4>1, <4>2
    <3>5. b < idx2binblock(from) BY <2>3, <3>4
    <3>6. idx2binblock(from) \in Nat BY BlockIs
    <3> QED BY <2>1, <2>3, <3>5, <3>6
  <2>6. CASE ~(i >= from)
    <3>1. i \in b * BINBLOCKWIDTH .. from - 1 BY <2>1, <2>6 DEF BINBLOCKWIDTH
    <3>2. Bin(h, i) = << >> BY <2>2, <3>1
    <3> QED BY <3>2, <1>3, <1>5 DEF Bin
  <2> QED BY <2>5, <2>6
<1>6. \A i \in DOMAIN h.bin \ {1} : idx2binblock(i) \in Remarked(h, from, nb)
  BY <1>2, <1>5 DEF Remarked, passed
<1> QED BY <1>6, BinsMarks

\* The search of the marked bins, then top.
LEMMA FromBinsAt ==
    ASSUME NEW h, NEW S, NEW F, NEW U, NEW from, NEW nb, HeapAt(h, S, F, U),
           Bin(h, 1) = << >>, Covers(S, F, from, nb), Searchable(h, from, nb),
           Size8(nb), PageFacts
    PROVE  Answer(h, FromBins(h, from, nb), S, U, nb)
<1> DEFINE hits == {i \in DOMAIN h.bin : /\ i >= from
                                         /\ idx2binblock(i) \in h.marked
                                         /\ FirstFit(h, i, nb) # 0}
           h1 == [h EXCEPT !.marked = Remarked(h, from, nb)]
           i == Min(hits)
           p == FirstFit(h, i, nb)
           k == unlink(h1, p)
           R == FromBins(h, from, nb)
<1>1. IsHeap(h) /\ Layout(h, S, F, U) /\ SysOk(h, S) /\ BinsOk(h.bin, h.marked, S, F)
  BY DEF HeapAt
<1>2. ReadsFree(h, S, F) BY <1>1, ReadsOf
<1>3. from \in Nat /\ from >= 2 BY DEF Covers
<1>4. R = CASE hits = {} -> FromTop(h1, nb)
            [] hits # {} /\ chunksize(h, p) - nb >= MINSIZE -> Split(k, p, nb)
            [] OTHER -> UseAll(k, p)
  BY DEF FromBins, Remarked, Searched
<1>5. BinsOk(h.bin, Remarked(h, from, nb), S, F) BY <1>1, <1>2, <1>3, RemarkedOk
<1>6. SameMem(h, h1) /\ h1.bin = h.bin /\ h1.marked = Remarked(h, from, nb) BY <1>1, MarkedIs
<1> HIDE DEF h1, R
<1>7. Layout(h1, S, F, U) /\ SysOk(h1, S) /\ IsHeap(h1) BY <1>1, <1>6, SameLayout
<1>8. BinsOk(h1.bin, h1.marked, S, F) BY <1>5, <1>6
<1>9. \A j \in DOMAIN h.bin : j \in Nat /\ j > 0 BY <1>1, BinIn
<1>10. CASE hits = {}
  <2>1. TooSmall(S, F, nb)
    <3> SUFFICES ASSUME NEW x \in F, ~(S[x] < nb) PROVE FALSE BY DEF TooSmall
    <3>1. S[x] >= nb BY <1>2 DEF ReadsFree, Size8
    <3> DEFINE j == bin_index(S[x])
    <3>2. j >= from BY <3>1 DEF Covers
    <3>3. ~In(OfBin(h.bin, 1), x)
      <4>1. OfBin(h.bin, 1) = << >> BY BinIs
      <4> QED BY <4>1 DEF In
    <3>4. j \in DOMAIN h.bin /\ In(OfBin(h.bin, j), x) /\ idx2binblock(j) \in h.marked
      BY <1>1, <3>3, BinOfSize
    <3> HIDE DEF j
    <3>5. FirstFit(h, j, nb) = 0 BY <1>10, <3>2, <3>4
    <3>6. FirstFits(h, S, F, j, nb) BY <1>1, <1>2, FirstFitIs
    <3> QED BY <3>1, <3>4, <3>5, <3>6 DEF FirstFits
  <2>2. HeapAt(h1, S, F, U) BY <1>7, <1>8 DEF HeapAt
  <2>3. Answer(h1, FromTop(h1, nb), S, U, nb) BY <2>1, <2>2, FromTopAt
  <2>4. R = FromTop(h1, nb) BY <1>4, <1>10
  <2> QED BY <1>6, <2>3, <2>4, AnswerSame DEF R
<1>11. CASE hits # {}
  <2>1. i \in hits
    <3>1. hits \subseteq Nat BY <1>9
    <3> QED BY <3>1, <1>11, MinIs
  <2>2. i \in DOMAIN h.bin /\ i >= from /\ p # 0 BY <2>1
  <2> HIDE DEF hits, i
  <2>3. FirstFits(h, S, F, i, nb) BY <1>1, <1>2, FirstFitIs
  <2>4. p \in F /\ S[p] >= nb BY <2>2, <2>3 DEF FirstFits
  <2> HIDE DEF p
  <2>5. chunksize(h, p) = S[p] /\ S[p] \in Nat BY <2>4, <1>2 DEF ReadsFree
  <2>6. /\ SameMem(h1, k) /\ BinsOk(k.bin, h1.marked, S, F \ {p}) /\ k.marked = h1.marked
        /\ Bin(h1, 1) # <<p>> => Bin(k, 1) = Bin(h1, 1)
    <3>1. p \in F /\ IsHeap(h1) /\ BinsOk(h1.bin, h1.marked, S, F) BY <2>4, <1>7, <1>8
    <3> QED BY ONLY <3>1, Unlinked
  <2>7. Bin(k, 1) = << >>
    <3>1. Bin(h1, 1) = << >> BY <1>6 DEF Bin
    <3>2. << >> # <<p>> BY ToSetOne
    <3> QED BY <3>1, <3>2, <2>6
  <2> HIDE DEF k
  <2>8. Layout(k, S, F, U) /\ SysOk(k, S) /\ IsHeap(k) BY <2>6, <1>7, SameLayout
  <2>9. SameMem(h, k) BY <1>6, <2>6, SameMemTrans
  <2>10. BinsOk(k.bin, k.marked, S, F \ {p}) BY <2>6
  <2>11. CASE chunksize(h, p) - nb >= MINSIZE
    <3>1. R = Split(k, p, nb) BY <1>4, <1>11, <2>11 DEF hits, i, p
    <3>2. SplitFrom(k, S, F, U, p)
      <4>1. (F \ {p}) \ ToSet(Bin(k, 1)) = F \ {p} BY <2>7, ToSetOne
      <4> QED BY <4>1, <2>4, <2>8, <2>10 DEF SplitFrom
    <3>3. S[p] >= nb + MINSIZE BY <2>5, <2>11 DEF MINSIZE, Size8
    <3>4. Given(k, R, S, U, nb) BY <3>1, <3>2, <3>3, SplitAt
    <3>5. Answer(k, R, S, U, nb) BY <3>4 DEF Answer
    <3> QED BY <3>5, <2>9, AnswerSame DEF R
  <2>12. CASE ~(chunksize(h, p) - nb >= MINSIZE)
    <3>1. R = UseAll(k, p) BY <1>4, <1>11, <2>12 DEF hits, i, p
    <3>2. OffBins(k, S, F, U, p) BY <2>4, <2>8, <2>10 DEF OffBins
    <3>3. Given(k, R, S, U, nb) BY <3>1, <3>2, <2>4, UseAllAt
    <3>4. Answer(k, R, S, U, nb) BY <3>3 DEF Answer
    <3> QED BY <3>4, <2>9, AnswerSame DEF R
  <2> QED BY <2>11, <2>12
<1> QED BY <1>10, <1>11

-----------------------------------------------------------------------------
(* malloc().                                                                *)

\* A chunk taken out of its bin, to be given out.
LEMMA TakenOut ==
    ASSUME NEW h, NEW S, NEW F, NEW U, NEW p \in F, HeapAt(h, S, F, U)
    PROVE  SameMem(h, unlink(h, p)) /\ OffBins(unlink(h, p), S, F, U, p)
<1> DEFINE k == unlink(h, p)
<1>1. IsHeap(h) /\ Layout(h, S, F, U) /\ SysOk(h, S) /\ BinsOk(h.bin, h.marked, S, F)
  BY DEF HeapAt
<1>2. SameMem(h, k) /\ BinsOk(k.bin, h.marked, S, F \ {p}) /\ k.marked = h.marked
  BY <1>1, Unlinked
<1> HIDE DEF k
<1>3. Layout(k, S, F, U) /\ SysOk(k, S) /\ IsHeap(k) BY <1>1, <1>2, SameLayout
<1>4. OffBins(k, S, F, U, p) BY <1>2, <1>3 DEF OffBins
<1> QED BY <1>2, <1>4 DEF k

\* The heap in which the last remainder, too small for a request, is in its bin.
Filed(h) ==
    LET p == Bin(h, last_remainder)[1]
    IN IF Bin(h, last_remainder) # << >>
       THEN frontlink(clear_last_remainder(h), p, chunksize(h, p)) ELSE h

\* The last remainder goes into the bin of its size.
LEMMA FiledAt ==
    ASSUME NEW h, NEW S, NEW F, NEW U, HeapAt(h, S, F, U)
    PROVE  /\ SameMem(h, Filed(h)) /\ HeapAt(Filed(h), S, F, U) /\ Bin(Filed(h), 1) = << >>
<1>1. IsHeap(h) /\ Layout(h, S, F, U) /\ SysOk(h, S) /\ BinsOk(h.bin, h.marked, S, F)
  BY DEF HeapAt
<1>2. CASE Bin(h, 1) = << >>
  <2>1. Filed(h) = h BY <1>2 DEF Filed, last_remainder
  <2> QED BY <2>1, <1>1, <1>2, SameMemRefl
<1>3. CASE Bin(h, 1) # << >>
  <2>1. PICK p \in F : Bin(h, 1) = <<p>> BY <1>1, <1>3, LastShape
  <2> DEFINE k == clear_last_remainder(h)
             g == frontlink(k, p, S[p])
  <2>2. ReadsFree(h, S, F) /\ SizedFree(S, F) BY <1>1, ReadsOf
  <2>3. Bin(h, 1)[1] = p BY <2>1
  <2>4. Filed(h) = g BY <2>2, <2>3, <1>3 DEF Filed, last_remainder, ReadsFree
  <2>5. ToSet(Bin(h, 1)) = {p} BY <2>1, ToSetOne
  <2>6. /\ SameMem(h, k) /\ BinsOk(k.bin, h.marked, S, F \ {p}) /\ k.marked = h.marked
        /\ Bin(k, 1) = << >>
    BY <2>5, <1>1, LastCleared
  <2> HIDE DEF k
  <2>7. IsHeap(k) /\ ReadsFree(k, S, F) BY <2>2, <2>6, ReadsSame DEF SameMem
  <2>8. /\ SameMem(k, g) /\ BinsOk(g.bin, g.marked, S, (F \ {p}) \union {p})
        /\ Bin(g, 1) = Bin(k, 1)
    <3> DEFINE D == F \ {p}
    <3>1. BinsOk(k.bin, k.marked, S, D) BY <2>6
    <3>2. p \notin D /\ SizedFree(S, D \union {p}) BY <2>2 DEF SizedFree
    <3>3. \A x \in D : chunksize(k, x) = S[x] BY <2>7 DEF ReadsFree
    <3> DEFINE size == S[p]
    <3>4. S[p] = size OBVIOUS
    <3> HIDE DEF D, size
    <3>5. /\ SameMem(k, frontlink(k, p, size))
          /\ BinsOk(frontlink(k, p, size).bin, frontlink(k, p, size).marked, S, D \union {p})
          /\ Bin(frontlink(k, p, size), 1) = Bin(k, 1)
      BY ONLY <2>7, <3>1, <3>2, <3>3, <3>4, Frontlinked
    <3> QED BY <3>5 DEF D, size
  <2>9. (F \ {p}) \union {p} = F OBVIOUS
  <2> HIDE DEF g
  <2>10. SameMem(h, g) BY <2>6, <2>8, SameMemTrans
  <2>11. Layout(g, S, F, U) /\ SysOk(g, S) /\ IsHeap(g) BY <2>10, <1>1, SameLayout
  <2>12. HeapAt(g, S, F, U) BY <2>8, <2>9, <2>11 DEF HeapAt
  <2> QED BY <2>4, <2>6, <2>8, <2>10, <2>12
<1> QED BY <1>2, <1>3

\* The last remainder is no chunk of nb bytes.
LastSmall(h, S, nb) == \A x : In(OfBin(h.bin, 1), x) => ~(S[x] >= nb)

\* The bin that the search begins with holds a chunk for nb bytes, or comes
\* after all that are too small.
LEMMA FiledSearch ==
    ASSUME NEW h, NEW g, NEW S, NEW F, NEW U, NEW nb, HeapAt(h, S, F, U), HeapAt(g, S, F, U),
           Bin(g, 1) = << >>, Size8(nb), ExactFit(h, nb) = 0, LastSmall(h, S, nb)
    PROVE  Covers(S, F, SearchFrom(h, nb), nb) /\ Searchable(g, SearchFrom(h, nb), nb)
<1> DEFINE from == SearchFrom(h, nb)
           i == bin_index(nb)
<1>1. BinsOk(h.bin, h.marked, S, F) /\ BinsOk(g.bin, g.marked, S, F) BY DEF HeapAt
<1>2. ReadsFree(h, S, F) /\ ReadsFree(g, S, F)
  <2>1. Layout(h, S, F, U) /\ Layout(g, S, F, U) BY DEF HeapAt
  <2> QED BY <2>1, ReadsOf
<1>3. nb \in Nat /\ nb >= 16 BY DEF Size8
<1>4. i \in Nat /\ i >= 2 BY <1>3, BinIndexIs
<1>5. /\ Covers(S, F, from, nb)
      /\ (from = i /\ FirstFit(h, i, nb) # 0) \/ from > i
  <2>1. \A x \in F : In(OfBin(h.bin, 1), x) => ~(S[x] >= nb) BY DEF LastSmall
  <2> QED BY <2>1, <1>1, <1>2, SearchCovers
<1> HIDE DEF from, i
<1>6. ~In(OfBin(g.bin, 1), 0) /\ \A x : ~In(OfBin(g.bin, 1), x)
  <2>1. OfBin(g.bin, 1) = << >> BY BinIs
  <2> QED BY <2>1 DEF In
<1>7. CASE from = i /\ FirstFit(h, i, nb) # 0
  <2> DEFINE x == FirstFit(h, i, nb)
  <2>1. FirstFits(h, S, F, i, nb) /\ FirstFits(g, S, F, i, nb) BY <1>1, <1>2, FirstFitIs
  <2>2. x \in F /\ In(OfBin(h.bin, i), x) /\ S[x] >= nb BY <2>1, <1>7 DEF FirstFits
  <2> HIDE DEF x
  <2>3. bin_index(S[x]) = i BY <2>2, <1>1, <1>4, SizeOfBin
  <2>4. In(OfBin(g.bin, i), x) BY <2>2, <2>3, <1>1, <1>6, BinOfSize
  <2>5. FirstFit(g, i, nb) # 0 BY <2>1, <2>2, <2>4 DEF FirstFits
  <2> QED BY <2>5, <1>5, <1>7 DEF Searchable, from
<1>8. CASE from > i
  <2>1. ASSUME NEW j \in DOMAIN g.bin, j >= from
        PROVE  FirstFit(g, j, nb) # 0
    <3>1. j \in Nat /\ g.bin[j] # << >> /\ Len(g.bin[j]) > 0 /\ DOMAIN g.bin[j] = 1 .. Len(g.bin[j])
          /\ Len(g.bin[j]) \in Nat
      BY <1>1, BinIn
    <3> DEFINE x == g.bin[j][1]
    <3>2. In(OfBin(g.bin, j), x)
      <4>1. 1 \in DOMAIN g.bin[j] BY <3>1
      <4> QED BY <4>1 DEF In, OfBin
    <3> HIDE DEF x
    <3>3. from \in Nat BY <1>5 DEF Covers
    <3>4. j # 1 /\ i < j BY <3>1, <3>3, <2>1, <1>4, <1>8
    <3>5. x \in F /\ bin_index(S[x]) = j BY <3>2, <3>4, <1>1, SizeOfBin
    <3>6. S[x] \in Nat /\ S[x] >= 16 BY <3>5, <1>2 DEF ReadsFree
    <3>7. nb < S[x]
      <4>1. bin_index(nb) < bin_index(S[x]) BY <3>4, <3>5 DEF i
      <4> QED BY ONLY <4>1, <3>6, <1>3, SizeGrows
    <3>8. S[x] >= nb BY <3>6, <3>7, <1>3
    <3>9. FirstFits(g, S, F, j, nb) BY <1>1, <1>2, FirstFitIs
    <3> QED BY <3>2, <3>8, <3>9 DEF FirstFits
  <2> QED BY <2>1, <1>5 DEF Searchable, from
<1> QED BY <1>5, <1>7, <1>8

\* The last remainder gives a chunk, or its front.
LEMMA FromLastAt ==
    ASSUME NEW h, NEW S, NEW F, NEW U, NEW p \in F, NEW nb, HeapAt(h, S, F, U),
           Bin(h, 1) = <<p>>, Size8(nb), S[p] >= nb
    PROVE  /\ S[p] >= nb + MINSIZE => Answer(h, Split(h, p, nb), S, U, nb)
           /\ Answer(h, UseAll(clear_last_remainder(h), p), S, U, nb)
<1> DEFINE k == clear_last_remainder(h)
<1>1. IsHeap(h) /\ Layout(h, S, F, U) /\ SysOk(h, S) /\ BinsOk(h.bin, h.marked, S, F)
  BY DEF HeapAt
<1>2. ToSet(Bin(h, 1)) = {p} BY ToSetOne
<1>3. SameMem(h, k) /\ BinsOk(k.bin, h.marked, S, F \ {p}) /\ k.marked = h.marked
  BY <1>1, <1>2, LastCleared
<1> HIDE DEF k
<1>4. OffBins(k, S, F, U, p)
  <2>1. Layout(k, S, F, U) /\ SysOk(k, S) /\ IsHeap(k) BY <1>1, <1>3, SameLayout
  <2> QED BY <2>1, <1>3 DEF OffBins
<1>5. Answer(k, UseAll(k, p), S, U, nb) BY <1>4, UseAllAt DEF Answer
<1>6. Answer(h, UseAll(k, p), S, U, nb) BY <1>3, <1>5, AnswerSame
<1>7. ASSUME S[p] >= nb + MINSIZE
      PROVE  Answer(h, Split(h, p, nb), S, U, nb)
  <2>1. SplitFrom(h, S, F, U, p) BY <1>1, <1>2 DEF SplitFrom
  <2> QED BY <2>1, <1>7, SplitAt DEF Answer
<1> QED BY <1>6, <1>7 DEF k

\* The cases of malloc(), by their values.
ByExact(h, r, nb) ==
    ExactFit(h, nb) # 0 => r = UseAll(unlink(h, ExactFit(h, nb)), ExactFit(h, nb))
ByLast(h, r, nb) ==
    \A p : Bin(h, 1) = <<p>> /\ ExactFit(h, nb) = 0 =>
        /\ chunksize(h, p) - nb >= MINSIZE => r = Split(h, p, nb)
        /\ chunksize(h, p) - nb \in 0 .. MINSIZE - 1 => r = UseAll(clear_last_remainder(h), p)
        /\ ~(chunksize(h, p) - nb >= MINSIZE) /\ ~(chunksize(h, p) - nb \in 0 .. MINSIZE - 1) =>
               r = FromBins(Filed(h), SearchFrom(h, nb), nb)
ByBins(h, r, nb) ==
    Bin(h, 1) = << >> /\ ExactFit(h, nb) = 0 => r = FromBins(Filed(h), SearchFrom(h, nb), nb)

\* malloc() by its cases.
LEMMA MallocIs ==
    ASSUME NEW h, NEW bytes, Long(bytes) \in Nat
    PROVE  LET nb == request2size(bytes)
               r == mALLOc(h, bytes)
           IN ByExact(h, r, nb) /\ ByLast(h, r, nb) /\ ByBins(h, r, nb)
<1> DEFINE nb == request2size(bytes)
           exact == ExactFit(h, nb)
           isLast == Bin(h, 1) # << >>
           q == Bin(h, 1)[1]
           spare == chunksize(h, q) - nb
           r == mALLOc(h, bytes)
           a == UseAll(unlink(h, exact), exact)
           b == Split(h, q, nb)
           c == UseAll(clear_last_remainder(h), q)
           d == FromBins(Filed(h), SearchFrom(h, nb), nb)
<1>1. ~(Long(bytes) < 0) /\ Long(bytes) >= 0 OBVIOUS
<1>2. r = CASE Long(bytes) < 0 -> Null(h)
            [] Long(bytes) >= 0 /\ exact # 0 -> a
            [] Long(bytes) >= 0 /\ exact = 0 ->
                CASE isLast /\ spare >= MINSIZE -> b
                  [] isLast /\ spare \in 0 .. MINSIZE - 1 -> c
                  [] OTHER -> d
  BY ONLY DEF mALLOc, Filed, last_remainder
<1> HIDE DEF r, a, b, c, d, exact, isLast, spare
<1>3. /\ exact # 0 => r = a
      /\ exact = 0 => r = CASE isLast /\ spare >= MINSIZE -> b
                            [] isLast /\ spare \in 0 .. MINSIZE - 1 -> c
                            [] OTHER -> d
  BY ONLY <1>1, <1>2
<1>4. ~(spare >= MINSIZE /\ spare \in 0 .. MINSIZE - 1) BY DEF MINSIZE
<1>5. /\ exact = 0 /\ isLast /\ spare >= MINSIZE => r = b
      /\ exact = 0 /\ isLast /\ spare \in 0 .. MINSIZE - 1 => r = c
      /\ exact = 0 /\ ~(isLast /\ spare >= MINSIZE)
           /\ ~(isLast /\ spare \in 0 .. MINSIZE - 1) => r = d
  BY ONLY <1>3, <1>4
<1>6. ByExact(h, r, nb) BY <1>3 DEF ByExact, a, exact
<1>7. ByBins(h, r, nb) BY <1>5 DEF ByBins, d, exact, isLast
<1>8. ByLast(h, r, nb)
  <2> SUFFICES ASSUME NEW p, Bin(h, 1) = <<p>>, exact = 0
               PROVE  /\ chunksize(h, p) - nb >= MINSIZE => r = Split(h, p, nb)
                      /\ chunksize(h, p) - nb \in 0 .. MINSIZE - 1 => r = UseAll(clear_last_remainder(h), p)
                      /\ ~(chunksize(h, p) - nb >= MINSIZE) /\ ~(chunksize(h, p) - nb \in 0 .. MINSIZE - 1) => r = d
    BY DEF ByLast, d, exact
  <2>1. q = p /\ Bin(h, 1) # << >> BY ToSetOne
  <2>2. isLast /\ spare = chunksize(h, p) - nb BY <2>1 DEF isLast, spare
  <2>3. b = Split(h, p, nb) /\ c = UseAll(clear_last_remainder(h), p) BY <2>1 DEF b, c
  <2> HIDE DEF q
  <2> QED BY <2>2, <2>3, <1>5
<1> QED BY <1>6, <1>7, <1>8 DEF r

\* malloc() gives a chunk of the size asked for, or there is none to be had.
LEMMA MallocAt ==
    ASSUME NEW h, NEW S, NEW F, NEW U, NEW bytes, HeapAt(h, S, F, U), Long(bytes) \in Nat,
           Size8(request2size(bytes)), PageFacts
    PROVE  Answer(h, mALLOc(h, bytes), S, U, request2size(bytes))
<1> DEFINE nb == request2size(bytes)
           exact == ExactFit(h, nb)
           r == mALLOc(h, bytes)
<1>1. IsHeap(h) /\ Layout(h, S, F, U) /\ SysOk(h, S) /\ BinsOk(h.bin, h.marked, S, F)
  BY DEF HeapAt
<1>2. ReadsFree(h, S, F) BY <1>1, ReadsOf
<1>3. nb \in Nat /\ nb >= 16 /\ Size8(nb) BY DEF Size8
<1>4. ByExact(h, r, nb) /\ ByLast(h, r, nb) /\ ByBins(h, r, nb) BY MallocIs
<1> HIDE DEF nb, r
<1>5. CASE exact # 0
  <2>1. exact \in F /\ S[exact] >= nb BY <1>5, <1>1, <1>2, <1>3, ExactFitIs DEF ExactFits
  <2>2. r = UseAll(unlink(h, exact), exact) BY <1>4, <1>5 DEF ByExact
  <2> HIDE DEF exact
  <2>3. SameMem(h, unlink(h, exact)) /\ OffBins(unlink(h, exact), S, F, U, exact)
    BY <2>1, TakenOut
  <2>4. Answer(unlink(h, exact), r, S, U, nb) BY <2>1, <2>2, <2>3, UseAllAt DEF Answer
  <2> QED BY <2>3, <2>4, AnswerSame DEF nb, r
<1>6. ASSUME exact = 0, r = FromBins(Filed(h), SearchFrom(h, nb), nb), LastSmall(h, S, nb)
      PROVE  Answer(h, r, S, U, nb)
  <2> DEFINE g == Filed(h)
  <2>1. SameMem(h, g) /\ HeapAt(g, S, F, U) /\ Bin(g, 1) = << >> BY FiledAt
  <2> HIDE DEF g
  <2>2. Covers(S, F, SearchFrom(h, nb), nb) /\ Searchable(g, SearchFrom(h, nb), nb)
    BY <2>1, <1>3, <1>6, FiledSearch
  <2>3. Answer(g, FromBins(g, SearchFrom(h, nb), nb), S, U, nb) BY <2>1, <2>2, <1>3, FromBinsAt
  <2> QED BY <2>1, <2>3, <1>6, AnswerSame DEF g
<1>7. CASE exact = 0 /\ Bin(h, 1) = << >>
  <2>1. r = FromBins(Filed(h), SearchFrom(h, nb), nb) BY <1>4, <1>7 DEF ByBins
  <2>2. LastSmall(h, S, nb)
    <3>1. OfBin(h.bin, 1) = << >> BY <1>7, BinIs
    <3> QED BY <3>1 DEF LastSmall, In
  <2> QED BY <2>1, <2>2, <1>6, <1>7 DEF nb, r
<1>8. CASE exact = 0 /\ Bin(h, 1) # << >>
  <2>1. PICK p \in F : Bin(h, 1) = <<p>> BY <1>1, <1>8, LastShape
  <2>2. chunksize(h, p) = S[p] /\ S[p] \in Nat BY <1>2 DEF ReadsFree
  <2>3. CASE S[p] >= nb + MINSIZE
    <3>1. chunksize(h, p) - nb >= MINSIZE BY <2>2, <2>3, <1>3 DEF MINSIZE
    <3>2. r = Split(h, p, nb) BY <3>1, <2>1, <1>4, <1>8 DEF ByLast
    <3>3. S[p] >= nb BY <2>2, <2>3, <1>3 DEF MINSIZE
    <3> QED BY <3>2, <3>3, <2>1, <2>3, <1>3, FromLastAt DEF nb, r
  <2>4. CASE S[p] >= nb /\ ~(S[p] >= nb + MINSIZE)
    <3>1. chunksize(h, p) - nb \in 0 .. MINSIZE - 1 BY <2>2, <2>4, <1>3 DEF MINSIZE
    <3>2. r = UseAll(clear_last_remainder(h), p) BY <3>1, <2>1, <1>4, <1>8 DEF ByLast
    <3> QED BY <3>2, <2>1, <2>4, <1>3, FromLastAt DEF nb, r
  <2>5. CASE ~(S[p] >= nb)
    <3>1. ~(chunksize(h, p) - nb >= MINSIZE) /\ ~(chunksize(h, p) - nb \in 0 .. MINSIZE - 1)
      BY <2>2, <2>5, <1>3 DEF MINSIZE
    <3>2. r = FromBins(Filed(h), SearchFrom(h, nb), nb) BY <3>1, <2>1, <1>4, <1>8 DEF ByLast
    <3>3. LastSmall(h, S, nb)
      <4>1. OfBin(h.bin, 1) = <<p>> BY <2>1, BinIs
      <4>2. \A x : In(<<p>>, x) => x = p BY DEF In
      <4> QED BY <4>1, <4>2, <2>5 DEF LastSmall
    <3> QED BY <3>2, <3>3, <1>6, <1>8 DEF nb, r
  <2> QED BY <2>2, <2>3, <2>4, <2>5
<1> QED BY <1>5, <1>7, <1>8

-----------------------------------------------------------------------------
(* A run of chunks that becomes one or two chunks of a program.             *)

\* The words of [a + 8, e + 4) of k are not those of h.
InnerWords(h, k, a, e) == \A x \in Nat : x < a + 8 \/ x >= e + 4 => Word(k, x) = Word(h, x)

\* k is h, but what is in the chunks of [a, e) is taken out of the bins and
\* overwritten, to become one chunk a of a program.
Region(h, k, S, F, U, T, G, V, a, e) ==
    /\ Layout(h, S, F, U) /\ SysOk(h, S) /\ SameSys(h, k) /\ k.top = h.top /\ IsHeap(k)
    /\ OneRun(S, F \union U, T, G \union V, h.fence, h.top, a, e) /\ G \intersect V = {}
    /\ a \in V /\ e \in DOMAIN S /\ G \subseteq F /\ SameFree(F, G, a, e)
    /\ V \ {a} \subseteq U /\ Outside(V \ {a}, a, e) /\ Outside(G, a, e)
    /\ BinsOk(k.bin, k.marked, S, G) /\ InnerWords(h, k, a, e)

RegionFacts(h, k, S, F, U, T, G, a, e) ==
    /\ a \in Nat /\ e \in Nat /\ a \in DOMAIN S /\ a + 16 <= e /\ (e - a) % 8 = 0
    /\ S[e] \in Nat /\ HeadOf(k, a) % 2 = Bit(S, F, a)
    /\ (HeadOf(k, e) \div 2) * 2 + 1 = S[e] + 1
    /\ a \notin G /\ T[a] = e - a

\* What is read of a region.
LEMMA RegionIs ==
    ASSUME NEW h, NEW k, NEW S, NEW F, NEW U, NEW T, NEW G, NEW V, NEW a, NEW e,
           Region(h, k, S, F, U, T, G, V, a, e)
    PROVE  RegionFacts(h, k, S, F, U, T, G, a, e)
<1> DEFINE M == G \union V
<1>1. /\ Layout(h, S, F, U) /\ InnerWords(h, k, a, e) /\ e \in DOMAIN S
      /\ OneRun(S, F \union U, T, M, h.fence, h.top, a, e)
      /\ a \in V /\ G \intersect V = {}
  BY DEF Region
<1>2. a \notin G /\ a \in M BY <1>1
<1> HIDE DEF M
<1>3. Tiled(T, M, h.fence, h.top) /\ a \in F \union U /\ T[a] = e - a BY <1>1 DEF OneRun
<1>4. a \in Nat /\ T[a] \in Nat /\ T[a] >= 16 /\ T[a] % 8 = 0 BY <1>2, <1>3, Sizes
<1>5. a \in DOMAIN S BY <1>1, <1>3, NormalAt
<1>layout. Layout(h, S, F, U) /\ e \in DOMAIN S BY <1>1
<1>6. e \in Nat /\ S[e] \in Nat /\ (HeadOf(h, e) \div 2) * 2 + 1 = S[e] + 1
  BY ONLY <1>layout, ReadAt, ZenonT(60)
<1>7. HeadOf(h, a) % 2 = Bit(S, F, a)
  <2> DEFINE N == F \union U
  <2>1. Tiled(S, N, h.fence, h.top) /\ Encoded(h, S, F) BY <1>layout DEF Layout
  <2> HIDE DEF N
  <2>2. /\ chunksize(h, a) = S[a]
        /\ prev_inuse(h, a) <=> ~FreeBefore(S, F, a)
        /\ HeadOf(h, a) % 2 = Bit(S, F, a)
        /\ (HeadOf(h, a) \div 2) * 2 + 1 = S[a] + 1
        /\ Bit(S, F, a) \in {0, 1}
    BY ONLY <2>1, <1>5, ReadHead
  <2> QED BY <2>2
<1>8. HeadOf(k, a) = HeadOf(h, a) /\ HeadOf(k, e) = HeadOf(h, e)
  <2>1. a + 4 \in Nat /\ a + 4 < a + 8 /\ e + 4 \in Nat /\ e + 4 >= e + 4 BY <1>4, <1>6
  <2> QED BY <2>1, <1>1 DEF InnerWords, HeadOf, SIZE_SZ
<1>9. a + 16 <= e /\ (e - a) % 8 = 0 BY <1>3, <1>4, <1>6
<1> QED BY <1>2, <1>3, <1>4, <1>5, <1>6, <1>7, <1>8, <1>9 DEF RegionFacts

\* The words of k after its region is made one chunk in use.
OneUsedWords(k, g, S, F, a, e) ==
    \A x : Word(g, x) = IF x = e + 4 THEN S[e] + 1
                        ELSE IF x = a + 4 THEN (e - a) + Bit(S, F, a) ELSE Word(k, x)
\* ... or two.
TwoUsedWords(k, g, S, F, a, r, e) ==
    \A x : Word(g, x) = IF x = e + 4 THEN S[e] + 1
                        ELSE IF x = r + 4 THEN (e - r) + 1
                        ELSE IF x = a + 4 THEN (r - a) + Bit(S, F, a) ELSE Word(k, x)

\* The data words of n bytes of chunk a.
SameBlock(k, g, a, n) == \A x \in Nat : a + 8 <= x /\ x < a + n + 4 => Word(g, x) = Word(k, x)

\* The blocks of programs in V, but a, are kept, and a has nb bytes.
UsedAt(h, k, g, S, V, a, nb, T, G) ==
    /\ HeapAt(g, T, G, V) /\ Kept(h, g, S, T, V \ {a}) /\ T[a] >= nb
    /\ SameBlock(k, g, a, nb)
Used(h, k, g, S, V, a, nb) == \E T, G : UsedAt(h, k, g, S, V, a, nb, T, G)

\* The free chunks outside it.
LEMMA RegionSizes ==
    ASSUME NEW h, NEW k, NEW S, NEW F, NEW U, NEW T, NEW G, NEW V, NEW a, NEW e,
           Region(h, k, S, F, U, T, G, V, a, e)
    PROVE  \A c \in G : T[c] = S[c] /\ c # a
<1> TAKE c \in G
<1>1. /\ Layout(h, S, F, U) /\ OneRun(S, F \union U, T, G \union V, h.fence, h.top, a, e)
      /\ c \in F /\ Outside(G, a, e)
  BY DEF Region
<1>2. c \in F \union U /\ c \in DOMAIN S BY <1>1, NormalAt
<1>3. c < a \/ c >= e BY <1>1 DEF Outside
<1>4. T[c] = S[c] BY <1>1, <1>2, <1>3 DEF OneRun, SameOutside
<1>5. a \notin G BY RegionIs DEF RegionFacts
<1> QED BY <1>4, <1>5

\* A region becomes one chunk in use.
LEMMA OneUsed ==
    ASSUME NEW h, NEW k, NEW g, NEW S, NEW F, NEW U, NEW T, NEW G, NEW V, NEW a, NEW e,
           NEW nb \in Nat,
           Region(h, k, S, F, U, T, G, V, a, e), Wrote(k, g), OneUsedWords(k, g, S, F, a, e),
           e - a >= nb
    PROVE  Used(h, k, g, S, V, a, nb)
<1>1. /\ a \in Nat /\ e \in Nat /\ a \in DOMAIN S /\ a + 16 <= e
      /\ S[e] \in Nat /\ a \notin G /\ T[a] = e - a
  BY RegionIs DEF RegionFacts
<1>2. /\ Layout(h, S, F, U) /\ SysOk(h, S) /\ SameSys(h, k) /\ k.top = h.top /\ IsHeap(k)
      /\ OneRun(S, F \union U, T, G \union V, h.fence, h.top, a, e) /\ G \intersect V = {}
      /\ a \in V /\ e \in DOMAIN S /\ G \subseteq F /\ SameFree(F, G, a, e)
      /\ V \ {a} \subseteq U /\ Outside(V \ {a}, a, e) /\ Outside(G, a, e)
      /\ BinsOk(k.bin, k.marked, S, G) /\ InnerWords(h, k, a, e)
  BY DEF Region
<1>3. IsHeap(g) /\ SameSys(k, g) /\ g.top = k.top /\ g.bin = k.bin /\ g.marked = k.marked
  BY DEF Wrote
<1>4. OneChange(h, g, S, F, U, T, G, V, a, e)
  <2>1. SameSys(h, g) /\ g.top = h.top BY <1>2, <1>3 DEF SameSys
  <2>2. LocalWords(h, g, a, e)
    <3>1. \A x \in Nat : x < a + 4 \/ x > e + 4 =>
             /\ x # e + 4 /\ x # a + 4 /\ (x < a + 8 \/ x >= e + 4)
      BY <1>1
    <3> QED BY <3>1, <1>2 DEF LocalWords, InnerWords, OneUsedWords
  <2>3. OneHeads(g, S, F, a, e, a \in G)
    <3>1. HeadOf(g, e) = S[e] + 1 BY DEF OneUsedWords, HeadOf, SIZE_SZ
    <3>2. a + 4 # e + 4 BY <1>1
    <3>3. HeadOf(g, a) = (e - a) + Bit(S, F, a) BY <3>2 DEF OneUsedWords, HeadOf, SIZE_SZ
    <3> QED BY <3>1, <3>3, <1>1 DEF OneHeads
  <2> QED BY <2>1, <2>2, <2>3, <1>1, <1>2 DEF OneChange
<1>5. Layout(g, T, G, V) /\ SysOk(g, T) /\ Kept(h, g, S, T, V \ {a})
  <2>1. V \ {a} \subseteq F \union U BY <1>2
  <2>2. Outside(V \ {a}, a, e) BY <1>2
  <2> QED BY ONLY <2>1, <2>2, <1>4, OneLayout
<1>6. BinsOk(g.bin, g.marked, T, G)
  <2>1. \A c \in G : T[c] = S[c] BY RegionSizes
  <2>2. \A c \in G : In(OfBin(g.bin, 1), c) \/ T[c] = S[c] BY <2>1
  <2>3. BinsOk(g.bin, g.marked, S, G) BY <1>2, <1>3
  <2> QED BY ONLY <2>2, <2>3, BinsSizes
<1>7. HeapAt(g, T, G, V) BY <1>3, <1>5, <1>6 DEF HeapAt
<1>8. SameBlock(k, g, a, nb)
  <2>1. \A x \in Nat : a + 8 <= x /\ x < a + nb + 4 => x # e + 4 /\ x # a + 4 BY <1>1
  <2> QED BY <2>1 DEF SameBlock, OneUsedWords
<1>9. UsedAt(h, k, g, S, V, a, nb, T, G) BY <1>1, <1>5, <1>7, <1>8 DEF UsedAt
<1> QED BY <1>9 DEF Used

\* Two chunks of a region, both in use.
TwoUsedAt(h, k, g, S, V, a, r, e, T, G) ==
    /\ HeapAt(g, T, G, V \union {r}) /\ Kept(h, g, S, T, V \ {a})
    /\ T[a] = r - a /\ T[r] = e - r /\ r \notin V /\ SameBlock(k, g, a, r - a)
TwoUsedIn(h, k, g, S, V, a, r, e) == \E T, G : TwoUsedAt(h, k, g, S, V, a, r, e, T, G)
\* Where a region may be cut.
CutsAt(a, r, e) == r \in Nat /\ r - a >= 16 /\ e - r >= 16 /\ (r - a) % 8 = 0

\* A region becomes two chunks in use.
LEMMA TwoUsed ==
    ASSUME NEW h, NEW k, NEW g, NEW S, NEW F, NEW U, NEW T, NEW G, NEW V, NEW a, NEW r, NEW e,
           Region(h, k, S, F, U, T, G, V, a, e), Wrote(k, g), CutsAt(a, r, e),
           TwoUsedWords(k, g, S, F, a, r, e)
    PROVE  TwoUsedIn(h, k, g, S, V, a, r, e)
<1> DEFINE n == r - a
           P == CutS(T, a, n)
           W == V \union {r}
<1>1. /\ a \in Nat /\ e \in Nat /\ a \in DOMAIN S /\ a + 16 <= e
      /\ S[e] \in Nat /\ a \notin G /\ T[a] = e - a
  BY RegionIs DEF RegionFacts
<1>2. /\ Layout(h, S, F, U) /\ SysOk(h, S) /\ SameSys(h, k) /\ k.top = h.top /\ IsHeap(k)
      /\ OneRun(S, F \union U, T, G \union V, h.fence, h.top, a, e) /\ G \intersect V = {}
      /\ a \in V /\ e \in DOMAIN S /\ G \subseteq F /\ SameFree(F, G, a, e)
      /\ V \ {a} \subseteq U /\ Outside(V \ {a}, a, e) /\ Outside(G, a, e)
      /\ BinsOk(k.bin, k.marked, S, G) /\ InnerWords(h, k, a, e)
  BY DEF Region
<1>3. IsHeap(g) /\ SameSys(k, g) /\ g.top = k.top /\ g.bin = k.bin /\ g.marked = k.marked
  BY DEF Wrote
<1>4. /\ r \in Nat /\ n \in Nat /\ n >= 16 /\ n % 8 = 0 /\ e - a - n >= 16 /\ a + n = r
      /\ a < r /\ r < e
  BY <1>1 DEF CutsAt
<1>5. r \notin V /\ r \notin G BY <1>2, <1>4, <1>1 DEF Outside
<1>6. TwoRun(S, F \union U, P, G \union W, h.fence, h.top, a, r, e)
  <2>1. Tiled(S, F \union U, h.fence, h.top) BY <1>2 DEF Layout
  <2>2. (G \union V) \union {a + n} = G \union W BY <1>4
  <2> DEFINE N == F \union U
             M == G \union V
  <2>3. Tiled(S, N, h.fence, h.top) /\ OneRun(S, N, T, M, h.fence, h.top, a, e) BY <2>1, <1>2
  <2> HIDE DEF N, M, n
  <2>4. TwoRun(S, N, CutS(T, a, n), M \union {a + n}, h.fence, h.top, a, a + n, e)
    BY ONLY <2>3, <1>1, <1>4, RunCut
  <2>5. M \union {a + n} = G \union W BY <2>2 DEF M
  <2> QED BY <2>4, <2>5, <1>4 DEF N
<1>7. \A c \in G : P[c] = S[c]
  <2> TAKE c \in G
  <2>1. T[c] = S[c] /\ c # a BY RegionSizes
  <2>2. c \in F \union U /\ c \in DOMAIN S BY <1>2, NormalAt
  <2>3. c # r /\ (c < a \/ c >= e) BY <1>2, <1>5 DEF Outside
  <2>4. c \in DOMAIN T BY <2>2, <2>3, <1>2 DEF OneRun, SameOutside
  <2> QED BY <2>1, <2>3, <2>4, <1>4 DEF CutS
<1> HIDE DEF n, P, W
<1>8. TwoChange(h, g, S, F, U, P, G, W, a, r, e)
  <2>1. SameSys(h, g) /\ g.top = h.top BY <1>2, <1>3 DEF SameSys
  <2>2. LocalWords(h, g, a, e)
    <3>1. \A x \in Nat : x < a + 4 \/ x > e + 4 =>
             /\ x # e + 4 /\ x # r + 4 /\ x # a + 4 /\ (x < a + 8 \/ x >= e + 4)
      BY <1>1, <1>4
    <3> QED BY <3>1, <1>2 DEF LocalWords, InnerWords, TwoUsedWords
  <2>3. TwoHeads(g, S, F, a, r, e, r \in G)
    <3>1. HeadOf(g, e) = S[e] + 1 BY DEF TwoUsedWords, HeadOf, SIZE_SZ
    <3>2. a + 4 # e + 4 /\ r + 4 # e + 4 /\ a + 4 # r + 4 BY <1>1, <1>4
    <3>3. HeadOf(g, r) = (e - r) + 1 BY <3>2 DEF TwoUsedWords, HeadOf, SIZE_SZ
    <3>4. HeadOf(g, a) = (r - a) + Bit(S, F, a) BY <3>2 DEF TwoUsedWords, HeadOf, SIZE_SZ
    <3> QED BY <3>1, <3>3, <3>4, <1>5 DEF TwoHeads
  <2>4. G \intersect W = {} BY <1>2, <1>5 DEF W
  <2> QED BY <2>1, <2>2, <2>3, <2>4, <1>1, <1>2, <1>5, <1>6 DEF TwoChange
<1>9. Layout(g, P, G, W) /\ SysOk(g, P) /\ Kept(h, g, S, P, V \ {a}) /\ P[a] = r - a /\ P[r] = e - r
  <2>1. V \ {a} \subseteq F \union U BY <1>2
  <2>2. Outside(V \ {a}, a, e) BY <1>2
  <2> QED BY ONLY <2>1, <2>2, <1>8, TwoLayout
<1>10. BinsOk(g.bin, g.marked, P, G)
  <2>1. \A c \in G : In(OfBin(g.bin, 1), c) \/ P[c] = S[c] BY <1>7
  <2>2. BinsOk(g.bin, g.marked, S, G) BY <1>2, <1>3
  <2> QED BY ONLY <2>1, <2>2, BinsSizes
<1>11. HeapAt(g, P, G, W) BY <1>3, <1>9, <1>10 DEF HeapAt
<1>12. SameBlock(k, g, a, r - a)
  <2>1. \A x \in Nat : a + 8 <= x /\ x < a + (r - a) + 4 => x # e + 4 /\ x # a + 4 /\ x # r + 4
    BY <1>1, <1>4
  <2> QED BY <2>1 DEF SameBlock, TwoUsedWords
<1>13. TwoUsedAt(h, k, g, S, V, a, r, e, P, G)
  BY <1>5, <1>9, <1>11, <1>12 DEF TwoUsedAt, W
<1> QED BY <1>13 DEF TwoUsedIn

-----------------------------------------------------------------------------
(* Cutting the tail off a chunk in use.                                     *)

\* A shorter block is the same, too.
LEMMA SameBlockLess ==
    ASSUME NEW k, NEW g, NEW a \in Nat, NEW m \in Nat,
           NEW n \in Nat, SameBlock(k, g, a, m), n <= m
    PROVE  SameBlock(k, g, a, n)
<1>1. \A x \in Nat : x < a + n + 4 => x < a + m + 4 OBVIOUS
<1> QED BY <1>1 DEF SameBlock

\* free() of the second of two chunks keeps the first.
LEMMA FreeSecond ==
    ASSUME NEW h, NEW k, NEW g, NEW S, NEW V, NEW a, NEW r, NEW e,
           TwoUsedIn(h, k, g, S, V, a, r, e), a \in V, a \in Nat, r \in Nat, r > a
    PROVE  Used(h, k, fREe(g, chunk2mem(r)), S, V, a, r - a)
<1> DEFINE f == fREe(g, chunk2mem(r))
           W == V \union {r}
<1>1. PICK T, G : TwoUsedAt(h, k, g, S, V, a, r, e, T, G) BY DEF TwoUsedIn
<1>2. /\ HeapAt(g, T, G, W) /\ Kept(h, g, S, T, V \ {a}) /\ T[a] = r - a /\ r \notin V
      /\ SameBlock(k, g, a, r - a)
  BY <1>1 DEF TwoUsedAt
<1>3. r \in W /\ W \ {r} = V BY <1>2
<1> HIDE DEF f, W
<1>4. After(g, f, T, W \ {r}, W \ {r}) BY <1>2, <1>3, FreeKeeps DEF f
<1>5. PICK P, H : HeapAt(f, P, H, V) /\ Kept(g, f, T, P, V) BY <1>3, <1>4 DEF After
<1>6. Kept(h, f, S, P, V \ {a})
  <2>1. Kept(h, f, S, P, (V \ {a}) \intersect V) BY <1>2, <1>5, KeptTrans
  <2>2. (V \ {a}) \intersect V = V \ {a} OBVIOUS
  <2> QED BY <2>1, <2>2
<1>7. /\ P[a] = T[a]
      /\ \A x \in Nat : a + 8 <= x /\ x < a + T[a] + 4 => Word(f, x) = Word(g, x)
  BY <1>5 DEF Kept
<1>8. SameBlock(k, f, a, r - a)
  <2>1. SameBlock(g, f, a, r - a) BY <1>2, <1>7 DEF SameBlock
  <2> QED BY <2>1, <1>2 DEF SameBlock
<1>9. r - a \in Nat /\ P[a] >= r - a BY <1>2, <1>7
<1>10. UsedAt(h, k, f, S, V, a, r - a, P, H) BY <1>5, <1>6, <1>8, <1>9 DEF UsedAt
<1> QED BY <1>10 DEF Used, f

\* realloc() returns a, cut to nb bytes if a chunk is left over.
Resized(h, k, r, S, V, a, nb) == r.mem = chunk2mem(a) /\ Used(h, k, r.h, S, V, a, nb)

\* The end of realloc(): the tail is freed if it is a chunk.
LEMMA SplitReallocAt ==
    ASSUME NEW h, NEW k, NEW S, NEW F, NEW U, NEW T, NEW G, NEW V, NEW a, NEW e, NEW nb,
           NEW size,
           Region(h, k, S, F, U, T, G, V, a, e), Size8(nb), size = e - a, size >= nb
    PROVE  Resized(h, k, SplitRealloc(k, a, size, nb), S, V, a, nb)
<1> DEFINE r == a + nb
<1>1. /\ a \in Nat /\ e \in Nat /\ a \in DOMAIN S /\ a + 16 <= e
      /\ S[e] \in Nat /\ HeadOf(k, a) % 2 = Bit(S, F, a)
      /\ (HeadOf(k, e) \div 2) * 2 + 1 = S[e] + 1
  BY RegionIs DEF RegionFacts
<1>2. nb \in Nat /\ nb >= 16 /\ nb % 8 = 0 BY DEF Size8
<1>3. IsHeap(k) /\ a \in V BY DEF Region
<1>4. a + size = e /\ size \in Nat BY <1>1
<1>5. CASE size - nb >= MINSIZE
  <2> DEFINE k1 == set_head_size(k, a, nb)
             k2 == set_head(k1, r, size - nb)
             g == set_inuse_bit(k2, a + size)
  <2>1. SplitRealloc(k, a, size, nb) = Found(fREe(g, chunk2mem(r)), a) BY <1>5 DEF SplitRealloc
  <2>2. Wrote(k, k1) /\ \A x : Word(k1, x) = IF x = a + 4 THEN nb + (HeadOf(k, a) % 2) ELSE Word(k, x)
    BY <1>3, SetHeadSizeIs
  <2> HIDE DEF k1
  <2>3. Wrote(k1, k2) /\ \A x : Word(k2, x) = IF x = r + 4 THEN (size - nb) + 1 ELSE Word(k1, x)
    <3>1. IsHeap(k1) BY <2>2 DEF Wrote
    <3> QED BY <3>1, SetHeadIs
  <2> HIDE DEF k2
  <2>4. Wrote(k2, g) /\ \A x : Word(g, x) =
                          IF x = e + 4 THEN (HeadOf(k2, e) \div 2) * 2 + 1 ELSE Word(k2, x)
    <3>1. IsHeap(k2) BY <2>3 DEF Wrote
    <3>2. a + size = e BY <1>4
    <3> QED BY <3>1, <3>2, SetInuseIs
  <2> HIDE DEF g
  <2>5. r \in Nat /\ r - a = nb /\ e - r = size - nb /\ e - r >= 16 /\ r > a
    BY <1>1, <1>2, <1>4, <1>5 DEF MINSIZE
  <2>6. HeadOf(k2, e) = HeadOf(k, e)
    <3>1. e + 4 # r + 4 /\ e + 4 # a + 4 BY <2>5, <1>1
    <3>2. Word(k2, e + 4) = Word(k1, e + 4) BY <3>1, <2>3
    <3>3. Word(k1, e + 4) = Word(k, e + 4) BY <3>1, <2>2
    <3> QED BY <3>2, <3>3 DEF HeadOf, SIZE_SZ
  <2> HIDE DEF r
  <2>7. TwoUsedWords(k, g, S, F, a, r, e)
    <3>1. \A x : Word(g, x) = IF x = e + 4 THEN S[e] + 1 ELSE Word(k2, x)
      BY <2>4, <2>6, <1>1
    <3>2. \A x : Word(k2, x) = IF x = r + 4 THEN (e - r) + 1 ELSE Word(k1, x) BY <2>3, <2>5
    <3>3. \A x : Word(k1, x) = IF x = a + 4 THEN (r - a) + Bit(S, F, a) ELSE Word(k, x)
      BY <2>2, <2>5, <1>1
    <3> QED BY ONLY <3>1, <3>2, <3>3 DEF TwoUsedWords
  <2>8. Wrote(k, g) BY <2>2, <2>3, <2>4, WroteTrans
  <2>9. CutsAt(a, r, e) BY <2>5, <1>2 DEF CutsAt
  <2>10. TwoUsedIn(h, k, g, S, V, a, r, e) BY <2>7, <2>8, <2>9, TwoUsed
  <2>11. Used(h, k, fREe(g, chunk2mem(r)), S, V, a, r - a) BY <2>5, <2>10, <1>1, <1>3, FreeSecond
  <2> QED BY <2>1, <2>5, <2>11 DEF Resized, Found
<1>6. CASE ~(size - nb >= MINSIZE)
  <2> DEFINE k1 == set_head_size(k, a, size)
             g == set_inuse_bit(k1, a + size)
  <2>1. SplitRealloc(k, a, size, nb) = Found(g, a) BY <1>6 DEF SplitRealloc
  <2>2. Wrote(k, k1) /\ \A x : Word(k1, x) = IF x = a + 4 THEN size + (HeadOf(k, a) % 2) ELSE Word(k, x)
    BY <1>3, SetHeadSizeIs
  <2> HIDE DEF k1
  <2>3. Wrote(k1, g) /\ \A x : Word(g, x) =
                          IF x = e + 4 THEN (HeadOf(k1, e) \div 2) * 2 + 1 ELSE Word(k1, x)
    <3>1. IsHeap(k1) BY <2>2 DEF Wrote
    <3>2. a + size = e BY <1>4
    <3> QED BY <3>1, <3>2, SetInuseIs
  <2> HIDE DEF g
  <2>4. HeadOf(k1, e) = HeadOf(k, e)
    <3>1. e + 4 # a + 4 BY <1>1
    <3>2. Word(k1, e + 4) = Word(k, e + 4) BY <3>1, <2>2
    <3> QED BY <3>2 DEF HeadOf, SIZE_SZ
  <2>5. OneUsedWords(k, g, S, F, a, e)
    <3>1. \A x : Word(g, x) = IF x = e + 4 THEN S[e] + 1 ELSE Word(k1, x)
      BY <2>3, <2>4, <1>1
    <3>2. \A x : Word(k1, x) = IF x = a + 4 THEN (e - a) + Bit(S, F, a) ELSE Word(k, x)
      BY <2>2, <1>1
    <3> QED BY ONLY <3>1, <3>2 DEF OneUsedWords
  <2>6. Wrote(k, g) BY <2>2, <2>3, WroteTrans
  <2>7. e - a >= nb OBVIOUS
  <2>8. Used(h, k, g, S, V, a, nb) BY <2>5, <2>6, <2>7, <1>2, OneUsed
  <2> QED BY <2>1, <2>8 DEF Resized, Found
<1> QED BY <1>5, <1>6

\* A chunk of a program, by itself, is a region.
LEMMA RegionOne ==
    ASSUME NEW h, NEW S, NEW F, NEW U, NEW p \in U, HeapAt(h, S, F, U)
    PROVE  Region(h, h, S, F, U, S, F, U, p, p + S[p])
<1>1. IsHeap(h) /\ Layout(h, S, F, U) /\ SysOk(h, S) /\ BinsOk(h.bin, h.marked, S, F)
  BY DEF HeapAt
<1>2. p \in F \union U OBVIOUS
<1>3. Tiled(S, F \union U, h.fence, h.top) /\ F \intersect U = {} BY <1>1 DEF Layout
<1>4. OneRun(S, F \union U, S, F \union U, h.fence, h.top, p, p + S[p])
  BY ONLY <1>2, <1>3, RunBase
<1>5. /\ p \in Nat /\ p \in DOMAIN S /\ S[p] \in Nat /\ S[p] >= 16 /\ p + S[p] \in DOMAIN S
  BY <1>1, <1>2, NormalAt
<1>6. \A c \in F \union U : c = p \/ c < p \/ c >= p + S[p]
  <2> TAKE c \in F \union U
  <2>1. c \in DOMAIN S /\ c \in Nat BY <1>1, NormalAt
  <2>2. p <= c /\ c < p + S[p] => c = p BY <2>1, <1>1, <1>5, NoneInside
  <2> QED BY <2>1, <2>2, <1>5
<1>7. p \notin F BY <1>3
<1>8. Outside(U \ {p}, p, p + S[p]) /\ Outside(F, p, p + S[p]) BY <1>6, <1>7 DEF Outside
<1>9. InnerWords(h, h, p, p + S[p]) /\ SameSys(h, h) /\ SameFree(F, F, p, p + S[p])
  BY DEF InnerWords, SameSys, SameFree
<1>10. h.top = h.top /\ U \ {p} \subseteq U /\ F \subseteq F OBVIOUS
<1> QED BY <1>1, <1>3, <1>4, <1>5, <1>8, <1>9, <1>10 DEF Region

-----------------------------------------------------------------------------
(* The steps of memalign().                                                 *)

\* The same for a chunk that memalign() found.
LEMMA CutTailAt ==
    ASSUME NEW h, NEW S, NEW F, NEW U, NEW p \in U, NEW nb, HeapAt(h, S, F, U), Size8(nb),
           S[p] >= nb
    PROVE  Resized(h, h, CutTail(h, p, nb), S, U, p, nb)
<1> DEFINE r == p + nb
           e == p + S[p]
           spare == chunksize(h, p) - nb
<1>1. Region(h, h, S, F, U, S, F, U, p, e) BY RegionOne
<1>2. /\ p \in Nat /\ e \in Nat /\ p \in DOMAIN S /\ S[e] \in Nat
      /\ HeadOf(h, p) % 2 = Bit(S, F, p) /\ (HeadOf(h, e) \div 2) * 2 + 1 = S[e] + 1
      /\ S[p] \in Nat
  <2>1. RegionFacts(h, h, S, F, U, S, F, p, e) BY <1>1, RegionIs
  <2>2. Layout(h, S, F, U) /\ p \in F \union U BY DEF HeapAt
  <2>3. S[p] \in Nat BY <2>2, NormalAt
  <2> QED BY <2>1, <2>3 DEF RegionFacts
<1>3. nb \in Nat /\ nb >= 16 /\ nb % 8 = 0 BY DEF Size8
<1>4. IsHeap(h) /\ Layout(h, S, F, U) BY DEF HeapAt
<1>5. chunksize(h, p) = S[p] BY <1>2, <1>4, SizeAt
<1>6. HeadOf(h, e) = S[e] + 1
  <2>1. p \notin F /\ F \subseteq F \union U /\ Tiled(S, F \union U, h.fence, h.top)
    BY <1>4 DEF Layout
  <2>2. ~FreeBefore(S, F, e)
    <3> DEFINE N == F \union U
    <3>1. Tiled(S, N, h.fence, h.top) /\ F \subseteq N BY <2>1
    <3> HIDE DEF N
    <3>2. FreeBefore(S, F, p + S[p]) <=> p \in F BY ONLY <3>1, <1>2, BeforeNext
    <3> QED BY <3>2, <2>1
  <2>3. e \in DOMAIN S BY <1>1 DEF Region
  <2>4. Encoded(h, S, F) BY <1>4 DEF Layout
  <2>5. HeadOf(h, e) = S[e] + Bit(S, F, e) BY <2>3, <2>4 DEF Encoded
  <2> QED BY <2>2, <2>5 DEF Bit
<1>7. CASE spare >= MINSIZE
  <2> DEFINE k1 == set_head(h, r, spare)
             g == set_head_size(k1, p, nb)
  <2>1. CutTail(h, p, nb) = Found(fREe(g, chunk2mem(r)), p) BY <1>7 DEF CutTail
  <2>2. Wrote(h, k1) /\ \A x : Word(k1, x) = IF x = r + 4 THEN spare + 1 ELSE Word(h, x)
    BY <1>4, SetHeadIs
  <2> HIDE DEF k1
  <2>3. Wrote(k1, g) /\ \A x : Word(g, x) = IF x = p + 4 THEN nb + (HeadOf(k1, p) % 2) ELSE Word(k1, x)
    <3>1. IsHeap(k1) BY <2>2 DEF Wrote
    <3> QED BY <3>1, SetHeadSizeIs
  <2> HIDE DEF g
  <2>4. r \in Nat /\ r - p = nb /\ e - r = spare /\ spare >= 16 /\ r > p
    BY <1>2, <1>3, <1>5, <1>7 DEF MINSIZE
  <2> HIDE DEF r, spare, e
  <2>5. HeadOf(k1, p) = HeadOf(h, p)
    <3>1. p + 4 # r + 4 BY <2>4, <1>2
    <3> QED BY <3>1, <2>2 DEF HeadOf, SIZE_SZ
  <2>6. TwoUsedWords(h, g, S, F, p, r, e)
    <3>1. \A x : Word(g, x) = IF x = p + 4 THEN (r - p) + Bit(S, F, p) ELSE Word(k1, x)
      BY <2>3, <2>4, <2>5, <1>2
    <3>2. \A x : Word(k1, x) = IF x = r + 4 THEN (e - r) + 1 ELSE Word(h, x) BY <2>2, <2>4
    <3>3. p + 4 # r + 4 /\ p + 4 # e + 4 /\ r + 4 # e + 4 BY <2>4, <1>2
    <3>4. Word(h, e + 4) = S[e] + 1 BY <1>6 DEF HeadOf, SIZE_SZ
    <3> QED BY ONLY <3>1, <3>2, <3>3, <3>4 DEF TwoUsedWords
  <2>7. Wrote(h, g) BY <2>2, <2>3, WroteTrans
  <2>8. CutsAt(p, r, e) BY <2>4, <1>3 DEF CutsAt
  <2>9. TwoUsedIn(h, h, g, S, U, p, r, e) BY <1>1, <2>6, <2>7, <2>8, TwoUsed
  <2>10. Used(h, h, fREe(g, chunk2mem(r)), S, U, p, r - p) BY <2>4, <2>9, <1>2, FreeSecond
  <2> QED BY <2>1, <2>4, <2>10 DEF Resized, Found
<1>8. CASE ~(spare >= MINSIZE)
  <2>1. CutTail(h, p, nb) = Found(h, p) BY <1>8 DEF CutTail
  <2>2. Kept(h, h, S, S, U \ {p}) BY KeptRefl
  <2>3. SameBlock(h, h, p, nb) BY DEF SameBlock
  <2>4. UsedAt(h, h, h, S, U, p, nb, S, F) BY <2>2, <2>3 DEF UsedAt
  <2> QED BY <2>1, <2>4 DEF Resized, Found, Used
<1> QED BY <1>7, <1>8

\* malloc()'s chunk p, cut to nb bytes.
LEMMA CutGiven ==
    ASSUME NEW h, NEW r, NEW S, NEW U, NEW m, NEW nb, NEW T, NEW G, NEW p,
           GivenAt(h, r, S, U, m, T, G, p), Size8(nb), T[p] >= nb
    PROVE  Given(h, CutTail(r.h, p, nb), S, U, nb)
<1> DEFINE g == r.h
           V == U \union {p}
           c == CutTail(g, p, nb)
<1>1. p \notin U /\ HeapAt(g, T, G, V) /\ Kept(h, g, S, T, U) BY DEF GivenAt
<1>2. p \in V /\ V \ {p} = U BY <1>1
<1> HIDE DEF g, V
<1>3. Resized(g, g, c, T, V, p, nb) BY <1>1, <1>2, CutTailAt
<1> HIDE DEF c
<1>4. PICK P, H : UsedAt(g, g, c.h, T, V, p, nb, P, H) BY <1>3 DEF Resized, Used
<1>5. HeapAt(c.h, P, H, V) /\ Kept(g, c.h, T, P, U) /\ P[p] >= nb BY <1>2, <1>4 DEF UsedAt
<1>6. Kept(h, c.h, S, P, U \intersect U) BY <1>1, <1>5, KeptTrans
<1>7. U \intersect U = U OBVIOUS
<1>8. c.mem = chunk2mem(p) BY <1>3 DEF Resized
<1>9. GivenAt(h, c, S, U, nb, P, H, p) BY <1>1, <1>5, <1>6, <1>7, <1>8 DEF GivenAt, V
<1> QED BY <1>9 DEF Given, c, g

\* memalign() frees what is before the aligned chunk.
Lead(g, p, new, size) ==
    set_head_size(set_inuse_bit(set_head(g, new, size), new + size), p, new - p)

\* memalign() makes two chunks in use of one.
LEMMA LeadAt ==
    ASSUME NEW h, NEW S, NEW F, NEW U, NEW p \in U, NEW new, NEW size, HeapAt(h, S, F, U),
           CutsAt(p, new, p + S[p]), size = S[p] - (new - p)
    PROVE  TwoUsedIn(h, h, Lead(h, p, new, size), S, U, p, new, p + S[p])
<1> DEFINE e == p + S[p]
           k1 == set_head(h, new, size)
           k2 == set_inuse_bit(k1, new + size)
           g == set_head_size(k2, p, new - p)
<1>1. Region(h, h, S, F, U, S, F, U, p, e) BY RegionOne
<1>2. /\ p \in Nat /\ e \in Nat /\ p \in DOMAIN S /\ S[e] \in Nat
      /\ HeadOf(h, p) % 2 = Bit(S, F, p) /\ (HeadOf(h, e) \div 2) * 2 + 1 = S[e] + 1
      /\ S[p] \in Nat
  <2>1. RegionFacts(h, h, S, F, U, S, F, p, e) BY <1>1, RegionIs
  <2>2. Layout(h, S, F, U) /\ p \in F \union U BY DEF HeapAt
  <2>3. S[p] \in Nat BY <2>2, NormalAt
  <2> QED BY <2>1, <2>3 DEF RegionFacts
<1>3. IsHeap(h) BY DEF HeapAt
<1>4. new \in Nat /\ new > p /\ new < e /\ size = e - new /\ new + size = e /\ CutsAt(p, new, e)
  BY <1>2 DEF CutsAt
<1>5. Wrote(h, k1) /\ \A x : Word(k1, x) = IF x = new + 4 THEN size + 1 ELSE Word(h, x)
  BY <1>3, SetHeadIs
<1> HIDE DEF k1
<1>6. Wrote(k1, k2) /\ \A x : Word(k2, x) =
                          IF x = e + 4 THEN (HeadOf(k1, e) \div 2) * 2 + 1 ELSE Word(k1, x)
  <2>1. IsHeap(k1) BY <1>5 DEF Wrote
  <2>2. new + size = e BY <1>4
  <2> QED BY <2>1, <2>2, SetInuseIs
<1> HIDE DEF k2
<1>7. Wrote(k2, g) /\ \A x : Word(g, x) = IF x = p + 4 THEN (new - p) + (HeadOf(k2, p) % 2) ELSE Word(k2, x)
  <2>1. IsHeap(k2) BY <1>6 DEF Wrote
  <2> QED BY <2>1, SetHeadSizeIs
<1>8. g = Lead(h, p, new, size) BY DEF Lead, k1, k2
<1> HIDE DEF g, e
<1>9. p + 4 # new + 4 /\ p + 4 # e + 4 /\ new + 4 # e + 4 BY <1>2, <1>4
<1>10. HeadOf(k1, e) = HeadOf(h, e) /\ HeadOf(k2, p) = HeadOf(h, p)
  BY <1>9, <1>5, <1>6 DEF HeadOf, SIZE_SZ
<1>11. TwoUsedWords(h, g, S, F, p, new, e)
  <2>1. \A x : Word(g, x) = IF x = p + 4 THEN (new - p) + Bit(S, F, p) ELSE Word(k2, x)
    BY <1>7, <1>10, <1>2
  <2>2. \A x : Word(k2, x) = IF x = e + 4 THEN S[e] + 1 ELSE Word(k1, x) BY <1>6, <1>10, <1>2
  <2>3. \A x : Word(k1, x) = IF x = new + 4 THEN (e - new) + 1 ELSE Word(h, x) BY <1>5, <1>4
  <2> QED BY ONLY <2>1, <2>2, <2>3, <1>9 DEF TwoUsedWords
<1>12. Wrote(h, g) BY <1>5, <1>6, <1>7, WroteTrans
<1>13. TwoUsedIn(h, h, g, S, U, p, new, e) BY <1>1, <1>4, <1>11, <1>12, TwoUsed
<1> QED BY <1>8, <1>13 DEF e

\* free() of the first of two chunks keeps the second.
FirstFreed(h, q, S, U, n, new) == \E P, H : GivenAt(h, q, S, U, n, P, H, new) /\ P[new] = n
LeadOf(r, g, q, U, T, p, new, n) ==
    /\ TwoUsedIn(r.h, r.h, g, T, U \union {p}, p, new, new + n)
    /\ q.h = fREe(g, chunk2mem(p)) /\ q.mem = chunk2mem(new)
    /\ n \in Nat /\ new # p /\ new \in Nat

\* It frees the first, and keeps the second.
LEMMA FreeFirst ==
    ASSUME NEW h, NEW r, NEW S, NEW U, NEW m, NEW T, NEW G, NEW p, NEW g, NEW new, NEW q, NEW n,
           GivenAt(h, r, S, U, m, T, G, p), LeadOf(r, g, q, U, T, p, new, n)
    PROVE  FirstFreed(h, q, S, U, n, new)
<1> DEFINE k == r.h
           f == fREe(g, chunk2mem(p))
           V == U \union {p}
           W == V \union {new}
           e == new + n
<1>1. p \notin U /\ HeapAt(k, T, G, V) /\ Kept(h, k, S, T, U) BY DEF GivenAt
<1>2. V \ {p} = U BY <1>1
<1>3. PICK P, H : TwoUsedAt(k, k, g, T, V, p, new, e, P, H) BY DEF TwoUsedIn, LeadOf
<1>4. HeapAt(g, P, H, W) /\ Kept(k, g, T, P, U) /\ P[new] = n /\ new \notin V
  <2>1. e - new = n BY DEF LeadOf
  <2> HIDE DEF e
  <2> QED BY <2>1, <1>2, <1>3 DEF TwoUsedAt
<1>5. p \in W /\ W \ {p} = U \union {new} /\ new \notin U BY <1>1, <1>4
<1> HIDE DEF f, k, V, W
<1>6. After(g, f, P, W \ {p}, W \ {p}) BY <1>4, <1>5, FreeKeeps DEF f
<1>7. PICK Q, J : HeapAt(f, Q, J, U \union {new}) /\ Kept(g, f, P, Q, U \union {new})
  BY <1>5, <1>6 DEF After
<1>8. Kept(h, f, S, Q, U)
  <2>1. Kept(g, f, P, Q, U) BY <1>7, KeptSubset
  <2>2. Kept(h, g, S, P, U \intersect U) BY <1>1, <1>4, KeptTrans
  <2>3. U \intersect U = U OBVIOUS
  <2>4. Kept(h, f, S, Q, U \intersect U) BY <2>1, <2>2, <2>3, KeptTrans
  <2> QED BY <2>3, <2>4
<1>9. Q[new] = n BY <1>4, <1>7 DEF Kept
<1>10. q.h = f /\ q.mem = chunk2mem(new) /\ n \in Nat BY DEF f, LeadOf
<1>11. GivenAt(h, q, S, U, n, Q, J, new) BY <1>5, <1>7, <1>8, <1>9, <1>10 DEF GivenAt
<1> QED BY <1>9, <1>11 DEF FirstFreed

-----------------------------------------------------------------------------
(* memalign(), and the sizes of requests.                                   *)

\* The greater of two numbers.
LEMMA MaxOfTwo ==
    ASSUME NEW a \in Nat, NEW b \in Nat
    PROVE  Max({a, b}) = IF a >= b THEN a ELSE b
<1> DEFINE T == {a, b}
           m == IF a >= b THEN a ELSE b
<1>1. m \in T /\ \A y \in T : m >= y OBVIOUS
<1>2. \A x \in T : (\A y \in T : x >= y) => x = m OBVIOUS
<1> HIDE DEF T, m
<1>3. Max(T) \in T /\ \A y \in T : Max(T) >= y BY <1>1 DEF Max
<1>4. Max(T) = m BY <1>2, <1>3
<1> QED BY <1>4 DEF T, m

\* What memalign() aligns to.
AlignOf(al) == Max({al, MINSIZE})
AlignFits(al) == al \in Nat /\ al > 8 /\ al % 8 = 0
\* Where the aligned block's chunk begins.
SpotOf(p, align) == mem2chunk(RoundUp(chunk2mem(p), align))
NewOf(p, align) ==
    IF SpotOf(p, align) - p < MINSIZE THEN SpotOf(p, align) + align ELSE SpotOf(p, align)

\* Alignments are multiples of 8 and MINSIZE at least.
LEMMA AlignOfIs ==
    ASSUME NEW al, AlignFits(al)
    PROVE  AlignOf(al) \in Nat /\ AlignOf(al) >= 16 /\ AlignOf(al) % 8 = 0
<1>1. al \in Nat /\ al % 8 = 0 BY DEF AlignFits
<1>2. AlignOf(al) = IF al >= 16 THEN al ELSE 16 BY <1>1, MaxOfTwo DEF AlignOf, MINSIZE
<1> QED BY <1>1, <1>2

\* Where the aligned chunk begins: a chunk behind the start, or there.
LEMMA NewOfIs ==
    ASSUME NEW p \in Nat, p % 8 = 0, NEW align \in Nat, align >= 16, align % 8 = 0
    PROVE  /\ NewOf(p, align) \in Nat /\ NewOf(p, align) - p >= 16
           /\ NewOf(p, align) - p < align + 16 /\ (NewOf(p, align) - p) % 8 = 0
<1> DEFINE m == p + 8
           u == RoundUp(m, align)
           spot == u - 8
<1>1. m \in Nat /\ chunk2mem(p) = m BY DEF chunk2mem, SIZE_SZ
<1> HIDE DEF m
<1>2. u \in Nat /\ m <= u /\ u < m + align /\ u % 8 = 0
  <2>1. align > 0 OBVIOUS
  <2> QED BY <1>1, <2>1, RoundUpIs
<1>3. SpotOf(p, align) = spot BY <1>1 DEF SpotOf, mem2chunk, SIZE_SZ
<1> HIDE DEF u
<1>4. m = p + 8 BY DEF m
<1>5. spot \in Nat /\ spot >= p /\ spot < p + align /\ spot % 8 = 0 BY <1>2, <1>4
<1> HIDE DEF spot
<1>6. NewOf(p, align) = IF spot - p < 16 THEN spot + align ELSE spot
  BY <1>3 DEF NewOf, MINSIZE
<1> QED BY <1>5, <1>6

\* The two cases of memalign().
LEMMA AlignInIs ==
    ASSUME NEW r, NEW al, NEW nb, NEW p, AlignFits(al), p \in Nat, r.mem = chunk2mem(p)
    PROVE  LET new == NewOf(p, AlignOf(al))
               size == chunksize(r.h, p) - (new - p)
           IN \/ AlignIn(r, al, nb) = CutTail(r.h, p, nb)
              \/ AlignIn(r, al, nb) =
                    CutTail(fREe(Lead(r.h, p, new, size), chunk2mem(p)), new, nb)
<1> DEFINE new == NewOf(p, AlignOf(al))
           size == chunksize(r.h, p) - (new - p)
           f == fREe(Lead(r.h, p, new, size), chunk2mem(p))
<1>1. mem2chunk(r.mem) = p BY DEF chunk2mem, mem2chunk, SIZE_SZ
<1>2. r.mem # 0 /\ al > MALLOC_ALIGNMENT /\ ~(al <= MALLOC_ALIGNMENT)
  BY DEF chunk2mem, SIZE_SZ, AlignFits, MALLOC_ALIGNMENT
<1>3. AlignIn(r, al, nb) = IF r.mem % AlignOf(al) = 0 THEN CutTail(r.h, p, nb)
                           ELSE CutTail(f, new, nb)
  <2>1. SpotOf(p, AlignOf(al)) = mem2chunk(RoundUp(r.mem, AlignOf(al))) BY DEF SpotOf
  <2>2. new = IF mem2chunk(RoundUp(r.mem, AlignOf(al))) - p < MINSIZE
              THEN mem2chunk(RoundUp(r.mem, AlignOf(al))) + AlignOf(al)
              ELSE mem2chunk(RoundUp(r.mem, AlignOf(al)))
    BY <2>1 DEF NewOf
  <2> HIDE DEF new
  <2> QED BY <1>1, <1>2, <2>2 DEF AlignIn, Lead, AlignOf
<1> QED BY <1>3

\* memalign() gives a chunk of the size asked for out of malloc()'s.
LEMMA AlignAt ==
    ASSUME NEW h, NEW r, NEW S, NEW U, NEW al, NEW nb, NEW m, Given(h, r, S, U, m),
           AlignFits(al), Size8(nb), m \in Nat, m >= nb + AlignOf(al) + 16
    PROVE  Given(h, AlignIn(r, al, nb), S, U, nb)
<1> DEFINE align == AlignOf(al)
<1>1. PICK T, G, p : GivenAt(h, r, S, U, m, T, G, p) BY DEF Given
<1>2. align \in Nat /\ align >= 16 /\ align % 8 = 0 BY AlignOfIs
<1>3. nb \in Nat /\ nb >= 16 /\ nb % 8 = 0 BY DEF Size8
<1> HIDE DEF align
<1>4. /\ r.mem = chunk2mem(p) /\ p \notin U /\ T[p] >= m
      /\ HeapAt(r.h, T, G, U \union {p})
  BY <1>1 DEF GivenAt
<1>5. p \in Nat /\ p % 8 = 0 /\ T[p] \in Nat /\ T[p] % 8 = 0 /\ chunksize(r.h, p) = T[p]
  <2>1. Layout(r.h, T, G, U \union {p}) /\ p \in G \union (U \union {p}) BY <1>4 DEF HeapAt
  <2> QED BY <2>1, NormalAt
<1> DEFINE new == NewOf(p, align)
           size == T[p] - (new - p)
           e == p + T[p]
<1>6. new \in Nat /\ new - p >= 16 /\ new - p < align + 16 /\ (new - p) % 8 = 0
  BY ONLY <1>2, <1>5, NewOfIs
<1> HIDE DEF new
<1>7. size \in Nat /\ size >= nb /\ e - new = size /\ e - new >= 16 /\ new # p /\ T[p] >= nb
  BY <1>2, <1>3, <1>4, <1>5, <1>6 DEF align
<1>8. CASE AlignIn(r, al, nb) = CutTail(r.h, p, nb) BY <1>1, <1>7, <1>8, CutGiven
<1>9. CASE AlignIn(r, al, nb) = CutTail(fREe(Lead(r.h, p, new, size), chunk2mem(p)), new, nb)
  <2> DEFINE g == Lead(r.h, p, new, size)
             q == [h |-> fREe(g, chunk2mem(p)), mem |-> chunk2mem(new)]
  <2>1. TwoUsedIn(r.h, r.h, g, T, U \union {p}, p, new, e)
    <3>1. CutsAt(p, new, e) BY <1>6, <1>7 DEF CutsAt
    <3>2. p \in U \union {p} OBVIOUS
    <3> DEFINE V == U \union {p}
               k == r.h
    <3>3. HeapAt(k, T, G, V) /\ p \in V /\ size = T[p] - (new - p) /\ CutsAt(p, new, p + T[p])
      BY <1>4, <3>1, <3>2
    <3> HIDE DEF V, k, size, e
    <3>4. TwoUsedIn(k, k, Lead(k, p, new, size), T, V, p, new, p + T[p])
      BY ONLY <3>3, LeadAt
    <3> QED BY <3>4 DEF V, k, e
  <2> HIDE DEF g, e, size
  <2>2. FirstFreed(h, q, S, U, size, new)
    <3>1. e = new + size /\ q.h = fREe(g, chunk2mem(p)) /\ q.mem = chunk2mem(new)
      BY <1>5, <1>6, <1>7 DEF e
    <3>2. LeadOf(r, g, q, U, T, p, new, size) BY <2>1, <3>1, <1>6, <1>7 DEF LeadOf
    <3> QED BY ONLY <1>1, <3>2, FreeFirst
  <2>3. PICK P, H : GivenAt(h, q, S, U, size, P, H, new) /\ P[new] = size
    BY <2>2 DEF FirstFreed
  <2>4. q.h = fREe(g, chunk2mem(p)) OBVIOUS
  <2> HIDE DEF q
  <2>5. P[new] >= nb BY <2>3, <1>7
  <2>6. Given(h, CutTail(q.h, new, nb), S, U, nb) BY <2>3, <2>5, CutGiven
  <2> QED BY <2>4, <2>6, <1>9 DEF g
<1>10. \/ AlignIn(r, al, nb) = CutTail(r.h, p, nb)
       \/ AlignIn(r, al, nb) = CutTail(fREe(Lead(r.h, p, new, size), chunk2mem(p)), new, nb)
  BY <1>4, <1>5, AlignInIs DEF new, align
<1> QED BY <1>8, <1>9, <1>10

\* Sizes of requests that do not overflow.
RequestFits(n) == n \in Nat /\ n + 64 < TopBit

\* request2size(): room for the request and a size word, in chunks of 8 bytes.
LEMMA RequestIs ==
    ASSUME NEW n, RequestFits(n), TopBit \in Nat
    PROVE  /\ Size8(request2size(n)) /\ Long(n) \in Nat /\ ~(Long(n) < 0)
           /\ request2size(n) >= n + 4 /\ request2size(n) <= n + 16
           /\ request2size(n) = IF n + 11 < 23 THEN 16 ELSE (n + 11) - ((n + 11) % 8)
<1> DEFINE x == n + 11
<1>1. n \in Nat /\ x \in Nat /\ x < TopBit /\ TopBit > 0 BY DEF RequestFits
<1>2. Long(x) = x /\ Long(n) = n
  <2>1. x < 2 * TopBit /\ n < 2 * TopBit /\ n < TopBit BY <1>1
  <2> QED BY <1>1, <2>1, LongIs
<1>3. request2size(n) = IF x < 23 THEN 16 ELSE (x - (x % 8)) % (2 * TopBit)
  BY <1>1, <1>2 DEF request2size, SIZE_SZ, MALLOC_ALIGNMENT, MINSIZE
<1> DEFINE y == x - (x % 8)
<1>4. y \in Nat /\ y % 8 = 0 /\ y <= x /\ y > x - 8 BY <1>1
<1> HIDE DEF y
<1>5. y % (2 * TopBit) = y
  <2>1. y < 2 * TopBit /\ 2 * TopBit \in Nat /\ 2 * TopBit > 0 BY <1>1, <1>4
  <2> DEFINE d == 2 * TopBit
  <2>2. d \in Nat /\ d > 0 /\ y < d BY <2>1
  <2> HIDE DEF d
  <2>3. y % d = y BY <1>4, <2>2, DivMod
  <2> QED BY <2>3 DEF d
<1>6. request2size(n) = IF x < 23 THEN 16 ELSE y BY <1>3, <1>5 DEF y
<1>7. /\ request2size(n) \in Nat /\ request2size(n) >= 16 /\ request2size(n) % 8 = 0
      /\ request2size(n) >= n + 4 /\ request2size(n) <= n + 16
  <2>1. CASE x < 23 BY <2>1, <1>1, <1>6
  <2>2. CASE ~(x < 23)
    <3>1. y >= 16 BY <2>2, <1>1, <1>4
    <3> QED BY <2>2, <3>1, <1>1, <1>4, <1>6
  <2> QED BY <2>1, <2>2
<1>8. request2size(n) = IF n + 11 < 23 THEN 16 ELSE (n + 11) - ((n + 11) % 8) BY <1>6 DEF y
<1>9. Size8(request2size(n)) BY <1>7 DEF Size8
<1>10. Long(n) \in Nat /\ ~(Long(n) < 0) BY <1>1, <1>2
<1> QED BY <1>7, <1>8, <1>9, <1>10

\* More bytes, a larger chunk.
LEMMA RequestGrows ==
    ASSUME NEW m, NEW n, RequestFits(m), RequestFits(n), TopBit \in Nat, m <= n
    PROVE  request2size(m) <= request2size(n)
<1>1. m \in Nat /\ n \in Nat BY DEF RequestFits
<1>2. /\ request2size(m) = IF m + 11 < 23 THEN 16 ELSE (m + 11) - ((m + 11) % 8)
      /\ request2size(n) = IF n + 11 < 23 THEN 16 ELSE (n + 11) - ((n + 11) % 8)
  BY RequestIs
<1> DEFINE a == request2size(m)
           b == request2size(n)
<1>3. /\ a = IF m + 11 < 23 THEN 16 ELSE (m + 11) - ((m + 11) % 8)
      /\ b = IF n + 11 < 23 THEN 16 ELSE (n + 11) - ((n + 11) % 8)
  BY <1>2
<1> HIDE DEF a, b
<1>4. a <= b BY ONLY <1>1, <1>3, m <= n, SMTT(30)
<1> QED BY <1>4 DEF a, b

-----------------------------------------------------------------------------
(* realloc(): what it merges.                                               *)

\* MALLOC_COPY() copies words, and writes no other.
LEMMA CopyIs ==
    ASSUME NEW h, NEW dest \in Nat, NEW src \in Nat, NEW n \in Int, IsHeap(h)
    PROVE  /\ Wrote(h, MALLOC_COPY(h, dest, src, n))
           /\ \A x : Word(MALLOC_COPY(h, dest, src, n), x) =
                        IF x \in dest .. dest + n - 1 THEN Word(h, x - dest + src)
                        ELSE Word(h, x)
<1> DEFINE range == dest .. dest + n - 1
           to == {a \in range : a - dest + src \in DOMAIN h.mem}
           mem == [a \in (DOMAIN h.mem \ range) \union to |->
                      IF a \in to THEN h.mem[a - dest + src] ELSE h.mem[a]]
           g == [h EXCEPT !.mem = mem]
<1>1. MALLOC_COPY(h, dest, src, n) = g BY DEF MALLOC_COPY
<1>2. \A x : (IF x \in DOMAIN mem THEN mem[x] ELSE 0) =
                IF x \in range THEN Word(h, x - dest + src) ELSE Word(h, x)
  <2> TAKE x
  <2>1. x \in DOMAIN mem <=> (x \in DOMAIN h.mem /\ x \notin range) \/ x \in to OBVIOUS
  <2>2. x \in to <=> x \in range /\ x - dest + src \in DOMAIN h.mem OBVIOUS
  <2>3. x \in DOMAIN mem => mem[x] = IF x \in to THEN h.mem[x - dest + src] ELSE h.mem[x]
    OBVIOUS
  <2> HIDE DEF mem, to, range
  <2> QED BY <2>1, <2>2, <2>3 DEF Word
<1>3. mem = [a \in DOMAIN mem |-> mem[a]] OBVIOUS
<1> HIDE DEF mem
<1>4. /\ g.mem = mem /\ g.bin = h.bin /\ g.marked = h.marked /\ g.top = h.top
      /\ SameSys(h, g) /\ IsHeap(g)
  BY <1>3 DEF IsHeap, SameSys
<1>5. \A x : Word(g, x) = IF x \in range THEN Word(h, x - dest + src) ELSE Word(h, x)
  BY <1>2, <1>4 DEF Word
<1>6. Wrote(h, g) BY <1>4 DEF Wrote
<1> HIDE DEF g
<1> QED BY <1>1, <1>5, <1>6

\* What realloc() makes one chunk of p: k is the heap with its bins and data.
MergedIn(h, k, S, F, U, p, q) ==
    /\ Joins(S, F, p, q) /\ SameSys(h, k) /\ k.top = h.top /\ IsHeap(k)
    /\ BinsOk(k.bin, k.marked, S, F \ {q, p + S[p]})
    /\ InnerWords(h, k, q, EndOf(S, F, p + S[p]))
RegionOf(h, k, S, F, U, V, a, e) == \E T, G : Region(h, k, S, F, U, T, G, V, a, e)

\* realloc()'s chunk and the neighbours it takes are a region.
LEMMA MergeRegion ==
    ASSUME NEW h, NEW k, NEW S, NEW F, NEW U, NEW p \in U, NEW q, HeapAt(h, S, F, U),
           MergedIn(h, k, S, F, U, p, q)
    PROVE  RegionOf(h, k, S, F, U, (U \ {p}) \union {q}, q, EndOf(S, F, p + S[p]))
<1> DEFINE next == p + S[p]
           e == EndOf(S, F, next)
           G == F \ {q, next}
           V == (U \ {p}) \union {q}
<1>1. Layout(h, S, F, U) /\ SysOk(h, S) /\ F \intersect U = {} BY DEF HeapAt, Layout
<1>2. /\ Joins(S, F, p, q) /\ SameSys(h, k) /\ k.top = h.top /\ IsHeap(k)
      /\ BinsOk(k.bin, k.marked, S, G) /\ InnerWords(h, k, q, e)
  BY DEF MergedIn
<1>3. /\ q \in Nat /\ q <= p /\ p < next /\ next <= e /\ e \in DOMAIN S /\ e \in Nat
      /\ \A c \in DOMAIN S : q <= c /\ c < e => c \in {q, p, next}
      /\ next \in F => next # q
  <2>1. next = p + S[p] OBVIOUS
  <2> HIDE DEF next
  <2> QED BY <2>1, <1>1, <1>2, JoinSpan DEF e
<1>4. PICK T : OneRun(S, F \union U, T, ((F \ {next}) \union {q}) \union (U \ {p}), h.fence, h.top, q, e)
  <2>1. next = p + S[p] OBVIOUS
  <2> HIDE DEF next
  <2> QED BY <2>1, <1>1, <1>2, JoinRun DEF e
<1>5. ((F \ {next}) \union {q}) \union (U \ {p}) = G \union V OBVIOUS
<1>6. p \in Nat /\ next \in Nat /\ p \in DOMAIN S
  <2>1. p \in F \union U OBVIOUS
  <2>2. p \in Nat /\ S[p] \in Nat /\ p \in DOMAIN S BY <2>1, <1>1, NormalAt
  <2> QED BY <2>2
<1>7. q \notin U \/ q = p BY <1>1, <1>2 DEF Joins
<1>8. next \notin V \/ next \notin F
  <2>1. next # q \/ next \notin F BY <1>3
  <2> QED BY <2>1, <1>1
<1> HIDE DEF next, e
<1>9. \A c \in F \union U : c # q /\ c # p /\ c # next => c < q \/ c >= e
  <2> TAKE c \in F \union U
  <2>1. c \in DOMAIN S /\ c \in Nat BY <1>1, NormalAt
  <2> QED BY <2>1, <1>3
<1>10. \A c \in F \union U : c = next => c < q \/ c >= e \/ c \in F
  <2> SUFFICES ASSUME next \notin F PROVE next >= e BY <1>3
  <2>1. e = next BY DEF EndOf, e
  <2> QED BY <2>1, <1>6
<1>11. Outside(V \ {q}, q, e)
  <2> SUFFICES ASSUME NEW c \in V \ {q} PROVE c < q \/ c >= e BY DEF Outside
  <2>1. c \in U /\ c # q /\ c # p /\ c \notin F BY <1>1
  <2> QED BY <2>1, <1>9, <1>10
<1>12. Outside(G, q, e)
  <2> SUFFICES ASSUME NEW c \in G PROVE c < q \/ c >= e BY DEF Outside
  <2>1. c \in F /\ c # q /\ c # next /\ c # p BY <1>1
  <2> QED BY <2>1, <1>9
<1>13. SameFree(F, G, q, e)
  <2> SUFFICES ASSUME NEW c, c < q \/ c >= e PROVE c \in F <=> c \in G BY DEF SameFree
  <2>1. c # q BY <1>3, <1>6
  <2>2. c = next => next \notin F
    <3> SUFFICES ASSUME c = next, next \in F PROVE FALSE OBVIOUS
    <3>1. e = next + S[next] BY DEF EndOf, e
    <3>2. next \in F \union U OBVIOUS
    <3>3. S[next] \in Nat /\ S[next] >= 16 BY <3>2, <1>1, NormalAt
    <3> QED BY <3>1, <3>3, <1>3, <1>6
  <2> QED BY <2>1, <2>2
<1>14. G \intersect V = {} BY <1>1
<1>15. q \in V /\ G \subseteq F /\ V \ {q} \subseteq U OBVIOUS
<1>16. Region(h, k, S, F, U, T, G, V, q, e)
  BY <1>1, <1>2, <1>3, <1>4, <1>5, <1>11, <1>12, <1>13, <1>14, <1>15 DEF Region
<1>17. RegionOf(h, k, S, F, U, V, q, e) BY <1>16 DEF RegionOf
<1> QED BY <1>17 DEF e, next

-----------------------------------------------------------------------------
(* realloc() into top, and regions of two chunks in use.                    *)

\* The chunk behind p belongs to a program as well.
LEMMA RegionTwo ==
    ASSUME NEW h, NEW S, NEW F, NEW U, NEW p \in U,
           NEW c \in U, HeapAt(h, S, F, U), c = p + S[p]
    PROVE  RegionOf(h, h, S, F, U, U \ {c}, p, c + S[c])
<1> DEFINE N == F \union U
           V == U \ {c}
           T == JoinS(S, p, c)
           e == c + S[c]
<1>1. IsHeap(h) /\ Layout(h, S, F, U) /\ SysOk(h, S) /\ BinsOk(h.bin, h.marked, S, F)
  BY DEF HeapAt
<1>2. Tiled(S, N, h.fence, h.top) /\ F \intersect U = {} BY <1>1 DEF Layout
<1>3. p \in N /\ c \in N OBVIOUS
<1>4. /\ p \in Nat /\ p \in DOMAIN S /\ S[p] \in Nat /\ S[p] >= 16
      /\ c \in Nat /\ c \in DOMAIN S /\ S[c] \in Nat /\ S[c] >= 16 /\ e \in DOMAIN S
  BY <1>1, <1>3, NormalAt
<1>5. OneRun(S, N, T, N \ {c}, h.fence, h.top, p, e)
  <2> HIDE DEF N
  <2>1. OneRun(S, N, S, N, h.fence, h.top, p, p + S[p]) BY ONLY <1>2, <1>3, RunBase
  <2>2. OneRun(S, N, S, N, h.fence, h.top, p, c) BY <2>1
  <2> QED BY ONLY <2>2, <1>2, <1>3, RunMerge DEF T, e
<1>6. N \ {c} = F \union V BY <1>2
<1>7. \A d \in N : d = p \/ d = c \/ d < p \/ d >= e
  <2> TAKE d \in N
  <2>1. d \in DOMAIN S /\ d \in Nat BY <1>1, NormalAt
  <2>2. p <= d /\ d < p + S[p] => d = p BY <2>1, <1>1, <1>4, NoneInside
  <2>3. c <= d /\ d < c + S[c] => d = c BY <2>1, <1>1, <1>4, NoneInside
  <2> QED BY <2>1, <2>2, <2>3, <1>4
<1>8. Outside(V \ {p}, p, e)
  <2> SUFFICES ASSUME NEW d \in V \ {p} PROVE d < p \/ d >= e BY DEF Outside
  <2> QED BY <1>7
<1>9. Outside(F, p, e)
  <2> SUFFICES ASSUME NEW d \in F PROVE d < p \/ d >= e BY DEF Outside
  <2>1. d # p /\ d # c BY <1>2
  <2> QED BY <2>1, <1>7
<1>10. InnerWords(h, h, p, e) /\ SameSys(h, h) /\ SameFree(F, F, p, e)
  BY DEF InnerWords, SameSys, SameFree
<1>11. F \intersect V = {} /\ p \in V /\ V \ {p} \subseteq U /\ h.top = h.top /\ F \subseteq F
  BY <1>2, <1>4
<1> HIDE DEF V, T, e
<1>12. Region(h, h, S, F, U, T, F, V, p, e)
  BY <1>1, <1>4, <1>5, <1>6, <1>8, <1>9, <1>10, <1>11 DEF Region, N
<1>13. RegionOf(h, h, S, F, U, V, p, e) BY <1>12 DEF RegionOf
<1> QED BY <1>13 DEF V, e

\* The words that growing into top writes.
GrowWords(k, g, S, F, a, r, e) ==
    \A x : Word(g, x) = IF x = a + 4 THEN (r - a) + Bit(S, F, a)
                        ELSE IF x = r + 4 THEN (e - r) + 1 ELSE Word(k, x)
GrownIs(h, k, g, S, F, a, r, e) ==
    /\ IsHeap(g) /\ SameSys(k, g) /\ g.top = r /\ g.bin = k.bin /\ g.marked = k.marked
    /\ GrowWords(k, g, S, F, a, r, e)
    /\ CutsAt(a, r, e) /\ e = h.top + S[h.top]

\* The words realloc() writes when it grows a chunk into top.
LEMMA GrownUsed ==
    ASSUME NEW h, NEW k, NEW g, NEW S, NEW F, NEW U, NEW T, NEW G, NEW V, NEW a, NEW r, NEW e,
           Region(h, k, S, F, U, T, G, V, a, h.top), GrownIs(h, k, g, S, F, a, r, e)
    PROVE  Used(h, k, g, S, V, a, r - a)
<1> DEFINE t == h.top
           n == r - a
           N == F \union U
           M == G \union V
           P == CutS(JoinS(T, a, t), a, n)
<1>1. /\ a \in Nat /\ t \in Nat /\ a \in DOMAIN S /\ a + 16 <= t
      /\ S[t] \in Nat /\ a \notin G /\ T[a] = t - a
  BY RegionIs DEF RegionFacts
<1>2. /\ Layout(h, S, F, U) /\ SysOk(h, S) /\ SameSys(h, k) /\ k.top = h.top /\ IsHeap(k)
      /\ OneRun(S, N, T, M, h.fence, t, a, t) /\ G \intersect V = {}
      /\ a \in V /\ t \in DOMAIN S /\ G \subseteq F /\ SameFree(F, G, a, t)
      /\ V \ {a} \subseteq U /\ Outside(V \ {a}, a, t) /\ Outside(G, a, t)
      /\ BinsOk(k.bin, k.marked, S, G) /\ InnerWords(h, k, a, t)
  BY DEF Region
<1>3. /\ IsHeap(g) /\ SameSys(k, g) /\ g.top = r /\ g.bin = k.bin /\ g.marked = k.marked
      /\ GrowWords(k, g, S, F, a, r, e) /\ CutsAt(a, r, e) /\ e = t + S[t]
  BY DEF GrownIs
<1>4. /\ r \in Nat /\ n \in Nat /\ n >= 16 /\ n % 8 = 0 /\ e \in Nat /\ e - a - n >= 16
      /\ a + n = r /\ a < r /\ r < e
  BY <1>1, <1>3 DEF CutsAt
<1> HIDE DEF t, n, N, M
<1>5. TopTwo(S, N, P, M, h.fence, a, r, e)
  <2>1. Tiled(S, N, h.fence, t) BY <1>2 DEF Layout, N, t
  <2>2. TopRun(S, N, JoinS(T, a, t), M \ {a}, h.fence, a, t + S[t])
    BY ONLY <2>1, <1>2, TopMerge
  <2> DEFINE Q == JoinS(T, a, t)
             K == M \ {a}
  <2>3. TopRun(S, N, Q, K, h.fence, a, e) BY <2>2, <1>3
  <2>4. K \union {a} = M BY <1>2 DEF M
  <2> HIDE DEF Q, K
  <2>5. TopTwo(S, N, CutS(Q, a, n), K \union {a}, h.fence, a, a + n, e)
    BY ONLY <2>3, <1>4, TopCut
  <2> QED BY <2>4, <2>5, <1>4 DEF Q
<1> HIDE DEF P
<1>6. \A c \in (V \ {a}) \union G : c < a
  <2> TAKE c \in (V \ {a}) \union G
  <2>1. c \in F \union U /\ (c < a \/ c >= t) BY <1>2 DEF Outside
  <2>2. c \in Nat /\ S[c] \in Nat /\ S[c] >= 16 /\ c + S[c] <= h.top BY <2>1, <1>2, NormalAt
  <2> QED BY <2>1, <2>2, <1>1 DEF t
<1>7. TopTwoChange(h, g, S, F, U, P, G, V, a, r, e)
  <2>1. g.fence = h.fence BY <1>2, <1>3 DEF SameSys
  <2>2. FreeBelow(F, G, a) BY <1>2 DEF SameFree, FreeBelow
  <2>3. WordsBelow(h, g, a)
    <3>1. \A x \in Nat : x < a + 4 => x # a + 4 /\ x # r + 4 /\ x < a + 8 BY <1>1, <1>4
    <3> QED BY <3>1, <1>2, <1>3 DEF WordsBelow, InnerWords, GrowWords
  <2>4. TopTwoHeads(g, S, F, a, r, e)
    <3>1. HeadOf(g, a) = (r - a) + Bit(S, F, a) BY <1>3 DEF GrowWords, HeadOf, SIZE_SZ
    <3>2. r + 4 # a + 4 BY <1>1, <1>4
    <3>3. HeadOf(g, r) = (e - r) + 1 BY <3>2, <1>3 DEF GrowWords, HeadOf, SIZE_SZ
    <3> QED BY <3>1, <3>3 DEF TopTwoHeads
  <2> QED BY <2>1, <2>2, <2>3, <2>4, <1>1, <1>2, <1>3, <1>5 DEF TopTwoChange, N, M
<1>8. /\ Layout(g, P, G, V) /\ Kept(h, g, S, P, V \ {a}) /\ P[a] = r - a /\ P[r] = e - r
  <2>1. V \ {a} \subseteq F \union U BY <1>2
  <2>2. Below(V \ {a}, a) BY <1>6 DEF Below
  <2> QED BY ONLY <2>1, <2>2, <1>1, <1>7, TopTwoLayout
<1>9. SysOk(g, P)
  <2>1. SameSys(h, g) BY <1>2, <1>3 DEF SameSys
  <2>2. r + P[r] = e BY <1>4, <1>8
  <2>3. t # 0 BY <1>1
  <2>4. e <= h.brk /\ h.base # -1 BY <2>3, <1>2, <1>3 DEF SysOk, t
  <2> QED BY <2>1, <2>2, <2>4, <1>2, <1>3 DEF SysOk, SameSys
<1>10. BinsOk(g.bin, g.marked, P, G)
  <2>1. G \subseteq F /\ a \notin G /\ \A c \in G : c < a BY <1>1, <1>2, <1>6
  <2>2. SameBelow(S, F \union U, P, M, a) BY <1>5 DEF TopTwo, N
  <2>3. BinsOk(g.bin, g.marked, S, G) BY <1>2, <1>3
  <2>4. Layout(h, S, F, U) BY <1>2
  <2> QED BY ONLY <2>1, <2>2, <2>3, <2>4, <1>8, SizesBelow
<1>11. HeapAt(g, P, G, V) BY <1>3, <1>8, <1>9, <1>10 DEF HeapAt
<1>12. SameBlock(k, g, a, r - a)
  <2>1. \A x \in Nat : a + 8 <= x /\ x < a + (r - a) + 4 => x # a + 4 /\ x # r + 4
    BY <1>1, <1>4
  <2> QED BY <2>1, <1>3 DEF SameBlock, GrowWords
<1>13. P[a] >= r - a BY <1>8, <1>4, <1>1
<1>14. UsedAt(h, k, g, S, V, a, r - a, P, G) BY <1>8, <1>11, <1>12, <1>13 DEF UsedAt
<1> QED BY <1>14 DEF Used

\* A chunk grown into top.
LEMMA GrowIntoTopAt ==
    ASSUME NEW h, NEW k, NEW S, NEW F, NEW U, NEW V, NEW a, NEW nb, NEW size,
           RegionOf(h, k, S, F, U, V, a, h.top), Size8(nb), size = (h.top - a) + S[h.top],
           size >= nb + MINSIZE
    PROVE  Resized(h, k, GrowIntoTop(k, a, size, nb), S, V, a, nb)
<1> DEFINE r == a + nb
           e == h.top + S[h.top]
           k1 == [k EXCEPT !.top = r]
           k2 == set_head(k1, r, size - nb)
           g == set_head_size(k2, a, nb)
<1>1. PICK T, G : Region(h, k, S, F, U, T, G, V, a, h.top) BY DEF RegionOf
<1>2. /\ a \in Nat /\ h.top \in Nat /\ a \in DOMAIN S /\ a + 16 <= h.top
      /\ S[h.top] \in Nat /\ HeadOf(k, a) % 2 = Bit(S, F, a)
  BY <1>1, RegionIs DEF RegionFacts
<1>3. nb \in Nat /\ nb >= 16 /\ nb % 8 = 0 BY DEF Size8
<1>4. IsHeap(k) BY <1>1 DEF Region
<1>5. r \in Nat /\ r - a = nb /\ size - nb = e - r /\ e - r >= 16 /\ r > a
  BY <1>2, <1>3 DEF MINSIZE
<1>6. /\ IsHeap(k1) /\ SameSys(k, k1) /\ k1.top = r /\ k1.bin = k.bin /\ k1.marked = k.marked
      /\ \A x : Word(k1, x) = Word(k, x)
  BY <1>4, SetTopIs
<1> HIDE DEF k1
<1>7. Wrote(k1, k2) /\ \A x : Word(k2, x) = IF x = r + 4 THEN (size - nb) + 1 ELSE Word(k1, x)
  BY <1>6, SetHeadIs
<1> HIDE DEF k2
<1>8. Wrote(k2, g) /\ \A x : Word(g, x) = IF x = a + 4 THEN nb + (HeadOf(k2, a) % 2) ELSE Word(k2, x)
  <2>1. IsHeap(k2) BY <1>7 DEF Wrote
  <2> QED BY <2>1, SetHeadSizeIs
<1>9. GrowIntoTop(k, a, size, nb) = Found(g, a) BY DEF GrowIntoTop, k1, k2
<1> HIDE DEF g
<1>10. HeadOf(k2, a) = HeadOf(k, a)
  <2>1. a + 4 # r + 4 BY <1>2, <1>5
  <2>2. Word(k2, a + 4) = Word(k, a + 4) BY <2>1, <1>6, <1>7
  <2> QED BY <2>2 DEF HeadOf, SIZE_SZ
<1> HIDE DEF r, e
<1>11. GrowWords(k, g, S, F, a, r, e)
  <2>1. \A x : Word(g, x) = IF x = a + 4 THEN (r - a) + Bit(S, F, a) ELSE Word(k2, x)
    BY <1>8, <1>10, <1>2, <1>5
  <2>2. \A x : Word(k2, x) = IF x = r + 4 THEN (e - r) + 1 ELSE Word(k, x) BY <1>5, <1>6, <1>7
  <2> QED BY ONLY <2>1, <2>2 DEF GrowWords
<1>12. GrownIs(h, k, g, S, F, a, r, e)
  <2>1. /\ IsHeap(g) /\ SameSys(k, g) /\ g.top = r /\ g.bin = k.bin /\ g.marked = k.marked
    BY <1>6, <1>7, <1>8 DEF Wrote, SameSys
  <2>2. CutsAt(a, r, e) BY <1>3, <1>5 DEF CutsAt
  <2> QED BY <2>1, <2>2, <1>11 DEF GrownIs, e
<1>13. Used(h, k, g, S, V, a, r - a) BY <1>1, <1>12, GrownUsed
<1> QED BY <1>5, <1>9, <1>13 DEF Resized, Found

-----------------------------------------------------------------------------
(* realloc(): where it finds room.                                          *)

\* The data of q in g are those of p in h, as far as both reach.
SameData(h, g, p, q, m, n) ==
    \A d \in Nat : d + 4 < m /\ d + 4 < n => Word(g, q + 8 + d) = Word(h, p + 8 + d)
\* realloc() made p a chunk q of nb bytes, with its data.
MovedAt(h, r, S, U, p, nb, T, G, q) ==
    /\ r.mem = chunk2mem(q) /\ q \notin U \ {p}
    /\ HeapAt(r.h, T, G, (U \ {p}) \union {q}) /\ Kept(h, r.h, S, T, U \ {p})
    /\ T[q] >= nb /\ SameData(h, r.h, p, q, S[p], nb)
Moved(h, r, S, U, p, nb) == \E T, G, q : MovedAt(h, r, S, U, p, nb, T, G, q)

\* The data of p are those of a, m bytes of them.
Carried(h, k, p, a, m) == \A d \in Nat : d + 4 < m => Word(k, a + 8 + d) = Word(h, p + 8 + d)

\* A chunk whose data were carried along is moved.
LEMMA ResizedMoved ==
    ASSUME NEW h, NEW k, NEW r, NEW S, NEW U, NEW p \in U, NEW a, NEW nb,
           Resized(h, k, r, S, (U \ {p}) \union {a}, a, nb), a \notin U \ {p}, a \in Nat, nb \in Nat,
           Carried(h, k, p, a, S[p])
    PROVE  Moved(h, r, S, U, p, nb)
<1> DEFINE V == (U \ {p}) \union {a}
<1>1. V \ {a} = U \ {p} OBVIOUS
<1>2. r.mem = chunk2mem(a) /\ Used(h, k, r.h, S, V, a, nb) BY DEF Resized
<1> HIDE DEF V
<1>3. PICK T, G : UsedAt(h, k, r.h, S, V, a, nb, T, G) BY <1>2 DEF Used
<1>4. HeapAt(r.h, T, G, V) /\ Kept(h, r.h, S, T, U \ {p}) /\ T[a] >= nb /\ SameBlock(k, r.h, a, nb)
  BY <1>1, <1>3 DEF UsedAt
<1>5. SameData(h, r.h, p, a, S[p], nb)
  <2> SUFFICES ASSUME NEW d \in Nat, d + 4 < S[p], d + 4 < nb
               PROVE  Word(r.h, a + 8 + d) = Word(h, p + 8 + d)
    BY DEF SameData
  <2> DEFINE x == a + 8 + d
  <2>1. x \in Nat /\ a + 8 <= x /\ x < a + nb + 4 OBVIOUS
  <2>2. Word(k, x) = Word(h, p + 8 + d) BY DEF Carried
  <2> HIDE DEF x
  <2>3. Word(r.h, x) = Word(k, x) BY <2>1, <1>4 DEF SameBlock
  <2> QED BY <2>2, <2>3 DEF x
<1>6. MovedAt(h, r, S, U, p, nb, T, G, a) BY <1>2, <1>4, <1>5 DEF MovedAt, V
<1> QED BY <1>6 DEF Moved

\* A region cut to the size asked for.
LEMMA SplitRegionAt ==
    ASSUME NEW h, NEW k, NEW S, NEW F, NEW U, NEW V, NEW a, NEW e, NEW nb, NEW size,
           RegionOf(h, k, S, F, U, V, a, e), Size8(nb), size = e - a, size >= nb
    PROVE  Resized(h, k, SplitRealloc(k, a, size, nb), S, V, a, nb)
<1>1. PICK T, G : Region(h, k, S, F, U, T, G, V, a, e) BY DEF RegionOf
<1> QED BY <1>1, SplitReallocAt

\* The free chunk q and its data area take the data of p.
Shifted(k, p, q, size) == MALLOC_COPY(unlink(k, q), chunk2mem(q), chunk2mem(p), size - SIZE_SZ)

\* What realloc() does, by where it finds room.
Elsewhere(h, R, S, p, nb, bytes) ==
    S[p] < nb /\ R = ReallocElsewhere(mALLOc(h, bytes), chunk2mem(p), S[p], bytes)
InPlace(h, R, S, p, nb) == S[p] >= nb /\ R = SplitRealloc(h, p, S[p], nb)
AheadTop(h, R, S, p, nb) ==
    /\ p + S[p] = h.top /\ S[p] + S[h.top] >= nb + MINSIZE
    /\ R = GrowIntoTop(h, p, S[p] + S[h.top], nb)
AheadFree(h, R, S, F, p, nb) ==
    /\ p + S[p] \in F /\ S[p] + S[p + S[p]] >= nb
    /\ R = SplitRealloc(unlink(h, p + S[p]), p, S[p] + S[p + S[p]], nb)
BothTop(h, R, S, F, p, nb, q) ==
    /\ q \in F /\ q + S[q] = p /\ p + S[p] = h.top
    /\ S[q] + S[p] + S[h.top] >= nb + MINSIZE
    /\ R = GrowIntoTop(Shifted(h, p, q, S[p]), q, S[q] + S[p] + S[h.top], nb)
BothFree(h, R, S, F, p, nb, q) ==
    /\ q \in F /\ q + S[q] = p /\ p + S[p] \in F
    /\ S[q] + S[p] + S[p + S[p]] >= nb
    /\ R = SplitRealloc(Shifted(unlink(h, p + S[p]), p, q, S[p]), q, S[q] + S[p] + S[p + S[p]], nb)
Behind(h, R, S, F, p, nb, q) ==
    /\ q \in F /\ q + S[q] = p /\ p + S[p] \notin F
    /\ S[q] + S[p] >= nb
    /\ R = SplitRealloc(Shifted(h, p, q, S[p]), q, S[q] + S[p], nb)

ReallocCase(h, R, S, F, p, nb, bytes) ==
    \/ InPlace(h, R, S, p, nb) \/ Elsewhere(h, R, S, p, nb, bytes)
    \/ AheadTop(h, R, S, p, nb) \/ AheadFree(h, R, S, F, p, nb)
    \/ \E q : \/ BothTop(h, R, S, F, p, nb, q) \/ BothFree(h, R, S, F, p, nb, q)
              \/ Behind(h, R, S, F, p, nb, q)

\* realloc() finds room in one of seven ways.
LEMMA ReallocCases ==
    ASSUME NEW h, NEW S, NEW F, NEW U, NEW p \in U, NEW bytes, HeapAt(h, S, F, U),
           Long(bytes) \in Nat, Size8(request2size(bytes))
    PROVE  ReallocCase(h, rEALLOc(h, chunk2mem(p), bytes), S, F, p, request2size(bytes), bytes)
<1> DEFINE m == chunk2mem(p)
           R == rEALLOc(h, m, bytes)
           nb == request2size(bytes)
           size == chunksize(h, p)
           next == p + size
           atTop == next = h.top
           forward == IF atTop \/ ~inuse(h, next) THEN chunksize(h, next) ELSE 0
           room == IF atTop THEN nb + MINSIZE ELSE nb
           back == IF prev_inuse(h, p) THEN 0 ELSE Word(h, p)
           q == p - back
           nextOff == IF atTop THEN h ELSE unlink(h, next)
           ahead == forward > 0 /\ size + forward >= room
           both == back > 0 /\ forward > 0 /\ back + size + forward >= room
           behind == back > 0 /\ back + size >= nb
           r1 == SplitRealloc(h, p, size, nb)
           r2 == IF atTop THEN GrowIntoTop(nextOff, p, size + forward, nb)
                 ELSE SplitRealloc(nextOff, p, size + forward, nb)
           r3 == IF atTop THEN GrowIntoTop(Shifted(nextOff, p, q, size), q, back + size + forward, nb)
                 ELSE SplitRealloc(Shifted(nextOff, p, q, size), q, back + size + forward, nb)
           r4 == SplitRealloc(Shifted(h, p, q, size), q, back + size, nb)
           r5 == ReallocElsewhere(mALLOc(h, bytes), m, size, bytes)
<1>1. Layout(h, S, F, U) /\ p \in F \union U BY DEF HeapAt
<1>2. /\ p \in Nat /\ p > 0 /\ p \in DOMAIN S /\ S[p] \in Nat /\ S[p] >= 16 /\ size = S[p]
      /\ p + S[p] \in DOMAIN S
  BY <1>1, NormalAt
<1>3. m # 0 /\ mem2chunk(m) = p BY <1>2 DEF chunk2mem, mem2chunk, SIZE_SZ
<1>4. nb \in Nat /\ nb >= 16 BY DEF Size8
<1>5. R = CASE size >= nb -> r1
            [] size < nb /\ ahead -> r2
            [] size < nb /\ ~ahead /\ both -> r3
            [] size < nb /\ ~ahead /\ ~both /\ behind -> r4
            [] OTHER -> r5
  <2>1. ~(Long(bytes) < 0) /\ Long(bytes) >= 0 OBVIOUS
  <2>2. R = CASE Long(bytes) < 0 -> Null(h)
              [] Long(bytes) >= 0 /\ m = 0 -> mALLOc(h, bytes)
              [] Long(bytes) >= 0 /\ m # 0 ->
                   CASE size >= nb -> r1
                     [] size < nb /\ ahead -> r2
                     [] size < nb /\ ~ahead /\ both -> r3
                     [] size < nb /\ ~ahead /\ ~both /\ behind -> r4
                     [] OTHER -> r5
    <3> HIDE DEF m
    <3> QED BY ONLY <1>3 DEF rEALLOc, Shifted
  <2> HIDE DEF R, m, size, ahead, both, behind, r1, r2, r3, r4, r5, nb
  <2> QED BY ONLY <1>3, <2>1, <2>2

<1>6. /\ size >= nb => R = r1
      /\ size < nb /\ ahead => R = r2
      /\ size < nb /\ ~ahead /\ both => R = r3
      /\ size < nb /\ ~ahead /\ ~both /\ behind => R = r4
      /\ size < nb /\ ~ahead /\ ~both /\ ~behind => R = r5
  <2>1. ~(size >= nb /\ size < nb) BY <1>2, <1>4
  <2>2. size >= nb \/ size < nb BY <1>2, <1>4
  <2> HIDE DEF R, m, size, ahead, both, behind, r1, r2, r3, r4, r5, nb
  <2> QED BY ONLY <1>5, <2>1, <2>2
<1>7. next = p + S[p] BY <1>2
<1>8. /\ atTop => S[h.top] \in Nat /\ forward = S[h.top] /\ forward > 0 /\ next \notin F
      /\ ~atTop /\ next \in F => forward = S[next] /\ forward \in Nat /\ forward > 0
      /\ ~atTop /\ next \notin F => forward = 0
  <2>1. atTop => /\ chunksize(h, h.top) = S[h.top] /\ S[h.top] \in Nat /\ S[h.top] > 0
                 /\ h.top \notin F
    <3> SUFFICES ASSUME atTop PROVE /\ chunksize(h, h.top) = S[h.top] /\ S[h.top] \in Nat /\ S[h.top] > 0
                                    /\ h.top \notin F
      OBVIOUS
    <3>1. h.top \in DOMAIN S /\ h.top # 0 BY <1>2, <1>7, <1>1, SizeAt
    <3>2. chunksize(h, h.top) = S[h.top] /\ S[h.top] \in Nat /\ S[h.top] > 0
      BY <3>1, <1>1, SizeAt
    <3>3. h.top \notin F BY <3>1, <1>1, TopIs
    <3> QED BY <3>2, <3>3
  <2>2. next \in DOMAIN S /\ chunksize(h, next) = S[next] /\ S[next] \in Nat /\ S[next] > 0
    <3>1. next \in DOMAIN S BY <1>2, <1>7
    <3> HIDE DEF next
    <3> QED BY <3>1, <1>1, SizeAt
  <2>3. ~atTop => (inuse(h, next) <=> next \notin F) BY <1>1, <1>7, NextInuse
  <2> HIDE DEF next
  <2> QED BY <2>1, <2>2, <2>3
<1>9. /\ back # 0 => q \in F /\ q + S[q] = p /\ back = S[q] /\ back \in Nat
      /\ back \in Nat
  <2>1. CASE prev_inuse(h, p) BY <2>1
  <2>2. CASE ~prev_inuse(h, p)
    <3>1. /\ p - Word(h, p) \in F /\ p - Word(h, p) + Word(h, p) = p
          /\ Word(h, p) = S[p - Word(h, p)] /\ Word(h, p) \in Nat
      BY <2>2, <1>1, <1>2, BackIs, ZenonT(40)
    <3>2. back = Word(h, p) BY <2>2
    <3> HIDE DEF back
    <3> QED BY <3>1, <3>2
  <2> QED BY <2>1, <2>2
<1> HIDE DEF R, size, next, back, q, m
<1>10. CASE size >= nb
  <2>1. R = SplitRealloc(h, p, S[p], nb) BY <1>6, <1>10, <1>2
  <2>2. InPlace(h, R, S, p, nb) BY <2>1, <1>10, <1>2 DEF InPlace
  <2> QED BY <2>2 DEF ReallocCase, R, m
<1>11. CASE size < nb /\ ahead
  <2>1. R = r2 BY <1>6, <1>11
  <2>2. CASE atTop
    <3>1. R = GrowIntoTop(h, p, S[p] + S[h.top], nb) BY <2>1, <2>2, <1>2, <1>8
    <3>2. S[p] + S[h.top] >= nb + MINSIZE BY <2>2, <1>2, <1>8, <1>11
    <3>3. AheadTop(h, R, S, p, nb) BY <3>1, <3>2, <2>2, <1>7 DEF AheadTop
    <3> QED BY <3>3 DEF ReallocCase, R, m
  <2>3. CASE ~atTop
    <3>1. next \in F BY <2>3, <1>8, <1>11
    <3>2. forward = S[next] BY <2>3, <3>1, <1>8
    <3> HIDE DEF forward
    <3>3. R = SplitRealloc(unlink(h, next), p, S[p] + S[next], nb) BY <2>1, <2>3, <3>2, <1>2
    <3>4. S[p] + S[next] >= nb BY <2>3, <3>2, <1>2, <1>11
    <3>5. AheadFree(h, R, S, F, p, nb) BY <3>1, <3>3, <3>4, <1>7 DEF AheadFree
    <3> QED BY <3>5 DEF ReallocCase, R, m
  <2> QED BY <2>2, <2>3
<1>12. CASE size < nb /\ ~ahead /\ both
  <2>1. R = r3 BY <1>6, <1>12
  <2>2. back > 0 /\ back # 0 BY <1>9, <1>12
  <2>3. q \in F /\ q + S[q] = p /\ back = S[q] BY <2>2, <1>9
  <2>4. CASE atTop
    <3>1. R = GrowIntoTop(Shifted(h, p, q, S[p]), q, S[q] + S[p] + S[h.top], nb)
      BY <2>1, <2>3, <2>4, <1>2, <1>8
    <3>2. S[q] + S[p] + S[h.top] >= nb + MINSIZE BY <2>3, <2>4, <1>2, <1>8, <1>12
    <3>3. BothTop(h, R, S, F, p, nb, q) BY <3>1, <3>2, <2>3, <2>4, <1>7 DEF BothTop
    <3> QED BY <3>3 DEF ReallocCase, R, m
  <2>5. CASE ~atTop
    <3>1. next \in F BY <2>5, <1>8, <1>12
    <3>2. forward = S[next] BY <2>5, <3>1, <1>8
    <3> HIDE DEF forward
    <3>3. R = SplitRealloc(Shifted(unlink(h, next), p, q, S[p]), q, S[q] + S[p] + S[next], nb)
      BY <2>1, <2>3, <2>5, <3>2, <1>2
    <3>4. S[q] + S[p] + S[next] >= nb BY <2>3, <2>5, <3>2, <1>2, <1>12
    <3>5. BothFree(h, R, S, F, p, nb, q) BY <2>3, <3>1, <3>3, <3>4, <1>7 DEF BothFree
    <3> QED BY <3>5 DEF ReallocCase, R, m
  <2> QED BY <2>4, <2>5
<1>13. CASE size < nb /\ ~ahead /\ ~both /\ behind
  <2>1. R = r4 BY <1>6, <1>13
  <2>2. back > 0 /\ back # 0 BY <1>9, <1>13
  <2>3. q \in F /\ q + S[q] = p /\ back = S[q] /\ back \in Nat BY <2>2, <1>9
  <2>4. R = SplitRealloc(Shifted(h, p, q, S[p]), q, S[q] + S[p], nb) BY <2>1, <2>3, <1>2
  <2>5. S[q] + S[p] >= nb BY <2>3, <1>2, <1>13
  <2>6. next \notin F
    <3> SUFFICES ASSUME next \in F PROVE FALSE OBVIOUS
    <3>1. ~atTop BY <1>8
    <3>2. forward \in Nat /\ forward > 0 BY <3>1, <1>8
    <3>3. room = nb BY <3>1
    <3> HIDE DEF forward, room
    <3>4. back + size + forward >= room BY <3>2, <3>3, <2>3, <2>5, <1>2, <1>4
    <3> QED BY <3>2, <3>4, <2>2, <1>13
  <2>7. Behind(h, R, S, F, p, nb, q) BY <2>3, <2>4, <2>5, <2>6, <1>7 DEF Behind
  <2> QED BY <2>7 DEF ReallocCase, R, m
<1>14. CASE size < nb /\ ~ahead /\ ~both /\ ~behind
  <2>1. R = ReallocElsewhere(mALLOc(h, bytes), m, S[p], bytes) BY <1>6, <1>14, <1>2
  <2>2. Elsewhere(h, R, S, p, nb, bytes) BY <2>1, <1>14, <1>2 DEF Elsewhere, m
  <2> QED BY <2>2 DEF ReallocCase, R, m
<1>15. size >= nb \/ size < nb BY <1>2, <1>4
<1> QED BY <1>10, <1>11, <1>12, <1>13, <1>14, <1>15

-----------------------------------------------------------------------------
(* realloc() where the block is, or into its neighbours.                    *)

\* The data of p in its own place, and moved to a free chunk q before it.
LEMMA CarriedSame ==
    ASSUME NEW h, NEW k, NEW p, NEW m, \A x : Word(k, x) = Word(h, x)
    PROVE  Carried(h, k, p, p, m)
BY DEF Carried

\* No word of a region changed.
LEMMA InnerSame ==
    ASSUME NEW h, NEW k, NEW a, NEW e, \A x : Word(k, x) = Word(h, x)
    PROVE  InnerWords(h, k, a, e)
BY DEF InnerWords

\* k is h but for chunks taken out of the bins.
Stripped(h, k, S, D) == SameMem(h, k) /\ BinsOk(k.bin, k.marked, S, D)

\* A chunk more is taken out of the bins.
LEMMA StrippedOne ==
    ASSUME NEW h, NEW k, NEW S, NEW D, NEW c \in D, Stripped(h, k, S, D)
    PROVE  Stripped(h, unlink(k, c), S, D \ {c})
<1>1. SameMem(h, k) /\ BinsOk(k.bin, k.marked, S, D) BY DEF Stripped
<1>2. IsHeap(k) BY <1>1 DEF SameMem
<1>3. /\ SameMem(k, unlink(k, c)) /\ BinsOk(unlink(k, c).bin, k.marked, S, D \ {c})
      /\ unlink(k, c).marked = k.marked
  BY <1>1, <1>2, Unlinked
<1> QED BY <1>1, <1>3, SameMemTrans DEF Stripped

\* No chunk is taken out of the bins.
LEMMA StrippedNone ==
    ASSUME NEW h, NEW S, NEW F, NEW U, HeapAt(h, S, F, U)
    PROVE  Stripped(h, h, S, F)
<1>1. IsHeap(h) /\ BinsOk(h.bin, h.marked, S, F) BY DEF HeapAt
<1> QED BY <1>1, SameMemRefl DEF Stripped

\* p stays, and grows into the chunk behind it.
LEMMA StayRegion ==
    ASSUME NEW h, NEW k, NEW S, NEW F, NEW U, NEW p \in U, HeapAt(h, S, F, U),
           Stripped(h, k, S, F \ {p, p + S[p]})
    PROVE  RegionOf(h, k, S, F, U, (U \ {p}) \union {p}, p, EndOf(S, F, p + S[p]))
<1>1. /\ SameSys(h, k) /\ k.top = h.top /\ IsHeap(k) /\ \A x : Word(k, x) = Word(h, x)
      /\ BinsOk(k.bin, k.marked, S, F \ {p, p + S[p]})
  BY DEF Stripped, SameMem
<1>2. Joins(S, F, p, p) BY DEF Joins
<1>3. InnerWords(h, k, p, EndOf(S, F, p + S[p])) BY <1>1, InnerSame
<1>4. MergedIn(h, k, S, F, U, p, p) BY <1>1, <1>2, <1>3 DEF MergedIn
<1> QED BY <1>4, MergeRegion

\* The data of p move to q, the free chunk before it.
ShiftOk(h, k, g, S, F, p, q) ==
    /\ q \in F /\ q + S[q] = p /\ Stripped(h, k, S, F \ {p + S[p]})
    /\ g = Shifted(k, p, q, S[p])

\* ... with all of them, although the areas may overlap.
LEMMA ShiftRegion ==
    ASSUME NEW h, NEW k, NEW g, NEW S, NEW F, NEW U, NEW p \in U, NEW q, HeapAt(h, S, F, U),
           ShiftOk(h, k, g, S, F, p, q)
    PROVE  /\ RegionOf(h, g, S, F, U, (U \ {p}) \union {q}, q, EndOf(S, F, p + S[p]))
           /\ Carried(h, g, p, q, S[p])
           /\ q \notin U \ {p} /\ q \in Nat
<1> DEFINE j == unlink(k, q)
           e == EndOf(S, F, p + S[p])
           n == S[p] - 4
<1>1. Layout(h, S, F, U) /\ F \intersect U = {} BY DEF HeapAt, Layout
<1>2. q \in F /\ q + S[q] = p /\ Stripped(h, k, S, F \ {p + S[p]}) /\ g = Shifted(k, p, q, S[p])
  BY DEF ShiftOk
<1>3. p \in F \union U /\ q \in F \union U BY <1>2
<1>4. /\ p \in Nat /\ S[p] \in Nat /\ S[p] >= 16 /\ q \in Nat /\ S[q] \in Nat /\ S[q] >= 16
      /\ p + S[p] \in Nat
  <2>1. p \in Nat /\ S[p] \in Nat /\ S[p] >= 16 BY <1>1, <1>3, NormalAt
  <2>2. q \in Nat /\ S[q] \in Nat /\ S[q] >= 16 BY <1>1, <1>3, NormalAt
  <2> QED BY <2>1, <2>2
<1>5. Joins(S, F, p, q) BY <1>2 DEF Joins
<1>6. p + S[p] <= e /\ e \in Nat
  <2> DEFINE next == p + S[p]
  <2>1. next = p + S[p] OBVIOUS
  <2> HIDE DEF next
  <2>2. next <= EndOf(S, F, next) /\ EndOf(S, F, next) \in Nat
    BY <2>1, <1>1, <1>5, JoinSpan
  <2> QED BY <2>1, <2>2
<1>7. Stripped(h, j, S, F \ {q, p + S[p]})
  <2>1. q \in F \ {p + S[p]} BY <1>2, <1>4
  <2>2. (F \ {p + S[p]}) \ {q} = F \ {q, p + S[p]} OBVIOUS
  <2> DEFINE D == F \ {p + S[p]}
             E == F \ {q, p + S[p]}
  <2>3. q \in D /\ D \ {q} = E /\ Stripped(h, k, S, D) BY <2>1, <2>2, <1>2
  <2> HIDE DEF D, E
  <2>4. Stripped(h, unlink(k, q), S, D \ {q}) BY ONLY <2>3, StrippedOne
  <2> QED BY <2>3, <2>4 DEF E
<1> HIDE DEF j
<1>8. /\ SameSys(h, j) /\ j.top = h.top /\ IsHeap(j) /\ \A x : Word(j, x) = Word(h, x)
      /\ BinsOk(j.bin, j.marked, S, F \ {q, p + S[p]})
  BY <1>7 DEF Stripped, SameMem
<1>9. g = MALLOC_COPY(j, q + 8, p + 8, n) BY <1>2 DEF Shifted, j, chunk2mem, SIZE_SZ
<1>10. /\ Wrote(j, g)
       /\ \A x : Word(g, x) = IF x \in q + 8 .. q + 8 + n - 1 THEN Word(j, x - (q + 8) + (p + 8))
                              ELSE Word(j, x)
  <2> DEFINE a == q + 8
             b == p + 8
  <2>1. a \in Nat /\ b \in Nat /\ n \in Int BY <1>4
  <2>2. g = MALLOC_COPY(j, a, b, n) BY <1>9
  <2> HIDE DEF a, b, n
  <2>3. /\ Wrote(j, g)
        /\ \A x : Word(g, x) = IF x \in a .. a + n - 1 THEN Word(j, x - a + b) ELSE Word(j, x)
    BY <2>1, <2>2, <1>8, CopyIs
  <2> QED BY <2>3 DEF a, b
<1> HIDE DEF e
<1>11. InnerWords(h, g, q, e)
  <2> SUFFICES ASSUME NEW x \in Nat, x < q + 8 \/ x >= e + 4
               PROVE  Word(g, x) = Word(h, x)
    BY DEF InnerWords
  <2>1. x \notin q + 8 .. q + 8 + n - 1 BY <1>2, <1>4, <1>6
  <2> QED BY <2>1, <1>8, <1>10
<1>12. Carried(h, g, p, q, S[p])
  <2> SUFFICES ASSUME NEW d \in Nat, d + 4 < S[p]
               PROVE  Word(g, q + 8 + d) = Word(h, p + 8 + d)
    BY DEF Carried
  <2> DEFINE x == q + 8 + d
  <2>1. x \in q + 8 .. q + 8 + n - 1 /\ x - (q + 8) + (p + 8) = p + 8 + d BY <1>4
  <2> HIDE DEF x, n
  <2>2. Word(g, x) = Word(j, x - (q + 8) + (p + 8)) BY <2>1, <1>10
  <2>3. Word(g, x) = Word(h, p + 8 + d) BY <2>1, <2>2, <1>8
  <2> QED BY <2>3 DEF x
<1>13. MergedIn(h, g, S, F, U, p, q)
  <2>1. SameSys(h, g) /\ g.top = h.top /\ IsHeap(g) /\ g.bin = j.bin /\ g.marked = j.marked
    BY <1>8, <1>10 DEF Wrote, SameSys
  <2> QED BY <2>1, <1>5, <1>8, <1>11 DEF MergedIn, e
<1>14. q \notin U \ {p} BY <1>1, <1>2
<1>15. RegionOf(h, g, S, F, U, (U \ {p}) \union {q}, q, e) BY <1>13, MergeRegion DEF e
<1> QED BY <1>4, <1>12, <1>14, <1>15 DEF e

\* The chunk is large enough.
LEMMA InPlaceMoved ==
    ASSUME NEW h, NEW R, NEW S, NEW F, NEW U, NEW p \in U,
           NEW nb, HeapAt(h, S, F, U), Size8(nb),
           InPlace(h, R, S, p, nb)
    PROVE  Moved(h, R, S, U, p, nb)
<1>1. S[p] >= nb /\ R = SplitRealloc(h, p, S[p], nb) BY DEF InPlace
<1>2. Region(h, h, S, F, U, S, F, U, p, p + S[p]) BY RegionOne
<1>3. p \in Nat /\ S[p] \in Nat
  <2>1. Layout(h, S, F, U) /\ p \in F \union U BY DEF HeapAt
  <2> QED BY <2>1, NormalAt
<1> DEFINE e == p + S[p]
           size == S[p]
<1>4. Region(h, h, S, F, U, S, F, U, p, e) /\ size = e - p /\ size >= nb BY <1>1, <1>2, <1>3
<1> HIDE DEF e, size
<1>5. Resized(h, h, SplitRealloc(h, p, size, nb), S, U, p, nb) BY <1>4, SplitReallocAt
<1>6. U = (U \ {p}) \union {p} /\ p \notin U \ {p} /\ nb \in Nat BY Size8Is
<1>7. Carried(h, h, p, p, S[p]) BY CarriedSame
<1>8. Resized(h, h, R, S, (U \ {p}) \union {p}, p, nb) BY <1>1, <1>5, <1>6 DEF size
<1> QED BY <1>3, <1>6, <1>7, <1>8, ResizedMoved

\* Top, behind it, is large enough.
LEMMA AheadTopMoved ==
    ASSUME NEW h, NEW R, NEW S, NEW F, NEW U, NEW p \in U,
           NEW nb, HeapAt(h, S, F, U), Size8(nb),
           AheadTop(h, R, S, p, nb)
    PROVE  Moved(h, R, S, U, p, nb)
<1>1. /\ p + S[p] = h.top /\ S[p] + S[h.top] >= nb + MINSIZE
      /\ R = GrowIntoTop(h, p, S[p] + S[h.top], nb)
  BY DEF AheadTop
<1>2. p \in Nat /\ S[p] \in Nat /\ h.top \notin F /\ S[h.top] \in Nat /\ h.top \in Nat
  <2>1. Layout(h, S, F, U) /\ p \in F \union U BY DEF HeapAt
  <2>2. p \in Nat /\ S[p] \in Nat /\ p \in DOMAIN S /\ p + S[p] \in DOMAIN S BY <2>1, NormalAt
  <2>3. h.top # 0 BY <2>1, <2>2, SizeAt
  <2> QED BY <2>1, <2>2, <2>3, TopIs
<1>3. EndOf(S, F, p + S[p]) = h.top BY <1>1, <1>2 DEF EndOf
<1>4. RegionOf(h, h, S, F, U, (U \ {p}) \union {p}, p, h.top)
  <2>1. Stripped(h, h, S, F) BY StrippedNone
  <2>2. F \ {p, p + S[p]} = F
    <3>1. F \intersect U = {} BY DEF HeapAt, Layout
    <3> QED BY <3>1, <1>1, <1>2
  <2>3. Stripped(h, h, S, F \ {p, p + S[p]}) BY <2>1, <2>2
  <2>4. RegionOf(h, h, S, F, U, (U \ {p}) \union {p}, p, EndOf(S, F, p + S[p]))
    BY <2>3, StayRegion
  <2> QED BY <2>4, <1>3
<1> DEFINE V == (U \ {p}) \union {p}
           size == S[p] + S[h.top]
<1>5. size = (h.top - p) + S[h.top] /\ size >= nb + MINSIZE BY <1>1, <1>2
<1>6. RegionOf(h, h, S, F, U, V, p, h.top) BY <1>4
<1> HIDE DEF V, size
<1>7. Resized(h, h, GrowIntoTop(h, p, size, nb), S, V, p, nb) BY <1>5, <1>6, GrowIntoTopAt
<1>8. p \notin U \ {p} /\ nb \in Nat BY Size8Is
<1>9. Carried(h, h, p, p, S[p]) BY CarriedSame
<1>10. Resized(h, h, R, S, (U \ {p}) \union {p}, p, nb) BY <1>1, <1>7 DEF size, V
<1> QED BY <1>2, <1>8, <1>9, <1>10, ResizedMoved

\* The free chunk behind it is large enough.
LEMMA AheadFreeMoved ==
    ASSUME NEW h, NEW R, NEW S, NEW F, NEW U, NEW p \in U,
           NEW nb, HeapAt(h, S, F, U), Size8(nb),
           AheadFree(h, R, S, F, p, nb)
    PROVE  Moved(h, R, S, U, p, nb)
<1> DEFINE next == p + S[p]
           k == unlink(h, next)
           e == next + S[next]
           size == S[p] + S[next]
           V == (U \ {p}) \union {p}
<1>1. next \in F /\ size >= nb /\ R = SplitRealloc(k, p, size, nb) BY DEF AheadFree
<1>2. Layout(h, S, F, U) /\ F \intersect U = {} BY DEF HeapAt, Layout
<1>3. p \in Nat /\ S[p] \in Nat /\ next \in Nat /\ S[next] \in Nat
  <2>1. p \in F \union U /\ next \in F \union U BY <1>1
  <2>2. p \in Nat /\ S[p] \in Nat BY <2>1, <1>2, NormalAt
  <2> HIDE DEF next
  <2>3. next \in Nat /\ S[next] \in Nat BY <2>1, <1>2, NormalAt
  <2> QED BY <2>2, <2>3
<1>4. EndOf(S, F, next) = e BY <1>1 DEF EndOf
<1>5. size = e - p BY <1>3
<1>6. Stripped(h, k, S, F \ {next})
  <2>1. Stripped(h, h, S, F) BY StrippedNone
  <2> HIDE DEF next
  <2> QED BY <2>1, <1>1, StrippedOne
<1>7. F \ {p, next} = F \ {next} BY <1>2
<1>8. RegionOf(h, k, S, F, U, V, p, EndOf(S, F, next))
  <2> HIDE DEF k
  <2>1. Stripped(h, k, S, F \ {p, p + S[p]}) BY <1>6, <1>7
  <2> QED BY <2>1, StayRegion
<1>9. \A x : Word(k, x) = Word(h, x) BY <1>6 DEF Stripped, SameMem
<1> HIDE DEF k, e, next, size, V
<1>10. RegionOf(h, k, S, F, U, V, p, e) BY <1>4, <1>8
<1>11. Resized(h, k, SplitRealloc(k, p, size, nb), S, V, p, nb)
  BY <1>1, <1>5, <1>10, SplitRegionAt
<1>12. p \notin U \ {p} /\ nb \in Nat BY Size8Is
<1>13. Carried(h, k, p, p, S[p]) BY <1>9, CarriedSame
<1>14. Resized(h, k, R, S, (U \ {p}) \union {p}, p, nb) BY <1>1, <1>11 DEF V
<1> QED BY <1>3, <1>12, <1>13, <1>14, ResizedMoved

\* The free chunk before it and top are.
LEMMA BothTopMoved ==
    ASSUME NEW h, NEW R, NEW S, NEW F, NEW U, NEW p \in U, NEW nb,
           NEW q, HeapAt(h, S, F, U), Size8(nb),
           BothTop(h, R, S, F, p, nb, q)
    PROVE  Moved(h, R, S, U, p, nb)
<1> DEFINE g == Shifted(h, p, q, S[p])
           size == S[q] + S[p] + S[h.top]
           V == (U \ {p}) \union {q}
<1>1. /\ q \in F /\ q + S[q] = p /\ p + S[p] = h.top /\ size >= nb + MINSIZE
      /\ R = GrowIntoTop(g, q, size, nb)
  BY DEF BothTop
<1>2. /\ p \in Nat /\ S[p] \in Nat /\ h.top \notin F /\ S[h.top] \in Nat /\ h.top \in Nat
      /\ q \in Nat /\ S[q] \in Nat
  <2>1. Layout(h, S, F, U) /\ p \in F \union U /\ q \in F \union U BY <1>1 DEF HeapAt
  <2>2. p \in Nat /\ S[p] \in Nat /\ p \in DOMAIN S /\ p + S[p] \in DOMAIN S BY <2>1, NormalAt
  <2>3. h.top # 0 BY <2>1, <2>2, SizeAt
  <2>4. q \in Nat /\ S[q] \in Nat BY <2>1, NormalAt
  <2> QED BY <2>1, <2>2, <2>3, <2>4, TopIs
<1>3. EndOf(S, F, p + S[p]) = h.top BY <1>1, <1>2 DEF EndOf
<1>4. ShiftOk(h, h, g, S, F, p, q)
  <2>1. Stripped(h, h, S, F) BY StrippedNone
  <2>2. F \ {p + S[p]} = F BY <1>1, <1>2
  <2>3. Stripped(h, h, S, F \ {p + S[p]}) BY <2>1, <2>2
  <2> QED BY <2>3, <1>1 DEF ShiftOk
<1> HIDE DEF g
<1>5. /\ RegionOf(h, g, S, F, U, V, q, h.top) /\ Carried(h, g, p, q, S[p])
      /\ q \notin U \ {p}
  <2>1. /\ RegionOf(h, g, S, F, U, V, q, EndOf(S, F, p + S[p])) /\ Carried(h, g, p, q, S[p])
        /\ q \notin U \ {p}
    BY <1>4, ShiftRegion
  <2> HIDE DEF V
  <2> QED BY <2>1, <1>3
<1>6. size = (h.top - q) + S[h.top] BY <1>1, <1>2
<1> HIDE DEF V, size
<1>7. Resized(h, g, GrowIntoTop(g, q, size, nb), S, V, q, nb) BY <1>1, <1>5, <1>6, GrowIntoTopAt
<1>8. nb \in Nat BY Size8Is
<1>9. Resized(h, g, R, S, (U \ {p}) \union {q}, q, nb) BY <1>1, <1>7 DEF V
<1> QED BY <1>2, <1>5, <1>8, <1>9, ResizedMoved

\* The free chunks on both sides are.
LEMMA BothFreeMoved ==
    ASSUME NEW h, NEW R, NEW S, NEW F, NEW U, NEW p \in U, NEW nb,
           NEW q, HeapAt(h, S, F, U), Size8(nb),
           BothFree(h, R, S, F, p, nb, q)
    PROVE  Moved(h, R, S, U, p, nb)
<1> DEFINE next == p + S[p]
           k == unlink(h, next)
           g == Shifted(k, p, q, S[p])
           e == next + S[next]
           size == S[q] + S[p] + S[next]
           V == (U \ {p}) \union {q}
<1>1. /\ q \in F /\ q + S[q] = p /\ next \in F /\ size >= nb
      /\ R = SplitRealloc(g, q, size, nb)
  BY DEF BothFree
<1>2. Layout(h, S, F, U) BY DEF HeapAt
<1>3. p \in Nat /\ S[p] \in Nat /\ next \in Nat /\ S[next] \in Nat /\ q \in Nat /\ S[q] \in Nat
  <2>1. p \in F \union U /\ next \in F \union U /\ q \in F \union U BY <1>1
  <2>2. p \in Nat /\ S[p] \in Nat /\ q \in Nat /\ S[q] \in Nat BY <2>1, <1>2, NormalAt
  <2> HIDE DEF next
  <2>3. next \in Nat /\ S[next] \in Nat BY <2>1, <1>2, NormalAt
  <2> QED BY <2>2, <2>3
<1>4. EndOf(S, F, next) = e BY <1>1 DEF EndOf
<1>5. size = e - q BY <1>1, <1>3
<1>6. Stripped(h, k, S, F \ {next})
  <2>1. Stripped(h, h, S, F) BY StrippedNone
  <2> HIDE DEF next
  <2> QED BY <2>1, <1>1, StrippedOne
<1> HIDE DEF k
<1>7. ShiftOk(h, k, g, S, F, p, q) BY <1>1, <1>6 DEF ShiftOk
<1> HIDE DEF g
<1>8. /\ RegionOf(h, g, S, F, U, V, q, EndOf(S, F, next)) /\ Carried(h, g, p, q, S[p])
      /\ q \notin U \ {p}
  BY <1>7, ShiftRegion
<1> HIDE DEF V, size, e, next
<1>9. RegionOf(h, g, S, F, U, V, q, e) BY <1>4, <1>8
<1>10. Resized(h, g, SplitRealloc(g, q, size, nb), S, V, q, nb) BY <1>1, <1>5, <1>9, SplitRegionAt
<1>11. nb \in Nat BY Size8Is
<1>12. Resized(h, g, R, S, (U \ {p}) \union {q}, q, nb) BY <1>1, <1>10 DEF V
<1> QED BY <1>3, <1>8, <1>11, <1>12, ResizedMoved

\* The free chunk before it is.
LEMMA BehindMoved ==
    ASSUME NEW h, NEW R, NEW S, NEW F, NEW U, NEW p \in U, NEW nb,
           NEW q, HeapAt(h, S, F, U), Size8(nb),
           Behind(h, R, S, F, p, nb, q)
    PROVE  Moved(h, R, S, U, p, nb)
<1> DEFINE e == p + S[p]
           g == Shifted(h, p, q, S[p])
           size == S[q] + S[p]
           V == (U \ {p}) \union {q}
<1>1. /\ q \in F /\ q + S[q] = p /\ e \notin F /\ size >= nb
      /\ R = SplitRealloc(g, q, size, nb)
  BY DEF Behind
<1>2. Layout(h, S, F, U) BY DEF HeapAt
<1>3. p \in Nat /\ S[p] \in Nat /\ q \in Nat /\ S[q] \in Nat
  <2>1. p \in F \union U /\ q \in F \union U BY <1>1
  <2> QED BY <2>1, <1>2, NormalAt
<1>4. EndOf(S, F, e) = e BY <1>1 DEF EndOf
<1>5. size = e - q BY <1>1, <1>3
<1>6. ShiftOk(h, h, g, S, F, p, q)
  <2>1. Stripped(h, h, S, F) BY StrippedNone
  <2>2. F \ {e} = F BY <1>1
  <2>3. Stripped(h, h, S, F \ {p + S[p]}) BY <2>1, <2>2
  <2> QED BY <2>3, <1>1 DEF ShiftOk
<1> HIDE DEF g
<1>7. /\ RegionOf(h, g, S, F, U, V, q, EndOf(S, F, e)) /\ Carried(h, g, p, q, S[p])
      /\ q \notin U \ {p}
  BY <1>6, ShiftRegion
<1> HIDE DEF V, size, e
<1>8. RegionOf(h, g, S, F, U, V, q, e) BY <1>4, <1>7
<1>9. Resized(h, g, SplitRealloc(g, q, size, nb), S, V, q, nb) BY <1>1, <1>5, <1>8, SplitRegionAt
<1>10. nb \in Nat BY Size8Is
<1>11. Resized(h, g, R, S, (U \ {p}) \union {q}, q, nb) BY <1>1, <1>9 DEF V
<1> QED BY <1>3, <1>7, <1>10, <1>11, ResizedMoved

-----------------------------------------------------------------------------
(* The chunks on either side, and data that may change.                     *)

\* The chunks before and behind p.
AsideOf(S, F, U, p) ==
    /\ p \in Nat /\ S[p] \in Nat /\ S[p] >= 16 /\ p + S[p] \in Nat
    /\ \A c \in DOMAIN S : c \in Nat /\ (c <= p \/ c >= p + S[p])
    /\ \A c \in (F \union U) \ {p} : \/ c + S[c] <= p
                                     \/ c >= p + S[p]
    /\ \A c \in F \union U : c \in Nat /\ S[c] \in Nat /\ S[c] >= 16 /\ c \in DOMAIN S

\* All other chunks are before or behind a chunk.
LEMMA AsideIs ==
    ASSUME NEW h, NEW S, NEW F, NEW U, NEW p \in F \union U, Layout(h, S, F, U)
    PROVE  AsideOf(S, F, U, p)
<1>1. /\ p \in Nat /\ S[p] \in Nat /\ S[p] >= 16 /\ p \in DOMAIN S BY NormalAt
<1>2. ASSUME NEW c \in DOMAIN S
      PROVE  c \in Nat /\ (c <= p \/ c >= p + S[p])
  <2>1. c \in Nat BY SizeAt
  <2>2. p <= c /\ c < p + S[p] => c = p BY <1>1, NoneInside
  <2> QED BY <2>1, <2>2, <1>1
<1>3. ASSUME NEW c \in F \union U
      PROVE  c \in Nat /\ S[c] \in Nat /\ S[c] >= 16 /\ c \in DOMAIN S
  BY NormalAt
<1>4. ASSUME NEW c \in (F \union U) \ {p}
      PROVE  c + S[c] <= p \/ c >= p + S[p]
  <2>1. c \in Nat /\ S[c] \in Nat /\ c \in DOMAIN S BY <1>3
  <2>2. p <= c /\ c < p + S[p] => c = p BY <1>1, <2>1, NoneInside
  <2>3. c <= p /\ p < c + S[c] => p = c BY <1>1, <2>1, NoneInside
  <2> QED BY <2>1, <2>2, <2>3, <1>1
<1> QED BY <1>1, <1>2, <1>3, <1>4 DEF AsideOf

\* The data of a program's block may change.
LEMMA DataAt ==
    ASSUME NEW h, NEW k, NEW S, NEW F, NEW U, NEW p \in U, HeapAt(h, S, F, U), Wrote(h, k),
           InnerWords(h, k, p, p + S[p])
    PROVE  HeapAt(k, S, F, U) /\ Kept(h, k, S, S, U \ {p})
<1>1. Layout(h, S, F, U) /\ SysOk(h, S) /\ BinsOk(h.bin, h.marked, S, F) BY DEF HeapAt
<1>2. /\ IsHeap(k) /\ SameSys(h, k) /\ k.top = h.top /\ k.bin = h.bin /\ k.marked = h.marked
  BY DEF Wrote
<1>3. AsideOf(S, F, U, p) BY <1>1, AsideIs
<1>4. F \intersect U = {} /\ Encoded(h, S, F) BY <1>1 DEF Layout
<1>5. \A x \in Nat : x < p + 8 \/ x >= p + S[p] + 4 => Word(k, x) = Word(h, x) BY DEF InnerWords
<1>6. Encoded(k, S, F)
  <2>1. ASSUME NEW c \in DOMAIN S PROVE HeadOf(k, c) = S[c] + Bit(S, F, c)
    <3>1. c + 4 \in Nat /\ (c + 4 < p + 8 \/ c + 4 >= p + S[p] + 4) BY <1>3 DEF AsideOf
    <3>2. HeadOf(k, c) = HeadOf(h, c) BY <3>1, <1>5 DEF HeadOf, SIZE_SZ
    <3> QED BY <3>2, <1>4 DEF Encoded
  <2>2. ASSUME NEW f \in F PROVE Word(k, f + S[f]) = S[f]
    <3>1. f \in (F \union U) \ {p} BY <1>4
    <3>2. f + S[f] \in Nat /\ (f + S[f] < p + 8 \/ f + S[f] >= p + S[p] + 4)
      BY <3>1, <1>3 DEF AsideOf
    <3>3. Word(k, f + S[f]) = Word(h, f + S[f]) BY <3>2, <1>5
    <3> QED BY <3>3, <1>4 DEF Encoded
  <2> QED BY <2>1, <2>2 DEF Encoded
<1>7. Layout(k, S, F, U) BY <1>1, <1>2, <1>6 DEF Layout, SameSys
<1>8. SysOk(k, S) BY <1>1, <1>2 DEF SysOk, SameSys
<1>9. HeapAt(k, S, F, U) BY <1>1, <1>2, <1>7, <1>8 DEF HeapAt
<1>10. Kept(h, k, S, S, U \ {p})
  <2> SUFFICES ASSUME NEW c \in U \ {p}, NEW x \in Nat, c + 8 <= x, x < c + S[c] + 4
               PROVE  Word(k, x) = Word(h, x)
    BY DEF Kept
  <2>1. c \in (F \union U) \ {p} OBVIOUS
  <2>2. x < p + 8 \/ x >= p + S[p] + 4 BY <2>1, <1>3 DEF AsideOf
  <2> QED BY <2>2, <1>5
<1> QED BY <1>9, <1>10

-----------------------------------------------------------------------------
(* realloc() by way of malloc().                                            *)

\* A block moved after a step that keeps it.
LEMMA MovedTrans ==
    ASSUME NEW h, NEW g, NEW R, NEW S, NEW T, NEW U, NEW p \in U, NEW nb, Kept(h, g, S, T, U),
           Moved(g, R, T, U, p, nb), p \in Nat, S[p] \in Nat
    PROVE  Moved(h, R, S, U, p, nb)
<1>1. PICK P, H, q : MovedAt(g, R, T, U, p, nb, P, H, q) BY DEF Moved
<1>2. /\ R.mem = chunk2mem(q) /\ q \notin U \ {p}
      /\ HeapAt(R.h, P, H, (U \ {p}) \union {q}) /\ Kept(g, R.h, T, P, U \ {p})
      /\ P[q] >= nb /\ SameData(g, R.h, p, q, T[p], nb)
  BY <1>1 DEF MovedAt
<1>3. Kept(h, R.h, S, P, U \ {p})
  <2>1. Kept(h, R.h, S, P, U \intersect (U \ {p})) BY <1>2, KeptTrans
  <2>2. U \intersect (U \ {p}) = U \ {p} OBVIOUS
  <2> QED BY <2>1, <2>2
<1>4. T[p] = S[p] /\ \A x \in Nat : p + 8 <= x /\ x < p + S[p] + 4 => Word(g, x) = Word(h, x)
  BY DEF Kept
<1>5. SameData(h, R.h, p, q, S[p], nb)
  <2> SUFFICES ASSUME NEW d \in Nat, d + 4 < S[p], d + 4 < nb
               PROVE  Word(R.h, q + 8 + d) = Word(h, p + 8 + d)
    BY DEF SameData
  <2>1. Word(R.h, q + 8 + d) = Word(g, p + 8 + d) BY <1>2, <1>4 DEF SameData
  <2> DEFINE x == p + 8 + d
  <2>2. x \in Nat /\ p + 8 <= x /\ x < p + S[p] + 4 OBVIOUS
  <2> HIDE DEF x
  <2>3. Word(g, x) = Word(h, x) BY <2>2, <1>4
  <2> QED BY <2>1, <2>3 DEF x
<1>6. MovedAt(h, R, S, U, p, nb, P, H, q) BY <1>2, <1>3, <1>5 DEF MovedAt
<1> QED BY <1>6 DEF Moved

\* An operation that gives memory out returns the heap and an address.
IsAnswer(r) == r = [h |-> r.h, mem |-> r.mem]

\* The results of the parts of malloc() are results.
LEMMA PlainAnswers ==
    ASSUME NEW h, NEW p, NEW nb
    PROVE  /\ IsAnswer(Null(h)) /\ IsAnswer(Found(h, p)) /\ IsAnswer(UseAll(h, p))
           /\ IsAnswer(Split(h, p, nb)) /\ IsAnswer(FromTop(h, nb))
<1>1. \A g, q : IsAnswer(Null(g)) /\ IsAnswer(Found(g, q)) BY DEF IsAnswer, Null, Found
<1>2. IsAnswer(UseAll(h, p)) BY <1>1 DEF UseAll
<1>3. IsAnswer(Split(h, p, nb)) BY <1>1 DEF Split
<1>4. \A g : IsAnswer(TakeFromTop(g, nb))
  <2> SUFFICES ASSUME NEW g PROVE IsAnswer(TakeFromTop(g, nb)) OBVIOUS
  <2> DEFINE k == set_head(set_head([g EXCEPT !.top = g.top + nb], g.top, nb),
                           g.top + nb, SpareInTop(g, nb))
  <2>1. TakeFromTop(g, nb) = IF SpareInTop(g, nb) < MINSIZE THEN Null(g) ELSE Found(k, g.top)
    BY DEF TakeFromTop
  <2> HIDE DEF k
  <2> QED BY ONLY <1>1, <2>1
<1>5. IsAnswer(FromTop(h, nb)) BY <1>4 DEF FromTop
<1> QED BY <1>1, <1>2, <1>3, <1>5

\* So is that of the search.
LEMMA BinsAnswer ==
    ASSUME NEW h, NEW from, NEW nb
    PROVE  IsAnswer(FromBins(h, from, nb))
<1> DEFINE hits == {i \in DOMAIN h.bin : /\ i >= from
                                         /\ idx2binblock(i) \in h.marked
                                         /\ FirstFit(h, i, nb) # 0}
           h1 == [h EXCEPT !.marked = Remarked(h, from, nb)]
           p == FirstFit(h, Min(hits), nb)
           k == unlink(h1, p)
           R == FromBins(h, from, nb)
           none == hits = {}
           wide == chunksize(h, p) - nb >= MINSIZE
<1>1. R = CASE none -> FromTop(h1, nb)
            [] ~none /\ wide -> Split(k, p, nb)
            [] OTHER -> UseAll(k, p)
  BY DEF FromBins, Remarked, Searched
<1> HIDE DEF hits, h1, p, k, R, none, wide
<1>2. R = FromTop(h1, nb) \/ R = Split(k, p, nb) \/ R = UseAll(k, p) BY ONLY <1>1
<1> QED BY <1>2, PlainAnswers DEF R

\* ... and of malloc().
LEMMA MallocAnswer ==
    ASSUME NEW h, NEW bytes, Long(bytes) \in Int
    PROVE  IsAnswer(mALLOc(h, bytes))
<1> DEFINE nb == request2size(bytes)
           exact == ExactFit(h, nb)
           isLast == Bin(h, 1) # << >>
           q == Bin(h, 1)[1]
           spare == chunksize(h, q) - nb
           r == mALLOc(h, bytes)
           k == unlink(h, exact)
           l == clear_last_remainder(h)
           wide == isLast /\ spare >= MINSIZE
           exactly == isLast /\ spare \in 0 .. MINSIZE - 1
           negative == Long(bytes) < 0
           other == Long(bytes) >= 0 /\ exact # 0
           third == Long(bytes) >= 0 /\ exact = 0
           d == FromBins(Filed(h), SearchFrom(h, nb), nb)
<1>1. r = CASE negative -> Null(h)
            [] other -> UseAll(k, exact)
            [] third -> CASE wide -> Split(h, q, nb)
                          [] exactly -> UseAll(l, q)
                          [] OTHER -> d
  BY ONLY DEF mALLOc, Filed, last_remainder
<1>2. negative \/ other \/ third
  <2>1. Long(bytes) < 0 \/ Long(bytes) >= 0 OBVIOUS
  <2> QED BY <2>1
<1> HIDE DEF r, k, l, d, exact, isLast, spare, wide, exactly, q, negative, other, third
<1>3. r = Null(h) \/ r = UseAll(k, exact) \/ r = Split(h, q, nb) \/ r = UseAll(l, q) \/ r = d
  BY ONLY <1>1, <1>2
<1> QED BY <1>3, PlainAnswers, BinsAnswer DEF r, d

\* The block is moved by malloc(), by hand and by free().
Relocated(r, m, oldsize) == fREe(MALLOC_COPY(r.h, r.mem, m, oldsize - SIZE_SZ), m)
ElseCase(r, m, oldsize, bytes, R) ==
    \/ r.mem = 0 /\ R = r
    \/ /\ r.mem # 0 /\ mem2chunk(r.mem) = next_chunk(r.h, mem2chunk(m))
       /\ R = SplitRealloc(r.h, mem2chunk(m), oldsize + chunksize(r.h, mem2chunk(r.mem)),
                           request2size(bytes))
    \/ r.mem # 0 /\ R.h = Relocated(r, m, oldsize) /\ R.mem = r.mem

\* What realloc() does with malloc()'s answer.
LEMMA ElseIs ==
    ASSUME NEW r, NEW m, NEW oldsize, NEW bytes, IsAnswer(r)
    PROVE  ElseCase(r, m, oldsize, bytes, ReallocElsewhere(r, m, oldsize, bytes))
<1> DEFINE k == Relocated(r, m, oldsize)
           new == mem2chunk(r.mem)
           next == next_chunk(r.h, mem2chunk(m))
           cut == SplitRealloc(r.h, mem2chunk(m), oldsize + chunksize(r.h, new), request2size(bytes))
           kept == [r EXCEPT !.h = k]
           R == ReallocElsewhere(r, m, oldsize, bytes)
<1>1. R = CASE r.mem = 0 -> r
            [] r.mem # 0 /\ new = next -> cut
            [] OTHER -> kept
  BY DEF ReallocElsewhere, Relocated
<1>2. kept.h = k /\ kept.mem = r.mem BY DEF IsAnswer
<1> HIDE DEF k, new, next, cut, kept, R
<1>3. \/ r.mem = 0 /\ R = r
      \/ r.mem # 0 /\ new = next /\ R = cut
      \/ r.mem # 0 /\ R = kept
  BY ONLY <1>1
<1> QED BY <1>2, <1>3 DEF k, new, next, cut, R, ElseCase

-----------------------------------------------------------------------------
(* The chunk malloc() gave realloc().                                       *)

\* The chunk malloc() gave lies right behind p.
LEMMA BesideMoved ==
    ASSUME NEW g, NEW R, NEW T, NEW G, NEW U, NEW p \in U, NEW c, NEW nb,
           HeapAt(g, T, G, U \union {c}), c \notin U, Size8(nb), c = p + T[p], T[c] >= nb,
           R = SplitRealloc(g, p, T[p] + T[c], nb)
    PROVE  Moved(g, R, T, U, p, nb)
<1> DEFINE V == U \union {c}
           e == c + T[c]
           size == T[p] + T[c]
<1>1. p \in V /\ c \in V /\ V \ {c} = U OBVIOUS
<1>2. Layout(g, T, G, V) BY DEF HeapAt
<1>3. p \in Nat /\ T[p] \in Nat /\ c \in Nat /\ T[c] \in Nat
  <2>1. p \in G \union V /\ c \in G \union V BY <1>1
  <2> HIDE DEF V
  <2>2. p \in Nat /\ T[p] \in Nat BY ONLY <2>1, <1>2, NormalAt
  <2>3. c \in Nat /\ T[c] \in Nat BY ONLY <2>1, <1>2, NormalAt
  <2> QED BY <2>2, <2>3
<1>4. size = e - p /\ size >= nb
  <2>1. nb \in Nat BY Size8Is
  <2> QED BY <1>3, <2>1
<1> HIDE DEF V
<1>5. RegionOf(g, g, T, G, V, V \ {c}, p, e) BY <1>1, RegionTwo
<1>6. RegionOf(g, g, T, G, V, U, p, e) BY <1>1, <1>5
<1> HIDE DEF e, size
<1>7. Resized(g, g, SplitRealloc(g, p, size, nb), T, U, p, nb) BY <1>4, <1>6, SplitRegionAt
<1>8. U = (U \ {p}) \union {p} /\ p \notin U \ {p} /\ nb \in Nat BY Size8Is
<1>9. Resized(g, g, R, T, (U \ {p}) \union {p}, p, nb) BY <1>7, <1>8 DEF size
<1>10. Carried(g, g, p, p, T[p]) BY CarriedSame
<1> QED BY <1>3, <1>8, <1>9, <1>10, ResizedMoved

\* The data of p go to c, and p is freed.
LEMMA CopiedMoved ==
    ASSUME NEW g, NEW R, NEW T, NEW G, NEW U, NEW p \in U, NEW c, NEW nb,
           HeapAt(g, T, G, U \union {c}), c \notin U, nb \in Nat, T[c] >= nb, T[p] < nb,
           R.mem = chunk2mem(c),
           R.h = fREe(MALLOC_COPY(g, chunk2mem(c), chunk2mem(p), T[p] - SIZE_SZ), chunk2mem(p))
    PROVE  Moved(g, R, T, U, p, nb)
<1> DEFINE V == U \union {c}
           n == T[p] - 4
           k == MALLOC_COPY(g, c + 8, p + 8, n)
<1>1. p \in V /\ c \in V /\ V \ {c} = U /\ c # p OBVIOUS
<1>2. IsHeap(g) /\ Layout(g, T, G, V) BY DEF HeapAt
<1>3. p \in Nat /\ T[p] \in Nat /\ T[p] >= 16 /\ c \in Nat /\ T[c] \in Nat
  <2>1. p \in G \union V /\ c \in G \union V BY <1>1
  <2> HIDE DEF V
  <2>2. p \in Nat /\ T[p] \in Nat /\ T[p] >= 16 BY ONLY <2>1, <1>2, NormalAt
  <2>3. c \in Nat /\ T[c] \in Nat BY ONLY <2>1, <1>2, NormalAt
  <2> QED BY <2>2, <2>3
<1>4. R.h = fREe(k, chunk2mem(p)) BY DEF chunk2mem, SIZE_SZ
<1>5. /\ Wrote(g, k)
      /\ \A x : Word(k, x) = IF x \in c + 8 .. c + 8 + n - 1 THEN Word(g, x - (c + 8) + (p + 8))
                             ELSE Word(g, x)
  <2> DEFINE a == c + 8
             b == p + 8
  <2>1. a \in Nat /\ b \in Nat /\ n \in Int BY <1>3
  <2>2. k = MALLOC_COPY(g, a, b, n) OBVIOUS
  <2> HIDE DEF a, b, n, k
  <2>3. /\ Wrote(g, k)
        /\ \A x : Word(k, x) = IF x \in a .. a + n - 1 THEN Word(g, x - a + b) ELSE Word(g, x)
    BY <2>1, <2>2, <1>2, CopyIs
  <2> QED BY <2>3 DEF a, b
<1> HIDE DEF k, V
<1>6. InnerWords(g, k, c, c + T[c])
  <2> SUFFICES ASSUME NEW x \in Nat, x < c + 8 \/ x >= c + T[c] + 4
               PROVE  Word(k, x) = Word(g, x)
    BY DEF InnerWords
  <2>1. x \notin c + 8 .. c + 8 + n - 1 BY <1>3
  <2> QED BY <2>1, <1>5
<1>7. HeapAt(k, T, G, V) /\ Kept(g, k, T, T, U)
  <2>1. HeapAt(k, T, G, V) /\ Kept(g, k, T, T, V \ {c})
    <3>1. HeapAt(g, T, G, V) BY DEF V
    <3> QED BY <3>1, <1>1, <1>5, <1>6, DataAt
  <2> QED BY <2>1, <1>1
<1>8. After(k, R.h, T, V \ {p}, V \ {p})
  <2>1. After(k, fREe(k, chunk2mem(p)), T, V \ {p}, V \ {p}) BY <1>1, <1>7, FreeKeeps
  <2> QED BY <2>1, <1>4
<1>9. V \ {p} = (U \ {p}) \union {c} BY <1>1 DEF V
<1>10. PICK P, H : HeapAt(R.h, P, H, V \ {p}) /\ Kept(k, R.h, T, P, V \ {p})
  BY <1>8 DEF After
<1>11. Kept(g, R.h, T, P, U \ {p})
  <2>1. Kept(g, R.h, T, P, U \intersect (V \ {p})) BY <1>7, <1>10, KeptTrans
  <2>2. U \ {p} \subseteq U \intersect (V \ {p}) BY <1>9
  <2> QED BY <2>1, <2>2, KeptSubset
<1>12. /\ P[c] = T[c]
       /\ \A x \in Nat : c + 8 <= x /\ x < c + T[c] + 4 => Word(R.h, x) = Word(k, x)
  <2>1. c \in V \ {p} BY <1>1
  <2> QED BY <2>1, <1>10 DEF Kept
<1>13. SameData(g, R.h, p, c, T[p], nb)
  <2> SUFFICES ASSUME NEW d \in Nat, d + 4 < T[p]
               PROVE  Word(R.h, c + 8 + d) = Word(g, p + 8 + d)
    BY DEF SameData
  <2> DEFINE x == c + 8 + d
  <2>1. /\ x \in Nat /\ x \in c + 8 .. c + 8 + n - 1 /\ x - (c + 8) + (p + 8) = p + 8 + d
        /\ c + 8 <= x /\ x < c + T[c] + 4
    BY <1>3
  <2> HIDE DEF x, n
  <2>2. Word(k, x) = Word(g, x - (c + 8) + (p + 8)) BY <2>1, <1>5
  <2>3. Word(R.h, x) = Word(k, x) BY <2>1, <1>12
  <2>4. Word(R.h, x) = Word(g, p + 8 + d) BY <2>1, <2>2, <2>3
  <2> QED BY <2>4 DEF x
<1>14. MovedAt(g, R, T, U, p, nb, P, H, c)
  <2>1. HeapAt(R.h, P, H, (U \ {p}) \union {c}) BY <1>9, <1>10
  <2>2. P[c] >= nb /\ c \notin U \ {p} BY <1>12
  <2> QED BY <2>1, <2>2, <1>11, <1>13 DEF MovedAt
<1> QED BY <1>14 DEF Moved

-----------------------------------------------------------------------------
(* realloc(), as a whole.                                                   *)

\* What realloc() did with the block p: moved it, or refused.
Settled(h, R, S, U, p, nb) == Moved(h, R, S, U, p, nb) \/ Refused(h, R, S, U, nb)

\* realloc() by malloc(): the block is moved, or refused and kept.
LEMMA ElsewhereSettled ==
    ASSUME NEW h, NEW R, NEW S, NEW F, NEW U, NEW p \in U, NEW bytes, HeapAt(h, S, F, U),
           Long(bytes) \in Nat, Size8(request2size(bytes)), PageFacts,
           Elsewhere(h, R, S, p, request2size(bytes), bytes)
    PROVE  Settled(h, R, S, U, p, request2size(bytes))
<1> DEFINE nb == request2size(bytes)
           r == mALLOc(h, bytes)
           m == chunk2mem(p)
           size == S[p]
<1>1. S[p] < nb /\ R = ReallocElsewhere(r, m, size, bytes) BY DEF Elsewhere
<1>2. Answer(h, r, S, U, nb) BY MallocAt
<1>3. ElseCase(r, m, size, bytes, R)
  <2>1. IsAnswer(r) BY MallocAnswer
  <2> HIDE DEF r, m, size
  <2>2. ElseCase(r, m, size, bytes, ReallocElsewhere(r, m, size, bytes)) BY <2>1, ElseIs
  <2> QED BY <2>2, <1>1
<1>4. p \in Nat /\ p > 0 /\ S[p] \in Nat
  <2>1. Layout(h, S, F, U) /\ p \in F \union U BY DEF HeapAt
  <2> QED BY <2>1, NormalAt
<1>5. nb \in Nat /\ Size8(nb) BY Size8Is
<1>6. mem2chunk(m) = p BY <1>4 DEF mem2chunk, chunk2mem, SIZE_SZ
<1> HIDE DEF nb, r, m, size
<1>7. ASSUME Refused(h, r, S, U, nb)
      PROVE  Settled(h, R, S, U, p, nb)
  <2>1. r.mem = 0 BY <1>7 DEF Refused, RefusedAt
  <2>2. R = r BY <2>1, <1>3 DEF ElseCase
  <2> QED BY <2>2, <1>7 DEF Settled
<1>8. ASSUME Given(h, r, S, U, nb)
      PROVE  Settled(h, R, S, U, p, nb)
  <2>1. PICK T, G, c : GivenAt(h, r, S, U, nb, T, G, c) BY <1>8 DEF Given
  <2> DEFINE g == r.h
  <2>2. /\ r.mem = chunk2mem(c) /\ c \notin U /\ HeapAt(g, T, G, U \union {c})
        /\ Kept(h, g, S, T, U) /\ T[c] >= nb
    BY <2>1 DEF GivenAt
  <2>3. T[p] = S[p] BY <2>2 DEF Kept
  <2> DEFINE V == U \union {c}
  <2>4. Layout(g, T, G, V) BY <2>2 DEF HeapAt
  <2>5. p \in G \union V /\ c \in G \union V OBVIOUS
  <2> HIDE DEF g, V
  <2>6. c \in Nat /\ c > 0 /\ chunksize(g, c) = T[c] BY ONLY <2>4, <2>5, NormalAt
  <2>7. chunksize(g, p) = T[p] BY ONLY <2>4, <2>5, NormalAt
  <2>8. mem2chunk(r.mem) = c /\ r.mem # 0 BY <2>2, <2>6 DEF mem2chunk, chunk2mem, SIZE_SZ
  <2>9. \/ c = p + T[p] /\ R = SplitRealloc(g, p, T[p] + T[c], nb)
        \/ R.h = Relocated(r, m, T[p]) /\ R.mem = r.mem
    <3>1. \/ c = next_chunk(g, p) /\ R = SplitRealloc(g, p, size + chunksize(g, c), request2size(bytes))
          \/ R.h = Relocated(r, m, size) /\ R.mem = r.mem
      BY <1>3, <1>6, <2>8 DEF ElseCase, g
    <3> QED BY <3>1, <2>3, <2>6, <2>7 DEF next_chunk, size, nb
  <2>10. ASSUME c = p + T[p], R = SplitRealloc(g, p, T[p] + T[c], nb)
         PROVE  Moved(g, R, T, U, p, nb)
    <3>1. HeapAt(g, T, G, U \union {c}) BY <2>2 DEF g
    <3> QED BY <3>1, <2>10, <2>2, <1>5, BesideMoved
  <2>11. ASSUME R.h = Relocated(r, m, T[p]), R.mem = r.mem
         PROVE  Moved(g, R, T, U, p, nb)
    <3>1. R.mem = chunk2mem(c) BY <2>2, <2>11
    <3>2. R.h = fREe(MALLOC_COPY(g, chunk2mem(c), chunk2mem(p), T[p] - SIZE_SZ), chunk2mem(p))
      BY <2>2, <2>11 DEF Relocated, m, g
    <3>3. HeapAt(g, T, G, U \union {c}) /\ c \notin U /\ T[c] >= nb /\ T[p] < nb
      BY <2>2, <2>3, <1>1 DEF g
    <3> QED BY <3>1, <3>2, <3>3, <1>5, CopiedMoved
  <2>12. Moved(g, R, T, U, p, nb) BY <2>9, <2>10, <2>11
  <2>13. Kept(h, g, S, T, U) BY <2>2 DEF g
  <2>14. Moved(h, R, S, U, p, nb) BY <2>12, <2>13, <1>4, MovedTrans
  <2> QED BY <2>14 DEF Settled
<1> QED BY <1>2, <1>7, <1>8 DEF Answer, nb

\* realloc() moves the block with its data, or refuses and keeps it.
LEMMA ReallocAt ==
    ASSUME NEW h, NEW S, NEW F, NEW U, NEW p \in U, NEW bytes, HeapAt(h, S, F, U),
           Long(bytes) \in Nat, Size8(request2size(bytes)), PageFacts
    PROVE  Settled(h, rEALLOc(h, chunk2mem(p), bytes), S, U, p, request2size(bytes))
<1> DEFINE nb == request2size(bytes)
           R == rEALLOc(h, chunk2mem(p), bytes)
<1>1. ReallocCase(h, R, S, F, p, nb, bytes) BY ReallocCases
<1>2. Elsewhere(h, R, S, p, nb, bytes) => Settled(h, R, S, U, p, nb)
  <2> HIDE DEF R
  <2> QED BY ElsewhereSettled
<1>3. Size8(nb) OBVIOUS
<1> HIDE DEF nb, R
<1>4. InPlace(h, R, S, p, nb) => Moved(h, R, S, U, p, nb) BY <1>3, InPlaceMoved
<1>5. AheadTop(h, R, S, p, nb) => Moved(h, R, S, U, p, nb) BY <1>3, AheadTopMoved
<1>6. AheadFree(h, R, S, F, p, nb) => Moved(h, R, S, U, p, nb) BY <1>3, AheadFreeMoved
<1>7. \A q : BothTop(h, R, S, F, p, nb, q) => Moved(h, R, S, U, p, nb) BY <1>3, BothTopMoved
<1>8. \A q : BothFree(h, R, S, F, p, nb, q) => Moved(h, R, S, U, p, nb) BY <1>3, BothFreeMoved
<1>9. \A q : Behind(h, R, S, F, p, nb, q) => Moved(h, R, S, U, p, nb) BY <1>3, BehindMoved
<1>10. Settled(h, R, S, U, p, nb)
  BY ONLY <1>1, <1>2, <1>4, <1>5, <1>6, <1>7, <1>8, <1>9 DEF ReallocCase, Settled
<1> QED BY <1>10 DEF R, nb

-----------------------------------------------------------------------------
(* The blocks that programs hold.                                           *)

\* The chunks keep the words that say what they are.
SameTags(h, g, S, F) ==
    /\ \A c \in DOMAIN S : HeadOf(g, c) = HeadOf(h, c)
    /\ \A p \in F : Word(g, p + S[p]) = Word(h, p + S[p])

\* A heap with the same tags is a heap.
LEMMA SameTagsAt ==
    ASSUME NEW h, NEW g, NEW S, NEW F,
           NEW U, HeapAt(h, S, F, U), Wrote(h, g), SameTags(h, g, S, F)
    PROVE  HeapAt(g, S, F, U)
<1>1. Layout(h, S, F, U) /\ SysOk(h, S) /\ BinsOk(h.bin, h.marked, S, F) BY DEF HeapAt
<1>2. /\ IsHeap(g) /\ SameSys(h, g) /\ g.top = h.top /\ g.bin = h.bin /\ g.marked = h.marked
  BY DEF Wrote
<1>3. Encoded(g, S, F) BY <1>1 DEF Layout, Encoded, SameTags
<1>4. Layout(g, S, F, U) BY <1>1, <1>2, <1>3 DEF Layout, SameSys
<1>5. SysOk(g, S) BY <1>1, <1>2 DEF SysOk, SameSys
<1> QED BY <1>1, <1>2, <1>4, <1>5 DEF HeapAt

\* The heap with other words.
LEMMA NewMem ==
    ASSUME NEW h, NEW D, NEW f, IsHeap(h)
    PROVE  LET g == [h EXCEPT !.mem = [a \in D |-> f[a]]]
           IN Wrote(h, g) /\ \A x : Word(g, x) = IF x \in D THEN f[x] ELSE 0
<1> DEFINE m == [a \in D |-> f[a]]
           g == [h EXCEPT !.mem = m]
<1>1. /\ g.mem = m /\ g.bin = h.bin /\ g.marked = h.marked /\ g.top = h.top
      /\ g.brk = h.brk /\ g.start = h.start /\ g.end = h.end /\ g.base = h.base
      /\ g.high = h.high /\ g.fence = h.fence
      /\ g.trim_threshold = h.trim_threshold /\ g.top_pad = h.top_pad
  BY DEF IsHeap
<1>2. g = [mem |-> m, bin |-> h.bin, marked |-> h.marked, top |-> h.top,
            brk |-> h.brk, start |-> h.start, end |-> h.end, base |-> h.base,
            high |-> h.high, fence |-> h.fence,
            trim_threshold |-> h.trim_threshold, top_pad |-> h.top_pad]
  BY DEF IsHeap
<1>3. m = [a \in DOMAIN m |-> m[a]] OBVIOUS
<1>4. h.bin = [i \in DOMAIN h.bin |-> h.bin[i]] BY DEF IsHeap
<1>5. DOMAIN m = D /\ \A x \in D : m[x] = f[x] OBVIOUS
<1> HIDE DEF m, g
<1>6. IsHeap(g) BY <1>1, <1>2, <1>3, <1>4 DEF IsHeap
<1>7. Wrote(h, g) BY <1>1, <1>6 DEF Wrote, SameSys
<1>8. \A x : Word(g, x) = IF x \in D THEN f[x] ELSE 0 BY <1>1, <1>5 DEF Word
<1> QED BY <1>7, <1>8 DEF g, m

\* The blocks of programs, in chunks of the sizes S.
BlockOk(h, S, b, t) ==
    /\ b.mem \in Nat /\ b.req \in Nat
    /\ S[mem2chunk(b.mem)] >= b.req + 4
    /\ \A a \in Marks(b) : Word(h, a) = t
BlocksOk(h, bl, S) ==
    /\ \A t \in DOMAIN bl : BlockOk(h, S, bl[t], t)
    /\ \A t, u \in DOMAIN bl : bl[t].mem = bl[u].mem => t = u
SoundAt(h, bl, S, F) == HeapAt(h, S, F, UsedChunks(bl)) /\ BlocksOk(h, bl, S)
Sound(h, bl) == \E S, F : SoundAt(h, bl, S, F)

\* The first and the last word of a block are in its chunk.
LEMMA MarksIn ==
    ASSUME NEW b, b.mem \in Nat, b.req \in Nat, NEW a \in Marks(b)
    PROVE  a \in Nat /\ b.mem <= a /\ a < b.mem + b.req
<1>1. b.req > 0 /\ a \in {b.mem, b.mem + ((b.req - 1) \div 4) * 4} BY DEF Marks
<1> DEFINE k == b.req - 1
           w == k \div 4
<1>2. w \in Nat /\ w * 4 <= k BY <1>1
<1> HIDE DEF w
<1> QED BY <1>1, <1>2 DEF w

\* ... and are words of its data.
LEMMA MarksData ==
    ASSUME NEW h, NEW S, NEW b, NEW t, BlockOk(h, S, b, t), NEW p, p = mem2chunk(b.mem),
           S[p] \in Nat, NEW a \in Marks(b)
    PROVE  a \in Nat /\ p + 8 <= a /\ a < p + S[p] + 4 /\ b.mem = p + 8
<1>1. b.mem \in Nat /\ b.req \in Nat /\ S[p] >= b.req + 4 BY DEF BlockOk
<1>2. a \in Nat /\ b.mem <= a /\ a < b.mem + b.req BY <1>1, MarksIn
<1>3. p = b.mem - 8 BY DEF mem2chunk, SIZE_SZ
<1> QED BY <1>1, <1>2, <1>3

\* A program's block is in a chunk in use.
LEMMA UsedIs ==
    ASSUME NEW bl, NEW t \in DOMAIN bl
    PROVE  mem2chunk(bl[t].mem) \in UsedChunks(bl)
BY DEF UsedChunks

\* Blocks that are kept keep what programs wrote.
LEMMA KeptBlocks ==
    ASSUME NEW h, NEW g, NEW bl, NEW S, NEW T, \A p \in UsedChunks(bl) : S[p] \in Nat,
           BlocksOk(h, bl, S), Kept(h, g, S, T, UsedChunks(bl))
    PROVE  BlocksOk(g, bl, T)
<1>1. ASSUME NEW t \in DOMAIN bl PROVE BlockOk(g, T, bl[t], t)
  <2> DEFINE b == bl[t]
             p == mem2chunk(b.mem)
  <2>1. BlockOk(h, S, b, t) BY DEF BlocksOk
  <2>2. p \in UsedChunks(bl) /\ S[p] \in Nat BY UsedIs
  <2>3. /\ T[p] = S[p]
        /\ \A x \in Nat : p + 8 <= x /\ x < p + S[p] + 4 => Word(g, x) = Word(h, x)
    BY <2>2 DEF Kept
  <2>4. ASSUME NEW a \in Marks(b) PROVE Word(g, a) = t
    <3>1. p = mem2chunk(b.mem) OBVIOUS
    <3> HIDE DEF p, b
    <3>2. a \in Nat /\ p + 8 <= a /\ a < p + S[p] + 4 BY <2>1, <2>2, <3>1, MarksData
    <3>3. Word(g, a) = Word(h, a) BY <2>3, <3>2
    <3> QED BY <3>3, <2>1 DEF BlockOk
  <2>5. T[p] >= b.req + 4 /\ b.mem \in Nat /\ b.req \in Nat BY <2>1, <2>3 DEF BlockOk
  <2> QED BY <2>4, <2>5 DEF BlockOk
<1> QED BY <1>1 DEF BlocksOk

\* A heap that keeps the blocks is as sound as before.
LEMMA SoundKept ==
    ASSUME NEW h, NEW g, NEW bl, NEW S, NEW F, NEW T, NEW G, SoundAt(h, bl, S, F),
           HeapAt(g, T, G, UsedChunks(bl)), Kept(h, g, S, T, UsedChunks(bl))
    PROVE  SoundAt(g, bl, T, G)
<1>1. HeapAt(h, S, F, UsedChunks(bl)) /\ BlocksOk(h, bl, S) BY DEF SoundAt
<1>2. \A p \in UsedChunks(bl) : S[p] \in Nat
  <2>1. Layout(h, S, F, UsedChunks(bl)) BY <1>1 DEF HeapAt
  <2> QED BY <2>1, NormalAt
<1> QED BY <1>1, <1>2, KeptBlocks DEF SoundAt

-----------------------------------------------------------------------------
(* What is forgotten, and the chunks as the properties name them.           *)

Known(h, bl) ==
    {p + SIZE_SZ : p \in Chunks(h, bl)}
    \union {next_chunk(h, p) : p \in FreeChunks(h)}
    \union UNION {Marks(bl[t]) : t \in DOMAIN bl}

\* What is forgotten is neither a tag of a chunk nor a mark of a block.
LEMMA ForgetIs ==
    ASSUME NEW h, NEW bl, IsHeap(h)
    PROVE  /\ Wrote(h, Forget(h, bl))
           /\ \A x \in Known(h, bl) : Word(Forget(h, bl), x) = Word(h, x)
<1> DEFINE D == DOMAIN h.mem \intersect Known(h, bl)
           f == h.mem
           g == [h EXCEPT !.mem = [a \in D |-> f[a]]]
<1>1. Forget(h, bl) = g
  <2>1. Forget(h, bl) = [h EXCEPT !.mem = [a \in DOMAIN h.mem \intersect Known(h, bl) |-> h.mem[a]]]
    BY DEF Forget, Known, IsHeap
  <2> QED BY <2>1
<1> HIDE DEF D
<1>2. Wrote(h, g) /\ \A x : Word(g, x) = IF x \in D THEN f[x] ELSE 0 BY NewMem
<1> HIDE DEF g
<1>3. ASSUME NEW x \in Known(h, bl) PROVE Word(g, x) = Word(h, x)
  <2>1. x \in D <=> x \in DOMAIN h.mem BY DEF D
  <2> QED BY <2>1, <1>2 DEF Word
<1> QED BY <1>1, <1>2, <1>3

\* The chunks that ChunksSound names are those of the layout.
LEMMA ChunksAre ==
    ASSUME NEW h, NEW bl, NEW S, NEW F, HeapAt(h, S, F, UsedChunks(bl))
    PROVE  FreeChunks(h) = F /\ Chunks(h, bl) = DOMAIN S
<1>1. Layout(h, S, F, UsedChunks(bl)) /\ BinsOk(h.bin, h.marked, S, F) BY DEF HeapAt
<1>2. FreeChunks(h) = F BY <1>1, FreeOfBins
<1>3. DOMAIN S = (F \union UsedChunks(bl)) \union h.fence \union {c \in {h.top} : h.top # 0}
  BY <1>1 DEF Layout, Tiled, Placed
<1>4. {c \in {h.top} : h.top # 0} = {h.top} \ {InitialTop} BY DEF InitialTop
<1> QED BY <1>2, <1>3, <1>4 DEF Chunks

\* Forgetting what nobody reads keeps the heap and the blocks.
LEMMA ForgetSound ==
    ASSUME NEW h, NEW bl, NEW S, NEW F, SoundAt(h, bl, S, F)
    PROVE  SoundAt(Forget(h, bl), bl, S, F)
<1> DEFINE g == Forget(h, bl)
           U == UsedChunks(bl)
<1>1. HeapAt(h, S, F, U) /\ BlocksOk(h, bl, S) BY DEF SoundAt
<1>2. Layout(h, S, F, U) /\ IsHeap(h) BY <1>1 DEF HeapAt
<1>3. Wrote(h, g) /\ \A x \in Known(h, bl) : Word(g, x) = Word(h, x) BY <1>2, ForgetIs
<1>4. FreeChunks(h) = F /\ Chunks(h, bl) = DOMAIN S BY <1>1, ChunksAre
<1> HIDE DEF g, U
<1>5. SameTags(h, g, S, F)
  <2>1. ASSUME NEW c \in DOMAIN S PROVE HeadOf(g, c) = HeadOf(h, c)
    <3>1. c + SIZE_SZ \in Known(h, bl) BY <1>4 DEF Known
    <3> QED BY <3>1, <1>3 DEF HeadOf
  <2>2. ASSUME NEW p \in F PROVE Word(g, p + S[p]) = Word(h, p + S[p])
    <3>1. chunksize(h, p) = S[p] BY <1>2, NormalAt
    <3>2. next_chunk(h, p) \in Known(h, bl) BY <1>4 DEF Known
    <3> QED BY <3>1, <3>2, <1>3 DEF next_chunk
  <2> QED BY <2>1, <2>2 DEF SameTags
<1>6. HeapAt(g, S, F, U) BY <1>1, <1>3, <1>5, SameTagsAt
<1>7. BlocksOk(g, bl, S)
  <2>1. ASSUME NEW t \in DOMAIN bl PROVE BlockOk(g, S, bl[t], t)
    <3>1. \A a \in Marks(bl[t]) : a \in Known(h, bl) BY DEF Known
    <3>2. \A a \in Marks(bl[t]) : Word(g, a) = Word(h, a) BY <3>1, <1>3
    <3>3. BlockOk(h, S, bl[t], t) BY <1>1 DEF BlocksOk
    <3> QED BY <3>2, <3>3 DEF BlockOk
  <2> QED BY <2>1, <1>1 DEF BlocksOk
<1> QED BY <1>6, <1>7 DEF SoundAt, g, U

\* The blocks other than that of tag t, and with b as that block.
Less(bl, t) == [u \in DOMAIN bl \ {t} |-> bl[u]]
More(bl, t, b) == [u \in DOMAIN bl \union {t} |-> IF u = t THEN b ELSE bl[u]]

\* Fewer blocks are as sound.
LEMMA LessOk ==
    ASSUME NEW h, NEW bl, NEW S, NEW t, BlocksOk(h, bl, S)
    PROVE  BlocksOk(h, Less(bl, t), S)
<1>1. DOMAIN Less(bl, t) = DOMAIN bl \ {t} /\ \A u \in DOMAIN bl \ {t} : Less(bl, t)[u] = bl[u]
  BY DEF Less
<1> QED BY <1>1 DEF BlocksOk

\* Each block has a chunk of its own.
LEMMA LessUsed ==
    ASSUME NEW h, NEW bl, NEW S, NEW t, BlocksOk(h, bl, S)
    PROVE  /\ t \notin DOMAIN bl => UsedChunks(Less(bl, t)) = UsedChunks(bl)
           /\ t \in DOMAIN bl =>
                 UsedChunks(Less(bl, t)) = UsedChunks(bl) \ {mem2chunk(bl[t].mem)}
<1>1. DOMAIN Less(bl, t) = DOMAIN bl \ {t} /\ \A u \in DOMAIN bl \ {t} : Less(bl, t)[u] = bl[u]
  BY DEF Less
<1>2. UsedChunks(Less(bl, t)) = {mem2chunk(bl[u].mem) : u \in DOMAIN bl \ {t}}
  BY <1>1 DEF UsedChunks
<1>3. \A u, v \in DOMAIN bl : mem2chunk(bl[u].mem) = mem2chunk(bl[v].mem) => u = v
  <2> SUFFICES ASSUME NEW u \in DOMAIN bl, NEW v \in DOMAIN bl,
                      mem2chunk(bl[u].mem) = mem2chunk(bl[v].mem)
               PROVE  u = v
    OBVIOUS
  <2>1. bl[u].mem \in Nat /\ bl[v].mem \in Nat BY DEF BlocksOk, BlockOk
  <2>2. bl[u].mem = bl[v].mem BY <2>1 DEF mem2chunk, SIZE_SZ
  <2> QED BY <2>2 DEF BlocksOk
<1>4. t \notin DOMAIN bl => DOMAIN bl \ {t} = DOMAIN bl OBVIOUS
<1> QED BY <1>2, <1>3, <1>4 DEF UsedChunks

-----------------------------------------------------------------------------
(* A program receives a block.                                              *)

\* An operation gave out a chunk q for n bytes, and kept the chunks W.
GotAt(h, r, S, W, n, T, G, q) ==
    /\ r.mem = chunk2mem(q) /\ q \notin W
    /\ HeapAt(r.h, T, G, W \union {q}) /\ Kept(h, r.h, S, T, W) /\ T[q] >= n + 4
Got(h, r, S, W, n) == \E T, G, q : GotAt(h, r, S, W, n, T, G, q)

\* The program marks its block b.
Written(h, b, t) ==
    [h EXCEPT !.mem = [a \in DOMAIN @ \union Marks(b) |-> IF a \in Marks(b) THEN t ELSE @[a]]]

\* A program writes its marks, and no other word.
LEMMA WrittenIs ==
    ASSUME NEW h, NEW b, NEW t, IsHeap(h)
    PROVE  /\ Wrote(h, Written(h, b, t))
           /\ \A x : Word(Written(h, b, t), x) = IF x \in Marks(b) THEN t ELSE Word(h, x)
<1> DEFINE D == DOMAIN h.mem \union Marks(b)
           f == [a \in D |-> IF a \in Marks(b) THEN t ELSE h.mem[a]]
           g == [h EXCEPT !.mem = [a \in D |-> f[a]]]
<1>1. Written(h, b, t) = g
  <2>1. Written(h, b, t) = [h EXCEPT !.mem = f] BY DEF Written, IsHeap
  <2>2. f = [a \in D |-> f[a]] OBVIOUS
  <2> QED BY <2>1, <2>2
<1>2. \A x \in D : f[x] = IF x \in Marks(b) THEN t ELSE h.mem[x] OBVIOUS
<1> HIDE DEF f
<1>3. Wrote(h, g) /\ \A x : Word(g, x) = IF x \in D THEN f[x] ELSE 0 BY NewMem
<1> HIDE DEF g
<1>4. \A x : Word(g, x) = IF x \in Marks(b) THEN t ELSE Word(h, x) BY <1>2, <1>3 DEF Word
<1> QED BY <1>1, <1>3, <1>4

BlockOf(r, n) == [mem |-> r.mem, req |-> n]

\* A program that receives a block and marks it keeps the heap and all other blocks.
LEMMA ReceiveSound ==
    ASSUME NEW h, NEW bl, NEW S, NEW F, NEW t, NEW r, NEW n \in Nat, SoundAt(h, bl, S, F),
           Got(h, r, S, UsedChunks(Less(bl, t)), n)
    PROVE  Sound(Written(r.h, BlockOf(r, n), t), More(bl, t, BlockOf(r, n)))
<1> DEFINE W == UsedChunks(Less(bl, t))
           b == BlockOf(r, n)
           k == Written(r.h, b, t)
           new == More(bl, t, b)
           less == Less(bl, t)
<1>1. PICK T, G, q : GotAt(h, r, S, W, n, T, G, q) BY DEF Got
<1>2. /\ r.mem = chunk2mem(q) /\ q \notin W
      /\ HeapAt(r.h, T, G, W \union {q}) /\ Kept(h, r.h, S, T, W) /\ T[q] >= n + 4
  BY <1>1 DEF GotAt
<1>3. HeapAt(h, S, F, UsedChunks(bl)) /\ BlocksOk(h, bl, S) BY DEF SoundAt
<1>4. Layout(r.h, T, G, W \union {q}) /\ IsHeap(r.h) BY <1>2 DEF HeapAt
<1>5. q \in Nat /\ T[q] \in Nat
  <2>1. q \in G \union (W \union {q}) OBVIOUS
  <2> HIDE DEF W
  <2> QED BY ONLY <2>1, <1>4, NormalAt
<1>6. b.mem = q + 8 /\ b.req = n /\ b.mem \in Nat /\ mem2chunk(b.mem) = q
  BY <1>2, <1>5 DEF BlockOf, chunk2mem, mem2chunk, SIZE_SZ
<1>7. /\ DOMAIN less = DOMAIN bl \ {t} /\ DOMAIN new = DOMAIN bl \union {t} /\ new[t] = b
      /\ \A u \in DOMAIN bl \ {t} : less[u] = bl[u] /\ new[u] = bl[u]
  BY DEF Less, More
<1>8. BlocksOk(h, less, S) BY <1>3, LessOk
<1> HIDE DEF b, k, new, less, W
<1>9. Wrote(r.h, k) /\ \A x : Word(k, x) = IF x \in Marks(b) THEN t ELSE Word(r.h, x)
  BY <1>4, WrittenIs DEF k
<1>10. InnerWords(r.h, k, q, q + T[q])
  <2> SUFFICES ASSUME NEW x \in Nat, x < q + 8 \/ x >= q + T[q] + 4
               PROVE  Word(k, x) = Word(r.h, x)
    BY DEF InnerWords
  <2>1. x \notin Marks(b)
    <3> SUFFICES ASSUME x \in Marks(b) PROVE FALSE OBVIOUS
    <3>1. b.mem <= x /\ x < b.mem + b.req BY <1>6, MarksIn
    <3> QED BY <3>1, <1>2, <1>5, <1>6
  <2> QED BY <2>1, <1>9
<1>11. HeapAt(k, T, G, W \union {q}) /\ Kept(r.h, k, T, T, W)
  <2> DEFINE V == W \union {q}
  <2>1. q \in V /\ HeapAt(r.h, T, G, V) /\ V \ {q} = W BY <1>2
  <2> HIDE DEF V
  <2>2. HeapAt(k, T, G, V) /\ Kept(r.h, k, T, T, V \ {q}) BY <2>1, <1>9, <1>10, DataAt
  <2> QED BY <2>1, <2>2 DEF V
<1>12. Kept(h, k, S, T, W)
  <2>1. Kept(h, k, S, T, W \intersect W) BY <1>2, <1>11, KeptTrans
  <2>2. W \intersect W = W OBVIOUS
  <2> QED BY <2>1, <2>2
<1>13. BlocksOk(k, less, T)
  <2>1. \A p \in UsedChunks(less) : S[p] \in Nat
    <3>1. UsedChunks(less) \subseteq UsedChunks(bl) BY <1>7 DEF UsedChunks
    <3>2. Layout(h, S, F, UsedChunks(bl)) BY <1>3 DEF HeapAt
    <3> QED BY <3>1, <3>2, NormalAt
  <2> QED BY <2>1, <1>8, <1>12, KeptBlocks DEF W, less
<1>14. \A u \in DOMAIN less : mem2chunk(less[u].mem) \in W BY UsedIs DEF W, less
<1>15. UsedChunks(new) = W \union {q}
  <2>1. UsedChunks(new) = {mem2chunk(new[u].mem) : u \in DOMAIN bl \union {t}}
    BY <1>7 DEF UsedChunks
  <2>2. W = {mem2chunk(less[u].mem) : u \in DOMAIN bl \ {t}} BY <1>7 DEF UsedChunks, W, less
  <2>3. W = {mem2chunk(new[u].mem) : u \in DOMAIN bl \ {t}} BY <2>2, <1>7
  <2> QED BY <2>1, <2>3, <1>6, <1>7
<1>16. BlockOk(k, T, b, t) BY <1>2, <1>6, <1>9 DEF BlockOk
<1>17. BlocksOk(k, new, T)
  <2>1. ASSUME NEW u \in DOMAIN new PROVE BlockOk(k, T, new[u], u)
    BY <1>7, <1>13, <1>16 DEF BlocksOk
  <2>2. \A u \in DOMAIN bl \ {t} : new[u].mem # b.mem
    BY <1>2, <1>6, <1>7, <1>14
  <2>3. \A u, v \in DOMAIN bl \ {t} : new[u].mem = new[v].mem => u = v BY <1>7, <1>13 DEF BlocksOk
  <2>4. \A u, v \in DOMAIN new : new[u].mem = new[v].mem => u = v BY <2>2, <2>3, <1>7
  <2> QED BY <2>1, <2>4 DEF BlocksOk
<1>18. SoundAt(k, new, T, G) BY <1>11, <1>15, <1>17 DEF SoundAt
<1> QED BY <1>18 DEF Sound, k, new, b

-----------------------------------------------------------------------------
(* A program is refused a block, or has one moved.                          *)

\* Rounding up is monotonic.
LEMMA RoundUpGrows ==
    ASSUME NEW x \in Nat, NEW y \in Nat, x <= y, NEW P \in Nat, P > 0
    PROVE  RoundUp(x, P) <= RoundUp(y, P)
<1> DEFINE n == x + P - 1
           m == y + P - 1
           k == n \div P
           j == m \div P
           r == n % P
           s == m % P
<1>1. RoundUp(x, P) = k * P /\ RoundUp(y, P) = j * P BY DEF RoundUp
<1>2. n \in Nat /\ m \in Nat /\ n <= m OBVIOUS
<1> HIDE DEF n, m
<1>3. k \in Nat /\ r \in Nat /\ n = P * k + r /\ r < P BY <1>2, DivMod
<1>4. j \in Nat /\ s \in Nat /\ m = P * j + s /\ s < P BY <1>2, DivMod
<1> HIDE DEF k, j, r, s
<1>5. k <= j
  <2> SUFFICES ASSUME j < k PROVE FALSE BY <1>3, <1>4
  <2>1. PICK d \in Nat : k = j + 1 + d
    <3>1. k - j - 1 \in Nat /\ k = j + 1 + (k - j - 1) BY <1>3, <1>4
    <3> QED BY <3>1
  <2>2. P * k = P * j + P + P * d /\ P * d \in Nat /\ P * j \in Nat BY <2>1, <1>4
  <2> QED BY <2>2, <1>2, <1>3, <1>4
<1>6. PICK d \in Nat : j = k + d
  <2>1. j - k \in Nat /\ j = k + (j - k) BY <1>3, <1>4, <1>5
  <2> QED BY <2>1
<1>7. j * P = k * P + d * P /\ d * P \in Nat /\ k * P \in Nat BY <1>3, <1>6
<1> QED BY <1>1, <1>7

\* The heap has no chunk of nb bytes, and gets none.
FullFor(h, nb) ==
    /\ \A p \in FreeChunks(h) : chunksize(h, p) < nb
    /\ chunksize(h, h.top) < nb + MINSIZE
    /\ h.brk + RoundUp(nb + h.top_pad + MINSIZE, PageSize) + MALLOC_ALIGNMENT > h.end

\* Who refuses one size is full for a larger one, too.
LEMMA RefusedFull ==
    ASSUME NEW h, NEW r, NEW bl, NEW S, NEW F, NEW m \in Nat, NEW nb \in Nat, m <= nb,
           SoundAt(h, bl, S, F), Refused(h, r, S, UsedChunks(bl), m), PageFacts,
           TopPads \union {0} \subseteq Nat
    PROVE  /\ Sound(Forget(r.h, bl), bl) /\ FullFor(Forget(r.h, bl), nb)
           /\ r.mem = 0
<1> DEFINE U == UsedChunks(bl)
           k == r.h
           g == Forget(k, bl)
<1>1. PICK T, G : RefusedAt(h, r, S, U, m, T, G) BY DEF Refused
<1>2. /\ r.mem = 0 /\ HeapAt(k, T, G, U) /\ Kept(h, k, S, T, U) /\ TooSmall(T, G, m)
      /\ chunksize(k, k.top) < m + MINSIZE
      /\ k.brk + RoundUp(m + k.top_pad + MINSIZE, PageSize) + MALLOC_ALIGNMENT > k.end
  BY <1>1 DEF RefusedAt
<1>3. SoundAt(k, bl, T, G) BY <1>2, SoundKept
<1>4. SoundAt(g, bl, T, G) BY <1>3, ForgetSound
<1>5. HeapAt(g, T, G, U) BY <1>4 DEF SoundAt
<1>6. IsHeap(k) /\ Layout(k, T, G, U) /\ SysOk(k, T) BY <1>2 DEF HeapAt
<1>7. Wrote(k, g) BY <1>6, ForgetIs
<1>8. FreeChunks(g) = G BY <1>5, ChunksAre
<1> HIDE DEF g, k, U
<1>9. g.top = k.top /\ g.brk = k.brk /\ g.end = k.end /\ g.top_pad = k.top_pad
  BY <1>7 DEF Wrote, SameSys
<1>10. Layout(g, T, G, U) BY <1>5 DEF HeapAt
<1>11. ASSUME NEW p \in G PROVE chunksize(g, p) < nb
  <2>1. chunksize(g, p) = T[p] /\ T[p] \in Nat
    <3>1. p \in G \union U OBVIOUS
    <3> QED BY ONLY <3>1, <1>10, NormalAt
  <2>2. T[p] < m BY <1>2 DEF TooSmall
  <2> QED BY <2>1, <2>2
<1>12. chunksize(g, g.top) < nb + MINSIZE
  <2>1. CASE k.top = 0
    <3>1. chunksize(g, g.top) = 0 BY <2>1, <1>9 DEF chunksize, InitialTop
    <3> QED BY <3>1 DEF MINSIZE
  <2>2. CASE k.top # 0
    <3>1. chunksize(k, k.top) = T[k.top] /\ T[k.top] \in Nat BY <2>2, <1>6, TopIs
    <3>2. chunksize(g, g.top) = T[g.top] BY <2>2, <1>9, <1>10, TopIs
    <3> QED BY <3>1, <3>2, <1>2, <1>9 DEF MINSIZE
  <2> QED BY <2>1, <2>2
<1>13. g.brk + RoundUp(nb + g.top_pad + MINSIZE, PageSize) + MALLOC_ALIGNMENT > g.end
  <2> DEFINE x == m + k.top_pad + MINSIZE
             y == nb + k.top_pad + MINSIZE
  <2>1. k.top_pad \in Nat /\ k.brk \in Nat /\ k.end \in Nat BY <1>6 DEF SysOk
  <2>2. x \in Nat /\ y \in Nat /\ x <= y BY <2>1 DEF MINSIZE
  <2>3. PageSize \in Nat /\ PageSize > 0 BY DEF PageFacts
  <2>4. k.brk + RoundUp(x, PageSize) + MALLOC_ALIGNMENT > k.end BY <1>2
  <2> HIDE DEF x, y
  <2>5. RoundUp(x, PageSize) <= RoundUp(y, PageSize) BY <2>2, <2>3, RoundUpGrows
  <2>6. RoundUp(x, PageSize) \in Nat /\ RoundUp(y, PageSize) \in Nat BY <2>2, <2>3, RoundUpIs
  <2>7. k.brk + RoundUp(y, PageSize) + MALLOC_ALIGNMENT > k.end
    BY <2>1, <2>4, <2>5, <2>6 DEF MALLOC_ALIGNMENT
  <2> QED BY <2>7, <1>9 DEF y
<1>14. FullFor(g, nb) BY <1>8, <1>11, <1>12, <1>13 DEF FullFor
<1> QED BY <1>2, <1>4, <1>14 DEF Sound, g, k

\* A chunk given out is room for a block.
LEMMA GivenGot ==
    ASSUME NEW h, NEW bl, NEW S, NEW F, NEW t, NEW r, NEW n \in Nat, NEW m \in Nat,
           SoundAt(h, bl, S, F), t \notin DOMAIN bl, Given(h, r, S, UsedChunks(bl), m), m >= n + 4
    PROVE  Got(h, r, S, UsedChunks(Less(bl, t)), n)
<1> DEFINE U == UsedChunks(bl)
<1>1. PICK T, G, p : GivenAt(h, r, S, U, m, T, G, p) BY DEF Given
<1>2. /\ r.mem = chunk2mem(p) /\ p \notin U
      /\ HeapAt(r.h, T, G, U \union {p}) /\ Kept(h, r.h, S, T, U) /\ T[p] >= m
  BY <1>1 DEF GivenAt
<1>3. UsedChunks(Less(bl, t)) = U BY LessUsed DEF SoundAt
<1>4. T[p] \in Nat
  <2>1. Layout(r.h, T, G, U \union {p}) /\ p \in G \union (U \union {p}) BY <1>2 DEF HeapAt
  <2> HIDE DEF U
  <2> QED BY ONLY <2>1, NormalAt
<1>5. GotAt(h, r, S, U, n, T, G, p) BY <1>2, <1>4 DEF GotAt
<1> QED BY <1>3, <1>5 DEF Got

\* realloc() kept the marks of a block, as far as it is as large.
NoneLost(r, b, n, t) == \A a \in Marks(b) : a < b.mem + n => Word(r.h, a - b.mem + r.mem) = t

\* So is a chunk that realloc() moved, and its marks are there.
LEMMA MovedGot ==
    ASSUME NEW h, NEW bl, NEW S, NEW F, NEW t \in DOMAIN bl, NEW r, NEW n \in Nat,
           NEW m \in Nat,
           SoundAt(h, bl, S, F), Moved(h, r, S, UsedChunks(bl), mem2chunk(bl[t].mem), m),
           m >= n + 4
    PROVE  Got(h, r, S, UsedChunks(Less(bl, t)), n) /\ NoneLost(r, bl[t], n, t)
<1> DEFINE U == UsedChunks(bl)
           b == bl[t]
           p == mem2chunk(b.mem)
<1>1. PICK T, G, q : MovedAt(h, r, S, U, p, m, T, G, q) BY DEF Moved
<1>2. /\ r.mem = chunk2mem(q) /\ q \notin U \ {p}
      /\ HeapAt(r.h, T, G, (U \ {p}) \union {q}) /\ Kept(h, r.h, S, T, U \ {p})
      /\ T[q] >= m /\ SameData(h, r.h, p, q, S[p], m)
  BY <1>1 DEF MovedAt
<1>3. HeapAt(h, S, F, U) /\ BlocksOk(h, bl, S) BY DEF SoundAt
<1>4. UsedChunks(Less(bl, t)) = U \ {p} BY <1>3, LessUsed
<1>5. BlockOk(h, S, b, t) /\ p \in U BY <1>3, UsedIs DEF BlocksOk
<1> DEFINE W == U \ {p}
<1>6. S[p] \in Nat /\ p \in Nat
  <2>1. Layout(h, S, F, U) /\ p \in F \union U BY <1>3, <1>5 DEF HeapAt
  <2> HIDE DEF U, p
  <2> QED BY ONLY <2>1, NormalAt
<1>7. T[q] \in Nat /\ q \in Nat
  <2>1. Layout(r.h, T, G, W \union {q}) /\ q \in G \union (W \union {q}) BY <1>2 DEF HeapAt
  <2> HIDE DEF W
  <2> QED BY ONLY <2>1, NormalAt
<1>8. GotAt(h, r, S, W, n, T, G, q) BY <1>2, <1>7 DEF GotAt
<1>9. ASSUME NEW a \in Marks(b), a < b.mem + n
      PROVE  Word(r.h, a - b.mem + r.mem) = t
  <2>1. p = mem2chunk(b.mem) OBVIOUS
  <2> HIDE DEF p, b, U
  <2>2. a \in Nat /\ p + 8 <= a /\ a < p + S[p] + 4 /\ b.mem = p + 8
    BY <2>1, <1>5, <1>6, MarksData
  <2>3. b.mem \in Nat /\ Word(h, a) = t BY <1>5 DEF BlockOk
  <2> DEFINE d == a - b.mem
  <2>4. d \in Nat /\ d + 4 < S[p] /\ d + 4 < m /\ p + 8 + d = a BY <2>2, <2>3, <1>6, <1>9
  <2>5. a - b.mem + r.mem = q + 8 + d
    BY <2>2, <2>3, <1>2, <1>7 DEF chunk2mem, SIZE_SZ
  <2> HIDE DEF d
  <2>6. Word(r.h, q + 8 + d) = Word(h, p + 8 + d) BY <2>4, <1>2 DEF SameData
  <2> QED BY <2>3, <2>4, <2>5, <2>6
<1> QED BY <1>4, <1>8, <1>9 DEF Got, NoneLost

-----------------------------------------------------------------------------
(* calloc().                                                                *)

\* The words that calloc() clears, and the heap with them cleared.
Zeroed(h, r) == {a \in DOMAIN r.h.mem : a >= r.mem /\ a < ClearedUpTo(h, r)}
Zero(g, Z) == [g EXCEPT !.mem = [a \in DOMAIN @ |-> IF a \in Z THEN 0 ELSE @[a]]]

\* Clearing words changes no other.
LEMMA ZeroIs ==
    ASSUME NEW g, NEW Z, IsHeap(g)
    PROVE  Wrote(g, Zero(g, Z)) /\ \A x : x \notin Z => Word(Zero(g, Z), x) = Word(g, x)
<1> DEFINE D == DOMAIN g.mem
           f == [a \in D |-> IF a \in Z THEN 0 ELSE g.mem[a]]
           k == [g EXCEPT !.mem = [a \in D |-> f[a]]]
<1>1. Zero(g, Z) = k
  <2>1. Zero(g, Z) = [g EXCEPT !.mem = f] BY DEF Zero, IsHeap
  <2>2. f = [a \in D |-> f[a]] OBVIOUS
  <2> QED BY <2>1, <2>2
<1>2. \A x \in D : f[x] = IF x \in Z THEN 0 ELSE g.mem[x] OBVIOUS
<1> HIDE DEF f
<1>3. Wrote(g, k) /\ \A x : Word(k, x) = IF x \in D THEN f[x] ELSE 0 BY NewMem
<1> HIDE DEF k
<1>4. \A x : x \notin Z => Word(k, x) = Word(g, x) BY <1>2, <1>3 DEF Word
<1> QED BY <1>1, <1>3, <1>4

\* The result of calloc().
LEMMA ClearedIs ==
    ASSUME NEW h, NEW c, NEW r, IsAnswer(r), ~(Long(c) < 0)
    PROVE  /\ r.mem = 0 => Cleared(h, c, r) = Null(r.h)
           /\ r.mem # 0 => /\ Cleared(h, c, r).h = Zero(r.h, Zeroed(h, r))
                           /\ Cleared(h, c, r).mem = r.mem
<1> DEFINE k == Zero(r.h, Zeroed(h, r))
           q == [h |-> k, mem |-> r.mem]
<1>1. [r EXCEPT !.h.mem = [a \in DOMAIN @ |-> IF a \in Zeroed(h, r) THEN 0 ELSE @[a]]] = q
  BY DEF IsAnswer, Zero
<1>2. Cleared(h, c, r) = IF Long(c) < 0 \/ r.mem = 0 THEN Null(r.h) ELSE q
  BY <1>1 DEF Cleared, Zeroed
<1>3. q.h = k /\ q.mem = r.mem OBVIOUS
<1> HIDE DEF q
<1> QED BY <1>2, <1>3

\* calloc() clears data of its own block only.
LEMMA ClearedAt ==
    ASSUME NEW h, NEW S, NEW F, NEW U, NEW c, NEW r, NEW nb, HeapAt(h, S, F, U), IsAnswer(r),
           Answer(h, r, S, U, nb), ~(Long(c) < 0)
    PROVE  Answer(h, Cleared(h, c, r), S, U, nb)
<1> DEFINE R == Cleared(h, c, r)
<1>1. /\ r.mem = 0 => R = Null(r.h)
      /\ r.mem # 0 => R.h = Zero(r.h, Zeroed(h, r)) /\ R.mem = r.mem
  BY ClearedIs
<1> HIDE DEF R
<1>2. ASSUME Refused(h, r, S, U, nb)
      PROVE  Answer(h, R, S, U, nb)
  <2>1. PICK T, G : RefusedAt(h, r, S, U, nb, T, G) BY <1>2 DEF Refused
  <2>2. r.mem = 0 BY <2>1 DEF RefusedAt
  <2>3. R.h = r.h /\ R.mem = 0 BY <1>1, <2>2 DEF Null
  <2>4. RefusedAt(h, R, S, U, nb, T, G) BY <2>1, <2>3 DEF RefusedAt
  <2> QED BY <2>4 DEF Refused, Answer
<1>3. ASSUME Given(h, r, S, U, nb)
      PROVE  Answer(h, R, S, U, nb)
  <2> DEFINE g == r.h
             Z == Zeroed(h, r)
             k == Zero(g, Z)
  <2>1. PICK T, G, p : GivenAt(h, r, S, U, nb, T, G, p) BY <1>3 DEF Given
  <2>2. /\ r.mem = chunk2mem(p) /\ p \notin U
        /\ HeapAt(g, T, G, U \union {p}) /\ Kept(h, g, S, T, U) /\ T[p] >= nb
    BY <2>1 DEF GivenAt
  <2>3. IsHeap(g) /\ Layout(g, T, G, U \union {p}) BY <2>2 DEF HeapAt
  <2>4. p \in Nat /\ p > 0 /\ T[p] \in Nat /\ chunksize(g, p) = T[p]
    <3>1. p \in G \union (U \union {p}) OBVIOUS
    <3> HIDE DEF g
    <3> QED BY ONLY <3>1, <2>3, NormalAt
  <2>5. r.mem = p + 8 /\ mem2chunk(r.mem) = p BY <2>2, <2>4 DEF chunk2mem, mem2chunk, SIZE_SZ
  <2>6. chunksize(h, h.top) \in Nat
    <3>1. Layout(h, S, F, U) BY DEF HeapAt
    <3>2. CASE h.top = 0 BY <3>2 DEF chunksize, InitialTop
    <3>3. CASE h.top # 0 BY <3>1, <3>3, TopIs
    <3> QED BY <3>2, <3>3
  <2>7. \A a \in Z : a >= p + 8 /\ a < ClearedUpTo(h, r) BY <2>5 DEF Zeroed
  <2>8. ClearedUpTo(h, r) \in Int /\ ClearedUpTo(h, r) <= p + T[p] + 4
    <3>1. ClearedUpTo(h, r) = p + 8 - 4 + (IF p = h.top /\ T[p] > chunksize(h, h.top)
                                           THEN chunksize(h, h.top) ELSE T[p])
      BY <2>4, <2>5 DEF ClearedUpTo, SIZE_SZ
    <3> QED BY <3>1, <2>4, <2>6
  <2> HIDE DEF g, Z, k
  <2>9. Wrote(g, k) /\ \A x : x \notin Z => Word(k, x) = Word(g, x) BY <2>3, ZeroIs DEF k
  <2>10. InnerWords(g, k, p, p + T[p])
    <3> SUFFICES ASSUME NEW x \in Nat, x < p + 8 \/ x >= p + T[p] + 4
                 PROVE  Word(k, x) = Word(g, x)
      BY DEF InnerWords
    <3>1. x \notin Z BY <2>4, <2>7, <2>8
    <3> QED BY <3>1, <2>9
  <2>11. HeapAt(k, T, G, U \union {p}) /\ Kept(g, k, T, T, U)
    <3> DEFINE V == U \union {p}
    <3>1. p \in V /\ HeapAt(g, T, G, V) /\ V \ {p} = U BY <2>2 DEF g
    <3> HIDE DEF V
    <3>2. HeapAt(k, T, G, V) /\ Kept(g, k, T, T, V \ {p}) BY <3>1, <2>9, <2>10, DataAt
    <3> QED BY <3>1, <3>2 DEF V
  <2>12. Kept(h, k, S, T, U)
    <3>1. Kept(h, g, S, T, U) BY <2>2 DEF g
    <3>2. Kept(h, k, S, T, U \intersect U) BY <3>1, <2>11, KeptTrans
    <3>3. U \intersect U = U OBVIOUS
    <3> QED BY <3>2, <3>3
  <2>13. R.h = k /\ R.mem = r.mem
    <3>1. r.mem # 0 BY <2>4, <2>5
    <3> QED BY <3>1, <1>1 DEF k, g, Z
  <2>14. GivenAt(h, R, S, U, nb, T, G, p) BY <2>2, <2>11, <2>12, <2>13 DEF GivenAt
  <2> QED BY <2>14 DEF Given, Answer
<1> QED BY <1>2, <1>3 DEF Answer, R

-----------------------------------------------------------------------------
(* What each call offers.                                                   *)

\* A chunk for n bytes was given out, or there is none for `asked' bytes.
Offer(h, r, S, U, n, asked) ==
    \/ \E m \in Nat : Given(h, r, S, U, m) /\ m >= n + 4
    \/ \E m \in Nat : Refused(h, r, S, U, m) /\ m <= request2size(asked)

\* malloc()'s answer to a request, in bytes.
LEMMA AnswerOffer ==
    ASSUME NEW h, NEW r, NEW S, NEW U, NEW n, NEW asked, RequestFits(n), RequestFits(asked),
           n <= asked, TopBit \in Nat, Answer(h, r, S, U, request2size(n))
    PROVE  Offer(h, r, S, U, n, asked)
<1> DEFINE m == request2size(n)
<1>1. Size8(m) /\ m >= n + 4 BY RequestIs
<1>2. m \in Nat BY <1>1, Size8Is
<1>3. m <= request2size(asked) BY RequestGrows
<1> HIDE DEF m
<1>4. Given(h, r, S, U, m) \/ Refused(h, r, S, U, m) BY DEF Answer, m
<1> QED BY <1>1, <1>2, <1>3, <1>4 DEF Offer

\* What malloc() offers.
LEMMA MallocOffer ==
    ASSUME NEW h, NEW S, NEW F, NEW U, NEW n, HeapAt(h, S, F, U), RequestFits(n),
           TopBit \in Nat, PageFacts
    PROVE  Offer(h, mALLOc(h, n), S, U, n, n)
<1>1. Long(n) \in Nat /\ Size8(request2size(n)) BY RequestIs
<1>2. Answer(h, mALLOc(h, n), S, U, request2size(n)) BY <1>1, MallocAt
<1>3. n <= n BY DEF RequestFits
<1> QED BY <1>2, <1>3, AnswerOffer

\* What calloc() offers.
LEMMA CallocOffer ==
    ASSUME NEW h, NEW S, NEW F, NEW U, NEW n, HeapAt(h, S, F, U), RequestFits(n),
           TopBit \in Nat, PageFacts
    PROVE  Offer(h, cALLOc(h, 1, n), S, U, n, n)
<1> DEFINE r == mALLOc(h, n)
<1>1. Long(n) \in Nat /\ Size8(request2size(n)) BY RequestIs
<1>2. Answer(h, r, S, U, request2size(n)) BY <1>1, MallocAt
<1>3. IsAnswer(r) BY <1>1, MallocAnswer
<1>4. ~(Long(1) < 0)
  <2>1. 1 < TopBit /\ 1 < 2 * TopBit /\ TopBit > 0 BY DEF RequestFits
  <2>2. Long(1) = 1 BY <2>1, LongIs
  <2> QED BY <2>2
<1>5. cALLOc(h, 1, n) = Cleared(h, 1, r)
  <2>1. (1 * n) % (2 * TopBit) = n
    <3>1. n \in Nat /\ n < 2 * TopBit BY DEF RequestFits
    <3> DEFINE d == 2 * TopBit
    <3>2. d \in Nat /\ d > 0 /\ n < d BY <3>1
    <3> HIDE DEF d
    <3>3. n % d = n BY <3>1, <3>2, DivMod
    <3>4. 1 * n = n BY <3>1
    <3> QED BY <3>3, <3>4 DEF d
  <2> QED BY <2>1 DEF cALLOc
<1> HIDE DEF r
<1>6. Answer(h, Cleared(h, 1, r), S, U, request2size(n)) BY <1>2, <1>3, <1>4, ClearedAt
<1>7. n <= n BY DEF RequestFits
<1> QED BY <1>5, <1>6, <1>7, AnswerOffer

\* memalign() to 8 bytes is malloc().
LEMMA AlignInSame ==
    ASSUME NEW r, NEW al \in Nat, NEW nb, r.mem = 0 \/ al <= 8
    PROVE  AlignIn(r, al, nb) = r
<1>1. al <= MALLOC_ALIGNMENT <=> al <= 8 BY DEF MALLOC_ALIGNMENT
<1>2. ~(r.mem # 0 /\ al > MALLOC_ALIGNMENT) BY DEF MALLOC_ALIGNMENT
<1> DEFINE p == mem2chunk(r.mem)
           align == Max({al, MINSIZE})
           spot == mem2chunk(RoundUp(r.mem, align))
           new == IF spot - p < MINSIZE THEN spot + align ELSE spot
           size == chunksize(r.h, p) - (new - p)
           h1 == set_inuse_bit(set_head(r.h, new, size), new + size)
           lead == fREe(set_head_size(h1, p, new - p), r.mem)
           other == IF r.mem % align = 0 THEN CutTail(r.h, p, nb) ELSE CutTail(lead, new, nb)
<1>3. AlignIn(r, al, nb) = CASE r.mem = 0 \/ al <= MALLOC_ALIGNMENT -> r
                             [] r.mem # 0 /\ al > MALLOC_ALIGNMENT -> other
  BY ONLY DEF AlignIn
<1> HIDE DEF other
<1> QED BY ONLY <1>1, <1>2, <1>3, r.mem = 0 \/ al <= 8

\* What memalign() asks malloc() for.
MoreOf(al, bytes) == request2size(bytes) + Max({al, MINSIZE}) + MINSIZE
AlignRequest(al, n) ==
    RequestFits(n) /\ al \in Nat /\ (al > 8 => al % 8 = 0) /\ n + al + 128 < TopBit

\* memalign()'s own request fits as well.
LEMMA MoreIs ==
    ASSUME NEW al, NEW n, AlignRequest(al, n), TopBit \in Nat
    PROVE  RequestFits(MoreOf(al, n)) /\ n <= MoreOf(al, n)
<1>1. n \in Nat /\ al \in Nat /\ n + al + 128 < TopBit /\ RequestFits(n)
  BY DEF AlignRequest, RequestFits
<1>2. /\ Size8(request2size(n)) /\ request2size(n) >= n + 4 /\ request2size(n) <= n + 16
  BY <1>1, RequestIs
<1>3. request2size(n) \in Nat BY <1>2, Size8Is
<1>4. Max({al, 16}) = IF al >= 16 THEN al ELSE 16 BY <1>1, MaxOfTwo
<1>5. MoreOf(al, n) = request2size(n) + (IF al >= 16 THEN al ELSE 16) + 16
  BY <1>4 DEF MoreOf, MINSIZE
<1> QED BY <1>1, <1>2, <1>3, <1>5 DEF RequestFits

\* What memalign() offers.
LEMMA AlignOffer ==
    ASSUME NEW h, NEW S, NEW F, NEW U, NEW al, NEW n, HeapAt(h, S, F, U), AlignRequest(al, n),
           TopBit \in Nat, PageFacts
    PROVE  Offer(h, mEMALIGn(h, al, n), S, U, n, MoreOf(al, n))
<1> DEFINE nb == request2size(n)
           more == MoreOf(al, n)
           R == mEMALIGn(h, al, n)
<1>1. RequestFits(n) /\ al \in Nat /\ (al > 8 => al % 8 = 0) BY DEF AlignRequest
<1>2. RequestFits(more) /\ n <= more BY MoreIs
<1>3. Long(n) \in Nat /\ ~(Long(n) < 0) /\ Size8(nb) /\ nb >= n + 4 BY <1>1, RequestIs
<1>4. R = AlignIn(mALLOc(h, IF al <= MALLOC_ALIGNMENT THEN n ELSE more), al, nb)
  BY <1>3 DEF mEMALIGn, MoreOf
<1>5. more = nb + AlignOf(al) + 16 BY DEF MoreOf, AlignOf, MINSIZE
<1>6. nb \in Nat BY <1>3, Size8Is
<1> HIDE DEF nb, more, R
<1>7. CASE al <= 8
  <2>1. R = mALLOc(h, n)
    <3>1. R = AlignIn(mALLOc(h, n), al, nb) BY <1>4, <1>7 DEF MALLOC_ALIGNMENT
    <3> QED BY <3>1, <1>1, <1>7, AlignInSame
  <2>2. Answer(h, mALLOc(h, n), S, U, nb) BY <1>3, MallocAt DEF nb
  <2>3. Answer(h, R, S, U, request2size(n)) BY <2>1, <2>2 DEF nb
  <2>4. Offer(h, R, S, U, n, more) BY <2>3, <1>1, <1>2, AnswerOffer
  <2> QED BY <2>4 DEF R, more
<1>8. CASE al > 8
  <2> DEFINE m == request2size(more)
             r == mALLOc(h, more)
  <2>1. R = AlignIn(r, al, nb) BY <1>1, <1>4, <1>8 DEF MALLOC_ALIGNMENT
  <2>2. Long(more) \in Nat /\ Size8(m) /\ m >= more + 4 BY <1>2, RequestIs
  <2>3. Answer(h, r, S, U, m) BY <2>2, MallocAt
  <2>4. m \in Nat BY <2>2, Size8Is
  <2>5. m = request2size(more) OBVIOUS
  <2> HIDE DEF m, r
  <2>6. AlignFits(al) BY <1>1, <1>8 DEF AlignFits
  <2>7. ASSUME Given(h, r, S, U, m) PROVE Offer(h, R, S, U, n, more)
    <3>1. AlignOf(al) \in Nat BY <2>6, AlignOfIs
    <3>2. m >= nb + AlignOf(al) + 16 BY <3>1, <1>5, <1>6, <2>2, <2>4
    <3>3. Given(h, R, S, U, nb) BY <3>2, <1>3, <2>1, <2>4, <2>6, <2>7, AlignAt
    <3> QED BY <3>3, <1>3, <1>6 DEF Offer
  <2>8. ASSUME Refused(h, r, S, U, m) PROVE Offer(h, R, S, U, n, more)
    <3>1. r.mem = 0 BY <2>8 DEF Refused, RefusedAt
    <3>2. R = r BY <3>1, <1>1, <2>1, AlignInSame
    <3>3. m <= m BY <2>4
    <3> QED BY <3>2, <3>3, <2>4, <2>5, <2>8 DEF Offer
  <2>9. Offer(h, R, S, U, n, more) BY <2>3, <2>7, <2>8 DEF Answer
  <2> QED BY <2>9 DEF R, more
<1> QED BY <1>1, <1>7, <1>8

\* A larger chunk than was asked for will do.
LEMMA OfferLess ==
    ASSUME NEW h, NEW r, NEW S, NEW U, NEW m \in Nat, NEW n \in Nat, n <= m, NEW asked,
           Offer(h, r, S, U, m, asked)
    PROVE  Offer(h, r, S, U, n, asked)
<1>1. \A k \in Nat : k >= m + 4 => k >= n + 4 OBVIOUS
<1> QED BY <1>1 DEF Offer

-----------------------------------------------------------------------------
(* The inductive invariant, kept by every step.                             *)

\* The assumptions on the constants, as the lemmas need them.
LEMMA ConstFacts ==
    /\ TopBit \in Nat /\ PageFacts /\ TopPads \union {0} \subseteq Nat
    /\ \A pad \in Pads \union TopPads \union {0} : PadFits(pad)
BY MallocConstants DEF PageFacts, PadFits

\* ... for every request.
LEMMA RequestsFit ==
    ASSUME NEW n \in Requests
    PROVE  /\ n \in Nat /\ RequestFits(n)
           /\ \A al \in Alignments : AlignRequest(al, n)
           /\ AlignRequest(PageSize, n)
           /\ AlignRequest(PageSize, RoundUp(n, PageSize))
           /\ RoundUp(n, PageSize) \in Nat /\ n <= RoundUp(n, PageSize)
<1>1. /\ PageSize \in Nat /\ PageSize >= 16 /\ PageSize % 8 = 0 /\ TopBit \in Nat
      /\ n \in Nat /\ Alignments \subseteq Nat
  BY MallocConstants
<1>2. \A al \in Alignments \union {PageSize} : n + 2 * PageSize + al + 128 < TopBit
  BY MallocConstants
<1>3. \A al \in Alignments : al > 8 => al % 8 = 0 BY MallocConstants
<1> DEFINE m == RoundUp(n, PageSize)
<1>4. m \in Nat /\ n <= m /\ m < n + PageSize BY <1>1, RoundUpIs
<1> HIDE DEF m
<1>5. RequestFits(n) /\ RequestFits(m) BY <1>1, <1>2, <1>4 DEF RequestFits
<1>6. ASSUME NEW al \in Alignments PROVE AlignRequest(al, n)
  BY <1>1, <1>2, <1>3, <1>5 DEF AlignRequest
<1>7. AlignRequest(PageSize, n) BY <1>1, <1>2, <1>5 DEF AlignRequest
<1>8. AlignRequest(PageSize, m) BY <1>1, <1>2, <1>4, <1>5 DEF AlignRequest
<1> QED BY <1>1, <1>4, <1>5, <1>6, <1>7, <1>8 DEF m

\* What holds between calls.
FullIf(h, asked) == asked # 0 => FullFor(h, request2size(asked))
AllocatorInv == Sound(heap, blocks) /\ FullIf(heap, refused) /\ ~lost

\* A step that gives a program a block.
LEMMA ReceiveGot ==
    ASSUME NEW t, NEW r, NEW n \in Nat, NEW S,
           NEW F, SoundAt(heap, blocks, S, F), Receive(t, r, n),
           Got(heap, r, S, UsedChunks(Less(blocks, t)), n)
    PROVE  Sound(heap', blocks') /\ r.mem # 0
<1> DEFINE b == BlockOf(r, n)
           k == Written(r.h, b, t)
           bl == More(blocks, t, b)
<1>1. r.mem # 0
  <2> DEFINE W == UsedChunks(Less(blocks, t))
  <2>1. PICK T, G, q : GotAt(heap, r, S, W, n, T, G, q) BY DEF Got
  <2>2. r.mem = chunk2mem(q) /\ Layout(r.h, T, G, W \union {q}) /\ q \in G \union (W \union {q})
    BY <2>1 DEF GotAt, HeapAt
  <2> HIDE DEF W
  <2>3. q \in Nat /\ q > 0 BY ONLY <2>2, NormalAt
  <2> QED BY <2>2, <2>3 DEF chunk2mem, SIZE_SZ
<1>2. heap' = Forget(k, bl) /\ blocks' = bl
  BY <1>1 DEF Receive, BlockOf, Written, More
<1>3. Sound(k, bl) BY ReceiveSound
<1> HIDE DEF k, bl
<1>4. PICK T, G : SoundAt(k, bl, T, G) BY <1>3 DEF Sound
<1>5. SoundAt(heap', blocks', T, G) BY <1>2, <1>4, ForgetSound
<1> QED BY <1>1, <1>5 DEF Sound

\* A step that refuses it one.
LEMMA ReceiveRefused ==
    ASSUME NEW t, NEW r, NEW n, NEW S, NEW F, SoundAt(heap, blocks, S, F), Receive(t, r, n),
           NEW m \in Nat, NEW asked, Refused(heap, r, S, UsedChunks(blocks), m),
           m <= request2size(asked), RequestFits(asked)
    PROVE  Sound(heap', blocks') /\ FullIf(heap', asked) /\ r.mem = 0
<1> DEFINE nb == request2size(asked)
<1>1. nb \in Nat
  <2>1. Size8(nb) BY ConstFacts, RequestIs
  <2> QED BY <2>1, Size8Is
<1> DEFINE g == Forget(r.h, blocks)
<1>2. Sound(g, blocks) /\ FullFor(g, nb) /\ r.mem = 0
  <2>1. PageFacts /\ TopPads \union {0} \subseteq Nat BY ConstFacts
  <2> HIDE DEF nb
  <2>2. m <= nb BY DEF nb
  <2> QED BY <1>1, <2>1, <2>2, RefusedFull
<1>3. heap' = g /\ blocks' = blocks BY <1>2 DEF Receive
<1> QED BY <1>2, <1>3 DEF FullIf

\* Nothing is said when nothing was refused.
LEMMA NoFull ==
    ASSUME NEW h
    PROVE  FullIf(h, 0)
BY DEF FullIf

\* A step that allocates keeps the invariant.
LEMMA AllocateKeeps ==
    ASSUME NEW t, NEW r, NEW n \in Nat, NEW asked, NEW S, NEW F, SoundAt(heap, blocks, S, F),
           Allocate(t, r, n, asked), RequestFits(asked),
           Offer(heap, r, S, UsedChunks(blocks), n, asked)
    PROVE  Sound(heap', blocks') /\ FullIf(heap', refused')
<1>1. t \notin DOMAIN blocks /\ Receive(t, r, n) /\ refused' = IF r.mem = 0 THEN asked ELSE 0
  BY DEF Allocate
<1>2. ASSUME NEW m \in Nat, Given(heap, r, S, UsedChunks(blocks), m), m >= n + 4
      PROVE  Sound(heap', blocks') /\ FullIf(heap', refused')
  <2>1. Got(heap, r, S, UsedChunks(Less(blocks, t)), n) BY <1>1, <1>2, GivenGot
  <2>2. Sound(heap', blocks') /\ r.mem # 0 BY <1>1, <2>1, ReceiveGot
  <2> QED BY <1>1, <2>2, NoFull
<1>3. ASSUME NEW m \in Nat, Refused(heap, r, S, UsedChunks(blocks), m), m <= request2size(asked)
      PROVE  Sound(heap', blocks') /\ FullIf(heap', refused')
  <2>1. Sound(heap', blocks') /\ FullIf(heap', asked) /\ r.mem = 0 BY <1>1, <1>3, ReceiveRefused
  <2> QED BY <1>1, <2>1
<1> QED BY <1>2, <1>3 DEF Offer

\* The chunks of the heap, as the invariant has them.
LEMMA HeapOf ==
    ASSUME AllocatorInv
    PROVE  \E S, F : SoundAt(heap, blocks, S, F)
BY DEF AllocatorInv, Sound

\* malloc() keeps the invariant.
LEMMA MallocKeeps ==
    ASSUME AllocatorInv, NEW t, Malloc(t)
    PROVE  AllocatorInv'
<1>1. PICK S, F : SoundAt(heap, blocks, S, F) BY HeapOf
<1>2. PICK n \in Requests : Allocate(t, mALLOc(heap, n), n, n) /\ lost' = FALSE BY DEF Malloc
<1>3. HeapAt(heap, S, F, UsedChunks(blocks)) BY <1>1 DEF SoundAt
<1>4. n \in Nat /\ RequestFits(n) BY RequestsFit
<1>5. Offer(heap, mALLOc(heap, n), S, UsedChunks(blocks), n, n)
  BY <1>3, <1>4, ConstFacts, MallocOffer
<1>6. Sound(heap', blocks') /\ FullIf(heap', refused') BY <1>1, <1>2, <1>4, <1>5, AllocateKeeps
<1> QED BY <1>2, <1>6 DEF AllocatorInv

\* memalign() keeps the invariant.
LEMMA MemalignKeeps ==
    ASSUME AllocatorInv, NEW t, Memalign(t)
    PROVE  AllocatorInv'
<1>1. PICK S, F : SoundAt(heap, blocks, S, F) BY HeapOf
<1>2. PICK n \in Requests, al \in Alignments :
         Allocate(t, mEMALIGn(heap, al, n), n, MoreOf(al, n)) /\ lost' = FALSE
  BY DEF Memalign, MoreOf
<1>3. HeapAt(heap, S, F, UsedChunks(blocks)) BY <1>1 DEF SoundAt
<1>4. n \in Nat /\ AlignRequest(al, n) BY RequestsFit
<1>5. Offer(heap, mEMALIGn(heap, al, n), S, UsedChunks(blocks), n, MoreOf(al, n))
  BY <1>3, <1>4, ConstFacts, AlignOffer
<1>6. RequestFits(MoreOf(al, n)) BY <1>4, ConstFacts, MoreIs
<1>7. Sound(heap', blocks') /\ FullIf(heap', refused') BY <1>1, <1>2, <1>4, <1>5, <1>6, AllocateKeeps
<1> QED BY <1>2, <1>7 DEF AllocatorInv

\* valloc() and pvalloc() keep the invariant.
LEMMA VallocKeeps ==
    ASSUME AllocatorInv, NEW t, Valloc(t)
    PROVE  AllocatorInv'
<1>1. PICK S, F : SoundAt(heap, blocks, S, F) BY HeapOf
<1> DEFINE whole(n) == RoundUp(n, PageSize)
<1>2. \A n : MoreOf(PageSize, n) = request2size(n) + PageSize + MINSIZE
  <2>1. PageSize \in Nat /\ PageSize >= 16 BY MallocConstants
  <2>2. Max({PageSize, 16}) = PageSize BY <2>1, MaxOfTwo
  <2> QED BY <2>2 DEF MoreOf, MINSIZE
<1>3. PICK n \in Requests :
         /\ \/ Allocate(t, mEMALIGn(heap, PageSize, n), n, MoreOf(PageSize, n))
            \/ Allocate(t, mEMALIGn(heap, PageSize, whole(n)), n, MoreOf(PageSize, whole(n)))
         /\ lost' = FALSE
  BY <1>2 DEF Valloc, vALLOc, pvALLOc
<1>4. HeapAt(heap, S, F, UsedChunks(blocks)) BY <1>1 DEF SoundAt
<1>5. /\ n \in Nat /\ AlignRequest(PageSize, n) /\ AlignRequest(PageSize, whole(n))
      /\ whole(n) \in Nat /\ n <= whole(n)
  BY RequestsFit
<1>6. ASSUME NEW m \in Nat, n <= m, AlignRequest(PageSize, m),
             Allocate(t, mEMALIGn(heap, PageSize, m), n, MoreOf(PageSize, m))
      PROVE  Sound(heap', blocks') /\ FullIf(heap', refused')
  <2>1. Offer(heap, mEMALIGn(heap, PageSize, m), S, UsedChunks(blocks), m, MoreOf(PageSize, m))
    BY <1>4, <1>6, ConstFacts, AlignOffer
  <2>2. Offer(heap, mEMALIGn(heap, PageSize, m), S, UsedChunks(blocks), n, MoreOf(PageSize, m))
    BY <2>1, <1>5, <1>6, OfferLess
  <2>3. RequestFits(MoreOf(PageSize, m)) BY <1>6, ConstFacts, MoreIs
  <2> QED BY <1>1, <1>5, <1>6, <2>2, <2>3, AllocateKeeps
<1> HIDE DEF whole
<1>7. n <= n BY <1>5
<1>8. Sound(heap', blocks') /\ FullIf(heap', refused') BY <1>3, <1>5, <1>6, <1>7
<1> QED BY <1>3, <1>8 DEF AllocatorInv


\* calloc() keeps the invariant.
LEMMA CallocKeeps ==
    ASSUME AllocatorInv, NEW t, Calloc(t)
    PROVE  AllocatorInv'
<1>1. PICK S, F : SoundAt(heap, blocks, S, F) BY HeapOf
<1>2. PICK n \in Requests : Allocate(t, cALLOc(heap, 1, n), n, n) /\ lost' = FALSE
  BY DEF Calloc, CallocGave
<1>3. HeapAt(heap, S, F, UsedChunks(blocks)) BY <1>1 DEF SoundAt
<1>4. n \in Nat /\ RequestFits(n) BY RequestsFit
<1>5. Offer(heap, cALLOc(heap, 1, n), S, UsedChunks(blocks), n, n)
  BY <1>3, <1>4, ConstFacts, CallocOffer
<1>6. Sound(heap', blocks') /\ FullIf(heap', refused') BY <1>1, <1>2, <1>4, <1>5, AllocateKeeps
<1> QED BY <1>2, <1>6 DEF AllocatorInv

\* realloc() keeps the invariant.
LEMMA ReallocKeeps ==
    ASSUME AllocatorInv, NEW t, Realloc(t)
    PROVE  AllocatorInv'
<1>1. PICK S, F : SoundAt(heap, blocks, S, F) BY HeapOf
<1>2. t \in DOMAIN blocks BY DEF Realloc
<1> DEFINE b == blocks[t]
           p == mem2chunk(b.mem)
           U == UsedChunks(blocks)
<1>3. PICK n \in Requests : ReallocGave(t, b, rEALLOc(heap, b.mem, n), n) BY DEF Realloc
<1> DEFINE r == rEALLOc(heap, b.mem, n)
           nb == request2size(n)
<1>4. HeapAt(heap, S, F, U) /\ BlocksOk(heap, blocks, S) BY <1>1 DEF SoundAt
<1>5. n \in Nat /\ RequestFits(n) BY RequestsFit
<1>6. Long(n) \in Nat /\ Size8(nb) /\ nb >= n + 4 BY <1>5, ConstFacts, RequestIs
<1>7. p \in U /\ chunk2mem(p) = b.mem
  <2>1. p \in U BY <1>2, UsedIs
  <2>2. b.mem \in Nat BY <1>2, <1>4 DEF BlocksOk, BlockOk
  <2> QED BY <2>1, <2>2 DEF chunk2mem, mem2chunk, SIZE_SZ
<1>8. Settled(heap, r, S, U, p, nb)
  <2> HIDE DEF p, U, b
  <2>1. Settled(heap, rEALLOc(heap, chunk2mem(p), n), S, U, p, nb)
    BY <1>4, <1>6, <1>7, ConstFacts, ReallocAt
  <2> QED BY <2>1, <1>7
<1>9. nb \in Nat BY <1>6, Size8Is
<1>10. /\ Receive(t, r, n) /\ refused' = IF r.mem = 0 THEN n ELSE 0
       /\ lost' = /\ r.mem # 0
                  /\ \E a \in Marks(b) : a < b.mem + n /\ Word(r.h, a - b.mem + r.mem) # t
  BY <1>3 DEF ReallocGave
<1> HIDE DEF r, nb
<1>11. ASSUME Moved(heap, r, S, U, p, nb)
       PROVE  AllocatorInv'
  <2>1. Got(heap, r, S, UsedChunks(Less(blocks, t)), n) /\ NoneLost(r, b, n, t)
    BY <1>1, <1>2, <1>5, <1>6, <1>9, <1>11, MovedGot
  <2>2. Sound(heap', blocks') /\ r.mem # 0 BY <2>1, <1>1, <1>5, <1>10, ReceiveGot
  <2>3. ~lost' BY <2>1, <1>10 DEF NoneLost
  <2>4. refused' = 0 BY <2>2, <1>10
  <2> QED BY <2>2, <2>3, <2>4, NoFull DEF AllocatorInv
<1>12. ASSUME Refused(heap, r, S, U, nb)
       PROVE  AllocatorInv'
  <2>1. nb <= request2size(n) BY <1>9 DEF nb
  <2>2. Sound(heap', blocks') /\ FullIf(heap', n) /\ r.mem = 0
    BY <2>1, <1>1, <1>5, <1>9, <1>10, <1>12, ReceiveRefused
  <2>3. ~lost' /\ refused' = n BY <2>2, <1>10
  <2> QED BY <2>2, <2>3 DEF AllocatorInv
<1> QED BY <1>8, <1>11, <1>12 DEF Settled

\* free() keeps the invariant.
LEMMA FreeKeepsInv ==
    ASSUME AllocatorInv, NEW t, Free(t)
    PROVE  AllocatorInv'
<1>1. PICK S, F : SoundAt(heap, blocks, S, F) BY HeapOf
<1> DEFINE b == blocks[t]
           p == mem2chunk(b.mem)
           U == UsedChunks(blocks)
           bl == Less(blocks, t)
           g == fREe(heap, b.mem)
           W == UsedChunks(bl)
<1>2. t \in DOMAIN blocks /\ heap' = Forget(g, bl) /\ blocks' = bl /\ refused' = 0 /\ ~lost'
  BY DEF Free, Less
<1>3. HeapAt(heap, S, F, U) /\ BlocksOk(heap, blocks, S) BY <1>1 DEF SoundAt
<1>4. p \in U /\ chunk2mem(p) = b.mem
  <2>1. p \in U BY <1>2, UsedIs
  <2>2. b.mem \in Nat BY <1>2, <1>3 DEF BlocksOk, BlockOk
  <2> QED BY <2>1, <2>2 DEF chunk2mem, mem2chunk, SIZE_SZ
<1>5. W = U \ {p} BY <1>2, <1>3, LessUsed
<1> HIDE DEF W
<1>6. After(heap, g, S, W, W)
  <2> HIDE DEF p, U, b
  <2>1. After(heap, fREe(heap, chunk2mem(p)), S, U \ {p}, U \ {p}) BY <1>3, <1>4, FreeKeeps
  <2> QED BY <2>1, <1>4, <1>5
<1> HIDE DEF g
<1>7. PICK T, G : HeapAt(g, T, G, W) /\ Kept(heap, g, S, T, W) BY <1>6 DEF After
<1>8. BlocksOk(heap, bl, S) BY <1>3, LessOk
<1>9. \A q \in W : S[q] \in Nat
  <2>1. Layout(heap, S, F, U) BY <1>3 DEF HeapAt
  <2> QED BY <2>1, <1>5, NormalAt
<1> HIDE DEF bl
<1>10. BlocksOk(g, bl, T) BY <1>7, <1>8, <1>9, KeptBlocks DEF W
<1>11. SoundAt(g, bl, T, G) BY <1>7, <1>10 DEF SoundAt, W
<1>12. SoundAt(heap', blocks', T, G) BY <1>2, <1>11, ForgetSound
<1> QED BY <1>2, <1>12, NoFull DEF AllocatorInv, Sound

\* A call that keeps every block, and forgets nothing.
LEMMA OtherKeeps ==
    ASSUME NEW S, NEW F, SoundAt(heap, blocks, S, F), NEW T, NEW G,
           HeapAt(heap', T, G, UsedChunks(blocks)), Kept(heap, heap', S, T, UsedChunks(blocks)),
           UNCHANGED blocks, refused' = 0, lost' = FALSE
    PROVE  AllocatorInv'
<1>1. SoundAt(heap', blocks, T, G) BY SoundKept
<1>2. Sound(heap', blocks') BY <1>1 DEF Sound
<1> QED BY <1>2, NoFull DEF AllocatorInv

\* malloc_trim() keeps the invariant.
LEMMA TrimKeepsInv ==
    ASSUME AllocatorInv, Trim
    PROVE  AllocatorInv'
<1>1. PICK S, F : SoundAt(heap, blocks, S, F) BY HeapOf
<1>2. PICK pad \in Pads : heap' = malloc_trim(heap, pad) BY DEF Trim
<1>3. heap.top # 0 /\ UNCHANGED blocks /\ refused' = 0 /\ lost' = FALSE BY DEF Trim, InitialTop
<1>4. HeapAt(heap, S, F, UsedChunks(blocks)) BY <1>1 DEF SoundAt
<1>5. PadFits(pad) BY ConstFacts
<1>6. \E T : /\ HeapAt(malloc_trim(heap, pad), T, F, UsedChunks(blocks))
             /\ Kept(heap, malloc_trim(heap, pad), S, T, UsedChunks(blocks))
  BY <1>3, <1>4, <1>5, TrimKeeps
<1>7. PICK T : HeapAt(heap', T, F, UsedChunks(blocks)) /\ Kept(heap, heap', S, T, UsedChunks(blocks))
  BY <1>2, <1>6
<1> QED BY <1>1, <1>3, <1>7, OtherKeeps

\* Only a parameter of mallopt() differs.
LEMMA TunedAt ==
    ASSUME NEW h, NEW S, NEW F, NEW U, HeapAt(h, S, F, U), NEW v,
           NEW w \in TopPads \union {0}
    PROVE  /\ HeapAt([h EXCEPT !.trim_threshold = v], S, F, U)
           /\ Kept(h, [h EXCEPT !.trim_threshold = v], S, S, U)
           /\ HeapAt([h EXCEPT !.top_pad = w], S, F, U)
           /\ Kept(h, [h EXCEPT !.top_pad = w], S, S, U)
<1>1. IsHeap(h) /\ Layout(h, S, F, U) /\ SysOk(h, S) /\ BinsOk(h.bin, h.marked, S, F)
  BY DEF HeapAt
<1>2. ASSUME NEW g, IsHeap(g), g.mem = h.mem, g.bin = h.bin, g.marked = h.marked, g.top = h.top,
             g.brk = h.brk, g.start = h.start, g.end = h.end, g.base = h.base,
             g.fence = h.fence, g.top_pad \in TopPads \union {0}
      PROVE  HeapAt(g, S, F, U) /\ Kept(h, g, S, S, U)
  <2>1. \A x : Word(g, x) = Word(h, x) BY <1>2 DEF Word
  <2>2. Encoded(g, S, F) BY <2>1, <1>1 DEF Layout, Encoded, HeadOf
  <2>3. Layout(g, S, F, U) BY <2>2, <1>1, <1>2 DEF Layout
  <2>4. SysOk(g, S) BY <1>1, <1>2 DEF SysOk
  <2> QED BY <2>1, <2>3, <2>4, <1>1, <1>2, KeptSameWords DEF HeapAt
<1> DEFINE a == [h EXCEPT !.trim_threshold = v]
           b == [h EXCEPT !.top_pad = w]
<1>3. /\ a.mem = h.mem /\ a.bin = h.bin /\ a.marked = h.marked /\ a.top = h.top
      /\ a.brk = h.brk /\ a.start = h.start /\ a.end = h.end /\ a.base = h.base
      /\ a.high = h.high /\ a.fence = h.fence /\ a.trim_threshold = v /\ a.top_pad = h.top_pad
      /\ a = [mem |-> h.mem, bin |-> h.bin, marked |-> h.marked, top |-> h.top,
              brk |-> h.brk, start |-> h.start, end |-> h.end, base |-> h.base,
              high |-> h.high, fence |-> h.fence, trim_threshold |-> v, top_pad |-> h.top_pad]
  BY <1>1 DEF IsHeap
<1>4. /\ b.mem = h.mem /\ b.bin = h.bin /\ b.marked = h.marked /\ b.top = h.top
      /\ b.brk = h.brk /\ b.start = h.start /\ b.end = h.end /\ b.base = h.base
      /\ b.high = h.high /\ b.fence = h.fence /\ b.trim_threshold = h.trim_threshold
      /\ b.top_pad = w
      /\ b = [mem |-> h.mem, bin |-> h.bin, marked |-> h.marked, top |-> h.top,
              brk |-> h.brk, start |-> h.start, end |-> h.end, base |-> h.base,
              high |-> h.high, fence |-> h.fence, trim_threshold |-> h.trim_threshold,
              top_pad |-> w]
  BY <1>1 DEF IsHeap
<1> HIDE DEF a, b
<1>5. h.mem = [x \in DOMAIN h.mem |-> h.mem[x]] /\ h.bin = [i \in DOMAIN h.bin |-> h.bin[i]]
  BY <1>1 DEF IsHeap
<1>6. IsHeap(a) /\ IsHeap(b) BY <1>3, <1>4, <1>5 DEF IsHeap
<1>7. h.top_pad \in TopPads \union {0} BY <1>1 DEF SysOk
<1>8. HeapAt(a, S, F, U) /\ Kept(h, a, S, S, U) BY <1>2, <1>3, <1>6, <1>7
<1>9. HeapAt(b, S, F, U) /\ Kept(h, b, S, S, U) BY <1>2, <1>4, <1>6
<1> QED BY <1>8, <1>9 DEF a, b

\* mallopt() keeps the invariant.
LEMMA MalloptKeeps ==
    ASSUME AllocatorInv, mALLOPt
    PROVE  AllocatorInv'
<1>1. PICK S, F : SoundAt(heap, blocks, S, F) BY HeapOf
<1>2. UNCHANGED blocks /\ refused' = 0 /\ lost' = FALSE BY DEF mALLOPt
<1>3. HeapAt(heap, S, F, UsedChunks(blocks)) BY <1>1 DEF SoundAt
<1>4. HeapAt(heap', S, F, UsedChunks(blocks)) /\ Kept(heap, heap', S, S, UsedChunks(blocks))
  <2>1. CASE \E v \in TrimThresholds : heap' = [heap EXCEPT !.trim_threshold = v]
    <3>1. PICK v \in TrimThresholds : heap' = [heap EXCEPT !.trim_threshold = v] BY <2>1
    <3>2. 0 \in TopPads \union {0} OBVIOUS
    <3> QED BY <3>1, <3>2, <1>3, TunedAt
  <2>2. CASE \E w \in TopPads : heap' = [heap EXCEPT !.top_pad = w]
    <3>1. PICK w \in TopPads : heap' = [heap EXCEPT !.top_pad = w] BY <2>2
    <3>2. w \in TopPads \union {0} BY <3>1
    <3> QED BY <3>1, <3>2, <1>3, TunedAt
  <2> QED BY <2>1, <2>2 DEF mALLOPt
<1> QED BY <1>1, <1>2, <1>4, OtherKeeps

\* A program's own sbrk() keeps the invariant.
LEMMA ForeignKeeps ==
    ASSUME AllocatorInv, ForeignSbrk
    PROVE  AllocatorInv'
<1>1. PICK S, F : SoundAt(heap, blocks, S, F) BY HeapOf
<1>2. PICK n \in ForeignSizes : heap' = sbrk(heap, n) BY DEF ForeignSbrk
<1>3. UNCHANGED blocks /\ refused' = 0 /\ lost' = FALSE BY DEF ForeignSbrk
<1> DEFINE U == UsedChunks(blocks)
<1>4. HeapAt(heap, S, F, U) BY <1>1 DEF SoundAt
<1>5. IsHeap(heap) /\ SysOk(heap, S) /\ n \in Nat BY <1>4, MallocConstants DEF HeapAt
<1> HIDE DEF U
<1>6. HeapAt(heap', S, F, U) /\ Kept(heap, heap', S, S, U)
  <2>1. CASE SbrkFails(heap, n)
    <3>1. heap' = heap BY <1>2, <2>1, SbrkNot
    <3> QED BY <3>1, <1>4, KeptRefl
  <2>2. CASE ~SbrkFails(heap, n)
    <3> DEFINE g == sbrk(heap, n)
    <3>1. /\ Around(heap, g) /\ g.top = heap.top /\ g.base = heap.base
          /\ g.brk = heap.brk + n /\ \A x : Word(g, x) = Word(heap, x)
      BY <1>5, <2>2, SbrkIs
    <3> HIDE DEF g
    <3>2. heap.brk \in Nat /\ heap.end \in Nat /\ (heap.top # 0 => heap.base # -1)
      BY <1>5 DEF SysOk
    <3>3. g.brk \in Nat /\ heap.brk <= g.brk /\ g.brk <= heap.end
      BY <3>1, <3>2, <1>5, <2>2 DEF SbrkFails
    <3>4. g.end = heap.end BY <3>1 DEF Around
    <3>5. HeapAt(g, S, F, U) /\ Kept(heap, g, S, S, U) BY <3>1, <3>2, <3>3, <3>4, <1>4, BreakMoved
    <3> QED BY <3>5, <1>2 DEF g
  <2> QED BY <2>1, <2>2
<1> QED BY <1>1, <1>3, <1>6, OtherKeeps DEF U

-----------------------------------------------------------------------------
(* The theorems.                                                            *)

\* A heap with nothing in it.
LEMMA EmptyHeap ==
    ASSUME NEW start \in Nat, start > 0
    PROVE  SoundAt(mem_malloc_init(start), << >>, << >>, {})
<1> DEFINE h == mem_malloc_init(start)
           e == << >>
<1>1. HeapSize \in Nat BY MallocConstants
<1>2. DOMAIN e = {} /\ e = [x \in DOMAIN e |-> e[x]] OBVIOUS
<1>3. /\ h.mem = e /\ h.bin = e /\ h.marked = {} /\ h.top = 0 /\ h.brk = start
      /\ h.start = start /\ h.end = start + HeapSize /\ h.base = -1 /\ h.high = start
      /\ h.fence = {} /\ h.top_pad = 0
      /\ h = [mem |-> h.mem, bin |-> h.bin, marked |-> h.marked, top |-> h.top,
              brk |-> h.brk, start |-> h.start, end |-> h.end, base |-> h.base,
              high |-> h.high, fence |-> h.fence,
              trim_threshold |-> h.trim_threshold, top_pad |-> h.top_pad]
  BY DEF mem_malloc_init, InitialTop
<1> HIDE DEF h, e
<1>4. IsHeap(h) BY <1>2, <1>3 DEF IsHeap
<1>5. SysOk(h, e) BY <1>1, <1>3 DEF SysOk
<1>6. Tiled(e, {}, {}, 0)
  <2>1. Placed(e, {}, {}, 0) BY <1>2 DEF Placed
  <2>2. Apart(e) BY <1>2 DEF Apart
  <2>3. Normal(e, {}) /\ Fenced(e, {}, {}) BY DEF Normal, Fenced
  <2>4. Topped(e, 0) BY <1>2 DEF Topped
  <2> QED BY <2>1, <2>2, <2>3, <2>4 DEF Tiled
<1>7. NoTwoFree(e, {}, 0) BY DEF NoTwoFree
<1>8. Encoded(h, e, {}) BY <1>2 DEF Encoded
<1>9. Layout(h, e, {}, {}) BY <1>3, <1>6, <1>7, <1>8 DEF Layout
<1>10. BinsOk(e, {}, e, {}) BY <1>2 DEF BinsOk, BinsShape, BinsEach, BinsOnce, BinsSized
<1>11. UsedChunks(e) = {} BY <1>2 DEF UsedChunks
<1>12. HeapAt(h, e, {}, UsedChunks(e)) BY <1>3, <1>4, <1>5, <1>9, <1>10, <1>11 DEF HeapAt
<1>13. BlocksOk(h, e, e) BY <1>2 DEF BlocksOk
<1> QED BY <1>12, <1>13 DEF SoundAt, h, e

\* The invariant holds of a heap with nothing in it.
LEMMA AllocatorInit ==
    ASSUME MallocInit
    PROVE  AllocatorInv
<1>1. PICK start \in HeapStarts : heap = mem_malloc_init(start) BY DEF MallocInit
<1>2. start \in Nat /\ start > 0 BY <1>1, MallocConstants
<1>3. blocks = << >> /\ refused = 0 /\ ~lost BY DEF MallocInit
<1>4. SoundAt(mem_malloc_init(start), << >>, << >>, {}) BY <1>2, EmptyHeap
<1>5. Sound(mem_malloc_init(start), << >>) BY <1>4 DEF Sound
<1>6. Sound(heap, blocks) BY <1>1, <1>3, <1>5
<1> QED BY <1>3, <1>6, NoFull DEF AllocatorInv

\* Every step keeps the invariant.
LEMMA AllocatorNext ==
    ASSUME AllocatorInv, [MallocNext]_mallocVars
    PROVE  AllocatorInv'
<1>1. CASE UNCHANGED mallocVars
  <2>1. UNCHANGED <<heap, blocks, refused, lost>> BY <1>1 DEF mallocVars
  <2>2. Sound(heap, blocks) /\ FullIf(heap, refused) /\ ~lost BY DEF AllocatorInv
  <2>3. Sound(heap', blocks') /\ FullIf(heap', refused') /\ ~lost' BY <2>1, <2>2
  <2> QED BY <2>3 DEF AllocatorInv
<1>2. ASSUME NEW t \in Tags, Malloc(t) PROVE AllocatorInv' BY <1>2, MallocKeeps
<1>3. ASSUME NEW t \in Tags, Memalign(t) PROVE AllocatorInv' BY <1>3, MemalignKeeps
<1>4. ASSUME NEW t \in Tags, Valloc(t) PROVE AllocatorInv' BY <1>4, VallocKeeps
<1>5. ASSUME NEW t \in Tags, Calloc(t) PROVE AllocatorInv' BY <1>5, CallocKeeps
<1>6. ASSUME NEW t \in Tags, Realloc(t) PROVE AllocatorInv' BY <1>6, ReallocKeeps
<1>7. ASSUME NEW t \in Tags, Free(t) PROVE AllocatorInv' BY <1>7, FreeKeepsInv
<1>8. CASE Trim BY <1>8, TrimKeepsInv
<1>9. CASE mALLOPt BY <1>9, MalloptKeeps
<1>10. CASE ForeignSbrk BY <1>10, ForeignKeeps
<1> QED BY <1>1, <1>2, <1>3, <1>4, <1>5, <1>6, <1>7, <1>8, <1>9, <1>10 DEF MallocNext

\* At any time there is a layout of the heap: chunks side by side from the
\* first to top, whose sizes, PREV_INUSE bits and feet are the words malloc.c
\* reads; the bins hold the free ones, each once, by size; every block of a
\* program has a chunk in use of its own with its marks in it. All of the
\* calls of malloc.c keep it, and so does a program that calls sbrk().
THEOREM AllocatorInvariant == MallocSpec => []AllocatorInv
<1>1. MallocInit => AllocatorInv BY AllocatorInit
<1>2. AllocatorInv /\ [MallocNext]_mallocVars => AllocatorInv' BY AllocatorNext
<1> QED BY <1>1, <1>2, PTL DEF MallocSpec


\* A list without duplicates has as many elements as places.
LEMMA NoDupCounts ==
    ASSUME NEW F, NEW s \in Seq(F), NoDup(s)
    PROVE  Cardinality(ToSet(s)) = Len(s)
<1> DEFINE n == Len(s)
           T == ToSet(s)
           f == [k \in 1 .. n |-> s[k]]
<1>1. n \in Nat /\ DOMAIN s = 1 .. n OBVIOUS
<1>2. T = {s[k] : k \in 1 .. n} BY <1>1 DEF ToSet
<1>3. \A k, l \in 1 .. n : s[k] = s[l] => k = l BY <1>1 DEF NoDup
<1> HIDE DEF n, T
<1>4. f \in [1 .. n -> T] BY <1>2
<1>5. \A k, l \in 1 .. n : f[k] = f[l] => k = l BY <1>3
<1>6. \A x \in T : \E k \in 1 .. n : f[k] = x BY <1>2
<1> HIDE DEF f
<1>7. f \in Injection(1 .. n, T) BY <1>4, <1>5 DEF Injection, IsInjective
<1>8. f \in Surjection(1 .. n, T) BY <1>4, <1>6 DEF Surjection
<1>9. f \in Bijection(1 .. n, T) BY <1>7, <1>8 DEF Bijection
<1>10. ExistsBijection(1 .. n, T) BY <1>9 DEF ExistsBijection
<1>11. Cardinality(T) = n BY <1>1, <1>10, FS_CountingElements
<1> QED BY <1>11 DEF n, T

\* ChunksSound follows from the invariant.
LEMMA ChunksSoundAt ==
    ASSUME NEW S, NEW F, SoundAt(heap, blocks, S, F)
    PROVE  ChunksSound
<1> DEFINE U == UsedChunks(blocks)
           C == Chunks(heap, blocks)
<1>1. HeapAt(heap, S, F, U) BY DEF SoundAt
<1>2. FreeChunks(heap) = F /\ C = DOMAIN S BY <1>1, ChunksAre
<1>3. Layout(heap, S, F, U) BY <1>1 DEF HeapAt
<1>4. C \ (heap.fence \union {heap.top}) \subseteq F \union U BY <1>2 DEF Chunks
<1> HIDE DEF U, C
<1>5. ASSUME NEW p \in F \union U
      PROVE  /\ chunksize(heap, p) >= 16
             /\ next_chunk(heap, p) \in C
             /\ \A q \in C : ~(p < q /\ q < next_chunk(heap, p))
             /\ inuse(heap, p) = ~(p \in F)
             /\ p \in F => /\ Word(heap, next_chunk(heap, p)) = chunksize(heap, p)
                           /\ next_chunk(heap, p) \notin F \union {heap.top}
  <2>1. /\ p \in Nat /\ p \in DOMAIN S /\ S[p] \in Nat /\ S[p] >= 16 /\ p + S[p] \in DOMAIN S
        /\ chunksize(heap, p) = S[p]
    BY <1>3, NormalAt
  <2>2. next_chunk(heap, p) = p + S[p] BY <2>1 DEF next_chunk
  <2>3. \A q \in C : ~(p < q /\ q < p + S[p])
    <3> SUFFICES ASSUME NEW q \in C, p < q, q < p + S[p] PROVE FALSE OBVIOUS
    <3>1. q \in DOMAIN S BY <1>2
    <3>2. q \in Nat BY <3>1, <1>3, SizeAt
    <3>3. p <= q BY <3>2, <2>1
    <3>4. q = p BY ONLY <3>1, <3>3, <2>1, <1>3, q < p + S[p], NoneInside
    <3> QED BY <3>4, <2>1
  <2>4. Tiled(S, F \union U, heap.fence, heap.top) /\ Encoded(heap, S, F) /\ NoTwoFree(S, F, heap.top)
    BY <1>3 DEF Layout
  <2>5. inuse(heap, p) <=> p \notin F
    <3>1. F \subseteq F \union U OBVIOUS
    <3> QED BY ONLY <3>1, <2>1, <2>4, ReadInuse
  <2>6. inuse(heap, p) = ~(p \in F)
    <3>1. inuse(heap, p) \in BOOLEAN BY DEF inuse, prev_inuse
    <3> QED BY <2>5, <3>1
  <2>7. p \in F => Word(heap, p + S[p]) = S[p] /\ p + S[p] \notin F \union {heap.top}
    BY <2>4 DEF Encoded, NoTwoFree
  <2> QED BY <2>1, <2>2, <2>3, <2>6, <2>7, <1>2
<1> QED BY <1>2, <1>4, <1>5 DEF ChunksSound, MINSIZE, C

\* BinsSound follows from the invariant.
LEMMA BinsSoundAt ==
    ASSUME NEW S, NEW F, SoundAt(heap, blocks, S, F)
    PROVE  BinsSound
<1> DEFINE b == heap.bin
<1>1. HeapAt(heap, S, F, UsedChunks(blocks)) BY DEF SoundAt
<1>2. BinsOk(b, heap.marked, S, F) /\ Layout(heap, S, F, UsedChunks(blocks)) BY <1>1 DEF HeapAt
<1>3. BinsOnce(b) /\ BinsSized(b, heap.marked, S) BY <1>2 DEF BinsOk
<1>4. \A p \in F : chunksize(heap, p) = S[p] /\ S[p] \in Nat BY <1>2, NormalAt
<1> HIDE DEF b
<1>5. ASSUME NEW i \in DOMAIN b
      PROVE  /\ Cardinality(ToSet(b[i])) = Len(b[i])
             /\ \A j \in DOMAIN b \ {i} : ToSet(b[j]) \intersect ToSet(b[i]) = {}
  <2>1. b[i] \in Seq(F) /\ NoDup(b[i]) BY <1>2, BinIn
  <2>2. Cardinality(ToSet(b[i])) = Len(b[i]) BY ONLY <2>1, NoDupCounts
  <2>3. ASSUME NEW j \in DOMAIN b \ {i} PROVE ToSet(b[j]) \intersect ToSet(b[i]) = {}
    <3> SUFFICES ASSUME NEW p \in ToSet(b[j]), p \in ToSet(b[i]) PROVE FALSE OBVIOUS
    <3>1. In(b[j], p) /\ In(b[i], p) BY InToSet
    <3> QED BY <3>1, <1>3 DEF BinsOnce
  <2> QED BY <2>2, <2>3
<1>6. ASSUME NEW i \in DOMAIN b, i # 1
      PROVE  /\ \A k \in DOMAIN b[i] : bin_index(chunksize(heap, b[i][k])) = i
             /\ \A k \in 1 .. Len(b[i]) - 1 :
                   chunksize(heap, b[i][k]) >= chunksize(heap, b[i][k + 1])
             /\ idx2binblock(i) \in heap.marked
  <2> DEFINE s == b[i]
  <2>1. /\ DOMAIN s = 1 .. Len(s) /\ Len(s) \in Nat
        /\ \A k \in DOMAIN s : s[k] \in F
    BY <1>2, BinIn
  <2>2. Indexed(S, s, i) /\ Descending(S, s) /\ idx2binblock(i) \in heap.marked
    BY <1>3, <1>6 DEF BinsSized
  <2> HIDE DEF s
  <2>3. \A k \in DOMAIN s : chunksize(heap, s[k]) = S[s[k]] BY <1>4, <2>1
  <2>4. \A k \in DOMAIN s : bin_index(chunksize(heap, s[k])) = i BY <2>2, <2>3 DEF Indexed
  <2>5. ASSUME NEW k \in 1 .. Len(s) - 1
        PROVE  chunksize(heap, s[k]) >= chunksize(heap, s[k + 1])
    <3>1. k \in DOMAIN s /\ k + 1 \in DOMAIN s /\ k < k + 1 BY <2>1
    <3>2. S[s[k]] >= S[s[k + 1]] BY <3>1, <2>2 DEF Descending
    <3> QED BY <3>1, <3>2, <2>3
  <2> QED BY <2>2, <2>4, <2>5 DEF s
<1>7. 1 \in DOMAIN b => Len(b[1]) = 1 BY <1>3 DEF BinsSized
<1> QED BY <1>5, <1>6, <1>7 DEF BinsSound, last_remainder, b


\* BlocksKept follows from the invariant.
LEMMA BlocksKeptAt ==
    ASSUME NEW S, NEW F, SoundAt(heap, blocks, S, F), ~lost
    PROVE  BlocksKept
<1> DEFINE U == UsedChunks(blocks)
<1>1. HeapAt(heap, S, F, U) /\ BlocksOk(heap, blocks, S) BY DEF SoundAt
<1>2. Layout(heap, S, F, U) /\ SysOk(heap, S) BY <1>1 DEF HeapAt
<1>3. ASSUME NEW t \in DOMAIN blocks
      PROVE  /\ blocks[t].mem % 8 = 0
             /\ blocks[t].req <= malloc_usable_size(heap, blocks[t].mem)
             /\ blocks[t].mem + blocks[t].req <= heap.brk
             /\ \A a \in Marks(blocks[t]) : Word(heap, a) = t
  <2> DEFINE b == blocks[t]
             m == b.mem
             n == b.req
             p == mem2chunk(m)
  <2>1. BlockOk(heap, S, b, t) BY <1>1 DEF BlocksOk
  <2>2. /\ m \in Nat /\ n \in Nat /\ S[p] >= n + 4
        /\ \A a \in Marks(b) : Word(heap, a) = t
    BY <2>1 DEF BlockOk
  <2>3. p \in U BY UsedIs
  <2> HIDE DEF U
  <2>4. /\ p \in Nat /\ p > 0 /\ p \in DOMAIN S /\ S[p] \in Nat /\ p % 8 = 0
        /\ p + S[p] \in DOMAIN S /\ p + S[p] <= heap.top /\ heap.top \in Nat
        /\ chunksize(heap, p) = S[p]
    <3>1. p \in F \union U BY <2>3
    <3> HIDE DEF p
    <3> QED BY <3>1, <1>2, NormalAt
  <2>5. p = m - 8 BY DEF mem2chunk, SIZE_SZ
  <2>6. inuse(heap, p)
    <3>1. /\ Tiled(S, F \union U, heap.fence, heap.top) /\ Encoded(heap, S, F)
          /\ F \intersect U = {}
      BY <1>2 DEF Layout
    <3>2. F \subseteq F \union U OBVIOUS
    <3>3. p \notin F BY <2>3, <3>1
    <3> HIDE DEF p
    <3>4. inuse(heap, p) <=> p \notin F BY ONLY <3>1, <3>2, <2>4, ReadInuse
    <3> QED BY <3>3, <3>4
  <2>7. S[heap.top] \in Nat /\ S[heap.top] >= 16 /\ heap.top # 0
    <3> HIDE DEF p
    <3> QED BY <2>4, <1>2, ReadAt
  <2>8. heap.top + S[heap.top] <= heap.brk /\ heap.brk \in Nat BY <2>7, <1>2 DEF SysOk
  <2> HIDE DEF p, m, n, b
  <2>9. m # 0 BY <2>2, <2>4, <2>5
  <2>10. malloc_usable_size(heap, m) = S[p] - 4
    BY <2>4, <2>6, <2>9 DEF malloc_usable_size, SIZE_SZ, p
  <2>11. m % 8 = 0 BY <2>2, <2>4, <2>5
  <2>12. n <= malloc_usable_size(heap, m) BY <2>2, <2>4, <2>10
  <2>13. m + n <= heap.brk BY <2>2, <2>4, <2>5, <2>7, <2>8
  <2> QED BY <2>2, <2>11, <2>12, <2>13 DEF m, n, b
<1> QED BY <1>3 DEF BlocksKept, MALLOC_ALIGNMENT

\* RefusedWhenFull follows from the invariant.
LEMMA FullRefuses ==
    ASSUME FullIf(heap, refused)
    PROVE  RefusedWhenFull
BY DEF FullIf, FullFor, RefusedWhenFull

\* The checks of do_check_chunk(), do_check_free_chunk() and
\* do_check_inuse_chunk() hold between any two calls of malloc.c, and malloc()
\* finds every free chunk: it is in one bin, that of its size, which is sorted
\* and whose block is marked.
THEOREM HeapIsSound == MallocSpec => []HeapSound
<1>1. AllocatorInv => HeapSound
  <2> SUFFICES ASSUME AllocatorInv PROVE HeapSound OBVIOUS
  <2>1. PICK S, F : SoundAt(heap, blocks, S, F) BY HeapOf
  <2>2. ChunksSound /\ BinsSound BY <2>1, ChunksSoundAt, BinsSoundAt
  <2> QED BY <2>2 DEF HeapSound
<1> QED BY <1>1, AllocatorInvariant, PTL

\* No call of malloc(), calloc(), memalign(), valloc(), realloc(), free() or
\* malloc_trim() takes away or overwrites a block that a program holds, and
\* realloc() keeps the contents, however often and in whatever order they are
\* called.
THEOREM BlocksAreKept == MallocSpec => []BlocksKept
<1>1. AllocatorInv => BlocksKept
  <2> SUFFICES ASSUME AllocatorInv PROVE BlocksKept OBVIOUS
  <2>1. PICK S, F : SoundAt(heap, blocks, S, F) BY HeapOf
  <2>2. ~lost BY DEF AllocatorInv
  <2> QED BY <2>1, <2>2, BlocksKeptAt
<1> QED BY <1>1, AllocatorInvariant, PTL

\* malloc(), and all that call it, return 0 only when no free chunk, nor top,
\* nor what the system still has to give, is large enough.
THEOREM RefusesWhenFull == MallocSpec => []RefusedWhenFull
<1>1. AllocatorInv => RefusedWhenFull BY FullRefuses DEF AllocatorInv
<1> QED BY <1>1, AllocatorInvariant, PTL
=============================================================================
