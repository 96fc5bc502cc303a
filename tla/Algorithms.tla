----------------------------- MODULE Algorithms -----------------------------
(***************************************************************************)
(* Sorting, searching and integer algorithms of lib/mylibc, and the sample *)
(* applications that exercise a board: HSORT of app/heapsort.c and the     *)
(* matrix multiplications of app/mm.c.  One call per behaviour, with its   *)
(* arguments and results in `algJob'.                                      *)
(***************************************************************************)
EXTENDS Integers, Sequences, FiniteSets
LOCAL INSTANCE SequencesExt
LOCAL INSTANCE FiniteSetsExt

CONSTANTS
    Bits,          \* of an int; 32 in the code
    Orders,        \* the matrices are N by N, for N in Orders
    SortKeys,      \* the values to sort
    MaxSort        \* how many of them

VARIABLE algJob

-----------------------------------------------------------------------------
(* qsort() is a Shell sort.  Elements are compared by their first field;   *)
(* array indices start at 0.                                               *)

RECURSIVE FirstGap(_, _)
FirstGap(gap, nel) == LET g == 3 * gap + 1 IN IF g < (nel - 1) \div 3 THEN FirstGap(g, nel) ELSE g

(* Move the element at j down by gaps while the one below it is greater.   *)
RECURSIVE SinkElement(_, _, _)
SinkElement(a, j, gap) ==
    LET swapped == [a EXCEPT ![j] = a[j - gap], ![j - gap] = a[j]]
    IN  IF a[j - gap][1] <= a[j][1] THEN a
        ELSE IF j - gap >= gap THEN SinkElement(swapped, j - gap, gap) ELSE swapped

RECURSIVE SortByGap(_, _, _)
SortByGap(a, i, gap) ==
    IF i >= Cardinality(DOMAIN a) THEN a ELSE SortByGap(SinkElement(a, i, gap), i + 1, gap)

MutantLastGapIsThree(a, gap) == IF gap = 1 THEN a ELSE SortByGap(a, gap, gap)

GapPass(a, gap) == SortByGap(a, gap, gap)

RECURSIVE SortByGaps(_, _)
SortByGaps(a, gap) == IF gap = 0 THEN a ELSE SortByGaps(GapPass(a, gap), (gap - 1) \div 3)

qsort(a) ==
    LET nel == Cardinality(DOMAIN a)
    IN  IF nel > 1 THEN SortByGaps(a, FirstGap(0, nel)) ELSE a

RECURSIVE SearchBetween(_, _, _, _)
SearchBetween(key, a, low, high) ==
    LET mid == low + ((high - low) \div 2)
    IN  IF low >= high THEN -1
        ELSE IF key > a[mid][1] THEN SearchBetween(key, a, mid + 1, high)
        ELSE IF key < a[mid][1] THEN SearchBetween(key, a, low, mid)
        ELSE mid

bsearch(key, a) == SearchBetween(key, a, 0, Cardinality(DOMAIN a))

-----------------------------------------------------------------------------
(* HSORT: the array starts at 1.                                           *)

GreaterChild(a, j, l) == IF j < l /\ a[j][1] < a[j + 1][1] THEN j + 1 ELSE j

(* Let ir sink from i; l is the end of the heap.                           *)
RECURSIVE SiftDown(_, _, _, _)
SiftDown(a, i, l, ir) ==
    LET j == GreaterChild(a, 2 * i, l)
    IN  IF 2 * i <= l /\ ir[1] < a[j][1] THEN SiftDown([a EXCEPT ![i] = a[j]], j, l, ir)
        ELSE [a EXCEPT ![i] = ir]

(* First the heap is built, for k down to 1; then its top goes to the end. *)
RECURSIVE HeapFrom(_, _, _)
HeapFrom(a, k, l) ==
    IF k > 1 THEN HeapFrom(SiftDown(a, k - 1, l, a[k - 1]), k - 1, l)
    ELSE LET swapped == [a EXCEPT ![l] = a[1]]
         IN  IF l - 1 = 1 THEN [swapped EXCEPT ![1] = a[l]]
             ELSE HeapFrom(SiftDown(swapped, 1, l - 1, a[l]), 1, l - 1)

HSORT(a) == HeapFrom(a, (Cardinality(DOMAIN a) \div 2) + 1, Cardinality(DOMAIN a))

-----------------------------------------------------------------------------
(* Integers.                                                               *)

WORDS == 2 ^ Bits

(* Double b and d until b is not below rem or its top bit is set.          *)
RECURSIVE Doubled(_, _, _)
Doubled(b, d, rem) ==
    IF b > 0 /\ b < (WORDS * WORDS) \div 2 /\ b < rem
    THEN Doubled((2 * b) % (WORDS * WORDS), (2 * d) % (WORDS * WORDS), rem)
    ELSE <<b, d>>

RECURSIVE Subtracted(_, _, _, _)
Subtracted(rem, res, b, d) ==
    LET take == rem >= b
        rem2 == IF take THEN rem - b ELSE rem
        res2 == IF take THEN res + d ELSE res
    IN  IF d \div 2 = 0 THEN <<res2, rem2>> ELSE Subtracted(rem2, res2, b \div 2, d \div 2)

(* The quotient and the remainder of 2 * Bits bits by Bits bits.           *)
__div64_32(n, base) ==
    LET high == n \div WORDS
        q == IF high >= base THEN high \div base ELSE 0
        rem == n - q * base * WORDS
        bd == Doubled(base, 1, rem)
    IN  Subtracted(rem, q * WORDS, bd[1], bd[2])

(* Halve the width, from the top; x is shifted left.                       *)
RECURSIVE LastSet(_, _, _)
LastSet(x, r, half) ==
    IF half = 0 THEN r
    ELSE IF x \div 2 ^ (Bits - half) = 0
    THEN LastSet((x * 2 ^ half) % WORDS, r - half, half \div 2)
    ELSE LastSet(x, r, half \div 2)

fls(x) == IF x % WORDS = 0 THEN 0 ELSE LastSet(x % WORDS, Bits, Bits \div 2)

(* Halve the width: n counts, i is shifted right.  At the end i is 0 or    *)
(* its two low bits tell the rest.                                         *)
RECURSIVE FirstSet(_, _, _)
FirstSet(i, n, half) ==
    IF half = 1 THEN IF i = 0 THEN 0 ELSE n + ((i + 1) % 2)
    ELSE IF i % 2 ^ half = 0 THEN FirstSet(i \div 2 ^ half, n + half, half \div 2)
    ELSE FirstSet(i, n, half \div 2)

(* What the branch for later processors computes: 32 - clz.                *)
ffs(i) == FirstSet(i, 1, Bits \div 2)

-----------------------------------------------------------------------------
(* Matrix multiplication.  What an algorithm adds to c[i][j] is a sequence *)
(* of pairs <<p, q>>, which stands for a[i][p] * b[q][j], in order.        *)

Diagonal(ks) == [x \in DOMAIN ks |-> <<ks[x], ks[x]>>]
UpFrom(first, n) == [x \in 1 .. n - first |-> first + x - 1]
Multiples(n, step) == SetToSortSeq({x \in 0 .. n - 1 : x % step = 0}, <)
Entries(n) == (0 .. n - 1) \X (0 .. n - 1)

(* normal(), reg_loops(); and tnsq(), which starts with the first product. *)
normal(n) == [e \in Entries(n) |-> Diagonal(UpFrom(0, n))]
tnsq(n) == [e \in Entries(n) |-> <<<<0, 0>>>> \o Diagonal(UpFrom(1, n))]

(* unroll4(), unroll8(), unroll16(): u products at a time, then the rest.  *)
unroll(n, u) ==
    LET k == IF n < u THEN 0 ELSE (n \div u) * u
    IN  [e \in Entries(n) |->
            FlattenSeq([x \in 1 .. k \div u |->
                           Diagonal([y \in 1 .. u |-> (x - 1) * u + y - 1])])
            \o Diagonal(UpFrom(k, n))]

(* pnsq(): pa runs along row i of a, pb in steps of N through column j.    *)
pnsq(n) ==
    [e \in Entries(n) |->
        [x \in 1 .. n |-> LET pb == e[2] + (x - 1) * n IN <<x - 1, (pb - e[2]) \div n>>]]

(* transpose() and robert(): bt[j][k] is what was copied from b[k][j].     *)
transpose(n) ==
    LET bt == [e \in Entries(n) |-> <<e[2], e[1]>>]
    IN  [e \in Entries(n) |-> [x \in 1 .. n |-> <<x - 1, bt[<<e[2], x - 1>>][1]>>]]

(* tiling(): the tiles of c[i][j] in column jj, for each kk.               *)
tiling(n, step) ==
    [e \in Entries(n) |->
        FlattenSeq([x \in 1 .. Len(Multiples(n, step)) |->
            LET kk == Multiples(n, step)[x]
                jjs == {jj \in ToSet(Multiples(n, step)) : e[2] \in jj .. Min({jj + step, n}) - 1}
            IN  FlattenSeq([y \in 1 .. Cardinality(jjs) |->
                    Diagonal([z \in 1 .. Min({kk + step, n}) - kk |-> kk + z - 1])])])]

(* maeno(): blocks of lparm; rows two and columns four at a time.          *)
maeno(n, lparm) ==
    LET blocks == Multiples(n, lparm)
        rows == {i2 + r : i2 \in ToSet(blocks), r \in {x \in 0 .. lparm - 1 : x % 2 = 0}}
        cols == ToSet(Multiples(n, 4))
    IN  [e \in {r + x : r \in rows, x \in 0 .. 1} \X {c + y : c \in cols, y \in 0 .. 3} |->
            FlattenSeq([x \in 1 .. Len(blocks) |->
                Diagonal([z \in 1 .. lparm |-> blocks[x] + z - 1])])]

(* warner(): blocks of nb; rows and columns two at a time.                 *)
warner(n, nb) ==
    LET blocks == Multiples(n, nb)
        places == {ii + x + d : ii \in ToSet(blocks), x \in {y \in 0 .. nb - 1 : y % 2 = 0},
                                d \in 0 .. 1}
    IN  [e \in places \X places |->
            FlattenSeq([x \in 1 .. Len(blocks) |->
                Diagonal([z \in 1 .. nb |-> blocks[x] + z - 1])])]

(* The options that main() goes on with.                                   *)
Accepts(n, choice, parm) ==
    /\ choice = "u" => parm \in {4, 8, 16}
    /\ choice = "b" => parm \in 4 .. n
    /\ choice = "m" => n % parm = 0 /\ n % 4 = 0 /\ parm % 4 = 0
    /\ choice = "w" => n % parm = 0 /\ n % 2 = 0 /\ parm % 2 = 0

Multiply(n, choice, parm) ==
    CASE choice \in {"n", "i"} -> normal(n)
      [] choice = "v" -> tnsq(n)
      [] choice = "u" -> unroll(n, parm)
      [] choice = "p" -> pnsq(n)
      [] choice \in {"t", "r"} -> transpose(n)
      [] choice = "b" -> tiling(n, parm)
      [] choice = "m" -> maeno(n, parm)
      [] choice = "w" -> warner(n, parm)

-----------------------------------------------------------------------------
(* Calls.                                                                  *)

NoAlgorithm == [call |-> "none"]
AlgorithmsInit == algJob = NoAlgorithm

(* Elements are pairs of a key and where the element was at first.         *)
Sort ==
    \E n \in {1, 2, 3, 4, MaxSort}, fun \in {"qsort", "HSORT"} : \E keys \in [1 .. n -> SortKeys] :
       LET a == IF fun = "qsort" THEN [x \in 0 .. n - 1 |-> <<keys[x + 1], x>>]
                ELSE [x \in 1 .. n |-> <<keys[x], x>>]
       IN  /\ fun = "HSORT" => n > 1
           /\ algJob' = [call |-> "sort", in |-> a,
                         out |-> IF fun = "qsort" THEN qsort(a) ELSE HSORT(a)]

SearchKey ==
    \E S \in SUBSET (1 .. 7), key \in 0 .. 8 :
       LET a == [x \in 0 .. Cardinality(S) - 1 |-> <<SetToSortSeq(S, <)[x + 1], x>>]
       IN  algJob' = [call |-> "bsearch", in |-> a, key |-> key, out |-> bsearch(key, a)]

Divide ==
    \E n \in 0 .. WORDS * WORDS - 1, base \in 1 .. WORDS - 1 :
       algJob' = [call |-> "div", n |-> n, base |-> base, out |-> __div64_32(n, base)]

FindBits ==
    \E i \in -(WORDS \div 2) .. (WORDS \div 2) - 1 :
       algJob' = [call |-> "bits", i |-> i, out |-> <<ffs(i), fls(i)>>]

Matrix ==
    \E n \in Orders, choice \in {"n", "i", "v", "u", "p", "t", "r", "b", "m", "w"}, parm \in 1 .. 16 :
       /\ parm > 1 => choice \in {"u", "b", "m", "w"}
       /\ Accepts(n, choice, parm)
       /\ algJob' = [call |-> "matrix", n |-> n, choice |-> choice, parm |-> parm,
                     out |-> Multiply(n, choice, parm)]

AlgorithmsNext ==
    /\ algJob = NoAlgorithm
    /\ Sort \/ SearchKey \/ Divide \/ FindBits \/ Matrix

-----------------------------------------------------------------------------
(* Properties.                                                             *)

(* The same elements in order, for every input and its duplicates (the     *)
(* gaps of qsort.c reach 1; heapsort.c).                                   *)
SortsRight ==
    algJob.call = "sort" =>
       /\ \A i \in DOMAIN algJob.out : i + 1 \in DOMAIN algJob.out
             => algJob.out[i][1] <= algJob.out[i + 1][1]
       /\ {algJob.out[i] : i \in DOMAIN algJob.out} = {algJob.in[i] : i \in DOMAIN algJob.in}
       /\ DOMAIN algJob.out = DOMAIN algJob.in

(* A key is found exactly when it is there, wherever it is (bsearch.c).    *)
FindsKey ==
    algJob.call = "bsearch" =>
       \/ algJob.out \in DOMAIN algJob.in /\ algJob.in[algJob.out][1] = algJob.key
       \/ algJob.out = -1 /\ \A i \in DOMAIN algJob.in : algJob.in[i][1] # algJob.key

(* The quotient, the remainder and the bits, up to the widest values       *)
(* (div64.c, ffs.c, fls.c).                                                *)
NumbersRight ==
    /\ algJob.call = "div" =>
          algJob.out = <<algJob.n \div algJob.base, algJob.n % algJob.base>>
    /\ algJob.call = "bits" =>
          LET set == {k \in 1 .. Bits : (algJob.i \div 2 ^ (k - 1)) % 2 = 1}
          IN  algJob.out = IF set = {} THEN <<0, 0>> ELSE <<Min(set), Max(set)>>

(* Every entry of the product gets each of its products once, and no       *)
(* entry outside the matrix is touched, for every option that is accepted; *)
(* mm() itself checks one product, whose rows have the same entry in every *)
(* column.                                                                 *)
ProductsOnce ==
    algJob.call = "matrix" =>
       /\ DOMAIN algJob.out = Entries(algJob.n)
       /\ \A e \in Entries(algJob.n) :
             /\ Len(algJob.out[e]) = algJob.n
             /\ ToSet(algJob.out[e]) = {<<k, k>> : k \in 0 .. algJob.n - 1}

(* Sort, search, division, bits and matrix products give what their        *)
(* definitions say for all inputs up to the bounds.                        *)
ComputesRight == SortsRight /\ FindsKey /\ NumbersRight /\ ProductsOnce
=============================================================================
