------------------------------- MODULE TwoWay -------------------------------
(***************************************************************************)
(* Substring search: the two-way algorithm of lib/mylibc/string/           *)
(* str-two-way.h and the functions that are built with it.                 *)
(*                                                                         *)
(* A search is a record of what differs between the copies of the          *)
(* algorithm: m, the memory; bounded, whether the length of the haystack   *)
(* is known (memmem) or it ends with a zero byte; fold, whether case is    *)
(* ignored; needle, a sequence.  Indices into it start at 0, as in the     *)
(* code.                                                                   *)
(***************************************************************************)
EXTENDS Strings
LOCAL INSTANCE FiniteSetsExt

CANON_ELEMENT(q, c) == IF q.fold THEN tolower(c) ELSE c
NeedleAt(q, i) == CANON_ELEMENT(q, q.needle[i + 1])
HayAt(q, hay, i) == CANON_ELEMENT(q, q.m[hay + i])

(* The search for a maximal suffix; reversed, for the reversed order of    *)
(* the alphabet.  max_suffix is the index of the last byte before it.      *)
RECURSIVE MaximalSuffix(_, _, _, _, _, _)
MaximalSuffix(q, reversed, max_suffix, j, k, p) ==
    LET a == NeedleAt(q, j + k)
        b == NeedleAt(q, max_suffix + k)
    IN  IF j + k >= Len(q.needle) THEN [index |-> max_suffix + 1, period |-> p]
        ELSE IF a = b
        THEN IF k # p THEN MaximalSuffix(q, reversed, max_suffix, j, k + 1, p)
             ELSE MaximalSuffix(q, reversed, max_suffix, j + p, 1, p)
        ELSE IF (a < b) # reversed
        THEN MaximalSuffix(q, reversed, max_suffix, j + k, 1, j + k - max_suffix)
        ELSE MaximalSuffix(q, reversed, j, j + 1, 1, 1)

(* The longer of the two suffixes, with its period.                        *)
critical_factorization(q) ==
    LET fwd == MaximalSuffix(q, FALSE, -1, 0, 1, 1)
        rev == MaximalSuffix(q, TRUE, -1, 0, 1, 1)
    IN  IF rev.index < fwd.index THEN fwd ELSE rev

(* Is the left half of the needle a repetition of its period?              *)
IsPeriodic(q, f) ==
    \A i \in 0 .. f.index - 1 : NeedleAt(q, i) = NeedleAt(q, f.period + i)

(* May a window start at j?  len is what is known of the haystack: of a    *)
(* string, that no zero byte is among its first len bytes.                 *)
AVAILABLE(q, hay, len, j) ==
    IF q.bounded THEN j <= len - Len(q.needle)
    ELSE \A x \in len .. j + Len(q.needle) - 1 : q.m[hay + x] # 0

shift_table(q, c) ==
    Min({Len(q.needle)} \cup {Len(q.needle) - i : i \in {k \in 1 .. Len(q.needle) :
                                                CANON_ELEMENT(q, q.needle[k]) = c}})

(* The windows from j on; memory is how much of the start of the window is *)
(* known to match.  The long variant looks at the last byte first.         *)
RECURSIVE Windows(_, _, _, _, _, _, _)
Windows(q, long, f, hay, len, j, memory) ==
    LET n == Len(q.needle)
        periodic == IsPeriodic(q, f)
        period == IF periodic THEN f.period ELSE Max({f.index, n - f.index}) + 1
        known == IF q.bounded THEN len ELSE j + n
        shift == IF long THEN shift_table(q, HayAt(q, hay, j + n - 1)) ELSE 0
        last == IF long THEN n - 1 ELSE n
        match(i) == NeedleAt(q, i) = HayAt(q, hay, i + j)
        right == Max({f.index, memory})
        i == CHOOSE x \in right .. Max({right, n}) :
                /\ x >= last \/ ~match(x)
                /\ \A y \in right .. x - 1 : y < last /\ match(y)
    IN  IF ~AVAILABLE(q, hay, len, j) THEN NULL_PTR
        ELSE IF shift > 0
        THEN Windows(q, long, f, hay, known,
                     j + IF periodic /\ memory > 0 /\ shift < period THEN n - period ELSE shift, 0)
        ELSE IF i < last
        THEN Windows(q, long, f, hay, known, j + i - f.index + 1, 0)
        ELSE IF \A x \in memory .. f.index - 1 : match(x) THEN hay + j
        ELSE Windows(q, long, f, hay, known, j + period,
                     IF periodic THEN n - period ELSE 0)

two_way_short_needle(q, hay, len) ==
    Windows(q, FALSE, critical_factorization(q), hay, len, 0, 0)

MutantShortPeriod(q, hay, len) ==
    LET f == critical_factorization(q)
    IN  Windows(q, TRUE, [f EXCEPT !.period = Max({1, @ - 1})], hay, len, 0, 0)

two_way_long_needle(q, hay, len) ==
    Windows(q, TRUE, critical_factorization(q), hay, len, 0, 0)

TwoWaySearch(q, hay, len, LONG_NEEDLE_THRESHOLD) ==
    IF Len(q.needle) < LONG_NEEDLE_THRESHOLD THEN two_way_short_needle(q, hay, len)
    ELSE two_way_long_needle(q, hay, len)

-----------------------------------------------------------------------------
(* The functions.                                                          *)

StringFrom(m, s) ==
    LET n == strlen(m, s) IN [i \in 1 .. n |-> m[s + i - 1]]

(* How far haystack and needle are compared at first: until either ends.   *)
Reaches(m, s, n) == \A i \in 0 .. n - 1 : m[s + i] # 0

strstr(m, searchee, lookfor, threshold) ==
    LET needle == StringFrom(m, lookfor)
        n == Len(needle)
        q == [m |-> m, bounded |-> FALSE, fold |-> FALSE, needle |-> needle]
        haystack == strchr(m, searchee + 1, m[lookfor])
        len == IF haystack > searchee + n THEN 1 ELSE n + searchee - haystack
    IN  IF ~Reaches(m, searchee, n) THEN NULL_PTR
        ELSE IF \A i \in 0 .. n - 1 : m[searchee + i] = needle[i + 1] THEN searchee
        ELSE IF haystack = NULL_PTR \/ n = 1 THEN haystack
        ELSE TwoWaySearch(q, haystack, len, threshold)

strcasestr(m, s, find, threshold) ==
    LET needle == StringFrom(m, find)
        n == Len(needle)
        q == [m |-> m, bounded |-> FALSE, fold |-> TRUE, needle |-> needle]
    IN  IF ~Reaches(m, s, n) THEN NULL_PTR
        ELSE IF \A i \in 0 .. n - 1 : tolower(m[s + i]) = tolower(needle[i + 1]) THEN s
        ELSE TwoWaySearch(q, s + 1, n - 1, threshold)

memmem(m, haystack, haystack_len, start, needle_len, threshold) ==
    LET needle == [i \in 1 .. needle_len |-> m[start + i - 1]]
        q == [m |-> m, bounded |-> TRUE, fold |-> FALSE, needle |-> needle]
        first == memchr(m, haystack, needle[1], haystack_len)
        left == haystack_len - (first - haystack)
    IN  IF needle_len = 0 THEN haystack
        ELSE IF haystack_len < needle_len THEN NULL_PTR
        ELSE IF needle_len >= threshold THEN two_way_long_needle(q, haystack, haystack_len)
        ELSE IF first = NULL_PTR \/ needle_len = 1 THEN first
        ELSE IF left < needle_len THEN NULL_PTR
        ELSE two_way_short_needle(q, first, left)

(* A match need only start before s1 + len.                                *)
strnstr(m, s1, s2, len) ==
    LET needle == StringFrom(m, s2)
        from(s) == \A i \in 1 .. Len(needle) : m[s + i - 1] = needle[i]
        s == FirstByte(m, s1, LAMBDA x : x = s1 + len \/ from(x))
    IN  IF m[s1] = 0 THEN IF m[s2] = 0 THEN s1 ELSE NULL_PTR
        ELSE IF s = s1 + len THEN NULL_PTR ELSE s
=============================================================================
