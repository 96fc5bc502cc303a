------------------------------ MODULE Strings -------------------------------
(***************************************************************************)
(* The string functions of lib/mylibc/string, as built for speed: they     *)
(* read and write whole words where the addresses allow it.                *)
(*                                                                         *)
(* A memory is a function from addresses to bytes; where a pointer is NULL *)
(* in the code it is NULL here.  A word is the sequence of its four bytes, *)
(* the one at the lowest address (the low end: little-endian) first.       *)
(***************************************************************************)
EXTENDS Integers, Sequences
LOCAL INSTANCE Bitwise
LOCAL INSTANCE FiniteSetsExt

NULL_PTR == -1
LONG == 4                                \* LBLOCKSIZE
UNALIGNED(x) == x % LONG # 0
BIGBLOCKSIZE == 4 * LONG                 \* less than this is copied by bytes

LongAt(m, a) == <<m[a], m[a + 1], m[a + 2], m[a + 3]>>
Top(m) == Max(DOMAIN m)

(* The first address from a on at which Stop holds, by bytes and by words. *)
(* There is one, or the code would run out of the memory.                  *)
FirstByte(m, a, Stop(_)) ==
    CHOOSE x \in a .. Top(m) : Stop(x) /\ \A y \in a .. x - 1 : ~Stop(y)
FirstWord(m, a, Stop(_)) ==
    LET at == {x \in a .. Top(m) - LONG + 1 : x % LONG = a % LONG}
    IN  CHOOSE x \in at : Stop(x) /\ \A y \in at : y < x => ~Stop(y)

-----------------------------------------------------------------------------
(* Detecting a zero byte in a word: (X - 0x01010101) & ~X & 0x80808080.    *)

(* What byte i + 1 must lend when 0x01010101 is subtracted.                *)
RECURSIVE Borrow(_, _)
Borrow(w, i) == IF i > 0 /\ w[i] - 1 - Borrow(w, i - 1) < 0 THEN 1 ELSE 0

Syndrome(w) ==
    {i \in 1 .. LONG : w[i] < 128 /\ (w[i] - 1 - Borrow(w, i - 1)) % 256 >= 128}

DETECTNULL(w) == Syndrome(w) # {}

DETECTCHAR(w, c) == DETECTNULL([i \in 1 .. LONG |-> w[i] ^^ c])

-----------------------------------------------------------------------------
(* Searching.                                                              *)

(* Bytes up to a word boundary, words while none of their bytes can stop   *)
(* the search, bytes again.                                                *)
ScanWords(m, s, StopWord(_), Stop(_)) ==
    LET a == FirstByte(m, s, LAMBDA x : ~UNALIGNED(x) \/ Stop(x))
    IN  IF UNALIGNED(a) THEN a
        ELSE FirstByte(m, FirstWord(m, a, StopWord), Stop)

strlen(m, s) ==
    ScanWords(m, s, LAMBDA x : DETECTNULL(LongAt(m, x)), LAMBDA x : m[x] = 0) - s

strchr(m, s, i) ==
    LET c == i % 256
        p == ScanWords(m, s,
                  LAMBDA x : DETECTNULL(LongAt(m, x)) \/ (c # 0 /\ DETECTCHAR(LongAt(m, x), c)),
                  LAMBDA x : m[x] \in {0, c})
    IN  IF m[p] = c THEN p ELSE NULL_PTR

memchr(m, s, c, n) ==
    LET d == c % 256
        p == ScanWords(m, s,
                  LAMBDA x : s + n - x < LONG \/ DETECTCHAR(LongAt(m, x), d),
                  LAMBDA x : x = s + n \/ m[x] = d)
    IN  IF p = s + n THEN NULL_PTR ELSE p

RECURSIVE LastFrom(_, _, _, _)
LastFrom(m, s, i, last) ==
    LET p == strchr(m, s, i)
    IN  IF p = NULL_PTR THEN last ELSE LastFrom(m, p + 1, i, p)

strrchr(m, s, i) == IF i # 0 THEN LastFrom(m, s, i, NULL_PTR) ELSE strchr(m, s, i)

strnlen(m, s, n) == FirstByte(m, s, LAMBDA x : x = s + n \/ m[x] = 0) - s

strnchr(m, s, count, c) ==
    LET p == FirstByte(m, s, LAMBDA x : x = s + count \/ m[x] \in {0, c})
    IN  IF p = s + count \/ m[p] # c \/ m[p] = 0 THEN NULL_PTR ELSE p

memscan(m, addr, c, size) == FirstByte(m, addr, LAMBDA x : x = addr + size \/ m[x] = c)

(* The characters of a string.                                             *)
CharsAt(m, s) == {m[x] : x \in s .. FirstByte(m, s, LAMBDA y : m[y] = 0) - 1}

strcspn(m, s1, s2) ==
    FirstByte(m, s1, LAMBDA x : m[x] = 0 \/ m[x] \in CharsAt(m, s2)) - s1

strspn(m, s1, s2) ==
    FirstByte(m, s1, LAMBDA x : m[x] = 0 \/ m[x] \notin CharsAt(m, s2)) - s1

strpbrk(m, s1, s2) ==
    LET p == s1 + strcspn(m, s1, s2) IN IF m[p] = 0 THEN NULL_PTR ELSE p

-----------------------------------------------------------------------------
(* Comparing.  The results are differences of bytes.                       *)

tolower(c) == IF c \in 65 .. 90 THEN c + 32 ELSE c

memcmp(m, s1, s2, n) ==
    LET words == IF n < LONG \/ UNALIGNED(s1) \/ UNALIGNED(s2) THEN 0
                 ELSE FirstWord(m, 0, LAMBDA i : n - i < LONG
                                                 \/ LongAt(m, s1 + i) # LongAt(m, s2 + i))
        i == FirstByte(m, words, LAMBDA j : j = n \/ m[s1 + j] # m[s2 + j])
    IN  IF i = n THEN 0 ELSE m[s1 + i] - m[s2 + i]

MutantEndsLate(m, s1, s2, n) ==
    LET words == IF UNALIGNED(s1) \/ UNALIGNED(s2) THEN 0
                 ELSE FirstWord(m, 0, LAMBDA i : n - i < LONG
                                                 \/ LongAt(m, s1 + i) # LongAt(m, s2 + i))
        i == FirstByte(m, words, LAMBDA j : j = n \/ m[s1 + j] # m[s2 + j]
                                            \/ m[s1 + j] = 0)
    IN  IF i = n THEN 0 ELSE m[s1 + i] - m[s2 + i]

strncmp(m, s1, s2, n) ==
    LET same(i) == LongAt(m, s1 + i) = LongAt(m, s2 + i)
        words == IF UNALIGNED(s1) \/ UNALIGNED(s2) THEN 0
                 ELSE FirstWord(m, 0, LAMBDA i : \/ n - i <= LONG \/ ~same(i)
                                                 \/ DETECTNULL(LongAt(m, s1 + i)))
        i == FirstByte(m, words, LAMBDA j : \/ n - j <= 1 \/ m[s1 + j] # m[s2 + j]
                                            \/ m[s1 + j] = 0)
    IN  IF n = 0 THEN 0
        ELSE IF ~UNALIGNED(s1) /\ ~UNALIGNED(s2) /\ n - words >= LONG /\ same(words)
        THEN 0
        ELSE m[s1 + i] - m[s2 + i]

(* The difference where u and v first differ or v ends; zero bytes follow. *)
FirstDifference(u, v) ==
    LET byte(w, i) == IF i \in DOMAIN w THEN w[i] ELSE 0
        i == Min({j \in 1 .. LONG + 1 : byte(v, j) = 0 \/ byte(u, j) # byte(v, j)})
    IN  byte(u, i) - byte(v, i)

(* Both strings at the same offset o from a word boundary: the bytes in    *)
(* front of them are read as 0xff.                                         *)
strcmp_aligned(m, s1, s2) ==
    LET o == s1 % LONG
        W(s, i) == [k \in 1 .. LONG |-> IF i = 0 /\ k <= o THEN 255 ELSE m[s - o + i + k - 1]]
        i == FirstWord(m, 0, LAMBDA j : W(s1, j) # W(s2, j) \/ DETECTNULL(W(s1, j)))
        w1 == W(s1, i)
        w2 == W(s2, i)
        k == Min({j \in 1 .. LONG : w1[j] = 0 \/ w1[j] # w2[j]})
    IN  w1[k] - w2[k]

(* A word of s1 overlaps two words of s2, which is o bytes further from a  *)
(* word boundary; the three blocks of the code have o = 1, 2 and 3.        *)
strcmp_unaligned(m, s1, s2) ==
    LET k == FirstByte(m, 0, LAMBDA j : \/ ~UNALIGNED(s1 + j) \/ m[s1 + j] = 0
                                        \/ m[s1 + j] # m[s2 + j])
        wp1 == s1 + k
        o == (s2 + k) % LONG
        wp2 == s2 + k - o
        head1(i) == SubSeq(LongAt(m, wp1 + i), 1, LONG - o)
        tail1(i) == SubSeq(LongAt(m, wp1 + i), LONG - o + 1, LONG)
        head2(i) == SubSeq(LongAt(m, wp2 + i), o + 1, LONG)
        tail2(i) == SubSeq(LongAt(m, wp2 + i + LONG), 1, o)
        zeros(i) == Syndrome(LongAt(m, wp1 + i))
        i == FirstWord(m, 0, LAMBDA j : \/ head1(j) # head2(j) \/ zeros(j) # {}
                                        \/ tail1(j) # tail2(j))
    IN  IF UNALIGNED(wp1) THEN m[wp1] - m[s2 + k]
        ELSE IF head1(i) # head2(i) THEN FirstDifference(head1(i), head2(i))
        ELSE IF zeros(i) \cap (1 .. LONG - o) # {} THEN 0
        ELSE FirstDifference(tail1(i), tail2(i))

strcmp(m, s1, s2) ==
    IF s1 % LONG = s2 % LONG THEN strcmp_aligned(m, s1, s2) ELSE strcmp_unaligned(m, s1, s2)

strnicmp(m, s1, s2, len) ==
    LET i == FirstByte(m, 0, LAMBDA j : \/ len - j <= 1 \/ m[s1 + j] = 0 \/ m[s2 + j] = 0
                                        \/ tolower(m[s1 + j]) # tolower(m[s2 + j]))
    IN  IF len = 0 THEN 0
        ELSE IF m[s1 + i] = 0 \/ m[s2 + i] = 0 THEN m[s1 + i] - m[s2 + i]
        ELSE tolower(m[s1 + i]) - tolower(m[s2 + i])

strncasecmp(m, s1, s2, n) ==
    LET i == FirstByte(m, 0, LAMBDA j : \/ j = n \/ m[s2 + j] = 0
                                        \/ tolower(m[s1 + j]) # tolower(m[s2 + j]))
    IN  IF i = n THEN 0 ELSE tolower(m[s1 + i]) - tolower(m[s2 + i])

strcasecmp(m, s1, s2) ==
    LET i == FirstByte(m, 0, LAMBDA j : \/ m[s2 + j] = 0
                                        \/ tolower(m[s1 + j]) # tolower(m[s2 + j]))
    IN  tolower(m[s1 + i]) - tolower(m[s2 + i])

-----------------------------------------------------------------------------
(* Copying: the memory afterwards, byte by byte or word by word in the     *)
(* order in which the code stores.                                         *)

PutAt(m, a, w) ==
    [x \in DOMAIN m |-> IF x \in a .. a + Len(w) - 1 THEN w[x - a + 1] ELSE m[x]]

Fill(m, from, to, c) == [x \in DOMAIN m |-> IF from <= x /\ x < to THEN c ELSE m[x]]

RECURSIVE CopyWords(_, _, _, _)
CopyWords(m, d, s, n) ==
    IF n < LONG THEN m ELSE CopyWords(PutAt(m, d, LongAt(m, s)), d + LONG, s + LONG, n - LONG)

RECURSIVE CopyBytes(_, _, _, _)
CopyBytes(m, d, s, n) ==
    IF n = 0 THEN m ELSE CopyBytes([m EXCEPT ![d] = m[s]], d + 1, s + 1, n - 1)

RECURSIVE CopyBackwards(_, _, _, _)
CopyBackwards(m, d, s, n) ==
    IF n = 0 THEN m ELSE CopyBackwards([m EXCEPT ![d + n - 1] = m[s + n - 1]], d, s, n - 1)

memcpy(m, d, s, n) ==
    LET words == IF n < BIGBLOCKSIZE \/ UNALIGNED(s) \/ UNALIGNED(d) THEN 0
                 ELSE n - (n % LONG)
    IN  CopyBytes(CopyWords(m, d, s, words), d + words, s + words, n - words)

MutantNoOverlap(m, d, s, n) == memcpy(m, d, s, n)

memmove(m, d, s, n) ==
    IF s < d /\ d < s + n THEN CopyBackwards(m, d, s, n) ELSE memcpy(m, d, s, n)

memset(m, s, c, n) ==
    LET a == FirstByte(m, s, LAMBDA x : ~UNALIGNED(x) \/ x = s + n)
        left == s + n - a
        words == left - (left % LONG)
    IN  Fill(Fill(m, s, a + words, c % 256), a + words, s + n, c % 256)

(* Up to the zero byte, which is copied, too.                              *)
CopyString(m, d, s) ==
    CopyBytes(m, d, s, FirstByte(m, s, LAMBDA x : m[x] = 0) - s + 1)

(* Words until one contains a zero byte, then the bytes of that one.       *)
CopyStringByWords(m, d, s) ==
    LET p == FirstWord(m, s, LAMBDA x : DETECTNULL(LongAt(m, x)))
    IN  CopyString(CopyWords(m, d, s, p - s), d + p - s, p)

(* A half-word of which the low byte is zero is stored as one byte.        *)
strcpy(m, d, s) ==
    LET odd == s % 2
        m1 == IF odd = 1 THEN [m EXCEPT ![d] = m[s]] ELSE m
        s1 == s + odd
        d1 == d + odd
        half == s1 % LONG = 2
        m2 == IF ~half THEN m1
              ELSE IF m[s1] = 0 THEN [m1 EXCEPT ![d1] = 0]
              ELSE PutAt(m1, d1, <<m[s1], m[s1 + 1]>>)
        skip == IF half THEN 2 ELSE 0
    IN  IF (d - s) % LONG # 0 THEN CopyString(m, d, s)
        ELSE IF odd = 1 /\ m[s] = 0 THEN m1
        ELSE IF half /\ 0 \in {m[s1], m[s1 + 1]} THEN m2
        ELSE CopyStringByWords(m2, d1 + skip, s1 + skip)

StringEnd(m, s1) ==
    LET skip == IF UNALIGNED(s1) THEN s1
                ELSE FirstWord(m, s1, LAMBDA x : DETECTNULL(LongAt(m, x)))
    IN  FirstByte(m, skip, LAMBDA x : m[x] = 0)

strcat(m, s1, s2) == strcpy(m, StringEnd(m, s1), s2)

strncat(m, s1, s2, n) ==
    LET e == StringEnd(m, s1)
        len == FirstByte(m, s2, LAMBDA x : x = s2 + n \/ m[x] = 0) - s2
    IN  IF len = n THEN IF n = 0 THEN m ELSE PutAt(CopyBytes(m, e, s2, n), e + n, <<0>>)
        ELSE CopyBytes(m, e, s2, len + 1)

strncpy(m, d, s, count) ==
    LET words == IF UNALIGNED(s) \/ UNALIGNED(d) \/ count < LONG THEN 0
                 ELSE FirstWord(m, 0, LAMBDA i : \/ count - i < LONG
                                                 \/ DETECTNULL(LongAt(m, s + i)))
        n == FirstByte(m, words, LAMBDA i : i = count \/ m[s + i] = 0)
        stored == IF n = count THEN n ELSE n + 1
        m1 == CopyBytes(CopyWords(m, d, s, words), d + words, s + words, stored - words)
    IN  Fill(m1, d + stored, d + count, 0)

(* strlcpy() and strlcat() return the memory and the length of the string  *)
(* they tried to create.                                                   *)
strlcpy(m, d, s, siz) ==
    LET len == FirstByte(m, s, LAMBDA x : m[x] = 0) - s
        n == Min({len, siz - 1})
    IN  <<IF siz = 0 THEN m ELSE PutAt(CopyBytes(m, d, s, n), d + n, <<0>>), len>>

strlcat(m, d, s, siz) ==
    LET dlen == FirstByte(m, d, LAMBDA x : x = d + siz \/ m[x] = 0) - d
        len == FirstByte(m, s, LAMBDA x : m[x] = 0) - s
        n == Min({len, siz - dlen - 1})
    IN  <<IF siz = dlen THEN m ELSE PutAt(CopyBytes(m, d + dlen, s, n), d + dlen + n, <<0>>),
          dlen + len>>

IsBlankByte(c) == c \in {9, 10, 11, 12, 13, 32}

(* The memory, and where the trimmed string starts.                        *)
strim(m, s) ==
    LET start == FirstByte(m, s, LAMBDA x : ~IsBlankByte(m[x]))
        size == strlen(m, start)
        end == Max({x \in start - 1 .. start + size - 1 : x < start \/ ~IsBlankByte(m[x])})
    IN  IF size = 0 THEN <<m, start>> ELSE <<[m EXCEPT ![end + 1] = 0], start>>

(* The memory, the token and what *s1 becomes.                             *)
strsep(m, s, s2) ==
    LET p == IF s = NULL_PTR \/ m[s] = 0 THEN NULL_PTR ELSE strpbrk(m, s, s2)
    IN  IF p = NULL_PTR THEN <<m, s, p>> ELSE <<[m EXCEPT ![p] = 0], s, p + 1>>
=============================================================================
