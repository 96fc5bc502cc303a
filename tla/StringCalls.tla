----------------------------- MODULE StringCalls ----------------------------
(***************************************************************************)
(* A program that calls the string functions: one call per behaviour, its  *)
(* arguments and results in `strJob'.  The properties compare the results  *)
(* with definitions by the whole of the strings, which know no words.      *)
(***************************************************************************)
EXTENDS TwoWay
LOCAL INSTANCE FiniteSetsExt

CONSTANTS
    Backgrounds,   \* memories without a zero byte
    Letters,       \* the letters of haystacks and needles
    Hays, Needles, \* their lengths
    Thresholds     \* values of LONG_NEEDLE_THRESHOLD

VARIABLE strJob

Calling(what) == [kind |-> "none", what |-> what]
StringCallsInit == strJob \in {Calling(w) : w \in {"search", "compare", "copy", "edit", "find"}}

(* Where strings lie: every offset from a word boundary.                   *)
Near == 4 .. 7
Far == 24 .. 27
Lens == 0 .. 9
Limits == {0, 1, 3, 4, 5, 8, 9, 11}

CallSearch(fun, m, s, n, c, set) ==
    strJob' = [kind |-> "search", fun |-> fun, m |-> m, s |-> s, n |-> n, c |-> c, set |-> set,
               out |-> CASE fun = "strlen" -> strlen(m, s)
                         [] fun = "strchr" -> strchr(m, s, c)
                         [] fun = "strrchr" -> strrchr(m, s, c)
                         [] fun = "memchr" -> memchr(m, s, c, n)
                         [] fun = "strnlen" -> strnlen(m, s, n)
                         [] fun = "strnchr" -> strnchr(m, s, n, c)
                         [] fun = "memscan" -> memscan(m, s, c, n)
                         [] fun = "strspn" -> strspn(m, s, set)
                         [] fun = "strcspn" -> strcspn(m, s, set)
                         [] fun = "strpbrk" -> strpbrk(m, s, set)]

Search ==
    \E s \in Near, k \in Lens, b \in Backgrounds :
       LET m == PutAt(b, s + k, <<0>>)
       IN  \/ CallSearch("strlen", m, s, 0, 0, 0)
           \/ \E i \in 0 .. k + 1, fun \in {"strchr", "strrchr"} :
                 CallSearch(fun, m, s, 0, b[s + i], 0)
           \/ \E n \in Limits, fun \in {"memchr", "strnchr", "memscan"} :
                 CallSearch(fun, m, s, n, b[s + 6], 0)
           \/ \E n \in Limits : CallSearch("strnlen", m, s, n, 0, 0)
           \/ \E t \in {<<0>>, <<b[s], 0>>, <<b[s], b[s + 1], 0>>, <<b[s + 4], 0>>},
                 fun \in {"strspn", "strcspn", "strpbrk"} :
                 CallSearch(fun, PutAt(m, 24, t), s, 0, 0, 24)

(* Two strings that agree but for one place, which end at another.         *)
CallCompare(fun, m, a, b, n) ==
    strJob' = [kind |-> "compare", fun |-> fun, m |-> m, a |-> a, b |-> b, n |-> n,
               out |-> CASE fun = "memcmp" -> memcmp(m, a, b, n)
                         [] fun = "strcmp" -> strcmp(m, a, b)
                         [] fun = "strncmp" -> strncmp(m, a, b, n)
                         [] fun = "strcasecmp" -> strcasecmp(m, a, b)
                         [] fun = "strncasecmp" -> strncasecmp(m, a, b, n)
                         [] fun = "strnicmp" -> strnicmp(m, a, b, n)]

Compare ==
    \E a \in Near, b \in Far, i \in {0, 1, 2, 3, 4, 5, 7}, k \in {0, 3, 4, 7},
       d \in {<<1, 200>>, <<65, 97>>, <<66, 97>>, <<0, 97>>, <<97, 0>>} :
       LET content == [j \in 1 .. 12 |-> IF j = 12 THEN 0 ELSE 98 + (j % 2)]
           text(x) == [content EXCEPT ![k + 1] = 0, ![i + 1] = x]
           any == [j \in 0 .. 47 |-> j + 1]
           m == PutAt(PutAt(any, a, text(d[1])), b, text(d[2]))
       IN  \/ CallCompare("strcmp", m, a, b, 12)
           \/ /\ a = 4 /\ b \in {24, 25}
              /\ \/ CallCompare("strcasecmp", m, a, b, 12)
                 \/ \E n \in {0, 3, 4, 5, 8},
                       fun \in {"memcmp", "strncmp", "strncasecmp", "strnicmp"} :
                       CallCompare(fun, m, a, b, n)

(* d is a string of e bytes, s one of k.                                   *)
CallCopy(fun, m, d, e, s, k, n) ==
    strJob' = [kind |-> "copy", fun |-> fun, m |-> m, d |-> d, e |-> e, s |-> s, k |-> k,
               n |-> n,
               out |-> CASE fun = "memcpy" -> memcpy(m, d, s, n)
                         [] fun = "memmove" -> memmove(m, d, s, n)
                         [] fun = "memset" -> memset(m, d, k, n)
                         [] fun = "strcpy" -> strcpy(m, d, s)
                         [] fun = "strncpy" -> strncpy(m, d, s, n)
                         [] fun = "strcat" -> strcat(m, d, s)
                         [] fun = "strncat" -> strncat(m, d, s, n)
                         [] fun = "strlcpy" -> strlcpy(m, d, s, n)
                         [] fun = "strlcat" -> strlcat(m, d, s, n)
                         [] fun = "strim" -> strim(m, d)
                         [] fun = "strsep" -> strsep(m, d, s)]

Calls(funs, ds, es, ss, ks, ns) ==
    [fun : funs, d : ds, e : es, s : ss, k : ks, n : ns]

CopyCalls ==
    UNION {Calls({"memmove"}, 0 .. 8, {0}, 0 .. 8, {0}, Limits \cup {16, 19}),
           Calls({"memset"}, Near, {0}, {0}, {0, 65, 321}, Limits),
           Calls({"memcpy"}, Far, {0}, 4 .. 11, {0}, Limits),
           Calls({"memcpy"}, {28}, {0}, {4, 6}, {0}, {16, 19}),
           Calls({"strcpy"}, Far, {0}, 4 .. 11, Lens, {0}),
           Calls({"strncpy"}, {24, 25}, {0}, {4, 5}, Lens, Limits),
           Calls({"strlcpy"}, Far, {0}, {4}, Lens, Limits),
           Calls({"strcat"}, Far, {0, 3, 5}, 4 .. 7, Lens, {0}),
           Calls({"strncat", "strlcat"}, Far, {0, 3, 5}, {4}, Lens, {0, 3, 4, 8})}

(* The memory of a call: the ends of the strings that it takes.            *)
Copy ==
    \E b \in Backgrounds, c \in CopyCalls :
       LET source == IF c.fun \in {"memmove", "memset", "memcpy"} THEN b
                     ELSE PutAt(b, c.s + c.k, <<0>>)
           m == IF c.fun \in {"strcat", "strncat", "strlcat"}
                THEN PutAt(source, c.d + c.e, <<0>>) ELSE source
       IN  CallCopy(c.fun, m, c.d, c.e, c.s, c.k, c.n)

Edit ==
    \E t \in UNION {[1 .. j -> {32, 97}] : j \in 0 .. 5}, fun \in {"strim", "strsep"} :
       CallCopy(fun, PutAt(PutAt([x \in 0 .. 47 |-> 97], 4, t \o <<0>>), 24, <<32, 0>>),
                4, Len(t), 24, 1, 0)

CallFind(fun, h, t, threshold) ==
    LET m == PutAt(PutAt([x \in 0 .. 47 |-> 97], 4, h \o <<0>>), 24, t \o <<0>>)
    IN  strJob' = [kind |-> "find", fun |-> fun, h |-> h, t |-> t,
                   out |-> CASE fun = "strstr" -> strstr(m, 4, 24, threshold)
                             [] fun = "strcasestr" -> strcasestr(m, 4, 24, threshold)
                             [] fun = "memmem" -> memmem(m, 4, Len(h), 24, Len(t), threshold)
                             [] fun = "strnstr" -> strnstr(m, 4, 24, Len(h))]

Find ==
    \E n \in Hays, l \in Needles, threshold \in Thresholds :
       \E h \in [1 .. n -> Letters], t \in [1 .. l -> Letters] :
          \E fun \in {"strstr", "memmem"} \cup
                 IF threshold = Min(Thresholds) THEN {"strcasestr", "strnstr"} ELSE {} :
             CallFind(fun, h, IF fun = "strcasestr" THEN [i \in 1 .. l |-> t[i] - 32] ELSE t,
                      threshold)

StringCallsNext ==
    \/ strJob = Calling("search") /\ Search
    \/ strJob = Calling("compare") /\ Compare
    \/ strJob = Calling("copy") /\ Copy
    \/ strJob = Calling("edit") /\ Edit
    \/ strJob = Calling("find") /\ Find

-----------------------------------------------------------------------------
(* Properties.                                                             *)

ByteAt(m, s, i) == m[s + i]
LenOf(m, s) == Min({i \in 0 .. Top(m) - s : ByteAt(m, s, i) = 0})
FirstIn(S, base) == IF S = {} THEN NULL_PTR ELSE base + Min(S)
Run(S, len) == Min({i \in 0 .. len : i = len \/ i \notin S})

(* The searches that read a word at a time find the first place, or the    *)
(* last, however the string lies and whatever is around it (strlen.c,      *)
(* strchr.c, memchr.c; strrchr, strnlen, strnchr, memscan, strspn, strcspn *)
(* and strpbrk with them).                                                 *)
SearchRight ==
    strJob.kind = "search" =>
       LET m == strJob.m
           s == strJob.s
           n == strJob.n
           c == strJob.c
           len == LenOf(m, s)
           is == {i \in 0 .. len : ByteAt(m, s, i) = c}
           isAny == {i \in 0 .. n - 1 : ByteAt(m, s, i) = c}
           set == {ByteAt(m, strJob.set, i) : i \in 0 .. LenOf(m, strJob.set) - 1}
           inSet == {i \in 0 .. len - 1 : ByteAt(m, s, i) \in set}
       IN  strJob.out =
             CASE strJob.fun = "strlen" -> len
               [] strJob.fun = "strchr" -> FirstIn(is, s)
               [] strJob.fun = "strrchr" -> IF is = {} THEN NULL_PTR ELSE s + Max(is)
               [] strJob.fun = "memchr" -> FirstIn(isAny, s)
               [] strJob.fun = "strnlen" -> Min({len, n})
               [] strJob.fun = "strnchr" -> FirstIn(is \cap (0 .. n - 1), s)
               [] strJob.fun = "memscan" -> IF isAny = {} THEN s + n ELSE s + Min(isAny)
               [] strJob.fun = "strspn" -> Run(inSet, len)
               [] strJob.fun = "strcspn" -> Run((0 .. len - 1) \ inSet, len)
               [] strJob.fun = "strpbrk" -> FirstIn(inSet, s)

Sign(x) == IF x < 0 THEN -1 ELSE IF x > 0 THEN 1 ELSE 0

(* A comparison has the sign of the first difference, as unsigned bytes,   *)
(* within the strings and the limit: what lies behind a zero byte or in    *)
(* front of a string in its first word does not matter (strcmp.S,          *)
(* strncmp.c, memcmp.c, strcasecmp.c, strncasecmp.c, strnicmp.c).          *)
CompareRight ==
    strJob.kind = "compare" =>
       LET m == strJob.m
           fold(c) == IF strJob.fun \in {"strcasecmp", "strncasecmp", "strnicmp"}
                      THEN tolower(c) ELSE c
           A(i) == fold(ByteAt(m, strJob.a, i))
           B(i) == fold(ByteAt(m, strJob.b, i))
           len == IF strJob.fun = "memcmp" THEN strJob.n
                  ELSE Min({strJob.n, LenOf(m, strJob.a) + 1})
           differ == {i \in 0 .. len - 1 : A(i) # B(i)}
       IN  Sign(strJob.out) = IF differ = {} THEN 0 ELSE Sign(A(Min(differ)) - B(Min(differ)))

(* Nothing a string function reads depends on where the strings lie or on  *)
(* what is around them.                                                    *)
StringsRead == SearchRight /\ CompareRight

(* What the copying functions leave in memory, every byte of it: the       *)
(* source as it was before, the zero bytes, and nothing else touched       *)
(* (memcpy.c, memmove.c, memset.c, strcpy.c, strcat.c, strncpy.c,          *)
(* strncat.c, strlcpy.c, strlcat.c, strim.c, strsep.c).                    *)
CopyRight ==
    strJob.kind = "copy" =>
       LET m == strJob.m
           d == strJob.d
           e == strJob.e
           k == strJob.k
           n == strJob.n
           src == [i \in 1 .. 19 |-> ByteAt(m, strJob.s, i - 1)]
           str(len) == SubSeq(src, 1, len) \o <<0>>
           cut(len, to) == IF len <= 0 THEN m ELSE PutAt(m, to, str(Min({k, len - 1})))
           blanks == {i \in 0 .. e - 1 : ByteAt(m, d, i) = 32}
           text == (0 .. e - 1) \ blanks
       IN  strJob.out =
             CASE strJob.fun \in {"memcpy", "memmove"} -> PutAt(m, d, SubSeq(src, 1, n))
               [] strJob.fun = "memset" -> PutAt(m, d, [i \in 1 .. n |-> k % 256])
               [] strJob.fun = "strcpy" -> PutAt(m, d, str(k))
               [] strJob.fun = "strncpy" ->
                     PutAt(m, d, [i \in 1 .. n |-> IF i <= k THEN src[i] ELSE 0])
               [] strJob.fun = "strcat" -> PutAt(m, d + e, str(k))
               [] strJob.fun = "strncat" -> IF n = 0 THEN m ELSE cut(n + 1, d + e)
               [] strJob.fun = "strlcpy" -> <<cut(n, d), k>>
               [] strJob.fun = "strlcat" -> <<cut(n - e, d + e), k + Min({e, n})>>
               [] strJob.fun = "strim" ->
                     IF text = {} THEN <<m, d + e>>
                     ELSE <<PutAt(m, d + Max(text) + 1, <<0>>), d + Min(text)>>
               [] strJob.fun = "strsep" ->
                     IF blanks = {} THEN <<m, d, NULL_PTR>>
                     ELSE <<PutAt(m, d + Min(blanks), <<0>>), d, d + Min(blanks) + 1>>

(* The two-way searches, short and long, periodic needles and others, find *)
(* the first occurrence exactly when there is one (str-two-way.h).         *)
FindRight ==
    strJob.kind = "find" =>
       LET h == strJob.h
           t == [i \in DOMAIN strJob.t |->
                    IF strJob.fun = "strcasestr" THEN tolower(strJob.t[i]) ELSE strJob.t[i]]
           at == {i \in 0 .. Len(h) - Len(t) : SubSeq(h, i + 1, i + Len(t)) = t}
       IN  strJob.out = FirstIn(at, 4)
=============================================================================
