------------------------------- MODULE TextIO -------------------------------
(* Formatted input (lib/mylibc/stdio/scanf.c), and a program that prints,   *)
(* reads lines and scans: one call of the library per behaviour, with its   *)
(* arguments and its results in `job'.                                      *)
EXTENDS Conversions
LOCAL INSTANCE SequencesExt
LOCAL INSTANCE FiniteSetsExt

CONSTANTS
    Values,      \* integers to print and to scan
    Decimals,    \* numbers to print in decimal
    Widths,      \* widths and precisions, <<>> when there is none
    FlagSets,    \* sets of the flags LEFT, PLUS, SPACE, SPECIAL, ZEROPAD
    Sizes,       \* sizes of the buffer of snprintf()
    Items,       \* directives snprintf() and printf() are called with
    Keys,        \* keys typed for _gets()
    MaxKeys      \* bound on them

VARIABLE job     \* [op, in, out] of the call, or NoJob

NoJob == [op |-> "none"]

-----------------------------------------------------------------------------
(* vsscanf().  The scan is at the directive i of the format and at the      *)
(* place p of the text; `got' are the values stored, `num' the conversions  *)
(* counted.                                                                 *)

ScanDirective(conv, qualifier, width, star) ==
    [conv |-> conv, qualifier |-> qualifier, width |-> width, star |-> star,
     arg |-> NUL]
Space == ScanDirective("space", "", -1, FALSE)
Literal(c) == [Space EXCEPT !.conv = "literal", !.arg = c]

skip_spaces(s, p) == Skip(s, p, isspace)

Store(st, v) == [st EXCEPT !.got = Append(@, v), !.num = @ + 1]

ScanChars(s, st, width) ==
    LET n == Min({Max({width, 1}), Len(s) + 1 - st.p})
    IN [Store(st, SubSeq(s, st.p, st.p + n - 1)) EXCEPT !.p = @ + n]

ScanString(s, st, width) ==
    LET p == skip_spaces(s, st.p)
        end == Skip(s, p, LAMBDA c : ~ isspace(c) /\ c # NUL)
        to == IF width = -1 THEN end ELSE Min({end, p + width})
    IN [Store(st, SubSeq(s, p, to - 1)) EXCEPT !.p = to]

Base(conv) == CASE conv = "o" -> 8 [] conv \in {"x", "X"} -> 16
                [] conv = "i" -> 0 [] OTHER -> 10

\* The digits are not limited by the width.  strtoul() does not know base 8:
\* it stores 0 and leaves `next' as it was, without a value.
ScanInteger(s, st, d) ==
    LET base == Base(d.conv)
        is_sign == d.conv \in {"d", "i"}
        p == skip_spaces(s, st.p)
        digit == At(s, IF is_sign /\ At(s, p) = "-" THEN p + 1 ELSE p)
        rest == SubSeq(s, p, Len(s))
        r == IF is_sign THEN strtol(rest, base) ELSE strtoul(rest, base)
        bits == CASE d.qualifier = "hh" -> CharBits [] d.qualifier = "h" -> ShortBits
                  [] OTHER -> IntBits
        v == IF is_sign THEN Signed(r.val, bits) ELSE Unsigned(r.val, bits)
    IN IF IF base = 16 THEN ~ isxdigit(digit)
          ELSE ~ isdigit(digit) \/ (base = 8 /\ digit \in {"8", "9"})
       THEN [st EXCEPT !.p = p, !.done = TRUE]
       ELSE [Store(st, v) EXCEPT !.p = p + r.end - 1, !.lost = r = Unsupported,
                                 !.done = r = Unsupported]

Scan(s, st, d) ==
    CASE d.conv = "c" -> ScanChars(s, st, d.width)
      [] d.conv = "s" -> ScanString(s, st, d.width)
      [] d.conv = "n" -> [st EXCEPT !.got = Append(@, st.p - 1)]
      [] d.conv = "%" -> [st EXCEPT !.p = @ + 1, !.done = At(s, st.p) # "%"]
      [] d.conv \in {"o", "x", "X", "i", "d", "u"} -> ScanInteger(s, st, d)
      [] OTHER -> [st EXCEPT !.done = TRUE]

\* White space in the format matches any amount of it.
SkipSpaces(s, f, st) ==
    IF f[st.i].conv # "space" THEN st
    ELSE [st EXCEPT !.i = CHOOSE j \in st.i .. Len(f) + 1 :
                            /\ \A k \in st.i .. j - 1 : f[k].conv = "space"
                            /\ j = Len(f) + 1 \/ f[j].conv # "space",
                    !.p = skip_spaces(s, st.p)]

\* The next directive.  A suppressed one (*) takes the literals after it along.
ScanItem(s, f, st) ==
    IF st.i > Len(f) THEN st
    ELSE LET d == f[st.i]
             next == [st EXCEPT !.i = @ + 1]
         IN IF d.conv = "literal"
            THEN [next EXCEPT !.p = @ + 1, !.done = At(s, st.p) # d.arg]
            ELSE IF d.star
            THEN [st EXCEPT !.i = CHOOSE j \in st.i + 1 .. Len(f) + 1 :
                                     /\ \A k \in st.i + 1 .. j - 1 : f[k].conv = "literal"
                                     /\ j = Len(f) + 1 \/ f[j].conv # "literal",
                            !.p = Skip(s, st.p, LAMBDA c : ~ isspace(c) /\ c # NUL)]
            ELSE IF At(s, st.p) = NUL THEN [st EXCEPT !.i = Len(f) + 1]
            ELSE Scan(s, next, d)

\* A %n at the end is filled in even when the text has come to its end.
LastCount(f, st) ==
    IF ~ st.lost /\ st.i <= Len(f) /\ f[st.i].conv = "n" /\ ~ f[st.i].star
    THEN [st EXCEPT !.got = Append(@, st.p - 1)] ELSE st

vsscanf(s, f) ==
    LET start == [i |-> 1, p |-> 1, num |-> 0, got |-> <<>>, lost |-> FALSE,
                  done |-> FALSE]
        loop[k \in 0 .. Len(f)] ==
            IF k = 0 THEN start
            ELSE LET st == loop[k - 1]
                 IN IF st.done \/ st.i > Len(f) \/ st.p > Len(s) THEN st
                    ELSE ScanItem(s, f, SkipSpaces(s, f, st))
    IN LastCount(f, loop[Len(f)])

sscanf(s, f) == vsscanf(s, f)

-----------------------------------------------------------------------------
(* Lines typed at the console.                                              *)

MutantEraseAll(keys) ==
    FoldLeft(LAMBDA g, c :
               IF g.end THEN g
               ELSE IF c = "BS" THEN [g EXCEPT !.line = <<>>]
               ELSE IF c \in {"\r", "\n"} THEN [g EXCEPT !.end = TRUE]
               ELSE [g EXCEPT !.line = Append(@, c)],
             [line |-> <<>>, end |-> FALSE], keys)

\* The keys up to the end of the line, and the line they leave.
_gets(keys) ==
    FoldLeft(LAMBDA g, c :
               IF g.end THEN g
               ELSE IF c = "BS" THEN [g EXCEPT !.line = IF @ = <<>> THEN @ ELSE Front(@)]
               ELSE IF c \in {"\r", "\n"} THEN [g EXCEPT !.end = TRUE]
               ELSE [g EXCEPT !.line = Append(@, c)],
             [line |-> <<>>, end |-> FALSE], keys)

\* scanf() asks again for a line as long as it gets empty ones.
scanf(lines, f) ==
    LET full == SelectSeq(lines, LAMBDA l : l # <<>>)
    IN IF full = <<>> THEN [num |-> -1] ELSE vsscanf(full[1], f)

-----------------------------------------------------------------------------
Done(op, in, out) == job' = [op |-> op, in |-> in, out |-> out]


PrintInteger ==
    /\ job = NoJob
    /\ \E v \in Values, flags \in FlagSets, conv \in {"d", "u", "o", "x", "X"},
          width, precision \in Widths :
          LET d == Directive(conv, flags, width, precision, "", v)
          IN Done("print", d, Text(<<d>>))

PrintDecimal ==
    /\ job = NoJob
    /\ \E v \in Decimals :
          LET d == Directive("u", {}, <<>>, <<>>, "", v) IN Done("print", d, Text(<<d>>))

Snprintf ==
    /\ job = NoJob
    /\ \E size \in Sizes, n \in 0 .. 3 : \E fmt \in [1 .. n -> Items] :
          Done("snprintf", [size |-> size, fmt |-> fmt], simple_snprintf(size, fmt))

Printf ==
    /\ job = NoJob
    /\ \E n \in 0 .. 2 : \E fmt \in [1 .. n -> Items] :
          Done("printf", fmt, simple_printf(fmt))

Strtol ==
    /\ job = NoJob
    /\ \E v \in Values, base \in {10, 16} :
          LET w == Signed(v, IntBits)
          IN Done("strtol", <<w, base>>, IF base = 10 THEN atoi(itoa(w, base))
                                          ELSE strtol(ltoa(w, base), base).val)

\* What the program keeps of a scan r of text, which holds vals.
Scanned(vals, text, r) ==
    Done("sscanf", [vals |-> vals, len |-> Len(text)],
         [first |-> At(r.got, 1), last |-> SubSeq(r.got, Len(r.got) - 1, Len(r.got)),
          num |-> r.num, some |-> Len(r.got)])

ScansBack(vals, text, f) == Scanned(vals, text, sscanf(text, f))

\* What was printed is scanned with the same directives.
Sscanf ==
    /\ job = NoJob
    /\ \E v \in Values, c1 \in {"d", "u", "x", "i"}, q \in {"", "h", "hh"},
          sep \in {<<Space>>, <<Literal(",")>>, <<ScanDirective("s", "", 1, FALSE)>>,
                   <<Literal(","), ScanDirective("c", "", 2, FALSE)>>,
                   <<Space, ScanDirective("d", "", -1, TRUE), Space>>} :
          LET w == 3 - v
              c2 == IF c1 = "d" THEN "x" ELSE "d"
              bits == CASE q = "hh" -> CharBits [] q = "h" -> ShortBits [] OTHER -> IntBits
              Cut(c, n) == IF c \in {"d", "i"} THEN Signed(n, bits) ELSE Unsigned(n, bits)
              Put(c, n) == Text(<<Directive(IF c = "x" THEN "x" ELSE IF c = "u" THEN "u" ELSE "d",
                                            {}, <<>>, <<>>, "", n)>>)
              between == CASE Len(sep) = 3 -> <<" ", "7", ",", " ">>
                           [] sep[1].conv = "s" -> <<" ", "z", " ">>
                           [] sep[1] = Space -> <<" ", " ">>
                           [] Len(sep) = 2 -> <<",", "a", " ">>
                           [] OTHER -> <<",">>
              f == <<ScanDirective(c1, q, -1, FALSE)>> \o sep
                   \o <<ScanDirective(c2, q, -1, FALSE), ScanDirective("n", "", -1, FALSE)>>
          IN ScansBack(<<Cut(c1, v), Cut(c2, w)>>,
                       Put(c1, Cut(c1, v)) \o between \o Put(c2, Cut(c2, w)), f)

Gets ==
    /\ job = NoJob
    /\ \E n \in 0 .. MaxKeys : \E keys \in [1 .. n -> Keys] :
          Done("gets", keys, [line |-> _gets(keys).line,
                              scanned |-> scanf(<<<<>>, _gets(keys).line>>,
                                                <<ScanDirective("s", "", -1, FALSE)>>)])

TextIOInit == job = NoJob
TextIONext == PrintInteger \/ PrintDecimal \/ Snprintf \/ Printf \/ Strtol \/ Sscanf \/ Gets
TextIOSpec == TextIOInit /\ [][TextIONext]_job

-----------------------------------------------------------------------------
(* The digits of n, and the text of an integer conversion, by definition.   *)
Power(b, k) == b ^ k
Numeral(n, base) ==
    LET len == CHOOSE k \in 1 .. 32 :
                  /\ n < Power(base, k)
                  /\ k = 1 \/ n >= Power(base, k - 1)
    IN [i \in 1 .. len |-> (n \div Power(base, len - i)) % base]

Expected(d) ==
    LET n == NumArg(d)
        base == CASE d.conv = "o" -> 8 [] d.conv \in {"x", "X"} -> 16 [] OTHER -> 10
        small == d.conv = "x"
        body == [i \in DOMAIN Numeral(IF n < 0 THEN -n ELSE n, base) |->
                    (IF small THEN LowDigits ELSE Digits)
                        [Numeral(IF n < 0 THEN -n ELSE n, base)[i] + 1]]
        digits == Times(Pad(d.precision - Len(body)), "0") \o body
        lead == (IF d.conv # "d" THEN <<>>
                 ELSE IF n < 0 THEN <<"-">>
                 ELSE IF "PLUS" \in d.flags THEN <<"+">>
                 ELSE IF "SPACE" \in d.flags THEN <<" ">> ELSE <<>>)
                \o (IF "SPECIAL" \notin d.flags \/ base = 10 THEN <<>>
                    ELSE IF base = 8 THEN <<"0">>
                    ELSE <<"0", IF small THEN "x" ELSE "X">>)
        fill == Pad(d.width - Len(lead \o digits))
    IN IF "LEFT" \in d.flags THEN lead \o digits \o Times(fill, " ")
       ELSE IF "ZEROPAD" \in d.flags THEN lead \o Times(fill, "0") \o digits
       ELSE Times(fill, " ") \o lead \o digits

\* number(), with the digits that put_dec_trunc() and put_dec_full() get from
\* products and shifts, prints each value in its base with sign, prefix and
\* padding where the flags, the width and the precision want them, and no
\* longer than the width unless the number is.
PrintsRight == job.op = "print" => job.out = Expected(job.in)

\* Within its size the buffer of snprintf() holds as much of the text as there
\* is room for and a NUL, and %n counts the characters before it.  Outside its
\* size nothing is written but one NUL, where the text ends (BufferKept says
\* that not even this should be).
BufferRight ==
    job.op = "snprintf" =>
        LET text == Text(job.in.fmt)
            size == job.in.size
            kept == Min({Len(text), size - 1})
        IN /\ size > 0 => /\ \A i \in 0 .. kept - 1 : job.out.buf[i] = text[i + 1]
                          /\ job.out.buf[kept] = NUL
           /\ \A i \in DOMAIN job.out.buf :
                 i >= size => i = job.out.ret /\ job.out.buf[i] = NUL
           /\ \A k \in job.out.n : k <= Len(text)

\* What a value or a format prints is what it says, and within the buffer it
\* is cut to the buffer's size.
OutputRight == PrintsRight /\ BufferRight

\* snprintf() writes nothing outside its buffer: ADDCH() adds a character "only
\* if it will fit" (simple_printf.c:149-150), and of the functions with a size
\* line 550 says that they are there to "avoid buffer overflows".  Not so: the
\* last NUL (line 537) goes to where the whole text ends and one more, even
\* for a text that just fits.
BufferKept ==
    job.op = "snprintf" => \A i \in DOMAIN job.out.buf : i < job.in.size

\* What ltoa() or a print of a value wrote is read back as that value by
\* strtol() and sscanf(), through the separators, suppressed directives and
\* qualifiers of the format, and %n tells how far the scan came.  (ltoa()
\* writes no digit of the least long, whose negation is itself.)
ReadsBack ==
    /\ job.op = "strtol" /\ job.in[1] # - 2 ^ (IntBits - 1) =>
          job.out = job.in[1]
    /\ job.op = "sscanf" =>
          /\ job.out.first = job.in.vals[1]
          /\ job.out.last = <<job.in.vals[2], job.in.len>>
          /\ job.out.num = job.out.some - 1

\* The line a program gets is what the screen shows: every key but the ones
\* that erase, without the characters erased, up to the end of the line.
LineAsShown ==
    job.op = "gets" =>
        LET keys == job.in
            end == Skip(keys, 1, LAMBDA c : c \notin {"\r", "\n", NUL})
            typed == SubSeq(keys, 1, end - 1)
            \* A key survives if no erasure after it matches it.
            Erased(i) == \E j \in i + 1 .. Len(typed) :
                            Cardinality({k \in i .. j : typed[k] = "BS"})
                              >= Cardinality({k \in i .. j : typed[k] # "BS"})
            kept == SelectSeq([i \in DOMAIN typed |-> i],
                              LAMBDA i : typed[i] # "BS" /\ ~ Erased(i))
            line == [i \in DOMAIN kept |-> typed[kept[i]]]
        IN /\ job.out.line = line
           /\ ~ (\A c \in ToSet(line) : isspace(c)) => job.out.scanned.num = 1

\* What was printed or typed is what the program reads.
InputRight == ReadsBack /\ LineAsShown
=============================================================================
