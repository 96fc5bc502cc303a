---------------------------- MODULE Conversions -----------------------------
(* The conversions of the C library between numbers and text: strtol(),     *)
(* strtoul() and ltoa() (lib/mylibc/stdlib), the formatted output of        *)
(* simple_printf.c and the formatted input of scanf.c.                      *)
(*                                                                          *)
(* A character is a string of length one, NUL the empty string, and a text  *)
(* the sequence of its characters before the NUL.  A format is the sequence *)
(* of its directives, each a record with the fields the source parses.      *)
EXTENDS Integers, Sequences
LOCAL INSTANCE SequencesExt
LOCAL INSTANCE FiniteSetsExt

CONSTANTS
    IntBits,    \* bits of an int and of a long (32)
    ShortBits,  \* bits of a short (16)
    CharBits    \* bits of a char (8)

NUL == ""
Digits == <<"0", "1", "2", "3", "4", "5", "6", "7", "8", "9", "A", "B", "C", "D", "E", "F">>
LowDigits == <<"0", "1", "2", "3", "4", "5", "6", "7", "8", "9", "a", "b", "c", "d", "e", "f">>

DigitValue(c) == CHOOSE v \in 0 .. 15 : c \in {Digits[v + 1], LowDigits[v + 1]}
isdigit(c) == c \in ToSet(SubSeq(Digits, 1, 10))
isxdigit(c) == c \in ToSet(Digits) \cup ToSet(LowDigits)
isspace(c) == c \in {" ", "\n", "\t", "\r"}

Unsigned(n, bits) == n % 2 ^ bits
Signed(n, bits) ==
    LET u == n % 2 ^ bits
    IN IF u >= 2 ^ (bits - 1) THEN u - 2 ^ bits ELSE u

At(s, i) == IF i <= Len(s) THEN s[i] ELSE NUL

\* The first place from i on with a character that is not Ok.
Skip(s, i, Ok(_)) ==
    CHOOSE j \in i .. Max({i, Len(s) + 1}) :
        ~ Ok(At(s, j)) /\ \A k \in i .. j - 1 : Ok(At(s, k))

-----------------------------------------------------------------------------
(* strtol.c, strtoul.c.  `end' is the place endptr points to, 0 when it is  *)
(* not set.                                                                 *)

\* The base, and the place of the first digit, of the number that begins at i.
BaseOf(s, i, base) ==
    IF base # 0 THEN [base |-> base, first |-> i]
    ELSE IF At(s, i) # "0" THEN [base |-> 10, first |-> i]
         ELSE IF At(s, i + 1) \in {"x", "X"} THEN [base |-> 16, first |-> i + 2]
              ELSE [base |-> 10, first |-> i + 1]

DigitsFrom(s, i, base, sign) ==
    LET b == BaseOf(s, i, base)
        end == Skip(s, b.first, LAMBDA c : IF b.base > 10 THEN isxdigit(c) ELSE isdigit(c))
    IN [val |-> FoldLeft(LAMBDA n, c : Unsigned(n * b.base + DigitValue(c), IntBits),
                         0, SubSeq(s, b.first, end - 1)) * sign,
        end |-> end]

Unsupported == [val |-> 0, end |-> 0]

strtoul(s, base) ==
    IF base \notin {0, 10, 16} THEN Unsupported ELSE DigitsFrom(s, 1, base, 1)

strtol(s, base) ==
    IF base \notin {0, 10, 16} THEN Unsupported
    ELSE LET signed == At(s, 1) \in {"-", "+"}
             r == DigitsFrom(s, IF signed THEN 2 ELSE 1, base,
                             IF At(s, 1) = "-" THEN -1 ELSE 1)
         IN [r EXCEPT !.val = Signed(@, IntBits)]

atoi(s) == strtol(s, 10).val

\* Digits are produced while the value is positive: the negation of the least
\* long is itself, so it has none.
ltoa(value, base) ==
    LET abs == Signed(IF value < 0 THEN -value ELSE value, IntBits)
        tmp[v \in Int] == IF v <= 0 THEN <<>>
                          ELSE Append(tmp[v \div base], Digits[(v % base) + 1])
    IN IF value = 0 THEN <<"0">>
       ELSE (IF value < 0 THEN <<"-">> ELSE <<>>) \o tmp[abs]

itoa(value, base) == ltoa(value, base)

-----------------------------------------------------------------------------
(* simple_printf.c.                                                         *)

\* The five decimal digits of q, least significant first, by the products and
\* shifts that stand for divisions by ten.
Tenth(x) == (x * 205) \div 2048

Fives(q) ==
    LET n1 == (q \div 16) % 16
        n2 == (q \div 256) % 16
        n3 == q \div 4096
        d0 == 6 * (n3 + n2 + n1) + (q % 16)
        q0 == Tenth(d0)
        d1 == q0 + 9 * n3 + 5 * n2 + n1
        q1 == Tenth(d1)
        d2 == q1 + 2 * n2
        q2 == (d2 * 13) \div 128
        d3 == q2 + 4 * n3
        q3 == Tenth(d3)
    IN [digit |-> <<d0 - 10 * q0, d1 - 10 * q1, d2 - 10 * q2, d3 - 10 * q3, q3>>,
        more |-> <<d1 # 0, d2 # 0 \/ n3 # 0, d3 # 0, q3 # 0>>]

put_dec_full(q) == Fives(q).digit

put_dec_trunc(q) ==
    LET f == Fives(q)
        n == CHOOSE k \in 1 .. 5 : /\ \A j \in 1 .. k - 1 : f.more[j]
                                   /\ k = 5 \/ ~ f.more[k]
    IN SubSeq(f.digit, 1, n)

MutantShortRest(num) ==
    IF num < 100000 THEN put_dec_trunc(num)
    ELSE put_dec_trunc(num % 100000) \o put_dec_trunc(num \div 100000)

put_dec(num) ==
    LET rest[v \in Nat] ==
            IF v < 100000 THEN put_dec_trunc(v)
            ELSE put_dec_full(v % 100000) \o rest[v \div 100000]
    IN rest[num]

\* `tmp' holds the digits of the number in reverse order.
ReverseDigits(num, base) ==
    LET mask[v \in Nat] == IF v = 0 THEN <<>> ELSE <<v % base>> \o mask[v \div base]
    IN IF num = 0 THEN <<0>> ELSE IF base = 10 THEN put_dec(num) ELSE mask[num]

Times(n, c) == [i \in 1 .. n |-> c]
Pad(n) == IF n > 0 THEN n ELSE 0

\* The size left for padding after sign, prefix and digits is shared: spaces
\* before the sign, or zeros after the prefix, or spaces at the end.
Field(sign, prefix, tmp, size0, precision0, type) ==
    LET zeropad == "ZEROPAD" \in type /\ "LEFT" \notin type
        precision == Max({Len(tmp), precision0})
        size == Pad(size0 - Len(sign) - Len(prefix) - precision)
        digits == IF "SMALL" \in type THEN LowDigits ELSE Digits
        spaces == IF zeropad \/ "LEFT" \in type THEN 0 ELSE size
        zeros == IF zeropad THEN size ELSE 0
    IN Times(spaces, " ") \o sign \o prefix \o Times(zeros, "0")
       \o Times(precision - Len(tmp), "0")
       \o [i \in 1 .. Len(tmp) |-> digits[tmp[Len(tmp) + 1 - i] + 1]]
       \o Times(size - spaces - zeros, " ")

number(num0, base, size0, precision0, type) ==
    LET negative == "SIGN" \in type /\ num0 < 0
        num == IF negative THEN -num0 ELSE num0
        sign == IF negative THEN <<"-">>
                ELSE IF "SIGN" \notin type THEN <<>>
                ELSE IF "PLUS" \in type THEN <<"+">>
                ELSE IF "SPACE" \in type THEN <<" ">> ELSE <<>>
        prefix == IF "SPECIAL" \notin type \/ base = 10 THEN <<>>
                  ELSE IF base = 8 THEN <<"0">>
                  ELSE IF "SMALL" \in type THEN <<"0", "x">> ELSE <<"0", "X">>
    IN Field(sign, prefix, ReverseDigits(num, base), size0, precision0, type)

\* A precision that is not given is -1, and strnlen() takes it for a large one.
string(s, field_width, precision, flags) ==
    LET len == IF precision < 0 THEN Len(s) ELSE Min({Len(s), precision})
        pad == Times(Pad(field_width - len), " ")
    IN IF "LEFT" \in flags THEN SubSeq(s, 1, len) \o pad
       ELSE pad \o SubSeq(s, 1, len)

pointer(ptr, field_width, precision, flags) ==
    IF ptr = 0 THEN string(<<"(", "n", "u", "l", "l", ")">>, field_width, precision, flags)
    ELSE number(ptr, 16, IF field_width = -1 THEN 2 * (IntBits \div 8) ELSE field_width,
                precision, flags \cup {"SMALL"} \cup
                           (IF field_width = -1 THEN {"ZEROPAD"} ELSE {}))

\* A width or precision is <<>>, or the sequence of its value: the sign of a
\* width (it may come from an argument) is the flag "-", and a negative
\* precision is 0.
Directive(conv, flags, width, precision, qualifier, arg) ==
    [conv |-> conv, arg |-> arg, qualifier |-> qualifier,
     flags |-> IF width # <<>> /\ width[1] < 0 THEN flags \cup {"LEFT"} ELSE flags,
     width |-> IF width = <<>> THEN -1 ELSE Max({width[1], -width[1]}),
     precision |-> IF precision = <<>> THEN -1 ELSE Pad(precision[1])]

\* The argument of an integer conversion as a long long.
NumArg(d) ==
    LET bits == IF d.qualifier = "h" THEN ShortBits ELSE IntBits
    IN IF d.conv \in {"d", "i"} THEN Signed(d.arg, bits) ELSE Unsigned(d.arg, bits)

BaseOfConv(conv) ==
    CASE conv = "o" -> 8 [] conv \in {"x", "X"} -> 16 [] OTHER -> 10
FlagsOfConv(conv) ==
    CASE conv = "x" -> {"SMALL"} [] conv \in {"d", "i"} -> {"SIGN"} [] OTHER -> {}

\* What a directive adds to the output.
Expansion(d) ==
    CASE d.conv = "literal" -> <<d.arg>>
      [] d.conv = "c" -> string(<<d.arg>>, d.width, 1, d.flags)
      [] d.conv = "s" -> string(d.arg, d.width, d.precision, d.flags)
      [] d.conv = "null s" ->
            string(<<"<", "N", "U", "L", "L", ">">>, d.width, d.precision, d.flags)
      [] d.conv = "p" -> pointer(d.arg, d.width, d.precision, d.flags)
      [] d.conv = "n" -> <<>>
      [] d.conv = "%" -> <<"%">>
      [] d.conv \in {"o", "x", "X", "d", "i", "u"} ->
            number(NumArg(d), BaseOfConv(d.conv), d.width, d.precision,
                   d.flags \cup FlagsOfConv(d.conv))
      [] OTHER -> <<"%", d.conv>>

Text(fmt) == FlattenSeq([i \in 1 .. Len(fmt) |-> Expansion(fmt[i])])

\* The bytes of the buffer after the call, by index, where it wrote: of all
\* the characters those that have a place, and a NUL.
Stored(size, all) ==
    LET cut == IF Len(all) > size /\ size > 0 THEN size - 1 ELSE -1
    IN [i \in {j \in 0 .. Len(all) - 1 : j < size} \cup {Len(all)} |->
           IF i = cut \/ i = Len(all) THEN NUL ELSE all[i + 1]]

\* The buffer, what the call returned, and what the %n stored.
Filled(size, all, fmt) ==
    [buf |-> Stored(size, all),
     ret |-> Len(all),
     n |-> {Len(Text(SubSeq(fmt, 1, i - 1))) : i \in {j \in DOMAIN fmt : fmt[j].conv = "n"}}]

vsnprintf_internal(size, fmt) ==
    Filled(size, Text(fmt) \o (IF size > 0 THEN <<NUL>> ELSE <<>>), fmt)

simple_snprintf(size, fmt) == vsnprintf_internal(size, fmt)

\* Without a buffer the text and the NUL go to the console, where ADDCH() and
\* ftuart_putc() each add a carriage return to a newline, and nothing is counted.
ADDCH(c) == IF c = "\n" THEN <<"\r", "\r", "\n">> ELSE <<c>>
PutAll(text) == FlattenSeq([i \in DOMAIN text |-> ADDCH(text[i])])

simple_printf(fmt) == [out |-> Append(PutAll(Text(fmt)), NUL), ret |-> 0]
=============================================================================
