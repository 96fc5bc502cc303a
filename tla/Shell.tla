------------------------------- MODULE Shell --------------------------------
(* The command line of lib/cli.c: scan_string() takes keys one by one from  *)
(* the console (drivers/console/ftuart.c) into cmdstr[CMDLEN], cmd_exec()   *)
(* cuts the line into words with strtok(), in place, and calls the command  *)
(* the first word names.                                                    *)
(*                                                                          *)
(* Characters and texts are those of module Conversions.  The pointers      *)
(* argv[] are places in the line.  What lies beyond cmdstr[] and argv[] is  *)
(* not modelled: a line that writes there ends the behaviour ("spoiled").   *)
EXTENDS Conversions, FiniteSets
LOCAL INSTANCE SequencesExt
LOCAL INSTANCE FiniteSetsExt

CONSTANTS
    CMDLEN,        \* bytes of cmdstr[] (50)
    LineLimit,     \* characters scan_string() takes (256)
    ArgLimit,      \* entries of argv[] (16)
    TypedKeys,     \* keys the user types
    Names,         \* name of the table or "help" -> its text
    WordAt,        \* address of the first word of memory md and mw may touch
    Words,         \* words of memory from there on
    MaxLines       \* bound on the lines of a behaviour

VARIABLES
    mode,          \* "scan" or "spoiled"
    cmdstr,        \* the buffer, by index from 0
    count,         \* characters in it
    screen,        \* the line as the terminal shows it
    ran,           \* the command that has just returned: its name, its words,
                   \* what it printed
    memory,        \* the words of memory, by place from 0
    load_addr,     \* where tftpboot loads
    lines          \* lines given

shellVars == <<mode, cmdstr, count, screen, ran, memory, load_addr, lines>>

Printable(c) == c \notin {"BS", "DEL", "\r", "\n", "BELL"}

ftuart_getc(key) == IF key = "\r" THEN "\n" ELSE key
Room(i) == i < CMDLEN
Junk == "junk"
NothingRan == [name |-> "none", argv |-> <<>>, out |-> <<>>, help |-> "none"]

-----------------------------------------------------------------------------
(* scan_string(), a key at a time.  Cells after count are not read before   *)
(* they are written: they are as good as new for the next line.             *)

TypePrintable(key) ==
    /\ Printable(key) /\ count < LineLimit
    /\ IF Room(count) THEN cmdstr' = [cmdstr EXCEPT ![count] = key] /\ mode' = mode
       ELSE cmdstr' = cmdstr /\ mode' = "spoiled"
    /\ count' = count + 1
    /\ screen' = Append(screen, key)
    /\ ran' = NothingRan /\ UNCHANGED <<memory, load_addr, lines>>

TypeErase(key) ==
    /\ key \in {"BS", "DEL"} /\ count > 0
    /\ count' = count - 1
    /\ cmdstr' = [cmdstr EXCEPT ![count - 1] = NUL]
    /\ screen' = Front(screen)
    /\ ran' = NothingRan /\ UNCHANGED <<mode, memory, load_addr, lines>>

-----------------------------------------------------------------------------
(* strtok() with " \r\n\t": it ends each word with a NUL and remembers the  *)
(* place after it.                                                          *)

Delimiters == {" ", "\r", "\n", "\t"}
CellAt(buf, i) == IF i \in DOMAIN buf THEN buf[i] ELSE Junk

\* The first place from i on where it is `in' that the character is in S.
RECURSIVE FirstPlace(_, _, _, _)
FirstPlace(buf, i, S, in) ==
    IF i = CMDLEN \/ (buf[i] \in S) = in THEN i ELSE FirstPlace(buf, i + 1, S, in)

MutantEndsNothing(buf, i) ==
    LET token == FirstPlace(buf, i, Delimiters, FALSE)
        end == FirstPlace(buf, token, Delimiters \cup {NUL}, TRUE)
    IN [buf |-> buf, next |-> IF CellAt(buf, end) = NUL THEN end ELSE end + 1,
        tok |-> IF CellAt(buf, token) = NUL THEN -1 ELSE token]

strtok(buf, i) ==
    LET token == FirstPlace(buf, i, Delimiters, FALSE)
        end == FirstPlace(buf, token, Delimiters \cup {NUL}, TRUE)
    IN IF CellAt(buf, token) = NUL THEN [buf |-> buf, next |-> token, tok |-> -1]
       ELSE IF CellAt(buf, end) = NUL THEN [buf |-> buf, next |-> end, tok |-> token]
       ELSE [buf |-> [buf EXCEPT ![end] = NUL], next |-> end + 1, tok |-> token]

\* The line after all words are cut, and argv[].
RECURSIVE CutFrom(_, _, _)
CutFrom(buf, i, argv) ==
    LET s == strtok(buf, i)
    IN IF s.tok = -1 THEN [buf |-> s.buf, argv |-> argv]
       ELSE CutFrom(s.buf, s.next, Append(argv, s.tok))

CutLine(line) == CutFrom(line, 0, <<>>)

\* The text at a place of the line.
StringAt(buf, i) ==
    LET end == FirstPlace(buf, i, {NUL}, TRUE)
    IN [j \in 1 .. end - i |-> buf[i + j - 1]]

-----------------------------------------------------------------------------
(* The commands: what each does to memory and to load_addr, the words it    *)
(* prints, and what it returns.                                             *)

Effect(rc, out, mem, addr) == [rc |-> rc, out |-> out, memory |-> mem, load_addr |-> addr]
Usage(rc) == Effect(rc, <<>>, memory, load_addr)
Num(argv, i) == strtol(argv[i], 0).val

\* Words of memory from an address on; only those of the model can be read.
Printed(mem, addr, num) ==
    [i \in 1 .. num |-> IF addr - WordAt + i - 1 \in DOMAIN mem
                        THEN mem[addr - WordAt + i - 1] ELSE 0]

do_rd32(argv) ==
    IF Len(argv) \notin 2 .. 3 THEN Usage(1)
    ELSE Effect(0, Printed(memory, Num(argv, 2),
                           IF Len(argv) = 3 THEN Pad(Num(argv, 3)) ELSE 4),
                memory, load_addr)

\* num words from `at' on, the first one v, each inc more than the one before.
Written(at, v, num, inc) ==
    [i \in DOMAIN memory |->
        LET k == i + WordAt - at
        IN IF k \in 0 .. num - 1 THEN Signed(v + k * inc, IntBits) ELSE memory[i]]

Wrote(mem, at, num) == Effect(0, Printed(mem, at, num), mem, load_addr)

do_wr32(argv) ==
    IF Len(argv) \notin 3 .. 5 THEN Usage(1)
    ELSE LET num == IF Len(argv) >= 4 THEN Pad(Num(argv, 4)) ELSE 1
             inc == IF Len(argv) = 5 THEN Num(argv, 5) ELSE 0
         IN Wrote(Written(Num(argv, 2), Num(argv, 3), num, inc), Num(argv, 2), num)

\* Download and boot are those of module NetLoop; without a MAC controller,
\* or after an error, the command returns 0 with load_addr as it was set.
do_tftpboot(argv) ==
    IF Len(argv) < 2 THEN Usage(1)
    ELSE Effect(0, <<>>, memory,
                IF Len(argv) = 3 THEN strtoul(argv[3], 16).val ELSE load_addr)

\* An address is four numbers with dots; the words of the model are not.
do_ping(argv) == IF Len(argv) < 2 THEN Usage(-1) ELSE Usage(1)
do_print_irqinfo(argv) == Usage(0)

Call(name, argv) ==
    CASE name = "md" -> do_rd32(argv)
      [] name = "mw" -> do_wr32(argv)
      [] name = "irq" -> do_print_irqinfo(argv)
      [] name = "tftpboot" -> do_tftpboot(argv)
      [] name = "ping" -> do_ping(argv)
      [] OTHER -> Usage(0)

\* do_help(1) lists the table, do_help(2) the entry of argv[0].
Ran(name, argv, e) ==
    [name |-> name, argv |-> argv, out |-> e.out,
     help |-> IF name = "help" THEN "table" ELSE IF e.rc # 0 THEN "entry" ELSE "none"]

\* A word that names no command with a function (also "?") gets the table;
\* for "quit" cmd_exec() does nothing and returns 1.
Named(word) ==
    LET names == {n \in DOMAIN Names : Names[n] = word}
    IN IF word = <<"q", "u", "i", "t">> THEN "quit"
       ELSE IF names \subseteq {"?", "help"} THEN "help"
       ELSE CHOOSE n \in names : TRUE

Finished(name, argv, e) ==
    /\ ran' = Ran(name, argv, e)
    /\ memory' = e.memory /\ load_addr' = e.load_addr
    /\ mode' = mode

RunWords(argv) ==
    IF Len(argv) > ArgLimit
    THEN mode' = "spoiled" /\ UNCHANGED <<ran, memory, load_addr>>
    ELSE IF argv = <<>>
    THEN /\ ran' = NothingRan
         /\ UNCHANGED <<mode, memory, load_addr>>
    ELSE Finished(Named(argv[1]), argv, Call(Named(argv[1]), argv))

ArgvOf(cut) == [k \in DOMAIN cut.argv |-> StringAt(cut.buf, cut.argv[k])]
cmd_exec(line) == RunWords(ArgvOf(CutLine(line)))

\* Return ends the line, and shell() runs it (it takes no notice of "quit").
TypeReturn(key) ==
    /\ ftuart_getc(key) = "\n" /\ lines < MaxLines
    /\ IF count < LineLimit /\ ~ Room(count)
       THEN mode' = "spoiled" /\ UNCHANGED <<ran, memory, load_addr>>
       ELSE cmd_exec(IF count < LineLimit THEN [cmdstr EXCEPT ![count] = NUL] ELSE cmdstr)
    /\ lines' = lines + 1
    /\ count' = 0 /\ screen' = <<>>
    /\ cmdstr' = [i \in DOMAIN cmdstr |-> Junk]

TypeOther(key) ==
    /\ ~ Printable(key) /\ ftuart_getc(key) # "\n"
    /\ key \in {"BS", "DEL"} => count = 0
    /\ UNCHANGED shellVars

-----------------------------------------------------------------------------
ShellInit ==
    /\ mode = "scan" /\ count = 0 /\ screen = <<>> /\ lines = 0
    /\ cmdstr = [i \in 0 .. CMDLEN - 1 |-> Junk]
    /\ ran = NothingRan
    /\ memory = [i \in 0 .. Words - 1 |-> 0]
    /\ load_addr = 0

ShellNext ==
    /\ mode = "scan" /\ lines < MaxLines
    /\ \E key \in TypedKeys :
          \/ TypePrintable(key)
          \/ TypeErase(key)
          \/ TypeReturn(key)
          \/ TypeOther(key)

-----------------------------------------------------------------------------
\* The words of a text.
WordsOf(t) ==
    LET Starts == {i \in DOMAIN t : /\ t[i] \notin Delimiters
                                    /\ i = 1 \/ t[i - 1] \in Delimiters}
        EndOf(i) == Max({j \in i .. Len(t) : \A k \in i .. j : t[k] \notin Delimiters})
        starts == SetToSortSeq(Starts, <)
    IN [k \in DOMAIN starts |-> SubSeq(t, starts[k], EndOf(starts[k]))]

\* A line that fits into cmdstr[] and argv[] runs as the user sees it: when
\* return is typed the command gets the words on the screen, each ended where
\* the next begins, whatever was erased and retyped before.
RunsWhatIsShown ==
    [][lines' = lines + 1 /\ mode' = "scan" => ran'.argv = WordsOf(screen)]_shellVars

\* Only a line too long for cmdstr[CMDLEN], or of more words than argv[] has
\* entries, writes outside of them.
SpoilsOnlyWhenTooLong ==
    [][mode' = "spoiled" => \/ Len(screen) >= CMDLEN
                          \/ Len(WordsOf(screen)) > ArgLimit]_shellVars

\* After mw the words it was to write are those that md shows, they are the
\* ones mw printed itself, and all others are as before.
WritesAsAsked ==
    [][LET argv == ran'.argv
           at == Num(argv, 2)
           num == IF Len(argv) >= 4 THEN Num(argv, 4) ELSE 1
           inc == IF Len(argv) = 5 THEN Num(argv, 5) ELSE 0
       IN lines' = lines + 1 /\ ran'.name = "mw" /\ Len(argv) \in 3 .. 5 =>
             \A i \in DOMAIN memory :
                IF i + WordAt - at \in 0 .. num - 1
                THEN /\ memory'[i] = Num(argv, 3) + (i + WordAt - at) * inc
                     /\ memory'[i] = ran'.out[i + WordAt - at + 1]
                ELSE memory'[i] = memory[i]]_shellVars

\* A line does what it says, or is too long to.
LinesRun == RunsWhatIsShown /\ SpoilsOnlyWhenTooLong /\ WritesAsAsked
=============================================================================
