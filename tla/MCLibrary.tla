------------------------------ MODULE MCLibrary -----------------------------
(* TLC instances of the libraries, in parts that do not share state: the   *)
(* clock and those who wait with it, the allocator, rings and chains,      *)
(* formatted text, the command line, the strings, and sort, search and     *)
(* arithmetic.  A behaviour is one of one part, while the others stay as   *)
(* they are.                                                               *)
EXTENDS Timer, Malloc, Lists, MCTextIO, Shell, StringCalls, Algorithms

VARIABLE part

libraryVars == <<vars, mallocVars, listVars, job, shellVars, strJob, algJob>>
allVars == <<part, libraryVars>>

LibraryInit ==
    /\ part \in {"timer", "malloc", "rings", "chains", "text", "shell", "strings",
                "algorithms"}
    /\ Init /\ MallocInit /\ ListsInit /\ TextIOInit /\ ShellInit
    /\ StringCallsInit /\ AlgorithmsInit
    /\ part # "strings" => strJob = Calling("search")

LibraryNext ==
    /\ UNCHANGED part
    /\ \/ /\ part = "timer" /\ Next
          /\ UNCHANGED <<mallocVars, listVars, job, shellVars, strJob, algJob>>
       \/ /\ part = "malloc" /\ MallocNext
          /\ UNCHANGED <<vars, listVars, job, shellVars, strJob, algJob>>
       \/ /\ part = "rings" /\ RingsNext
          /\ UNCHANGED <<vars, mallocVars, chainVars, job, shellVars, strJob, algJob>>
       \/ /\ part = "chains" /\ ChainsNext
          /\ UNCHANGED <<vars, mallocVars, ringVars, job, shellVars, strJob, algJob>>
       \/ /\ part = "text" /\ job = NoJob /\ TextIONext
          /\ UNCHANGED <<vars, mallocVars, listVars, shellVars, strJob, algJob>>
       \/ /\ part = "shell" /\ ShellNext
          /\ UNCHANGED <<vars, mallocVars, listVars, job, strJob, algJob>>
       \/ /\ part = "strings" /\ StringCallsNext
          /\ UNCHANGED <<vars, mallocVars, listVars, job, shellVars, algJob>>
       \/ /\ part = "algorithms" /\ AlgorithmsNext
          /\ UNCHANGED <<vars, mallocVars, listVars, job, shellVars, strJob>>

LibrarySpec == LibraryInit /\ [][LibraryNext]_allVars

-----------------------------------------------------------------------------
(* Values of the constants.                                                *)

MCSymmetry == Permutations(Tags) \cup Permutations(Nodes) \cup Permutations(Heads)

MCTypedKeys == {"1", " ", "BS", "\r", "BELL"}

\* A command name of the table is typed as that many "1".
Ones(n) == [i \in 1 .. n |-> "1"]
MCNames ==
    [mw |-> Ones(1), md |-> Ones(2), tftpboot |-> Ones(3), ping |-> Ones(4),
     irq |-> Ones(5), help |-> Ones(6)] @@ ("?" :> Ones(7))

\* Memories without a zero byte: all different, all 1, and letters.
MCBackgrounds ==
    {[x \in 0 .. 47 |-> 128 + x], [x \in 0 .. 47 |-> 1], [x \in 0 .. 47 |-> 97 + (x % 3)]}
=============================================================================
