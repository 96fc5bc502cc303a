------------------------------ MODULE Startup -------------------------------
(***************************************************************************)
(* start.S of a ROM image: text and data are copied from flash to DDR in   *)
(* blocks of BLOCK words, compared word by word, and .bss, which follows,  *)
(* is cleared; then hardware_init() and main().                            *)
(*                                                                         *)
(* Addresses count words from the start of the image.  A word of DDR may   *)
(* be bad: what is stored there is not what is read back.                  *)
(***************************************************************************)
EXTENDS Integers

CONSTANTS
    BLOCK,             \* 8: the registers r3-r10
    DATA_END,          \* words of text and data
    BSS_END,           \* .bss is DATA_END .. BSS_END - 1
    BadWords           \* words of DDR that may be bad

ASSUME StartupConstants ==
    /\ BLOCK \in Nat \ {0} /\ DATA_END \in Nat \ {0} /\ BSS_END \in Nat
    /\ DATA_END <= BSS_END

VARIABLES
    step,              \* where start.S is
    r0, r1,            \* source and target
    ddr,               \* "image": the word of the image with this address
    bad                \* the bad words

startupVars == <<step, r0, r1, ddr, bad>>

Words == 0 .. (BSS_END + BLOCK)
Store(a, value) == IF a \in bad THEN "broken" ELSE value

(* ldmia and stmia move a block; the end is looked at after it.  Past the  *)
(* end of the data, flash has anything.                                    *)
copy_text ==
    /\ step = "copy"
    /\ ddr' = [a \in Words |->
                 IF a \in r1 .. (r1 + BLOCK - 1)
                 THEN Store(a, IF a < DATA_END THEN "image" ELSE "flash")
                 ELSE ddr[a]]
    /\ IF r0 + BLOCK < DATA_END
       THEN r0' = r0 + BLOCK /\ r1' = r1 + BLOCK /\ UNCHANGED step
       ELSE r0' = 0 /\ r1' = 0 /\ step' = "verify"
    /\ UNCHANGED bad

MutantVerifyFirst ==
    /\ step = "verify"
    /\ r0' = r0 + 1 /\ r1' = r1 + 1
    /\ step' = IF ddr[r1] # "image" THEN "copy_error" ELSE "stacks"
    /\ UNCHANGED <<ddr, bad>>

verify_copy ==
    /\ step = "verify"
    /\ IF ddr[r1] # "image"
       THEN step' = "copy_error" /\ UNCHANGED <<r0, r1>>
       ELSE /\ r0' = r0 + 1 /\ r1' = r1 + 1
            /\ step' = IF r0 + 1 < DATA_END THEN step ELSE "stacks"
    /\ UNCHANGED <<ddr, bad>>

(* remap, setup_stacks(), and r0 and r1 at the ends of .bss.               *)
setup_stacks ==
    /\ step = "stacks" /\ step' = "clear"
    /\ r0' = DATA_END /\ r1' = BSS_END
    /\ UNCHANGED <<ddr, bad>>

(* When .bss is cleared, hardware_init() and main().                       *)
clbss ==
    /\ step = "clear"
    /\ IF r0 >= r1
       THEN step' = "main" /\ UNCHANGED <<r0, ddr>>
       ELSE /\ r0' = r0 + 1 /\ ddr' = [ddr EXCEPT ![r0] = Store(r0, "zero")]
            /\ UNCHANGED step
    /\ UNCHANGED <<r1, bad>>

StartupInit ==
    /\ step = "copy" /\ r0 = 0 /\ r1 = 0
    /\ ddr = [a \in Words |-> "anything"]
    /\ bad \in SUBSET BadWords

StartupNext == copy_text \/ verify_copy \/ setup_stacks \/ clbss

StartupSpec == StartupInit /\ [][StartupNext]_startupVars

-----------------------------------------------------------------------------
(* Properties.                                                             *)

(* main() runs only from memory that has the whole image, even if some of  *)
(* it is bad, and with all of .bss zero where it is not, although the copy *)
(* runs past the image into .bss.                                          *)
MainIsLoaded ==
    step = "main" =>
        /\ \A a \in 0 .. (DATA_END - 1) : ddr[a] = "image"
        /\ \A a \in DATA_END .. (BSS_END - 1) : a \notin bad => ddr[a] = "zero"
=============================================================================
