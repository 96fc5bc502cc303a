------------------------------ MODULE MCBoard -------------------------------
(* TLC instances of what a load goes through, in parts that do not share   *)
(* state: start-up, interrupts with timers 2 and 3, DMA, frames on the     *)
(* wire, and one transfer on two networks.  One of these keeps the order   *)
(* of packets, with the constants of the configuration; the other reorders *)
(* them, and its server knows no options.  A behaviour is one of one part, *)
(* while the others stay as they are.                                      *)
EXTENDS MCTftpTransfer, Interrupts, Dma, Startup, Frames

VARIABLE part

allVars == <<part, vars, irqVars, dmaVars, startupVars, frameVars>>

Networks == {"ordered", "reordering"}

Reordering == INSTANCE TftpTransfer WITH InOrder <- FALSE, OackSizes <- {}

BoardInit ==
    /\ part \in Networks \cup {"interrupts", "dma", "startup", "frames"}
    /\ Init /\ IrqInit /\ DmaInit /\ StartupInit /\ FramesInit
    /\ part \notin Networks => TftpLastBlock = 0 /\ TftpBlockWrapOffset = 0
    /\ part # "dma" => driver = "030"
    /\ part # "startup" => bad = {}

BoardNext ==
    /\ UNCHANGED part
    /\ \/ /\ part = "ordered" /\ Next
          /\ UNCHANGED <<irqVars, dmaVars, startupVars, frameVars>>
       \/ /\ part = "reordering" /\ Reordering!Next
          /\ UNCHANGED <<irqVars, dmaVars, startupVars, frameVars>>
       \/ /\ part = "interrupts" /\ IrqNext
          /\ UNCHANGED <<vars, dmaVars, startupVars, frameVars>>
       \/ /\ part = "dma" /\ DmaNext
          /\ UNCHANGED <<vars, irqVars, startupVars, frameVars>>
       \/ /\ part = "startup" /\ StartupNext
          /\ UNCHANGED <<vars, irqVars, dmaVars, frameVars>>
       \/ /\ part = "frames" /\ FramesNext
          /\ UNCHANGED <<vars, irqVars, dmaVars, startupVars>>

BoardSpec ==
    BoardInit /\ [][BoardNext]_allVars /\ IrqFairness /\ DmaFairness

MCIPIDs == 0 .. 255
=============================================================================
