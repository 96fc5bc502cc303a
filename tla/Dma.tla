-------------------------------- MODULE Dma ---------------------------------
(***************************************************************************)
(* The DMA drivers: dmac030.c (AXI), which polls because dmac030.h defines *)
(* DMA_INT_POLLING, and dmac020.c (AHB, A320).  A program starts transfers *)
(* on several channels and waits for them in any order, while the          *)
(* controller finishes them.                                               *)
(*                                                                         *)
(* The registers of a channel are its enable bit, the masks and the other  *)
(* fields of its configuration, and the transfer it is programmed with.    *)
(***************************************************************************)
EXTENDS Integers

CONSTANTS
    Channels,
    Transfers,        \* source, destination and size of a transfer, or 0
    Cfgs,             \* values of the other fields of a configuration
    Drivers           \* {"030"}, {"020"} or both

ASSUME DmaConstants ==
    /\ Channels \subseteq Nat
    /\ Drivers \subseteq {"020", "030"} /\ Drivers # {}
    /\ 0 \in Transfers \cap Cfgs

VARIABLES
    driver,           \* the controller of this board
    dma_ch,           \* the registers of each channel
    dma_tc, dma_err,  \* channels with the raw status bit set
    dma_endian,       \* channels with the endian converter on
    outcome,          \* how the channel's last transfer ended: "" if it runs
    seen,             \* outcomes that the program has been told
    waiting           \* the channel that the program waits for, or NoChannel

NoChannel == -1
statusVars == <<dma_tc, dma_err>>
dmaVars == <<driver, dma_ch, statusVars, dma_endian, outcome, seen, waiting>>

-----------------------------------------------------------------------------
(* The drivers.                                                            *)

Free == waiting = NoChannel
SetReg(ch, field, value) == dma_ch' = [dma_ch EXCEPT ![ch][field] = value]

(* DMA_CHDataCtrl(), its 2D form and DMA_CHLinkList().                     *)
DMA_CHDataCtrl(ch, x) ==
    /\ Free /\ outcome[ch] # "" /\ seen[ch]
    /\ SetReg(ch, "transfer", x)
    /\ UNCHANGED <<driver, statusVars, dma_endian, outcome, seen, waiting>>

(* DMA_SetCHCfg(), EnableDMAChannelWriteOnly(), EnableDMAChannelUnalign(). *)
DMA_SetCHCfg(ch, cfg) ==
    /\ Free
    /\ SetReg(ch, "cfg", cfg)
    /\ UNCHANGED <<driver, statusVars, dma_endian, outcome, seen, waiting>>

(* DMA_SetInterrupt() writes a local variable that it never initialised;   *)
(* fLib_DMA_SetInterrupt() reads the register first.                       *)
DMA_SetInterrupt(ch, mask) ==
    /\ Free
    /\ \E cfg \in IF driver = "030" THEN Cfgs ELSE {dma_ch[ch].cfg} :
          dma_ch' = [dma_ch EXCEPT ![ch].masked = mask, ![ch].cfg = cfg]
    /\ UNCHANGED <<driver, statusVars, dma_endian, outcome, seen, waiting>>

(* Switching one converter off writes 0 for all channels.                  *)
EnableDMAChannelEndianConverter(ch) ==
    /\ Free /\ driver = "030"
    /\ dma_endian' = dma_endian \cup {ch}
    /\ UNCHANGED <<driver, dma_ch, statusVars, outcome, seen, waiting>>

DisableDMAChannelEndianConverter(ch) ==
    /\ Free /\ driver = "030" /\ ch \in dma_endian
    /\ dma_endian' = {}
    /\ UNCHANGED <<driver, dma_ch, statusVars, outcome, seen, waiting>>

(* ClearDMAChannelIntStatus(): terminal count and error of one channel.    *)
ClearDMAChannelIntStatus(ch) ==
    /\ dma_tc' = dma_tc \ {ch}
    /\ dma_err' = dma_err \ {ch}

EnableDMAChannel(ch) == SetReg(ch, "ch_en", TRUE)

DMA_ResetChannel(ch) ==
    dma_ch' = [dma_ch EXCEPT ![ch] = [ch_en |-> FALSE, masked |-> (driver = "030"),
                                      cfg |-> 0, transfer |-> 0]]

(* How a program uses the drivers: one of dmac020.c clears the channel     *)
(* before it starts it, because fLib_DMA_WaitIntStatus() leaves the status *)
(* set; a transfer that is given up is reset and its status cleared.       *)
Start(ch) ==
    /\ Free /\ outcome[ch] # "" /\ seen[ch]
    /\ EnableDMAChannel(ch)
    /\ IF driver = "020" THEN ClearDMAChannelIntStatus(ch) ELSE UNCHANGED statusVars
    /\ outcome' = [outcome EXCEPT ![ch] = ""] /\ seen' = [seen EXCEPT ![ch] = FALSE]
    /\ UNCHANGED <<driver, dma_endian, waiting>>

GiveUp(ch) ==
    /\ Free /\ ~seen[ch]
    /\ DMA_ResetChannel(ch)
    /\ ClearDMAChannelIntStatus(ch)
    /\ outcome' = [outcome EXCEPT ![ch] = "given up"]
    /\ seen' = [seen EXCEPT ![ch] = TRUE]
    /\ UNCHANGED <<driver, dma_endian, waiting>>

(* The program begins to wait, and polls.                                  *)
CallWait(ch) ==
    /\ Free /\ ~seen[ch]
    /\ waiting' = ch
    /\ UNCHANGED <<driver, dma_ch, statusVars, dma_endian, outcome, seen>>

Returned(ch) ==
    /\ waiting' = NoChannel
    /\ seen' = [seen EXCEPT ![ch] = TRUE]
    /\ UNCHANGED <<driver, dma_endian, outcome>>

MutantAnyChannel(ch) ==
    /\ waiting = ch /\ dma_tc # {}
    /\ dma_tc' = dma_tc \ {ch} /\ UNCHANGED <<dma_ch, dma_err>>
    /\ Returned(ch)

(* DMA_WaitIntStatus() finds terminal count and clears it;                 *)
(* fLib_DMA_WaitIntStatus() disables the channel instead.                  *)
WaitTc(ch) ==
    /\ waiting = ch /\ ch \in dma_tc
    /\ IF driver = "030"
       THEN dma_tc' = dma_tc \ {ch} /\ UNCHANGED <<dma_ch, dma_err>>
       ELSE SetReg(ch, "ch_en", FALSE) /\ UNCHANGED statusVars
    /\ Returned(ch)

MutantNoErr(ch) == FALSE /\ UNCHANGED dmaVars

(* Only DMA_WaitIntStatus() looks at errors.                               *)
WaitErr(ch) ==
    /\ waiting = ch /\ driver = "030" /\ ch \notin dma_tc /\ ch \in dma_err
    /\ dma_err' = dma_err \ {ch} /\ UNCHANGED <<dma_ch, dma_tc>>
    /\ Returned(ch)

-----------------------------------------------------------------------------
(* The controller.                                                         *)

Finish(ch, bad) ==
    /\ dma_ch[ch].ch_en /\ outcome[ch] = ""
    /\ dma_ch' = [dma_ch EXCEPT ![ch].ch_en = FALSE]
    /\ IF bad THEN dma_err' = dma_err \cup {ch} /\ UNCHANGED dma_tc
              ELSE dma_tc' = dma_tc \cup {ch} /\ UNCHANGED dma_err
    /\ outcome' = [outcome EXCEPT ![ch] = IF bad THEN "err" ELSE "tc"]
    /\ UNCHANGED <<driver, dma_endian, seen, waiting>>

DmaInit ==
    /\ driver \in Drivers
    /\ dma_ch = [ch \in Channels |-> [ch_en |-> FALSE, masked |-> TRUE,
                                      cfg |-> 0, transfer |-> 0]]
    /\ dma_tc = {} /\ dma_err = {} /\ dma_endian = {}
    /\ outcome = [ch \in Channels |-> "none"] /\ seen = [ch \in Channels |-> TRUE]
    /\ waiting = NoChannel

DmaWait == \E ch \in Channels : WaitTc(ch) \/ WaitErr(ch)

DmaNext ==
    \/ \E ch \in Channels :
          \/ \E x \in Transfers : DMA_CHDataCtrl(ch, x)
          \/ \E cfg \in Cfgs : DMA_SetCHCfg(ch, cfg)
          \/ \E mask \in BOOLEAN : DMA_SetInterrupt(ch, mask)
          \/ EnableDMAChannelEndianConverter(ch)
          \/ DisableDMAChannelEndianConverter(ch)
          \/ Start(ch) \/ GiveUp(ch) \/ CallWait(ch)
          \/ \E bad \in BOOLEAN : Finish(ch, bad)
    \/ DmaWait

(* The controller finishes what it was given, and the program polls.       *)
DmaFairness ==
    /\ \A ch \in Channels : WF_dmaVars(\E bad \in BOOLEAN : Finish(ch, bad))
    /\ WF_dmaVars(DmaWait)

DmaSpec == DmaInit /\ [][DmaNext]_dmaVars /\ DmaFairness

-----------------------------------------------------------------------------
(* Properties.                                                             *)

(* A wait returns only when the transfer started last on its channel has   *)
(* ended: no status is left over from an earlier one, and none is taken    *)
(* from another channel.                                                   *)
WaitMeansDone ==
    [][\A ch \in Channels :
         (seen[ch] # seen'[ch] /\ seen'[ch]) => outcome'[ch] # ""]_dmaVars

(* A transfer that has ended, and that nobody was told of, still shows in  *)
(* the status registers, whatever the program did with other channels.     *)
StatusKept ==
    \A ch \in Channels :
        ~seen[ch] => /\ outcome[ch] = "tc" => ch \in dma_tc
                     /\ outcome[ch] = "err" => ch \in dma_err
                     /\ outcome[ch] = "" => ch \notin dma_tc \cup dma_err

(* The status of a channel is neither left over, taken from another one nor *)
(* lost to one.                                                            *)
StatusTold == WaitMeansDone /\ []StatusKept

(* A wait returns, except that fLib_DMA_WaitIntStatus() waits for ever for *)
(* a transfer that has failed.                                             *)
WaitReturns ==
    \A ch \in Channels :
        (waiting = ch) ~> (waiting # ch \/ (driver = "020" /\ outcome[ch] = "err"))
=============================================================================
