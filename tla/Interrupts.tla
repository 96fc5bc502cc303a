----------------------------- MODULE Interrupts -----------------------------
(***************************************************************************)
(* Interrupts: the exception entry and return of start.S, do_irq() and the *)
(* handler table of lib/traps.c, the FTINTC010 controller, and timers 2    *)
(* and 3 of fttmr010.c, whose handlers call back an application.           *)
(*                                                                         *)
(* The processor executes the program (prog) or, above it, the interrupt   *)
(* whose frame is the last of frames.  An interrupt may be taken between   *)
(* any two steps, so that a read-modify-write of a register that a handler *)
(* also writes is two steps of the program.                                *)
(***************************************************************************)
EXTENDS Integers, Sequences

CONSTANTS
    NR_IRQS,
    TIMERC_IRQ2, TIMERC_IRQ3,
    CallbackStops,    \* timers whose callback calls disable_timer()
    MaxDepth          \* bound on nested interrupts

ASSUME IrqConstants ==
    /\ NR_IRQS \in Nat
    /\ TIMERC_IRQ2 \in 0 .. (NR_IRQS - 1) /\ TIMERC_IRQ3 \in 0 .. (NR_IRQS - 1)
    /\ TIMERC_IRQ2 # TIMERC_IRQ3
    /\ CallbackStops \subseteq {2, 3}
    /\ MaxDepth \in Nat

VARIABLES
    IRQ_HANDLER,      \* the table: m_func and m_data of each interrupt
    intc,             \* registers of the controller, as sets of interrupts
    tmr,              \* registers of the timers, as sets of timers
    timer_handler,    \* the timers that have a callback
    cpsr, spsr,       \* IRQs enabled?  whose condition flags?
    frames,           \* one frame on the stack for each interrupt
    prog,             \* what the program is doing
    halted,           \* in bad_mode()
    owed,             \* timers that have expired since their last callback
    asked,            \* timers that the program has set going
    nested            \* an interrupt came inside restore_user_regs

deviceVars == <<IRQ_HANDLER, intc, tmr, timer_handler>>
cpuVars == <<cpsr, spsr, frames, halted, nested>>
irqVars == <<deviceVars, cpuVars, prog, owed, asked>>

Timers == {2, 3}
Irqs == 0 .. (NR_IRQS - 1)
Irq(t) == IF t = 2 THEN TIMERC_IRQ2 ELSE TIMERC_IRQ3

(* Operators named Mutant... are wrong on purpose; see module Tftp.        *)

-----------------------------------------------------------------------------
(* The controller: operators on the value of intc.                         *)

irq_edge_clear(c, irq) == [c EXCEPT !.latched = @ \ {irq}]

irq_set_enable(c, irq) == [c EXCEPT !.enable = @ \cup {irq}]

irq_set_disable(c, irq) == [c EXCEPT !.enable = @ \ {irq}]

(* An interrupt beyond NR_IRQS and an unknown type change nothing.         *)
irq_set_type(c, irq, type) ==
    IF irq >= NR_IRQS \/ type \notin {"LEVEL_LOW", "LEVEL_HIGH",
                                      "EDGE_FALLING", "EDGE_RISING"}
    THEN c
    ELSE [c EXCEPT !.edge = IF type \in {"EDGE_FALLING", "EDGE_RISING"}
                            THEN @ \cup {irq} ELSE @,
                   !.low = IF type \in {"LEVEL_LOW", "EDGE_FALLING"}
                           THEN @ \cup {irq} ELSE @]

interrupt_hw_init == [enable |-> {}, latched |-> {}, edge |-> {}, low |-> {}]

(* The status register: an edge is latched until it is cleared, a level    *)
(* lasts as long as the timer's interrupt_state.                           *)
Status ==
    intc.enable \cap ((intc.latched \cap intc.edge)
                      \cup ({Irq(t) : t \in tmr.interrupt_state} \ intc.edge))

irq_install_handler(table, irq, func, data) ==
    IF irq >= NR_IRQS \/ func = "NULL"
    THEN table
    ELSE [table EXCEPT ![irq] = [m_func |-> func, m_data |-> data]]

interrupt_init == [irq \in Irqs |-> [m_func |-> "default_isr", m_data |-> irq]]

-----------------------------------------------------------------------------
(* init_timer() and disable_timer(), called by the program.  While they    *)
(* are between reading and writing a register, prog.reg has its value.     *)

Idle == [pc |-> "app", t |-> 0, reg |-> {}]
Running == frames = <<>> /\ ~halted

init_timer(t, callback) ==
    /\ Running /\ prog.pc = "app"
    /\ timer_handler' = IF callback THEN timer_handler \cup {t} ELSE timer_handler
    /\ prog' = [pc |-> IF callback THEN "unmask" ELSE "mask", t |-> t,
                reg |-> tmr.interrupt_mask]
    /\ UNCHANGED <<IRQ_HANDLER, intc, tmr, cpuVars, owed, asked>>

(* interrupt_mask is written; with a callback, enable_interrupts().        *)
InitMask ==
    /\ Running /\ prog.pc \in {"unmask", "mask"}
    /\ tmr' = [tmr EXCEPT !.interrupt_mask = IF prog.pc = "unmask"
                                             THEN prog.reg \ {prog.t}
                                             ELSE prog.reg \cup {prog.t}]
    /\ cpsr' = IF prog.pc = "unmask" THEN [cpsr EXCEPT !.irq = TRUE] ELSE cpsr
    /\ prog' = [prog EXCEPT !.pc = "enable", !.reg = {}]
    /\ UNCHANGED <<IRQ_HANDLER, intc, timer_handler, spsr, frames, halted,
                   nested, owed, asked>>

disable_timer(t) ==
    /\ Running /\ prog.pc = "app"
    /\ prog' = [pc |-> "disable", t |-> t, reg |-> {}]
    /\ UNCHANGED <<deviceVars, cpuVars, owed, asked>>

ReadCr ==
    /\ Running /\ prog.pc \in {"enable", "disable"}
    /\ prog' = [prog EXCEPT !.pc = IF @ = "enable" THEN "set" ELSE "reset",
                            !.reg = tmr.cr]
    /\ UNCHANGED <<deviceVars, cpuVars, owed, asked>>

MutantOverwriteCr(on) ==
    /\ Running /\ prog.pc = IF on THEN "set" ELSE "reset"
    /\ tmr' = [tmr EXCEPT !.cr = IF on THEN {prog.t} ELSE prog.reg \ {prog.t}]
    /\ asked' = IF on THEN asked \cup {prog.t} ELSE asked \ {prog.t}
    /\ prog' = Idle
    /\ UNCHANGED <<IRQ_HANDLER, intc, timer_handler, cpuVars, owed>>

WriteCr(on) ==
    /\ Running /\ prog.pc = IF on THEN "set" ELSE "reset"
    /\ tmr' = [tmr EXCEPT !.cr = IF on THEN prog.reg \cup {prog.t}
                                       ELSE prog.reg \ {prog.t}]
    /\ asked' = IF on THEN asked \cup {prog.t} ELSE asked \ {prog.t}
    /\ prog' = Idle
    /\ UNCHANGED <<IRQ_HANDLER, intc, timer_handler, cpuVars, owed>>

(* The program may also shut an interrupt off at the controller.           *)
SwitchIrq(t) ==
    /\ Running /\ prog.pc = "app"
    /\ intc' = IF Irq(t) \in intc.enable
               THEN irq_set_disable(intc, Irq(t)) ELSE irq_set_enable(intc, Irq(t))
    /\ UNCHANGED <<IRQ_HANDLER, tmr, timer_handler, cpuVars, prog, owed, asked>>

-----------------------------------------------------------------------------
(* The exception and do_irq().                                             *)

Top == frames[Len(frames)]
InHandler(pc) == frames # <<>> /\ ~halted /\ Top.pc = pc
SetTop(f) == frames' = [frames EXCEPT ![Len(frames)] = f]

MutantSaveCpsr == [cpsr EXCEPT !.flags = "handler"]

(* What get_stack and save_user_regs keep of the interrupted code.         *)
SavedPsr == cpsr

(* get_stack changes to SVC mode with IRQs off, and save_user_regs pushes  *)
(* the frame, before the one area for IRQ mode can be needed again.        *)
irq ==
    /\ ~halted /\ cpsr.irq /\ Status # {} /\ Len(frames) < MaxDepth
    /\ frames' = Append(frames, [psr |-> SavedPsr, pc |-> "do_irq",
                                 is |-> {}, irq |-> 0, cr |-> {}])
    /\ cpsr' = [irq |-> FALSE, flags |-> "handler"]
    /\ nested' = (nested \/ (frames # <<>> /\ Top.pc = "ldm"))
    /\ UNCHANGED <<deviceVars, spsr, halted, prog, owed, asked>>

ReadStatus ==
    /\ InHandler("do_irq")
    /\ SetTop([Top EXCEPT !.pc = "scan", !.is = Status])
    /\ UNCHANGED <<deviceVars, cpsr, spsr, halted, nested, prog, owed, asked>>

(* The lowest bit of vintc_is selects the handler.                         *)
LowestIrq(is) == CHOOSE i \in is : \A j \in is : i <= j

CallHandler ==
    /\ InHandler("scan") /\ Top.is # {}
    /\ LET i == LowestIrq(Top.is) IN
       SetTop([Top EXCEPT !.is = @ \ {i},
                          !.pc = IF IRQ_HANDLER[i].m_func = "default_isr"
                                 THEN "scan" ELSE IRQ_HANDLER[i].m_func])
    /\ UNCHANGED <<deviceVars, cpsr, spsr, halted, nested, prog, owed, asked>>

(* fttmr010_t2_isr() and fttmr010_t3_isr(): the timer is stopped, the edge *)
(* and the state are cleared, the callback is called, the timer goes on.   *)
Isr(t) == IF t = 2 THEN "fttmr010_t2_isr" ELSE "fttmr010_t3_isr"

IsrStop(t) ==
    /\ InHandler(Isr(t))
    /\ tmr' = [tmr EXCEPT !.cr = @ \ {t}]
    /\ SetTop([Top EXCEPT !.pc = "clear", !.irq = t, !.cr = tmr.cr])
    /\ UNCHANGED <<IRQ_HANDLER, intc, timer_handler, cpsr, spsr, halted,
                   nested, prog, owed, asked>>

IsrClear ==
    /\ InHandler("clear")
    /\ intc' = irq_edge_clear(intc, Irq(Top.irq))
    /\ tmr' = [tmr EXCEPT !.interrupt_state = @ \ {Top.irq}]
    /\ SetTop([Top EXCEPT !.pc = "callback"])
    /\ UNCHANGED <<IRQ_HANDLER, timer_handler, cpsr, spsr, halted, nested,
                   prog, owed, asked>>

IsrCallback ==
    /\ InHandler("callback")
    /\ owed' = IF Top.irq \in timer_handler THEN owed \ {Top.irq} ELSE owed
    /\ IF Top.irq \in timer_handler \cap CallbackStops
       THEN /\ tmr' = [tmr EXCEPT !.cr = @ \ {Top.irq}]
            /\ asked' = asked \ {Top.irq}
       ELSE UNCHANGED <<tmr, asked>>
    /\ SetTop([Top EXCEPT !.pc = "restore"])
    /\ UNCHANGED <<IRQ_HANDLER, intc, timer_handler, cpsr, spsr, halted,
                   nested, prog>>

MutantClearLate ==
    /\ InHandler("restore")
    /\ tmr' = [tmr EXCEPT !.cr = Top.cr]
    /\ intc' = [intc EXCEPT !.latched = {}]
    /\ SetTop([Top EXCEPT !.pc = "scan", !.irq = 0, !.cr = {}])
    /\ UNCHANGED <<IRQ_HANDLER, timer_handler, cpsr, spsr, halted, nested,
                   prog, owed, asked>>

IsrRestore ==
    /\ InHandler("restore")
    /\ tmr' = [tmr EXCEPT !.cr = Top.cr]
    /\ SetTop([Top EXCEPT !.pc = "scan", !.irq = 0, !.cr = {}])
    /\ UNCHANGED <<IRQ_HANDLER, intc, timer_handler, cpsr, spsr, halted,
                   nested, prog, owed, asked>>

MutantIrqStaysOff ==
    /\ InHandler("scan") /\ Top.is = {}
    /\ SetTop([Top EXCEPT !.pc = "msr", !.psr.irq = FALSE])
    /\ UNCHANGED <<deviceVars, cpsr, spsr, halted, nested, prog, owed, asked>>

(* All are served: do_irq() ends with enable_interrupts().                 *)
DoIrqDone ==
    /\ InHandler("scan") /\ Top.is = {}
    /\ SetTop([Top EXCEPT !.pc = "msr"])
    /\ cpsr' = [cpsr EXCEPT !.irq = TRUE]
    /\ UNCHANGED <<deviceVars, spsr, halted, nested, prog, owed, asked>>

(* restore_user_regs: msr spsr, then ldmia with the processor status.      *)
RestoreSpsr ==
    /\ InHandler("msr")
    /\ spsr' = Top.psr
    /\ SetTop([Top EXCEPT !.pc = "ldm"])
    /\ UNCHANGED <<deviceVars, cpsr, halted, nested, prog, owed, asked>>

RestoreRegs ==
    /\ InHandler("ldm")
    /\ cpsr' = spsr
    /\ frames' = SubSeq(frames, 1, Len(frames) - 1)
    /\ UNCHANGED <<deviceVars, spsr, halted, nested, prog, owed, asked>>

(* An undefined instruction, a software interrupt, an abort or a FIQ:      *)
(* bad_mode() never returns, and IRQs are off.                             *)
bad_mode ==
    /\ ~halted /\ halted' = TRUE
    /\ cpsr' = [irq |-> FALSE, flags |-> "handler"]
    /\ UNCHANGED <<deviceVars, spsr, frames, nested, prog, owed, asked>>

-----------------------------------------------------------------------------
(* A running timer expires.  Its interrupt reaches the controller unless   *)
(* it is masked.                                                           *)
Expire(t) ==
    /\ t \in tmr.cr /\ t \notin tmr.interrupt_mask
    /\ tmr' = [tmr EXCEPT !.interrupt_state = @ \cup {t}]
    /\ intc' = [intc EXCEPT !.latched = @ \cup {Irq(t)}]
    /\ owed' = owed \cup {t}
    /\ UNCHANGED <<IRQ_HANDLER, timer_handler, cpuVars, prog, asked>>

(* What board_init() leaves: interrupt_init() and init_global_timer(),     *)
(* which starts timer 1 with its interrupt masked.                         *)
IrqInit ==
    /\ IRQ_HANDLER = irq_install_handler(
                       irq_install_handler(interrupt_init, TIMERC_IRQ2, Isr(2), 0),
                       TIMERC_IRQ3, Isr(3), 0)
    /\ intc = irq_set_enable(irq_set_type(
                irq_set_enable(irq_set_type(interrupt_hw_init,
                  TIMERC_IRQ2, "EDGE_RISING"), TIMERC_IRQ2),
                TIMERC_IRQ3, "EDGE_RISING"), TIMERC_IRQ3)
    /\ tmr = [cr |-> {1}, interrupt_mask |-> {1}, interrupt_state |-> {}]
    /\ timer_handler = {}
    /\ cpsr = [irq |-> FALSE, flags |-> "program"]
    /\ spsr = cpsr
    /\ frames = <<>>
    /\ prog = Idle
    /\ halted = FALSE
    /\ owed = {} /\ asked = {} /\ nested = FALSE

Application ==
    \/ \E t \in Timers : \/ \E callback \in BOOLEAN : init_timer(t, callback)
                         \/ disable_timer(t) \/ SwitchIrq(t)
    \/ InitMask \/ ReadCr \/ \E on \in BOOLEAN : WriteCr(on)

do_irq ==
    \/ ReadStatus \/ CallHandler
    \/ \E t \in Timers : IsrStop(t)
    \/ IsrClear \/ IsrCallback \/ IsrRestore
    \/ DoIrqDone \/ RestoreSpsr \/ RestoreRegs

IrqNext == Application \/ irq \/ do_irq \/ bad_mode \/ \E t \in Timers : Expire(t)

(* The processor goes on, and takes an interrupt that is pending.          *)
IrqFairness == WF_irqVars(irq \/ do_irq)

IrqSpec == IrqInit /\ [][IrqNext]_irqVars /\ IrqFairness

-----------------------------------------------------------------------------
(* Properties.                                                             *)

(* When a timer has expired and its callback has not run since, the        *)
(* controller still has the edge or do_irq() is on its way to the          *)
(* callback: clearing the edge, the snapshot in vintc_is and the register  *)
(* that handler and program both write lose nothing.                       *)
Serving(t) ==
    \E k \in 1 .. Len(frames) :
        \/ Irq(t) \in frames[k].is
        \/ frames[k].pc = Isr(t)
        \/ frames[k].pc \in {"clear", "callback"} /\ frames[k].irq = t

NoTickForgotten ==
    \A t \in owed : /\ Irq(t) \in intc.latched \cap intc.edge \/ Serving(t)
                    /\ t \in timer_handler

(* The control register, which the program changes by reading and writing  *)
(* and the handlers save and restore, has the timers that the program set  *)
(* going, whatever interrupts came between the read and the write.         *)
EnableAsAsked ==
    frames = <<>> => tmr.cr \cap Timers = asked

(* The interrupted program finds its condition flags and its interrupt     *)
(* enable as they were, unless an interrupt came after do_irq() had        *)
(* enabled them and before the frame was popped.                           *)
ProgramResumes ==
    (frames = <<>> /\ ~halted /\ ~nested) =>
        /\ cpsr.flags = "program"
        /\ (asked \cap timer_handler) \ tmr.interrupt_mask # {} => cpsr.irq

(* A timer that expires gets its callback, unless the program shuts its    *)
(* interrupt off.                                                          *)
TickServed ==
    \A t \in Timers :
        (t \in owed /\ Irq(t) \in intc.enable)
            ~> (t \notin owed \/ Irq(t) \notin intc.enable \/ halted)
=============================================================================
