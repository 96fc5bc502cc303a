-------------------------------- MODULE Timer -------------------------------
(***************************************************************************)
(* Time: the tick count of drivers/timer/fttmr010.c, the conversions of    *)
(* lib/timer.c, and those who wait with them, which are NetLoop()'s        *)
(* timeout, ArpTimeoutCheck() and udelay().                                *)
(*                                                                         *)
(* Timer 1 counts down from TIMER_LOAD_VAL and reloads.  rolls, which the  *)
(* program cannot see, counts the reloads, so that TrueTicks is the time   *)
(* that has really passed.  Integers have the widths of the code: an       *)
(* unsigned long is modulo WORD, an unsigned long long modulo LWORD.       *)
(***************************************************************************)
EXTENDS Integers

CONSTANTS
    WORD,                 \* 2^32 in the code
    LWORD,                \* 2^64 in the code
    TIMER_LOAD_VAL,       \* what the counter is reloaded with
    TIMER_CLOCK,          \* ticks in a second
    CONFIG_SYS_HZ,        \* units of get_timer() in a second
    MSECS,                \* 1000: milliseconds in a second
    USECS,                \* 1000000: microseconds in a second
    ARP_TIMEOUT,
    ARP_TIMEOUT_COUNT,
    Timeouts,             \* the milliseconds given to NetSetTimeout()
    Delays,               \* the microseconds given to udelay()
    Steps,                \* ticks that may pass between two steps
    MaxRolls              \* bound on rolls

ASSUME TimerConstants ==
    /\ WORD \in Nat \ {0} /\ LWORD \in Nat \ {0}
    /\ TIMER_LOAD_VAL = WORD - 1
    /\ TIMER_CLOCK \in Nat \ {0} /\ CONFIG_SYS_HZ \in Nat \ {0}
    /\ MSECS \in Nat \ {0} /\ USECS \in Nat \ {0}
    /\ ARP_TIMEOUT \in Nat /\ ARP_TIMEOUT_COUNT \in Nat \ {0, 1}
    /\ Timeouts \subseteq Nat \ {0} /\ Delays \subseteq Nat
    /\ Steps \subseteq 1 .. WORD - 1
    /\ MaxRolls \in Nat

VARIABLES
    counter, rolls,       \* timer_counter of timer 1, and its reloads
    tbu, tbl,             \* the high and low words of the tick count
    polledRolls,          \* rolls when get_ticks() was last called
    pc,                   \* "idle", "rx", "arp", "timer" or "udelay"
    timeHandler,          \* is a handler installed?
    timeStart, timeDelta,
    setAt, setFor,        \* when NetSetTimeout() was called, and for how long
    arpWaits,             \* NetArpWaitPacketIP is not 0
    NetArpWaitTimerStart, NetArpWaitTry,
    askedAt,              \* when NetArpWaitTimerStart was set
    start, tmo,           \* the locals of udelay()
    delayAt, delayFor     \* when udelay() was called, and for how long

tickVars == <<tbu, tbl, polledRolls>>
timeoutVars == <<timeHandler, timeStart, timeDelta, setAt, setFor>>
arpVars == <<arpWaits, NetArpWaitTimerStart, NetArpWaitTry, askedAt>>
delayVars == <<start, tmo, delayAt, delayFor>>
vars == <<counter, rolls, tickVars, pc, timeoutVars, arpVars, delayVars>>

(* Operators named Mutant... are wrong on purpose: each is a plausible     *)
(* slip in the code, and TLC must find a property violated when it takes   *)
(* the place of the definition that follows it.                            *)

-----------------------------------------------------------------------------
(* The count.                                                              *)

Now == TIMER_LOAD_VAL - counter

TrueTicks == rolls * WORD + Now

TickCount == tbu * WORD + tbl

(* The time at which the count was last brought up to date.                *)
PolledAt == polledRolls * WORD + tbl

MutantCountEqual ==
    /\ tbu' = IF Now <= tbl THEN tbu + 1 ELSE tbu
    /\ tbl' = Now
    /\ polledRolls' = rolls

(* get_ticks() leaves in tbu and tbl the count that it returns,            *)
(* TickCount'.  It sees one rollover, however many there were.             *)
get_ticks ==
    /\ tbu' = IF Now < tbl THEN tbu + 1 ELSE tbu
    /\ tbl' = Now
    /\ polledRolls' = rolls

tick_to_time(tick) == ((tick * CONFIG_SYS_HZ) % LWORD) \div TIMER_CLOCK

MutantHalfDelay(usec) == ((usec * TIMER_CLOCK) % LWORD) \div (USECS * 2)

usec_to_tick(usec) == ((usec * TIMER_CLOCK) % LWORD) \div USECS

(* get_timer(base), in a step that calls get_ticks().                      *)
get_timer(base) == (tick_to_time(TickCount') - base) % WORD

(* udelay(), and NetLoop() while a timeout is set or a packet waits for an *)
(* address, call get_ticks() again and again.                              *)
Polling == pc = "udelay" \/ (pc # "idle" /\ (timeHandler \/ arpWaits))

(* Time passes.  While someone polls, less than a period of the counter    *)
(* (86 seconds on AXI) passes between two polls.                           *)
Advance(d) ==
    /\ IF d <= counter
       THEN counter' = counter - d /\ rolls' = rolls
       ELSE counter' = counter - d + WORD /\ rolls' = rolls + 1
    /\ rolls' <= MaxRolls
    /\ Polling => TrueTicks' - PolledAt < WORD
    /\ UNCHANGED <<tickVars, pc, timeoutVars, arpVars, delayVars>>

-----------------------------------------------------------------------------
(* NetLoop() and its timeouts.                                             *)

MutantNoHz(iv) ==
    /\ timeHandler' = TRUE
    /\ timeStart' = get_timer(0)
    /\ timeDelta' = iv \div MSECS
    /\ setAt' = TrueTicks /\ setFor' = iv

(* The product is an unsigned long.                                        *)
NetSetTimeout(iv) ==
    /\ timeHandler' = TRUE
    /\ timeStart' = get_timer(0)
    /\ timeDelta' = ((iv * CONFIG_SYS_HZ) % WORD) \div MSECS
    /\ setAt' = TrueTicks /\ setFor' = iv

CancelTimeout ==
    /\ timeHandler' = FALSE
    /\ UNCHANGED <<timeStart, timeDelta, setAt, setFor>>

MutantKeepArpStart ==
    /\ NetArpWaitTimerStart' = NetArpWaitTimerStart
    /\ askedAt' = TrueTicks

(* NetArpWaitTimerStart = get_timer(0).                                    *)
StartArpTimer ==
    /\ NetArpWaitTimerStart' = get_timer(0)
    /\ askedAt' = TrueTicks

(* A command sets its timeout, and its first packet waits for an address.  *)
StartLoop(iv) ==
    /\ pc = "idle" /\ pc' = "rx"
    /\ get_ticks
    /\ NetSetTimeout(iv)
    /\ arpWaits' = TRUE /\ NetArpWaitTry' = 1 /\ StartArpTimer
    /\ UNCHANGED <<counter, rolls, delayVars>>

(* eth_rx(): the address arrives; a block arrives, and is stored.          *)
ReceiveReply ==
    /\ pc = "rx" /\ arpWaits /\ arpWaits' = FALSE
    /\ UNCHANGED <<counter, rolls, tickVars, pc, timeoutVars,
                   NetArpWaitTimerStart, NetArpWaitTry, askedAt, delayVars>>

ReceiveBlock ==
    /\ pc = "rx" /\ ~arpWaits
    /\ get_ticks
    /\ NetSetTimeout(setFor)
    /\ UNCHANGED <<counter, rolls, pc, arpVars, delayVars>>

ReceiveDone ==
    /\ pc = "rx" /\ pc' = "arp"
    /\ UNCHANGED <<counter, rolls, tickVars, timeoutVars, arpVars, delayVars>>

(* ArpTimeoutCheck().                                                      *)
ArpNotWaiting ==
    /\ pc = "arp" /\ ~arpWaits /\ pc' = "timer"
    /\ UNCHANGED <<counter, rolls, tickVars, timeoutVars, arpVars, delayVars>>

ArpNotExpired ==
    /\ pc = "arp" /\ arpWaits /\ pc' = "timer"
    /\ get_ticks
    /\ get_timer(NetArpWaitTimerStart) <= ARP_TIMEOUT
    /\ UNCHANGED <<counter, rolls, timeoutVars, arpVars, delayVars>>

ArpAsk ==
    /\ pc = "arp" /\ arpWaits /\ pc' = "timer"
    /\ get_ticks
    /\ get_timer(NetArpWaitTimerStart) > ARP_TIMEOUT
    /\ NetArpWaitTry + 1 < ARP_TIMEOUT_COUNT
    /\ NetArpWaitTry' = NetArpWaitTry + 1 /\ StartArpTimer
    /\ UNCHANGED <<counter, rolls, arpWaits, timeoutVars, delayVars>>

ArpLimit ==
    /\ pc = "arp" /\ arpWaits /\ pc' = "timer"
    /\ get_ticks
    /\ get_timer(NetArpWaitTimerStart) > ARP_TIMEOUT
    /\ NetArpWaitTry + 1 >= ARP_TIMEOUT_COUNT
    /\ NetArpWaitTry' = 0
    /\ UNCHANGED <<counter, rolls, arpWaits, NetArpWaitTimerStart, askedAt,
                   timeoutVars, delayVars>>

MutantAbsoluteCompare ==
    timeHandler /\ tick_to_time(TickCount') % WORD > timeStart + timeDelta

(* The loop's own timeout.                                                 *)
Expired == timeHandler /\ get_timer(timeStart) > timeDelta

(* The loop goes on, or ends through net_cleanup_loop().                   *)
TimerNotExpired ==
    /\ pc = "timer"
    /\ IF timeHandler THEN get_ticks ELSE UNCHANGED tickVars
    /\ ~Expired
    /\ \/ pc' = "rx" /\ UNCHANGED timeoutVars
       \/ pc' = "idle" /\ CancelTimeout
    /\ UNCHANGED <<counter, rolls, arpVars, delayVars>>

(* The handler sets the timeout again (TftpTimeout(), with a later call of *)
(* get_timer() that is not told apart), does not, or ends the loop         *)
(* (ping_timeout()).                                                       *)
TimerFires ==
    /\ pc = "timer" /\ timeHandler
    /\ get_ticks
    /\ Expired
    /\ \/ pc' = "rx" /\ NetSetTimeout(setFor)
       \/ pc' \in {"rx", "idle"} /\ CancelTimeout
    /\ UNCHANGED <<counter, rolls, arpVars, delayVars>>

-----------------------------------------------------------------------------
(* udelay(), called by a command.                                          *)

UdelayCall(usec) ==
    /\ pc = "idle" /\ pc' = "udelay"
    /\ get_ticks
    /\ start' = TickCount'
    /\ tmo' = usec_to_tick(usec) % WORD
    /\ delayAt' = TrueTicks /\ delayFor' = usec
    /\ UNCHANGED <<counter, rolls, timeoutVars, arpVars>>

UdelayPoll ==
    /\ pc = "udelay"
    /\ get_ticks
    /\ TickCount' - start < tmo
    /\ UNCHANGED <<counter, rolls, pc, timeoutVars, arpVars, delayVars>>

UdelayReturn ==
    /\ pc = "udelay" /\ pc' = "idle"
    /\ get_ticks
    /\ TickCount' - start >= tmo
    /\ start' = 0 /\ tmo' = 0 /\ delayAt' = 0 /\ delayFor' = 0
    /\ UNCHANGED <<counter, rolls, timeoutVars, arpVars>>

-----------------------------------------------------------------------------
(* init_global_timer(), and zeroed variables.                              *)
Init ==
    /\ counter = TIMER_LOAD_VAL /\ rolls = 0
    /\ tbu = 0 /\ tbl = 0 /\ polledRolls = 0
    /\ pc = "idle"
    /\ timeHandler = FALSE /\ timeStart = 0 /\ timeDelta = 0
    /\ setAt = 0 /\ setFor = 0
    /\ arpWaits = FALSE /\ NetArpWaitTimerStart = 0 /\ NetArpWaitTry = 0
    /\ askedAt = 0
    /\ start = 0 /\ tmo = 0 /\ delayAt = 0 /\ delayFor = 0

Loop ==
    \/ ReceiveReply \/ ReceiveBlock \/ ReceiveDone
    \/ ArpNotWaiting \/ ArpNotExpired \/ ArpAsk \/ ArpLimit
    \/ TimerNotExpired \/ TimerFires

Next ==
    \/ \E d \in Steps : Advance(d)
    \/ \E iv \in Timeouts : StartLoop(iv)
    \/ Loop
    \/ \E usec \in Delays : UdelayCall(usec)
    \/ UdelayPoll \/ UdelayReturn

Spec == Init /\ [][Next]_vars

-----------------------------------------------------------------------------
(* Properties.                                                             *)

(* The counter and the low word stay within their registers; the high word *)
(* never runs ahead of the rollovers there were.                           *)
TypeOK ==
    /\ counter \in 0 .. TIMER_LOAD_VAL /\ rolls \in Nat
    /\ tbl \in 0 .. TIMER_LOAD_VAL /\ tbu \in Nat /\ polledRolls \in Nat
    /\ pc \in {"idle", "rx", "arp", "timer", "udelay"}
    /\ timeHandler \in BOOLEAN /\ arpWaits \in BOOLEAN
    /\ NetArpWaitTry \in 0 .. (ARP_TIMEOUT_COUNT - 1)

(* The inductive invariant: what get_ticks() last saw.                     *)
TickInv ==
    /\ TypeOK
    /\ tbu <= polledRolls /\ polledRolls <= rolls
    /\ polledRolls = rolls => tbl <= Now
    /\ Polling => TrueTicks - PolledAt < WORD

(* The count returned by get_ticks() never decreases, however long nobody  *)
(* calls it and wherever the counter then is.                              *)
TicksMonotone == [][TickCount' >= TickCount]_vars

(* While NetLoop() or udelay() waits for something, the count advances by  *)
(* exactly the ticks that have passed: a rollover is never counted twice   *)
(* and never missed, although nobody but the next reading tells of it.     *)
TicksExact ==
    [][Polling => TickCount' - TickCount = PolledAt' - PolledAt]_vars

(* NetLoop() calls a timeout handler only when the milliseconds given to   *)
(* NetSetTimeout() have really passed.                                     *)
TimeoutNotEarly ==
    [][TimerFires => (TrueTicks - setAt) * MSECS >= setFor * TIMER_CLOCK]_vars

(* A check that comes two units of get_timer() or more after the time has  *)
(* passed finds that it has, also when get_timer() has wrapped around,     *)
(* unless it comes a whole period of get_timer() late.                     *)
TimeoutNotLate ==
    [][(TimerNotExpired /\ timeHandler
        /\ (TrueTicks - setAt) * CONFIG_SYS_HZ < (WORD - 1) * TIMER_CLOCK) =>
         (TrueTicks - setAt) * CONFIG_SYS_HZ * MSECS
             < (setFor * CONFIG_SYS_HZ + 2 * MSECS) * TIMER_CLOCK]_vars

(* "Milliseconds before trying ARP again": an ARP request is repeated only *)
(* when ARP_TIMEOUT milliseconds have really passed.                       *)
ArpNotEarly ==
    [][ArpAsk => (TrueTicks - askedAt) * MSECS >= ARP_TIMEOUT * TIMER_CLOCK]_vars

(* udelay() returns only when its microseconds have really passed, to the  *)
(* tick.                                                                   *)
DelayNotShort ==
    [][UdelayReturn =>
         TrueTicks - delayAt >= (delayFor * TIMER_CLOCK) \div USECS]_vars
=============================================================================
