----------------------------- MODULE BoardProofs ----------------------------
(***************************************************************************)
(* The board under the program. The clock: the tick count for every width  *)
(* of the counter and every pattern of calls never runs backwards, and     *)
(* while someone polls it advances by exactly the ticks that have passed;  *)
(* from that, how long those wait who wait with it. The status of a DMA    *)
(* channel is neither left over from an earlier transfer, taken from       *)
(* another channel nor lost, for any number of channels. main() runs from  *)
(* a complete image, for every size of image, of .bss and of block, and    *)
(* for every set of bad words. And no tick is forgotten, the control       *)
(* register has the timers that the program set going, and the interrupted *)
(* program resumes as it was, for every depth of nested interrupts and     *)
(* every two interrupt lines, when no callback stops its timer.            *)
(***************************************************************************)
EXTENDS Timer, Interrupts, Dma, Startup, SequenceTheorems, TLAPS

-----------------------------------------------------------------------------
(* The clock and those who wait with it.                                   *)

(* What get_ticks() sees of the time, and what it makes of it.             *)
TickPart ==
    /\ counter \in 0 .. TIMER_LOAD_VAL /\ rolls \in Nat
    /\ tbl \in 0 .. TIMER_LOAD_VAL /\ tbu \in Nat /\ polledRolls \in Nat
    /\ tbu <= polledRolls /\ polledRolls <= rolls
    /\ polledRolls = rolls => tbl <= Now

Recent == TrueTicks - PolledAt < WORD

(* The part of TypeOK that the clock does not touch.                       *)
UserPart ==
    /\ pc \in {"idle", "rx", "arp", "timer", "udelay"}
    /\ timeHandler \in BOOLEAN /\ arpWaits \in BOOLEAN
    /\ NetArpWaitTry \in 0 .. (ARP_TIMEOUT_COUNT - 1)

(* TickInv is these three parts.                                           *)
LEMMA TickInvParts == TickInv <=> TickPart /\ UserPart /\ (Polling => Recent)
  BY DEF TickInv, TypeOK, TickPart, UserPart, Recent

LEMMA TickInvPartsNext ==
    TickInv' <=> TickPart' /\ UserPart' /\ (Polling' => Recent')
  BY DEF TickInv, TypeOK, TickPart, UserPart, Recent, Now, TrueTicks, PolledAt,
      Polling

(* A product with WORD grows by at least WORD from one factor to the next. *)
LEMMA Periods ==
    ASSUME NEW w \in Nat, NEW a \in Nat, NEW b \in Nat
    PROVE  /\ a * w \in Nat
           /\ (a + 1) * w = a * w + w
           /\ a < b => a * w + w <= b * w
           /\ a + 1 < b => a * w + w + w <= b * w
<1>1. a * w \in Nat /\ (a + 1) * w = a * w + w
  OBVIOUS
<1>2. ASSUME a < b PROVE a * w + w <= b * w
  <2>1. PICK d \in Nat : b = a + 1 + d
    <3>1. b - a - 1 \in Nat /\ b = a + 1 + (b - a - 1)
      BY <1>2
    <3> QED BY <3>1
  <2>2. b * w = a * w + w + d * w /\ d * w \in Nat
    BY <2>1
  <2> QED BY <1>1, <2>2
<1>3. ASSUME a + 1 < b PROVE a * w + w + w <= b * w
  <2>1. PICK d \in Nat : b = a + 2 + d
    <3>1. b - a - 2 \in Nat /\ b = a + 2 + (b - a - 2)
      BY <1>3
    <3> QED BY <3>1
  <2>2. b * w = a * w + w + w + d * w /\ d * w \in Nat
    BY <2>1
  <2> QED BY <1>1, <2>2
<1> QED BY <1>1, <1>2, <1>3

(* If less than a period has passed since the last call, there was a       *)
(* rollover exactly when the counter reads less than it did.               *)
LEMMA OneRollover ==
    ASSUME TickPart, Recent
    PROVE  IF Now < tbl THEN rolls = polledRolls + 1 ELSE rolls = polledRolls
<1>1. WORD \in Nat /\ Now \in Nat /\ tbl \in Nat /\ Now < WORD /\ tbl < WORD
  BY TimerConstants DEF TickPart, Now
<1>2. /\ TrueTicks = rolls * WORD + Now /\ PolledAt = polledRolls * WORD + tbl
      /\ TrueTicks - PolledAt < WORD
  BY DEF Recent, TrueTicks, PolledAt
<1>3. rolls \in Nat /\ polledRolls \in Nat /\ polledRolls <= rolls
      /\ (polledRolls = rolls => tbl <= Now)
  BY DEF TickPart
<1>4. rolls * WORD \in Nat /\ polledRolls * WORD \in Nat
      /\ (polledRolls < rolls => polledRolls * WORD + WORD <= rolls * WORD)
      /\ (polledRolls + 1 < rolls => polledRolls * WORD + WORD + WORD <= rolls * WORD)
  BY <1>1, <1>3, Periods
<1>5. ~(polledRolls + 1 < rolls)
  BY <1>1, <1>2, <1>4
<1>6. polledRolls < rolls => Now < tbl
  BY <1>1, <1>2, <1>4
<1> QED BY <1>1, <1>3, <1>5, <1>6

(* A call of get_ticks().                                                  *)
LEMMA PollStep ==
    ASSUME TickPart, get_ticks, UNCHANGED <<counter, rolls>>
    PROVE  /\ TickPart' /\ Recent'
           /\ TickCount' >= TickCount
           /\ Recent => TickCount' - TickCount = PolledAt' - PolledAt
<1>1. /\ WORD \in Nat /\ Now \in Nat /\ tbl \in Nat /\ tbu \in Nat
      /\ Now < WORD /\ tbl < WORD /\ rolls \in Nat /\ polledRolls \in Nat
      /\ 0 < WORD /\ TIMER_LOAD_VAL = WORD - 1
  BY TimerConstants DEF TickPart, Now
<1>2. /\ tbl' = Now /\ polledRolls' = rolls /\ Now' = Now /\ rolls' = rolls
      /\ counter' = counter
      /\ tbu' = IF Now < tbl THEN tbu + 1 ELSE tbu
  BY DEF get_ticks, Now
<1>3. TickPart'
  <2>1. tbu' <= rolls
    BY <1>1, <1>2 DEF TickPart
  <2> QED BY <1>1, <1>2, <2>1 DEF TickPart
<1>4. tbu * WORD \in Nat /\ rolls * WORD \in Nat /\ polledRolls * WORD \in Nat
      /\ (tbu + 1) * WORD = tbu * WORD + WORD
      /\ (polledRolls + 1) * WORD = polledRolls * WORD + WORD
  BY <1>1, Periods
<1>5. TrueTicks' = rolls * WORD + Now /\ PolledAt' = rolls * WORD + Now
  BY <1>2 DEF TrueTicks, PolledAt
<1>6. Recent'
  BY <1>1, <1>4, <1>5 DEF Recent
<1>7. TickCount' = IF Now < tbl THEN tbu * WORD + WORD + Now ELSE tbu * WORD + Now
  BY <1>2, <1>4 DEF TickCount
<1>8. TickCount' >= TickCount
  BY <1>1, <1>4, <1>7 DEF TickCount
<1>9. ASSUME Recent PROVE TickCount' - TickCount = PolledAt' - PolledAt
  <2>1. IF Now < tbl THEN rolls = polledRolls + 1 ELSE rolls = polledRolls
    BY <1>9, OneRollover
  <2>2. rolls * WORD = IF Now < tbl THEN polledRolls * WORD + WORD
                                    ELSE polledRolls * WORD
    BY <1>4, <2>1
  <2> QED BY <1>1, <1>4, <1>5, <1>7, <2>2 DEF TickCount, PolledAt
<1> QED BY <1>3, <1>6, <1>8, <1>9

(* Time passes.                                                            *)
LEMMA AdvanceStep ==
    ASSUME TickPart, NEW d \in Steps, Advance(d)
    PROVE  TickPart' /\ (Polling' => Recent')
<1>1. d \in Nat /\ d > 0 /\ d < WORD /\ WORD \in Nat /\ TIMER_LOAD_VAL = WORD - 1
  BY TimerConstants
<1>2. /\ tbl' = tbl /\ tbu' = tbu /\ polledRolls' = polledRolls
      /\ Polling' = Polling
  BY DEF Advance, tickVars, timeoutVars, arpVars, Polling
<1>3. CASE d <= counter
  <2>1. counter' = counter - d /\ rolls' = rolls
    BY <1>3 DEF Advance
  <2> QED BY <1>1, <1>2, <2>1 DEF TickPart, Now, Advance, Recent, PolledAt
<1>4. CASE ~(d <= counter)
  <2>1. counter' = counter - d + WORD /\ rolls' = rolls + 1
    BY <1>4 DEF Advance
  <2> QED BY <1>1, <1>2, <1>4, <2>1 DEF TickPart, Now, Advance, Recent, PolledAt
<1> QED BY <1>3, <1>4

(* Every other step calls get_ticks(), or leaves the count alone and does  *)
(* not begin to poll.                                                      *)
Polls == get_ticks /\ UNCHANGED <<counter, rolls>>

Rests == UNCHANGED <<tickVars, counter, rolls>> /\ (Polling' => Polling)

LEMMA UserStep ==
    ASSUME UserPart, Next, \A d \in Steps : ~Advance(d)
    PROVE  UserPart' /\ (Polls \/ Rests)
<1>0. ARP_TIMEOUT_COUNT \in Nat /\ ARP_TIMEOUT_COUNT > 1
  BY TimerConstants
<1>1. ASSUME NEW iv \in Timeouts, StartLoop(iv) PROVE UserPart' /\ (Polls \/ Rests)
  BY <1>0, <1>1 DEF StartLoop, NetSetTimeout, UserPart, Polls, delayVars
<1>2. CASE ReceiveReply
  BY <1>2 DEF ReceiveReply, UserPart, Rests, Polling, timeoutVars, delayVars
<1>3. CASE ReceiveBlock
  BY <1>3 DEF ReceiveBlock, NetSetTimeout, UserPart, Polls, arpVars, delayVars
<1>4. CASE ReceiveDone
  BY <1>4 DEF ReceiveDone, UserPart, Rests, Polling, timeoutVars, arpVars, delayVars
<1>5. CASE ArpNotWaiting
  BY <1>5 DEF ArpNotWaiting, UserPart, Rests, Polling, timeoutVars, arpVars, delayVars
<1>6. CASE ArpNotExpired
  BY <1>6 DEF ArpNotExpired, UserPart, Polls, timeoutVars, arpVars, delayVars
<1>7. CASE ArpAsk
  BY <1>0, <1>7 DEF ArpAsk, UserPart, Polls, timeoutVars, delayVars
<1>8. CASE ArpLimit
  BY <1>0, <1>8 DEF ArpLimit, UserPart, Polls, timeoutVars, delayVars
<1>9. CASE TimerNotExpired
  <2>1. Polls \/ Rests
    BY <1>9 DEF TimerNotExpired, CancelTimeout, Polls, Rests, Polling, timeoutVars,
        arpVars
  <2>2. UserPart'
    BY <1>9 DEF TimerNotExpired, CancelTimeout, UserPart, timeoutVars, arpVars,
        delayVars
  <2> QED BY <2>1, <2>2
<1>10. CASE TimerFires
  BY <1>10 DEF TimerFires, NetSetTimeout, CancelTimeout, UserPart, Polls,
      arpVars, delayVars
<1>11. ASSUME NEW usec \in Delays, UdelayCall(usec)
       PROVE  UserPart' /\ (Polls \/ Rests)
  BY <1>11 DEF UdelayCall, UserPart, Polls, timeoutVars, arpVars
<1>12. CASE UdelayPoll
  BY <1>12 DEF UdelayPoll, UserPart, Polls, timeoutVars, arpVars, delayVars
<1>13. CASE UdelayReturn
  BY <1>13 DEF UdelayReturn, UserPart, Polls, timeoutVars, arpVars
<1> QED
  BY <1>1, <1>2, <1>3, <1>4, <1>5, <1>6, <1>7, <1>8, <1>9, <1>10, <1>11, <1>12,
     <1>13 DEF Next, Loop

(* A step of the specification, and what it does to the count.             *)
LEMMA Step ==
    ASSUME TickInv, [Next]_vars
    PROVE  /\ TickInv'
           /\ TickCount' >= TickCount
           /\ Polling => TickCount' - TickCount = PolledAt' - PolledAt
<1>1. TickPart /\ UserPart /\ (Polling => Recent)
  BY TickInvParts
<1>2. TickCount \in Int /\ PolledAt \in Int
  <2>1. WORD \in Nat /\ tbu \in Nat /\ polledRolls \in Nat /\ tbl \in Int
    BY <1>1, TimerConstants DEF TickPart
  <2> QED BY <2>1, Periods DEF TickCount, PolledAt
<1>3. ASSUME UNCHANGED tickVars
      PROVE  /\ TickCount' >= TickCount
             /\ TickCount' - TickCount = PolledAt' - PolledAt
  BY <1>2, <1>3 DEF TickCount, PolledAt, tickVars
<1>4. CASE UNCHANGED vars
  <2>1. TickInv'
    BY <1>4 DEF vars, tickVars, timeoutVars, arpVars, delayVars, TickInv, TypeOK,
        Now, TrueTicks, PolledAt, Polling
  <2> QED BY <1>3, <1>4, <2>1 DEF vars
<1>5. ASSUME NEW d \in Steps, Advance(d)
      PROVE  TickInv' /\ UNCHANGED tickVars
  <2>1. UserPart'
    BY <1>1, <1>5 DEF Advance, UserPart, timeoutVars, arpVars, delayVars
  <2> QED BY <1>1, <1>5, <2>1, AdvanceStep, TickInvPartsNext DEF Advance
<1>6. CASE Next /\ \A d \in Steps : ~Advance(d)
  <2>1. UserPart' /\ (Polls \/ Rests)
    BY <1>1, <1>6, UserStep
  <2>2. CASE Polls
    BY <1>1, <2>1, <2>2, PollStep, TickInvPartsNext DEF Polls
  <2>3. CASE Rests
    <3>1. TickPart' /\ (Polling' => Recent')
      BY <1>1, <2>3 DEF Rests, tickVars, TickPart, Recent, Now, TrueTicks, PolledAt
    <3> QED BY <1>3, <2>1, <2>3, <3>1, TickInvPartsNext DEF Rests
  <2> QED BY <2>1, <2>2, <2>3
<1> QED BY <1>3, <1>4, <1>5, <1>6

(* After init_global_timer().                                              *)
LEMMA TickInvInit == ASSUME Init PROVE TickInv
<1> SUFFICES TickPart /\ UserPart /\ pc = "idle"
  BY TickInvParts DEF Polling
<1>1. TickPart /\ pc = "idle"
  BY TimerConstants DEF Init, TickPart, Now
<1>2. UserPart
  <2>1. NetArpWaitTry \in 0 .. (ARP_TIMEOUT_COUNT - 1)
    BY TimerConstants DEF Init
  <2> QED BY <2>1 DEF Init, UserPart
<1> QED BY <1>1, <1>2

(* get_ticks() never counts a rollover that did not happen, and what it    *)
(* last read is at most a period old while someone polls.                  *)
THEOREM TickCorrect == Spec => []TickInv
<1>1. Init => TickInv
  BY TickInvInit
<1>2. TickInv /\ [Next]_vars => TickInv'
  BY Step
<1> QED BY <1>1, <1>2, PTL DEF Spec

(* The count of get_ticks() never decreases, for every width of the        *)
(* counter and every pattern of calls.                                     *)
THEOREM CountMonotone == Spec => TicksMonotone
<1>1. TickInv /\ [Next]_vars => [TickCount' >= TickCount]_vars
  BY Step
<1> QED BY <1>1, TickCorrect, PTL DEF Spec, TicksMonotone

(* Within NetLoop() and udelay() the count advances by exactly the ticks   *)
(* that have passed.                                                       *)
THEOREM CountExact == Spec => TicksExact
<1>1. TickInv /\ [Next]_vars =>
        [Polling => TickCount' - TickCount = PolledAt' - PolledAt]_vars
  BY Step
<1> QED BY <1>1, TickCorrect, PTL DEF Spec, TicksExact

-----------------------------------------------------------------------------
(* Those who wait.  Quotients and remainders, as facts about products.     *)
LEMMA DivMod ==
    ASSUME NEW n \in Int, NEW d \in Nat \ {0}
    PROVE  /\ n \div d \in Int /\ n % d \in Nat
           /\ n = d * (n \div d) + (n % d)
           /\ n % d < d
           /\ n \in Nat => n \div d \in Nat
           /\ n \in Nat /\ n < d => n % d = n
  OBVIOUS

(* A difference of two readings of which the earlier was cut to the width  *)
(* of a word is at most the true difference, and is the true difference if *)
(* that fits a word.                                                       *)
LEMMA CutDifference ==
    ASSUME NEW x \in Nat, NEW y \in Nat, NEW w \in Nat \ {0}, y <= x
    PROVE  LET r == (x - (y % w)) % w
           IN  r \in Nat /\ r <= x - y /\ (x - y < w => r = x - y)
<1> DEFINE r == (x - (y % w)) % w
           q == (x - (y % w)) \div w
           k == q - (y \div w)
<1>1. y % w \in Nat /\ y \div w \in Int /\ y = w * (y \div w) + (y % w)
  BY DivMod
<1>2. x - (y % w) \in Int
  BY <1>1
<1>3. r \in Nat /\ q \in Int /\ r < w /\ x - (y % w) = w * q + r
  BY <1>2, DivMod
<1>4. k \in Int /\ w * k = w * q - w * (y \div w)
  BY <1>1, <1>3
<1>5. x - y = w * k + r
  BY <1>1, <1>3, <1>4
<1> HIDE DEF r, q, k
<1>6. w * k \in Int /\ (k < 0 => w * k <= 0 - w) /\ (k > 0 => w * k >= w)
      /\ (k = 0 => w * k = 0)
  <2>1. ASSUME k < 0 PROVE w * k <= 0 - w
    <3>1. PICK j \in Nat : k = -1 - j
      <4>1. -1 - k \in Nat /\ k = -1 - (-1 - k)
        BY <1>4, <2>1
      <4> QED BY <4>1
    <3>2. w * k = 0 - w - w * j /\ w * j \in Nat
      BY <3>1
    <3> QED BY <3>2
  <2>2. ASSUME k > 0 PROVE w * k >= w
    <3>1. PICK j \in Nat : k = 1 + j
      <4>1. k - 1 \in Nat /\ k = 1 + (k - 1)
        BY <1>4, <2>2
      <4> QED BY <4>1
    <3>2. w * k = w + w * j /\ w * j \in Nat
      BY <3>1
    <3> QED BY <3>2
  <2> QED BY <1>4, <2>1, <2>2
<1>7. ~(k < 0)
  BY <1>3, <1>5, <1>6
<1>8. r <= x - y /\ (x - y < w => r = x - y)
  BY <1>3, <1>4, <1>5, <1>6, <1>7
<1> QED BY <1>3, <1>8 DEF r

(* The clock has not run for so long that tick * CONFIG_SYS_HZ exceeds an  *)
(* unsigned long long (4.3 days on AXI).                                   *)
UptimeFits == (MaxRolls + 1) * WORD * CONFIG_SYS_HZ <= LWORD

(* A timeout fits an unsigned long, as product with CONFIG_SYS_HZ, and is  *)
(* a whole number of units of get_timer().                                 *)
TimeoutsFit ==
    \A iv \in Timeouts :
        iv * CONFIG_SYS_HZ < WORD /\ (iv * CONFIG_SYS_HZ) % MSECS = 0

(* A delay fits an unsigned long long, as product with TIMER_CLOCK, and an *)
(* unsigned long, as a number of ticks (86 seconds on AXI).                *)
DelaysFit ==
    \A usec \in Delays : /\ usec * TIMER_CLOCK < LWORD
                         /\ (usec * TIMER_CLOCK) \div USECS < WORD

(* A unit of get_timer() is not shorter than a millisecond.                *)
UnitNotBelowMsec == CONFIG_SYS_HZ <= MSECS

(* What get_timer(base) returns b ticks after start-up, if base was        *)
(* get_timer(0) a ticks after start-up.                                    *)
LEMMA Elapsed ==
    ASSUME UptimeFits,
           NEW a \in Nat, NEW b \in Nat, a <= b, b < (MaxRolls + 1) * WORD,
           NEW delta \in Nat
    PROVE  LET r == (tick_to_time(b) - (tick_to_time(a) % WORD)) % WORD
           IN  /\ r \in Nat
               /\ r > delta => delta * TIMER_CLOCK < (b - a) * CONFIG_SYS_HZ
               /\ /\ ~(r > delta)
                  /\ (b - a) * CONFIG_SYS_HZ < (WORD - 1) * TIMER_CLOCK
                  => (b - a) * CONFIG_SYS_HZ < (delta + 1) * TIMER_CLOCK
<1> DEFINE X == b * CONFIG_SYS_HZ
           Y == a * CONFIG_SYS_HZ
           C == TIMER_CLOCK
           qx == X \div C
           qy == Y \div C
           r == (qx - (qy % WORD)) % WORD
<1>1. /\ WORD \in Nat \ {0} /\ LWORD \in Nat \ {0} /\ C \in Nat \ {0}
      /\ CONFIG_SYS_HZ \in Nat \ {0} /\ MaxRolls \in Nat
  BY TimerConstants
<1>2. /\ X \in Nat /\ Y \in Nat /\ Y <= X
      /\ X - Y = (b - a) * CONFIG_SYS_HZ
  <2>1. b - a \in Nat /\ b = a + (b - a)
    OBVIOUS
  <2>2. b * CONFIG_SYS_HZ = a * CONFIG_SYS_HZ + (b - a) * CONFIG_SYS_HZ
        /\ (b - a) * CONFIG_SYS_HZ \in Nat /\ a * CONFIG_SYS_HZ \in Nat
    BY <1>1, <2>1
  <2> QED BY <2>2
<1>3. X < LWORD /\ Y < LWORD
  <2> DEFINE P == (MaxRolls + 1) * WORD
  <2>1. P \in Nat /\ P * CONFIG_SYS_HZ <= LWORD /\ b < P
    BY <1>1 DEF UptimeFits
  <2> HIDE DEF P
  <2>2. b * CONFIG_SYS_HZ + CONFIG_SYS_HZ <= P * CONFIG_SYS_HZ
    BY <1>1, <2>1, Periods
  <2> QED BY <1>1, <1>2, <2>1, <2>2
<1>4. tick_to_time(b) = qx /\ tick_to_time(a) = qy
  BY <1>1, <1>2, <1>3, DivMod DEF tick_to_time
<1>5. /\ qx \in Nat /\ X % C \in Nat /\ X % C < C /\ X = C * qx + (X % C)
      /\ qy \in Nat /\ Y % C \in Nat /\ Y % C < C /\ Y = C * qy + (Y % C)
  BY <1>1, <1>2, DivMod
<1> DEFINE mx == X % C
           my == Y % C
<1> HIDE DEF X, Y, C, qx, qy, mx, my
<1>6. mx \in Nat /\ mx < C /\ my \in Nat /\ my < C /\ X = C * qx + mx /\ Y = C * qy + my
  BY <1>5 DEF mx, my
<1>7. C * qx \in Nat /\ C * qy \in Nat /\ C * WORD \in Nat
      /\ (qx < qy => C * qx + C <= C * qy)
  <2>1. C * qx = qx * C /\ C * qy = qy * C
    BY <1>1, <1>5
  <2> QED BY <1>1, <1>5, <2>1, Periods
<1>8. qy <= qx
  BY <1>1, <1>2, <1>5, <1>6, <1>7
<1>9. /\ r \in Nat /\ r <= qx - qy
      /\ qx - qy < WORD => r = qx - qy
  BY <1>1, <1>5, <1>8, CutDifference
<1>10. PICK n \in Nat : n = qx - qy
  BY <1>5, <1>8
<1>11. C * qx = C * qy + n * C /\ n * C \in Nat
  BY <1>1, <1>5, <1>10
<1>12. X - Y = n * C + mx - my
  BY <1>6, <1>7, <1>11
<1>13. ASSUME r > delta PROVE delta * C < X - Y
  <2>1. delta < n
    BY <1>9, <1>10, <1>13
  <2>2. delta * C + C <= n * C /\ delta * C \in Nat
    BY <1>1, <2>1, Periods
  <2> QED BY <1>1, <1>2, <1>6, <1>11, <1>12, <2>2
<1>14. ASSUME ~(r > delta), X - Y < (WORD - 1) * C
       PROVE  X - Y < (delta + 1) * C
  <2>1. ~(WORD < n + 1)
    <3> SUFFICES ASSUME WORD - 1 < n PROVE FALSE
      BY <1>1
    <3>1. (WORD - 1) * C + C <= n * C /\ (WORD - 1) * C \in Nat
      BY <1>1, Periods
    <3> QED BY <1>1, <1>2, <1>6, <1>11, <1>12, <1>14, <3>1
  <2>2. r = n
    BY <1>1, <1>9, <1>10, <2>1
  <2>3. n <= delta
    BY <1>9, <1>14, <2>2
  <2>4. n * C <= delta * C /\ delta * C \in Nat /\ (delta + 1) * C = delta * C + C
    <3>1. n < delta => n * C + C <= delta * C
      BY <1>1, Periods
    <3>2. delta * C \in Nat /\ (delta + 1) * C = delta * C + C
      BY <1>1, Periods
    <3> QED BY <1>1, <1>11, <2>3, <3>1, <3>2
  <2> QED BY <1>1, <1>2, <1>6, <1>11, <1>12, <2>4
<1>15. r = (tick_to_time(b) - (tick_to_time(a) % WORD)) % WORD
  BY <1>4
<1> HIDE DEF r
<1> QED BY <1>2, <1>9, <1>13, <1>14, <1>15 DEF C

(* How far the count is behind the time at which it was read: by the       *)
(* rollovers that nobody noticed while nobody waited.                      *)
Lag == TickCount - PolledAt

(* Someone has waited since the time at, when the count was Lag + at.      *)
Waits(at) == at \in Nat /\ at <= PolledAt /\ Lag + at \in Nat

InLoop == pc \in {"rx", "arp", "timer"}

(* What timeStart, NetArpWaitTimerStart and start mean.  The start of the  *)
(* ARP timer means nothing once the command is over.                       *)
TimeoutInv ==
    timeHandler => /\ InLoop /\ Waits(setAt)
                   /\ timeStart = tick_to_time(Lag + setAt) % WORD
                   /\ timeDelta = ((setFor * CONFIG_SYS_HZ) % WORD) \div MSECS

ArpInv ==
    arpWaits /\ InLoop =>
        /\ Waits(askedAt)
        /\ NetArpWaitTimerStart = tick_to_time(Lag + askedAt) % WORD

DelayInv ==
    pc = "udelay" => /\ Waits(delayAt) /\ start = Lag + delayAt
                     /\ delayFor \in Delays
                     /\ tmo = usec_to_tick(delayFor) % WORD

WaitInv ==
    /\ TickInv
    /\ rolls <= MaxRolls
    /\ InLoop => setFor \in Timeouts
    /\ TimeoutInv /\ ArpInv /\ DelayInv

(* What a step does to the count, and what a call of get_ticks() returns.  *)
LEMMA LagStep ==
    ASSUME TickInv, rolls <= MaxRolls, [Next]_vars
    PROVE  /\ rolls' <= MaxRolls
           /\ TickCount \in Nat /\ TickCount' \in Nat /\ TickCount <= TickCount'
           /\ PolledAt \in Nat /\ PolledAt' \in Nat
           /\ Lag \in Int /\ Lag <= 0
           /\ Polling => Lag' = Lag /\ PolledAt <= PolledAt'
           /\ Polls => /\ PolledAt' = TrueTicks
                       /\ TickCount' = Lag' + TrueTicks
                       /\ TickCount' < (MaxRolls + 1) * WORD
<1>1. /\ TickInv' /\ TickCount' >= TickCount
      /\ Polling => TickCount' - TickCount = PolledAt' - PolledAt
  BY Step
<1>2. /\ WORD \in Nat \ {0} /\ TIMER_LOAD_VAL = WORD - 1 /\ MaxRolls \in Nat
      /\ Steps \subseteq 1 .. WORD - 1
  BY TimerConstants
<1>3. /\ tbu \in Nat /\ tbl \in Nat /\ polledRolls \in Nat /\ tbu <= polledRolls
      /\ tbu' \in Nat /\ tbl' \in Nat /\ polledRolls' \in Nat /\ tbu' <= polledRolls'
      /\ tbl' < WORD /\ polledRolls' <= rolls' /\ rolls' \in Nat
  BY <1>1, <1>2 DEF TickInv, TypeOK
<1>4. rolls' <= MaxRolls
  <2>1. CASE \E d \in Steps : Advance(d)
    BY <2>1 DEF Advance
  <2>2. CASE UNCHANGED rolls
    BY <2>2
  <2>3. CASE Next /\ \A d \in Steps : ~Advance(d)
    <3>1. UserPart
      BY TickInvParts
    <3>2. Polls \/ Rests
      BY <2>3, <3>1, UserStep
    <3> QED BY <3>2 DEF Polls, Rests
  <2> QED BY <2>1, <2>2, <2>3 DEF vars
<1>5. PICK bu \in Nat, bl \in Nat, pr \in Nat :
             bu = tbu' /\ bl = tbl' /\ pr = polledRolls'
  BY <1>3
<1>6. bu <= pr /\ bl < WORD /\ pr <= MaxRolls
  <2>1. PICK r \in Nat : r = rolls'
    BY <1>3
  <2> QED BY <1>2, <1>3, <1>4, <1>5, <2>1
<1> DEFINE h == tbu * WORD
           p == polledRolls * WORD
           hn == bu * WORD
           pn == pr * WORD
           limit == (MaxRolls + 1) * WORD
<1>7. /\ h \in Nat /\ p \in Nat /\ h <= p
      /\ hn \in Nat /\ pn \in Nat /\ hn <= pn
      /\ limit \in Nat /\ pn + WORD <= limit
  <2>1. h \in Nat /\ p \in Nat /\ (tbu < polledRolls => h + WORD <= p)
    BY <1>2, <1>3, Periods
  <2>2. hn \in Nat /\ pn \in Nat /\ (bu < pr => hn + WORD <= pn)
    BY <1>2, <1>3, Periods
  <2>3. tbu = polledRolls => h = p
    OBVIOUS
  <2>4. bu = pr => hn = pn
    OBVIOUS
  <2>5. limit \in Nat /\ pn + WORD <= limit
    <3>1. MaxRolls + 1 \in Nat /\ pr < MaxRolls + 1
      BY <1>2, <1>6
    <3> QED BY <1>2, <3>1, Periods
  <2> HIDE DEF h, p, hn, pn, limit
  <2> QED BY <1>2, <1>3, <1>6, <2>1, <2>2, <2>3, <2>4, <2>5
<1>8. /\ TickCount = h + tbl /\ PolledAt = p + tbl
      /\ TickCount' = hn + bl /\ PolledAt' = pn + bl
  BY <1>5 DEF TickCount, PolledAt
<1>9. Lag = TickCount - PolledAt /\ Lag' = TickCount' - PolledAt'
  BY DEF Lag
<1>10. Polls => PolledAt' = TrueTicks
  BY DEF Polls, get_ticks, PolledAt, TrueTicks
<1> HIDE DEF TickInv, h, p, hn, pn, limit
<1>11. PICK t \in Nat, q \in Nat :
              t = TickCount' /\ q = PolledAt' /\ t < limit
  <2>1. hn + bl \in Nat /\ pn + bl \in Nat /\ hn + bl < limit
    BY <1>2, <1>6, <1>7
  <2> QED BY <1>8, <2>1
<1>12. PICK c \in Nat, a \in Nat : c = TickCount /\ a = PolledAt /\ c <= a
  BY <1>3, <1>7, <1>8
<1>13. /\ Lag \in Int /\ Lag <= 0 /\ Lag' = t - q /\ t = (t - q) + q
       /\ TickCount <= t
       /\ Polling => t - q = Lag /\ PolledAt <= q
  <2>1. c <= t /\ (Polling => t - c = q - a)
    BY <1>1, <1>11, <1>12
  <2>2. Lag = c - a /\ Lag' = t - q
    BY <1>9, <1>11, <1>12
  <2>3. c - a \in Int /\ c - a <= 0 /\ t = (t - q) + q
    BY <1>12
  <2>4. t - c = q - a => t - q = c - a /\ a <= q
    BY <1>12, <2>1
  <2> QED BY <1>12, <2>1, <2>2, <2>3, <2>4
<1>14. t < (MaxRolls + 1) * WORD
  BY <1>11 DEF limit
<1> QED BY <1>4, <1>10, <1>11, <1>12, <1>13, <1>14

(* Who waits goes on waiting, and the count lags no further behind; who    *)
(* begins to wait does so at the time of the call.                         *)
LEMMA WaitStep ==
    ASSUME WaitInv, [Next]_vars
    PROVE  /\ Polling => Lag' = Lag /\ \A at : Waits(at) => Waits(at)'
           /\ Polls => Waits(TrueTicks)' /\ Lag' + TrueTicks = TickCount'
<1>1. PICK c \in Nat, t \in Nat, a \in Nat, q \in Nat, g \in Int :
             /\ c = TickCount /\ t = TickCount' /\ a = PolledAt /\ q = PolledAt'
             /\ g = Lag
             /\ Polling => Lag' = g /\ a <= q
             /\ Polls => q = TrueTicks /\ t = Lag' + TrueTicks
  BY LagStep DEF WaitInv
<1>2. Polling => \A at : Waits(at) => Waits(at)'
  <2> SUFFICES ASSUME Polling, NEW at, Waits(at)
               PROVE  at \in Nat /\ at <= PolledAt' /\ Lag' + at \in Nat
    BY DEF Waits
  <2>1. at \in Nat /\ at <= a /\ g + at \in Nat
    BY <1>1 DEF Waits
  <2>2. Lag' = g /\ a <= q
    BY <1>1
  <2>3. at <= q
    BY <2>1, <2>2
  <2> QED BY <1>1, <2>1, <2>2, <2>3
<1>3. Polls => Waits(TrueTicks)'
  <2> SUFFICES ASSUME Polls PROVE Waits(TrueTicks)'
    OBVIOUS
  <2>1. TrueTicks' = TrueTicks
    BY DEF Polls, TrueTicks, Now
  <2> QED BY <1>1, <2>1 DEF Waits
<1> QED BY <1>1, <1>2, <1>3

(* get_timer(0), and a call that keeps its result.                         *)
LEMMA TimerFromZero ==
    ASSUME NEW t \in Nat
    PROVE  tick_to_time(t) \in Nat /\ (tick_to_time(t) - 0) % WORD = tick_to_time(t) % WORD
<1>1. t * CONFIG_SYS_HZ \in Nat
  BY TimerConstants
<1>2. (t * CONFIG_SYS_HZ) % LWORD \in Nat
  BY <1>1, TimerConstants, DivMod
<1>3. tick_to_time(t) \in Nat
  BY <1>2, TimerConstants, DivMod DEF tick_to_time
<1> QED BY <1>3

LEMMA TimerNow ==
    ASSUME WaitInv, [Next]_vars, Polls
    PROVE  get_timer(0) = tick_to_time(Lag' + TrueTicks) % WORD
<1>1. TickCount' \in Nat
  BY LagStep DEF WaitInv
<1>2. TickCount' = Lag' + TrueTicks
  BY WaitStep
<1>3. PICK t \in Nat : t = TickCount'
  BY <1>1
<1>4. get_timer(0) = (tick_to_time(t) - 0) % WORD
  BY <1>3 DEF get_timer
<1> QED BY <1>2, <1>3, <1>4, TimerFromZero

(* The timeout of NetLoop(): set, cancelled or left alone.                 *)
LEMMA TimeoutSet ==
    ASSUME WaitInv, [Next]_vars, Polls, InLoop',
           NEW iv \in Timeouts, NetSetTimeout(iv)
    PROVE  TimeoutInv' /\ setFor' \in Timeouts
<1>1. /\ timeStart' = get_timer(0)
      /\ timeDelta' = ((iv * CONFIG_SYS_HZ) % WORD) \div MSECS
      /\ setAt' = TrueTicks /\ setFor' = iv
  BY DEF NetSetTimeout
<1>2. timeStart' = tick_to_time(Lag' + TrueTicks) % WORD
  BY <1>1, TimerNow
<1>3. TrueTicks' = TrueTicks
  BY DEF Polls, TrueTicks, Now
<1>4. Waits(setAt)'
  BY <1>1, <1>3, WaitStep DEF Waits
<1> QED BY <1>1, <1>2, <1>4 DEF TimeoutInv, tick_to_time

LEMMA TimeoutKept ==
    ASSUME WaitInv, [Next]_vars, UNCHANGED timeoutVars, InLoop => InLoop'
    PROVE  TimeoutInv'
<1> SUFFICES ASSUME timeHandler'
             PROVE  /\ InLoop' /\ Waits(setAt)'
                    /\ timeStart' = tick_to_time(Lag' + setAt') % WORD
                    /\ timeDelta' = ((setFor' * CONFIG_SYS_HZ) % WORD) \div MSECS
  BY DEF TimeoutInv, tick_to_time
<1>1. /\ timeHandler /\ setAt' = setAt /\ setFor' = setFor
      /\ timeStart' = timeStart /\ timeDelta' = timeDelta
  BY DEF timeoutVars
<1>2. /\ InLoop /\ Waits(setAt) /\ timeStart = tick_to_time(Lag + setAt) % WORD
      /\ timeDelta = ((setFor * CONFIG_SYS_HZ) % WORD) \div MSECS
  BY <1>1 DEF WaitInv, TimeoutInv
<1>3. Polling
  BY <1>1, <1>2 DEF Polling, InLoop
<1>4. Lag' = Lag /\ \A at : Waits(at) => Waits(at)'
  BY <1>3, WaitStep
<1>5. PICK at : at = setAt
  OBVIOUS
<1>6. Waits(setAt)'
  BY <1>1, <1>2, <1>4, <1>5 DEF Waits
<1> QED BY <1>1, <1>2, <1>4, <1>6

(* The ARP timer.                                                          *)
LEMMA ArpSet ==
    ASSUME WaitInv, [Next]_vars, Polls, StartArpTimer
    PROVE  ArpInv'
<1>1. NetArpWaitTimerStart' = get_timer(0) /\ askedAt' = TrueTicks
  BY DEF StartArpTimer
<1>2. NetArpWaitTimerStart' = tick_to_time(Lag' + TrueTicks) % WORD
  BY <1>1, TimerNow
<1>3. TrueTicks' = TrueTicks
  BY DEF Polls, TrueTicks, Now
<1>4. Waits(askedAt)'
  BY <1>1, <1>3, WaitStep DEF Waits
<1> QED BY <1>1, <1>2, <1>4 DEF ArpInv, tick_to_time

LEMMA ArpKept ==
    ASSUME WaitInv, [Next]_vars, UNCHANGED <<NetArpWaitTimerStart, askedAt>>,
           arpWaits' => arpWaits, InLoop' => InLoop
    PROVE  ArpInv'
<1> SUFFICES ASSUME arpWaits', InLoop'
             PROVE  /\ Waits(askedAt)'
                    /\ NetArpWaitTimerStart' = tick_to_time(Lag' + askedAt') % WORD
  BY DEF ArpInv, tick_to_time
<1>1. /\ Waits(askedAt)
      /\ NetArpWaitTimerStart = tick_to_time(Lag + askedAt) % WORD
  BY DEF WaitInv, ArpInv
<1>2. Polling
  BY DEF Polling, InLoop
<1>3. Lag' = Lag /\ \A at : Waits(at) => Waits(at)'
  BY <1>2, WaitStep
<1>4. PICK at : at = askedAt
  OBVIOUS
<1>5. Waits(askedAt)'
  BY <1>1, <1>3, <1>4 DEF Waits
<1> QED BY <1>1, <1>3, <1>5

(* udelay().                                                               *)
LEMMA DelayKept ==
    ASSUME WaitInv, [Next]_vars, UNCHANGED delayVars, pc' = "udelay" => pc = "udelay"
    PROVE  DelayInv'
<1> SUFFICES ASSUME pc' = "udelay"
             PROVE  /\ Waits(delayAt)' /\ start' = Lag' + delayAt'
                    /\ delayFor' \in Delays
                    /\ tmo' = usec_to_tick(delayFor') % WORD
  BY DEF DelayInv, usec_to_tick
<1>1. /\ Waits(delayAt) /\ start = Lag + delayAt /\ delayFor \in Delays
      /\ tmo = usec_to_tick(delayFor) % WORD
  BY DEF WaitInv, DelayInv
<1>2. start' = start /\ tmo' = tmo /\ delayAt' = delayAt /\ delayFor' = delayFor
  BY DEF delayVars
<1>3. Polling
  BY DEF Polling
<1>4. Lag' = Lag /\ \A at : Waits(at) => Waits(at)'
  BY <1>3, WaitStep
<1>5. PICK at : at = delayAt
  OBVIOUS
<1>6. Waits(delayAt)'
  BY <1>1, <1>2, <1>4, <1>5 DEF Waits
<1> QED BY <1>1, <1>2, <1>4, <1>6

(* What every step does to those who wait.                                 *)
LEMMA WaitersStep ==
    ASSUME WaitInv, Next
    PROVE  /\ TimeoutInv' /\ ArpInv' /\ DelayInv'
           /\ InLoop' => setFor' \in Timeouts
<1>0. [Next]_vars
  OBVIOUS
<1> DEFINE Goal == /\ TimeoutInv' /\ ArpInv' /\ DelayInv'
                   /\ InLoop' => setFor' \in Timeouts
<1> SUFFICES Goal
  OBVIOUS
<1>1. ASSUME NEW d \in Steps, Advance(d) PROVE Goal
  <2>1. UNCHANGED <<pc, timeoutVars, arpVars, delayVars>>
    BY <1>1 DEF Advance
  <2> QED BY <1>0, <2>1, TimeoutKept, ArpKept, DelayKept
          DEF timeoutVars, arpVars, InLoop, WaitInv
<1>2. ASSUME NEW iv \in Timeouts, StartLoop(iv) PROVE Goal
  <2>1. /\ Polls /\ pc' = "rx" /\ NetSetTimeout(iv) /\ StartArpTimer
        /\ UNCHANGED delayVars
    BY <1>2 DEF StartLoop, Polls
  <2> QED BY <1>0, <2>1, TimeoutSet, ArpSet, DelayKept DEF InLoop
<1>3. CASE ReceiveReply
  <2>1. /\ UNCHANGED <<pc, timeoutVars, NetArpWaitTimerStart, askedAt, delayVars>>
        /\ arpWaits
    BY <1>3 DEF ReceiveReply
  <2> QED BY <1>0, <2>1, TimeoutKept, ArpKept, DelayKept
          DEF timeoutVars, InLoop, WaitInv
<1>4. CASE ReceiveBlock
  <2>1. /\ Polls /\ pc = "rx" /\ NetSetTimeout(setFor)
        /\ UNCHANGED <<pc, arpVars, delayVars>>
    BY <1>4 DEF ReceiveBlock, Polls
  <2>2. setFor \in Timeouts
    BY <2>1 DEF InLoop, WaitInv
  <2>3. PICK iv \in Timeouts : iv = setFor /\ NetSetTimeout(iv)
    BY <2>1, <2>2
  <2> QED BY <1>0, <2>1, <2>3, TimeoutSet, ArpKept, DelayKept DEF arpVars, InLoop
<1>5. CASE ReceiveDone \/ ArpNotWaiting
  <2>1. /\ UNCHANGED <<timeoutVars, arpVars, delayVars>>
        /\ InLoop /\ InLoop' /\ pc' # "udelay"
    BY <1>5 DEF ReceiveDone, ArpNotWaiting, InLoop
  <2> QED BY <1>0, <2>1, TimeoutKept, ArpKept, DelayKept
          DEF timeoutVars, arpVars, WaitInv
<1>6. CASE ArpNotExpired
  <2>1. /\ UNCHANGED <<timeoutVars, arpVars, delayVars>>
        /\ InLoop /\ InLoop' /\ pc' # "udelay"
    BY <1>6 DEF ArpNotExpired, InLoop
  <2> QED BY <1>0, <2>1, TimeoutKept, ArpKept, DelayKept
          DEF timeoutVars, arpVars, WaitInv
<1>7. CASE ArpAsk
  <2>1. /\ UNCHANGED <<timeoutVars, delayVars>> /\ Polls /\ StartArpTimer
        /\ InLoop /\ InLoop' /\ pc' # "udelay"
    BY <1>7 DEF ArpAsk, InLoop, Polls
  <2> QED BY <1>0, <2>1, TimeoutKept, ArpSet, DelayKept DEF timeoutVars, WaitInv
<1>8. CASE ArpLimit
  <2>1. /\ UNCHANGED <<timeoutVars, delayVars, NetArpWaitTimerStart, askedAt>>
        /\ UNCHANGED arpWaits
        /\ InLoop /\ InLoop' /\ pc' # "udelay"
    BY <1>8 DEF ArpLimit, InLoop
  <2> QED BY <1>0, <2>1, TimeoutKept, ArpKept, DelayKept DEF timeoutVars, WaitInv
<1>9. CASE TimerNotExpired \/ TimerFires
  <2>1. /\ UNCHANGED <<arpVars, delayVars>> /\ InLoop
        /\ pc' # "udelay"
    BY <1>9 DEF TimerNotExpired, TimerFires, InLoop
  <2>2. ArpInv' /\ DelayInv' /\ setFor \in Timeouts
    BY <1>0, <2>1, ArpKept, DelayKept DEF arpVars, WaitInv
  <2>3. \/ UNCHANGED timeoutVars /\ InLoop'
        \/ CancelTimeout
        \/ Polls /\ InLoop' /\ NetSetTimeout(setFor)
    BY <1>9 DEF TimerNotExpired, TimerFires, InLoop, Polls
  <2>4. CASE UNCHANGED timeoutVars /\ InLoop'
    BY <1>0, <2>2, <2>4, TimeoutKept DEF timeoutVars
  <2>5. CASE CancelTimeout
    BY <2>2, <2>5 DEF CancelTimeout, TimeoutInv
  <2>6. CASE Polls /\ InLoop' /\ NetSetTimeout(setFor)
    <3>1. PICK iv \in Timeouts : iv = setFor /\ NetSetTimeout(iv)
      BY <2>2, <2>6
    <3> QED BY <1>0, <2>2, <2>6, <3>1, TimeoutSet
  <2> QED BY <2>3, <2>4, <2>5, <2>6
<1>10. ASSUME NEW usec \in Delays, UdelayCall(usec) PROVE Goal
  <2>1. /\ UNCHANGED <<timeoutVars, arpVars>> /\ ~InLoop /\ ~InLoop' /\ Polls
        /\ start' = TickCount' /\ tmo' = usec_to_tick(usec) % WORD
        /\ delayAt' = TrueTicks /\ delayFor' = usec
    BY <1>10 DEF UdelayCall, InLoop, Polls
  <2>2. TimeoutInv' /\ ArpInv'
    BY <1>0, <2>1, TimeoutKept DEF ArpInv
  <2>3. Waits(TrueTicks)' /\ Lag' + TrueTicks = TickCount' /\ TrueTicks' = TrueTicks
    BY <1>0, <2>1, WaitStep DEF Polls, TrueTicks, Now
  <2>4. Waits(delayAt)' /\ start' = Lag' + delayAt'
    BY <2>1, <2>3 DEF Waits
  <2>5. DelayInv'
    BY <2>1, <2>4 DEF DelayInv, usec_to_tick
  <2> QED BY <2>1, <2>2, <2>5
<1>11. CASE UdelayPoll \/ UdelayReturn
  <2>1. /\ UNCHANGED <<timeoutVars, arpVars>> /\ ~InLoop /\ ~InLoop'
        /\ (UNCHANGED delayVars /\ UNCHANGED pc) \/ pc' = "idle"
    BY <1>11 DEF UdelayPoll, UdelayReturn, InLoop
  <2>2. TimeoutInv' /\ ArpInv'
    BY <1>0, <2>1, TimeoutKept DEF ArpInv
  <2>3. DelayInv'
    BY <1>0, <2>1, DelayKept DEF DelayInv
  <2> QED BY <2>1, <2>2, <2>3
<1> HIDE DEF Goal
<1> QED
  BY <1>1, <1>2, <1>3, <1>4, <1>5, <1>6, <1>7, <1>8, <1>9, <1>10, <1>11
     DEF Next, Loop

(* What every waiter keeps of the time at which he began to wait.          *)
THEOREM WaitersKnow == Spec => []WaitInv
<1>1. Init => WaitInv
  <2> SUFFICES ASSUME Init PROVE WaitInv
    OBVIOUS
  <2>1. TickInv
    BY TickInvInit
  <2> QED BY <2>1, TimerConstants
          DEF Init, WaitInv, InLoop, TimeoutInv, ArpInv, DelayInv
<1>2. WaitInv /\ [Next]_vars => WaitInv'
  <2> SUFFICES ASSUME WaitInv, [Next]_vars PROVE WaitInv'
    OBVIOUS
  <2>1. TickInv' /\ rolls' <= MaxRolls
    BY Step, LagStep DEF WaitInv
  <2>2. CASE Next
    BY <2>1, <2>2, WaitersStep DEF WaitInv
  <2>3. CASE UNCHANGED vars
    <3>1. UNCHANGED <<pc, timeoutVars, arpVars, delayVars>>
      BY <2>3 DEF vars
    <3>2. TimeoutInv' /\ ArpInv' /\ DelayInv'
      BY <3>1, TimeoutKept, ArpKept, DelayKept DEF arpVars, InLoop
    <3> QED BY <2>1, <3>1, <3>2 DEF WaitInv, InLoop, timeoutVars
  <2> QED BY <2>2, <2>3
<1> QED BY <1>1, <1>2, PTL DEF Spec

(* udelay() returns only when its microseconds have passed, for every      *)
(* clock and every delay that fits.                                        *)
THEOREM DelayLongEnough == ASSUME DelaysFit PROVE Spec => DelayNotShort
<1>1. ASSUME WaitInv, [Next]_vars, UdelayReturn
      PROVE  TrueTicks - delayAt >= (delayFor * TIMER_CLOCK) \div USECS
  <2>1. /\ pc = "udelay" /\ Polls /\ TickCount' - start >= tmo
    BY <1>1 DEF UdelayReturn, Polls
  <2>2. /\ Waits(delayAt) /\ start = Lag + delayAt /\ delayFor \in Delays
        /\ tmo = usec_to_tick(delayFor) % WORD
    BY <1>1, <2>1 DEF WaitInv, DelayInv
  <2>3. Lag' = Lag /\ Lag' + TrueTicks = TickCount' /\ Waits(TrueTicks)'
    BY <1>1, <2>1, WaitStep DEF Polling
  <2>4. tmo = (delayFor * TIMER_CLOCK) \div USECS
    <3> DEFINE n == delayFor * TIMER_CLOCK
    <3>1. n \in Nat /\ n < LWORD /\ n \div USECS < WORD
      BY <2>2, TimerConstants DEF DelaysFit
    <3> HIDE DEF n
    <3>2. n % LWORD = n /\ n \div USECS \in Nat
      BY <3>1, TimerConstants, DivMod
    <3>3. (n \div USECS) % WORD = n \div USECS
      BY <3>1, <3>2, TimerConstants, DivMod
    <3> QED BY <2>2, <3>2, <3>3 DEF usec_to_tick, n
  <2>5. PICK t \in Nat, g \in Int, a \in Nat :
               t = TrueTicks /\ g = Lag /\ a = delayAt
    <3>1. TrueTicks' = TrueTicks
      BY <2>1 DEF Polls, TrueTicks, Now
    <3>2. Lag \in Int
      BY <1>1, LagStep DEF WaitInv
    <3> QED BY <2>2, <2>3, <3>1, <3>2 DEF Waits
  <2>6. (g + t) - (g + a) >= tmo
    BY <2>1, <2>2, <2>3, <2>5
  <2>7. (g + t) - (g + a) = t - a
    BY <2>5
  <2> QED BY <2>4, <2>5, <2>6, <2>7
<1>2. WaitInv /\ [Next]_vars =>
        [UdelayReturn =>
           TrueTicks - delayAt >= (delayFor * TIMER_CLOCK) \div USECS]_vars
  BY <1>1
<1> QED BY <1>2, WaitersKnow, PTL DEF Spec, DelayNotShort

(* What get_timer() tells someone who has waited since the time at.        *)
LEMMA Measured ==
    ASSUME UptimeFits, WaitInv, [Next]_vars, Polls, Polling,
           NEW at, Waits(at), NEW delta \in Nat
    PROVE  LET r == get_timer(tick_to_time(Lag + at) % WORD)
               d == TrueTicks - at
           IN  /\ d \in Nat
               /\ r > delta => delta * TIMER_CLOCK < d * CONFIG_SYS_HZ
               /\ ~(r > delta) /\ d * CONFIG_SYS_HZ < (WORD - 1) * TIMER_CLOCK
                  => d * CONFIG_SYS_HZ < (delta + 1) * TIMER_CLOCK
<1>1. /\ Lag' = Lag /\ Lag' + TrueTicks = TickCount' /\ Waits(TrueTicks)' /\ Waits(at)'
      /\ TrueTicks' = TrueTicks /\ PolledAt' = TrueTicks
      /\ TickCount' \in Nat /\ TickCount' < (MaxRolls + 1) * WORD /\ Lag \in Int
  BY WaitStep, LagStep DEF Polls, TrueTicks, Now, WaitInv
<1>2. PICK t \in Nat, g \in Int, b \in Nat :
             t = TrueTicks /\ g = Lag /\ b = TickCount'
  BY <1>1 DEF Waits
<1>3. /\ at \in Nat /\ g + at \in Nat /\ b = g + t /\ at <= t
      /\ b < (MaxRolls + 1) * WORD
  BY <1>1, <1>2 DEF Waits
<1>4. PICK a \in Nat : a = g + at
  BY <1>3
<1>5. a <= b /\ b - a = t - at /\ t - at \in Nat
  BY <1>2, <1>3, <1>4
<1> DEFINE r == (tick_to_time(b) - (tick_to_time(a) % WORD)) % WORD
<1>6. /\ r > delta => delta * TIMER_CLOCK < (b - a) * CONFIG_SYS_HZ
      /\ ~(r > delta) /\ (b - a) * CONFIG_SYS_HZ < (WORD - 1) * TIMER_CLOCK
         => (b - a) * CONFIG_SYS_HZ < (delta + 1) * TIMER_CLOCK
  BY <1>3, <1>5, Elapsed
<1>7. get_timer(tick_to_time(Lag + at) % WORD) = r
  BY <1>2, <1>4 DEF get_timer
<1> HIDE DEF r
<1> QED BY <1>2, <1>5, <1>6, <1>7

(* Products with a positive number, and their order.                       *)
LEMMA Scaled ==
    ASSUME NEW a \in Nat, NEW b \in Nat, NEW h \in Nat \ {0}
    PROVE  a < b <=> a * h < b * h
<1>1. /\ a < b => a * h + h <= b * h
      /\ b < a => b * h + h <= a * h
      /\ a * h \in Nat /\ b * h \in Nat
  BY Periods
<1>2. a = b => a * h = b * h
  OBVIOUS
<1> DEFINE x == a * h
           y == b * h
<1> HIDE DEF x, y
<1> QED BY <1>1, <1>2 DEF x, y

(* A timeout handler is called only when its milliseconds have passed.     *)
THEOREM TimeoutsNotEarly ==
    ASSUME UptimeFits, TimeoutsFit PROVE Spec => TimeoutNotEarly
<1>1. ASSUME WaitInv, [Next]_vars, TimerFires
      PROVE  (TrueTicks - setAt) * MSECS >= setFor * TIMER_CLOCK
  <2>1. /\ pc = "timer" /\ timeHandler /\ Polls
        /\ get_timer(timeStart) > timeDelta
    BY <1>1 DEF TimerFires, Polls, Expired
  <2>2. /\ Waits(setAt) /\ timeStart = tick_to_time(Lag + setAt) % WORD
        /\ timeDelta = ((setFor * CONFIG_SYS_HZ) % WORD) \div MSECS
        /\ setFor \in Timeouts
    BY <1>1, <2>1 DEF WaitInv, TimeoutInv, InLoop
  <2>3. PICK iv \in Nat, at \in Nat : iv = setFor /\ at = setAt
    BY <2>2, TimerConstants DEF Waits
  <2> DEFINE n == iv * CONFIG_SYS_HZ
             delta == n \div MSECS
             d == TrueTicks - at
  <2>4. n \in Nat /\ n < WORD /\ n % MSECS = 0
    BY <2>2, <2>3, TimerConstants DEF TimeoutsFit
  <2>5. delta \in Nat /\ n = MSECS * delta /\ timeDelta = delta
    <3> HIDE DEF n
    <3>1. n % WORD = n
      BY <2>4, TimerConstants, DivMod
    <3>2. n \div MSECS \in Nat /\ n = MSECS * (n \div MSECS) + (n % MSECS)
      BY <2>4, TimerConstants, DivMod
    <3>3. timeDelta = (n % WORD) \div MSECS
      BY <2>2, <2>3 DEF n
    <3> QED BY <2>4, <3>1, <3>2, <3>3, TimerConstants
  <2>6. Polling
    BY <2>1 DEF Polling
  <2> HIDE DEF delta
  <2>7. d \in Nat /\ delta * TIMER_CLOCK < d * CONFIG_SYS_HZ
    BY <1>1, <2>1, <2>2, <2>3, <2>5, <2>6, Measured
  <2> HIDE DEF d
  <2>8. iv * TIMER_CLOCK < d * MSECS
    <3> DEFINE C == TIMER_CLOCK
               H == CONFIG_SYS_HZ
               M == MSECS
    <3>1. C \in Nat \ {0} /\ H \in Nat \ {0} /\ M \in Nat \ {0}
      BY TimerConstants
    <3>2. iv * H = M * delta /\ delta * C < d * H
      BY <2>5, <2>7 DEF n
    <3> HIDE DEF C, H, M
    <3>3. (delta * C) * M < (d * H) * M
      BY <2>5, <2>7, <3>1, <3>2, Scaled
    <3>4. (iv * C) * H = (delta * C) * M
      <4>1. (iv * C) * H = (iv * H) * C
        BY <3>1
      <4>2. (M * delta) * C = (delta * C) * M
        BY <2>5, <3>1
      <4> QED BY <3>2, <4>1, <4>2
    <3>5. (d * M) * H = (d * H) * M
      BY <2>7, <3>1
    <3>6. iv * C \in Nat /\ d * M \in Nat
      BY <2>7, <3>1
    <3>7. iv * C < d * M
      BY <3>1, <3>3, <3>4, <3>5, <3>6, Scaled
    <3> QED BY <3>7 DEF C, M
  <2>9. iv * TIMER_CLOCK \in Nat /\ d * MSECS \in Nat
    BY <2>7, TimerConstants
  <2> QED BY <2>3, <2>8, <2>9 DEF d
<1>2. WaitInv /\ [Next]_vars =>
        [TimerFires => (TrueTicks - setAt) * MSECS >= setFor * TIMER_CLOCK]_vars
  BY <1>1
<1> QED BY <1>2, WaitersKnow, PTL DEF Spec, TimeoutNotEarly

(* An ARP request is repeated only when ARP_TIMEOUT milliseconds have      *)
(* passed, on a board on which a unit of get_timer() is not shorter.       *)
THEOREM ArpRepeatsNotEarly ==
    ASSUME UptimeFits, UnitNotBelowMsec PROVE Spec => ArpNotEarly
<1>1. ASSUME WaitInv, [Next]_vars, ArpAsk
      PROVE  (TrueTicks - askedAt) * MSECS >= ARP_TIMEOUT * TIMER_CLOCK
  <2>1. /\ pc = "arp" /\ arpWaits /\ Polls
        /\ get_timer(NetArpWaitTimerStart) > ARP_TIMEOUT
    BY <1>1 DEF ArpAsk, Polls
  <2>2. /\ Waits(askedAt)
        /\ NetArpWaitTimerStart = tick_to_time(Lag + askedAt) % WORD
    BY <1>1, <2>1 DEF WaitInv, ArpInv, InLoop
  <2>3. PICK at : at = askedAt
    OBVIOUS
  <2> DEFINE d == TrueTicks - at
             H == CONFIG_SYS_HZ
             M == MSECS
             z == ARP_TIMEOUT * TIMER_CLOCK
  <2>4. Polling
    BY <2>1 DEF Polling
  <2>5. d \in Nat /\ z < d * H
    BY <1>1, <2>1, <2>2, <2>3, <2>4, Measured, TimerConstants
  <2>6. H \in Nat /\ M \in Nat /\ H <= M /\ z \in Nat
    BY TimerConstants DEF UnitNotBelowMsec
  <2>7. (TrueTicks - askedAt) * MSECS = d * M
    BY <2>3
  <2> HIDE DEF d, H, M, z
  <2>8. d * H <= d * M
    <3>1. PICK j \in Nat : M = H + j
      <4>1. M - H \in Nat /\ M = H + (M - H)
        BY <2>6
      <4> QED BY <4>1
    <3>2. d * M = d * H + d * j /\ d * j \in Nat /\ d * H \in Nat
      BY <2>5, <2>6, <3>1
    <3> QED BY <3>2
  <2>9. d * H \in Nat /\ d * M \in Nat
    BY <2>5, <2>6
  <2>10. d * M >= z
    BY <2>5, <2>6, <2>8, <2>9
  <2> QED BY <2>7, <2>10 DEF z
<1>2. WaitInv /\ [Next]_vars =>
        [ArpAsk => (TrueTicks - askedAt) * MSECS >= ARP_TIMEOUT * TIMER_CLOCK]_vars
  BY <1>1
<1> QED BY <1>2, WaitersKnow, PTL DEF Spec, ArpNotEarly

(* A check that comes late enough finds that the time has passed, also     *)
(* when get_timer() has wrapped around: the product of NetSetTimeout() may *)
(* be cut to a word, which makes the timeout shorter.                      *)
THEOREM TimeoutsNotLate == ASSUME UptimeFits PROVE Spec => TimeoutNotLate
<1> DEFINE Due == /\ TimerNotExpired /\ timeHandler
                  /\ (TrueTicks - setAt) * CONFIG_SYS_HZ < (WORD - 1) * TIMER_CLOCK
<1>1. ASSUME WaitInv, [Next]_vars, Due
      PROVE  (TrueTicks - setAt) * CONFIG_SYS_HZ * MSECS
               < (setFor * CONFIG_SYS_HZ + 2 * MSECS) * TIMER_CLOCK
  <2>1. /\ pc = "timer" /\ timeHandler /\ Polls
        /\ ~(get_timer(timeStart) > timeDelta)
    BY <1>1 DEF TimerNotExpired, Polls, Expired
  <2>2. /\ Waits(setAt) /\ timeStart = tick_to_time(Lag + setAt) % WORD
        /\ timeDelta = ((setFor * CONFIG_SYS_HZ) % WORD) \div MSECS
        /\ setFor \in Timeouts
    BY <1>1, <2>1 DEF WaitInv, TimeoutInv, InLoop
  <2>3. PICK iv \in Nat, at \in Nat : iv = setFor /\ at = setAt
    BY <2>2, TimerConstants DEF Waits
  <2> DEFINE C == TIMER_CLOCK
             H == CONFIG_SYS_HZ
             M == MSECS
             n == iv * H
             delta == (n % WORD) \div M
             d == TrueTicks - at
  <2>4. C \in Nat \ {0} /\ H \in Nat \ {0} /\ M \in Nat \ {0} /\ n \in Nat
    BY TimerConstants
  <2>5. delta \in Nat /\ M * delta <= n /\ timeDelta = delta
    <3>1. timeDelta = delta
      BY <2>2, <2>3
    <3> HIDE DEF n, M
    <3>2. n % WORD \in Nat /\ n % WORD <= n
      <4>1. /\ n % WORD \in Nat /\ n \div WORD \in Nat
            /\ n = WORD * (n \div WORD) + (n % WORD)
        BY <2>4, TimerConstants, DivMod
      <4>2. WORD * (n \div WORD) \in Nat
        BY <4>1, TimerConstants
      <4> QED BY <2>4, <4>1, <4>2
    <3>3. PICK m \in Nat : m = n % WORD
      BY <3>2
    <3>4. /\ m \div M \in Nat /\ m = M * (m \div M) + (m % M) /\ m % M \in Nat
      BY <2>4, DivMod
    <3>5. M * (m \div M) \in Nat
      BY <2>4, <3>4
    <3>6. M * (m \div M) <= m
      BY <3>4, <3>5
    <3> QED BY <2>4, <3>1, <3>2, <3>3, <3>4, <3>5, <3>6
  <2>6. Polling
    BY <2>1 DEF Polling
  <2>7. d * H < (WORD - 1) * C
    BY <1>1, <2>3
  <2> HIDE DEF delta
  <2>8. d \in Nat /\ d * H < (delta + 1) * C
    BY <1>1, <2>1, <2>2, <2>3, <2>5, <2>6, <2>7, Measured
  <2>9. (TrueTicks - setAt) * CONFIG_SYS_HZ * MSECS = (d * H) * M
        /\ (setFor * CONFIG_SYS_HZ + 2 * MSECS) * TIMER_CLOCK = (n + 2 * M) * C
    BY <2>3
  <2> HIDE DEF d, C, H, M, n
  <2>10. d * H \in Nat /\ (delta + 1) * C \in Nat
    BY <2>4, <2>5, <2>8
  <2>11. (d * H) * M < ((delta + 1) * C) * M
    BY <2>4, <2>8, <2>10, Scaled
  <2>12. ((delta + 1) * C) * M = (M * delta + M) * C
    <3>1. (delta + 1) * C = delta * C + C /\ delta * C \in Nat
      BY <2>4, <2>5, Periods
    <3>2. (delta * C + C) * M = (delta * C) * M + C * M
      BY <2>4, <3>1
    <3>3. (M * delta + M) * C = (M * delta) * C + M * C
      BY <2>4, <2>5
    <3>4. (delta * C) * M = (M * delta) * C /\ C * M = M * C
      BY <2>4, <2>5
    <3> QED BY <3>1, <3>2, <3>3, <3>4
  <2>13. (M * delta + M) * C < (n + 2 * M) * C
    <3>1. M * delta \in Nat
      BY <2>4, <2>5
    <3>2. M * delta + M \in Nat /\ n + 2 * M \in Nat /\ M * delta + M < n + 2 * M
      BY <2>4, <2>5, <3>1
    <3> QED BY <2>4, <3>2, Scaled
  <2>14. (d * H) * M \in Nat /\ (M * delta + M) * C \in Nat /\ (n + 2 * M) * C \in Nat
    BY <2>4, <2>5, <2>10
  <2> QED BY <2>9, <2>11, <2>12, <2>13, <2>14
<1>2. WaitInv /\ [Next]_vars =>
        [Due => (TrueTicks - setAt) * CONFIG_SYS_HZ * MSECS
                  < (setFor * CONFIG_SYS_HZ + 2 * MSECS) * TIMER_CLOCK]_vars
  BY <1>1
<1> QED BY <1>2, WaitersKnow, PTL DEF Spec, TimeoutNotLate

-----------------------------------------------------------------------------
(* The DMA drivers.                                                        *)

(* What a channel's status bits say of a transfer on the AXI controller,   *)
(* whose driver clears them when it tells the program.                     *)
BitsAreNews(ch) ==
    /\ ch \in dma_tc => ~seen[ch] /\ outcome[ch] = "tc"
    /\ ch \in dma_err => ~seen[ch] /\ outcome[ch] = "err"

(* On AHB a bit may outlive the news, and only a transfer that runs has    *)
(* none: Start() has cleared them.                                         *)
StatusInv ==
    /\ driver \in {"020", "030"}
    /\ outcome \in [Channels -> {"none", "", "tc", "err", "given up"}]
    /\ seen \in [Channels -> BOOLEAN]
    /\ waiting \in Channels \cup {NoChannel}
    /\ waiting \in Channels => ~seen[waiting]
    /\ \A ch \in Channels :
          /\ outcome[ch] = "" => ~seen[ch]
          /\ driver = "030" => BitsAreNews(ch)
    /\ StatusKept

LEMMA NoChannelIsNone == NoChannel \notin Channels
  BY DmaConstants DEF NoChannel

LEMMA StatusInvInit == DmaInit => StatusInv
  BY DmaConstants, NoChannelIsNone DEF DmaInit, StatusInv, StatusKept, BitsAreNews

(* Configuring a channel leaves its transfers alone.                       *)
StatusSame == UNCHANGED <<driver, statusVars, outcome, seen>>

LEMMA StatusInvSame ==
    ASSUME StatusInv, StatusSame,
           waiting' = waiting \/ (waiting' \in Channels /\ ~seen[waiting'])
    PROVE  StatusInv'
  BY DEF StatusInv, StatusSame, statusVars, StatusKept, BitsAreNews

(* The program starts a transfer, or gives one up.                         *)
LEMMA StatusInvStart ==
    ASSUME StatusInv, NEW ch \in Channels, Start(ch)
    PROVE  StatusInv'
<1>1. /\ outcome' = [outcome EXCEPT ![ch] = ""]
      /\ seen' = [seen EXCEPT ![ch] = FALSE]
      /\ waiting = NoChannel /\ waiting' = waiting /\ driver' = driver
      /\ outcome[ch] # "" /\ seen[ch]
  BY DEF Start, Free
<1>2. ch \notin dma_tc' \cup dma_err'
  <2>1. CASE driver = "020"
    BY <2>1 DEF Start, ClearDMAChannelIntStatus
  <2>2. CASE driver = "030"
    BY <2>2 DEF Start, StatusInv, BitsAreNews, statusVars
  <2> QED BY <2>1, <2>2 DEF StatusInv
<1>3. \A c \in Channels : c # ch => /\ (c \in dma_tc') <=> (c \in dma_tc)
                                    /\ (c \in dma_err') <=> (c \in dma_err)
  <2>1. CASE driver = "020"
    BY <2>1 DEF Start, ClearDMAChannelIntStatus
  <2>2. CASE driver # "020"
    BY <2>2 DEF Start, statusVars
  <2> QED BY <2>1, <2>2
<1> QED BY <1>1, <1>2, <1>3, NoChannelIsNone DEF StatusInv, StatusKept, BitsAreNews

LEMMA StatusInvGiveUp ==
    ASSUME StatusInv, NEW ch \in Channels, GiveUp(ch)
    PROVE  StatusInv'
  BY NoChannelIsNone
     DEF GiveUp, Free, ClearDMAChannelIntStatus, StatusInv, StatusKept, BitsAreNews

(* The controller finishes a transfer, and sets one bit.                   *)
LEMMA StatusInvFinish ==
    ASSUME StatusInv, NEW ch \in Channels, NEW failed \in BOOLEAN, Finish(ch, failed)
    PROVE  StatusInv'
<1>1. CASE failed
  BY <1>1 DEF Finish, StatusInv, StatusKept, BitsAreNews
<1>2. CASE ~failed
  BY <1>2 DEF Finish, StatusInv, StatusKept, BitsAreNews
<1> QED BY <1>1, <1>2

(* A wait returns.                                                         *)
LEMMA StatusInvWait ==
    ASSUME StatusInv, NEW ch \in Channels, WaitTc(ch) \/ WaitErr(ch)
    PROVE  StatusInv' /\ outcome'[ch] # ""
<1>1. /\ seen' = [seen EXCEPT ![ch] = TRUE] /\ outcome' = outcome
      /\ driver' = driver /\ waiting = ch /\ waiting' = NoChannel
  BY DEF WaitTc, WaitErr, Returned
<1>2. ~seen[ch] /\ outcome[ch] # ""
  BY <1>1 DEF WaitTc, WaitErr, StatusInv, StatusKept
<1>3. /\ driver = "030" => ch \notin dma_tc' \cup dma_err'
      /\ \A c \in Channels : c # ch => /\ (c \in dma_tc') <=> (c \in dma_tc)
                                       /\ (c \in dma_err') <=> (c \in dma_err)
  <2>1. CASE WaitTc(ch)
    BY <2>1 DEF WaitTc, statusVars, StatusInv, BitsAreNews
  <2>2. CASE WaitErr(ch)
    BY <2>2 DEF WaitErr
  <2> QED BY <2>1, <2>2
<1> QED BY <1>1, <1>2, <1>3, NoChannelIsNone DEF StatusInv, StatusKept, BitsAreNews

(* Every step keeps the invariant, and tells the program of no transfer    *)
(* that still runs.                                                        *)
ToldOnlyDone ==
    \A ch \in Channels : (seen[ch] # seen'[ch] /\ seen'[ch]) => outcome'[ch] # ""

LEMMA StatusInvStep ==
    ASSUME StatusInv, [DmaNext]_dmaVars
    PROVE  StatusInv' /\ ToldOnlyDone
<1>1. ASSUME NEW ch \in Channels,
             \/ \E x \in Transfers : DMA_CHDataCtrl(ch, x)
             \/ \E cfg \in Cfgs : DMA_SetCHCfg(ch, cfg)
             \/ \E mask \in BOOLEAN : DMA_SetInterrupt(ch, mask)
             \/ EnableDMAChannelEndianConverter(ch)
             \/ DisableDMAChannelEndianConverter(ch)
             \/ CallWait(ch)
      PROVE  StatusInv' /\ ToldOnlyDone
  <2>1. StatusSame /\ (waiting' = waiting \/ (waiting' \in Channels /\ ~seen[waiting']))
    BY <1>1 DEF StatusSame, DMA_CHDataCtrl, DMA_SetCHCfg, DMA_SetInterrupt,
         EnableDMAChannelEndianConverter, DisableDMAChannelEndianConverter, CallWait
  <2>2. ToldOnlyDone
    BY <2>1 DEF StatusSame, ToldOnlyDone
  <2> QED BY <2>1, <2>2, StatusInvSame
<1>2. ASSUME NEW ch \in Channels, Start(ch)
      PROVE  StatusInv' /\ ToldOnlyDone
  BY <1>2, StatusInvStart DEF Start, StatusInv, ToldOnlyDone
<1>3. ASSUME NEW ch \in Channels, GiveUp(ch)
      PROVE  StatusInv' /\ ToldOnlyDone
  BY <1>3, StatusInvGiveUp DEF GiveUp, StatusInv, ToldOnlyDone
<1>4. ASSUME NEW ch \in Channels, NEW failed \in BOOLEAN, Finish(ch, failed)
      PROVE  StatusInv' /\ ToldOnlyDone
  BY <1>4, StatusInvFinish DEF Finish, ToldOnlyDone
<1>5. ASSUME NEW ch \in Channels, WaitTc(ch) \/ WaitErr(ch)
      PROVE  StatusInv' /\ ToldOnlyDone
  BY <1>5, StatusInvWait DEF WaitTc, WaitErr, Returned, StatusInv, ToldOnlyDone
<1>6. CASE UNCHANGED dmaVars
  <2>1. StatusSame /\ waiting' = waiting
    BY <1>6 DEF dmaVars, StatusSame
  <2> QED BY <2>1, StatusInvSame DEF StatusSame, ToldOnlyDone
<1> QED BY <1>1, <1>2, <1>3, <1>4, <1>5, <1>6 DEF DmaNext, DmaWait

(* DMA_WaitIntStatus() and fLib_DMA_WaitIntStatus() return only for a      *)
(* transfer that has ended, and clearing one channel's status loses no     *)
(* other channel's.                                                        *)
THEOREM StatusIsTold == DmaSpec => StatusTold
<1>1. DmaSpec => []StatusInv
  BY StatusInvInit, StatusInvStep, PTL DEF DmaSpec
<1>2. StatusInv => StatusKept
  BY DEF StatusInv
<1>3. StatusInv /\ [DmaNext]_dmaVars => [ToldOnlyDone]_dmaVars
  BY StatusInvStep
<1>4. DmaSpec => [][ToldOnlyDone]_dmaVars
  BY <1>1, <1>3, PTL DEF DmaSpec
<1>5. DmaSpec => WaitMeansDone
  BY <1>4 DEF WaitMeansDone, ToldOnlyDone
<1> QED BY <1>1, <1>2, <1>5, PTL DEF StatusTold

-----------------------------------------------------------------------------
(* Start-up.                                                               *)

ImageUpTo(n) == \A a \in 0 .. (n - 1) : ddr[a] = "image"
ClearUpTo(n) == \A a \in DATA_END .. (n - 1) : a \notin bad => ddr[a] = "zero"

(* What each step of start.S has established.  Nothing is claimed of what  *)
(* copy_text stores: it is verify_copy that finds out.                     *)
StartupInv ==
    /\ step \in {"copy", "verify", "copy_error", "stacks", "clear", "main"}
    /\ r0 \in Nat /\ r1 \in Nat
    /\ ddr = [a \in Words |-> ddr[a]]
    /\ step = "verify" => r0 = r1 /\ r0 < DATA_END /\ ImageUpTo(r0)
    /\ step \in {"stacks", "clear", "main"} => ImageUpTo(DATA_END)
    /\ step = "clear" => r1 = BSS_END /\ r0 \in DATA_END .. BSS_END /\ ClearUpTo(r0)
    /\ step = "main" => ClearUpTo(BSS_END)

LEMMA StartupInvInit == StartupInit => StartupInv
  BY StartupConstants DEF StartupInit, StartupInv

(* One word more has been compared.                                        *)
LEMMA VerifyStep ==
    ASSUME StartupInv, verify_copy
    PROVE  StartupInv'
<1> USE StartupConstants DEF StartupInv, verify_copy
<1>1. CASE ddr[r1] # "image"
  BY <1>1
<1>2. CASE ddr[r1] = "image"
  <2>1. r0' = r0 + 1 /\ r1' = r1 + 1 /\ r0 = r1 /\ r0 \in Nat /\ ddr' = ddr
    BY <1>2
  <2>2. \A a \in 0 .. r0 : ddr'[a] = "image"
    <3>1. ImageUpTo(r0)
      OBVIOUS
    <3>2. \A a \in 0 .. r0 : a = r0 \/ a \in 0 .. (r0 - 1)
      BY <2>1
    <3> QED BY <1>2, <2>1, <3>1, <3>2 DEF ImageUpTo
  <2>3. CASE r0 + 1 < DATA_END
    <3>1. step' = "verify" /\ r0' < DATA_END /\ r0' - 1 = r0
      BY <1>2, <2>1, <2>3
    <3>2. \A a \in 0 .. (r0' - 1) : ddr'[a] = "image"
      BY <2>2, <3>1
    <3> QED BY <2>1, <3>1, <3>2 DEF ImageUpTo
  <2>4. CASE ~(r0 + 1 < DATA_END)
    <3>1. r0' = DATA_END /\ step' = "stacks"
      BY <1>2, <2>1, <2>4
    <3>2. ImageUpTo(DATA_END)'
      BY <2>2, <3>1 DEF ImageUpTo
    <3> QED BY <2>1, <3>1, <3>2
  <2> QED BY <2>3, <2>4
<1> QED BY <1>1, <1>2

(* One word more of .bss is clear, and the image, which lies before it, is *)
(* as it was.                                                              *)
LEMMA ClearStep ==
    ASSUME StartupInv, clbss
    PROVE  StartupInv'
<1> USE StartupConstants DEF StartupInv, clbss
<1>1. /\ r1 = BSS_END /\ r0 \in DATA_END .. BSS_END /\ bad' = bad
      /\ ImageUpTo(DATA_END) /\ ClearUpTo(r0) /\ r1' = r1
  OBVIOUS
<1>2. CASE r0 >= r1
  <2>1. r0 = BSS_END /\ ddr' = ddr /\ r0' = r0 /\ step' = "main"
    BY <1>1, <1>2
  <2> QED BY <1>1, <2>1 DEF ImageUpTo, ClearUpTo
<1>3. CASE ~(r0 >= r1)
  <2>1. /\ step' = "clear" /\ r0' = r0 + 1 /\ r0' \in DATA_END .. BSS_END
        /\ ddr' = [ddr EXCEPT ![r0] = Store(r0, "zero")] /\ r0 \in Words
    BY <1>1, <1>3 DEF Words
  <2>2. ImageUpTo(DATA_END)'
    BY <1>1, <2>1 DEF ImageUpTo
  <2>3. \A a \in DATA_END .. (r0' - 1) : a \notin bad' => ddr'[a] = "zero"
    BY <1>1, <2>1 DEF ClearUpTo, Store, Words
  <2> QED BY <1>1, <2>1, <2>2, <2>3 DEF ClearUpTo
<1> QED BY <1>2, <1>3

LEMMA StartupInvStep == StartupInv /\ [StartupNext]_startupVars => StartupInv'
<1> SUFFICES ASSUME StartupInv, [StartupNext]_startupVars
             PROVE  StartupInv'
  OBVIOUS
<1>1. CASE copy_text
  <2> USE StartupConstants, <1>1 DEF StartupInv, copy_text
  <2>1. CASE r0 + BLOCK < DATA_END
    BY <2>1
  <2>2. CASE ~(r0 + BLOCK < DATA_END)
    BY <2>2 DEF ImageUpTo
  <2> QED BY <2>1, <2>2
<1>2. CASE verify_copy
  BY <1>2, VerifyStep
<1>3. CASE setup_stacks
  BY <1>3, StartupConstants DEF setup_stacks, StartupInv, ImageUpTo, ClearUpTo
<1>4. CASE clbss
  BY <1>4, ClearStep
<1>5. CASE UNCHANGED startupVars
  BY <1>5 DEF startupVars, StartupInv, ImageUpTo, ClearUpTo
<1> QED BY <1>1, <1>2, <1>3, <1>4, <1>5 DEF StartupNext

(* start.S goes on to main() only with the whole image in memory, and with *)
(* all of .bss zero where memory works.                                    *)
THEOREM MainLoaded == StartupSpec => []MainIsLoaded
<1>1. StartupInv => MainIsLoaded
  BY DEF StartupInv, MainIsLoaded, ImageUpTo, ClearUpTo
<1> QED BY <1>1, StartupInvInit, StartupInvStep, PTL DEF StartupSpec

-----------------------------------------------------------------------------
(* Interrupts.                                                              *)

TimerIrqs == {TIMERC_IRQ2, TIMERC_IRQ3}
Regs == SUBSET {1, 2, 3}
Psr == [irq : BOOLEAN, flags : {"program", "handler"}]
ProgramPsr == [irq |-> TRUE, flags |-> "program"]
IsrSteps == {"fttmr010_t2_isr", "fttmr010_t3_isr", "clear", "callback", "restore"}
Frame == [psr : Psr, pc : {"do_irq", "scan", "msr", "ldm"} \cup IsrSteps,
          is : SUBSET TimerIrqs, irq : {0} \cup Timers, cr : Regs]

IrqTypeOK ==
    /\ \A t \in Timers : IRQ_HANDLER[Irq(t)].m_func = Isr(t)
    /\ intc \in [enable : SUBSET TimerIrqs, latched : SUBSET TimerIrqs,
                 edge : {TimerIrqs}, low : {{}}]
    /\ tmr \in [cr : Regs, interrupt_mask : Regs, interrupt_state : Regs]
    /\ timer_handler \subseteq Timers /\ owed \subseteq Timers /\ asked \subseteq Timers
    /\ cpsr \in Psr /\ spsr \in Psr
    /\ frames \in Seq(Frame)
    /\ prog \in [pc : {"app", "unmask", "mask", "enable", "disable", "set", "reset"},
                 t : {0} \cup Timers, reg : Regs]
    /\ prog.pc # "app" => prog.t \in Timers
    /\ halted \in BOOLEAN /\ nested \in BOOLEAN

(* An interrupt is taken only above the program or above a frame that is   *)
(* being popped, and such a frame has nothing left to serve.               *)
Popping == {"msr", "ldm"}

StackInv ==
    /\ \A k \in 1 .. Len(frames) :
          /\ frames[k].pc \in Popping \cup {"do_irq"} => frames[k].is = {}
          /\ frames[k].pc \in {"clear", "callback"} => frames[k].irq \in Timers
          /\ k < Len(frames) => frames[k].pc \in Popping
    /\ cpsr.irq => frames = <<>> \/ Top.pc \in Popping

(* The control register, or what a handler will put back into it.          *)
Restoring == frames # <<>> /\ Top.pc \in {"clear", "callback", "restore"}

EnableInv ==
    /\ tmr.cr \cap Timers \subseteq asked
    /\ Restoring => Top.cr \cap Timers = asked
    /\ ~Restoring => tmr.cr \cap Timers = asked
    /\ prog.pc \in {"set", "reset"} => prog.reg \cap Timers = asked

(* A timer that the program sets going has a callback or is masked.        *)
MaskInv ==
    /\ asked \subseteq timer_handler \cup tmr.interrupt_mask
    /\ prog.pc = "unmask" => prog.t \in timer_handler
    /\ prog.pc \in {"unmask", "mask"} => prog.reg = tmr.interrupt_mask
    /\ prog.pc \in {"enable", "set"} => prog.t \in timer_handler \cup tmr.interrupt_mask

TickKept ==
    /\ owed \subseteq timer_handler
    /\ \A t \in owed : Irq(t) \in intc.latched \/ Serving(t)

(* Until an interrupt comes between msr and ldmia, spsr is of the frame    *)
(* that is popped, and the lowest frame has the program's status.          *)
NeedsIrq(t) ==
    /\ t \notin tmr.interrupt_mask
    /\ t \in asked \cap timer_handler \/ (t = prog.t /\ prog.pc \in {"enable", "set"})

PsrInv ==
    ~nested =>
        /\ \A k \in 1 .. Len(frames) : k < Len(frames) => frames[k].pc = "msr"
        /\ frames # <<>> => frames[1].psr = ProgramPsr
        /\ frames # <<>> /\ Top.pc = "ldm" => spsr = Top.psr
        /\ frames = <<>> /\ ~halted =>
              /\ cpsr.flags = "program"
              /\ (\E t \in Timers : NeedsIrq(t)) => cpsr.irq

IrqInv == IrqTypeOK /\ StackInv /\ EnableInv /\ MaskInv /\ TickKept /\ PsrInv

-----------------------------------------------------------------------------
(* The two lines differ.                                                   *)
LEMMA IrqFacts ==
    /\ Timers = {2, 3} /\ Irq(2) = TIMERC_IRQ2 /\ Irq(3) = TIMERC_IRQ3
    /\ Irq(2) # Irq(3) /\ Irq(2) \in Int /\ Irq(3) \in Int
    /\ Isr(2) = "fttmr010_t2_isr" /\ Isr(3) = "fttmr010_t3_isr"
    /\ TimerIrqs = {Irq(2), Irq(3)}
  BY IrqConstants DEF Timers, Irq, Isr, TimerIrqs

LEMMA IrqInvInit == IrqInit => IrqInv
<1> SUFFICES ASSUME IrqInit PROVE IrqInv
  OBVIOUS
<1>1. intc = [enable |-> TimerIrqs, latched |-> {}, edge |-> TimerIrqs, low |-> {}]
  <2> DEFINE c1 == irq_set_type(interrupt_hw_init, TIMERC_IRQ2, "EDGE_RISING")
             c2 == irq_set_enable(c1, TIMERC_IRQ2)
             c3 == irq_set_type(c2, TIMERC_IRQ3, "EDGE_RISING")
  <2>1. ~(TIMERC_IRQ2 >= NR_IRQS) /\ ~(TIMERC_IRQ3 >= NR_IRQS)
    BY IrqConstants
  <2>2. c1 = [enable |-> {}, latched |-> {}, edge |-> {TIMERC_IRQ2}, low |-> {}]
    BY <2>1 DEF irq_set_type, interrupt_hw_init
  <2>3. intc = irq_set_enable(c3, TIMERC_IRQ3)
    BY DEF IrqInit
  <2> HIDE DEF c1
  <2>4. c2 = [enable |-> {TIMERC_IRQ2}, latched |-> {}, edge |-> {TIMERC_IRQ2}, low |-> {}]
    BY <2>2 DEF irq_set_enable
  <2> HIDE DEF c2
  <2>5. c3 = [enable |-> {TIMERC_IRQ2}, latched |-> {}, edge |-> TimerIrqs, low |-> {}]
    BY <2>1, <2>4 DEF irq_set_type, TimerIrqs
  <2> HIDE DEF c3
  <2> QED BY <2>3, <2>5 DEF irq_set_enable, TimerIrqs
<1>2. \A t \in Timers : IRQ_HANDLER[Irq(t)].m_func = Isr(t)
  <2>1. DEFINE table == irq_install_handler(interrupt_init, TIMERC_IRQ2, Isr(2), 0)
  <2>2. table = [interrupt_init EXCEPT ![TIMERC_IRQ2] = [m_func |-> Isr(2), m_data |-> 0]]
    BY IrqConstants, IrqFacts DEF irq_install_handler
  <2>3. IRQ_HANDLER = [table EXCEPT ![TIMERC_IRQ3] = [m_func |-> Isr(3), m_data |-> 0]]
    BY IrqConstants, IrqFacts DEF IrqInit, irq_install_handler
  <2>4. DOMAIN interrupt_init = Irqs /\ TIMERC_IRQ2 \in Irqs /\ TIMERC_IRQ3 \in Irqs
    BY IrqConstants DEF interrupt_init, Irqs
  <2> HIDE DEF table
  <2>5. /\ IRQ_HANDLER[TIMERC_IRQ2].m_func = Isr(2)
        /\ IRQ_HANDLER[TIMERC_IRQ3].m_func = Isr(3)
    BY <2>2, <2>3, <2>4, IrqConstants
  <2> QED BY <2>5, IrqFacts
<1>3. IrqTypeOK
  <2>1. /\ cpsr \in Psr /\ spsr \in Psr
        /\ tmr \in [cr : Regs, interrupt_mask : Regs, interrupt_state : Regs]
        /\ frames \in Seq(Frame)
    BY DEF IrqInit, Psr, Regs
  <2>2. prog.pc = "app"
        /\ prog \in [pc : {"app", "unmask", "mask", "enable", "disable", "set", "reset"},
                     t : {0} \cup Timers, reg : Regs]
    BY DEF IrqInit, Idle, Regs
  <2>3. intc \in [enable : SUBSET TimerIrqs, latched : SUBSET TimerIrqs,
                   edge : {TimerIrqs}, low : {{}}]
    BY <1>1
  <2>4. /\ timer_handler = {} /\ owed = {} /\ asked = {}
        /\ halted = FALSE /\ nested = FALSE
    BY DEF IrqInit
  <2> QED BY <1>2, <2>1, <2>2, <2>3, <2>4 DEF IrqTypeOK
<1> QED BY <1>3 DEF IrqInit, Idle, IrqInv, StackInv, EnableInv, MaskInv, TickKept, PsrInv,
         NeedsIrq, Restoring, Timers

-----------------------------------------------------------------------------
(* A step of a handler changes the frame on top of the stack.              *)
Serves(f, t) == \/ Irq(t) \in f.is
                \/ f.pc = Isr(t)
                \/ f.pc \in {"clear", "callback"} /\ f.irq = t

LEMMA TopIsFrame ==
    ASSUME IrqTypeOK, frames # <<>>
    PROVE  Top \in Frame /\ Len(frames) \in Nat \ {0} /\ Top = frames[Len(frames)]
<1>1. Len(frames) \in Nat \ {0}
  BY DEF IrqTypeOK
<1> QED BY <1>1 DEF IrqTypeOK, Top

LEMMA TopChanged ==
    ASSUME IrqTypeOK, frames # <<>>, NEW f \in Frame, SetTop(f)
    PROVE  /\ frames' \in Seq(Frame) /\ frames' # <<>>
           /\ Len(frames') = Len(frames) /\ Top' = f
           /\ frames'[Len(frames)] = f
           /\ \A k \in 1 .. Len(frames) : k < Len(frames) => frames'[k] = frames[k]
<1>1. Len(frames) \in Nat \ {0} /\ frames \in Seq(Frame)
  BY TopIsFrame DEF IrqTypeOK
<1>2. frames' = [frames EXCEPT ![Len(frames)] = f]
  BY DEF SetTop
<1>3. frames' \in Seq(Frame) /\ Len(frames') = Len(frames)
  BY <1>1, <1>2
<1>4. frames'[Len(frames)] = f
  BY <1>1, <1>2
<1>5. \A k \in 1 .. Len(frames) : k < Len(frames) => frames'[k] = frames[k]
  BY <1>1, <1>2
<1> QED BY <1>1, <1>3, <1>4, <1>5 DEF Top

LEMMA ServingKept ==
    ASSUME IrqTypeOK, frames # <<>>, NEW f \in Frame, SetTop(f),
           NEW t \in Timers, Serving(t), Serves(Top, t) => Serves(f, t)
    PROVE  Serving(t)'
<1>1. PICK k \in 1 .. Len(frames) : Serves(frames[k], t)
  BY DEF Serving, Serves
<1>2. \E j \in 1 .. Len(frames') : Serves(frames'[j], t)
  <2>1. CASE k = Len(frames)
    BY <1>1, <2>1, TopChanged, TopIsFrame
  <2>2. CASE k # Len(frames)
    <3>1. k < Len(frames) /\ k \in 1 .. Len(frames')
      BY <2>2, TopIsFrame, TopChanged
    <3> QED BY <1>1, <3>1, TopChanged
  <2> QED BY <2>1, <2>2
<1> QED BY <1>2 DEF Serving, Serves

LEMMA HandlerStep ==
    ASSUME IrqInv, frames # <<>>, NEW f \in Frame, SetTop(f),
           UNCHANGED <<halted, nested, prog>>,
           f.psr = Top.psr,
           f.pc \in Popping \cup {"do_irq"} => f.is = {},
           f.pc \in {"clear", "callback"} => f.irq \in Timers,
           cpsr'.irq => f.pc \in Popping,
           f.pc = "ldm" => spsr' = f.psr
    PROVE  StackInv' /\ PsrInv'
<1>1. /\ frames' \in Seq(Frame) /\ frames' # <<>> /\ frames'[Len(frames)] = f
      /\ Len(frames') = Len(frames) /\ Top' = f /\ Len(frames) \in Nat \ {0}
      /\ \A k \in 1 .. Len(frames) : k < Len(frames) => frames'[k] = frames[k]
  BY TopChanged, TopIsFrame DEF IrqInv
<1>2. ASSUME NEW k \in 1 .. Len(frames')
      PROVE  /\ frames'[k].pc \in Popping \cup {"do_irq"} => frames'[k].is = {}
             /\ frames'[k].pc \in {"clear", "callback"} => frames'[k].irq \in Timers
             /\ k < Len(frames') => frames'[k].pc \in Popping
             /\ k < Len(frames') /\ ~nested => frames'[k].pc = "msr"
  <2>1. CASE k = Len(frames)
    BY <1>1, <2>1
  <2>2. CASE k # Len(frames)
    <3>1. k < Len(frames) /\ k \in 1 .. Len(frames) /\ frames'[k] = frames[k]
      BY <1>1, <2>2
    <3> QED BY <1>1, <3>1 DEF IrqInv, StackInv, PsrInv
  <2> QED BY <2>1, <2>2
<1>3. ~nested => frames'[1].psr = ProgramPsr
  <2>1. CASE Len(frames) = 1
    BY <1>1, <2>1, TopIsFrame DEF IrqInv, PsrInv
  <2>2. CASE Len(frames) # 1
    BY <1>1, <2>2 DEF IrqInv, PsrInv
  <2> QED BY <2>1, <2>2
<1>4. StackInv'
  BY <1>1, <1>2 DEF StackInv
<1>5. PsrInv'
  BY <1>1, <1>2, <1>3 DEF PsrInv
<1> QED BY <1>4, <1>5

-----------------------------------------------------------------------------
(* do_irq() and the handlers, one lemma for each step.                     *)
LEMMA KeepsReadStatus ==
    ASSUME IrqInv, ReadStatus
    PROVE  IrqInv'
<1> DEFINE f == [Top EXCEPT !.pc = "scan", !.is = Status]
<1>1. /\ Top \in Frame /\ frames # <<>> /\ Top.pc = "do_irq" /\ Top.is = {} /\ ~cpsr.irq
      /\ SetTop(f)
  BY TopIsFrame DEF ReadStatus, InHandler, IrqInv, StackInv, Popping
<1>2. /\ f \in Frame /\ f.pc = "scan" /\ f.psr = Top.psr
  <2>1. Status \subseteq TimerIrqs
    BY DEF Status, IrqInv, IrqTypeOK
  <2> QED BY <1>1, <2>1 DEF Frame
<1> HIDE DEF f
<1>3. StackInv' /\ PsrInv'
  BY <1>1, <1>2, HandlerStep DEF ReadStatus, Popping
<1>4. frames' \in Seq(Frame) /\ frames' # <<>> /\ Top' = f
  BY <1>1, <1>2, TopChanged DEF IrqInv
<1>5. IrqTypeOK'
  BY <1>4 DEF ReadStatus, deviceVars, IrqInv, IrqTypeOK
<1>6. EnableInv' /\ MaskInv'
  BY <1>1, <1>2, <1>4 DEF ReadStatus, deviceVars, IrqInv, EnableInv, MaskInv, Restoring
<1>7. TickKept'
  <2>1. \A t \in Timers : ~Serves(Top, t)
    BY <1>1, IrqFacts DEF Serves
  <2> QED BY <1>1, <1>2, <2>1, ServingKept
          DEF ReadStatus, deviceVars, IrqInv, IrqTypeOK, TickKept
<1> QED BY <1>3, <1>5, <1>6, <1>7 DEF IrqInv

LEMMA KeepsCallHandler ==
    ASSUME IrqInv, CallHandler
    PROVE  IrqInv'
<1> DEFINE i == LowestIrq(Top.is)
           f == [Top EXCEPT !.is = @ \ {i},
                            !.pc = IF IRQ_HANDLER[i].m_func = "default_isr"
                                   THEN "scan" ELSE IRQ_HANDLER[i].m_func]
<1>1. /\ Top \in Frame /\ frames # <<>> /\ Top.pc = "scan" /\ Top.is # {} /\ ~cpsr.irq
      /\ SetTop(f)
  BY TopIsFrame DEF CallHandler, InHandler, IrqInv, StackInv, Popping
<1>2. i \in TimerIrqs
  <2>1. \E k \in Top.is : \A j \in Top.is : k <= j
    <3>1. Top.is \subseteq {Irq(2), Irq(3)}
      BY <1>1, IrqFacts DEF Frame
    <3> QED BY <1>1, <3>1, IrqFacts
  <2>2. i \in Top.is
    BY <2>1 DEF LowestIrq
  <2> QED BY <1>1, <2>2 DEF Frame
<1> HIDE DEF i
<1>3. \E t \in Timers : i = Irq(t) /\ IRQ_HANDLER[i].m_func = Isr(t)
  BY <1>2, IrqFacts DEF IrqInv, IrqTypeOK
<1>4. /\ f = [Top EXCEPT !.is = @ \ {i}, !.pc = IRQ_HANDLER[i].m_func]
      /\ f \in Frame /\ f.pc \in {Isr(2), Isr(3)} /\ f.psr = Top.psr
      /\ f.pc = IRQ_HANDLER[i].m_func /\ f.is = Top.is \ {i}
  BY <1>1, <1>3, IrqFacts DEF Frame, IsrSteps
<1> HIDE DEF f
<1>5. StackInv' /\ PsrInv'
  BY <1>1, <1>4, HandlerStep, IrqFacts DEF CallHandler, Popping
<1>6. frames' \in Seq(Frame) /\ frames' # <<>> /\ Top' = f
  BY <1>1, <1>4, TopChanged DEF IrqInv
<1>7. IrqTypeOK'
  BY <1>6 DEF CallHandler, deviceVars, IrqInv, IrqTypeOK
<1>8. EnableInv' /\ MaskInv'
  BY <1>1, <1>4, <1>6, IrqFacts
     DEF CallHandler, deviceVars, IrqInv, EnableInv, MaskInv, Restoring
<1>9. TickKept'
  <2>1. \A t \in Timers : Serves(Top, t) => Serves(f, t)
    BY <1>1, <1>3, <1>4, IrqFacts DEF Serves
  <2> QED BY <1>1, <1>4, <2>1, ServingKept
          DEF CallHandler, deviceVars, IrqInv, IrqTypeOK, TickKept
<1> QED BY <1>5, <1>7, <1>8, <1>9 DEF IrqInv

LEMMA KeepsIsrStop ==
    ASSUME IrqInv, NEW s \in Timers, IsrStop(s)
    PROVE  IrqInv'
<1> DEFINE f == [Top EXCEPT !.pc = "clear", !.irq = s, !.cr = tmr.cr]
<1>1. /\ Top \in Frame /\ frames # <<>> /\ Top.pc = Isr(s) /\ ~cpsr.irq /\ SetTop(f)
      /\ tmr' = [tmr EXCEPT !.cr = @ \ {s}]
  BY TopIsFrame, IrqFacts DEF IsrStop, InHandler, IrqInv, StackInv, Popping
<1>2. /\ f \in Frame /\ f.pc = "clear" /\ f.psr = Top.psr /\ f.is = Top.is
      /\ f.irq = s /\ f.cr = tmr.cr
  BY <1>1 DEF Frame, IsrSteps, IrqInv, IrqTypeOK
<1> HIDE DEF f
<1>3. StackInv' /\ PsrInv'
  BY <1>1, <1>2, HandlerStep DEF IsrStop, Popping
<1>4. frames' \in Seq(Frame) /\ frames' # <<>> /\ Top' = f
  BY <1>1, <1>2, TopChanged DEF IrqInv
<1>5. /\ tmr'.cr = tmr.cr \ {s} /\ tmr'.interrupt_mask = tmr.interrupt_mask
      /\ tmr' \in [cr : Regs, interrupt_mask : Regs, interrupt_state : Regs]
  BY <1>1 DEF IrqInv, IrqTypeOK, Regs
<1>6. IrqTypeOK'
  BY <1>4, <1>5 DEF IsrStop, IrqInv, IrqTypeOK
<1>7. EnableInv' /\ MaskInv'
  <2>1. tmr.cr \cap Timers = asked
    BY <1>1, IrqFacts DEF IrqInv, EnableInv, Restoring
  <2> QED BY <1>1, <1>2, <1>4, <1>5, <2>1
          DEF IsrStop, IrqInv, EnableInv, MaskInv, Restoring
<1>8. TickKept'
  <2>1. \A t \in Timers : Serves(Top, t) => Serves(f, t)
    BY <1>1, <1>2, IrqFacts DEF Serves
  <2> QED BY <1>1, <1>2, <2>1, ServingKept DEF IsrStop, IrqInv, IrqTypeOK, TickKept
<1> QED BY <1>3, <1>6, <1>7, <1>8 DEF IrqInv

LEMMA KeepsIsrClear ==
    ASSUME IrqInv, IsrClear
    PROVE  IrqInv'
<1> DEFINE f == [Top EXCEPT !.pc = "callback"]
<1>1. /\ Top \in Frame /\ frames # <<>> /\ Top.pc = "clear" /\ ~cpsr.irq /\ SetTop(f)
      /\ tmr' = [tmr EXCEPT !.interrupt_state = @ \ {Top.irq}]
      /\ intc' = [intc EXCEPT !.latched = @ \ {Irq(Top.irq)}]
      /\ Top.irq \in Timers
  BY TopIsFrame DEF IsrClear, InHandler, IrqInv, StackInv, Popping, irq_edge_clear
<1>2. /\ f \in Frame /\ f.pc = "callback" /\ f.psr = Top.psr /\ f.is = Top.is
      /\ f.irq = Top.irq /\ f.cr = Top.cr
  BY <1>1 DEF Frame, IsrSteps
<1> HIDE DEF f
<1>3. StackInv' /\ PsrInv'
  BY <1>1, <1>2, HandlerStep DEF IsrClear, Popping
<1>4. frames' \in Seq(Frame) /\ frames' # <<>> /\ Top' = f
  BY <1>1, <1>2, TopChanged DEF IrqInv
<1>5. /\ tmr'.cr = tmr.cr /\ tmr'.interrupt_mask = tmr.interrupt_mask
      /\ tmr' \in [cr : Regs, interrupt_mask : Regs, interrupt_state : Regs]
  BY <1>1 DEF IrqInv, IrqTypeOK, Regs
<1>6. /\ intc'.latched = intc.latched \ {Irq(Top.irq)}
      /\ intc' \in [enable : SUBSET TimerIrqs, latched : SUBSET TimerIrqs,
                    edge : {TimerIrqs}, low : {{}}]
  BY <1>1 DEF IrqInv, IrqTypeOK
<1>7. IrqTypeOK'
  BY <1>4, <1>5, <1>6 DEF IsrClear, IrqInv, IrqTypeOK
<1>8. EnableInv' /\ MaskInv'
  BY <1>1, <1>2, <1>4, <1>5 DEF IsrClear, IrqInv, EnableInv, MaskInv, Restoring
<1>9. TickKept'
  <2>1. ASSUME NEW t \in owed
        PROVE  Irq(t) \in intc'.latched \/ Serving(t)'
    <3>1. t \in Timers
      BY DEF IrqInv, IrqTypeOK
    <3>2. Serves(Top, t) => Serves(f, t)
      BY <1>1, <1>2, <3>1, IrqFacts DEF Serves
    <3>3. CASE t = Top.irq
      <4>1. Serves(f, t)
        BY <1>2, <3>3 DEF Serves
      <4>2. Len(frames') \in 1 .. Len(frames') /\ frames'[Len(frames')] = f
        BY <1>1, <1>2, TopChanged, TopIsFrame DEF IrqInv
      <4> QED BY <4>1, <4>2 DEF Serving, Serves
    <3>4. CASE t # Top.irq
      <4>1. Irq(t) # Irq(Top.irq)
        BY <1>1, <3>1, <3>4, IrqFacts
      <4>2. CASE Irq(t) \in intc.latched
        BY <1>6, <4>1, <4>2
      <4>3. CASE Serving(t)
        BY <1>1, <1>2, <3>1, <3>2, <4>3, ServingKept DEF IrqInv
      <4> QED BY <4>2, <4>3 DEF IrqInv, TickKept
    <3> QED BY <3>3, <3>4
  <2> QED BY <2>1 DEF IsrClear, IrqInv, TickKept
<1> QED BY <1>3, <1>7, <1>8, <1>9 DEF IrqInv

(* Were the callback to stop its timer, IsrRestore would start it again.   *)
LEMMA KeepsIsrCallback ==
    ASSUME IrqInv, IsrCallback, CallbackStops = {}
    PROVE  IrqInv'
<1> DEFINE f == [Top EXCEPT !.pc = "restore"]
<1>1. /\ Top \in Frame /\ frames # <<>> /\ Top.pc = "callback" /\ ~cpsr.irq /\ SetTop(f)
      /\ tmr' = tmr /\ asked' = asked /\ Top.irq \in Timers
      /\ owed' = IF Top.irq \in timer_handler THEN owed \ {Top.irq} ELSE owed
  BY TopIsFrame DEF IsrCallback, InHandler, IrqInv, StackInv, Popping
<1>2. /\ f \in Frame /\ f.pc = "restore" /\ f.psr = Top.psr /\ f.is = Top.is
      /\ f.irq = Top.irq /\ f.cr = Top.cr
  BY <1>1 DEF Frame, IsrSteps
<1> HIDE DEF f
<1>3. StackInv' /\ PsrInv'
  BY <1>1, <1>2, HandlerStep DEF IsrCallback, Popping
<1>4. frames' \in Seq(Frame) /\ frames' # <<>> /\ Top' = f
  BY <1>1, <1>2, TopChanged DEF IrqInv
<1>5. IrqTypeOK'
  BY <1>1, <1>4 DEF IsrCallback, IrqInv, IrqTypeOK
<1>6. EnableInv' /\ MaskInv'
  BY <1>1, <1>2, <1>4 DEF IsrCallback, IrqInv, EnableInv, MaskInv, Restoring
<1>7. TickKept'
  <2>1. \A t \in owed' : t \in owed /\ t \in Timers /\ t # Top.irq
    BY <1>1 DEF IrqInv, IrqTypeOK, TickKept
  <2>2. \A t \in owed' : Serves(Top, t) => Serves(f, t)
    BY <1>1, <1>2, <2>1, IrqFacts DEF Serves
  <2> QED BY <1>1, <1>2, <2>1, <2>2, ServingKept DEF IsrCallback, IrqInv, TickKept
<1> QED BY <1>3, <1>5, <1>6, <1>7 DEF IrqInv

LEMMA KeepsIsrRestore ==
    ASSUME IrqInv, IsrRestore
    PROVE  IrqInv'
<1> DEFINE f == [Top EXCEPT !.pc = "scan", !.irq = 0, !.cr = {}]
<1>1. /\ Top \in Frame /\ frames # <<>> /\ Top.pc = "restore" /\ ~cpsr.irq /\ SetTop(f)
      /\ tmr' = [tmr EXCEPT !.cr = Top.cr]
  BY TopIsFrame DEF IsrRestore, InHandler, IrqInv, StackInv, Popping
<1>2. f \in Frame /\ f.pc = "scan" /\ f.psr = Top.psr /\ f.is = Top.is
  BY <1>1 DEF Frame, Regs
<1> HIDE DEF f
<1>3. StackInv' /\ PsrInv'
  BY <1>1, <1>2, HandlerStep DEF IsrRestore, Popping
<1>4. frames' \in Seq(Frame) /\ frames' # <<>> /\ Top' = f
  BY <1>1, <1>2, TopChanged DEF IrqInv
<1>5. /\ tmr'.cr = Top.cr /\ tmr'.interrupt_mask = tmr.interrupt_mask
      /\ tmr' \in [cr : Regs, interrupt_mask : Regs, interrupt_state : Regs]
  BY <1>1 DEF IrqInv, IrqTypeOK, Frame
<1>6. IrqTypeOK'
  BY <1>4, <1>5 DEF IsrRestore, IrqInv, IrqTypeOK
<1>7. EnableInv' /\ MaskInv'
  BY <1>1, <1>2, <1>4, <1>5 DEF IsrRestore, IrqInv, EnableInv, MaskInv, Restoring
<1>8. TickKept'
  <2>1. \A t \in Timers : Serves(Top, t) => Serves(f, t)
    BY <1>1, <1>2, IrqFacts DEF Serves
  <2> QED BY <1>1, <1>2, <2>1, ServingKept DEF IsrRestore, IrqInv, IrqTypeOK, TickKept
<1> QED BY <1>3, <1>6, <1>7, <1>8 DEF IrqInv

LEMMA KeepsDoIrqDone ==
    ASSUME IrqInv, DoIrqDone
    PROVE  IrqInv'
<1> DEFINE f == [Top EXCEPT !.pc = "msr"]
<1>1. /\ Top \in Frame /\ frames # <<>> /\ Top.pc = "scan" /\ Top.is = {} /\ SetTop(f)
      /\ cpsr' = [cpsr EXCEPT !.irq = TRUE]
  BY TopIsFrame DEF DoIrqDone, InHandler, IrqInv
<1>2. f \in Frame /\ f.pc = "msr" /\ f.psr = Top.psr /\ f.is = {}
  BY <1>1 DEF Frame
<1> HIDE DEF f
<1>3. StackInv' /\ PsrInv'
  BY <1>1, <1>2, HandlerStep DEF DoIrqDone, Popping
<1>4. frames' \in Seq(Frame) /\ frames' # <<>> /\ Top' = f /\ cpsr' \in Psr
  BY <1>1, <1>2, TopChanged DEF IrqInv, IrqTypeOK, Psr
<1>5. IrqTypeOK'
  BY <1>4 DEF DoIrqDone, deviceVars, IrqInv, IrqTypeOK
<1>6. EnableInv' /\ MaskInv'
  BY <1>1, <1>2, <1>4 DEF DoIrqDone, deviceVars, IrqInv, EnableInv, MaskInv, Restoring
<1>7. TickKept'
  <2>1. \A t \in Timers : ~Serves(Top, t)
    BY <1>1, IrqFacts DEF Serves
  <2> QED BY <1>1, <1>2, <2>1, ServingKept
          DEF DoIrqDone, deviceVars, IrqInv, IrqTypeOK, TickKept
<1> QED BY <1>3, <1>5, <1>6, <1>7 DEF IrqInv

LEMMA KeepsRestoreSpsr ==
    ASSUME IrqInv, RestoreSpsr
    PROVE  IrqInv'
<1> DEFINE f == [Top EXCEPT !.pc = "ldm"]
<1>1. /\ Top \in Frame /\ frames # <<>> /\ Top.pc = "msr" /\ Top.is = {} /\ SetTop(f)
      /\ spsr' = Top.psr /\ spsr' \in Psr
  BY TopIsFrame DEF RestoreSpsr, InHandler, IrqInv, StackInv, Popping, Frame
<1>2. f \in Frame /\ f.pc = "ldm" /\ f.psr = Top.psr /\ f.is = {}
  BY <1>1 DEF Frame
<1> HIDE DEF f
<1>3. StackInv' /\ PsrInv'
  BY <1>1, <1>2, HandlerStep DEF RestoreSpsr, Popping
<1>4. frames' \in Seq(Frame) /\ frames' # <<>> /\ Top' = f
  BY <1>1, <1>2, TopChanged DEF IrqInv
<1>5. IrqTypeOK'
  BY <1>1, <1>4 DEF RestoreSpsr, deviceVars, IrqInv, IrqTypeOK
<1>6. EnableInv' /\ MaskInv'
  BY <1>1, <1>2, <1>4 DEF RestoreSpsr, deviceVars, IrqInv, EnableInv, MaskInv, Restoring
<1>7. TickKept'
  <2>1. \A t \in Timers : ~Serves(Top, t)
    BY <1>1, IrqFacts DEF Serves
  <2> QED BY <1>1, <1>2, <2>1, ServingKept
          DEF RestoreSpsr, deviceVars, IrqInv, IrqTypeOK, TickKept
<1> QED BY <1>3, <1>5, <1>6, <1>7 DEF IrqInv

(* A frame is popped: what lies below it was about to be popped itself.    *)
LEMMA KeepsRestoreRegs ==
    ASSUME IrqInv, RestoreRegs
    PROVE  IrqInv'
<1>1. /\ Top \in Frame /\ frames # <<>> /\ Top.pc = "ldm" /\ Top.is = {}
      /\ Len(frames) \in Nat \ {0} /\ Top = frames[Len(frames)] /\ cpsr' = spsr
      /\ frames \in Seq(Frame) /\ frames' = SubSeq(frames, 1, Len(frames) - 1)
  BY TopIsFrame DEF RestoreRegs, InHandler, IrqInv, IrqTypeOK, StackInv, Popping
<1>2. /\ frames' \in Seq(Frame) /\ Len(frames') = Len(frames) - 1
      /\ \A k \in 1 .. Len(frames') : frames'[k] = frames[k] /\ k < Len(frames)
                                      /\ k \in 1 .. Len(frames)
  <2>1. \A k \in 1 .. (Len(frames) - 1) : frames[k] \in Frame
    BY <1>1
  <2>2. /\ frames' \in Seq(Frame)
        /\ Len(frames') = IF 1 <= Len(frames) - 1 THEN Len(frames) - 1 - 1 + 1 ELSE 0
        /\ \A k \in 1 .. (Len(frames) - 1 - 1 + 1) : frames'[k] = frames[1 + k - 1]
    BY <1>1, <2>1, SubSeqProperties
  <2>3. Len(frames) \in Nat \ {0}
    BY <1>1
  <2>4. Len(frames') = Len(frames) - 1
    <3> DEFINE n == Len(frames)
               m == Len(frames')
    <3>1. m = IF 1 <= n - 1 THEN n - 1 - 1 + 1 ELSE 0
      BY <2>2
    <3>2. n \in Nat \ {0}
      BY <2>3
    <3> HIDE DEF n, m
    <3>3. m = n - 1
      BY <3>1, <3>2
    <3> QED BY <3>3 DEF n, m
  <2> QED BY <2>2, <2>3, <2>4
<1>3. frames' = <<>> <=> Len(frames) = 1
  <2>1. Len(frames) \in Nat \ {0}
    BY <1>1
  <2> QED BY <1>2, <2>1, EmptySeq
<1>4. frames' # <<>> => /\ Len(frames') \in 1 .. Len(frames')
                        /\ Top' = frames[Len(frames')] /\ Top'.pc \in Popping
                        /\ ~nested => Top'.pc = "msr"
  <2> SUFFICES ASSUME frames' # <<>>
               PROVE  /\ Len(frames') \in 1 .. Len(frames')
                      /\ Top' = frames[Len(frames')] /\ Top'.pc \in Popping
                      /\ ~nested => Top'.pc = "msr"
    OBVIOUS
  <2>1. Len(frames') \in 1 .. Len(frames')
    BY <1>1, <1>2, <1>3
  <2>2. Top' = frames[Len(frames')]
    BY <1>2, <2>1 DEF Top
  <2> QED BY <1>2, <2>1, <2>2 DEF IrqInv, StackInv, PsrInv
<1>5. IrqTypeOK'
  BY <1>1, <1>2 DEF RestoreRegs, deviceVars, IrqInv, IrqTypeOK
<1>6. StackInv'
  <2>1. \A k \in 1 .. Len(frames') :
           /\ frames'[k].pc \in Popping \cup {"do_irq"} => frames'[k].is = {}
           /\ frames'[k].pc \in {"clear", "callback"} => frames'[k].irq \in Timers
           /\ k < Len(frames') => frames'[k].pc \in Popping
    BY <1>2 DEF IrqInv, StackInv
  <2> QED BY <1>4, <2>1 DEF StackInv
<1>7. EnableInv' /\ MaskInv'
  BY <1>1, <1>4 DEF RestoreRegs, deviceVars, IrqInv, EnableInv, MaskInv, Restoring, Popping
<1>8. TickKept'
  <2>1. ASSUME NEW t \in Timers, Serving(t)
        PROVE  Serving(t)'
    <3>1. PICK k \in 1 .. Len(frames) : Serves(frames[k], t)
      BY <2>1 DEF Serving, Serves
    <3>2. k # Len(frames)
      BY <1>1, <3>1, IrqFacts DEF Serves
    <3>3. k \in 1 .. Len(frames') /\ frames'[k] = frames[k]
      BY <1>1, <1>2, <3>2
    <3> QED BY <3>1, <3>3 DEF Serving, Serves
  <2> QED BY <2>1 DEF RestoreRegs, deviceVars, IrqInv, IrqTypeOK, TickKept
<1>9. PsrInv'
  <2> SUFFICES ASSUME ~nested PROVE PsrInv'
    BY DEF RestoreRegs, PsrInv
  <2>1. \A k \in 1 .. Len(frames') : k < Len(frames') => frames'[k].pc = "msr"
    BY <1>2 DEF IrqInv, PsrInv
  <2>2. frames' # <<>> => frames'[1].psr = ProgramPsr
    BY <1>1, <1>2, <1>4 DEF IrqInv, PsrInv
  <2>3. frames' = <<>> => cpsr' = ProgramPsr
    BY <1>1, <1>3 DEF IrqInv, PsrInv
  <2> QED BY <1>4, <2>1, <2>2, <2>3 DEF PsrInv, ProgramPsr
<1> QED BY <1>5, <1>6, <1>7, <1>8, <1>9 DEF IrqInv

(* An interrupt is taken: a frame is pushed.                               *)
LEMMA KeepsIrq ==
    ASSUME IrqInv, irq
    PROVE  IrqInv'
<1> DEFINE f == [psr |-> cpsr, pc |-> "do_irq", is |-> {}, irq |-> 0, cr |-> {}]
<1>1. /\ frames \in Seq(Frame) /\ frames' = Append(frames, f) /\ cpsr.irq /\ cpsr \in Psr
      /\ frames # <<>> => Top.pc \in Popping
  BY DEF irq, SavedPsr, IrqInv, IrqTypeOK, StackInv
<1>2. f \in Frame /\ f.pc = "do_irq" /\ f.is = {} /\ f.psr = cpsr
  BY <1>1 DEF Frame, Regs
<1> HIDE DEF f
<1>3. /\ frames' \in Seq(Frame) /\ Len(frames') = Len(frames) + 1 /\ frames' # <<>>
      /\ Len(frames) \in Nat /\ frames'[Len(frames')] = f /\ Top' = f
      /\ \A k \in 1 .. Len(frames') : k # Len(frames') =>
                                        k \in 1 .. Len(frames) /\ frames'[k] = frames[k]
  BY <1>1, <1>2 DEF Top
<1>4. \A k \in 1 .. Len(frames) : frames[k].pc \in Popping /\ (k < Len(frames) \/ frames[k] = Top)
  <2>1. ASSUME NEW k \in 1 .. Len(frames)
        PROVE  frames[k].pc \in Popping /\ (k < Len(frames) \/ frames[k] = Top)
    <3>1. frames # <<>> /\ (k < Len(frames) \/ k = Len(frames))
      BY <1>3
    <3> QED BY <1>1, <3>1 DEF IrqInv, StackInv, Top
  <2> QED BY <2>1
<1>5. /\ IRQ_HANDLER' = IRQ_HANDLER /\ intc' = intc /\ tmr' = tmr
      /\ timer_handler' = timer_handler /\ spsr' = spsr /\ halted' = halted
      /\ prog' = prog /\ owed' = owed /\ asked' = asked /\ halted = FALSE
      /\ cpsr' = [irq |-> FALSE, flags |-> "handler"] /\ cpsr' \in Psr
  BY DEF irq, deviceVars, Psr, IrqInv, IrqTypeOK
<1>6. nested' = (nested \/ (frames # <<>> /\ Top.pc = "ldm"))
  BY DEF irq
<1>7. IrqTypeOK'
  BY <1>3, <1>5, <1>6 DEF IrqInv, IrqTypeOK
<1>8. StackInv'
  <2>1. ASSUME NEW k \in 1 .. Len(frames')
        PROVE  /\ frames'[k].pc \in Popping \cup {"do_irq"} => frames'[k].is = {}
               /\ frames'[k].pc \in {"clear", "callback"} => frames'[k].irq \in Timers
               /\ k < Len(frames') => frames'[k].pc \in Popping
    BY <1>2, <1>3, <1>4 DEF IrqInv, StackInv
  <2> QED BY <1>5, <2>1 DEF StackInv
<1>9. EnableInv' /\ MaskInv'
  BY <1>1, <1>2, <1>3, <1>5 DEF IrqInv, EnableInv, MaskInv, Restoring, Popping
<1>10. TickKept'
  <2>1. ASSUME NEW t \in Timers, Serving(t)
        PROVE  Serving(t)'
    <3>1. PICK k \in 1 .. Len(frames) : Serves(frames[k], t)
      BY <2>1 DEF Serving, Serves
    <3>2. k \in 1 .. Len(frames') /\ frames'[k] = frames[k]
      BY <1>3
    <3> QED BY <3>1, <3>2 DEF Serving, Serves
  <2> QED BY <1>5, <2>1 DEF IrqInv, IrqTypeOK, TickKept
<1>11. PsrInv'
  <2> SUFFICES ASSUME ~nested' PROVE PsrInv'
    BY DEF PsrInv
  <2>1. ~nested /\ (frames # <<>> => Top.pc = "msr")
    BY <1>1, <1>6 DEF Popping
  <2>2. \A k \in 1 .. Len(frames') : k < Len(frames') => frames'[k].pc = "msr"
    <3>1. \A k \in 1 .. Len(frames) : frames[k].pc = "msr"
      <4>1. ASSUME NEW k \in 1 .. Len(frames) PROVE frames[k].pc = "msr"
        BY <1>3, <1>4, <2>1 DEF IrqInv, PsrInv
      <4> QED BY <4>1
    <3> QED BY <1>3, <3>1
  <2>3. frames'[1].psr = ProgramPsr
    <3>1. CASE frames = <<>>
      <4>1. Len(frames') = 1
        BY <1>3, <3>1
      <4>2. cpsr.flags = "program"
        BY <1>5, <2>1, <3>1 DEF IrqInv, PsrInv
      <4>3. cpsr = ProgramPsr
        BY <1>1, <4>2 DEF Psr, ProgramPsr
      <4> QED BY <1>2, <1>3, <4>1, <4>3
    <3>2. CASE frames # <<>>
      <4>1. 1 \in 1 .. Len(frames') /\ 1 # Len(frames')
        BY <1>1, <1>3, <3>2
      <4> QED BY <1>3, <2>1, <3>2, <4>1 DEF IrqInv, PsrInv
    <3> QED BY <3>1, <3>2
  <2> QED BY <1>2, <1>3, <2>2, <2>3 DEF PsrInv
<1> QED BY <1>7, <1>8, <1>9, <1>10, <1>11 DEF IrqInv

-----------------------------------------------------------------------------
(* The program: it runs while the stack has no frame.                      *)
LEMMA ServingSame ==
    ASSUME frames' = frames, NEW t, Serving(t)
    PROVE  Serving(t)'
  BY DEF Serving

LEMMA KeepsInitTimer ==
    ASSUME IrqInv, NEW s \in Timers, NEW callback \in BOOLEAN, init_timer(s, callback)
    PROVE  IrqInv'
<1>1. /\ prog' = [pc |-> IF callback THEN "unmask" ELSE "mask", t |-> s,
                  reg |-> tmr.interrupt_mask]
      /\ timer_handler' = IF callback THEN timer_handler \cup {s} ELSE timer_handler
      /\ intc' = intc /\ tmr' = tmr /\ IRQ_HANDLER' = IRQ_HANDLER /\ frames' = frames
      /\ cpsr' = cpsr /\ spsr' = spsr /\ halted' = halted /\ nested' = nested
      /\ owed' = owed /\ asked' = asked /\ prog.pc = "app" /\ frames = <<>>
  BY DEF init_timer, Running, cpuVars
<1>2. /\ prog' \in [pc : {"app", "unmask", "mask", "enable", "disable", "set", "reset"},
                    t : {0} \cup Timers, reg : Regs]
      /\ prog'.t = s /\ prog'.reg = tmr.interrupt_mask
      /\ prog'.pc = IF callback THEN "unmask" ELSE "mask"
  BY <1>1 DEF IrqInv, IrqTypeOK
<1>3. IrqTypeOK'
  BY <1>1, <1>2 DEF IrqInv, IrqTypeOK
<1>4. StackInv' /\ TickKept'
  BY <1>1, ServingSame DEF IrqInv, StackInv, TickKept, Top
<1>5. EnableInv' /\ MaskInv'
  BY <1>1, <1>2 DEF IrqInv, EnableInv, MaskInv, Restoring
<1>6. PsrInv'
  <2>1. \A t \in Timers : NeedsIrq(t)' => NeedsIrq(t)
    BY <1>1, <1>2 DEF NeedsIrq, IrqInv, MaskInv
  <2> QED BY <1>1, <2>1 DEF IrqInv, PsrInv
<1> QED BY <1>3, <1>4, <1>5, <1>6 DEF IrqInv

LEMMA KeepsInitMask ==
    ASSUME IrqInv, InitMask
    PROVE  IrqInv'
<1>1. /\ tmr' = [tmr EXCEPT !.interrupt_mask = IF prog.pc = "unmask"
                                               THEN prog.reg \ {prog.t}
                                               ELSE prog.reg \cup {prog.t}]
      /\ cpsr' = IF prog.pc = "unmask" THEN [cpsr EXCEPT !.irq = TRUE] ELSE cpsr
      /\ prog' = [prog EXCEPT !.pc = "enable", !.reg = {}]
      /\ intc' = intc /\ timer_handler' = timer_handler /\ IRQ_HANDLER' = IRQ_HANDLER
      /\ frames' = frames /\ spsr' = spsr /\ halted' = halted /\ nested' = nested
      /\ owed' = owed /\ asked' = asked /\ frames = <<>> /\ halted = FALSE
      /\ prog.pc \in {"unmask", "mask"} /\ prog.t \in Timers
      /\ prog.reg = tmr.interrupt_mask /\ prog.reg \in Regs
  BY DEF InitMask, Running, IrqInv, IrqTypeOK, MaskInv
<1>2. /\ prog' \in [pc : {"app", "unmask", "mask", "enable", "disable", "set", "reset"},
                    t : {0} \cup Timers, reg : Regs]
      /\ prog'.t = prog.t /\ prog'.pc = "enable" /\ cpsr' \in Psr
      /\ cpsr'.flags = cpsr.flags /\ cpsr'.irq = (prog.pc = "unmask" \/ cpsr.irq)
  BY <1>1 DEF IrqInv, IrqTypeOK, Psr, Regs
<1>3. /\ tmr'.cr = tmr.cr
      /\ tmr' \in [cr : Regs, interrupt_mask : Regs, interrupt_state : Regs]
      /\ tmr'.interrupt_mask = IF prog.pc = "unmask" THEN tmr.interrupt_mask \ {prog.t}
                               ELSE tmr.interrupt_mask \cup {prog.t}
  BY <1>1 DEF IrqInv, IrqTypeOK, Regs, Timers
<1>4. IrqTypeOK'
  BY <1>1, <1>2, <1>3 DEF IrqInv, IrqTypeOK
<1>5. StackInv' /\ TickKept'
  BY <1>1, ServingSame DEF IrqInv, StackInv, TickKept, Top
<1>6. EnableInv' /\ MaskInv'
  BY <1>1, <1>2, <1>3 DEF IrqInv, EnableInv, MaskInv, Restoring
<1>7. PsrInv'
  <2>1. CASE prog.pc = "unmask"
    BY <1>1, <1>2, <2>1 DEF IrqInv, PsrInv
  <2>2. CASE prog.pc = "mask"
    <3>1. \A t \in Timers : NeedsIrq(t)' => NeedsIrq(t)
      BY <1>1, <1>2, <1>3, <2>2 DEF NeedsIrq
    <3> QED BY <1>1, <2>2, <3>1 DEF IrqInv, PsrInv
  <2> QED BY <1>1, <2>1, <2>2
<1> QED BY <1>4, <1>5, <1>6, <1>7 DEF IrqInv

LEMMA KeepsProgram ==
    ASSUME IrqInv, ReadCr \/ \E t \in Timers : disable_timer(t)
    PROVE  IrqInv'
<1>1. /\ intc' = intc /\ tmr' = tmr /\ IRQ_HANDLER' = IRQ_HANDLER /\ frames' = frames
      /\ timer_handler' = timer_handler
      /\ cpsr' = cpsr /\ spsr' = spsr /\ halted' = halted /\ nested' = nested
      /\ owed' = owed /\ asked' = asked /\ frames = <<>>
  BY DEF ReadCr, disable_timer, Running, deviceVars, cpuVars
<1>2. /\ prog' \in [pc : {"app", "unmask", "mask", "enable", "disable", "set", "reset"},
                    t : {0} \cup Timers, reg : Regs]
      /\ prog'.t \in Timers /\ prog'.pc \in {"disable", "set", "reset"}
      /\ prog'.pc \in {"set", "reset"} => prog'.reg = tmr.cr
      /\ prog'.pc = "set" => prog.pc = "enable" /\ prog'.t = prog.t
  <2>1. CASE ReadCr
    BY <2>1 DEF ReadCr, IrqInv, IrqTypeOK
  <2>2. CASE \E t \in Timers : disable_timer(t)
    BY <2>2 DEF disable_timer, Regs
  <2> QED BY <2>1, <2>2
<1>3. IrqTypeOK'
  BY <1>1, <1>2 DEF IrqInv, IrqTypeOK
<1>4. StackInv' /\ TickKept'
  BY <1>1, ServingSame DEF IrqInv, StackInv, TickKept, Top
<1>5. EnableInv' /\ MaskInv'
  BY <1>1, <1>2 DEF IrqInv, EnableInv, MaskInv, Restoring
<1>6. PsrInv'
  <2>1. \A t \in Timers : NeedsIrq(t)' => NeedsIrq(t)
    BY <1>1, <1>2 DEF NeedsIrq
  <2> QED BY <1>1, <2>1 DEF IrqInv, PsrInv
<1> QED BY <1>3, <1>4, <1>5, <1>6 DEF IrqInv

LEMMA KeepsWriteCr ==
    ASSUME IrqInv, NEW on \in BOOLEAN, WriteCr(on)
    PROVE  IrqInv'
<1>1. /\ tmr' = [tmr EXCEPT !.cr = IF on THEN prog.reg \cup {prog.t}
                                         ELSE prog.reg \ {prog.t}]
      /\ asked' = IF on THEN asked \cup {prog.t} ELSE asked \ {prog.t}
      /\ prog' = Idle /\ intc' = intc /\ timer_handler' = timer_handler
      /\ IRQ_HANDLER' = IRQ_HANDLER /\ frames' = frames /\ cpsr' = cpsr
      /\ spsr' = spsr /\ halted' = halted /\ nested' = nested /\ owed' = owed
      /\ frames = <<>> /\ prog.pc = IF on THEN "set" ELSE "reset"
      /\ prog.t \in Timers /\ prog.reg \cap Timers = asked /\ prog.reg \in Regs
  BY DEF WriteCr, Running, cpuVars, IrqInv, IrqTypeOK, EnableInv
<1>2. /\ tmr'.cr = IF on THEN prog.reg \cup {prog.t} ELSE prog.reg \ {prog.t}
      /\ tmr'.interrupt_mask = tmr.interrupt_mask
      /\ tmr' \in [cr : Regs, interrupt_mask : Regs, interrupt_state : Regs]
      /\ tmr'.cr \cap Timers = asked'
  BY <1>1 DEF IrqInv, IrqTypeOK, Regs, Timers
<1>3. /\ prog' \in [pc : {"app", "unmask", "mask", "enable", "disable", "set", "reset"},
                    t : {0} \cup Timers, reg : Regs]
      /\ prog'.pc = "app"
  BY <1>1 DEF Idle, Regs
<1>4. IrqTypeOK'
  BY <1>1, <1>2, <1>3 DEF IrqInv, IrqTypeOK
<1>5. StackInv' /\ TickKept'
  BY <1>1, ServingSame DEF IrqInv, StackInv, TickKept, Top
<1>6. EnableInv' /\ MaskInv'
  BY <1>1, <1>2, <1>3 DEF IrqInv, EnableInv, MaskInv, Restoring
<1>7. PsrInv'
  <2>1. \A t \in Timers : NeedsIrq(t)' => NeedsIrq(t)
    BY <1>1, <1>2, <1>3 DEF NeedsIrq
  <2> QED BY <1>1, <2>1 DEF IrqInv, PsrInv
<1> QED BY <1>4, <1>5, <1>6, <1>7 DEF IrqInv

LEMMA KeepsSwitchIrq ==
    ASSUME IrqInv, NEW s \in Timers, SwitchIrq(s)
    PROVE  IrqInv'
<1>1. /\ intc' = [intc EXCEPT !.enable = @ \ {Irq(s)}]
         \/ intc' = [intc EXCEPT !.enable = @ \cup {Irq(s)}]
      /\ tmr' = tmr /\ timer_handler' = timer_handler
      /\ IRQ_HANDLER' = IRQ_HANDLER /\ frames' = frames /\ cpsr' = cpsr
      /\ spsr' = spsr /\ halted' = halted /\ nested' = nested /\ owed' = owed
      /\ asked' = asked /\ prog' = prog
  BY DEF SwitchIrq, cpuVars, irq_set_enable, irq_set_disable
<1>2. /\ intc' \in [enable : SUBSET TimerIrqs, latched : SUBSET TimerIrqs,
                    edge : {TimerIrqs}, low : {{}}]
      /\ intc'.latched = intc.latched
  BY <1>1, IrqFacts DEF IrqInv, IrqTypeOK
<1>3. IrqTypeOK'
  BY <1>1, <1>2 DEF IrqInv, IrqTypeOK
<1>4. StackInv' /\ TickKept'
  BY <1>1, <1>2, ServingSame DEF IrqInv, StackInv, TickKept, Top
<1>5. EnableInv' /\ MaskInv' /\ PsrInv'
  BY <1>1 DEF IrqInv, EnableInv, MaskInv, PsrInv, Restoring, NeedsIrq, Top
<1> QED BY <1>3, <1>4, <1>5 DEF IrqInv

-----------------------------------------------------------------------------
(* The timers, and exceptions that never return.                           *)
LEMMA KeepsExpire ==
    ASSUME IrqInv, NEW s \in Timers, Expire(s)
    PROVE  IrqInv'
<1>1. /\ s \in tmr.cr /\ s \notin tmr.interrupt_mask
      /\ tmr' = [tmr EXCEPT !.interrupt_state = @ \cup {s}]
      /\ intc' = [intc EXCEPT !.latched = @ \cup {Irq(s)}]
      /\ owed' = owed \cup {s} /\ timer_handler' = timer_handler
      /\ IRQ_HANDLER' = IRQ_HANDLER /\ frames' = frames /\ cpsr' = cpsr
      /\ spsr' = spsr /\ halted' = halted /\ nested' = nested
      /\ asked' = asked /\ prog' = prog
  BY DEF Expire, cpuVars
<1>2. /\ intc' \in [enable : SUBSET TimerIrqs, latched : SUBSET TimerIrqs,
                    edge : {TimerIrqs}, low : {{}}]
      /\ intc'.latched = intc.latched \cup {Irq(s)}
  BY <1>1, IrqFacts DEF IrqInv, IrqTypeOK
<1>3. /\ tmr'.cr = tmr.cr /\ tmr'.interrupt_mask = tmr.interrupt_mask
      /\ tmr' \in [cr : Regs, interrupt_mask : Regs, interrupt_state : Regs]
  BY <1>1 DEF IrqInv, IrqTypeOK, Regs, Timers
<1>4. IrqTypeOK'
  BY <1>1, <1>2, <1>3 DEF IrqInv, IrqTypeOK
<1>5. TickKept'
  <2>1. s \in timer_handler
    BY <1>1 DEF IrqInv, EnableInv, MaskInv
  <2> QED BY <1>1, <1>2, <2>1, ServingSame DEF IrqInv, TickKept
<1>6. StackInv' /\ EnableInv' /\ MaskInv' /\ PsrInv'
  BY <1>1, <1>3
     DEF IrqInv, StackInv, EnableInv, MaskInv, PsrInv, Restoring, NeedsIrq, Top
<1> QED BY <1>4, <1>5, <1>6 DEF IrqInv

LEMMA KeepsBadMode ==
    ASSUME IrqInv, bad_mode
    PROVE  IrqInv'
<1>1. /\ halted' = TRUE /\ cpsr' = [irq |-> FALSE, flags |-> "handler"]
      /\ cpsr' \in Psr /\ cpsr'.irq = FALSE
      /\ intc' = intc /\ tmr' = tmr /\ timer_handler' = timer_handler
      /\ IRQ_HANDLER' = IRQ_HANDLER /\ frames' = frames /\ spsr' = spsr
      /\ nested' = nested /\ owed' = owed /\ asked' = asked /\ prog' = prog
  BY DEF bad_mode, deviceVars, Psr
<1>2. IrqTypeOK' /\ TickKept'
  BY <1>1, ServingSame DEF IrqInv, IrqTypeOK, TickKept
<1>3. StackInv' /\ EnableInv' /\ MaskInv' /\ PsrInv'
  BY <1>1 DEF IrqInv, StackInv, EnableInv, MaskInv, PsrInv, Restoring, Top
<1> QED BY <1>2, <1>3 DEF IrqInv

LEMMA KeepsStutter ==
    ASSUME IrqInv, UNCHANGED irqVars
    PROVE  IrqInv'
<1>1. /\ intc' = intc /\ tmr' = tmr /\ timer_handler' = timer_handler
      /\ IRQ_HANDLER' = IRQ_HANDLER /\ frames' = frames /\ cpsr' = cpsr
      /\ spsr' = spsr /\ halted' = halted /\ nested' = nested /\ owed' = owed
      /\ asked' = asked /\ prog' = prog
  BY DEF irqVars, deviceVars, cpuVars
<1>2. IrqTypeOK' /\ TickKept'
  BY <1>1, ServingSame DEF IrqInv, IrqTypeOK, TickKept
<1>3. StackInv' /\ EnableInv' /\ MaskInv' /\ PsrInv'
  BY <1>1 DEF IrqInv, StackInv, EnableInv, MaskInv, PsrInv, Restoring, NeedsIrq, Top
<1> QED BY <1>2, <1>3 DEF IrqInv

LEMMA IrqInvStep ==
    ASSUME CallbackStops = {}
    PROVE  IrqInv /\ [IrqNext]_irqVars => IrqInv'
<1> SUFFICES ASSUME IrqInv, [IrqNext]_irqVars PROVE IrqInv'
  OBVIOUS
<1>1. CASE Application
  BY <1>1, KeepsInitTimer, KeepsInitMask, KeepsProgram, KeepsWriteCr, KeepsSwitchIrq
     DEF Application
<1>2. CASE irq
  BY <1>2, KeepsIrq
<1>3. CASE do_irq
  BY <1>3, KeepsReadStatus, KeepsCallHandler, KeepsIsrStop, KeepsIsrClear,
     KeepsIsrCallback, KeepsIsrRestore, KeepsDoIrqDone, KeepsRestoreSpsr,
     KeepsRestoreRegs DEF do_irq
<1>4. CASE bad_mode
  BY <1>4, KeepsBadMode
<1>5. CASE \E t \in Timers : Expire(t)
  BY <1>5, KeepsExpire
<1>6. CASE UNCHANGED irqVars
  BY <1>6, KeepsStutter
<1> QED BY <1>1, <1>2, <1>3, <1>4, <1>5, <1>6 DEF IrqNext

LEMMA IrqInvAlways ==
    ASSUME CallbackStops = {}
    PROVE  IrqSpec => []IrqInv
  BY IrqInvInit, IrqInvStep, PTL DEF IrqSpec

(* An expiry of timer 2 or 3 is latched, or on its way through do_irq() to *)
(* its callback, until the callback has run.                               *)
THEOREM NoTickIsForgotten ==
    ASSUME CallbackStops = {}
    PROVE  IrqSpec => []NoTickForgotten
<1>1. IrqInv => NoTickForgotten
  <2> SUFFICES ASSUME IrqInv, NEW t \in owed
               PROVE  /\ Irq(t) \in intc.latched \cap intc.edge \/ Serving(t)
                      /\ t \in timer_handler
    BY DEF NoTickForgotten
  <2>1. intc.edge = TimerIrqs /\ Irq(t) \in TimerIrqs
    BY IrqFacts DEF IrqInv, IrqTypeOK
  <2> QED BY <2>1 DEF IrqInv, TickKept
<1> QED BY <1>1, IrqInvAlways, PTL

(* init_timer() and disable_timer() read and write a register that the     *)
(* handlers save and restore, and neither undoes the other.                *)
THEOREM ControlRegisterAsAsked ==
    ASSUME CallbackStops = {}
    PROVE  IrqSpec => []EnableAsAsked
<1>1. IrqInv => EnableAsAsked
  BY DEF IrqInv, EnableInv, EnableAsAsked, Restoring
<1> QED BY <1>1, IrqInvAlways, PTL

(* restore_user_regs gives the program its flags and its interrupt enable  *)
(* back, unless an interrupt came between its msr and its ldmia.           *)
THEOREM ProgramResumesAsItWas ==
    ASSUME CallbackStops = {}
    PROVE  IrqSpec => []ProgramResumes
<1>1. IrqInv => ProgramResumes
  BY DEF IrqInv, IrqTypeOK, PsrInv, NeedsIrq, ProgramResumes
<1> QED BY <1>1, IrqInvAlways, PTL
=============================================================================
