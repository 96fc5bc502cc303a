# non-os.lite: TLA+ models, checks and proofs

non-os.lite is a boot environment for Faraday ARM platforms without an operating system. After start-up it
runs a shell; the command that matters most, `tftpboot`, loads an image over the network and jumps to it.
Nothing checks the image afterwards: if the TFTP client says success, the machine runs what is at
`load_addr`. This project models that path from reset to the jump: the loader that copies the program to memory, the
clock, interrupts and DMA under it, the shell and the C library it uses, and the network stack down to the frames on
the wire. It checks them with TLC, and proves with TLAPS the transfer, the network loop from a command to the jump,
the clock and those who wait with it, the interrupts, DMA and the loader, linked lists and the allocator.

The models describe the default build (`PLATFORM=AXI`, no `-O`): no `CONFIG_CMD_TFTPPUT`, `CONFIG_CMD_TFTPSRV`,
`CONFIG_TFTP_TSIZE`, `CONFIG_IP_DEFRAG`, `CONFIG_UDP_CHECKSUM`, `CONFIG_SYS_DIRECT_FLASH_TFTP`,
`CONFIG_CMD_LINK_LOCAL`; the string functions in their word-at-a-time form; `DMA_INT_POLLING`. Where boards differ
(the DMA controller, the units of the clock) each is modelled. `Startup` is about a ROM image; the default, `IMAGE=RAM`, is loaded by
a debugger and begins where the copy ends.

## 1. Inventory

The program is one thread of control and its interrupt handlers. The network code polls: the Ethernet driver
hands frames to `NetReceive()` only from inside `eth_rx()`, and timers are compared with the clock once per
iteration of `NetLoop()`. What makes it hard is not pre-emption but a set of globals that outlive a command, one
transmit buffer shared by every sender, and a medium that loses, duplicates, delays and reorders. Pre-emption matters
below: the handlers of timers 2 and 3 change a register that the program changes too.

| Component | Source | State | Operations | Talks to |
|---|---|---|---|---|
| TFTP client | `net/tftp.c` | `TftpState`, ports, `TftpBlock`, `TftpLastBlock`, wrap offset, block size, retry count; memory at `load_addr` | `TftpStart`, `TftpHandler`, `TftpTimeout`, `TftpSend`, `store_block` | called back by the loop (UDP handler, timer); sends through `NetSendUDPPacket`; ends the loop through `net_set_state` |
| ARP | `net/arp.c` | the waiting packet's IP, size, retry count, timer, where to save the answer | `ArpRequest`, `ArpReceive`, `ArpTimeoutCheck` | transmits `NetTxPacket`, writes `NetServerEther` |
| Network loop | `net/net_core.c` | `net_state`, handlers, `timeStart`/`timeDelta`, `NetTxPacket`, `NetServerEther`, `NetBootFileXferSize` | `NetLoop`, `NetReceive`, `NetSendUDPPacket`, `NetSetTimeout`, `net_cleanup_loop`, headers and checksums | everything above |
| Ping | `net/ping.c` | `NetPingIP`, `PingSeqNo` | `ping_start`, `ping_send`, `ping_receive`, `ping_timeout` | ARP slot and transmit buffer, `net_set_state` |
| Ethernet registration | `net/eth.c`, `net/net_utils.c` | the current device | `eth_register`, `eth_init`, `eth_rx`, `eth_send` | driver (outside the repository) |
| Command line | `lib/cli.c` | line buffer, `argv[]`, command table, `load_addr` | `scan_string`, `strtok`, `cmd_exec`, `do_*` | console, `NetLoop`, the image at `load_addr` |
| Timer | `lib/timer.c`, `drivers/timer/fttmr010.c` | the hardware counter, `tbu`/`tbl` (the tick count and the last reading), callbacks of timers 2 and 3 | `get_ticks`, `get_timer`, `udelay`, `init_timer`, `disable_timer`, the timer interrupts | `NetSetTimeout`, the loop's timeout, ARP; interrupt controller |
| Interrupts | `start.S`, `lib/traps.c`, `drivers/interrupt/ftintc010.c` | handler table, masks, latched edges, CPSR and SPSR, stacked frames | install, enable, `do_irq`, return | timers |
| DMA | `drivers/dma/*` | registers of each channel, status bits of all | program, start, wait, give up, clear | polling programs |
| Start-up | `start.S`, `lib/init.c` | two pointers, memory | copy, verify, clear, `main` | everything |
| Memory allocator | `lib/mylibc/stdlib/malloc.c` | chunks, bins, top, `sbrk` pointer | `malloc`, `free`, `realloc`, `calloc`, `memalign`, trim, options | programs |
| Lists | `include/linux/list.h` | pointers | insert, delete, replace, splice, cut, walk | programs |
| Text | `mylibc/stdio`, `strtol`, `strtoul`, `ltoa` | none | `printf`, `snprintf`, `scanf`, `_gets`, conversions | console, shell |
| Strings | `mylibc/string` | none | copy, compare, search, two-way search | shell, network |
| Sort, search, arithmetic, applications | `qsort`, `bsearch`, `div64`, `ffs`, `fls`, `app/heapsort.c`, `app/mm.c` | none | one call each | programs |
| UART, flash controller, boards, CPU, math library | `drivers/console`, `drivers/ftsmc020`, `board`, `cpu`, `lib/mylibm` | device registers | register access, set-up, floating point | - |

What makes each correct:

* TFTP: what is stored is the file; what is acknowledged is stored; success means the whole file; one session;
  a transfer ends.
* ARP and the transmit path: the packet that leaves is the one the running command wanted to send, to the right
  next hop, with its own length, although buffer, size and address are globals that an aborted command leaves set.
* Loop: handlers and timers never act for another command; every way out returns a value with the right sign;
  ping and tftpboot return. Headers agree with those of hosts in both directions.
* Timer: the tick count never runs backwards and misses no rollover while someone waits; a timeout or delay is as
  long as it was asked to be, in the units it was asked for.
* Interrupts: an expiry is never forgotten, its callback runs, the interrupted program finds its state unchanged, and a timer runs
  exactly if the program wants it to.
* DMA: a wait returns when its own transfer is over, and does return.
* Start-up: `main()` runs only from a complete image with a clear `.bss`.
* Allocator: every byte is in one chunk; blocks keep their contents; memory is refused only when there is none.
* Lists, text, strings, algorithms: what their definitions say, for every input up to the bounds; the command line runs
  what the screen shows.

Hard behaviours are listed, with their lines, under `hazards` in `PROJECT.json`.

## 2. Modules

| Module | What it is | Composed by |
|---|---|---|
| `Tftp` | the client's globals and one action per outcome of `TftpHandler()`, `TftpTimeout()` and `TftpStart()` | `TftpTransfer`, `NetLoop` |
| `TftpServer` | external: an RFC 1350/2347 server, one session per port | `TftpTransfer`, `NetLoop` |
| `TftpFile` | what a transfer leaves in memory, and where a session is in the file | `TftpTransfer`, `NetBootProofs` |
| `TftpTransfer` | client, server and a network of deliverable packets: one transfer, its properties and inductive invariant | `MCTftpTransfer`, `MCBoard` |
| `Arp` | `net/arp.c` and the transmit path (`NetSendUDPPacket`, `ping_send`) | `NetLoop` |
| `NetLoop` | client, server and ARP under `NetLoop()`, with commands, phases, queues and hosts | `MCNetLoop` |
| `Boot` | abstract: what `tftpboot` promises | refined by `NetLoop` |
| `Frames` | the headers that are written, and the checks of `NetReceive()` | `MCBoard` |
| `Timer` | the tick count of `fttmr010.c`, the conversions of `lib/timer.c`, and those who wait with them | `MCLibrary`, `MCTimer` |
| `Interrupts` | exception entry and return, `do_irq()`, the controller, timers 2 and 3 | `MCBoard` |
| `Dma` | both DMA controllers | `MCBoard` |
| `Startup` | copy, verification, `.bss` | `MCBoard` |
| `Malloc` | the allocator on `sbrk()` | `MCLibrary` |
| `Lists` | rings and hash chains of `list.h` | `MCLibrary` |
| `Conversions` | `strtol`, `strtoul`, `ltoa`, `printf` | `TextIO`, `Shell` |
| `TextIO` | `scanf`, `_gets`, and a program that prints and reads back | `MCTextIO`, `MCLibrary` |
| `Shell` | the command line from keys to commands | `MCLibrary` |
| `Strings`, `TwoWay` | the string functions; the two-way substring search | `StringCalls` |
| `StringCalls` | a program that calls them, with reference definitions | `MCLibrary` |
| `Algorithms` | sort, search, division, bits, heap sort, matrix products | `MCLibrary` |
| `TftpLemmas` | the client's handlers and the server's sessions, for both of the next two | `TftpTransferProofs`, `NetBootProofs` |
| `MallocLemmas` | layouts of the heap, `free()`, the extension of top | `MallocProofs` |
| `TftpTransferProofs`, `NetLoopProofs`, `NetBootProofs`, `BoardProofs` (`Timer`, `Interrupts`, `Dma` and `Startup`), `ListsProofs`, `MallocProofs` | theorems | - |

`MCBoard` and `MCLibrary` each join several systems that share no state: the initial state picks one (`part`), and only that
one moves. In `MCBoard` two of them are the same transfer on different networks.

### Tftp

Variables carry the names of the globals. The handlers' early returns are `TftpAccepts`; the `switch` on the opcode
becomes `TftpOack`, `TftpDataNotFirst`, `TftpDataSame`, `TftpDataStore` and `TftpError`. Details kept because
properties depend on them:

* `TftpOack` is taken in every state, as in the code;
* `update_block_number` runs before anything is decided, so a block 0 adds to the wrap offset even when the block is
  then ignored as "same block again"; `new_transfer()` clears the offset afterwards (`WrapOffsetTaken`);
* a first block that is not block 1 leaves the client in `STATE_DATA` with `TftpBlock` set and nothing stored;
* `store_block` keeps the larger of the old and new size; the offset uses the block size and wrap offset in force;
* `TftpStart` does not clear `TftpLastBlock` nor the wrap offset; only `new_transfer()` does. `TftpTransfer!Init`
  therefore starts with any `TftpLastBlock`, and with a wrap offset of none or one wrap (how large it is makes no difference, since
  `new_transfer()` clears it);
* at the retry limit the timer is off (`NetLoop()` cleared the handler before the call) and nothing is sent.

Abstractions: memory is a function from unit offsets to the unit of the file stored there; a unit stands for any
fixed number of bytes. Printing, the progress marks and option strings are left out; an OACK carries the block size
it settles. `TftpTimeoutCount`, which is only ever compared with the limit, is kept at `TIMEOUT_COUNT + 1` once
beyond it.

### TftpTransfer

The network is the set of packets that can be delivered. Delivery does not remove a packet, which covers duplication
by the network and retransmission by the server; a packet never delivered is lost. `InOrder = TRUE` removes, on
delivery, the packets the same session sent earlier: a network that loses and duplicates but does not reorder.
`InOrder = FALSE` is the arbitrary network. Every RRQ (it is retransmitted, too) may open a session of its own.

### Arp, NetLoop, Boot

One iteration of the loop is five phases (`pc`): receive any number of frames, keyboard, ARP timer, loop timer,
`switch (net_state)`. Commands follow one another and every global survives. Frames travel in a queue per direction.

Abstractions: a host's Ethernet address is the name of the host; the length of a packet is represented by the
packet's opcode, because what matters is whether the length was computed for the packet it is sent with. Frames that
`NetReceive()` rejects are lost frames. Durations are abstracted: a running timer may be found expired at any time.
With `PromptHosts` only when nothing is on its way, i.e. timeouts are longer than a round trip. Different commands
draw different UDP ports (the code draws `1024 + timer % 3072`, so that equal ports are possible but unlikely).

`Boot` is the promise of `tftpboot`: a load starts with no image, only grows, and either enters the image when the whole of it
is there or fails. `NetLoop!RefinesBoot` is the refinement, with the image judged from what `store_block` wrote.

### Frames

One frame crosses the wire in each behaviour: the program's UDP datagram, echo request or ARP request, or a host's frame in
Ethernet, 802.2 or VLAN framing, whole, padded, cut short or with one header word changed; the program handles, answers or
drops it. `said` is the frame as its sender meant it and `wire` the frame as it arrives. A header word has
`WordBits` bits, an address is one word; with eight words of eight bits two folds of the checksum are needed and are enough, as with
ten words of sixteen. The hosts form and check checksums by the definition (a sum divisible by all ones).

### Timer

Timer 1 is a free-running hardware counter that reloads; the program sees only its value. `rolls` counts the reloads
the program cannot see, so that `TrueTicks` is real time and every property compares what the code computes with it.
`get_ticks()` is one step: nothing in the repository calls it from an interrupt handler. The users are `NetLoop()` (start a timeout, receive, check ARP, check the timeout) and `udelay()`, which is
called from commands only.

Integers keep their widths as the constants `WORD` (`unsigned long`) and `LWORD` (`unsigned long long`), and every
product and difference is taken modulo the width the code gives it. TLC uses a narrow word with clock rates scaled to
it; what matters is which products exceed which width. Between two polls real time advances less than one
period of the counter while someone waits (`Polling`, in `Advance`): the loop and `udelay()` poll far more often than
every 86 seconds. In the shell, waiting for a key, no such assumption is made.

### Interrupts

The processor runs the program or the interrupt on top of `frames`; an interrupt may be taken between any two steps. Each
handler is the steps of `fttmr010_t2_isr`: stop the timer, clear the edge, callback, restore the register. The program's
read-modify-write of the control register is two steps. `do_irq()` serves a snapshot of the status, then enables
interrupts while its frame is still on the stack: a second one may nest (`nested`, up to `MaxDepth`). `owed` and
`asked` record which callbacks are due and which timers the program set going. An exception other than IRQ ends in
`bad_mode()`.

### Dma

Two controllers, two drivers: `WaitTc` and `WaitErr` are the ways out of a wait, `Finish` the controller. `outcome` and
`seen` record what really became of the transfer and whether the program has been told. `DMA_SetInterrupt()` of the 030 writes a structure it has not
initialised, so the other fields of the configuration get any value.

### Startup

Words of memory, copied by blocks of `BLOCK` registers past the end of the data, compared one by one, and cleared; any set of `BadWords` does not keep
what is written.

### Malloc

The allocator is one record, `heap`, with its words by address, its bins as sequences in the order of their links, and the
`sbrk()` pointer. Each function of malloc.c is an operator from heap to heap; an action is one call of a program, which marks the first and last word of
its blocks with its tag. `initial_top`, `last_remainder`, the binblock bits, bin spacing and the rounding are those of the code; `sbrk` fails at the end of the
heap, and another program may take memory in between. Reads of bytes nobody wrote give a value that is not zero. `TopBit` is the first `size_t` that is
negative as a `long`: 2^31 on the boards, 32768 in the runs. `fence` are the chunks `malloc_extend_top()` leaves where two stretches of memory do not meet: the two
markers it writes and, when what is left of the old top is smaller than `MINSIZE`, that remainder, which nobody can free. `RefusedWhenFull` allows
`sbrk()` to have up to `MALLOC_ALIGNMENT` bytes more than the request: the ones `malloc_extend_top()` asks for besides, to align a new stretch.

### Lists, text, strings, algorithms

`Lists` performs the header's assignments in order on one record of pointers and keeps beside them the sequences they should
represent. In `Conversions` and `TextIO` a character is a string of length one; arithmetic has the widths of the constants, `put_dec`'s
multiplications and shifts included. `Shell` has the bytes of `cmdstr[]`; a line that writes past it or past `argv[]` is
`spoiled` and its behaviour ends. `Strings` has a memory of bytes and reads words where the code does, `DETECTNULL`'s borrow between bytes
included; `strcmp.S` is modelled from its ARMv5 little-endian paths. `Algorithms` keeps, for a matrix, the list of products each entry received.

## 3. Runs

All constants are small; every cfg says `CHECK_DEADLOCK FALSE` because the system may stop legitimately: the commands
allowed by the bound have been given, the client has given up and waits for the user, the one call of a behaviour has returned, or the clock is at its bound.

| Run | Instance | Shows |
|---|---|---|
| `tftp_late_oack` | reordering and OACK | **violation** of `SuccessIsWholeFile` |
| `tftp_wrap` | 4 sequence numbers, 6 blocks, no reordering | **violation** of `StoredIsFile` |
| `net_commands` | two commands, tftpboot or ping, each may be aborted; a refusing server; unsolicited requests | the packet that waits, the frames sent and the handlers belong to the running command |
| `net_tftp` | two tftpboot commands with aborts, file of 2 units without options, a second session | `BootsWholeFile`, `RefinesBoot` |
| `net_live` | two commands, tftpboot or ping, each may be aborted; one frame lost anywhere; three sessions | `PingReturns`, `TftpReturns` |
| `net_starts_again` | one transfer, two frames lost | **violation** of `StartsAgain` |
| `net_stale_echo` | a ping, then a tftpboot | **violation** of `BootsWholeFile` |
| `timer_axi` | units as on AXI: `iv * CONFIG_SYS_HZ` exceeds a word | **violation** of `TimeoutNotEarly` |
| `board` | a transfer: file of 4 units, two sessions, error codes 1 and 5, 7 sequence numbers, 2 retries, in order with block size 1 or (OACK) 2, or reordered without options; two nested interrupts; both DMA controllers with two channels; 5 words of image, 3 of `.bss`, any of 4 words bad; frames with every value of `NetIPID` | storage, acknowledgement, completeness, one session, and `TransferInv`, the inductive invariant of the proofs; interrupts served, state kept; waits honest and ended; `main()` loaded; headers right |
| `library` | clock as on AHB and A320, 8-tick counter, up to 2 rollovers; 5 calls of 3 blocks on a 9000-byte heap with 4096-byte pages; 2 heads, 3 entries; numbers of 20, 10 and 5 bits; lines of 14 keys; strings at every alignment; arrays of up to 7, matrices of 8 and 10 | the clock and all who wait with it; the allocator, lists, text, shell, strings and algorithms against what they promise |
| `malloc_calloc` | the same heap | **violation** of `CallocIsZero` |
| `print_overrun` | formats of up to 3 directives into buffers of 2, 4 and 6 | **violation** of `BufferKept` |

Why the bounds are enough.

* Transfer: the file of 4 units has a first, a middle and a last block with either block size, and the
  last one is empty (4 = 2 + 2 + 0); two sessions are what is needed to mix packets; two retries
  are the first number at which a retry after a retry happens; sequence numbers matter only at the wrap.
* `NetLoop`: two commands are needed, and suffice, for state to survive from one to the next; queues of two or three frames let an
  answer be followed by another frame before the loop looks at `net_state`; ARP limits of three make the reset of the
  count reachable.
* Clock: two rollovers let `get_timer()` itself wrap around (a word of 8), and a wait begin before and end after; steps of 3 and 4 ticks
  meet every phase of an 8-tick period.
* Interrupts: two timers and two nested frames are the first depth at which a handler is interrupted by the other timer's, and by its own.
* DMA: two channels are what it takes to confuse one with another.
* Start-up: the image is not a multiple of the block (5 of 2), so that the copy runs into `.bss`; the bad words lie in the first and
  last block, in the overlap and in `.bss`.
* Allocator: five calls are enough to have a chunk merged with both neighbours, split, put in a bin and found again, and the heap to end
  inside a request; sizes are one small bin, one large bin, and one of which three do not fit.
* Text: 20, 10 and 5 bits are the widths at which `put_dec`'s approximations go wrong if a term is missing; keys include the ones that erase.
* Strings: offsets 0 to 3 from a word, lengths across two word boundaries (for copies also 16 and 19, from which on words are moved), bytes 0, 1, 127, 128 and 255 around them. Two-way
  search: all haystacks of 6 and needles of 1, 3 and 4 over two letters, at both sides of the threshold.

**What the violations show.** They are recorded as findings.

1. *Late OACK* (`tftp.c:449`). A duplicate OACK that arrives during the transfer returns the client to `STATE_OACK`.
   The next block is taken for a first block and, not being block 1, is not stored; but `TftpBlock` holds its number,
   and the next timeout acknowledges it. The server goes on and the transfer ends in success with a hole.
   It needs a network that delays the duplicate of an OACK past a DATA packet.
2. *Wrap around* (`tftp.c:249`). A retransmitted block 0 adds the wrap offset twice, even though the block itself is
   ignored. It needs only a lost acknowledgement of block 65536.
3. *"starting again"* (`tftp.c:231`). `restart()` only prints. If both the last acknowledgement and the server's
   retransmissions were lost or ended, the loop waits for ever with no timer.
4. *Late echo reply* (`ping.c:89`). The reply to an earlier ping ends a running `tftpboot` with success: `NetLoop()`
   returns a size of 0 or of a part of the file, which is not negative, and the shell jumps to the image.
5. *Timeout units* (`net_core.c:409`). On AXI `CONFIG_SYS_HZ` is 1000000, and 5000 ms times that exceeds 32 bits: the
   TFTP timeout is about 705 ms.
6. *calloc* (`malloc.c:2951`). A block that grows into memory `sbrk()` has just added is cleared only up to the old end, because
   `sbrk()` is said to give zeroed memory. It does for memory that was given back before; the heap itself was never cleared.
7. *snprintf* (`simple_printf.c:537`). `ADDCH()` puts characters and the final NUL only if they fit, but then `*str = '\0'` writes
   a second NUL behind the first without looking: outside the buffer, even if the text just fits, and as far outside as a longer
   text would have gone. The value returned counts the first NUL, though the comment at line 539 says it does not. `OutputRight`
   holds all the same: within its size the buffer has what there is room for and a NUL, and outside only that one byte is written.

What the models say besides, without a run of its own, because each is an exception a property names or a constant excludes:

* `ARP_TIMEOUT` is in milliseconds and compared with `get_timer()` units (`arp.c:110`): with a unit below a millisecond, as on AXI, `ArpNotEarly` fails (a request
  is repeated after 5 ms); the runs have no such unit.
* `get_ticks()` notices at most one rollover per call: after more than a period in which nobody asks for the time the count is
  short by the others. `TicksExact` is stated for those who wait, and fails without `Polling`.
* `tick * CONFIG_SYS_HZ` exceeds 64 bits after 4.3 days on AXI (`timer.c:29`); a running timeout then expires at once: `TimeoutNotEarly` fails with `LWORD = 22`.
* A callback that calls `disable_timer()` on its own timer is undone by `tmr->cr = cr` (`fttmr010.c:108`): `EnableAsAsked` fails with `CallbackStops = {2}`; in the run it is `{}`.
* An interrupt between `enable_interrupts()` in `do_irq()` and the end of `restore_user_regs` overwrites SPSR (`traps.c:280`): `ProgramResumes` excepts behaviours in which that happened, and does
  not speak of this fault.
* `fLib_DMA_WaitIntStatus()` never returns after an error (`dmac020.c:209`): `WaitReturns` excepts it, and is about waits whose status comes.
* `scan_string()` takes 256 characters into 50 bytes (`cli.c:92`, `common.h:123`), and `argv[16]` is filled without limit: such a behaviour ends as `spoiled`, and
  `LinesRun` shows only that nothing shorter spoils anything.
* The reply to an echo request of odd length leaves the last byte out of its checksum (`ping.c:108`): `SentRight` excepts it.
* `ltoa()` writes only the sign of the least long: `ReadsBack` excepts it.
* `tftpboot`'s server address is overwritten by `NetInitLoop()`, and with a server address the load address is not read (`cli.c:217-221`).

**Fairness.** `NetLoop!Fairness`: the loop is a `while (1)`, so an iteration always goes on (weak fairness), and
`eth_rx()` polls in each, so a frame that has come is received (strong fairness, because the phase comes and goes).
Time passes, so a timer that may expire again and again does. Hosts answer what reaches them, and a TFTP session
retransmits until it is acknowledged, as RFC 1350 asks. The user is never obliged to press a key, nor the medium to lose a
frame. `net_live` has `PromptHosts` and one loss: with two the third violation above applies. Three sessions
are as many as two commands can open with one loss; with fewer the server could not answer.
`Interrupts!IrqFairness`: the processor goes on with a handler and takes a pending interrupt that is enabled; the program is not obliged to do
anything. `Dma!DmaFairness`: the controller finishes a transfer it was given, somehow, and a polling loop polls.

**Mutants.** Every property of a passing run is paired with an operator `Mutant...`, a plausible slip in the
definition it stands beside, under which TLC finds the property violated.

## 4. Proofs

Checked by TLAPS for all values of the constants that satisfy the modules' `ASSUME`s.

| Theorem | Module | Extra assumption |
|---|---|---|
| `TypeCorrect`: `Spec => []TypeOK` | `TftpTransferProofs` | none |
| `StorageCorrect`: `Spec => []StoredIsFile` | `TftpTransferProofs` | `NoWrap` |
| `SessionLocked`: `Spec => OneSession` | `TftpTransferProofs` | `NoWrap` |
| `TransferCorrect`: `Spec => []TransferInv` | `TftpTransferProofs` | `NoWrap`, `NoLateOack` |
| `CompleteIsWholeFile`: `Spec => []SuccessIsWholeFile` | `TftpTransferProofs` | `NoWrap`, `NoLateOack` |
| `AcknowledgedStored`: `Spec => []AcknowledgedIsStored` | `TftpTransferProofs` | `NoWrap`, `NoLateOack` |
| `LoopTypeCorrect`: `Spec => []TypeOK` | `NetLoopProofs` | none |
| `WaitingPacketCurrent`: `Spec => []WaitingPacketIsCurrent` | `NetLoopProofs` | none |
| `FramesAddressed`: `Spec => []FramesAreAddressed` | `NetLoopProofs` | none |
| `HandlersOfCommand`: `Spec => []HandlersBelong` | `NetLoopProofs` | none |
| `KernelIsWholeFile`: `Spec => []BootsWholeFile` | `NetBootProofs` | `NoWrap`, no ping among the commands |
| `ImplementsBoot`: `Spec => RefinesBoot` | `NetBootProofs` | `NoWrap`, no ping among the commands, a file that is not empty |
| `TickCorrect`: `Spec => []TickInv` | `BoardProofs` | none |
| `CountMonotone`: `Spec => TicksMonotone` | `BoardProofs` | none |
| `CountExact`: `Spec => TicksExact` | `BoardProofs` | none |
| `DelayLongEnough`: `Spec => DelayNotShort` | `BoardProofs` | `DelaysFit` |
| `TimeoutsNotEarly`: `Spec => TimeoutNotEarly` | `BoardProofs` | `UptimeFits`, `TimeoutsFit` |
| `TimeoutsNotLate`: `Spec => TimeoutNotLate` | `BoardProofs` | `UptimeFits` |
| `ArpRepeatsNotEarly`: `Spec => ArpNotEarly` | `BoardProofs` | `UptimeFits`, `UnitNotBelowMsec` |
| `NoTickIsForgotten`: `IrqSpec => []NoTickForgotten` | `BoardProofs` | `CallbackStops = {}` |
| `ControlRegisterAsAsked`: `IrqSpec => []EnableAsAsked` | `BoardProofs` | `CallbackStops = {}` |
| `ProgramResumesAsItWas`: `IrqSpec => []ProgramResumes` | `BoardProofs` | `CallbackStops = {}` |
| `StatusIsTold`: `DmaSpec => StatusTold` | `BoardProofs` | none |
| `AllocatorInvariant`: `MallocSpec => []AllocatorInv` | `MallocProofs` | none |
| `HeapIsSound`: `MallocSpec => []HeapSound` | `MallocProofs` | none |
| `BlocksAreKept`: `MallocSpec => []BlocksKept` | `MallocProofs` | none |
| `RefusesWhenFull`: `MallocSpec => []RefusedWhenFull` | `MallocProofs` | none |
| `MainLoaded`: `StartupSpec => []MainIsLoaded` | `BoardProofs` | none |
| `ListsAlways`: `ListsSpec => []ListsInv` | `ListsProofs` | none |
| `ListsRepresented`: `ListsSpec => []ListsHold` | `ListsProofs` | none |
| `WalksSeeAll`: `ListsSpec => []WalkSeesAll` | `ListsProofs` | none |

`NoWrap` says that no block number is used twice (file size below `(65536 - 1) * block size`, for each block size the
server may settle). `NoLateOack == InOrder \/ OackSizes = {}`: packets of a session are not reordered, or the server has
no options. The two violations of `TftpTransfer` show that neither assumption can be dropped.

The argument. `TypeOK` is inductive alone; its one non-trivial part is that `store_block` never writes below
`load_addr`: for block 0 the offset is `-size` plus a wrap offset that has just grown by `size * 65536`.

`StoredIsFile` is not inductive. A DATA packet carries a number and a payload; that it lands in its place needs
`PacketInv` (a packet on the network is one its session really sent, so number, first unit and length agree), which needs
`SessionInv` (a session is within the file and has one of the possible block sizes), and `LockInv` (the client's block
size is that of the session it is locked to, the wrap offset is 0 in `STATE_DATA`, and acknowledgements go to that
session only). The last is what makes a competing session harmless: nobody acknowledges it, so it cannot get past
its first packet. A session whose first packet is a DATA block has the plain block size, which is what the client
assumes in `STATE_SEND_RRQ`. With `StorageInv` these form `StoreInv`, which needs no ordering of the network.

Completeness needs `ProgressInv` as well: everything before the block a session has out is stored; every block
that was acknowledged, or will be by the next timeout, is stored; in `STATE_DATA` no OACK of the session can still
arrive. It is the last clause that fails on a reordering network with options, and with it the theorem. All together is
`TransferInv`, which `board` also checks.

For `NetLoop` everything starts from one observation about ports. A packet can reach the TFTP handler only if somebody has seen the
port of the running transfer, and until its RRQ has left nobody has: ports are drawn in order here, and the RRQ waits for
an address. `KnownPorts` are the ports that can have been seen, and `NetworkInv` says that every frame and every session is about one of them. Hence, while
the address is asked for (`Asking`), nothing calls the handler, nothing is sent, and the RRQ stays in `NetTxPacket` with the length and the destination it was
put there with: `TftpWaits`, in `ArpInv`. Once the address is known, nothing waits any more and every packet goes straight to
`eth_send()`. With `ControlInv` (which handler, timer and phase belong to which command) this is `LoopInv`, which is inductive,
and the four theorems of `NetLoopProofs` need no assumption.

`KernelIsWholeFile` is the transfer's argument again, with three differences. There are sessions of earlier transfers, so that `LockInv` and
`ProgressInv` speak only of those whose peer is the running transfer's port (`Mine`). Packets are in queues, whose order (`Ordered`: no OACK behind a
DATA block of its session) takes the place of `InOrder`, so that no condition on the server's options is left. And memory outlives
commands: what is stored is claimed while a transfer runs, and of the image that is entered (`KernelInv`). The facts about the handlers and
sessions alone are in `TftpLemmas`, for both proofs. Pings are excluded because a late echo reply ends a transfer
(`net_stale_echo`), wrapping block numbers because of `tftp_wrap`. `ImplementsBoot` maps a step that stores data to `Load` or, if nothing new was stored, to a stutter;
`do_tftpboot()` to `Start`; the end of the loop with `NETLOOP_SUCCESS` to `Enter`, by `KernelIsWholeFile`'s invariant; the other ends
to `Fail`; all else to a stutter. Of an empty file, "none" and "whole" are the same image, which `Boot` tells apart: hence `FileSize > 0`.

For `Timer`, the invariant is `TickInv`: the high word never exceeds the rollovers up to the last reading; if there was
no rollover since, the counter has only advanced; and while someone waits, less than a period has passed since.
Monotonicity follows from the first two. For exactness, the lemma `OneRollover` says that under the third, "the reading is
below the last one" and "there was a rollover since" are the same thing, and there was at most one.

The lengths of waits need what each waiter remembers (`WaitInv`): `timeStart`, `NetArpWaitTimerStart` and `start` are what the count gave at
the time of the call, and the count has not fallen behind since (`Lag`, the rollovers nobody noticed before, stays the same while someone polls). The lemma `Elapsed` says what
`get_timer(base)` returns then: with both divisions rounded down and both readings cut to a word, still less than one unit from the truth, and exact if
it fits a word. The assumptions are the conditions under which nothing overflows, for `DelayLongEnough` 86 seconds, and for
the others 4.3 days of uptime (`UptimeFits`, on AXI). `TimeoutsFit` (the product with `CONFIG_SYS_HZ` fits a word, and the timeout is a whole number of units) holds of 5000 ms
where `CONFIG_SYS_HZ` is 1000, as on AHB and A320, and not on AXI, as `timer_axi` shows; `UnitNotBelowMsec` excepts AXI as well, for the reason given in section 3.
`TimeoutsNotLate` needs neither: a product that is cut makes the timeout shorter. TLC has checked `WaitInv` with the constants of `library`, which satisfy all four.

For `Interrupts`, the three properties follow from one invariant, `IrqInv`. `StackInv` is what makes nesting tractable: an
interrupt comes only above the program or above a frame that is being popped, so only the top frame can be in the middle
of a handler, and a frame being popped has nothing left to serve. Then `EnableInv` needs to follow one saved control register only: while a
handler is between its stop and its restore, that frame's copy, and otherwise the register itself, has the timers that were
asked for (the program's half-done read-modify-write has them, too). With a callback that stops its own timer, the copy is stale and the
clause fails: the assumption `CallbackStops = {}` cannot be dropped for `EnableAsAsked`. `TickKept` needs `MaskInv`: a timer the program
has set going is masked or has a callback, which also covers the steps of `init_timer()` that are half done. `PsrInv` says that SPSR is the
top frame's until an interrupt comes between `msr` and `ldmia`, and that the lowest frame has the program's status.

For `Dma`, `StatusInv` adds to `StatusKept` what differs between the drivers (`BitsAreNews`): on AXI a set bit always is news; on AHB it may be
old, and only a transfer that runs has none. For `Startup`, nothing is claimed of what the copy stores: `StartupInv` says how far the
comparison and the clearing have come, and that the clearing, which starts behind the image, leaves it alone.

For `Lists`, `ListsHold` is nearly inductive: what it lacks is that no entry is in two lists or twice in one (`Separate`), that a head which may not be used holds
nothing, and the types. The difficulty is in the step. A ring is put down as a function from places to cells with the head at place 0 and again
behind the last entry (`Places`), so that the pointer conditions of a ring (`Circle`) need no special case for its ends, nor for the empty ring, where the two are the same.
One lemma per kind of surgery says what a ring is after it, about functions and numbers alone: `CircleInsert`, `CircleRemove`, `CircleReplace`, `CircleNewHead`,
`CircleSplice`, `CircleCut`; for chains `RunInsert` and `RunRemove`. Another says that the assignments of the header, in their order, are that surgery (`AddPointers`,
`ReplaceEmptyPointers`, ...): it is here that it matters which assignments may touch the same field. The rest is that all other rings keep their cells, by
`Separate`. For walks `WalkOn` says where in its ring a walk is: with `Left` entries to go, `pos` is that far from the end, `n` is one nearer, and the entries
still wanted are those between; the body takes away only what is at `pos`, or adds to other rings, so that `n` stays what it was read to be (`AheadKept`). TLC has
checked `ListsInv` with the constants of `library`.
The length of a list is any number, but no induction is needed: every condition is about neighbours.

For `Malloc`, `HeapSound` lacks what it follows from. It looks at the chunks somebody can still name, and it asks of each what its neighbour's header says. The proof keeps the
chunks themselves: `S`, the sizes of all chunks by their address, fences and top among them; `F`, the free ones; `U`, those of programs. `Tiled` says that they lie side by
side, `NoTwoFree` that no two free ones are neighbours, `Encoded` that the words of the heap are the headers and feet of just these chunks, `BinsOk` that the bins
list `F` by size, `SysOk` that the last of them ends at or below the break, and the break within the heap; together they are `HeapAt(heap, S, F, U)`. `BlockOk` puts each block into a chunk of `U`, with its
program's words in it. `Sound` says that there are such `S` and `F`, and the invariant is `AllocatorInv`: `Sound`, no word lost by `realloc()`, and after a
refusal a heap that is full. Every
operation makes a run of neighbouring chunks one or two others and writes a few words to say so. The lemmas show this of the layout (`OneRun`, `TwoRun`), of the words (`OneHeads`
and its like), of the bins (`unlink`, `frontlink`, the splits by way of `last_remainder`) and then of the functions, from the smallest up: `fREe` with its merges on both
sides, `sbrk` and `malloc_trim`, `malloc_extend_top` with and without a gap, the search of the bins, `mALLOc`, `mEMALIGn` with its leading and trailing
remainder, the ways `rEALLOc` grows, shrinks and moves a block (`MallocLemmas` up to the extension of top, `MallocProofs` from the search on). What `Kept` says of
each, that the words inside other programs' chunks are untouched, gives `BlocksKept`. For `RefusedWhenFull` the search must not overlook a chunk: the bins hold no chunk
outside their range of sizes (`bin_index` is monotone), large ones are in decreasing order, and an unmarked block has no chunk at all.
The steps of a program follow with the marks it writes and what `Forget` leaves out of the heap. `MallocConstants` is the only assumption: pages and alignments are multiples of 8, the heap is
smaller than half of the address space, and no request overflows when it is rounded (`request2size` of more would wrap around). TLC had
checked the inductive invariant on a small heap. The proof corrected the model twice: the remainder of an old top that is too small to be freed was not in `fence`, and
`RefusedWhenFull` did not allow for the bytes of alignment; neither showed with the constants of `library`.

Only model-checked: `Frames` (a fold of the header words, with powers of two) and the library but `Lists` and `Malloc`, whose modules compute with recursive
operators and whose correctness for inputs of every length would need induction over data (`OutputRight`, `InputRight`, `StringsRead`, `CopyRight`, `FindRight`, `ComputesRight`, `LinesRun`); and the liveness properties (`PingReturns`, `TftpReturns`,
`TickServed`, `WaitReturns`), which are out of the prover's reach.

## 5. Not modelled, and why

* The math library, `fft.c`, `%f` and `%g`: floating point.
* The flash controller, the UART's set-up, `spi_test.c`, board and cache set-up, remapping and mode stacks in assembly: register writes in a
  straight line, without state of their own. `flash.h` declares what the repository does not have.
* The size of memory at `load_addr`: the code has no limit to state.
* Equal ports in successive commands: they are drawn from the clock.
* VLANs: nothing in the program sets `NetOurVLAN`. Registration of devices, `string_to_ip`, `copy_filename`: parsing at start-up.
* Requests near 2 GiB and above to `malloc`, whose rounding wraps around or gives a negative `long`, and its debug checks (stated as `HeapSound` instead).
* `rand`, `div`, `ldiv`, `strdup`, `strndup`, `fib.c`, `strswap.c`, the hlist iterators: a few lines each, with nothing that a test would not reach.

## 6. Plan

1. Done: the transfer, the loop, the board and the libraries; runs and theorems above.
2. Done: the proofs of the loop, of the refinement of `Boot`, and of the lengths of delays and timeouts.
3. Done: the proof of `Lists`, from pointers to sequences.
4. Done: the proof of `Malloc`, from headers and bins to the blocks programs hold.
