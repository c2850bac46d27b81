# A verification of the MCHCK runtime

The MCHCK runtime (`src/src`) is a small operating system for Kinetis Cortex-M
microcontrollers: a preemptive thread scheduler, semaphores and timers, a USB
device stack with a DFU boot loader, and interrupt-driven drivers. It is
written in C without a heap; nearly everything happens in interrupt handlers
and in the callbacks they make. This directory holds TLA+ models of it, what
TLC checks of them and what TLAPS proves.

Paths below are relative to the repository.

## Inventory

How the parts interact: every driver is a queue of *contexts* that its callers
own (linked through a field of the context), a start function that runs in a
critical section, and an interrupt handler that advances the head of the queue
and calls its callback. The callback runs inside the handler and calls the same
functions again. Threads, where a program uses them, sleep on a *channel* (an
address) and are woken from handlers. All exceptions have the same priority, so
handlers do not nest; they are pending, and are taken lowest number first.

| part | state | operations | what is hard | what makes it correct |
|---|---|---|---|---|
| scheduler `src/common/sched.c`, `src/soc/cortex-m/sched-m3.c` (and `-m0.c`) | run queues per priority, blocked queue, current thread, state, priority and slice of each thread, pending PendSV, SysTick | `thread_init`, `enter_thread_mode`, `yield`, `wait_cond`, `wakeup`, `thread_setprio`, `SysTick_Handler`, `PendSV_Handler` | a thread is *between* queues from its system call to PendSV; interrupts in between; head insertion of woken threads | queues hold what states say, nobody lost, priorities respected, no starvation |
| semaphores `src/common/sema.c` | the count, each caller's local copy | `sema_wait_count`, `sema_try_wait_count`, `sema_wake_count` | preemption between any two accesses, interrupts that post | atomic, no lost wakeup, progress |
| timers `src/soc/kinetis/timeout.c` | sorted list, software clock, reference count; LPTMR0 | add, cancel, get/put reference, get time, handler | the counter runs on during the code; it wraps; callbacks change the list | sorted, never early, not late, clock exact, clock running |
| USB core `src/usb/usb.c`, `src/soc/kinetis/usb.c` | per pipe: position, rest, toggle, ping-pong; address, configuration, attached functions | transactions done, stall, reset; control transfers | toggles advanced by different events; SETUP in the middle of a transfer; reset at any time | data delivered once and in order; every control transfer ends; ready for the next SETUP |
| DFU `src/usb/dfu.c`, `bootloader/usb-dfu` | DFU state, status, offset, the loader's `last` | the class requests, end of the data stage, asynchronous end of a write | requests in any order, aborted data stages, resets | flash holds a prefix of the image; errors are sticky until cleared |
| CDC-ACM, UARTs, stdio | FIFO buffers, queued flag, RX/TX queues | write, flush, handler, abort | callbacks in the middle of loops; full buffers | bytes neither lost, doubled nor reordered |
| SPI and scatter-gather `dspi.c`, `sg.c`; SPI flash `spiflash.c`; nRF24 `nrf.c` | queue of transactions, positions; the running flash operation and its step | queue, handler, callbacks that chain | chained transactions, check then act outside critical sections | every transaction completes once, in order |
| I2C `i2c.c`, ADC `adc.c`, RTC `rtc.c` | queue, transfer state; running conversion; alarms | queue, handlers | short transfers, aborts, alarms dropped | every request is answered once |
| the rest (pins, DMA, PIT, CRC, flash commands, boards, formatting, tools) | registers | | | not planned: no control flow of their own; flash commands enter the DFU model as one step that may fail |

`PROJECT.json` lists the parts with their files and status, and under `hazards`
the places where this code is hard to test.

## Plan

The order was: what everything threaded rests on, then what talks to the
outside, then the drivers, and proofs of what had been checked.

1. **Scheduler** (`Sched`, abstract `ThreadSpec`) and **semaphores** on top of it
   (`Sema`, abstract `SemaphoreSpec`). Done, and both refinements are proved.
2. **Timers** (`Timeout`) with the hardware counter. Done, and all its invariants
   and `NeverEarly` are proved.
3. **USB**: the control endpoint with its controller and a host (`UsbControl`),
   and the firmware download (`Dfu`) over transfers that arrive whole. Done, and
   the safety of both is proved.
4. **Queued drivers**: `Spi`, `SpiFlash`, `Uart`, `Cdc`, `Stdio`, `I2c`, `Nrf`.
   Done, each with what it builds on as its environment; the safety properties of
   `Spi`, `SpiFlash`, `I2c`, `Cdc`, `Stdio` and `Nrf` are proved.
5. Left: endpoints other than 0 and the list of attached functions; `rtc.c` and
   `adc.c`; settings and requests that threads make of `nrf.c` while one is under way.

Where the code breaks a promise, the property of the passing run states the
exception, as narrowly as it is true, in terms of what has happened (a history
variable), and a run that is violated shows the promise without it. The models
have no guard that keeps such a case away; what a constant or a caller leaves
out is named in the section of its module.

## Modules

| module | role |
|---|---|
| `Queues` | `Keep`, the rest of a linked list after some entries were removed, as a recursive function |
| `QueueLemmas` | what appending, removing the head, concatenating, reversing and `Keep` do to membership and duplicates; division and remainder: uniqueness, sums, one wrap; proved |
| `ThreadSpec`, `Sched` | what the scheduler promises, without queues and slices; the scheduler |
| `SchedProofs` | its inductive invariant and theorems; that it implements `ThreadSpec` |
| `SemaphoreSpec`, `Sema`, `SemaProofs` | an atomic counting semaphore; `sema.c` over `Sched`; the theorems, the refinement among them |
| `Timeout`, `TimeoutProofs` | `timeout.c` and the low-power timer; the theorems |
| `UsbControl`, `UsbProofs` | `usb.c` for endpoint 0, the Kinetis back end, the controller, a host; the theorems |
| `Dfu`, `DfuProofs` | `dfu.c`, the boot loader, its flash, a download tool; the theorems |
| `Spi` | `dspi.c` and its controller |
| `SpiFlash` | `spiflash.c` and the chip |
| `Uart` | `uart.c` over `uart-fifo.c` |
| `Cdc` | the transmit side of `cdc-acm.c` |
| `Stdio` | `stdio.c` over `uart-stdio.c` |
| `I2c` | `i2c.c` and its controller |
| `Nrf` | `nrf.c`, its SPI transfers, its interrupt and the radio |
| `SpiProofs` | the theorems about `Spi` and `Nrf` |
| `DriverProofs` | the theorems about `SpiFlash`, `I2c`, `Cdc` and `Stdio` |
| `MCSched`, `MCSema`, `MCTimeout`, `MCUsb`, `MCDfu`, `MCI2c`, `MCDrivers` | the instances for TLC, with their `.cfg` files |

Operators called *Mutant* in a comment are the model with a bug of the usual kind
in it; no specification uses them. Every property of a passing run is checked to
fail with one of them (`mutants` in `PROJECT.json`).

### Sched

`curthread`, `runq`, `blockedq` and the fields `state`, `ident`, `slice`, `prio`
are the variables of `sched.c` with its names; the intrusive lists are
sequences. `pendsv` is the pending PendSV exception, `systick` what the timer
was loaded with. `mode` tells `main()` before `enter_thread_mode` from threads.
`fresh` is a history variable.

One action is one handler or system call, since handlers do not preempt each
other and mask interrupts anyway. PendSV has the lowest number of all pending
exceptions a handler can leave behind, so it is the next thing to happen when
it is pending: no other action is enabled then. This is what makes
`sys_wait_cond` correct, whose thread is on no queue until PendSV.
Time within a slice is abstracted to what `md_sched_update_timeslice` reads: any
value below the one loaded.

Two peculiarities are kept: `mi_thread_init` clears the slice of the *caller*
(the new thread's comes from its uninitialised stack, `StackJunk`, any natural
numbers, of which the timer takes the remainder, `Load`), and before
`enter_thread_mode` that store goes through a null pointer, which depending on
the target faults or has no effect (`BootThreadInit`). `thread_init` does not
reschedule; `PriorityRespected` therefore exempts threads that were never
dispatched (`fresh`).

### Sema

A thread that calls `sema.c` has a label `pc`, the amount `want` and its local
`old`. Every load, compare-and-swap, `wait_cond` and wakeup is an action, guarded
by the thread being current with no PendSV pending, so that SysTick and
interrupts come between any two. `Idents` has one channel, the semaphore.

### Timeout

`queue`, `due`, `lazy`, `refs` are `timeout_queue`, the `time` fields,
`timeout_lazy_now` and `timeout_ref_count`. Times are `epoch * Period + count`,
modulo `Wrap`, as the union has them. `cnr`, `cmr`, `ten`, `tcf` and `latched`
are the counter, the compare register, the enable and compare flags and the
pending bit in the NVIC, from how the code uses them: the flag goes up at the
*end* of the tick that matches (as the comment in `timeout_schedule_wrap`
says), and disabling the timer clears the counter. A function that reads the
counter and programs the timer later is two actions, with ticks in between;
the others are one, as nothing they use can change in between. `ticks`,
`readAt`, `zero` and `asked` are history.

### UsbControl

`dev` is what the C code keeps: `usb` and the two pipes of endpoint 0 with
`pingpong`, `data01`, position, rest and callback, and the buffer descriptor
table. What one interrupt does is a function of `dev`, named after the C
functions (`usb_rx_next`, `usb_tx_next`, `usb_handle_control_status` ...), because
the handler runs to completion. `hw` is the controller: the descriptor it uses
next on either side, the STAT FIFO, and whether tokens are held off (after a
SETUP, until `usb_enable_xfers`). `host` follows the protocol: stages, toggles, what
it does not accept twice. Packets are lengths and positions.

Constants say which hosts there are: `FastRequests` (the transfers whose tokens
outrun the handler: all of them), `LostAcks` (the handshakes that get lost) and
`HostGoesOn` (a host that goes on after a timeout without a bus reset, which is the
run `usb_abandon`). `LostAcks` leaves out the handshakes after which the driver
would be done and the host not: the last data packet and the status stage of a write.
Two fields of `host` are history: `after`, that the last request was refused,
and `early`, that a stall met a token that came before the handler had run.
Together, in a request that sends data to the device, they are the stale stall
(`StaleStall`) that `SetupGetsThrough` and `VerdictAgrees` except. No host asks for
data of length zero: the driver waits for the wrong status stage then. Only
functions refuse data on its merits, so `ok` is the verdict of class requests
alone; everything else is refused by its kind or not at all.

### Dfu

A control transfer is one action, two when it has a data stage: that transfers
arrive whole is the business of `UsbControl`. `ctx`, `last`, `staging`, `flash`
are `struct dfu_ctx`, the static flag and the buffer of `setup_write`, and the
sectors. A block is its image and number, with whether the rest of its sector
is blank. `flash_program_sector` is one step that may fail and then leaves the
sector erased; a power failure leaves anything. `tool` is a download tool that works by
GETSTATUS, clears errors, aborts what it finds under way, and may be stopped at
any point. `finish_write` may answer at once or later (`job`, with
`dfu_write_done` called when it ends, the interface `dfu.h` offers). Tools wait
for the end of such a write before they select the interface again.

### Spi, SpiFlash, Uart, Cdc, Stdio, I2c

`Spi`: `spiQueue` is the list of contexts, `spiCtx` what is left of each
transfer. The handler is three actions (taking the flags, moving frames,
calling back), as frames go on in between; the controller has its FIFOs, a
shift register and EOQ.

`SpiFlash` stands on what `Spi` shows: one transfer at a time, then the callback. Its
chain is prelude (write enable), command, polls of the status register. The
chip's write enable latches and its busy flag tell whether it takes a command.
The queue is the linked list it is in the code, `flashQueue` and the `next` of
`flashTrans`, because it can be knotted. A callback runs to completion; a thread
appends with interrupts off and then takes three steps through `spiflash_schedule`
(`FlashLooks`, `FlashTests`, `FlashStarts`), between which transfers end and callbacks
queue. A transaction that ends in between is started once more by the thread:
`flashPast.raced` remembers it, nothing is claimed afterwards, and the run
`flash_race` shows it. A write without a callback (`"blind"`, `spiflash.c:223`) is not
waited for; `flashPast.blind` is that the chip may still be busy with it, which
excepts the transaction behind it from `FlashTakes`.

`Uart` models `irq_handler` byte by byte: callbacks queue and abort transfers in
the middle of its loops. Bytes are counted. A transfer of length zero would run
to 2^32 bytes and is excluded; a framing error costs a
byte, as the code clears the flag by reading the data register. The callback
of an aborted transfer runs in the critical section of the abort and does no more than
the caller can do right after it, so it is left out.

`Cdc`: `outbuf` collects what is written and is also the packet under way. Bytes are
numbered. The overlapping `memcpy` in `cdc_tx_done` is taken as the copy
towards lower addresses it is meant to be; a bus reset and the `cdc_init` after it
are one step. `cdc_init` keeps `out_pos`: a packet that the host has when the bus is
reset, before `cdc_tx_done` runs, is sent again, and the host that counts it
twice is the one exception in `CdcStream`.

`Stdio`: `outbuf_head`, `outbuf_tail` and the ring, `wr_buf` of `uart-stdio.c`.
`fputc` is a critical section and one action. The ring that runs full counts as
empty: `StdioLosses` bounds how often that happens while one piece is sent, so
that characters can be numbered with few numbers.

`I2c`: `i2c` is state and index of the context, `i2cPc` is `"start"` while
`i2c_start_transaction` waits for the bus. Reads of length zero are excluded:
`length - 1` is the largest `size_t`.

### Nrf

`nrf` is `nrf_ctx`: direction, settings, `dirty` bits, and the state, which is
the step the switch statements look at next. `Steps` lists the steps in the order of
the `case` labels and `NextStep` is the falling through to the next one whose dirty
bit is set. `Handle` is the dispatch of `nrf_handle_setup`, `nrf_handle_receive`
and `nrf_handle_send`; `bus` is the queue of SPI transfers, in which the static
transaction of `nrf_interrupt` stands with the others. `radio` is the chip, from
how the code uses it. `did` and `held` are history variables: what became of
the request on the air, and where the comparisons of the code are right (`Held`): for
which direction the address of the last request was written, whether the last length
was, and whether no delay of 250 us was set after the data rate had been written.
`NrfSetUp` claims the address, the width and the delay in those cases and all other
registers always; `nrf_address` shows a send outside them.

Kept from the code: the "NOP" by which `nrf_interrupt` reads the status is a write of
what the last one returned, from the second interrupt on (`nrf.c:291`, `seen`);
user callbacks run in the middle of `handle_status`, which queues the clearing of the
status afterwards; switching direction writes FEATURE and DYNPD again.

Requests and the settings with a dirty bit come while no request is under way:
dirty bits are bit fields that a thread and a callback would change with the
same read and write of a byte. At most `NrfPending` settings change between two
requests. The radio is just powered on at `nrf_init`, which relies on it.

## Runs

| run | shows | bounds |
|---|---|---|
| `sched_core` | the queues and states agree; no thread lost; priorities respected; the slice timer armed exactly when needed; realtime threads keep the processor; `ThreadSpec` is implemented; no starvation among equals | three threads (the current one, one queued and one asleep, or two on one queue), two channels, of which one nobody wakes, priorities 0 to 2 and an illegal one, slices of two units: a slice that is used up, and one that is partly left |
| `sema` | no lost wakeup; `SemaphoreSpec` is implemented; a covered request does not wait for ever | three threads of one priority (safety for all priorities is proved), amounts 1 and 2, count up to 2: waiters whose requests differ and a post that covers only one of them |
| `timeout_exact` | timeouts are late by at most two ticks plus one stall for each timeout of the program; the clock is exact | two timers, period 5, delays up to 1 so that timer and stalls stay within a period; a tick may fall into each piece of masked code; 9 ticks, almost two periods |
| `timeout_any` | list sorted, callbacks never early | period 2, delays beyond it, a reference, 5 ticks |
| `timeout_period` (violated) | the clock loses a period | a delay of 6 with period 4 |
| `timeout_reference` (violated) | a reference does not start the clock | one reference |
| `usb_abandon` (violated) | the stall for an unexpected SETUP goes into the wrong half | a host that goes on after a timeout |
| `usb_stale_stall` (violated) | a stall left in the send descriptor answers a later request, and the next SETUP finds no descriptor | tokens that outrun the handler in requests with data to the device |
| `flash_race` (violated) | a thread runs a transaction again that is over | two transactions, one thread |
| `nrf_address` (violated) | a send to the address last listened on goes elsewhere | one address, one of everything |
| `drivers` | the drivers, the control endpoint and the firmware download, one at a time; see below | see below |
| `i2c_repeated_start` (violated) | a transaction without STOP, with another behind it, waits for itself | two transactions |

The drivers share no state, so `MCDrivers` runs one and lets the others stand in
their initial states (`driver`): a sum of their state spaces, not a product. It shows:

* `Spi`, `Uart`, `I2c`: frames in step, the last byte of a read refused, whatever is
  queued ends. Two transfers each, FIFOs of 2, lengths that leave less, as much and
  more than a FIFO.
* `SpiFlash`: the chip takes what it is sent, every transaction ends. Two
  transactions of every kind, one thread and the callbacks. The constraint
  `NotRaced` ends a behaviour where a thread was overtaken, after which neither
  property claims anything.
* `Cdc`, `Stdio`: bytes in order. A CDC buffer of 3; a ring of 5 with pieces of 2 and
  one loss.
* `UsbControl`: data whole, toggles, ping-pong and address in step, refusals reach
  the right request, the next SETUP gets through, every transfer ends. Packets
  of 2; transfers of 1 to 5: shorter than a packet, one packet, several with and
  without a short end, more and less than what there is; every kind of request,
  accepted and refused; tokens that outrun the handler in all of them; resets
  and timeouts at any time. A packet of 2 already has all cases of full, short
  and empty.
* `Dfu`: what the tool believes to be in flash is there; offset and blocks in step;
  errors stick; sessions end. Two sectors of two units; seven images: short, whole,
  with a short end, too long, with a short block in the middle, with a block above
  the sector size. The theorems lift the bounds.
* `Nrf`: the radio is set up as asked, its callback truthful, every request ends.
  One address used both ways and another, one length for both directions, the
  shortest delay, two data rates, both kinds of payload, two packets that may come before the
  first is read. Three instances, as all at once would be too many states:
  every setting, one pending (`Settings`); both addresses and packets left behind
  (`Addresses`); power saving (`PowerSaving`). The theorems have no such division.

Fairness:

* `sched_core`: a pending PendSV is taken and an enabled SysTick expires, which the
  hardware guarantees; no thread is assumed to make a system call.
* `sema` adds strong fairness for each thread's next step in `sema.c`: a
  thread that is on the processor again and again gets on, since a slice of less
  than 1/256 of a full one is not resumed but renewed
  (`md_sched_update_timeslice`). It is checked for threads of one priority, as
  nothing in the code keeps a realtime thread from holding the processor.
* `drivers`: the USB interrupt is served, and a host goes on with the transfer it
  began or gives up; the download tool goes on, an asynchronous write ends. Handlers
  run when they are due and return, controllers move what they
  hold, the flash chip finishes a write, a thread gets through `spiflash_schedule`, bytes keep coming while a UART read is
  queued, the radio ends what it sends, and packets come while it listens. The
  UART's line needs strong fairness because it stands still once it has moved
  `UartMoves` bytes within one handler. Nothing is assumed of who queues what.

## Findings

* **A timeout of more than 65.5 s loses whole periods** (`timeout.c:17`, run
  `timeout_period`). The overflow entry is due one tick less than a period after
  the last look at the clock, and its interrupt comes a tick later, when the
  counter shows exactly the value it had. The epoch is not advanced.
* **`timeout_get_ref` does not start the clock** when nothing is queued
  (`timeout.c:56`, run `timeout_reference`).
* **The stall for an unexpected SETUP is not where the controller looks**
  (`usb.c:552`, run `usb_abandon`). The SETUP has moved the controller to the
  other half; `usb_pipe_stall` writes the half it has left, and the two stay out of
  step until the bus is reset.
* **A stall answers the wrong request** (`usb.c:351`, run `usb_stale_stall`). A refusal
  stalls both descriptors, and only the receive side is ever cleared
  (`usb_setup_control`; the comment at `usb.c:414` asks for it). The next request
  reuses the send descriptor as soon as it queues a packet, so only one whose first
  packet to the host is its status, and whose status token comes before the
  handler of the last data packet has run, meets the old stall. The host takes the
  request for refused, the device for accepted, and its endpoint waits for a token
  that never comes: the next SETUP finds no descriptor until the bus is reset.
* **A transaction that is over is run again** (`spiflash.c:117`, run `flash_race`).
  `spiflash_schedule` reads `dev->queue` and `flags.running` and marks what it saw with
  interrupts on. If the transaction ends in between, the thread sets `running` in one
  that is no longer queued (`spiflash.h:21`) and sends it; if it is queued
  again later, nobody starts it, and the queue stands still.
* **A send goes to the wrong address** (`nrf.c:398`, run `nrf_address`). `addr_dirty`
  compares with the address of the last request of *either* direction. After
  `nrf_receive` on an address, `nrf_send` to it writes neither TX_ADDR nor RX_ADDR_P0
  (`nrf.h:84`); after `nrf_send`, `nrf_receive` does not write RX_ADDR_P1 (`nrf.h:76`).
* **A repeated START waits for itself** (`i2c.c:53`, run `i2c_repeated_start`).
  `i2c_start_transaction` waits until the bus is free, which the controller, still
  master, holds.

`timeout_exact` answers the question of `timeout.c:115`: one tick during the
traversal is harmless, because a timeout is due at least one tick later.

### Seen while modelling

TLC showed the following as well when a property was stated more strongly than
in the runs; the properties except them.

* `nrf.c:384`: `payload_size` is compared with the length of the last request of
  either direction, or of the last dynamic packet; a first receive of as many bytes
  as were last sent leaves RX_PW_P1 at 0, "pipe not used" (`nrf.c:121`), and may wait
  for ever (`NrfRightWidth`, `NrfEnds`).
* `nrf.c:431`: that 250 kbps needs a delay of 500 us (`nrf.c:430`) is seen to when the
  rate is written; a `nrf_set_autoretransmit(0, n)` later goes through (`NrfRetryDelay`).
* `spiflash.c:223`: a write without a callback does not wait for the chip, and the
  next transaction's command comes while it is busy and is ignored (`FlashTakes`).
* `sched.c:59`: a slice of stack junk whose low 24 bits are 0 is a timer that never
  fires; the new thread runs until it gives the processor up (`Unclocked` in
  `TimerArmed`, `NoStarvation`).
* `nrf.c:257`: a second packet that comes before the interrupt is served stays in the
  FIFO with RX_DR cleared, and the next receive waits beside it until a further one
  comes (`nrf.h:76`).
* `stdio.c:51`: the count of buffered characters is unsigned, so "more than half
  full" (`stdio.c:64`) holds for every character once the ring has wrapped.
* `stdio.c:62`: the character that fills the ring does not cause a flush, and the
  full ring is lost even with an idle device.
* `stdio.c:64`: a newline that finds the UART busy, or ends a line longer than
  `wr_buf`, leaves the rest in the ring until something else is printed.

## Proofs

Nothing is assumed but the named assumptions on the constants (which TLC evaluates
in the runs) and, for the timers, `NoWrap` and `Short`, for the USB endpoint
`Civil`. Each component's proof has the same form:
an inductive invariant, a lemma for every action, the theorem by PTL.

**Scheduler** (`SchedProofs`), for any set of threads and channels, any slice and
any arguments of `thread_setprio`: `SchedInvariant` (the inductive invariant),
`TypeCorrect`, `QueuesAreSound`, `NoThreadIsLost`, `PrioritiesHold`, `TimerIsArmed`
and the action property `RealtimeIsKept`.

`QueuesSound` is not inductive: that a dispatched thread is on no other queue
needs that *every* thread on a queue has the queue's state and priority and that
the thread being put back is on none. `SchedInv` therefore says that membership
in a queue is *equivalent* to the state, that nobody but `curthread` is running,
and that nothing runs before boot. There is one lemma for each handler; the
delicate ones are `SysWakeupStep`, where a wakeup distributes threads over the
queues (`RefillFacts`), and `PendSVStep`, which goes through the queues in the
middle of `scheduler()` (`PutBack`). Priorities and the timer build on it
(`RankInv`): a step either leaves a reschedule pending, which excuses both
properties, or is a dispatch of the best thread (`PendSVRanks`), a wakeup of nobody
better (`SysWakeupRanks`), or the creation of a thread that is not dispatched yet
(`ThreadInitRanks`). `RealtimeKeepsCpu` then needs `TimerArmed`, which rules out
`SysTick` under a realtime thread, and that no priority is below `REALTIME`.

`QueueLemmas` supplies what the list operations do. `Keep` is recursive; that its
definition has a solution and what it returns is shown by a
least-counterexample argument from the well-foundedness of the naturals
(`LeastNat`, `KeepDefined`, `KeepFacts`).

`SchedulerImplements` is the refinement: every handler is a step of `ThreadSpec`, or
a stutter, under the map from states to statuses.

**Semaphores** (`SemaProofs`): `SemaTypeCorrect`, `NoWakeupIsLost`, `SemaIsAProgram`
(a behaviour of `Sema` is one of `Sched`, so all the above holds of it) and
`SemaIsAtomic` (the refinement of `SemaphoreSpec`). `NoLostWakeup` needs to know that
only `sema_wait_count` puts threads to sleep and only on the semaphore
(`SleepsHere`), that requests are positive and an unconditional swap has seen enough
(`Asked`), and the scheduler's invariant, without which a sleeper could be
on no queue a wakeup looks at.

**Timers** (`TimeoutProofs`), under `NoWrap` (the run ends before the 32-bit
clock wraps): `TimeoutTypeCorrect`, `ListStaysSorted`, `NothingIsEarly`. The
clock can gain up to a period each time the timer is stopped, because the counter is
cleared; `ClockBound` bounds the epoch by the ticks. The list invariant has three parts:
`Sorted`; `WrapSoon`, that the overflow entry is due within a period, which is
why putting it at the head without a look is right; and `InTime`, that while a timeout
is queued the counter keeps pace with the ticks and the time left is the time asked
for. `NothingIsEarly` follows from `InTime` at the moment a callback starts.

`ClockIsExact` and `NothingIsLate` need more, `Short`: no references, stalls of at
most one tick (the answer to `timeout.c:115`; with longer ones the compare value can
be in the past when it is programmed), and timeouts that with a stall stay within a
period. The runs `timeout_reference` and `timeout_period` show what becomes of the
clock otherwise; the constants of `timeout_exact` satisfy `Short`. The
invariant is `Pace`: each entry is due when it was asked for, no entry is a
period away (`AsAsked`, so that no overflow entry is ever needed, `NeverWraps`); the
counter shows the time while anything is queued (`Counting`); outside the handler the
timer is armed for the head, whose time has not passed, or the interrupt is pending
(`Armed`); and masked code has read the clock no longer ago than its stall
(`JustRead`). The lateness of an entry is bounded by its *position*: an entry with
`i` before it has been waiting for all but `i` of the callbacks that can run before it,
each one stall long. The sum over all of them is bounded by the number of timers
(`ListFits`, from `FS_Injection`). A bound by the number of entries still queued, which
`OnTime` once stated, holds for two timers and is false for three: it shrinks while
the callbacks of the others run.

**USB control endpoint** (`UsbProofs`), for any packet size and any requests:
`UsbTypeOK`, `UsbSetupGetsThrough`, `UsbPingPongAgrees`, `UsbDataIntact`,
`UsbAddressAgrees`, `UsbVerdictAgrees`. The assumption is `Civil`, the host of the run
`drivers`: it resets the bus after giving up (`usb_abandon` is the one that does not),
and handshakes get lost where the protocol can repair it; its tokens outrun the
handler wherever `FastRequests` says. The invariant `UsbInv` is a disjunction of the phases of a
control transfer (`Phases`): in each, what device, descriptors, controller and host
hold of the transfer are related as a whole, among them a packet that one side has
and the other does not know of, a status stage whose handshake was lost while the
next SETUP is already possible (`Ready`), and a stale stall, before (`MetStall`) and after
(`Misled`) the device has answered the request the host has given up on. Each action leads from a phase to a phase. The
properties are read off the phases: none is inductive alone, since what the next packet
does depends on position, rest, toggle and ping-pong of both sides.

**SPI** (`SpiProofs`), for any set of transfers, lengths and depth of the FIFOs:
`SpiStaysInStep`. `SpiInStep` speaks of the frames of the head while it receives;
that it goes on holding needs that no more are under way than the receive FIFO and the
shift register hold (`SpiFlowing`, which is what keeps the FIFO from an overrun), that
nothing of a finished transfer is left on the wire when the next one
starts (`SpiEnding`, from EOQ), that what waits has not been started (`SpiWaiting`),
and that the handler's copies of the flags are still good when it acts on them
(`SpiCopies`), although frames went on in between.

**Radio** (`SpiProofs`), for any addresses, lengths, settings, payloads and depth of
the receive FIFO, shared or not: `RadioIsSetUp` and `VerdictIsTrue`. The invariant `NrfInd`
is a disjunction of the phases of a request: `Idle`, `SettingUp`, `Waiting`, `Fetching`,
`Finishing`. Each says what is on the SPI bus, which is at most one command of the chain
and the write that clears the status, in front of it or behind. `Known` is what the dirty
bits promise between requests: a register whose bit is not set holds its setting, the
address and width registers those of the last request, where `held` says so; `Kept`
carries that over for the direction a request does not use.
`RightUpTo` is the same in the middle of the chain, where the bit of TX_ADDR and FEATURE
is kept for a later step and a register counts as written while its transfer is still on
the wire (`Written`). The verdict needs `Answered`: every bit of the status that is
set while the radio is off has been seen, and its clearing is on the bus or, when the
callback has run, about to be; and `MoreFrom`: while the clearing
stands behind a command of the chain, yet another command follows, so that the radio is never let loose with an
old event in its status. `ChainFacts` reduces the fall through the `case` labels to a
step that is needed and has only unneeded ones before it.

**DFU** (`DfuProofs`), for any sector size, number of sectors and images:
`DownloadsAreExact`, `BlocksAreKept`, `ErrorsStick`. The invariant relates tool and
device in each phase: between blocks (`Sending`), while a block is on its way
(`Receiving`), until its end is known (`Polling`), with `Written(n)`: all blocks up
to `n` in place, all before it whole, `last` telling whether `n` was short. That
`last` is right is what keeps images with a short block in the middle out.

**SPI flash** (`DriverProofs`): `ChipTakesCommands`, for any number of
transactions and threads. Until a thread has been overtaken, the linked list is sound
(`ListSound`: it leads to queued transactions only, and to each by one way), the
transaction on the bus is its head and the only one running (`HeadOnBus`), and the
chip is busy only while the driver polls it or after a write that nobody waits for
(`ChipFollows`).

**I2C** (`DriverProofs`): `LastByteIsRefused`, for any transactions and lengths. In
a read the acknowledge is off exactly from the moment when one byte is left, and while a
transaction waits for the bus nothing is on the wire.

**USB serial port** (`DriverProofs`): `BytesStayInOrder`, for any size of the buffer
(`CdcAssumption`). The bytes still in `outbuf` are the last ones the host waits for:
they are numbered from `First` up to the next one written, where `First` is what the
host expects, less what it already has of the packet under way. A packet the host
took before `cdc_tx_done` runs is therefore still at the front of `outbuf`. The other
half is that nothing is with the controller unless `out_queued` is set.

**stdout** (`DriverProofs`): `CharactersStayInOrder`, for a ring and a `wr_buf` of
any size (`StdioAssumption`). `PieceHolds` and `RingHolds` say that the piece on the
line and the ring behind it hold consecutive numbers, the ring from `Leading` on:
what the line expects, plus the rest of the piece, plus a ring for each time it ran
full. `PutStep` is a character more, with the ring that runs full and so becomes
empty; `FlushStep` moves characters from the ring to the piece, and covers the flush that
finds the UART busy. The ring's indices are remainders (the second part of
`QueueLemmas`).

Every safety invariant and action property of the passing runs is proved. Liveness
(`NoStarvation`, `SemaProgress`, `RequestEnds`, `SessionEnds` and the properties that
transfers end) is beyond the proof system and stays with TLC.

## Not modelled

* Registers, stacks and the exception entry of `sched-m3.c`; a thread is the
  choice of its next system call.
* `crit_enter`/`crit_exit` nesting: the code between them is atomic.
* The 32-bit wrap of the software clock after 49 days (the runs are shorter);
  `timeout_cancel` of a timeout that is not queued, which nobody does;
  `timeout_put_ref` without a reference, which panics.
* USB endpoints other than 0, suspend and resume, the list of attached functions
  (which configuring twice would tie into a loop, `usb.c:611`), HID and WCID, which
  answer requests without state of their own; the receive side of CDC and its stdio
  stream, which pass packets on.
* More than one segment of a DFU device, the application that updates the
  loader (`dfu-app.c` beyond the detach request), `flash.c`'s busy waiting.
* `lpuart.c`, the UART without FIFO, with the methods of `uart-fifo.c`; `i2c_reg.c`, which
  calls `i2c_queue` with an argument missing and does not build.
* `rtc.c`: alarms are a list like that of the timers, but an alarm added later than
  another takes its slot, and cancelling the head leaves the alarm register as it is.
  No comment, header or test says what should happen to the first one.
* `adc.c`: one conversion and its callback; `active` is never set by
  `adc_sample_start`, and `adc_queue.c` is written for an older interface of it.
* Of `nrf.c`: `nrf_set_crc_length` and the output power, values written with every
  CONFIG and with the data rate; requests and settings while a request is under way; a
  processor that restarts while the radio does not. Of `stdio.c`: `snprintf`, and an
  `fflush` while another thread prints. Of `sg.c`: the addresses; a list is the
  number of its bytes.
* Pins, GPIO, FTM, DAC, CRC, watchdog, DMA, PIT, start-up code, boards: register access
  without control flow. Formatting (`printf.c`, `strtol.c`). The mass storage boot
  loader, which is no part of the build; the SWD adapter, the EZ-port flasher and the
  descriptor generator, tools around the runtime; the examples, which show what
  callers do.

Most of the repository's lines are generated register definitions
(`src/soc/kinetis/MK*/*.h`, `core_cm4.h`): constants and `struct` layouts without
behaviour, which no definition can stand for. The models cover the code with control flow
of its own; see `components` in `PROJECT.json`.
