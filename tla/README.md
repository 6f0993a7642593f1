# Formal models of the Sumeru SDK

The Sumeru SDK is the run-time library of a small RISC-V board (interrupt-driven
drivers under `src/src/lib`, linked into every program) and the tools that run
on the development machine (`src/src/tool`).  This directory holds TLA+ models
of its core logic, the TLC configurations that check them on small instances,
and proofs that TLAPS checks for every value of the constants.

All paths below are relative to the root of the repository's copy, e.g.
`src/lib/driver/uart.c`.

- Check a model: `tlc -workers 2 -config uart_tx.cfg MCUartTx`
- Check a proof: `tlapm UartTxProofs.tla`

## 1. Inventory

### The program on the board

One thread runs `main`.  Everything else is an interrupt handler, entered with
interrupts disabled through `crt0/interrupt.S` and `os_handle_interrupt`
(`os_main.c`), which looks the handler up in a table that `setup_devices`
filled at startup.  There are no locks: the thread and the handlers share
rings, flags and fields, and are correct only by the order of their stores.
The data cache is not coherent with the devices.

| Component | State | Operations | Hard behaviour | What makes it correct | Module |
|---|---|---|---|---|---|
| UART transmit, `uart.c`, `consprod.c` | ring `prod`/`cons`, `UART_FLAG_TX_STARTED`, control register | `uart_write`, transmit interrupt, `uart_poll` | handlers between any two stores of the writer; write-back before the transfer; turning at the buffer's end; a chain of transfers that must not break | bytes sent in order, once, never stale; a full ring drains | `UartTx`, proofs in `UartTxProofs` |
| UART receive, same files | ring, `sc_rx_lastpos`, `UART_FLAG_RX_STARTED` | `uart_read`, receive interrupt, `uart_poll` | bytes that arrive while the handler runs; stale cache lines; restart of a transfer that is not complete | bytes read in order, none overwritten; loss only where it must be; the receiver starts again after a full ring | `UartRx`, `UartRxProofs` |
| Ring arithmetic, `consprod.c` | none | next and previous slot, free space | wrap-around, off by one at full and empty | transfers never reach the slot that must stay free | `ConsProd`, lemmas in the UART proofs |
| Timer and pollers, `timer.c` | `timer_softc`, `poll_fn` | tick, `timer_enable_callback`, `timer_set_poller`, start, stop | ticks between the stores of a registration; one-shot timer | who may be called when; no null call outside known windows | `Timer`, `TimerProofs` |
| Startup and vectors, `os_main.c`, `dev_alloc_*` | unit counters, dispatch table | `setup_devices` | a UART takes two vectors, the last vector is the GPIO's | every interrupt reaches its own unit | `Devices`, `DevicesProofs` |
| SD card, `spi_microsd.c`, block device in `sumeru_fatfs.cpp` | none between calls; the card's | init, read, write, several sectors | late, refused and busy answers; retries; a failure in the middle of several sectors | results are true, calls return | `MicroSd`, `BlockDevice`, `MicroSdProofs` |
| SPI, `spi.c` | `sc_io_pending`, last buffer, callback | asynchronous and blocking transfers, handler | flag set between two register writes; two users of a unit without a lock | a wait ends, for its own transfer if the unit was at rest and no sample began | `SpiTouch`, `SpiTouchProofs` |
| Touch panel, `spi_touch.c` | `s_touch_flag`, `s_touch_state`, sample buffer | poller 1, SPI interrupt, start, stop | start and stop while a sample is under way | a sample is whole, a release follows a press, one call at most after a stop | `SpiTouch`, `SpiTouchProofs` |
| Files and system calls, `unistd.c` | heap end | open, close, read, write, lseek, `_sbrk` | | | not modelled |
| Interrupt entry, `interrupt.S`, `crt0.S` | a block of saved registers per thread, `GTABLE_CURTHREAD`, one word of `g_REENT` | entry, return, switch to another thread | the registers are saved in two halves, at two places; a switch inside a handler | a thread resumes with all its registers; `errno` is its own | `Interrupts`, `InterruptsProofs` |
| GPIO, `gpio.c` | `sc_intr_pending`, the interrupt mask | `gpio_wait_intr`, handler | the interrupt between the two stores of the wait | an edge ends the wait | `Interrupts` |
| I2C, clock, PWM, baud rates | registers | see the files | | | not modelled |
| SPI flash, YAFFS glue | the flash | write enable, command, wait | | | not modelled |

`uart_poll` connects the timer with the UARTs: it is registered in poller slot
0 and starts a transmitter or receiver that is idle.  The UART modules contain
that poller as an action and the timer's promise that it goes on being called
as fairness; `Timer` shows that promise (`PollerRuns`) from the code of the
timer.  `stop_subsystems` takes it away again, which both sides model.

### The boot console

`tool/bootconsole/bootconsole.c` speaks the bootloader's protocol over a serial
line (or Bluetooth): set address, write 16 bytes, read 16 bytes, copy 256 bytes
to flash, jump.  It keeps an operation state, an offset, the flash copy's
addresses, one checkpoint, a response timer of two seconds and a scheduled
restart.  Its callbacks run one after another on an event loop.  What is hard:
lost, refused and late messages, an answer that does not say what it answers,
and a restart that must bring several variables back together.  `BootConsole`
models it over a UART, `Loader` says what its user relies on, and the proofs are
in `BootConsoleProofs`.

### Not modelled, and why

Nearly all of the repository's lines are third-party code: the toolchain with
its headers and libraries, YAFFS2 (`src/lib/fs_yaffs2`), SdFat
(`src/lib/fs_sdfat`) and the Bluetooth stack.  The SDK's own code is a few
thousand lines, and the modules cover the part of it that keeps state.  Of the
rest:

- Bluetooth transport of the boot console: needs the event loop of the
  Bluetooth stack and the bootloader's extension mode, neither of which is
  described here; for the same reason answers that arrive in fragments.
- SPI flash and YAFFS glue: straight-line code of one thread; what could go
  wrong depends on the flash chip, of which the repository says nothing.
- The SD card's half of `unistd.c` with its table of open files: no makefile
  compiles it (finding 12).  The other half passes each call on to YAFFS or the
  UART; `_sbrk` compares once and adds.
- I2C: the protocol of `spi.c` with another register, and no second user.
- Clock, PWM, baud rates, `uart_peek`: functions without state.  What is wrong
  with them shows on reading (findings 6, 7, 11, 13).
- LCD driver, binary-header tool, sample applications: output without state;
  the applications' calls are among those that the modules make.
- In what is modelled: a user's callback is taken to return, and not to call
  the driver that called it (`Timer` allows that, `SpiTouch` and `Interrupts`
  do not); the cache is modelled for the UARTs only.

## 2. The modules

An action is one access to shared state (for threads), or one handler (where
nothing that runs can tell the difference).  Definitions have the names of the
code's functions and variables.  Definitions introduced by a comment as a
*fault variant* are not part of any specification: each is a plausible mistake,
which a property must notice when it takes the place of the definition after
it.

**`ConsProd`** is the arithmetic of the ring.  Addresses are offsets;
`buffer_end` is `N`.  `Straight` is the common form of the free space
computations in `uart_rx_start` and `uart_tx_start`.

**`ByteFifo`** is the abstract specification: bytes leave in the order they
entered, each once, with at most `Capacity` under way.  Both UART modules
implement it with `Capacity = N - 2`, the transmitter from `uart_write` to the
line (`TxIsFifo`), the receiver from the handler's hand-over to the callers of
`uart_read` (`RxIsFifo`).

**`UartTx`**: `WriteCall`, `WriteWait`, `WriteStore`, `WritePublish` are the
accesses of `consprod_write`; `TxIntr`, `UartPoll` the handlers; `SendByte` the
device; `EvictLine` and `FlushRange` the cache.  Memory and the CPU's view are
two functions, so that a byte sent from a line that was not flushed is visible
as a wrong byte.  A handler is one step because the transmitter is idle when
any of them runs.  The compiled code is taken to store the byte before the
volatile `prod` (`consprod.c` 82-85), as written; the C standard does not
require it since the byte itself is not volatile.

**`UartRx`**: `ReadCall`, `ReadCheck`, `ReadLoad`, `ReadAdvance` are the
accesses of `consprod_read`.  The receive handler is two steps, `RxIntrUpdate`
up to its read of the position and `RxIntrRestart` from there, because the UART
goes on storing bytes.  `EarlyInterrupt` is an interrupt before a transfer is
complete, the case in which the second half gives up bytes that arrived after
the first half read the position; the device's manual is not in the repository
and the handler is written for it.  `sc_rx_lastpos` starts as 0 and is never
used before `uart_rx_start` has set it.

**`Timer`**: the stores of `timer_enable_callback` and `timer_subsystem_stop`
are actions of their own; `TimerIntr` is the handler with the callback it
calls, which may itself register or remove a callback.  At most one tick falls
into a call (a tick is 655360 clocks, a call a few instructions).  The write of
0 to the control register takes a pending interrupt back, so that no tick comes
after `StopTimer`.  Pollers are called on every tick and have no effect on the
timer's own fields.

**`Devices`**: one action per turn of the loop in `setup_devices`, one for the
GPIO behind it.  The initial states are all configuration words.  Entries of
kinds without a driver (0 and 4 to 7) take no vector and are one kind here.

**`MicroSd`**: an action is an exchange with the card.  The card is external:
it may refuse a command, delay a block, take its time over a write, and answers
zeros while it is busy, which the driver reads as "no error".  A block that has
not begun to come when the driver stops asking never comes (a card that sends it
later would be in the middle of a block when the next command reaches it).  The
card is not removed; without one the line reads 0xff, which `microsd_write`
takes for "no longer busy".  A speed that `spi_set_speed` refuses is left out:
it fails before anything is sent.

**`BlockDevice`** is the abstract specification of the SD card driver: a disk
and calls that go through consecutive sectors, one after another and each at one
moment, and either succeed with all of them or fail behind some first ones.
`SdIsBlockDevice` maps `MicroSd` to it.  The disk is what the card holds or has
taken, so that a sector is written when the card takes its block and what it
does with it afterwards is not to be seen: a read after a write that was given
up finds the new contents as soon as it finds anything, and no block reaches the
card behind a call that has returned.

**`Interrupts`**: `Enter`, `Return` and `Switch` are `interrupt.S` up to and
from the call of `os_handle_interrupt`, which is `Handle`.  The four lists of
registers are written down as in the source; a register holds whose value it is
and whether an old or a new one, which is enough to see that one was not saved,
or restored from the wrong place.  The program counter is register 0.  The
sources have one thread and handlers that return 0, but `interrupt.S` is
written for any number and any answer, and so is the module.  The handler that
switches is taken to store the new thread in `GTABLE_CURTHREAD` itself (finding
8).  `errno` is what the code saves and restores under the name of `g_REENT`
(finding 5).  `Arm`, `Unmask`, `WaitOver` and `HandleGpio` are `gpio_wait_intr`
and its handler.

**`SpiTouch`**: the `Transceive` actions are the stores of
`spi_async_transceive` and the wait of `spi_transceive`; `StartFlag` to
`StartPoll` those of `touch_start`.  `TouchPoll` and the two forms of
`SpiIntr` run with interrupts disabled and are a step each.  Nothing keeps the
thread and the poller from using one unit at once, and what the unit does with a
transfer that begins during another is not written down: it keeps to the old or
begins the new.  `spi_async_transceive_done` tests the flag and then drops the
lines of `sc_last_buf`: two steps, between which a sample may take that variable.
The variable `alone` says that a call began with the unit at rest and that no
sample has begun since, `clean` the same of a sample; the properties say what
holds then, and what holds in any case.  So the transfers are shown to mix in no
calls but those that begin during a transfer and those in which `touch_poll`
begins one; a panel that is merely started does no harm.

**`BootConsole`**: `UartReadCb` is `uart_read_cb` with one disjunct per state
that takes an answer; `ResponseTimeout`, `Restart` and `TerminalReadCb` the
other callbacks.  The bootloader and the line are external and are what the
console's protocol takes them to be: `DeviceAccept`, `DeviceRefuse`,
`LoseCommand`, `LoseAnswer`.  Memory is counted in chunks of 16 bytes, flash in
blocks of 256.  Answers are whole: a fragment would be taken for an answer by
the code, and a serial line delivers fragments only of the 17-byte data answer;
they are not modelled.  The terminal is open only when there is
no `-f`, and after a jump; the user types only before an operation begins, since
what is typed during a download would be one more command to the board.

**`Loader`** is the abstract specification of the boot console and the board: a
file goes into memory chunk by chunk and into flash block by block, in order; a
program is started when all of it is there; nothing is written behind the start
or the end; a download is saved in order; and an operation is done when nothing
of it is left.  There is no line and no time in it.  `ConsoleIsLoader` maps
memory, flash, output file and status to themselves and forgets the rest of
`BootConsole`: the protocol's state, the checkpoint, the timers and what is on
the line.

The `MC` modules give the constants that a configuration cannot write.

## 3. The runs

| Run | Instance | Shows |
|---|---|---|
| `uart_tx` | ring of 6, cache lines of 2, transfers up to 3, writes of 1 and 5 bytes, 12 bytes in all | `TxNoOverwrite`, the inductive `TxInv`, refinement `TxIsFifo` (which contains that the wire carries what was written), liveness `TxChainDrains`, `WriteReturns` |
| `uart_rx` | ring of 6, lines of 2, transfers up to 3, reads of 1 and 3, 7 bytes | `RxNoOverwrite`, `RxInv`, `RxIsFifo` (which contains that bytes are read as they were stored), `RxLossOnlyInHandler`, liveness `RxListensAgain`, `ReadReturns` |
| `timer` | two callbacks, one poller, counts 0 to 3 | `NullCallNeedsRace`, `TimerInv`, `EveryNthTick`, `RegistrationTaken`, liveness `CallbackRuns`, `PollerRuns` |
| `devices` | the tables of the sources: 16 vectors, 8 entries, 3 UARTs, 5 SPIs, 2 I2Cs; all 4^8 configurations | `DevicesInv`, `InterruptsServed`, `VectorsStay` |
| `microsd` | two sectors, two values, calls for one and two sectors, also past the end; 3 tries at init, 2 otherwise | the inductive `SdInv`, `ResultTrue`, refinement `SdIsBlockDevice`, liveness `CallReturns` |
| `boot_console` | six command lines, blocks of 3 chunks, files of 2 blocks, downloads of 4 chunks, 4 faults | `DoneIsTrue`, the inductive `ConsoleInv`, `RestartNearby`, refinement `ConsoleIsLoader`, liveness `Finishes` |
| `interrupts` | two threads, error numbers 0 and 2 | the inductive `IntrInv`, `Resumes`, `ErrnoOwnOrZero`, liveness `EdgeEndsWait` |
| `spi_touch` | one unit, one thread; no bounds | the inductive `TouchInv`, `TransceiveDone`, `SampleWhole`, `ReleaseAfterPress`, `LateOnce`, liveness `SamplesGoOn`, `TransceiveReturns` |
| `boot_upload`, `boot_flash`, `sd_sectors`, `errno` | one operation each, one thread for `errno` | violations, see the findings |

**Why the bounds are enough.**  The ring of 6 with `N - 2 = 4` usable slots is
longer than a transfer (3), not a multiple of it, and holds three cache lines
that transfers begin and end inside; 12 bytes turn the transmit ring twice, and
a write of 5 does not fit, so that the writer waits.  On the receive side 7
bytes turn the ring once with a restart in between; the proofs cover every
number of bytes.  Counts 0 to 3 are: none, the racy one, and two that differ in
whether a tick inside a registration makes them due.  The vectors are checked
with the real sizes.  A card's behaviour is independent of the number of tries,
two sectors make a first and a last, and two values tell a sector that was
written from one that was not.  For the console blocks of 3 chunks have a first,
a middle and a last chunk, and a download of 4 is not a multiple of a block;
four faults allow a restart to fail again.

Two threads are one that runs and one that waits, and the proof covers any
number.  `SpiTouch` has no constants: its run is exhaustive.

`TxWireFaithful` and `RxFaithful` say of a single state what `TxIsFifo` and
`RxIsFifo` say of a step; they are proved, but no run checks them apart.

The invariants `TxInv`, `RxInv`, `TimerInv`, `SdInv`, `ConsoleInv`, `IntrInv` and
`TouchInv` contain the modules' type invariants.

`CHECK_DEADLOCK FALSE` is given where the system may stop: after the last byte
of the bound (UART), after `timer_subsystem_stop` or a null call, when a table
is filled, when the card was refused, and when the console has exited.

**Fairness.**  UART: the thread runs when no handler does (weak fairness of
`WriterStep`; strong of `ReaderStep`, which a handler disables for its two
steps, again and again); a pending interrupt is taken; the poller is called
while it is registered, which is what `PollerRuns` of `Timer` says; a transfer
under way makes progress.  No fairness for the program's calls, the arriving
bytes, the cache, or the end of `main`.  Timer: an armed timer ticks, a call
gets to its end.  Card: the thread runs; the card need not finish anything.
Interrupts: a handler gets to its end, a request of the GPIO is served (strongly
fair, since other interrupts disable it for their duration), and `Main` takes
its next step in `gpio_wait_intr` if it is given the processor again and again;
nothing makes a handler give it back.  Touch: transfers end, interrupts are
taken, the poller is called while registered, the thread gets through its calls;
`TransceiveReturn` is strongly fair, since the wait looks at the flag many times
between two ticks.  Console: the event loop serves what is ready, the bootloader takes commands; no
fairness for faults, none for the user.

**What `NullCallNeedsRace` says.**  The null callback can be called, in two
windows of one instruction each: between the stores of `sc_max_ticks` and
`sc_callback` when the first callback is registered for every tick (`timer.c`
98 and 99, count 1), and between the two stores of `timer_subsystem_stop` (82
and 83) when the count in force is due.  Nowhere else.  The first needs a count
of one, the second a callback left registered when `main` returns.

**What `boot_console` leaves out on purpose.**  The bootloader does not refuse
chunks or reads and no answer is late; the findings show what happens then.

## 4. Findings

1. `bootconsole.c:685`: an answer that was not expected makes
   `restart_operations` set a state that `uart_read_cb` overwrites with the old
   one.  The upload goes on with one chunk per restart in the wrong place
   (`boot_upload`).
2. `bootconsole.c:386`: an answer later than the time-out is taken for that of
   the next command; the console reports the end of a flash copy before its last
   command was carried out (`boot_flash`).
3. `bootconsole.c:718` and the usage text at 325: `-o` alone does not read
   memory; nothing begins the operation.
4. `sumeru_fatfs.cpp:63` and 89: `readSectors` and `writeSectors` return true
   exactly when the transfer failed (`sd_sectors`).  Latent: the configured file
   system does not call them.
5. `interrupt.S:155`, `crt0.S:59`: `g_REENT` is taken for a pointer and is the
   structure, whose first word is `errno`.  Every interrupt clears it (`errno`).

The others were met on reading and have no run:

6. `constant.h:107`: the SPI clock selectors from 4.5 MHz down do not survive the
   shift; the touch panel asks for 1.125 MHz and gets 36.
7. `pwm.c:83`: a duty cycle of 0 is one of 100.
8. `interrupt.S:205`: the switch that `os.h` promises leaves `GTABLE_CURTHREAD`
   to the handler.
9. `interrupt.S:127`: the interrupt context has a stack of its own,
   `helloworld.c:8` says it has not.
10. `os_main.c:152`: `exit` does not re-execute the boot code.
11. `uart.c:341`: a refused baud rate is reported as success.
12. `Makefile.sdfat:1`: the SD card's half of `unistd.c` is never compiled.
13. `uart.c:261`: `uart_peek` looks into the transmit ring.

In the card's initialisation a card that becomes ready at the very last retry is
given up (`spi_microsd.c:104`): a card is refused, never wrongly accepted.

## 5. The proofs

All are of the form: an invariant that holds initially and is preserved by each
action (one lemma per action), then the property from it.

| Module | Theorems | Assumptions |
|---|---|---|
| `UartTxProofs` | `TxInvariant`, `TxFaithful`, `TxWriterStaysOut`, `TxImplementsFifo` | `NAssumption`: the ring has at least 3 slots, `TxAssumption`: positive sizes |
| `UartRxProofs` | `RxInvariant`, `RxReadsFaithfully`, `RxUartStaysOut`, `RxLosesOnlyInHandler`, `RxImplementsFifo` | `NAssumption`, `RxAssumption` |
| `TimerProofs` | `TimerInvariant`, `TimerNullCalls`, `TimerPeriod`, `TimerRegistration` | `TimerAssumption`: the null callback and `no_poll` are not the program's |
| `DevicesProofs` | `DevicesInvariant`, `DevicesKeepVectors`, `DevicesServeInterrupts` | `FitAssumption`: `5 + PeriphMax + MaxUart <= IvecMax` |
| `InterruptsProofs` | `IntrInvariant`, `ThreadResumes`, `ErrnoSafe` | `ThreadsAssumption`: `Main` is a thread, `NoThread` is not, error numbers are integers |
| `MicroSdProofs` | `SdInvariant`, `InitIsTrue`, `ResultIsTrue`, `SdImplementsBlockDevice` | `SdAssumption`: positive numbers of retries and sectors, `Blank` is no sector's contents |
| `BootConsoleProofs` | `ConsoleInvariant`, `ConsoleSaysTrue`, `ConsoleRestartsNearby`, `ConsoleImplementsLoader` | `BootAssumption`: blocks have chunks; `Orderly`, as a hypothesis: no chunk and no read is refused, no answer is late |
| `SpiTouchProofs` | `TouchInvariant`, `TransceiveIsDone`, `SamplesAreWhole`, `ReleaseFollowsPress`, `TouchLateOnce` | none: the module has no constants |

**Transmit.**  That the wire is right is not inductive: one must know that the
bytes between `cons` and `prod` are the last ones stored (`RingInv`), that
memory differs from the cache only in dirty lines (`CacheInv`), that the
started flag is set exactly while a transfer or its interrupt is outstanding and
the transfer covers the oldest queued bytes, written back (`TransferInv`), and
that the slot the writer found free stays free until it publishes
(`WriterInv`).

**Receive.**  In the same way: unread bytes are in memory and in no stale line
(`RingInv`, `CacheInv`); from `lastpos` to the position of the register are the
bytes kept but not published, and the rest of the transfer fits into the free
slots, whether the flag is set or the handler is between its halves
(`TransferInv`).

**Timer.**  `CallbackInv` says at which places of the calls a count may be in
force without its callback, `CountInv` by how much `sc_cur_ticks` may be ahead.

**Devices.**  `CountInv` relates the vectors given out to the entries read and
the units counted.  `FitAssumption` is tight with the sources' constants
(16 = 5 + 8 + 3): the guard `vnr < CPU_IVEC_MAX - 1` alone would let a UART's
second vector be the GPIO's.  One more UART in `uart.c` needs more vectors.
`ServedInv` adds that the driver's counts agree with the processor's (`Before`,
`FirstVector`), so that an entry's handler is installed where the processor will
look for it; since no vector is given away again it stays there.

**Interrupts.**  That a running thread has its registers is not inductive:
`ContextInv` says where they are otherwise, all in the thread's block while it
is suspended, and during an interrupt one half in the block and one in the
processor, which the handler preserves.  The lemma `Lists` is what the proof
needs of the register lists of `interrupt.S`: what is restored was saved, the
two halves make up all registers, and the half saved late is what a C function
preserves.

**SD card.**  `CardInv` says that a card sends or takes a block only in the call
that asked for it, which makes the zeros of a busy card harmless; `WaitInv` that
the block a write waits for is the card's job or done; `PrefixInv` that the
sectors a call is past are done and no job of the card can undo them;
`SuccessInv` that a success leaves the card at rest.

**Boot console.**  Commands and answers carry no numbers, so that everything
rests on console and board being in step.  `LineInv` says that at most one
message is under way and that it is the command of the state, or its answer;
`PlaceInv` that the board is at the address the console takes it to be at, and
has done what it answers for; `CheckpointInv` which checkpoint a state has, so
that a restart comes back to a state whose prefix is done; `DoneInv` what is
done in each state.  Both halves of `Orderly` are needed, as the runs
`boot_upload` and `boot_flash` show: a refused chunk breaks `LineInv`, a late
answer that at most one message is under way.  The refinement of `Loader` needs
two things more than the properties of a state do: that the states of the jump
and of the flash copy are only reached by the command lines that ask for them,
and that a jump that was answered was carried out.

**Touch panel.**  The thread's transfers and the panel's samples share a unit
that nothing guards, so that the invariant says what each may still rely on.
`AloneInv`: a call that found the unit at rest has it to itself until it returns
or a sample begins, and waits either for its own transfer or with that transfer done.  `SampleInv`:
a sample in progress has its transfer or its interrupt to come; while `clean`
holds it is the panel's own, the buffer holds the question until the answer is
there, and the thread is in no transfer.  Neither is inductive without its first
line: the callback is installed before the poller is, and stays.  `ReportInv`
ties what the user was told last to `s_touch_state`, and counts the sample under
way among the calls that may come after a stop.  The action properties follow,
each from the invariant before the step.

**Refinements.**  `TxIsFifo`, `RxIsFifo`, `SdIsBlockDevice` and `ConsoleIsLoader` follow from the
inductive invariants, with one lemma for each action that says which abstract
step it is, or that it is none.  For the SD card `CardInv` and `WaitInv` carry
it: a card takes a block only while the call that sends it is under way, and
the block that a write goes past was taken.

**Only model-checked:** the liveness properties (`TxChainDrains`,
`WriteReturns`, `RxListensAgain`, `ReadReturns`, `CallbackRuns`, `PollerRuns`,
`CallReturns`, `Finishes`, `EdgeEndsWait`, `SamplesGoOn`, `TransceiveReturns`):
fairness and `ENABLED` are out of the prover's reach.  Every invariant and every
action property that a run shows is a theorem.
