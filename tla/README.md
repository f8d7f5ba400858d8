# TLA+ models of the SAMWISE flight software

This directory models the flight software of the SAMWISE CubeSat (C, RP2350),
together with the parts of its ground station and of its Raspberry Pi payload
(Python) that it talks to. The modules are specifications checked with TLC on
small instances; the theorems are checked with TLAPS for all values of the
constants. Paths below are relative to the repository root.

## 1. Inventory

The firmware is a blackboard (`slate_t`, `src/slate/slate.h`) written by tasks
that a cooperative scheduler runs one after the other, plus a few interrupt
handlers. Nothing preempts a task except those handlers; everything that waits
(`safe_sleep_ms`, UART timeouts) waits inside a task.

| Component | State it keeps | Operations | Talks to |
|---|---|---|---|
| Persistent record, `src/drivers/flash/flash.c` | one flash sector: marker, reboot counter, burn wire attempts | load, increment reboots, increment/reset attempts | main, burn wire task and states |
| Boot, `src/main.c`, `src/init/init.c` | RAM only | dispersal delay, load and count the boot, initialise drivers and scheduler | flash, scheduler |
| Scheduler, `src/scheduler/`, states `src/states/` | current state, override request, per-task deadlines | dispatch one pass: due tasks, then the transition | all tasks |
| Burn wire task and driver, `src/tasks/burn_wire`, `src/drivers/burn_wire` | relay and two MOSFET outputs, attempts in flash | one attempt: burn A, burn B, count it | panels' detect pins, flash |
| Packet authentication, `src/packet/packet.c` | last message id accepted since boot (RAM) | accept or reject a packet | command task, ground `state.py` |
| Command task and parser, `src/tasks/command` | payload command queue, counters | take one packet per pass, authenticate, execute | radio queues, scheduler override, payload, ADCS |
| Radio task and driver, `src/tasks/radio`, `src/drivers/rfm9x` | tx and rx queues, chip mode, counters | dispatch, TX-done and RX-done interrupts | command and beacon tasks, ground |
| Beacon and telemetry, `src/tasks/beacon`, `src/tasks/telemetry` | slate fields | sample sensors, serialise the slate, queue a beacon | radio queue |
| File system, `src/filesys/filesys.c` | one write session: name, CRC, buffer, dirty flag; littlefs on MRAM | start, buffer, flush, complete, cancel, list, read | MRAM driver, littlefs |
| littlefs, `lib/littlefs-SSI/lfs.c` (vendored) | the root directory's metadata pairs on disk; open files and the allocator's window in RAM | format, mount, commit (append, compact, split, relocate), allocate, write, sync, close | the block device `lfs_mram_wrapper.c` |
| UART link to the ADCS, `src/drivers/communications`, `src/drivers/adcs`, `src/tasks/adcs` | two 256-byte rings shared with interrupt handlers; COBS framing | receive and transmit interrupts, packet extraction, telemetry | ADCS board |
| Payload link, `src/drivers/payload_uart`, `payload/helpers/serial_packet_handler.py` | none across packets | handshake: sync, header, acknowledgement, body, acknowledgement | payload task, Raspberry Pi |
| Payload task, `src/tasks/payload` | command queue, retry count | take a command, send it, retry | payload link |
| File transfer, `payload/helpers/serial_file_transfer.py` | missing-packet list, group counters | send groups, ask for and resend what is missing | payload link |
| Watchdog, `src/drivers/watchdog`, `src/utils/safe_sleep.h` | feed pin phase and time | feed | every long wait |
| Ground station, `ground_station/` | boot count and message id in RAM and in a file | sync from beacon, next id, save, send command | radio |

What is hard here, and hard to test: a power loss at any instruction (a burn
draws the most current the satellite ever draws); interrupt handlers that share
queues, ring indices and the radio chip with the task level; a radio that loses
packets; handshakes with time-outs on both sides; several RAM copies of one
persistent record; sessions on a file system whose every call may fail; a file
system on a chip whose erase does nothing; waits that add up between two feeds of
the watchdog.
`PROJECT.json` lists these under `hazards`, each at its line.

## 2. Modules

| Module | Models | Builds on |
|---|---|---|
| `PersistentData` | the flash record of `flash.c`: load, the four writers, a write as erase and program | |
| `Deployment` | boot, scheduler states with the ground override, burn wire task and driver, under power losses | `PersistentData` |
| `CommandChannel` | abstract: commands are issued and executed at most once each | |
| `CommandDispatch` | the command parser, the payload's command queue, the payload task with heartbeat and retries, the state override | implements `Outbox` |
| `Outbox` | abstract: commands are numbered, refused when full, written in turn or given up after all tries | |
| `Watchdog` | feeding pin and software watchdog against the waits of boot, burn wire, telemetry, ADCS and payload, and the deadlines of the scheduler | |
| `LfsDir`, `MCLfsDir` | littlefs's root directory as slots in blocks, with a loss of power or a bad block at any write; the MC module gives the symmetry of the blocks | implements `LfsDirectory` |
| `LfsDirectory` | abstract: an operation on an entry takes effect at once and as a whole | |
| `LfsAlloc` | littlefs's block allocator and files, under a write session of `filesys.c` | the commits of `LfsDir`, as one step |
| `Uplink` | ground station numbering, the air, receive queue, command task, packet authentication, restarts of both ends | implements `CommandChannel` |
| `Radio` | `radio_task_dispatch` against the two interrupt handlers and the registers of the RFM9X | |
| `AdcsUart` | the two rings of the ADCS UART between the interrupt handler and the ADCS and command tasks | |
| `Filesys`, `MCFilesys` | the file layer over littlefs, with every littlefs call failing and power losses; the MC module names the contents of the instance | |
| `PayloadLink` | the serial handshake, both ends, with the payload task's retries and the payload's loop | |
| `FileTransfer` | groups, acknowledgement requests and resends of a file, both ends | the exchange of `PayloadLink`, abstracted to delivered or lost |
| `RadioProofs`, `AdcsUartProofs`, `PayloadLinkProofs`, `LfsAllocProofs`, `LfsDirProofs` | the theorems about the module they are named after | that module, `TLAPS` |
| `BootProofs` | the theorems about `Deployment` and `Watchdog` | both, `TLAPS` |
| `CommandProofs` | the theorems about `Uplink` and `CommandDispatch` | both, `TLAPS` |
| `FileProofs` | the theorems about `Filesys` and `FileTransfer` | both, `TLAPS` |

The firmware is cooperative, so that two of its components interleave only where
there is an interrupt handler or a second machine. Each module therefore takes
one such boundary: firmware and power (`Deployment`), firmware and ground
(`Uplink`), task and handler (`Radio`, `AdcsUart`), firmware and littlefs
(`Filesys`), littlefs and disk (`LfsDir`, `LfsAlloc`), firmware and Raspberry Pi
(`PayloadLink`, `FileTransfer`, `CommandDispatch`), firmware and time
(`Watchdog`). What is
one step in a module is what nothing can interrupt at that boundary. The modules
meet in named places: `Deployment` shows that boot numbers are fresh while no
flash write is torn, and `Uplink` reboots with exactly that, a fresh number, or
one that starts again if the write was torn; `Uplink`'s receive queue is the one
that `Radio` fills, and what it executes is what `CommandDispatch` dispatches;
`CommandDispatch` and `FileTransfer` take from `PayloadLink` that a packet arrives
or does not; `Filesys` takes from `LfsDir` that a committed entry stays and from
`LfsAlloc` that its blocks do.

Operators and actions have the names of the functions they model. Where a
function is interrupted in the middle it is several actions, and `pc` (or
`app.at`, `obc.at`) says between which lines the code stands. Variables with the
source's names are the source's variables; those marked "history" in the
declarations are read by no action and serve the properties. Where two modules
are proved about together, the definitions that every module has carry a prefix in
one of them: `DispatchInit`, `TransferNext`, `WatchdogSpec`.

### PersistentData and Deployment

`flash` is the sector, `writing` and `staged` a write between
`flash_range_erase` and `flash_range_program` (flash.c:29-35): interrupts are off
there, a loss of power is not. `loaded` is the copy main() keeps, which is older
than the sector by one increment (main.c:103). `pc` walks through main(), the
dispatch loop, the burn wire task and one channel of `burn_wire_activate`; each
`safe_sleep_ms` is a place between two steps. `PowerLoss` may come at any `pc`;
panels release and the remove-before-flight pin goes at any time. Properties:

- `ReadsAreMarked`: a counter is read only from a sector that carries the marker.
- `BurnInterlock`: current flows only in the burn wire state, with the pin out,
  budget left, the relay closed, and through one channel, of a panel found closed.
- `BurnBudget`: at most `MAX_BURN_WIRE_ATTEMPTS` attempts, and one more per power
  loss, begin before the counter is reset, unless a write was torn.
- `BootNumbersFresh`: the scheduler never runs twice under one boot number,
  unless a write was torn.
- `PanelBitsSound`: the slate never claims a panel that is not deployed.
  `BurnWireLeftForCause`: the burn wire state is left only for running, with both
  panels out or the budget spent, and with the pins' readings in the slate.
- `ReachesRunning`: once the remove-before-flight pin is out the satellite gets
  to running, where the radio works, after each of the power losses.

### Uplink and CommandChannel

The ground's `StateManager` (state.py) keeps `ground` in memory and `file` on
disk, saved at most every ten minutes (`recent`), and at a proper shutdown;
`Crash` goes back to the file. Every packet ever sent stays on the air (`sent`)
and may arrive again, as it was sent or garbled. `command_task_dispatch` takes
one packet and runs `is_packet_authenticated` in the order of its checks; the
HMAC is the flag that the packet is as it was signed. `AtMostOnce` is the
refinement: `Uplink` implements `CommandChannel`, which executes only what was
issued, and nothing twice. Every sending is a packet of its own there (`n`), so
that the property also speaks of two sendings under one number, which the ground
makes after a crash. A torn flash write starts the boot numbers again and makes
old packets good; the promise is about what was executed before the first one
(`sound`). `InSendOrder` says that commands are executed in the order of sending,
across reboots, until a crash or a torn write; `LastSeenIsLastExecuted`, that the
ids executed since the last reset increase and `last_seen_msg_id` is the last of
them, so that no rejected, repeated or garbled packet leaves a trace, torn writes
or not.

### CommandDispatch and Outbox

A pass of the scheduler processes at most one command (`Processed` is what every
command shares: the count, and the end of the pass); then the payload task runs
when its second is over. `send_heartbeat` pings, restarts after ten seconds of
silence, or, when the ping was answered, lets up to three commands be tried.
`age` is the time since `payload_most_recent_ping_time`. A visit to the burn wire
state is one step (`Away`) that may take longer than the time-out. Beacons and
answers to PING share the radio's queue. The handshake is a write that succeeds
or fails and takes what it takes. payload_task.c:303 returns before the heartbeat
and no state lists the task, so in this build commands for the payload are queued
and none is executed; the model is the loop as it stands behind that return.

- `OutboxImplemented`: refinement; a command is refused only by a full queue, the
  others are written in their turn, each at most once, and given up only after
  all tries, whatever restarts, overrides and switching come between.
- `NumbersTellApart`: waiting commands carry different sequence numbers. A
  refused command uses one up as well, which the payload sees as a gap.
- `SilenceEnds`: a payload that stays on is pinged again and again, and one that
  falls silent for good is restarted again and again. A failed ping that renewed
  the ping time would break it.
- `CommandsSettle`: a payload that stays on and answers again and again leaves no
  command waiting. Section 4 has the fairness.

### Watchdog

Time passes in the steps that wait, in units of 200 ms: `Low` 25 (5 s), `High` 1,
`SoftTimeout` 83 (the 16.7 s of the chip), and the waits as the code has them,
rounded up; of the dispersal delay 20 s stand for 15 minutes. A comparison with
`>` on microseconds goes either way at equality. Code that waits for nobody takes
one unit per pass. `soft` is the time since `watchdog_update`, which the code
calls only with a rising edge of the pin.

- `PulsesInTime`: the pin stays as it is no longer than its phase and `LoopGap`,
  the longest distance between two feeds, with every wait of a pass as long as can
  be: 36 units, of which the code's real waits take 6 s. Until the first feed
  after `telemetry_task_init`'s scan of the bus that scan comes on top.
- `SoftwareWatchdogHolds`: the software watchdog of a trial image does not expire
  in a cycle with at most one shutdown of the payload and no scan of a hung bus.
  `QuietGap` is the distance between two feeds without either.
  With two shutdowns in a cycle it may (17.3 s), and likewise with the scan of
  `telemetry_task_init` on a hung bus right after a rising edge (17.2 s); `slow`
  marks such cycles, and nothing is claimed of them.

With the remove-before-flight pin in, the init state has no tasks and nothing
feeds at all; the model begins with the pin out. The pin's level is taken from
`wd->set`; init.c:109 runs `gpio_init` on it once more, which lowers it when
`wd->set` may still say high, so that one low phase, after dispersal, is up to one
unit longer than `since` says. `payload_turn_off` and its write are modelled with
`rpi_uart_queue` initialised, which only `payload_task_init` does; no state lists
that task today.

### Radio

A dispatch is a step per register access (`pc`); the handler is one step. The
chip ends a transmission (flag TxDone, standby) or receives (RxDone) at any time
outside a dispatch that began it. Every access is an SPI transfer under a chip
select of its own, and the handler may come within one (`cut`): then what the
task writes arrives, or is lost, or arrives as the handler's byte, and what
either reads is anything. The interrupt is an edge of DIO0, so a flag that stays
set after its handler is a pin that stays high and interrupts no more.
`NoStuckInterrupt` excludes that, except after a cut transfer and until the flags
are next cleared; `EachLoadedOnce` says that between the queue and the FIFO no
packet is doubled or lost; `ListensAgain` that the radio returns to receiving.
The mode is what the model has of its register: a cut read-modify-write may also
change other bits of it (bit 6, for one), which nothing writes again.

### AdcsUart

The handler `uart0_irq_handler`/`uart1_irq_handler` is one step (`Receive`,
`TxInterrupt`), the task one step per access to an index that both write. The
two reads of `rx_count` come in either order, as C allows. A byte is its number
in its stream. `app.call` says which of the two callers of
`uart_comms_packet_ready` is running. In `DeliveredWhole` the exception
(`lapped`) is a ring that overflowed; in `InOrderUnlessCollided` it is the
handler transmitting inside the kick-off (uart_communications.c:151-154), where
task and handler both move `tx_tail`. With a ring of 256 bytes the branch for a
packet longer than the caller's buffer (lines 189-197) cannot be reached, and
the model does not have it. Waiting in `uart_putc_raw` is the guard of `KickPut`.

### Filesys

`disk`, `ready` and the session (`writing`, `dirty`, `buffer`, `fname`, the
declared length and CRC as one value `declared`) are the state of `filesys.c`.
Each action is one call of filesys.h; every littlefs operation inside may fail,
and the action takes the error path of the code. littlefs is external: an entry
is on disk when open returns, an attribute when `lfs_setattr` returns, data when
close returns. A handle left open by an error path is undefined behaviour of
littlefs from then on: the model lets the call go on or the board reset.
Contents stand for their own CRC. `SessionOnDisk`: the session's file is on disk
under the declared CRC. `CleanOutsideSession`: no byte passes from one session to
the next. `CompletedHoldsContent`: a completed file holds its declared content
until it is written again. `SessionAppends`: a session only appends.

### LfsDir, LfsDirectory

The disk is blocks of a revision count and `Slots` slots; a slot is one commit
with what its checksum, its leading bit and its FCRC say, and what it does to the
entries and to the tail. Files are entries in a list of metadata pairs headed by
blocks 0 and 1. An operation appends a commit, or compacts, splits, moves or
expands, which is several writes (`at` says which is next), each of which the
power may cut and any of which may find a bad block. `lfs_mram_wrap_erase` does
nothing, so that slots of earlier generations remain behind a compacted commit;
whether they are taken for commits depends on the bit `Perturb` sets. The
revision count wraps at `2^RevBits`.

- `AtomicOps` is the refinement of `LfsDirectory`: what RAM would find by mounting
  is the state before or after the operation in progress.
- `ListSound`: the list ends, every pair has a good commit, no block is in two,
  and the root in RAM is the root on disk.

An append is one slot and the worst case is taken: old slots lie exactly where
new ones would. Two failures are left out. A bad block in the head pair {0, 1}:
littlefs is then "frozen" (lfs.c:2103) and makes no promises. And a commit to a
superblock pair between the head and the root that fails for a bad block while no
block is free, where `ListSound` does not hold (section 6). `ChainFrom` reads the
list for as many steps as there are blocks, as a recursive function; `Mixed` cuts
a revision count after any of its low bits.

### LfsAlloc

`la` is the lookahead: a window of the disk with the blocks found in use when it
was filled, and `ckpoint`, which counts down with every block handed out since
the last checkpoint. A file is a chain of blocks with the pointers of a CTZ list,
copied block by block; `f` is the open file, `at` and `caller` say what its write
is about to do. Creating, appending, completing and cancelling are the calls of
`filesys.c`. The directory takes blocks of its own for splits and moves. A
program may not stick (`MaxBad`), the power may go (`MaxLosses`). `Distances[i]`
is how far back the pointers of block `i` lead, `Hop` the one that `lfs_ctz_find`
follows, `Reads` how many `lfs_ctz_traverse` reads at once; the code counts zero
bits for all three. `Find` and `Visit` follow the pointers as recursive functions.

- `FilesIntact`: every file in the directory, read through its pointers, has its
  pieces in their places; the directory's blocks are its own.
- `NoSpaceIsReal`: the allocator gives up only if every block was in use,
  handed out since the checkpoint, or freed after the window was filled.
- `CallsReturn`: every call ends, with the disk full too.
- `NoneLeftOpen` is violated (section 6). After that the walk through a dead
  stack frame is undefined: a file reached so is taken as nothing, or the call
  goes on for ever (`halt`), and only a reset leads out.

Commits of the directory are one step; `lfs_setattr` and `close` commit, as they
do in the code. The room check of `filesys_start_file_write` is modelled, and
reserves nothing, as in the code, and a session may write more than it announced;
only `MaxSize` bounds a file.

### PayloadLink

Both ends are state machines over a line of bytes in each direction; a read takes
what is there or times out, at any moment. Nothing empties a receive queue, so
late bytes meet the next reader. Sync, start, ACK, header and body are one byte
each, a header and its body carry the number of the write (only the history
compares it). The exit of payload_uart.c:342-346, a time-out while the header's eight
bytes are put into the FIFO, is left out. `Fault` loses or garbles a byte. `Attempts(k)` are the writes begun
of the k-th command. The loop behind the `return` of
payload_task.c:303 is modelled as it is written. `ExecutedAsWritten`: the payload
runs what was written, in order, each write at most once. `AttemptsBounded`: a
command is written no more often than its retries allow. `ObcReturns`: the
flight computer leaves the handshake. `WrittenIsReceived` does not hold (section 6).

### FileTransfer

The sender's state is `at` and its counters, the receiver's the set of missing
packets and its own; one exchange delivers a packet or loses it. The bytes of the
file are left out: no data equals one of the command strings (which the code
would obey), and a data packet read as a number is greater than any file
(serial_file_transfer.py:65). The latter does not hold of a first packet of zeros
with at most a small number at its end: when the number of packets is lost the
receiver then expects too few, and if it expects none, line 71 raises IndexError
for a file of any length. The next two properties, and their theorems in
`FileProofs`, are claimed without that case.
`OnlyFirstMayBeMissing`: what either side calls complete lacks at most packet 0.
`RaisesOnlyOnTinyFiles`: only a file of at most one packet makes the receiver
index an empty group. `Ends`: both programs end. `CompleteMeansWhole` does not hold
(section 6).

## 3. Runs and bounds

| Run | Configuration | Distinct states | Question |
|---|---|---|---|
| `deployment` | budget 2, three power losses, two panels | 66 k | all of `Deployment` |
| `uplink` | queue of 2, three commands, boots 0 and 1, one torn write, one ground crash | 1.9 M | order, at-most-once, and what `last_seen_msg_id` means |
| `command_dispatch` | queue of 3, six commands, sequence numbers modulo 4, three tries, heartbeat of 10 s | 188 k | the parser against the payload task |
| `radio` | queues of 2, four packets, two cut transfers | 53 k | handlers against dispatch |
| `adcs_uart` | rings of 4, frames of 3 bytes, four bytes in, six out | 1.1 M | handler against tasks |
| `filesys` | two files, buffer of 2, contents of up to 3 bytes | 285 k | sessions, failures, resets |
| `lfs_dir` | six blocks of two commits, two entries, three operations, one loss of power, one bad block, revisions modulo 8 | 409 k | atomicity of the directory |
| `lfs_alloc` | six blocks of two pieces, window of four, two files of up to five pieces, four calls, one loss of power, one bad program | 768 k | the allocator under a write session |
| `payload_link` | two commands, three writes, one fault, queue of 5 | 257 k | the handshake |
| `file_transfer` | groups of 3, files of up to 8 packets, the code's retry limits | 100 k | both ends |
| `watchdog` | the code's waits in units of 200 ms | 1.6 M | feeds against waits |
| `file_left_open` | as `lfs_alloc` | | the disagreement of section 6 |

Why these bounds suffice: every mechanism is reached at least twice. Two attempts
and three losses let an attempt be lost uncounted, repeated, and the budget run
out; two boots, a torn write and a crash let every pair (boot, id) be used twice;
queues of two are empty, partly filled and full; rings of four wrap, and four
bytes overflow a ring that holds three, as two frames of three overflow the
transmit ring; a buffer of two and contents of three need one full and one partial
flush; eight packets in groups of three have a full, a second and a partial group,
and the length 6 has no partial one; six commands fill a queue of three, and its
sequence numbers wrap; two slots per block, and appends that fail before or after
their first program, bring compactions from the first operation on, and three
operations split, relocate and drop a pair, compact one that takes a whole block,
and wrap the revision count; with six blocks and a window of four a file of three
blocks needs a second window and can fill the disk. The waits of `watchdog` are the code's own. The bounds
`MaxPowerLosses`, `MaxSends`, `MaxBoot`, `MaxTorn`, `MaxCrashes`, `MaxPackets`,
`MaxIn`, `MaxOut`, `MaxFileLen`, `NCommands`, `MaxWrites`, `MaxFaults`, `MaxCuts`,
`MaxCommands`, `MaxOps`, `MaxLosses` and `MaxBad` are guards of the actions of the
environment; the theorems hold for all their values. `BadFirst` of `LfsAlloc` is
section 6's.

Deadlock is checked except for `file_transfer`, whose two programs end, and for
`lfs_dir`, `lfs_alloc` and `file_left_open`, which stop when their operations are
used up. Type invariants are proved (section 5); `command_dispatch` and
`lfs_alloc` check theirs as well, since the widths of the sequence numbers and of
the window are what could go wrong there, and `lfs_dir` checks its own as part of
`ListSound`. Every property of a passing run has a
mutant, a definition of the code changed as a slip would change it (an index that
does not wrap, a dropped check, a wrong order); TLC finds each property violated
by its mutant.

## 4. Fairness

- `Deployment`: `WF(Main)`, the processor goes on executing. Power losses are not
  fair, and finite by the bound.
- `Radio`: weak fairness of the interrupt handler and of the dispatch, which the
  scheduler calls every 100 ms. Nothing is assumed of packets arriving.
- `AdcsUart`: weak fairness of the TX interrupt, of the transmitter, and of the
  steps of a call of `uart_comms_tx`, which waits for nobody but the transmitter.
  Nothing is assumed of a new call: what is queued must go out without one.
- `PayloadLink`: weak fairness of both ends, because every read has a time-out.
- `FileTransfer`: weak fairness of both ends, for the same reason.
- `CommandDispatch`: weak fairness of the scheduler's passes and of the payload
  task, and nothing of the payload: the code cannot make it answer, so behaviours
  in which it is silent for good are checked. `SilenceEnds` says what happens in
  them: as long as the payload stays on it is pinged, and restarted every time the
  time-out has passed. `CommandsSettle` is about a payload that answers again and
  again; that is its hypothesis, not a fairness of the specification.
- `LfsAlloc`: weak fairness of the steps of the one thread that executes a call.

`Uplink`, `Filesys`, `LfsDir` and `Watchdog` have safety properties only and state
no fairness.

## 5. What is proved

All theorems hold for all values of the constants under the assumptions named in
the modules: sizes are positive (rings at least 2), bounds are natural numbers.
`Watchdog` assumes that the times are natural numbers, the sleeps longer than one
interval, and two intervals no longer than the waits of a pass; and, for the
software watchdog only, `SoftwareAssumption`: one cycle of the pin, two quiet
gaps, one shutdown of the payload and four intervals fit its time-out. The code's
values make that about 74 of 83 units, so a wait of two seconds added to a pass
would void the theorem. The theorems about `LfsAlloc` have the hypothesis
`~BadFirst`: no fresh block fails at its first program. Without it `FilesIntact`
does not hold (section 6).

| Module | Theorems | Inductive invariant |
|---|---|---|
| `BootProofs` (`Deployment`) | `TypeCorrect`, `ReadsMarked`, `InterlockHolds`, `BudgetHolds`, `BootNumbersAreFresh`, `PanelBitsAreSound`, `BurnWireLeft` | sector, circuit (relay and channels follow `pc`), state, ledger (attempts begun = counted + uncounted, at most one uncounted per loss), boot numbers below the counter; the slate is the cleared one until the scheduler starts |
| `CommandProofs` (`Uplink`) | `TypeCorrect`, `LastSeenMovesWithExecution`, `ExecutedInSendOrder`, `AtMostOnceHolds` | what was executed lies behind the pair (`reboot_counter`, `last_seen_msg_id`); until a crash the ids number the sendings and the boot numbers on them never go back; what has a good HMAC was sent |
| `CommandProofs` (`CommandDispatch`) | `DispatchTypeCorrect`, `WaitingToldApart`, `CommandsTakeTurns` | what waits is numbered upwards and below the next number, which is no greater than the count of commands received; an emptied queue leaves no count of tries |
| `BootProofs` (`Watchdog`) | `WatchdogTypeCorrect`, `PulsesHold`, `SoftwareWatchdogFed` | at each place a bound on the time since the last edge, and, in a cycle that is not slow, one on the time since the last update; the watchdog task, as long as it is not due, was dispatched less than its period ago |
| `RadioProofs` | `TypeCorrect`, `InterruptNeverStuck`, `PacketsLoadedOnce` | the task holds a packet only between taking and loading it; DIO0 high means an interrupt pending; loads, queue and hand together are what was queued; a cut transfer is within an access, and is followed by the clearing of the flags |
| `AdcsUartProofs` | `TypeCorrect`, `PacketsDeliveredWhole`, `NothingLeftBehind`, `TransmittedInOrder` | the ring from tail to head is the part of the stream that has arrived and is not consumed; what the task has scanned or copied is the stream's beginning |
| `FileProofs` (`Filesys`) | `TypeCorrect`, `SessionHolds`, `BufferIsClean`, `CompletedFilesHold`, `SessionOnlyAppends` | the session's file is on disk with the declared CRC and not among the completed; clean means empty |
| `PayloadLinkProofs` | `TypeCorrect`, `ExecutedInOrder`, `RetriesBounded` | numbers executed, pending in the reader and on the line grow in that order; a body not yet sent is nowhere; the command at the head of the queue was written `RETRY_COUNT` times, those behind it never |
| `FileProofs` (`FileTransfer`) | `TransferTypeCorrect`, `CompletedButForTheFirst`, `LargerFilesDoNotRaise` | before the end of its group the receiver has every packet but the missing ones and perhaps packet 0; its group is the sender's or a later one |
| `LfsAllocProofs` | `AllocTypeCorrect`, `FilesStayIntact`, `NoSpaceStaysReal` | `AllocInv`: see below |
| `LfsDirProofs` | `DirectoryInv`, `DirectoryTypes`, `DirectoryListSound`, `DirectoryAtomic` | `IInv`: see below |

None of the properties is inductive alone. For example `BurnBudget` speaks of
attempts begun, the code counts attempts finished; only the ledger, which places
each uncounted attempt with a loss or with the task in progress, is preserved by
a step. `PacketsDeliveredWhole` needs that between `rx_count` and the copy the
head may have moved but the tail has not, which holds because the handler moves
the tail only when the ring overflows. `AtMostOnceHolds` proves the step
simulation with `CommandChannel`. `PulsesHold` cannot go from step to step with
`PulsesInTime` itself, which is the maximum of what the places of a pass allow.

`CommandsTakeTurns` is the step simulation of `Outbox`.

The allocator's argument (`LfsAllocProofs`): `FilesIntact` speaks of
committed files only; the invariant also has the file being written (`WriteInv`),
the one that is flushed and not committed (`PendingInv`), and blocks taken for a
directory that is not written yet (`HeldInv`). What keeps them apart is no table:
`AheadInv` says that no block which the window still shows as free is used by any
of them, and `HandedInv` that the blocks handed out since the checkpoint lie
behind the window, which is what counting `ckpoint` down achieves. The window is
filled by a walk that sees only part of the open file; `WhatIsFound` says which
part it may miss, namely blocks handed out since the checkpoint. `SeenInv` is the
converse, and gives `NoSpaceIsReal`: every block that the window has passed is in
use, was handed out, or was freed since. Each action has one lemma for where the
code stands (`...Control`) and one for disk and window (`...Blocks`). TLC checked
`AllocInv` as an invariant before it was proved, for one and two pieces in a
block, with and without files within the directory, on six and eight blocks, and
with two bad programs.

Below that are lemmas about the lists themselves, for lists of any length: the
pointers of a list that is well linked lead `lfs_ctz_find` to the block asked for
(`FindFinds`) and `lfs_ctz_traverse` to all of them and no other (`VisitAll`,
`VisitWithin`); the pointers that `lfs_ctz_extend` writes keep it so (`SkipsAre`);
`Distances` are the powers of two dividing the index. `Find`, `Visit` and
`Distances` are recursive functions. That they are what their definitions say, and
that a statement holds for every index, is proved from the least index for which
it would fail (`LeastNumber`, `Recursion`): the library's induction theorems take
an operator, which none of the provers can instantiate, while its least-element
theorem (`WFMin`) is about a set.

The directory's argument (`LfsDirProofs`) is the longest. `ListSound` and
`AtomicOps` speak of what reading the disk finds; neither says which write is
under way. The invariant `IInv` speaks of two lists of pairs. One, `c`, is on the
disk: each pair is read where the one before it points to (`Listed`), no block is
in two pairs and the entries are in order (`Proper`). The other, `q`, is the one
the operation is to leave: it shows the entries of the operation's end (`Goal`)
and differs from `c` by one commit, to pair `k` (`Plan`: alike before `k`, and
what `q` has behind `k` is on the disk already). `Standing` says what RAM holds
at each place of the code of pair `k`. Then there are two sorts of writes. One
that goes to blocks outside the list, or is cut short, or changes nothing of what
a pair says, leaves `c` on the disk (`PlanAside`, `PlanTorn`, `PlanTouched`); the
one that completes the commit to pair `k` puts the whole of `q` there
(`PlanEffect`), and is the step at which the abstract operation happens. Splitting,
expanding, moving and dropping change the plan, not the disk (`PlanDivided`,
`PlanMoved`, `PlanBack`, `PlanDropped`): when a pair has moved, `k` is the pair
before it. There is one lemma per action. Below them is what a slot, a log and a
pair of blocks are read as after an append, a compaction, or either cut short;
this is where the leading bit that `Perturb` sets is needed, since without it a
commit of an earlier generation would follow the new one (`WithCommitIs`), and
where revision counts are compared modulo their range (`NewerIsAhead`,
`AlignedIsNewer`). That the recursive functions `ChainFrom` and `Moved` are what
their definitions say is proved as in `LfsAllocProofs`. `DirectoryAtomic` is the
step simulation of `LfsDirectory`.

`GeometryAssumption` gives these theorems what they need of the constants: a
block holds at least two commits, blocks are finitely many, `Cycles` is at least
3, and half the range of revision counts is more than `Cycles`, because a new pair
starts up to `Cycles` revisions ahead of what its blocks held and `lfs_scmp` would
take the older block for the newer. TLC finds both properties violated when the
range is less than twice `Cycles`. The code has 2^32 and 501. `IInv`
quantifies over lists of pairs, which TLC cannot enumerate; before it was proved,
TLC checked a form of it that computes `q` and `k` from the disk and RAM, on the
configuration of `lfs_dir` and in random behaviours of up to seven spare blocks,
four entries and eight bad blocks. This is how the second exclusion above was
found: with five spare blocks the root was no longer in either list.

Only model-checked: liveness (`ReachesRunning`, `ListensAgain`, `Drains`,
`ObcReturns`, `Ends`, `SilenceEnds`, `CommandsSettle`, `CallsReturn`), which needs
fairness and ENABLED. Every safety property of a passing run is proved.

## 6. Where code and documentation disagree

Shown by a run, with the quoted line under `findings` in `PROJECT.json`:

1. `file_left_open`: filesys.c:308 returns from a failed write without closing
   `lfs_open_file`, a local variable (line 221 closes it). It stays in littlefs's
   list of open files; the next call at the same stack depth puts the same address
   into the list again, which is what lfs.c:6169 asserts cannot be.

Properties that the modules state and no run claims, each refuted by TLC when it
is added to the configuration named:

2. `WrittenIsReceived` (`PayloadLink.cfg`, also with `MaxFaults = 0`): late ACK
   bytes count for the next handshake; a command is dropped as sent that the
   payload never saw.
3. `CompleteMeansWhole` (`FileTransfer.cfg`): an acknowledgement request carries
   sequence number 0, which takes a lost first packet off the missing ones.
4. `ReadsOwnFile` (`MCFilesys`, `Filesys.cfg`): all open files share one littlefs
   cache; a file being read is read with another file's bytes (filesys.h:88).
5. `AnsweringIsNotRestarted` (`CommandDispatch.cfg`): payload_task.c:101 looks at
   the time since the last answer before it asks; after ten seconds in another
   state it restarts a payload that answered when last asked, against the comment
   at line 104.
6. `FilesIntact` (`LfsAlloc.cfg` with `BadFirst = TRUE`): while a new block is
   being relocated because its first program did not stick, `lfs_fs_traverse_`
   (lfs.c:4779-4786) walks the file from the fresh block with the old position;
   the index is one too small and the walk misses blocks of the file that are not
   committed yet. If the window is filled at that moment, the allocator hands one
   of them out. littlefs's DESIGN.md:977 describes the recovery from bad blocks
   without this case. The passing run leaves it out by `BadFirst = FALSE`.

7. `ListSound` (`LfsDir.cfg` with five spare blocks, one entry, `MaxOps = 40`, and
   `BadBlock` without the conjunct on the root where no block is free; a behaviour
   of 98 states): lfs.c:2472 moves `lfs->root` to the new pair before the commit to
   the pair before it. When that commit fails (a bad block and no free one, with
   two superblock pairs behind each other), line 2588 returns the error and
   `lfs->root` names a pair that the list on the disk does not reach. The disk is
   whole and the next mount finds it; until then lookups miss committed entries.

Met while modelling, visible in the models, but not given a run:

- A completed file is not always readable: `filesys_is_crc_correct` checks the
  declared length, `filesys_open_file_read` the whole file, and the last buffer
  is written in full (filesys/README.md:19).
- burn_wire_task.c:61 counts an attempt after it; burn_wire.h:7 speaks of the
  number of attempts. A loss of power during each burn repeats it beyond that.
- flash.c:32: a loss between erase and program makes the boot number start again;
  flash.c:50 stores a first boot as 0 and main then counts it, against flash.h:28.
- rfm9x.c:918: a TxDone interrupt between reading the radio's mode and restoring
  it leaves a transmission that nobody serves; the next packet received is cleared
  away as if it were that TxDone.
- rfm9x.c:926 restores the mode found, which after TxDone is standby, so a chain
  of packets (radio_task.c:236) goes on only with the next dispatch;
  radio_task.c:241 may load the FIFO while the radio transmits, which the comment
  at line 239 excludes.
- ground_station/README.md:297 says that the next command is always correctly
  authenticated after a beacon; state.py:109 may use ids again after a crash,
  which the satellite refuses until they have caught up.
- uart_communications.c:151-154: the task moves `tx_tail`, which the comment at
  line 29 leaves to the handler. When the handler runs inside, for a received byte
  or a frame before, a byte is sent twice or skipped; this is the exception in
  `InOrderUnlessCollided`.
- lfs.c:2103: a bad block in the head pair {0, 1} freezes the file system for
  good. A reformat of a used disk that is interrupted may show an older generation
  of the directory (filesys.c:102).
- mram.c:174: `mram_read` returns without reading, and without an error, for more
  than 256 bytes; littlefs's caches keep below that.
- lfs.c:697: a window filled before blocks became free may report no space while
  there is some, until the next checkpoint (`missed`); commits of metadata never
  checkpoint, so that many creations and removals without data run the count down
  and then splits and relocations are skipped.
- command_parser.c:63: PING answers with the "Number commands executed", which
  counts every authenticated command, refused or unknown ones too, modulo 256.
- adcs_driver.c:198 counts the final zero: a message of 8 bytes has length 9 and
  adcs_task.c:61 drops it.
- serial_file_transfer.py: a short last packet cannot be resent (line 236,
  ValueError); an empty file raises IndexError; for a number of packets that is a
  multiple of the group the sender asks once more after the receiver is done and
  reports failure; a file of one packet that is lost is a success for the sender
  and an exception for the receiver.

## 7. Not modelled

- Wall-clock time outside `Watchdog` and `CommandDispatch`: a time-out is a step
  that may come at any moment, which includes every real one. UART byte rates.
- SPI frames and I2C transactions, sensor readings, the layout of beacons.
- The effects of single ADCS and payload messages on slate fields.
- Of littlefs: subdirectories, rename, truncation, and everything that
  `filesys.c` never calls. `LfsDir` and `LfsAlloc` are not composed: the product
  of their states is out of TLC's reach. tinycrypt and ssdv are computations
  (an external flag in `Uplink`; not modelled).
- The MRAM driver's registers; it runs with interrupts off.
- `adcs_driver_get_telemetry` and the ADCS power functions, called by no task;
  bring-up code; sensor drivers, indicators; the ground station's menus; the camera
  commands; the update prototype `ota_mvp/`, which is outside the flight build.
- The states and the telemetry of error handling: `fatal_error` returns in flight.

`PROJECT.json` has the reason for each component.

## 8. Plan

Built so far, in this order: persistence and deployment (the behaviour that can
lose the mission), uplink, radio, file layer, payload link, file transfer, ADCS
UART, watchdog, command dispatch, littlefs's directory and its allocator.

Every safety property of these is proved. What could follow:

1. `PayloadLink` under `CommandDispatch`: the written-or-not of the second as an
   abstraction of the first, with late acknowledgements.
2. The beacon's counters, read by the ground, composed with `Uplink`.
3. `LfsAlloc` over `LfsDir`, with the commit of `LfsAlloc` as what
   `DirectoryAtomic` says of it; the product is out of TLC's reach, the proofs
   are not.
