# Verification of the battery management system firmware

The repository is the firmware of a battery management system (BMS) on a
GD32F303: a boot loader with two application banks, and an application that
answers read and write commands of a controller (an ESP32) over a UART from a
table of registers, which it fills from a battery monitor (BQ76952) over I2C.
This directory holds TLA+ specifications of its core, TLC configurations that
check them on small instances, and proofs checked by TLAPS.

Paths below are relative to `src/application/`.

## 1. The system

| Component | State it keeps | Operations | Talks to |
| --- | --- | --- | --- |
| Boot loader, `upgrade/boot.c`, `common/src/systick.c` | flash: two banks, the upgrade flag word, the application type word; RAM: `total_block`, `app_address`, `update_data` | `handle_upgrade`, `upgrade_backup`, `upgrade_run`, `upgrade_application_recover`, the flash writes | host (UART, polled); the application through flash words and reset |
| Frame receiver, `dataprocess/process.c` | `current_state`, `received_frame`, `received_buffer`, `bytes_counter` | `parse_received_data` for every byte (USART0 interrupt) | line; command execution |
| Command service, `process.c`, `primary/main.c` | `registers[].status`, `registers[].data`, `send_buffer`, the DMA channel | interrupt: `process_read`, `process_write`, `process_upgrade`; main loop: `process_base_address`, `send_reply_data`, `write_command_data`, `usartSendDMA` | shared status words; I2C driver; DMA |
| Register table, `registers/pu_table.c` | the table, hash chains | search, accessors, CRC-16, (de)serialisation | service |
| Polled I2C driver, `drive/i2c.c` | per-call state machine, `number_of_byte` | page write, buffer read and write, wait for standby, bus reset | called by main; monitor chip |
| Interrupt I2C driver, `drive/i2c_inter.c` | `g_i2cState`, `g_i2cBusy`, counts | start a transfer, event and error handlers | dormant: initialised by `main.c`, its transfers have no caller |
| Monitor commands, `bq76952/bq76952.c` | none | I2C sequences | I2C driver |
| Watchdog feed, `drive/wdi.c` | `watchdog_state` | timer interrupt | not started by `main.c` |
| Delay, `common/src/systick.c` | `delay` | `delay_1ms`, tick interrupt | |
| ADC, DMA, SPI, board support | peripheral registers | configuration | hardware |
| FlashDB, `flashdb/` | sectors of KVs with status words, `oldest_addr`, `gc_request`, caches | `fdb_kv_set`, `fdb_kv_del`, `fdb_kv_get`, garbage collection, `fdb_kvdb_init` with its recovery; time-series store | third-party, linked, not called by `main.c`; flash through the FAL port |
| FAL port, `fal/` | constant partition tables | erase, write, read | flash |
| RTC `rtc/sd3078.c` | none | bit-banged I2C, BCD | not in the Makefile |

What is hard here: the upgrade must survive a power failure at any erase or
program; the serial line loses and damages bytes and frames carry no start
mark; the interrupt runs a whole command between any two instructions of main
and shares status words, the table and the heap with it; the DMA reads
`send_buffer` while main writes it; waits are unbounded and results of flash
and I2C calls are ignored; the key-value store spreads one call over up to nine
flash operations, and collects garbage in the middle of it. `PROJECT.json` lists the hazards line by line.

What would make each component correct:

- boot loader: a complete image is always booted; an interrupted upgrade is
  rolled back; the bank is written only while a recovery is arranged; an
  upgrade ends; the whole is an atomic replacement of one image by another;
- receiver: no sequence of bytes confuses buffer, state and heap; it finds the
  next frame after a disturbance;
- service: every read is answered once, with a measured value, in a frame that
  is whole; nothing is sent unasked; every write is carried out;
- register table: a search finds the register with that address; every
  register is polled;
- I2C drivers: no transfer leaves its buffer or crosses a page; `I2C_OK` means
  that it is complete; it ends; a failed one leaves the bus and the driver
  usable;
- watchdog: the pin pulses for ever, and (desirable, not the case) only while
  main makes progress;
- FlashDB: each call takes effect at one moment or not at all, whenever the
  power fails; a collection loses nothing and always finds an empty sector to
  move to; opening the database ends;
- FAL: partitions do not overlap the program.

### Notes on the source

As committed, `process.c` calls `process_replay()` and defines
`process_reply`; `main.c` calls `send_replay_data` and `process.c` defines
`send_reply_data`; line 283 of `process.c` holds the token `bytes_co` and
`unter` apart. The specifications take the evident meaning in each case.

## 2. The modules

| Module | Content |
| --- | --- |
| `BootLoader` | the boot loader and the part of the application that requests an upgrade |
| `AtomicUpdate` | abstract specification: an update replaces the image at once or not at all |
| `BootLoaderSafety` | properties of `BootLoader`, the inductive invariant, the refinement of `AtomicUpdate`, liveness |
| `BootLoader_proofs` | TLAPS proofs about `BootLoader`: the inductive invariant and the safety invariants |
| `UpgradeIsAtomic_proofs` | TLAPS proofs of its action properties and of the refinement of `AtomicUpdate` |
| `MCBootLoader` | TLC instances: two images, banks of three pages, and the faults of each run |
| `FrameReceiver` | the receiver, a host and a faulty line, with properties |
| `FrameReceiver_proofs` | TLAPS proofs about `FrameReceiver` |
| `Service` | interrupt, polling loop and DMA, with properties |
| `Service_proofs` | TLAPS proofs about `Service` |
| `MCService` | TLC instances: three registers, two of them polled |
| `I2C` | the polled I2C driver on a device that comes and goes, with properties |
| `I2C_proofs` | TLAPS proofs about `I2C` |
| `MCI2C` | TLC instances: reads of 0 to 4 bytes, writes in and across pages of 3 bytes, writes of none and of more pages than `number_of_page` counts; `alarm_enable`'s write |
| `KVDB` | the key-value store of FlashDB under power cuts, with properties |
| `KVDB_proofs` | TLAPS proofs about `KVDB`: structure, spare sector, room |
| `KVDBSound_proofs` | TLAPS proofs about `KVDB`: one copy, reading back |
| `KVDBAtomic_proofs` | TLAPS proof that `KVDB` implements `KVStore` |
| `KVStore` | abstract specification: a call takes effect at once or not at all |
| `MCKVDB` | TLC instance: two keys, three sectors of two KVs |

Operators named `...Wrong`, `...Not`, `..._leaks` and the like, marked "a bug
for mutation runs", are wrong forms of the operator that follows them. They
are used by no specification; putting one in place of the operator makes the
property named in `PROJECT.json` fail, which shows that the property depends
on the code.

### BootLoader

`flash` maps each page of the two banks to a block of an image, or to
`Garbage` (erased, half programmed, or programmed with damaged bytes); the
flag and type words are on pages of their own. `pc` is the call that runs and
`fmc` says whether its next flash operation is the erase or the program. A
page program is one step: a power cut in the middle of it is the cut after the
erase, since both leave a page that holds no block. `i` is the loop index,
`app_address` is `AppBank + i`. Whatever is in RAM is lost by `PowerCut`,
`SystemReset` and `JumpToBoot`. An application that is not complete executes
nothing one could rely on; the board then sees only power cycles.

`harm` is a history variable: the kinds of fault the design does not tolerate
that have happened so far (cut in the backup, flash failure, no memory,
damaged page, wrong number of blocks, number beyond the bank). `Faults` says
which combinations a behaviour may have, so a property says for which faults
it holds. A power cut outside `upgrade_backup` is not a fault: it may happen at
any time, any number of times.

### FrameReceiver

Bytes are not spelled out. `synced` says that the bytes taken since
`RECEIVING_ADDRESS` are, undamaged, the first bytes of the frame the host is
sending; then the parser reads what the host wrote and the CRC matches.
Otherwise a byte may look like anything and the CRC, taken to be perfect,
fails. Lengths are exact: they are what the properties are about. `slip` is
the parity of the bytes lost or added. `RECEIVING_COMPLETE` and
`RECEIVING_ERROR` last only to the end of one call of `parse_received_data`,
where `reset_reception` is called, and are no states here.

### Service

The interrupt executes a frame in one step (it is the only interrupt that
touches this state and is not nested). Main's steps are its accesses to shared
state: test, clear, measure, store, read back and serialise, two halves of the
`memcpy`, start of the DMA. `send_buffer` has two halves, the DMA sends one per
step. `owed` counts reads whose answer has not been started. `lapses` is the
analogue of `harm`: what the host did that the program is not built for
(`overlap`, `multi`, `unsettled`, `unpolled`) and the failures it ignores
(`malloc`, `i2c`). Each property names the lapses it excuses: `NeverInitiates`
none, `FramesAreWhole` and `WriteCarriedOut` two, `ReadAnswered` all but a failing
measurement. `service_read` and `service_mixed` show what `multi` and `unsettled`
lead to. The initial state is main's loop after the DMA has sent the 128 zero bytes `uart_dma_send_init` starts it with. An address that the table does not hold is
entry 0 (`pu_search_id`), which is writable and not polled: `r0` of `MCService`.

### I2C

One module for `i2c_buffer_read`, `i2c_buffer_write` and the two functions this
one calls; `fn` says which of them runs and `state` is its `I2C_STATUS`, with
`"DATA"` for the inner loop of `I2C_TRANSMIT_DATA`. A step is a case of the
switch with the flags it waits for, or one byte. `dev` is the device with the
bus it is on, and changes at any moment; the outcome of a counted wait is read
off it when the wait is made, so that a step may time out or not whatever the
step before it did. The waits for BTC inside a read have no count: with three or
two bytes left `ReadData` is only taken when the device answers. `held` and
`stop` are the bus: held by a start condition of ours, and with a stop condition
requested. `n` is `number_of_byte`; in a page write it is a byte and counts
below zero to `ByteMod - 1`, as `while (number_of_byte--)` does. `late` and `lost`
are history: a wait for a stop condition timed out, and a byte was sent that
nobody acknowledged. `req.planned` is what a write sets out to do: `number_of_page`
is a byte too (`Kept`), so that of a write of `ByteMod` pages or more whole blocks
of `ByteMod` pages are forgotten. With no page write left to make the call
returns the 3 that `result` starts with. Device addresses count on where
`write_address` wraps at 256, which the page size divides.

### KVDB

`sector` is the flash: for each sector whether its header is good, its store and
dirty status, and the sequence of its KVs with status and with how much of each
is written (`part`). An address is a sector and a place in the sequence; room is
counted with the lengths `KvLen`. Variables named after the source (`oldest`,
`gc_request`, `in_recovery_check`, `last_is_complete_del`, `kv_cache`) are the RAM.
`pc` is the flash operation that is next, `op` the call, `job` the KV that is
being written, deleted or moved and why, `gc` the loop of the collection and `it`
the position of the iterator of the recovery. A step is one flash operation with
the reading that leads to it; `PowerCut` comes between any two. Status words
only ever lose bits, so `Mark` takes the later of two statuses.

`KVStore` is what a caller may count on. The mapping takes for a key the value of
its KV in use or, while it is replaced, of the KV prepared for deletion. `sound`
is history: it becomes FALSE when the recovery ends at a KV that was not
finished while another one prepared for deletion waits, or when a collection
cannot move a KV. `KVStore` promises nothing from then on; section 5 says how it
comes to that.

## 3. The runs

| Run | Instance | Shows |
| --- | --- | --- |
| `boot` | banks of 3 pages, 2 copied, images of 1 and 2 pages, up to 4 blocks announced, every pair of faults | a complete image is booted; a recovery has its source, ends with the backup's image, and cannot be mistaken for a new upgrade; the bank is written only under the mark 2000; the upgrade refines `AtomicUpdate`; a requested upgrade ends; the board comes back to a complete application |
| `boot_fallback` (violation) | power cuts in the backup or damaged pages allowed, an image of 3 pages | what is booted is not always complete: an unfinished backup is restored over a good application |
| `receiver` | frames of 1 to 3 records, any faults of the line, any look-alike bytes, no memory | `BufferMatchesState`, `OddSlipIsDeaf`, `EvenSlipRecovers` |
| `receiver_heard` (violation) | the same | one lost byte makes the receiver deaf on a clean line |
| `service` | a writable and a read-only polled register and one not polled, two answers owed per register, any one kind of lapse | no answer without a request, whatever host; for one that waits for its answers and reads one register at a time, whole answers with the measurement; reads answered and writes carried out up to the lapses each property excuses |
| `service_read` (violation) | reads of several registers, or of a register just written, allowed | a read is never answered: the clearing of the write wipes it, or its answer is dropped |
| `service_mixed` (violation) | reads of several registers allowed | a frame begins as one answer and ends as another |
| `i2c` | reads of 0 to 4 bytes; writes within, to the end of and across pages of 3, of none, and of 8 pages and more; the device in any condition at any moment | buffers and pages are kept and `I2C_OK` means that every byte was moved (not that it was acknowledged), both unless a stop condition timed out; the bus is released; with the device well for good every call returns; where main can stay for ever, and that it can be nowhere else |
| `i2c_unacknowledged` (violation) | `alarm_enable`'s write | `I2C_OK` for bytes that nobody acknowledged |
| `kvdb` | two keys, one of them with a short and a long value, three sectors, up to two power cuts, anywhere | a stored value is read back, a key has one KV in use, a sector is kept for the collection, KVs fit; the store refines `KVStore` |
| `kvdb_boot` (violation) | the same, one power cut | opening the database does not end |
| `kvdb_lost` (violation) | one power cut, sectors of 7 | the recovery ends before it has met every KV, and a key has no value after the start |

### Bounds, and why they are enough

- Boot loader: with 3 pages of which 2 are copied, images of 1 and 2 pages, a
  loop has a first, a middle and a last page, the host can announce fewer,
  more and no blocks than its image has, pass the copied pages and pass the
  bank. Two images are the least at which a mix can be seen. The announced
  number is bounded by `HostPages`; the code takes any 32-bit number. Faults
  combine in pairs; each kind may repeat without limit, as may power cuts.
- Receiver: no bound; the lengths are those of the code.
- Service: `MaxOwed` bounds the reads the host may have outstanding per
  register (2: one being served, one waiting). Two polled registers are the
  least at which an answer can meet the one before. A frame names up to 3
  registers (`MAX_PUDATA_COUNT`) of the 3 there are.
- I2C: no bound on how often the device changes or a call is made. Reads of 0 to
  4 bytes are the cases of the inner loop; the writes start at and in
  a page, end in it, at its end and in the second page after it, and some have 8
  pages and more, which `number_of_page` cannot count. `ByteMod` 8 with
  pages of 3 keeps what matters of 256 and the page size: it is larger, so that
  a page fits in a byte and a count below zero leaves the buffer.
- KVDB: power cuts come anywhere, up to `MaxCuts` of them: 2, so that a recovery is
  itself cut, and that a cut meets what an earlier one left behind. The proofs
  have no such bound: `MaxCuts` is any natural there. The calls have no bound. A
  sector of 6 takes two short KVs or a long one, so that calls collect all the
  time and one sector is left empty; with three sectors the collection meets
  clean, dirty and half-collected ones. Of the two keys one changes the length of
  its value, so that a new KV fits where the old one did not, and the other way
  round.

### Fairness

- Boot loader: the processor runs what is next (weak fairness of `BootStep`
  and of `ProcessUpgrade`). `JumpToBoot` has strong fairness: an interrupt
  suspends main's loop, which resumes where it was and reaches its test of the
  flag however often frames arrive. The host keeps talking (weak fairness of
  `HostStep`); without it `upgrade_run` waits for ever, its timeout is
  commented out (`boot.c:51`), and nothing is claimed for a host that falls
  silent. Liveness is claimed when power cuts stop (`PowerStays`).
- Receiver: the host keeps sending. `EvenSlipRecovers` is claimed for a line
  that eventually stays clean (`LineIsClean`), where bytes out of place do not
  go on passing for function codes and the heap has room.
- Service: main's loop and the DMA go on (weak fairness); interrupts may come
  at any time and as often as they like.
- I2C and KVDB: the processor runs what is next (weak fairness of `Step`); calls,
  the device and the power are free. `CallReturns` is claimed for a device that
  is well from some moment on, `StaysOnlyThere` for one that is absent or silent
  from some moment on: it says where a call may stay, not that none does.

## 4. The proofs

All are by an inductive invariant, proved initial and preserved action by
action.

- `BootLoader_proofs`: `TypeCorrect`, `InterruptedUpgradeRecoversThm`,
  `RecoverySourceThm`, `BootsWholeImageThm`. The invariants are not inductive as
  they stand: whether a bank is complete while a loop is half-way depends on
  which pages the loop has copied and under which words it runs. `Inductive`
  in `BootLoaderSafety` adds the loop bounds (`Loops`), which words go with
  which stage (`Stages`), which bank is complete (`Backing`) and how far the
  loops have got (`Progress`), each up to the faults it depends on. The last
  two theorems assume `ImagesFitCopy`: an image larger than the pages copied
  is not backed up whole, and the code does not check it.
- `UpgradeIsAtomic_proofs`: `BankWrittenUnderMarkThm`, `RecoveryRestoresThm` and
  `UpgradeIsAtomicThm`, from `Inductive` and three more facts: the pages a recovery
  has copied agree (`Copied`), no host has been heard before `upgrade_run`
  (`HostHeard`), and what the bank holds when it is about to be marked good
  (`Concluded`). The refinement goes by the bank that decides (`Deciding`: the
  backup once the type says 2000 and the backup is made, otherwise the
  application). It always holds one complete image, so a step that leaves its
  pages alone is a stutter; the end of `upgrade_backup` moves the decision
  between two copies of one image; and only the erase of the type word, in
  `Mark1000`, replaces the image. The last two again with `ImagesFitCopy`.
- `FrameReceiver_proofs`: `TypeCorrect`, `BufferMatchesStateThm`,
  `OddSlipIsDeafThm`. The key is `Parity`: bytes in the buffer, bytes of the host's frame and slip are even
  in sum, because each way back to `RECEIVING_ADDRESS` takes an even number of
  bytes and each frame has an even number of bytes. `InSync` says that a
  synced parser has taken exactly what was sent.
- `Service_proofs`: `TypeCorrect`, `NeverInitiatesThm`, for any register
  table, scan order and host. `NeverInitiates` is strengthened for the step
  between the test of a request and its clearing, when the status word may
  already hold a write. `FramesAreWholeThm`: as long as the host waits for its
  answers and reads one register at a time (`Waits`), whatever fails, one answer is due at a
  time, and none while the DMA runs (`OneAnswerDue`); with
  `Requests` this keeps the DMA idle and the interrupt away while main makes an
  answer, and `AnswerMade` says how far it has got.
- `I2C_proofs`: `TypeCorrect`, `InBufferThm`, `OkIsWholeThm`, `BusReleasedThm`,
  `FailResetsThm`, `PagesTileThm`, for any lengths, addresses and page size. What
  they except is in the properties: calls whose stop condition timed out (`late`), and,
  where the whole request is meant, lengths whose pages `number_of_page` cannot count;
  below those `Kept` forgets nothing (`KeptWhole`). Acknowledgement is not claimed.
  `Counts` says that bytes done, to do and behind this page make up the request,
  `StopAsked` when a read has asked for its stop condition, `Tiles` that a page
  of the request ends where one of the device does. For an arbitrary page size
  the last needs that quotient and remainder are unique (`OneQuotient`).

- `KVDB_proofs`: `StructureHolds`, `TypeCorrect`, `SpareSectorKept`,
  `RoomHolds`, `FitsHolds`, for any keys, values, sizes, sectors and power cuts.
  `Structure` says what the registers mean: `Modes` which call, collection or
  start a step is part of, `Jobs`, `Froms` and `Tos` that a job's addresses are
  those of KVs in the flash, and how much of the new one is written, `GcLoop`
  that only the sector being formatted has a bad header and that nothing is moved
  into the sector being collected. `Spare` is why a collection finds a place to
  move to: outside one, `alloc_kv` leaves an empty sector over; in one, or after a
  power cut in one, the sector it began with is marked `GC` or lost its header,
  and formatting it gives an empty sector back. The weak point is a start
  between the two: `Spare` has a case for each stage of it. `Room` adds for `Fits`
  that the room found by `alloc_kv` is not taken before the KV is there
  (`Reserved`), also while the header is not written and the KV counts with its
  shortest length (`Begun`). `LongEnough` is for `read_sector_info`, which reads
  a first KV out of an empty sector that is in use.
- `KVDBSound_proofs`: `SoundHolds`, `OneCopyHolds`, `ReadsBackHolds`. `Alone`
  says what the name of the job has in the flash, phase by phase; `Cache` that
  a cached address is that of the KV in use or of the one being replaced, which
  rests on `last_is_complete_del` (`Flag`); `Collected` and `NoneLeft` that
  neither `do_gc` nor the recovery leaves a KV behind its position. All of it
  holds as long as `sound` does.
- `KVDBAtomic_proofs`: `FaithfulHolds`, `StoreIsAtomicThm`: `KVDB` implements `KVStore`.
  Two steps change what is stored, the status write that completes `set_kv` and
  the one of `fdb_kv_del`; `StoredKept` says that no other step does. The
  difficulty are several KVs of one name that are prepared for deletion, with different
  values, and none in use: interrupted replacements leave them, and what is stored is
  then the value the iterators meet first. The collection of a recovery formats
  sectors and thereby moves the oldest one, where the iterators begin. `Outdated`
  says why the first stays the first: all of them lie in dirty sectors
  (`MadeDirty`: `del_kv` marks the sector before the new KV is written), between
  `do_gc`'s position and the end of the flash; `oldest_addr` was set to
  zero by the start, and a recovery asks for so much room that `do_gc` looks at
  every sector (`WholeFlash`). So what is moved is what is stored (`Newest`) and
  nothing else is deleted without a successor (`Succeeded`). Again as long as `sound` does.

`Structure`, `Room`, `Sound` and `Faithful` were checked by TLC on the instance of
`MCKVDB` and on one of four sectors before they were proved.

Assumptions on constants: `ImageAssumption`, `PagesAssumption`,
`FaultAssumption`, `RegisterAssumption`, `BoundAssumption`, `I2CAssumption`,
`SizeAssumption` (`KVDB`: sizes are naturals, a KV is longer than its header,
there are two sectors at least, as `fdb_kvdb_init` asserts) and `NameAssumption`
(the absent value is no value). TLC evaluates all of them in the runs.

Only model-checked: the liveness properties (TLAPS does not prove liveness
under fairness). Every safety property of a passing run, the two refinements included, is a
theorem. The room in a sector is a
recursive function over the sequence of its KVs; the proofs need its recursion
for one sequence only (`RoomExists`, `RoomRecursion`), by counting up its
indices. First and last of a set of places exist because a set of
naturals has a least member (`LeastNatural`).

## 5. What the runs found

Seven runs find that what a document, a comment or a caller of the repository
counts on does not hold; see "findings" in `PROJECT.json`. In short:

- `boot_fallback`: a power cut during the backup destroys a good application;
- `receiver_heard`: one lost byte silences the receiver;
- `service_read`: a read that follows a write of the same register can be lost, and
  of the reads of one frame some are not answered;
- `service_mixed`: a frame on the line can begin as one answer and end as another;
- `i2c_unacknowledged`: `I2C_OK` is returned for bytes nobody acknowledged;
- `kvdb_boot`: after one power cut the opening of a well filled database collects
  and tries again for ever;
- `kvdb_lost`: after one power cut a recovery ends before it has met every KV, and
  `fdb_kv_get` does not find one that is there.

A run shows its shortest counterexample. `boot_fallback` has longer ones: with
`MCFallback` reduced to `"line"`, a damaged page is programmed, marked 1000 and
booted, because `verify_firmware` has no caller (`boot.c:109`); reduced to no fault at
all, an image larger than the pages copied is recovered only in part (`boot.c:123`).

The history variables name what the properties except, and each stands for a
behaviour of the code a maintainer should know of:

- `late` (I2C): when the stop condition of a page write times out, the state is
  START again with `number_of_byte` below zero, at 255 (`drive/i2c.c:246` and
  `:276`): what follows in memory is written too. A read whose stop condition
  times out is made again with no byte left to read.
- `lost` (I2C): in a page write the time-outs of the data phase set the state to
  START, which is overwritten behind the loop (`:233` to `:261`): bytes nobody
  acknowledged are counted as written. `OkIsWhole` counts them too; that they
  should not be there is `OkIsAcknowledged`, which `i2c_unacknowledged` refutes.
- `number_of_page` (I2C): a write of 2048 bytes or more is made in part, with `I2C_OK`, or
  not at all, with 3 (`:480`, `:513`). No caller writes more than two bytes.
- `StaysOnlyThere` (I2C): a device that stops in the data phase of a read, or does
  not come back after a page write, keeps main for ever.
- `harm` (boot loader): besides these, a flash write that fails is not noticed, the
  bank is overwritten without the mark 2000, and a power cut then boots what is there
  (`boot.c:220` to `:228`).
- `lapses` (service): a later command to a register replaces one that main has not
  served (`process.c:160`); a failed measurement is answered with zero (`:189`).
- `sound` (KVDB): `check_and_recovery_kv_cb` ends the iteration at the first KV
  that was not finished (`fdb_kvdb.c:1631` to `:1637`), although the comment at its
  call says "check all KV for recovery". Where that KV is met before the one
  prepared for deletion, a single power cut leaves the key without a value until
  another start. And `do_gc` formats a sector whether or not its KVs could be
  moved. `NothingLost` excuses neither, and `kvdb_lost` refutes it; the properties that rest on `sound`
  (`StoreIsAtomic`, `ReadsBack`, `OneCopy`) say nothing of what follows them.

## 6. Not modelled

By lines most of the repository is the vendor's peripheral library and CMSIS
(`src/firmware`, some 33,000 of 43,000 lines): register definitions and
accessors without behaviour of their own. They are modelled from how the
application uses them, not mapped; the share of mapped lines is small for that
reason and cannot be raised without modelling register writes.

Components without a module:

- `drive/i2c_inter.c`: dormant. Nothing in the repository starts a transfer, and
  without one its interrupts are not enabled.
- `drive/wdi.c`, `drive/adc_temp.c`, `drive/dma.c`, `drive/spi.c`, `rtc/sd3078.c`:
  called by nothing that runs, or pure I/O.
- the FAL port and core: address arithmetic over constant tables.
- FlashDB's time-series store and file mode: not opened by any code here.
- `bq76952.c`: sequences of I2C transfers without state.

Of the modelled parts:

- boot loader: the echoes of `upgrade_run` to the host; the CRC word, which shares
  the flag's page, is erased with it and is only printed; `verify_firmware` and
  `jump_to_backup`, which decide nothing.
- service: the allocator's inner state, which main and the interrupt share; text
  printed on the USART that carries the answers; the address byte, which the
  code never compares; the contents of the register table, its hash chains and
  the CRC-16; that the erase of the upgrade command stalls main and the DMA.
- I2C: ACK and its position, the values of the bytes, arbitration.
- KVDB: a write or an erase of the flash does what it is told: the error returns of
  `create_kv_blob` and `set_kv` (`fdb_kvdb.c:1232` to `:1276`, `:1335` to `:1341`), of
  `write_kv_hdr`, `del_kv`, `move_kv` and `format_sector` after a failing one are not taken.
  The CRC is perfect; name and value are one write; the sector cache agrees
  with the flash; eviction from the KV cache, combined sectors, default KVs,
  iterators for callers and the integrity check are left out; the status FULL
  cannot be reached, because `alloc_kv` asks for more room than the test of
  `update_sec_status` leaves.

## 7. Plan

Done: boot loader and key-value store with their refinements, receiver, service, I2C
driver; proofs of every safety property. What a continuation would take up, in
this order:

1. the composition of service and boot loader: requests and answers that a
   `jump_to_boot` cuts off, the interrupt that stays enabled across the jump;
2. the register table: hash chains and polling order over the real table, against
   a reference definition;
3. the time-series store, once it has a user.
