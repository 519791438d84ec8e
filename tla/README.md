# Verification of BOOTLOADER_OTA

TLA+ models of the STM32L476 dual-slot bootloader in `src/`, the TLC runs that
check them on small instances, and TLAPS proofs of their main properties for
every value of the constants. Paths below are relative to the repository's
`src/`. Each definition that models code is traced to its lines in
`PROJECT.json` ("map").

## 1. The system

The board has a bootloader, two firmware slots (A and B, 480 KB each) and a
metadata record kept on two flash pages. A host program sends a new image over a
serial link (directly or through a WiFi gateway) into the slot that is not
active; the bootloader then starts it on trial, and the image must confirm
itself or be rolled back.

| component | code | state it keeps | operations |
|---|---|---|---|
| Metadata store | `drivers/metadata_mgr.c`, `shared/metadata.h` | two flash pages, each a record with a counter and a CRC | `metadata_read`, `metadata_write` (erase, program, read back) |
| Flash driver | `drivers/flash.c` | flash cells, each 8 bytes wide and programmed once per erase; the controller's lock, mode and error bits | `flash_erase_page`, `flash_write`, `flash_is_erased` |
| Boot decision | `bootloader/main.c` | the slot chosen (`active`), the listen window | `main`, `slot_looks_bootable`, `image_is_intact`, `update_mode`, `jump_to_application` |
| Update protocol, handlers | `bootloader/src/protocol_mgr.c` | `state`, `target_slot`, `fw_size`, `fw_crc32`, `bytes_written`, `last_seq` | START, DATA, END, ABORT, GET_INFO, inactivity timer |
| Update protocol, parser | `protocol_mgr.c`, `feed()` | `rx_state`, `rx_frame`, `rx_index`, `rx_expected` | one step per received byte |
| UART driver | `bootloader/src/uart.c` | ring buffer, its two indices, the USART's data register and ORE flag | `uart_isr`, `uart_getc`, `uart_rx_flush`, `uart_available` |
| Update mode's clock | `bootloader/main.c`, `protocol_mgr.c`, `systick.c` | `tick_count`, `start`, `last_activity_ms`, `timeout_ms` | the loop of `update_mode`, the bounded drain, the inactivity timer, the refresh |
| Application | `app/main.c` | `cycle`, `confirmed`, work bits, trigger streak, USART1's data register and ORE flag | main cycle, `ota_trigger_poll`, `confirm_startup`, reset on request |
| Boot request | `shared/boot_request.h` | a magic word in RAM that survives a reset | set, pending, clear |
| Watchdog driver | `drivers/iwdg.c` | prescaler and reload registers | `iwdg_start`, `iwdg_feed_if` |
| Fault handlers | `drivers/fault.c` | none | print and wait for the watchdog |
| Host transfer tool | `tools/flash.py`, `transport.py`, `protocol.py` | request under way, transmissions of it | `read_info`, `send_firmware`, `exchange` |
| Provisioning tool | `tools/write_metadata.py` | what it read of the two pages | dump both pages, build a record, erase both pages and write it |
| SWD trigger tool | `tools/ota_flash.py` | none | boot request through the debugger, then `flash.py` |
| WiFi gateway | `gateway/esp32_ota` | the client served, the UART's receive buffer | accept, drain, forward both ways |

How they interact:

- The interrupt fills the ring; `protocol_poll()` drains it into `feed()`, which
  calls the handlers from inside the loop. Handlers call the flash driver and
  the metadata store and answer on the same link.
- `main()` reads the metadata once, decides, and calls `update_mode()`, whose
  loop runs `protocol_poll()`. The handlers can therefore change the record and a
  slot after `main()` has decided.
- The bootloader and the application share nothing but flash (the record and the
  slots), the boot request word, and the resets.
- The provisioning tool writes the record behind the firmware's back, through the
  debugger, on a board in any state.
- Hosts reach the board directly or through the gateway, which serves one TCP session
  after the other on one serial line.
- The host knows the board only through answers that can be lost, damaged or late.

What is hard here: a power cut between any two flash operations (and inside one);
flash operations that fail after having changed something; START accepted in every
protocol state; decisions used after the state they were based on changed
(`main()`'s choice, a late answer taken for the next one); an interrupt that shares
the ring without a critical section; loss of the frame boundary; the long game of
trials, resets and new transfers over many boots; evidence of health collected from a
receiver and a transmitter that lag behind the processor; counters and addresses that
wrap; sessions that overlap on one line; and things that must come to an end (trial,
listen window, transfer, session, a pass of a loop) although the other side is silent or
never stops. The complete
list, each at its line and with the properties that cover it, is `PROJECT.json`
("hazards"); those no property covers yet say why.

## 2. The modules

```
MetadataRegister  <--refines--  MetadataStore           MetadataStoreProofs
      | (its atomicity is what OtaSystem's `meta` assumes)
FlashSlots  <--extends--  OtaSystem  <--  OtaClaims     OtaSystemProofs
                              ^   ^------  OtaRequest    OtaSystemProofs
ABUpdate   <--refines--  OtaUpdate                      OtaSystemProofs
HostTransfer  <--  HostClaims                           HostToolsProofs
WriteMetadata                                           HostToolsProofs
ByteFifo    <--refines--  UartRing                      UartRingProofs
FrameParser                                             FrameParserProofs
ProtocolTimer                                           ProtocolTimerProofs
FlashDriver                                             FlashDriverProofs
AppLoop                                                 AppLoopProofs
```

`MC*` modules only give the constants small values. Definitions commented "Mutant
of X" are plausible mistakes in X; no specification uses them, they show that each
property can fail.

### MetadataStore and MetadataRegister

`MetadataStore` is `metadata_mgr.c` one flash operation at a time. `Write` computes
`TargetPage` (`select_target()`) and `NextCounter`, then `Erase`, one `Program` per
double-word and `Verify` follow; `FlashFault` ends the call with an error before or
after the operation took effect, or with the cells torn, and `PowerCut` does the
same without a return. A page holds how many double-words are programmed, its
counter and content, and whether any cell is torn; the CRC accepts exactly the
complete and untorn ones. `metadata_read()` is the operator `metadata_read`, with
its preference for the higher counter and, on a tie, page A. The address and
length checks of the flash driver are left out: the callers satisfy them.

`MetadataRegister` is what the store promises: a register that a write changes at
one instant or not at all, and for certain when the call returns `META_OK`.
`RefinesRegister` maps `value` to `metadata_read`.

### FlashSlots and OtaSystem

`OtaSystem` is the board: everything that decides which image runs. `meta` is what
`metadata_read()` returns (an atomic register, by the refinement above), `flash` the
contents of the two slots in cells, `pc` the stage of execution (`boot`, `listen` for
`update_mode(listen_ms)`, `parked` for `update_mode(0)`, `app`). There is one action per
path of `main()` (`BootValid`, `BootTrial`, `BootRollback`, ...), per protocol handler
(`on_start_update`, `on_data`, `on_end_update`, `on_abort`, `on_get_info`), for the
inactivity timer, the end of a pass and of the window, for `confirm_startup()` and for
the application's resets. Handlers include their error branches, the erase that the
first block of a page performs, and `abort_transfer()`.

A power cut is an action per operation that writes flash (`BootCut`, `StartCut`,
`DataCut`, `EndCut`, `ConfirmCut`) besides the cut at rest (`IdleCut`): it leaves either
record, and any prefix of the cells with at most one damaged. `FlashFaults` lets
every operation report an error, whether or not it took effect.

The host is arbitrary: any frame with any number, length and data can come at any
time; so the results hold for every host program. `FramesPerPass` is how many whole
frames one `protocol_poll()` finds in the ring: 1 for a host that waits for its
answers, 2 for one that does not.

History variables: `trials` counts every start of the active slot's image while it is on trial,
the jump of `BootRollback` included, from the moment the slot becomes active; `returned` is 1 when
the first of these was that jump; `quiet` says that host, supply and flash behave from now on
(`GoQuiet` may happen once, at any moment).

### ABUpdate and OtaUpdate

`ABUpdate` is what the board promises, without slots, flash, frames or resets: an image
installed, perhaps a complete spare one, and a trial with its attempts. A transfer only
changes the spare; an installation swaps the two; a trial ends in a confirmation or, after
`MAX_BOOT_FAILURES` attempts, in a return to the spare. `OtaUpdate` maps the record and the
slots to it: `InstalledImage` is the image the record describes in the active slot, if the
slot holds it whole, `Spare` the same of the other one. `ImplementsAB` says that every step of
`OtaSystem`, a power cut in the middle of any write included, is a step of `ABUpdate` or none.

### OtaRequest

`OtaSystem` with the boot request word: `ReadRequest` is `main()` reading and clearing it before
it decides anything, `listen_ms` the length of the window it gets; the application's reset, the
watchdog, the reset button, a power cycle and `ota_flash.py` differ in the word they leave
behind. Every other action is `OtaSystem`'s own, so that its theorems carry over.

### ProtocolTimer

The loop of `update_mode()` and `protocol_poll()` against the clock: `tick_count` wraps at
`ClockMod`, bytes arrive at any moment, a turn of the loop without a frame takes up to `PassTicks`,
a byte with its handler and its answer any time up to `ByteTicks`. What a frame does is reduced to
the protocol state it leaves. `silence` and `open` are history: true durations on a clock that does
not wrap, with which the properties judge the code's own arithmetic; `spent` is what the poll that
read the open transfer's last byte took. `age` and `images` count bytes and images, not time: how
many bytes were read since START, and how many ENDs since the refresh have read an image back that
was larger than the ring.

### AppLoop

The application's main loop, cut where hardware can intervene: the LED read back, the report and
its TC flag, the trigger poll one register access at a time (a data register, an overrun flag,
bytes that arrive between the accesses), the work bits, the confirmation, the refresh. A
peripheral may be dead from the start (a faulty image) or fail at any moment; `uart_putc()` then
waits without a bound until the watchdog bites. The boot decision is reduced to the attempts.
`line_rate`, chosen once from `LineRates`, is how many bytes arrive during one drain. `held` and
`heldonly` are history: for how many polls the host has held the line with the trigger character;
`unwritten` that a confirmation since the last boot was not recorded.

### WriteMetadata

`write_metadata.py` against the two pages, each openocd run an action that may fail, be cut or
run out of time, between which the board lives on (transfers, completions, confirmations and
rollbacks as in `OtaSystem`, on the page `metadata_write()` chooses). `existing` and `failed` are
history.

### FlashDriver

`flash.c` and the controller it drives: `address_in_flash()` in unsigned arithmetic of `WIDTH`
bits, bank and page, LOCK, PER, PG and the error flags over sequences of calls, faults and
resets. Addresses and lengths are arbitrary, as a bug in a caller could present them. `touched`
is what the controller has changed. The manual's rules for the controller are external: it erases
or programs only when unlocked, in that mode alone, without a pending error flag.

### HostTransfer

One session: `flash.py`'s requests in order, `exchange()` with its retransmissions, and
the handlers' transfer state on the other side (`state`, `last_seq`, the list of blocks
`written`). The link is a queue each way that loses and damages frames; `early` counts
the waits the host gives up while the answer is still under way, `aborts` the transfers
the board drops on its own (timer, flash error, power cut) or refuses at START (slot, size,
`ERR_FLASH`). All four are bounded, so
that the properties can say how many faults of which kind they tolerate. The session
starts at a board that listens: `main()`'s detour through `trigger_ota()` is left out.

### UartRing and ByteFifo

`uart_isr()` is one action (nothing preempts it); `uart_getc()` and `uart_rx_flush()` are
cut into one action per access to memory they share with it. The USART has one data
register and the ORE flag. `ByteFifo` is the bounded queue the ring implements, where
a flush discards exactly what was there when it read the head (`doomed`), and only a flush
that has begun (`flushing`) discards anything.

### FrameParser

`feed()` one byte at a time, with one action per parser state, behind a link that loses,
damages and inserts bytes. LENGTH and SEQ are one byte wide. A byte of a CRC trailer
carries an arbitrary value, so that it can look like the beginning of a frame, and the
name of the frame it was computed over, so that the check succeeds exactly on that
frame. `clean` and `deaf` are history: whether the transmission under way met a hunting
parser and no fault, and how many bytes were read since the last fault without a frame.

## 3. The runs

All bounds are constants of the configurations.

| run | question | bounds | states |
|---|---|---|---|
| `MetadataStore` | the dual-page record is one atomic register | 3 double-words, 6 writes, 2 sane contents and 1 that the range checks refuse | complete |
| `OtaBoard` | update, trial, rollback, confirmation under any frames and cuts; they end; together they are an A/B update with atomic steps | slots of 2 cells in one page, 2 images (one never confirms), threshold 2, 1 frame a pass | 244,406 |
| `OtaFaults` | what still holds when flash operations fail; one request, one long window, and back to the application | slots of 1 cell, 2 images (one without a vector table), threshold 2, flash errors anywhere, requests from every source | 132,872 |
| `HostSession` | order, success, recovery, end of a session | 3 blocks, 3 losses, 1 damage, 2 early waits, 1 abort | 28,384 |
| `UartRing` | the ring is a queue, the receiver never goes deaf | 4 cells, 2 byte values | 30,080 |
| `FrameParser` | bounds, authenticity, resynchronisation | 5 byte values, frames of 0 and 2 data bytes, payload up to 3, CRC of 2, 2 faults | 2,095,483 |
| `ProtocolTimer` | timer and window keep their times, one image a poll | a counter of 12 values, timeout 4, windows of 0 and 2, a ring of 3, a byte takes up to 2 | 742,188 |
| `AppLoop` | evidence, refresh, trigger, confirmation; a pass ends | 2 cycles, 3 polls, a drain of 3 bytes, 1 or 3 bytes during a drain, watchdog of 3 passes, 1 attempt | 478,480 |
| `WriteMetadata` | the record the tool writes is the one read, the other slot survives | counters to 4, 2 images | 307,773 |
| `FlashDriver` | only what was asked for is changed, the controller is left ready | addresses of 6 bits, 2 banks of 4 pages, 3 of them the bootloader's | 10,179 |
| `ClaimStart`, `ClaimAnswered` | statements the code contradicts | see section 6 | |

What they show:

- **MetadataStore.** `NoCounterTie`: two valid copies never carry the same counter, so the
  tie rule of `metadata_read()` never decides. `CopySurvives`: no step, fault or cut loses the last
  valid copy. `RefinesRegister`: a write is seen whole or not at all, and after `META_OK` its record
  is the one read.
- **OtaBoard.** `RecordHonest`: no record calls a slot complete that is not, with cuts
  anywhere. A slot is one page here, so no block straddles two; `RecordHonestHolds` and
  `OnlyTargetChangesHolds` (section 5) are for every page and slot size. `RunsIntact`: an application runs only from a
  slot that holds its whole image. `TrialsBounded`: while an image is on trial in the active slot
  it is started at most `MAX_BOOT_FAILURES` times, whatever transfers begin in between, and once
  more when it came back by a rollback before it could confirm: that start is not counted
  (section 6). With nobody interfering, `RollbackHappens`, `TrialSucceeds`, `WindowEnds`.
  `ImplementsAB`: an update of many writes is never seen half-way; what the record calls installed
  changes only by installation and rollback, and each of them is atomic.
- **OtaFaults.** With any flash error, and requests and resets of every kind in between:
  `OnlyTargetChanges`: flash changes only in a slot that is not active and already marked
  IN_PROGRESS. `TrialCounterKept`: a transfer that starts and is abandoned does not earn a trial
  more. `ImageKept`: an active slot that holds its image keeps it. `TrialsBounded` does not hold
  here, because `main()` ignores the result of `metadata_write(&attempt)` (section 6).
  `RecordHonest` and `RunsIntact` do not either: a record whose write reports an error may have
  taken effect and made the other slot active under `main()`'s feet, as in `ClaimStart`. They are
  not in this run. `LongWindowAsked`: a request gives at most one long window, whatever resets come.
  `BackToApplication`: a board with a sound VALID application is not parked by a request that
  nothing follows.
- **HostSession.** `InOrder`: blocks are written in order, each once, whatever is repeated or
  late. `DoneMeansInstalled`: success is an installed image as long as no wait was given up
  early. `LossesRecovered`: fewer losses than transmissions cost nothing before the last
  request (END is sent once). `SessionEnds`.
- **UartRing.** `RefinesFifo`: bytes come out once, in order, a full ring loses the byte that
  arrives and no other, and a flush takes none that arrived after it began. `NeverDeaf`: an overrun
  is always cleared.
- **FrameParser.** `InBounds`: the assembly never leaves `rx_frame`, whatever LENGTH says.
  `OnlySent`: only frames the host sent are dispatched. `CleanDelivered`: a frame that meets a
  hunting parser and no fault is dispatched, whatever its bytes look like and whatever noise
  came before. `Resynchronises`: after a fault at most `DeafBound` bytes of sound frames are
  read before one is dispatched, when the frames do not look as if another began inside
  them. The bound counts what a LENGTH misread at the end of the frame a fault has hit can swallow,
  the rest of that frame, the rest of the frame the swallowing ends in, and one frame. With the
  real sizes that is 1035 + 3 x 267 = 1836 bytes, almost seven transmissions of a block where the
  host makes three.
- **ProtocolTimer.** `AbortNotEarly`: from the beginning of the poll that read its last byte to the drop of a
  transfer lies more than the timeout. `AbandonedEnds`: a silent transfer ends within one turn of
  its timeout. `WindowBounded`: once the window's limit has passed only the poll under way is
  finished, when no transfer is open. `OneImagePerPoll`: between two refreshes of the watchdog at
  most one image larger than the ring is read back. The first three hold across the wrap of the
  counter. What they say in milliseconds, and what they do not, is below.
- **AppLoop.** `SoundNeverReset`: with every peripheral alive the watchdog never bites.
  `OnlyHeldCounts` and `HeldIsCounted`: the streak counts the polls before which the host held the
  line, no fewer and no more; the second needs a drain longer than what arrives during it
  (`line_rate` + 1 < `DrainBudget`: 16 against a byte every 87 us). `RequestsCostNothing`: the boot
  that takes a request counts no attempt (3 polls against 2 cycles; 4 against 3 in the code), unless
  a confirmation could not be written, for `confirmed` is set all the same (`main.c:586`).
  `SilentGivenUp`:
  an image that cannot report ends in the fallback.
  `PassEnds`: the bound of the drain ends every pass, on a line as fast as the processor too.
- **WriteMetadata.** `WrittenIsRead`: no stale copy wins over the tool's record, whatever could be
  read before. `OtherSlotKept`: when the dumps worked, the other slot keeps its image. A run cut
  between the erasures may leave the older of the two records in force, one cut after them none.
- **FlashDriver.** `BootloaderUntouched`: no address and length, wrapping ones included, change the
  bootloader. `OnlyAsked`: an erase or a write changes no byte outside its range. `StartsClean`:
  every call finds the controller in a state it can work from, after any error or reset.

Update mode in milliseconds. No module claims that update mode feeds the watchdog in time: that
depends on durations the source does not state, and for the largest images on a margin that may
not exist. The code bounds one poll by counts. A drain reads at most 512 bytes; these end at most
19 STARTs of 27 bytes, each of which erases and programs a metadata page (20 to 25 ms), or a
correspondingly smaller number of longer frames, together less than a second; and at most one END
reads an image larger than the ring back (`OneImagePerPoll`; without the drain's budget a host
could line up several). That one check feeds the CRC unit byte by byte in a loop compiled with
`-O0`, some 20 cycles a byte, at 4 MHz more than two seconds for 480 KB. The sum is near the 3000
ms of `iwdg_start()`, so what a measurement has to settle is one duration, not a number of
repetitions. The same durations are `spent` in `AbortNotEarly`: a poll of one or two seconds
takes that much from the five of TIMEOUT_DATA_MS, which `protocol_mgr.c:578` meant to exclude
(section 6).

Why the bounds are enough. A slot of two cells has a first and a later block, a block that is too
long, and every cut between and inside cells; two images, one of which hangs, are all that trial and
rollback tell apart; a threshold of two has a first, a last and an exceeding attempt. Four frame
numbers are more than the blocks of a slot plus one, the relation the code has (65536 numbers, 61440
blocks of the smallest size) and the one the proofs assume. Three blocks give a first, a middle and
a last one; losses reach the number of transmissions. A ring of four wraps, fills and overruns. In
`FrameParser` the five byte values include both magic bytes, a LENGTH of 0, one in range and one out
of range. In `ProtocolTimer` the counter wraps inside the timeout and inside the window, and the
ring fills; in `AppLoop` the polls outlast the cycles and the second byte before a poll overruns;
one attempt stands for three, the loop does not see their number. `WriteMetadata` has an update, its
confirmation and a run of the tool in one history. Six address bits give addresses before, in and
beyond the flash and sums that wrap; both banks and both neighbours of every page exist. Where a
proof exists the bounds do not matter.

Deadlock is checked where the system must go on. The runs that switch it off stop by design:
update mode ends in a reset, a hung image waits for a watchdog the model has let bite, sessions end,
a bounded counter is used up.

Type invariants are not in the runs: they are proved (section 5) for every module that keeps state.

Every property of a passing run has a mutant in `PROJECT.json` that violates it.

## 4. Fairness

- `OtaSystem`: the processor keeps executing. `Boot`, `NextPass`, `UpdateComplete`,
  `confirm_startup` are code that runs to its end; `WindowCloses` and `Timeout` are
  comparisons with a clock that advances (`systick_get_ms()`), in a loop that refreshes the
  watchdog and never blocks; `AppReset` for an image that does not run is the watchdog's
  promise. No fairness is assumed for the host, and the liveness properties start from
  `quiet`. A listen window that a host keeps busy may last for ever.
- `HostTransfer`: the program runs, `receive()` has a deadline (`transport.py`), the board
  dispatches what arrives. Losses, damages and aborts are not fair.
- `UartRing`: the interrupt is taken when it is pending.
- `OtaRequest`: as `OtaSystem`, with `ReadRequest` and the watchdog's `Crash` in place of `AppReset`.
- `AppLoop`: `WF_vars(Execute)`. The processor executes the next statement, waits in `uart_putc()`
  while time passes, or is reset by the watchdog. The line and the peripherals are not fair.
- The other modules have no liveness property; `ProtocolTimer` bounds times by invariants.

## 5. The proofs

All proofs are checked by TLAPS to the last leaf.

| module | theorems | inductive invariant |
|---|---|---|
| `MetadataStoreProofs` | `StoreSafe`, `TypeCorrect`, `CountersDiffer`, `TargetNeverCurrent`, `CopyAlwaysSurvives`, `StoreRefines` | a writing call holds a page that is not the current one and a counter above every valid counter; what it has programmed is a prefix of its record |
| `OtaSystemProofs` | `TypeCorrect`, `OnlyTargetChangesHolds`, `TrialCounterHolds`, `ImageKeptHolds` | `TypeOK` and: an open transfer's target is the inactive slot and is recorded IN_PROGRESS |
| | `RollbackCourseHolds`, `TrialCourseHolds`, `SettledCourseHolds`, `BeginsHolds`, `RequestsKeepCourse` | additionally: `confirmed` is clear outside the application; the courses themselves are of the form "once in `Condemned(s)`, in it until the fallback runs" |
| | `RecordHonestHolds`, `RunsIntactHolds`, `TrialsBoundedHolds` | additionally: what `main()` chose is still active while the window is open, and the starts made since the slot became active, less the one a rollback made, are at most the attempts recorded, one fewer while a window is open (`StartInv`) |
| | `ImplementsABHolds` | additionally: the record of an open transfer's target is what its START announced (`Announced`) |
| | `BoardUnchanged`, `RequestSpentHolds`, `LongWindowAskedHolds`, `RequestsKeepImage`, `RequestsKeepBound` | a request, or `main()`'s copy of it before the decision, was asked for (`Owed`) |
| `HostToolsProofs` | `InOrderHolds`, `TypeCorrect`, `DoneMeansInstalledHolds`, `LossesRecoveredHolds` | the last number acknowledged is the number of blocks written plus one; while no wait is given up early at most one frame is on its way and it belongs to the request under way (`Matched`, `Outstanding`); every transmission but the last has cost a loss (`Pursued`) |
| | `SessionShrinksHolds` | none beyond these: `Left` counts the transmissions the host may still make, the frames on the link, the board's next answers, the faults still possible |
| | `WrittenIsReadHolds`, `OtherSlotKeptHolds` | what the tool holds of a page is what it dumped, and a page is erased or holds what the run has put there (`AsFound`, `Dumped`, `Recorded`) |
| `UartRingProofs` | `RingRefines`, `TypeCorrect` | what the reader's copies of the indices are still worth between two of its accesses |
| `FrameParserProofs` | `InBoundsHolds`, `OnlySentHolds`, `CleanDeliveredHolds`, `ResynchronisesHolds` | bytes stored and bytes expected add up to what the state and the LENGTH stored say (`Assembly`); the trailer bytes on the wire and in the assembly belong to frames sent (`LinkInv`); while a transmission is clean the assembly is what has passed of it (`CleanInv`); where the parser stands between a fault and the next frame, and what it has read by then (`DeafInv`) |
| `ProtocolTimerProofs` | `TypeCorrect`, `AbandonedEndsHolds`, `WindowBoundedHolds`, `OneImagePerPollHolds`, `AbortNotEarlyHolds` | the differences of instants modulo the counter are the true durations, or apart from them by what one poll has taken (`Inactivity`, `Window`, `Worked`); after one large image was checked, the bytes since START and those the drain may still read do not fill the ring (`Checked`) |
| `FlashDriverProofs` | `TypeCorrect`, `OnlyAskedHolds`, `BootloaderUntouchedHolds`, `StartsCleanHolds` | what CR holds at each point of a call (`Mode`); the page under erasure is that of the address asked for (`Erasing`); the words still to be written are inside the range, which was allowed (`Writing`, `Asked`) |
| `AppLoopProofs` | `TypeCorrect`, `SoundNeverResetHolds`, `OnlyHeldCountsHolds`, `HeldIsCountedHolds`, `RequestsCostNothingHolds` | the work bits a pass has collected and the passes since the last refresh (`SoundPass`); what the drain has found of a held line (`Heard`); the streak against the polls of the history (`Balance`, `Kept`, `Counted`); the streak is no longer than the cycles while the image is unconfirmed (`Unconfirmed`) |
| | `PassCourseHolds`, `SilentCourseHolds` | the watchdog's time never exceeds its period by more than a pass (`TimeBound`); an image that cannot report is at its first report or in the bootloader, and its attempts are counted (`Silenced`) |

The proofs about whole systems have one structure: lemmas on the operators; a lemma that reduces every
action to a handful of shapes (`StepShape` in `OtaSystemProofs`: nothing stored changes, a
transfer starts, a block is written, an image is installed, an attempt is counted, a
rollback, a confirmation); one lemma per part of the invariant, with one step per shape; and
the temporal step.

`ImplementsABHolds` needs more than a step of `OtaSystem` and the invariant `StartInv`: the
images of both slots are functions of record and flash, so each shape is shown to change them as one
step of `ABUpdate` does, and a step that only erases or fills the other slot to be a `Receive`.
`DoneMeansInstalledHolds` follows each request and its answer through the two queues; the argument
that an answer belongs to its request is exactly what an early wait destroys (`ClaimAnswered`).
`BoardUnchanged` shows that `OtaRequest` without its own variables is `OtaSystem`.

Assumptions. The named ASSUMEs of each module relate the constants (`SlotsAssumption`,
`SystemAssumption`, `StoreAssumption`, `TransferAssumption`, `RingAssumption`,
`WindowAssumption`; `ParserAssumption`: a frame has a trailer, its length fits LENGTH, and no frame
the host sends has more than `DATA_BLOCK_SIZE` data bytes; `TimerAssumption`: there is room in the counter for a timeout
and one poll, with 2^32 ms for any duration of a byte the board could have; `DriverAssumption`: the flash is
aligned to its pages, which are whole words; `AppAssumption`: a pass of the main loop takes less than the
watchdog's period; `ToolAssumption` and `NoRecordAssumption`: the names of garbage, of no image and of
no record are not those of an image or a record). `RequestsCostNothingHolds` assumes in its statement that
a request takes more polls than the confirmation takes cycles (`main.c:105`, `main.c:111`: 4 and 3).
`RecordHonestHolds`, `RunsIntactHolds`, `TrialsBoundedHolds`,
`ImplementsABHolds` and `RequestsKeepBound` also assume, in their statements, that
one pass dispatches one frame and that flash operations report no errors. Neither can be dropped:
`ClaimStart` has two frames in a pass, and an attempt whose write reports an error is started all the
same, without being counted.

Liveness. Under fairness and ENABLED nothing can be proved here, so `RollbackHappens`, `TrialSucceeds`,
`WindowEnds`, `SessionEnds`, `NeverDeaf`, `BackToApplication`, `SilentGivenUp` and `PassEnds` are only
model-checked. What a proof can say of six of them is said by theorems about steps, for all
constants: from the states the promise starts in (`BeginsHolds`) the system stays on its course until the
promise is kept, and a measure gets smaller. `RollbackCourse` counts
`RollbackLeft` down from attempt to attempt; `TrialCourse` and `SettledCourse` count boot, window and
cycles; `PassCourse` the statements, bytes and ticks of a pass; `SilentCourse` attempts and ticks. Bytes and
failing peripherals may come in between; they do not make the measure grow. `SessionShrinks`
is the strongest: every step of a session, of the host, the board or the link, makes `Left`
smaller, so that a session has boundedly many steps. What remains for TLC is that a step is always
possible and, by fairness, taken. `WindowEnds` and `NeverDeaf` have no such theorem.

Every safety invariant and action property of the runs is proved.

## 6. Where the code and its documents part

Two are runs that are expected to find a counterexample, and findings in `PROJECT.json`.

| run | statement | what the run shows |
|---|---|---|
| `ClaimStart` | `main.c:149`: the check before the jump keeps the board from jumping to a missing image | the check precedes the listen window; END and another START within one pass redirect and erase the slot, and after an ABORT the window closes with a jump into it |
| `ClaimAnswered` | `flash.py:303`: "global CRC verified" | answers are not matched with requests: a late one shifts all the following, and END's loss is reported as success |

The others have no run of their own. The modules behave as the code does, so the properties above
are stated with them in mind.

| where | the document | the code | module |
|---|---|---|---|
| `main.c:477` | `README.md:35`: switched back after three attempts | the result of `metadata_write(&attempt)` is ignored; failing writes give more starts | `OtaSystem` |
| `main.c:464` | `README.md:35`: three attempts | a rollback to an image that is itself on trial starts it without counting: it gets one start more than three, and again each time it is fallen back to | `OtaSystem` |
| `protocol_mgr.c:186` | `README.md:358`: the running image is not touched until the new one proves itself | an update received during a trial erases the fallback, the only image that had proved itself | `OtaSystem` |
| `main.c:488` | `main.c:501`: whoever does not jump has nothing runnable | a TESTING image that fails its check parks the board beside a sound VALID one | `OtaSystem` |
| `main.c:464` | `main.c:381`, `ota_flash.py:10`: an accepted request stretches the window | a boot that rolls back spends the request and opens no window | `OtaRequest` |
| `flash.py:270` | `uart.c:222`: the CRC catches it and the host retransmits | a damaged frame is answered with ERR_CRC, which ends the session | `HostTransfer` |
| `protocol_mgr.c:581` | `protocol_mgr.c:578`: a flash write must not be counted as silence | the instant stored was read before the bytes were handled; what the handlers took is counted | `ProtocolTimer` |
| `protocol_mgr.c:580` | `PROTOCOL.md:267`: the timer restarts after a frame, not on a byte | any byte restarts it and keeps an abandoned transfer open | `ProtocolTimer` |
| `app/main.c:582` | `app/main.c:504`: a dead peripheral leads to the rollback | the confirmation ignores the evidence and comes before the watchdog; the image stays VALID | `AppLoop` |
| `write_metadata.py:109` | `write_metadata.py:91`: what is already there is preserved | a failed dump makes the other slot EMPTY | `WriteMetadata` |
| `write_metadata.py:177` | `PROTOCOL.md:291`: VALID is bootable without reservation | the tool records an interrupted transfer in the other slot as VALID | `WriteMetadata` |
| `iwdg.c:79` | `iwdg.c:93`, `iwdg.h:73`: a timeout out of reach is clamped | from 2^27 ms on the product wraps first (the firmware asks for 3 s) | none |
| `esp32_ota.ino:123` | `esp32_ota.ino:119`: a session does not inherit half a frame | the drain reads what has arrived; a reply still coming in reaches the new session without its first half | none |
| `esp32_ota.ino:110` | `esp32_ota.ino:109`: the rest are refused | a second client waits in the TCP stack, and what it sent is forwarded later | none |

Smaller ones: `flash.py:291` handles a `Timeout` of END
that `exchange()` has already turned into another exception, and sends END once where
`PROTOCOL.md:278` promises three transmissions; `metadata.h:117` says at most one slot is
TESTING, but an update during a trial can make it two; `main.c:30` calls IN_PROGRESS a partial
image, but a rollback can make such a slot active; `PROTOCOL.md:274` has a 2 s timeout for the
wait for START, and `TIMEOUT_START_MS` is stored but never compared, because the timer only runs
while a transfer is open; `transport.py` takes the empty read of an orderly close of the TCP
session for silence, so that the host learns of it by its timeouts.

## 7. What is not modelled

- `main.c:454` and `main.c:459` are branches of `BootRollback`, but no property is stated about
  them: whether a fallback that is IN_PROGRESS, or a rollback whose write failed, should start is a
  question of intent the documents do not settle.
- The CRC (`drivers/crc.c`, `tools/crc32.py`): a CRC is the name of what it was computed over; the
  polynomial is data. Vector tables beyond "plausible or not".
- The fault handlers beyond the reset that ends them, and the host tests.
- Register sequences that keep no state the program reads again: clocks, pins, baud rates,
  `systick_init()`; the reset-flag reading and the debug freeze of `iwdg.c`. The text output.
- The prescaler search of `iwdg_start()`: a computation that runs once, with one constant. What
  matters of the application's watchdog, the refresh and its being withheld, is in `AppLoop`. Whether
  update mode refreshes in time is a matter of durations (section 3): `ProtocolTimer` counts.
- The loop of the gateway's sketch, with its TCP sessions: to the protocol it is a link that loses
  and delays, which is how `HostTransfer` has it.
- `flash.py`'s detour through `trigger_ota()`, its handling of a disconnection, and
  `ota_flash.py`'s search for the address of the request word: a session starts at a board that
  listens, the word can be set at any moment.
- `metadata_erase_all()`, which the firmware never calls, and the error counters of the UART.

## 8. Plan

Done, in the order of what decides whether a board still boots: the record (`MetadataStore`), the
board (`OtaSystem`) and its abstract promise (`ABUpdate`), the boot request (`OtaRequest`), the session
(`HostTransfer`), the receive path (`UartRing`, `FrameParser`), the clock (`ProtocolTimer`), the
application (`AppLoop`), the tools and drivers (`WriteMetadata`, `FlashDriver`).

What is left:

1. `HostTransfer` with `trigger_ota()` and disconnections, composed with the loop of the gateway's
   sketch, which decides whether one session's bytes can reach another.
2. Courses of `WindowEnds` and `NeverDeaf`, as those of section 5.
