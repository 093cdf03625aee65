# Affine Uni Bootloader: TLA+ specifications

TLA+ modules, TLC configurations and TLAPS proofs for the bootloader in this
repository: a small C program on STM32 devices that receives a firmware image
over USB or UART in framed commands, writes it to flash, vouches for it in
metadata and boots it.

## 1. Inventory

| Part | Code | State | Operations | Who it talks to |
|---|---|---|---|---|
| Update session and commands | `src/bootloader.c` | `ctx`: session, status, last error, remembered frame, deferred action; all RAM | one handler per opcode, `bootloader_poll`, `bootloader_try_boot_app`, `bootloader_init` | called by the main loop with received bytes; calls the security session, the flash driver and the transport |
| Security session | `src/boot_security.c` | `g_security`: active, manifest, running SHA-256; RAM, apart from `ctx` | begin, set manifest, transform, note plaintext, finalise, verify, reset | called by the handlers and by every image verification |
| Flash images | `src/boot_image.c`, `boot_image.h` | the slot and one or two metadata copies, each with the security state (rollback floor) | select the valid metadata, select the valid floor, store, clear | read by the session and security code, written through the platform |
| Flash driver | `targets/*/boot_platform_*.c` | flash, `g_boot_flash_ecc_errors` | erase, write, read | may fail; a power loss may stop it in the middle |
| Reset path | `targets/*/main.c`, `boot_platform_*` | the boot request word (survives a reset) | 1 s auto-boot window, main loop, jump, application reset | starts everything else |
| Frame decoder | `src/boot_protocol.c` | header bytes, payload bytes | consume one byte, resynchronise, reset | fed by `bootloader_receive_bytes`, reset by the idle timeout of `bootloader_poll` |
| USB receive FIFO | `targets/*/main.c` | head, tail, ring | push (interrupt), pop (main loop) | interrupt and main loop share it without a lock |
| USB transmit queue | `targets/common/boot_target_common.c` | 8 packets, head, tail, count, in flight | send, poll | endpoint busy flag |
| UART transport | `targets/stm32f072/transport_uart.c` | receive ring | receive (interrupt), send (blocking) | as the FIFO |
| Host tool | `tools/boot_test.py` | attempt, deadline | send, wait, retry | the device, over a link that loses and delays |
| Boot guard, updater | `boot_guard_*.c`, `stm32g431_blupdater/main.c` | the bootloader's own flash pages | check at reset; rewrite page by page | the ROM loader when the check fails |
| Crypto | `src/boot_crypto.c` | the running hash | SHA-256, RSA, AES-CTR | the security session |

What makes it hard:

* **Failure and power loss inside a command.** BEGIN, SET_MANIFEST, DATA, COMMIT
  and CLEAR_METADATA each make several flash operations; each may fail or be the
  last one before the power goes. All that survives is flash, half erased or torn.
* **Retries.** A host resends a frame whose answer was lost. DATA and COMMIT are
  not idempotent; the device remembers the last one that succeeded.
* **State in two places.** The session in `ctx` and the context in `g_security`
  are set and reset by different calls on different error paths.
* **Check, then use later.** BOOT_APP verifies the image and jumps 100 ms later;
  commands go on being handled in between.
* **Several copies.** The first copy that reads valid wins, for the metadata and,
  separately, for the rollback floor.
* **Interrupts and queues.** The receive and transmit rings are shared between
  interrupts and the main loop without a lock; both drop when full.
* **A line that loses bytes.** The decoder must find the next frame, a partial frame
  must not swallow the host's retry, and the host must tell a late answer from its own.
* **Replacing the bootloader itself**, page by page, under power loss.

What makes each part correct: the session and its security context are about the
same update; flash holds what was counted as written; an acknowledged COMMIT boots
after any reset; a repeated frame is answered truthfully; a jump lands in the image
that was verified; the reported status is true; the floor never goes down; nothing
is erased for a request nobody signed. The decoder finds every intact frame after a
damaged one; the rings keep order and lose only when they are full; the host reports
success only for an image that is installed, ends every run and, with enough retries,
finishes the update; an interrupted rewrite of the bootloader is recoverable.

## 2. Modules

| Module | Models |
|---|---|
| `BootFlash` | flash: cells, copies, reading, and for each piece of flash work the set of ways it can end (`EraseOutcomes`, `WriteOutcomes`, `StoreOutcomes`, `ClearOutcomes`) |
| `BootSecurity` | `boot_security.c` as operators on a security context |
| `Bootloader` | the state machine: one action per command and per step of the main loop, `Init`, `Next`, `Spec`, the properties |
| `MCBootloader` | what the hosts of each run send, as definitions for the `.cfg` files |
| `BootloaderProofs` | typing lemmas, one per action, and `TypeCorrect`; the rollback floor: what is selected, what can lower it |
| `SessionProofs` | session and security context, the acknowledged image, repeated frames, what flash holds, what the status says, COMMIT, the jump, unsigned updates |
| `ByteQueue` | abstract: a bounded first-in first-out queue of bytes, taken out in batches |
| `RxFifo` | the receive ring of the targets' `main.c`: interrupt and main loop as two actors; implements `ByteQueue` |
| `FrameDecoder` | `boot_protocol.c`, one byte at a time |
| `RxFifoProofs` | the ring implements `ByteQueue`, for every size |
| `Receive`, `MCReceive` | host, line, interrupt, ring, decoder and main loop together |
| `ReceiveProofs` | all safety properties of `Receive`, for any commands, line and number of faults |
| `PacketQueue` | abstract: a bounded queue of answers, which leave in order |
| `TxQueue` | `boot_target_common.c` with the endpoint of the CDC class driver; implements `PacketQueue` |
| `TxQueueProofs` | no slot is written while the endpoint reads it; the queue takes only steps of `PacketQueue` |
| `SequenceLemmas` | appending to, taking from and cutting sequences, for the proofs about queues, bytes and frames |
| `BootGuard`, `MCBootGuard` | boot guard, bootloader updater, ROM loader, request word |
| `FlashDriver`, `MCFlashDriver` | address arithmetic of the targets: range checks, pages erased, units programmed, vector table check, wrapping clock; and the small words on which TLC compares it with reference definitions |
| `TargetProofs` | a rewrite of the bootloader is restartable, for any number of pages and faults; the drivers erase what they are asked to; the clock may wrap |
| `Installation` | abstract: what whoever runs the host tool is promised |
| `HostLink`, `MCHostLink` | the host tool's `flash` command, the line, and the device of `Bootloader`; implements `Installation` |
| `HostLinkProofs` | the device of `HostLink` is `Bootloader`; host and device agree, and success is true, for runs that start on an empty line |

`Bootloader` EXTENDS `BootSecurity` EXTENDS `BootFlash`; `HostLink` EXTENDS `Bootloader`;
`Receive` EXTENDS `RxFifo` and `FrameDecoder`; `MCBootloader` EXTENDS `MCFlashDriver`, which is
an INSTANCE of `FlashDriver`. Definitions whose comment
begins "Mutation:" are faulty variants; no specification uses them. Each is a bug
this code could plausibly have had, kept to show that the property paired with it in
`PROJECT.json` would have found it.

### The device: state

| Variable | Code |
|---|---|
| `session` | `ctx->session` (`running`: what `written_size` and `running_crc32` are about; `erased`: `app_erased`) |
| `security` | `g_security` (`hashed`: the bytes in the SHA-256 context; `final`: it has been finalised) |
| `status`, `lastError` | the same fields of `ctx` |
| `retry` | `ctx->retry_*`: opcode, sequence and payload of the last DATA or COMMIT that succeeded |
| `pending` | `ctx->pending_action`, with the metadata BOOT_APP verified |
| `bootRequested` | `ctx->boot_requested` |
| `mode` | where `main` is: the auto-boot window, the main loop, or gone to the application |
| `app`, `copies` | flash |
| `launched`, `acked`, `interruptions` | history, read by properties and bounds only |

### The device: actions

`BeginSession`, `SetManifest`, `WriteData`, `CommitSession`, `Abort`,
`ClearMetadata`, `Reboot`, `VerifyImage`, `BootApp` are the handlers that change
state; each has a disjunct per way the handler ends (refused, done, flash error,
power lost). `Query` stands for HELLO, GET_STATUS, GET_METADATA, GET_DEVICE_INFO and
GET_DIAG. `Malformed` is a known command of the wrong length or an unknown one.
`RepeatedFrame` is the exact repeat `bootloader_frame_is_retry` answers without
running. `Poll` is the deferred reboot or jump, `TryBootApp` the end of the auto-boot
window, `AppResets` the running application resetting the device with or without the
boot request, `PowerCycle` the loss of power between two commands.

`Answer` is the common end of every command: status, last error and the remembered
frame (`bootloader_handle_frame` and `bootloader_note_frame_run`).

### The receive path

`fifo`, `head`, `tail` are the ring's globals; `chunk` is the local array of
`boot_stm32f072_poll` (the same code is in the G431 and H503 `main.c`) and `copied` its
program counter between reading a byte and moving the tail, where interrupts come in.
`header` and `payload` are the decoder's buffers, `ready` its output frame. `pc` is the
main loop: drain the ring (`Drains`, `DrainFinished`), feed the decoder (`Feeds`), run a
command (`Handles`), `bootloader_poll` (`Polls`, with `IdleReset` or `NoIdleReset`).
`Interrupt` is the UART or USB interrupt, `LineCarries`, `LineDamages`, `LineLoses` and
`LineAdds` bring it a byte or keep it from coming; `HostSendsInTurn`, `HostWaits` and
`HostSendsAgain` are `send_frame_and_read` as seen from the device: send, wait for the
deadline, send again, or (an impatient host) without waiting.

* A header is the magic and one more byte that stands for the other fields: a value of
  `Kind` has a right header CRC, any other byte a wrong CRC or length. `PayloadOf` is the
  one payload whose CRC the header carries.
* Time is one bit, `quiet`: the idle time has passed since `last_rx_ms`. It becomes true
  when the host waits or a command runs for long, and false when a batch is taken in.
  Bytes of one frame and rounds of the main loop follow each other much faster.
* `tracked`, `ran`, `hurt`, `slow`, `fed`, `overflow` are history, read by properties only.
* The rest of a header with a right CRC comes from the host's frames only (`HeadersAreSent`):
  neither noise nor a payload contains one. A payload that holds a whole header of a frame is
  thus out of scope; one that holds the magic is in it.

### The transmit queue

`slots`, `head`, `tail`, `count`, `inFlight` are the fields of
`boot_target_usb_transport_t`; `polling` is the point in `poll` between its two looks at
`TxState`. `txState`, `source`, `fetched` are the class driver's flag and buffer pointer
and the USB packets the host has fetched from it: the driver does not copy, so a slot
that is reused too early shows. `HostConfigures` is a bus reset. `CDC_Transmit` cannot
answer "busy" here, because only it sets `TxState` (that branch of `poll` is not an action).

### The boot guard

`flash` says of each unit of the bootloader (vectors, guard, body) whether it is of the
old or the new image, blank or torn; `build` what kind of image each is (without guard,
not stamped, stamped, stamped for another body); `word` is the request word in RAM; `mode`
what runs. `GuardVerdict` is the reset handler with `boot_guard`; `ErasesPage` and
`ProgramsUnit` are `reflash_page` (and the ROM loader writing the same pages in the same
order); `PowerCut` may come anywhere and leaves what it hits in any state in between;
`OperationFails` is an error of the HAL. Boards: the G431 with the updater, the F072 with
the ROM-loader escape.

### The flash drivers' arithmetic

`Bootloader` erases and writes chunks; that this is the right grain is up to the address
arithmetic of the three `boot_platform_*.c`, which `FlashDriver` models on words that wrap at
`WordLimit`. `ErasedF072`, `ErasedG431` and `ErasedH503` are the pages that the loops of
`boot_platform_flash_erase` pass to the HAL (addresses on the F072, bank and page on the G431,
runs of sectors bank by bank on the H503), `WriteResult` and `ProgrammedUnits` what
`boot_platform_flash_write` answers and programs, `FlashRangeIsValid` and the two alignment
checks those of `boot_target_common.c`. `VectorIsValid` is the vector table check that
`BootFlash` takes as the set `VectorOk`; `DueAt`, `ActionIsDue` and `IsQuiet` are the clock that
the state machines abstract. `TouchedPages` is what an erase has to erase.

### The host and the line

`step`, `index`, `attempt`, `awaiting`, `mismatch` are where `flash_image` and
`send_frame_and_read` are; `port` and `reopened` the serial port; `toDevice` the frames that
have arrived at the device, `toHost` the answers on their way. `HostReads`, `HostTimesOut`,
`AnswerDamaged` and `HostPortFails` are the ways a try ends; `Acceptable` is what
`flash_image` demands of an answer, `Fits` what it compares with the device's description
before BEGIN. `HasManifest` says whether the tool was given, or can sign, a manifest for this
update: without one an encrypted update ends before BEGIN (`MayBegin`), any other signed one
after BEGIN was accepted, with an ABORT (`MayGoOn`). `Reconnects` is `reconnect_after_exception` with the recovery by GET_STATUS;
`Fails` is `main`'s handler with `best_effort_abort`. A device step of `HostLink` is an
action of `Bootloader`, chosen by the frame, together with the answer it sends.

* Frames and answers keep their order; they may be lost or damaged, and an answer may come
  after the deadline. A reset loses what the device has not handled; over USB the port breaks.
* ABORT is sent on the port object of `main`, which a reconnection has closed: after one,
  a failing run sends none. A mismatch on the last try is a RuntimeError and skips the
  recovery: after BOOT_APP the tool then reports failure for an update that is installed.
* After a reconnection the tool accepts any session that expects the size of its image and
  has no data yet. It may be one an earlier run left: COMMIT checks the image, so the image
  installed is the one wanted (that is what `Installation` promises), but its version
  could be the earlier run's.
* Sequence numbers are those of the code; no run is long enough for them to wrap.

### Abstractions of the device

* The unit of flash content is the chunk one DATA frame carries; an erase page is a
  set of chunks. A chunk is one of `Chunk`, `Erased`, or `Torn` (erasing or programming
  was cut short). Where `HasEcc`, reading a torn chunk counts as an ECC error and the
  image is refused; elsewhere a torn chunk equals no image's chunk.
* CRC-32 and SHA-256 have no collisions: the digest of an image is the image. A
  finalised SHA-256 context gives `BadDigest` when it is finalised again, because
  `boot_sha256_final` pads it in place.
* A signature verifies or does not; a signed manifest carries the right digest for
  its image, because the signer computed it. AES-CTR is the constant operator `Xcrypt`.
* A metadata record or security state in flash is intact or unreadable: its CRC decides.
* Programming a chunk over another may succeed in the driver and leave it torn.
* A command is one step, from its frame to its answer; the main loop is the only
  actor that runs handlers, so no other handler comes in between. What can happen in
  the middle is a flash error or a power loss, which are outcomes of that step.
* No clock: the deferred action may fire at any moment after it was scheduled, the
  auto-boot window may end at any moment. Every real timing is among these behaviours.
* In `Bootloader` answers are not delivered to anybody and may all be lost: a host may
  send any command of its finite repertoire at any moment, which covers every retry
  pattern. `HostLink` is where answers matter.
* Progress and diagnostics counters, the text of reports and framing are left out.

## 3. Runs

| Run | Question | Distinct states |
|---|---|---|
| `updates` | every kind of update, good and bad, with one flash interruption anywhere: do session, security context, flash, status and jump stay consistent? | 221,528 |
| `floor` | does the rollback floor survive COMMITs over two copies, with a floor of an older layout and up to two interruptions? | 230,552 |
| `onecopy` | the STM32F072: one copy, no ECC, two interruptions: does an acknowledged image boot, and what can cost the floor? | 179,004 |
| `signed` | a device that requires signatures, two chunks per erase page, with requests for another target or too large and DATA of a wrong length: is anything erased or started that nobody signed, and is a repeated frame answered truthfully? | 140,716 |
| `receive` | a host that resends, a line that loses, damages or adds a byte, the interrupt between any two steps of the main loop: does every intact frame run, nothing else, and every command in the end? | 585,951 |
| `transmit` | the queue of answers and the endpoint: do answers leave whole, in order, and at all? | 13,328 |
| `guard` | the bootloader rewritten under three power cuts or flash errors: is there always something to start, and does the rewrite end? | 103,040 |
| `link` | two runs of the host tool (an update may lack its manifest or be too large), two lost, damaged or late frames, one kill, reset or flash error: is "success" true, does each run end, do enough retries succeed? | 407,803 |
| `commitretry`, `clearjump`, `clearfloor`, `padded` | four statements of comments and README that the code does not keep (section 6) | violated |

Each run of `MCBootloader` also evaluates the five statements of `MCFlashDriver`, on a word of
32 values and flash of 16 bytes at the bottom or the top of it: `RangesAreChecked` (a range is
accepted exactly if every byte of it is in flash), `ErasesExactlyWhatTheRangeTouches` (each of
the three drivers, one bank and two, for every range), `WritesExactlyTheRange`,
`EntryIsInTheSlot` and `DeadlinesSurviveWrap`.

What the properties say:

* `TypeOK`: the type invariant of every variable.
* `SessionMatchesSecurity`: `ctx` and `g_security` are about the same request and the
  same bytes, and a signed session has been erased only after its manifest verified.
* `FlashHoldsWritten`: what a session counts as written is in flash or reads as torn;
  what it has yet to write is erased.
* `AckedBoots`: after COMMIT is acknowledged, every boot selects its metadata and
  finds the image valid, until some command erases.
* `RetryStillTrue`: whenever a frame would be answered from memory, its effect is
  still the last thing that happened to the session.
* `JumpTargetVerified`: a scheduled or done jump has the verified image under it.
* `StatusTruthful`: COMMITTED and RECEIVING are said only when they are so.
* `CompleteSessionCommits`: whatever failed and was retried on the way, a completely
  received image is not refused by its first COMMIT.
* `SelectedFloorIsHighest`, `CommitKeepsRedundantFloor`, `FloorKeptUninterrupted`: the
  floor selected is the highest any copy holds; with two agreeing copies no interrupted
  COMMIT lowers it; with one, only an interruption can.
* `NothingErasedUnsigned`: where unsigned updates are refused, the application slot changes
  only in an open session, and only by SET_MANIFEST with a manifest that verifies for that
  session, or by DATA after one has. It names the command and its manifest: a forged manifest
  that erases, or another BEGIN that does, violates it.

* `FifoIsQueue` (`RxFifo` implements `ByteQueue`): bytes come out of the ring in the order
  they came in, and one is dropped only when the ring is full.
* `KeepsLongestCandidate`: of the bytes consumed the decoder holds the longest suffix that can
  still become a frame.
* `OnlySentFramesRun`, `IntactFrameRuns`: a command that runs was sent; a frame whose bytes all
  arrive runs, unless the decoder was waiting for the payload of a damaged one.
* `IdleResetJustified`: the idle reset drops a partial frame only after bytes were lost,
  damaged or added, or when a command ran for longer than the idle time after the batch
  came in. The second case is real: `last_rx_ms` is taken before the commands of a batch
  run, so a frame that arrives in two batches around a long erase can be dropped although
  none of its bytes is lost; the host's retry then gets through.
* `WaitingHostNeverOverflows`: a host that waits for answers never fills the ring.
* `EveryRequestRuns`: every command of such a host runs in the end.
* `SlotHeldInFlight`: while a transfer runs, its slot is the oldest of the queue, is counted,
  and holds what the host has fetched.
* `AnswersLeaveInOrder` (`TxQueue` implements `PacketQueue`, its fairness included).
* `SafeOutsideFirstPage`, `UpdateEnds`, `RomRecovers`: outside the first page every start ends in
  a complete bootloader or the ROM loader; the updater finishes or halts; a board in the ROM
  loader gets a bootloader again. A power cut while the first page is written can leave a
  board that only its BOOT0 pin saves: the properties say so by excluding exactly that case.
* `HostAndDeviceAgree`: while the tool sends DATA and COMMIT, an open session of the device is
  this run's and has the chunks the host counts, plus at most the one under way.
* `ImplementsInstallation`: success is reported only when the device would start the image
  asked for, and nothing touches it until the tool runs again.
* `RunEnds`, `UpdateSucceeds`: a run of the tool ends; one that begins with a device that listens
  and accepts the request, with a manifest if it is signed, and meets fewer faults than it has
  tries ends with success.

### Bounds

| Bound | Value | Why it is enough |
|---|---|---|
| `SlotChunks` | 1 to 3 | two chunks give a first, a next and a last chunk and an image shorter than the slot; three with two per page give a partly used last page |
| `Chunk` | two contents | right and wrong, with and without a vector table; the `padded` run adds 0xFF |
| `Requests`, `Manifests` | 2 to 5, 0 to 4 | each flag combination the code tells apart, each reason to refuse, a manifest for another request, one that does not verify |
| `Seqs` | 1 or 2 | a repeat and a new frame with the same payload; only `RetryStillTrue`, checked by `signed`, depends on the number |
| `link`: `Seqs` | `MCSeqs` | the sequence numbers `flash_image` uses for two chunks, and those of its recoveries |
| `MaxInterruptions` | 0 to 2 | one interrupts each command at each operation; two interrupt a COMMIT whose predecessor already was |
| `CopyCount` | 1 and 2 | the two layouts that exist; `link` uses one, the host does not see the difference |
| `FifoSize`, `DrainChunk` | 7, 2 | the ring holds the longest frame (6 bytes) and not two, as in the code (1024 bytes, 532); a frame takes several batches |
| `Magic`, `PayloadOf` | 3 bytes; a payload equal to the first two bytes of the magic, and none | a payload that looks like a frame start, resynchronisation by one and by several bytes |
| `receive`: `MaxFaults`, `MaxImpatient` | 1, 1 | each fault at each byte; the retry after it meets the state it left |
| `QueueSize`, `Parts`, `Packet` | 3, 2, 3 | the ring wraps; an answer can be half fetched when its slot is freed; three answers in the queue are told apart |
| `guard`: `PageOf` | 7 units in 3 pages | a first page with vectors, guard and body, a middle and a last one, each of more than one unit |
| `guard`: `MaxFaults` | 3 | a second cut while the damage of the first is repaired, and one more in the ROM loader |
| `Retries`, `MaxRuns`, `link`: `MaxFaults` | 2, 2, 2 | every try of a command can be lost, so that the recoveries happen; a second run meets what the first left |
| `MaxUpsets` | 1 | one kill, power cycle or flash error anywhere in the two runs |

The runs of `MCBootloader` and `transmit` check deadlock: a power cycle, or a poll, is always
possible. `receive`, `guard` and `link` do not, because the system may stop there: the host has
had all its answers, a board has halted or is dead, and the tool has made its last run
while the device waits in its main loop.

### Fairness

`Bootloader!Spec` and the safety properties need none. The liveness properties assume:

* `Receive`: the main loop goes on (weak fairness of `MainLoop`: it never blocks), a byte that
  is sent arrives in the end (`LineCarries`; faults are bounded), and a host without an answer
  waits and sends again (`HostWaits`, `HostSendsInTurn`: the retry loop).
* `TxQueue`: the main loop polls, and a host that has the port open reads (`Usb`).
* `BootGuard`: programs go on running and power comes back (`Boot`), and a board in the ROM
  loader is written by somebody (`Write`).
* `HostLink`: the tool runs (`HostRuns`: each of its waits has a deadline) and the device takes
  the frames it has (`DeviceTakes`). Nothing is assumed of the line: `UpdateSucceeds`
  excludes the runs with as many faults as tries.

## 4. Proofs

Every safety property that a passing run checks is also a theorem about its specification,
for any number of chunks, pages, requests, ring slots, commands, faults, tries and runs. Three
need a hypothesis on the constants (`JumpTargetVerified` and two of the floor's) and two a
hypothesis on the runs of the tool (`CleanStart`); each is explained below.

### Assumptions

Each is named, stands in the module that declares the constants, and is evaluated by TLC in the runs.
They fix the shape of the constants, and these facts about the world:

* `SecurityAssumption`, `FlashAssumption`: a verified manifest has the right digest, a torn
  cell reads as no image's chunk.
* `HeadersAreSent`, `FrameFits` (`Receive`): see section 2; the ring is longer than a frame.
* `ToolAssumption`, `FrameAssumption` (`HostLink`): what the tool sends is among what hosts send:
  no empty image (`load_image_bytes` refuses one), the sequence numbers of `flash_image`.

### The device (`BootloaderProofs`, `SessionProofs`)

* `TypeCorrect`: `Spec => []TypeOK`. `TypeOK` is inductive by itself. One
  lemma for each family of flash outcomes, for `PowerUp` and `Answer`, for each action, and
  one that combines them.
* `SessionAndSecurityAgree`: `Spec => []SessionMatchesSecurity`. Inductive
  together with `TypeOK`. DATA hashes and counts together or not at all; SET_MANIFEST
  takes a manifest only if it equals the request BEGIN stored.
* `AcknowledgedImageBoots`: `Spec => []AckedBoots`. Not inductive: DATA could
  overwrite an acknowledged image if an open session could be erased while `acked` holds.
  The strengthening `ErasedBeforeWritten` (an open session that has been erased excludes an
  acknowledged image) closes it; `BootInv` is the two together. The COMMIT step is the
  core: the candidate floor it verified against is the floor that every copy holds
  afterwards.
* `RetryAnswersTruth`: `Spec => []RetryStillTrue`. Inductive with `TypeOK`;
  the point is that every command that changes the session forgets the remembered frame.
* `WrittenChunksAreHeld`: `Spec => []FlashHoldsWritten`. Inductive with
  `ErasedBeforeWritten`: nothing is written before the erase, so an erased session starts
  with nothing written on erased pages; RESUME trusts what `running` counts.
* `StatusIsTrue`: `Spec => []StatusTruthful`, over the steps of every command.
* `CompleteSessionIsCommitted`: `Spec => []CompleteSessionCommits`. The property
  compares checks made at BEGIN with checks made at COMMIT. `Accepted` carries the results
  of the first until the second: the floor BEGIN compared with is still the one in flash,
  unless a COMMIT has begun to store a new one. `UpdateInv` is everything together.
* `JumpLandsInVerified`: `Blank \notin Chunk => (Spec => []JumpTargetVerified)`.
  The assumption is needed: an image whose tail reads as erased flash verifies while that
  tail is not yet written, and DATA can then change it under a scheduled jump (the `padded`
  run). DATA writes only where flash is erased, so where no chunk of an image reads as
  erased it cannot touch a verified one.
* `NothingIsErasedUnsigned`: `Spec => NothingErasedUnsigned`, an action property from `UpdateInv`.
  `WhoChangesApp` says that a chunk changes only in an unsigned BEGIN, a SET_MANIFEST that has
  accepted its manifest, or a DATA that writes; where unsigned updates are refused the first does
  not exist, the second compared the manifest with the request of the session
  (`SessionMatchesSecurity`), and the third finds the session erased, so verified.
* `SelectedIsHighest`: `Spec => []SelectedFloorIsHighest`. Not inductive: an erase
  cut short can take the first copy's state away and leave a legacy floor above the second
  copy's. `FloorsOrdered` closes it: the first copy is stored first, so its state is never
  below the last copy's, and a legacy floor in the first copy excludes a state in the last.
* `RedundantFloorIsKept`: `CopyCount = 2 => (Spec => CommitKeepsRedundantFloor)`; and
  `FloorIsKeptUninterrupted`: `PreserveOnClear => (Spec => FloorKeptUninterrupted)`. With one copy
  an interrupted COMMIT can cost the floor; a build whose CLEAR_METADATA wipes the state
  lowers it on purpose. `clearfloor` shows what the first theorem leaves out.

### The queues (`RxFifoProofs`, `TxQueueProofs`)

* `RingIsQueue`: `FifoSpec => FifoIsQueue`, the refinement, for every size of ring
  and chunk. The invariant `FifoInv` (`FifoInvHolds`) adds to the types that a byte copied and
  not yet released is still the one at the tail; `PushAppends` and `AdvanceTakes` say what
  moving the head and the tail do to the queue under the refinement mapping, whatever the
  wrap, and each step of the ring is then a step of `ByteQueue` or a stutter.
* `TxTypeCorrect`, `SlotsAreHeld`: `Spec => []TypeOK` and `Spec => []SlotHeldInFlight`. `TxInv` adds
  that the head is `count` slots after the tail and that what is in flight is counted; the send
  step is the core, since the head may be at the tail when the queue is empty or full.
* `AnswersStepInOrder`: the safety part of `AnswersLeaveInOrder`, for every size of
  queue: under the refinement mapping each step is one of `PacketQueue` or a stutter. `TxInv`
  is again what it rests on; a transfer that ends before the poll has freed its slot is
  why the mapping counts `Gone`. The liveness half of `PacketQueue` is left to TLC.

### The receive path (`ReceiveProofs`)

`TypeInv` is `FifoInv` with the types of the loop and `DecoderInv`: the decoder holds the start of
a magic, or the header and a proper part of the payload of a known kind. On top of it:

* `ReceiveTypeCorrect`, `ReceiveRingIsQueue`: `TypeOK`, and `FifoIsQueue` with the other actors around
  the ring.
* `DecoderKeepsLongest`: `Spec => []KeepsLongestCandidate`. `HoldsLongest` is the invariant: within a
  header the bytes held are a suffix of those fed, and no longer suffix may be a frame; a
  suffix that was ruled out stays ruled out when bytes follow.
* `OnlySentRuns`: `Spec => []OnlySentFramesRun`. `SentInv`: every byte in the ring, the chunk, the
  decoder and on the line is of a frame sent so far, or noise, and noise completes no header.
* `WaitingHostFits`: `Spec => []WaitingHostNeverOverflows`. `Stream` is what the decoder holds, the
  chunk, the ring and the line, one after the other. Without faults and impatience it is
  either empty or the one frame the host waits for (`WaitingInv`), which the ring has room
  for. That no idle reset falls on it is part of the invariant.
* `IdleResetIsJustified`: `Spec => IdleResetJustified`. As long as nothing was hurt, `Stream` is whole
  frames; `Whole` is the least set closed under appending a frame, because induction over
  a sequence of frames is not to be had.
* `IntactFramesRun`: `Spec => []IntactFrameRuns`. A tracked frame that has not run is still ahead in
  `Stream`, behind bytes that complete no header (`Ahead`), and while it is, the idle time does
  not pass; `WaitIsQuiet` says what can still come while the host waits.

Two details of the model come from these proofs; neither shows within the bounds of the run.
The host's wait is over only when the line has been quiet for that long: a byte of noise that
comes in just before the deadline starts the idle time anew, and the host that sends then
counts as impatient. And an idle reset that leaves the rest of a frame in the ring or on the
line leaves the stream `hurt`.

### The host tool (`HostLinkProofs`)

* `DeviceIsBootloader`: `LinkSpec => Spec`. Whatever the tool sends is what hosts may send
  (`HostInv`), so the device under a lossy line, resets and power cuts takes only steps of
  `Bootloader`, and all its theorems hold here.
* `LinkTypeCorrect`: `LinkSpec => []LinkTypeOK`.
* `CleanRunsAgree`: `LinkSpec /\ [][CleanStart]_linkVars => []HostAndDeviceAgree`, and `SuccessIsTrue`:
  `LinkSpec /\ [][CleanStart]_linkVars => ImplementsInstallation`, the refinement of `Installation`.
  `CleanInv` is inductive with the device's theorems (`Base`). Its core is `RunLine`: `StageOf`
  numbers the commands of a run, and what is under way, answers before frames, never falls back
  in that order. So once the tool has read the answer to its present command, nothing
  older than that command is left. `BeginsGone` says that no BEGIN can then restart the session,
  `ChunkAgrees` that the chunk under way is written or not, and if it is, that all further
  frames repeat it; `SessionAgrees` and `SuccessAgrees` say the same of the other commands.

`CleanStart` says that when the tool is started nothing of an earlier run is on the line. `main`
waits 0.2 s and drops its input buffer before it sends (`boot_test.py:1829`), which makes that
so unless the device is still busy with a frame of a run just ended. Without it
`HostAndDeviceAgree` is false for enough runs: the sequence numbers of all runs are the same, so
when several runs for different images follow each other on a line that still holds frames
and answers, each can take an answer to the run before it for its own, until one sends DATA
while its BEGIN has yet to be handled and the open session is that of another image (TLC finds
this with four runs and four faults). COMMIT checks the image, and for the same four runs
`ImplementsInstallation` does hold; it is not proved without `CleanStart`. The `link` run
checks both properties without `CleanStart` for two runs, where they hold.

### The targets (`TargetProofs`)

* `RewriteIsRestartable`: `Spec => []SafeOutsideFirstPage`, with `GuardTypeCorrect`, for any
  number of units, pages and faults. Not inductive: the property says nothing while the
  first page is written. `WriteInv` says how far a writer has got (`Progress`) and what it
  has left when it has stopped (`Settled`).
* `AcceptedRangeIsInFlash`, `F072ErasesWhatIsTouched`, `G431ErasesWhatIsTouched`,
  `EraseStaysInItsRegion`: for every word width, flash and page size, a range that the check
  accepts lies in flash, the F072 and the G431 (with one bank and with two) erase exactly the
  pages it touches, and erasing a region of whole pages leaves all others alone. The
  hypothesis `Fits` holds of every target: the flash, and a bank of it, is a whole number of
  pages and ends before the last address.
* `DeadlineSurvivesWrap`, `QuietSurvivesWrap`: the comparisons of `bootloader_poll` are right across a
  wrap of the millisecond clock, for as long as half its range, and the whole of it, respectively.

### Model-checked only

* Liveness under fairness, which the prover does not reach: `EveryRequestRuns`, `UpdateEnds`,
  `RomRecovers`, `RunEnds`, `UpdateSucceeds`, and the fairness in `AnswersLeaveInOrder`.
* The erase loop of the H503: `ErasedH503` is a recursive function of what is left to erase, and
  what it computes for every input would need induction over it.

## 5. Plan

What is left, in order of weight:

1. A weaker hypothesis than `CleanStart`: `ImplementsInstallation` may need less of the line
   than `HostAndDeviceAgree`, since COMMIT checks the whole image.
2. The deferred action with the clock of `FlashDriver` in `Bootloader`, instead of at any moment.

## 6. Findings

* `commitretry`: COMMIT finalises the running SHA-256 in place. If it then fails on flash,
  the session stays open but the host's retry can never succeed for a signed update, though
  the comment at `bootloader.c:1010` counts on it.
* `clearjump`: CLEAR_METADATA does not cancel a scheduled BOOT_APP; the device jumps to an
  application it has just disowned.
* `clearfloor`: CLEAR_METADATA erases all copies before it writes the preserved rollback
  floor back; a power cut in between loses it.
* `padded`: an image that ends in 0xFF verifies while its tail is merely erased; DATA of
  another image can then change it under a scheduled jump.

## 7. Not modelled

* Vendored STM32Cube code, USB stack glue, start-up code: I/O configuration.
* The arithmetic of SHA-256, RSA and AES: no state the properties tell apart, and out of a
  model checker's reach.
* Key generation, embedding and release scripts: run once per build, keep no state.
* The host tool's other commands: single requests without a session. How it reads the image,
  reads or builds the manifest and finds the USB port: files and operating system.
* The sending side of the UART transport (a blocking loop) and the counters of GET_DIAG.
* `wait_for_bootloader_hello`: HELLO until the bootloader answers; in `HostLink` the device may
  be in its auto-boot window when the tool starts.
* A bus reset between `CDC_Transmit`'s setting of `TxState` and the driver's start of the
  transfer, which is inside the class driver.
