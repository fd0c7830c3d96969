# TLA+ models of the Revolver/Garcia firmware-update path

This directory holds TLA+ models of the u-boot firmware-update path used by the
Revolver and Garcia boards. Each model is checked with TLC.

## The system

Sources, and the parts each one holds:

- `src/board/labx/revolver/firmware-update.c` is the firmware-update client. It
  has five parts:
  - **Update Session** (`startFirmwareUpdate`, `sendDataPacket`, lines 72-131).
    It copies host packets into the DDR2 staging region and counts
    `bytesReceived` against the declared `length`.
  - **Update Executor** (`doCrcCheck`, `executeFirmwareUpdate`, lines 133-167).
    It checks the staged image header and data CRC. It runs the HUSH command only
    on a kernel image with a good CRC, and writes the outcome to `*state`.
  - **Event Latch** (`get/set_eventQueueEnabled`, `get_nextQueuedEvent`, lines
    195-223). With the queue enabled, a completed execution sets `eventValid`. The
    host's next poll returns the `UPDATE_EXECUTED` event and clears it.
  - **Request Dispatcher** (`DoFirmwareUpdate`, 235-298). It reads one mailbox
    request at a time and routes it by class, then writes the response. After the
    response it runs a pending execution and arms the event.
  - **Boot Decision Sequencer** (`CheckFirmwareUpdate`, 308-429):
    1. It probes the ICAP to learn whether the FPGA fell back to the golden image.
    2. It polls the mailbox up to four times, 250 ms apart.
    3. It then either stays in the update loop, which never returns, or boots the
       main image. With a boot delay it returns 1.
- `src/board/avid/garcia/cmd_reset.c` is `do_reset`. It writes the ICAP IPROG
  sequence, and the FPGA reconfigures and reboots. The update loop reaches it
  when the host's command string invokes `reset`. RAM globals are lost, while
  DDR2 keeps its contents.
- `src/unnamed/part_002` has two parts:
  - lines 1-267 are the MTD bridge flash driver, which talks to a flash daemon
    over a register window with polled timeouts;
  - lines 268-405 are the FirmwareUpdate IDL: the services, the attributes and
    the execution-state enum.
- `src/unnamed/part_000` is an older revision of the IDL. It has no events.
- `src/unnamed/part_001` is prose about the golden/runtime images.

The mailbox transport, `FirmwareUpdate__unmarshal` and the HUSH shell are not in
the repository.

How the parts interact:
- The host drives everything through the mailbox.
- The dispatcher hands FirmwareUpdate requests to the unmarshaller, which calls
  the session, executor-command and latch handlers.
- The session raises `executeUpdate` when a transfer completes. The dispatcher
  consumes it after replying, and the executor runs the command.
- The command can flash the image, or it can reset the board (`do_reset`).

## Modules

`FirmwareUpdate.tla` models firmware-update.c as one state machine.

State:
- `pc` is the phase: `probe`, `window`, `decide`, `dispatch`, `booted` or
  `halted`.
- `attempt`, `fallback` and `retVal` are the locals of `CheckFirmwareUpdate`.
- `mem` holds every global of the file: `state`, `bootDelay`, `firmwareUpdate`,
  `executeUpdate`, `queueEnabled`, `eventValid`, `fwUpdateCtxt`, and the DDR2
  staging slots `ddr`.
- A staged byte is abstracted to a tag `[sid, img]`: the session that wrote it
  and the kind of image the host sent. `img` is `kernel`, `kernelBadCrc` or
  `other`.
  - The image header is slot 0. Its kind stands in for `image_check_type`.
  - The data CRC holds when every declared slot carries the header's session
    and kind.

Actions:
- `ProbeIcap` is lines 318-352. The GENERAL5 readback is a nondeterministic
  match.
- `PollMailbox` is one iteration of the 4-attempt loop, lines 356-403.
- `Decide` is lines 405-428.
- `DispatchRequest` is one whole iteration of `DoFirmwareUpdate`:
  1. unmarshal and run the handler;
  2. write the response;
  3. run `executeFirmwareUpdate` if a transfer completed;
  4. arm the event;
  5. reboot if the command reset the board.
- `MailboxClosed` is the blocking read at line 240 returning false.
- `ExternalReset` is the host resetting a halted or booted device.

Each handler is a pure operator named after its C function. It takes `mem` and
returns the new `mem` and the response, so one dispatch step composes them in
the code's order. `Reboot` models `do_reset`: globals return to their initial
values and the DDR2 slots are kept.

History variables exist only for the properties:
- `sessions` and `boots` bound the run;
- `declared` and `completed` record transfers;
- `executions` and `lastExec` record what the executor ran;
- `armed` records the outcome an event was armed with;
- `windowAcks` records what the boot window acknowledged, and `passes`
  counts the window's passes independently of the loop counter `i`;
- `overrun` records a write past the staging region.

`EventLatch.tla` is the abstract event latch of spec §4.3. Its state is
`enabled` and a one-slot `pending`. Its actions:
- `SetEnabled` changes the setting and leaves `pending` alone;
- `Arm` fills the slot, and is allowed only while enabled; a later arm
  overwrites the slot;
- `Deliver` empties the slot;
- `Lose` is a reset, which clears both.

`FirmwareUpdate` instantiates it as `Latch` with this refinement mapping:
- `enabled` is `mem.queueEnabled`;
- `pending` is `*state` while `eventValid` is set, and `none` otherwise.

`ImplementsEventLatch` checks `Latch!LatchSpec` as a property. The arm check
itself is `ArmsEvent`, the `if(queueEnabled)` at line 287.

`MtdBridge.tla` models the MTD bridge driver (`part_002` lines 1-267) with the
bridge daemon it talks to. Driver state:
- `pc` is the phase;
- `op` is the caller's operation;
- `offset`, `lenRem`, `nextLen` and `wordPtr` are the locals of the chunk loop;
- `rc` and `timeout` are the locals of `mtd_bridge_cmd`;
- `buf` is the caller's buffer plus the 3 bytes after it.

The peripheral's state is `irq`, `status`, the address/length/opcode registers
`regs`, the command signal `cmdFlag` and the mailbox RAM `mailbox`. The daemon's
state is `dpc`, `job`, its remaining latency `wait`, and `flash`.

Each driver action is one of the code's steps:
- `Start` is the entry of a write, read or erase.
- `WriteChunk` is lines 150-168. It sizes the chunk, copies whole words into
  the mailbox and issues the command.
- `WriteAdvance` is line 171.
- `ReadChunk` is lines 188-194.
- `ReadCopyOut` is lines 196-211.
- `EraseCmd` is lines 217-220.
- `Poll` is the IRQ loop, lines 110-116.
- `Fetch` is line 119.
- `Oip` and `OipRead` are the OIP loop, lines 124-131.
- `OpReturn` and `EraseReturn` are the returns.

The daemon is not in the repository. It is modelled from the register protocol
the driver assumes:
- `Pickup` takes the command when the opcode is written, with the registers as
  they are then;
- `Respond` answers when its latency runs out, with success, error, or
  "operation in progress", and raises the IRQ;
- `Finish` ends an operation in progress;
- `Drop` loses a command, and is allowed only when `Lossy`.

Time passes only in the driver's `mdelay` (`Delay`), and it cannot pass while
the daemon is due. A latency is therefore a number of 1 ms slices, measured
against the driver's timeout. Flash and buffer bytes are tags: `<<n, a>>` is
operation n's byte for flash address a.

`IcapPort.tla` models the two programs the CPU runs against the FPGA's
configuration port (ICAP) through an FSL link: the fallback probe of
`CheckFirmwareUpdate` (firmware-update.c lines 321-352) and `do_reset`
(cmd_reset.c). Each program is its word sequence as written in the code:
`ProbeWords` and `ResetWords`, the addresses computed with Bitwise `shiftR`
and `&` from `RUNTIME_FPGA_BASE` and `BOOT_FPGA_BASE`.

State:
- the CPU: `pc` (`probe`, `get` blocked in `getfslx`, `boot`, `reset`, `spin`
  in `while(1)`), `ptr` (the next `putfslx`) and `readValue`;
- the FSL FIFO `fifo` and the peripheral's `drain` flag;
- the ICAP: the synchroniser/packet processor `phase`, the write in progress
  `pend`, the registers `regs` (CMD, GENERAL1-5), and `rfifo`, the words it
  returned.

Actions:
- `PutWord` is one `putfslx` of a data word. It blocks while the FIFO is full.
- `PutFinish` is `putfslx(FINISH_FSL_BIT)`, which starts the drain.
- `Get` is the blocking `getfslx`, truncated to the u16 `readValue`.
- `RunReset` is the shell running `reset` later in the boot.
- `IcapStep` hands one word to the ICAP. The ICAP looks for AA99 5566, then
  decodes Type-1 headers. A read returns the register's words, a write takes
  the next words as data, and IPROG written to CMD starts the
  reconfiguration.

The peripheral and the ICAP are hardware outside the repository. They are
modelled from the protocol the code's comments name. Two encodings are
worth knowing:
- The FINISH flag is bit 31 of the FSL word. TLC's integers are 32-bit
  signed, so the flag is carried as bit 16, above the 16-bit ICAP word.
- The header fields are decoded with `\div` and `%`, which give the same
  values as `&`. TLC evaluates the decoder inside every fairness condition,
  and Bitwise's recursive `&` made the run about 150 times slower.

`MCFirmwareUpdate.tla` gives the constants small values:
- declared lengths 0-2;
- packet sizes 0-2;
- a staging capacity of 3 slots;
- the image kinds each run needs.

## Runs

| run | cfg | result | what it shows |
|---|---|---|---|
| core | FirmwareUpdate.cfg | pass, about 206k states | `TypeOK`; **ExecutedExactlyOnce**: every completed transfer is executed exactly once, across sessions that replace each other and shell resets; **ExecuteNeverStranded**: in no phase outside the update loop is an execution pending; **CommitsCurrentUnlessEmpty**: the command runs only on bytes of its own session, except after a length-0 start (the stale_image case); **BootDecisionHonoured**: the device stays in the loop iff fallback was seen or remainInBootloader was acknowledged, and delays boot iff requestBootDelay was acknowledged; **BootWindowEnds**: whatever the host sends, the polling window ends; **WindowCountsEveryPass**: the window ends after its four passes or on an `e_EC_SUCCESS`, never earlier (its mutant is the `_LABXDEBUG` build, whose dump loops at lines 364 and 389 reuse `i`) |
| stale_image | FirmwareUpdate_stale_image.cfg | violation | with length 0, a new session commits the previous session's image |
| event_payload | FirmwareUpdate_event_payload.cfg | violation | the delivered event carries the latest `*state`, not the armed outcome |
| unknown_type | FirmwareUpdate_unknown_type.cfg | violation | a non-kernel image is reported corrupt, not passed through |
| overshoot | FirmwareUpdate_overshoot.cfg | violation | `bytesReceived` exceeds the declared length after an oversized last packet |
| overrun | FirmwareUpdate_overrun.cfg | violation | `sendDataPacket` writes past the staging region |
| latch | FirmwareUpdate_latch.cfg | pass, about 137k states | **ImplementsEventLatch**: for a host that only ever enables the queue, the latch globals implement `EventLatch`. When the host may also disable it, the refinement fails, in the way event_payload shows |
| mtd | MtdBridge.cfg | pass, about 42k states | **WriteLandsInFlash** and **ReadReturnsFlash**: across chunks, a write or read that returns 0 moved exactly the caller's bytes; **StatusBelongsToCommand**: every status the driver acts on is the answer to its own command; **CommandReturns**: every command returns, even when the daemon loses it; **WriteErrorLeavesPrefix**: a write that returns an error has rewritten exactly the chunks before the failing one, and nothing after it |
| icap | IcapPort.cfg | pass, about 7.8k states | **ProbeReadsGeneral5**: the probe's header word reads GENERAL5, so `readValue` is what GENERAL5 holds; **IprogAfterAddressWrites**: IPROG runs only after `do_reset` has rewritten all of GENERAL1-4 since its SYNC, so the launch never uses contents left from power-up or an earlier reset; **ProbeGetsAnswer**: the blocking `getfslx` returns; **ResetReconfigures**: `do_reset`'s 15 words fit the FIFO and IPROG reaches the ICAP |
| mtd_late_write | MtdBridge_late_write.cfg | violation | the daemon serves a timed-out write late: it stores the next write's mailbox bytes at its own offset, and its IRQ and status are taken as the next command's answer |
| mtd_buffer_overrun | MtdBridge_buffer_overrun.cfg | violation | **BufferAccessInBounds** fails: `mtd_bridge_read` stores, and `mtd_bridge_write` loads, up to 3 bytes past the caller's buffer |

`PROJECT.json` records:
- each violation as a finding with its source line;
- one mutant per passing property, a plausible bug in the mapped handler that
  TLC catches.

### Bounds

For `IcapPort`:
- The FSL FIFO is **16 words deep**, the FSL default. `do_reset` queues 15
  words before FINISH, so this is the depth at which it still fits.
- GENERAL5 starts as the magic or 0.
- GENERAL1-4 start as 0 or 0xFFFF. A reconfiguration keeps them, so they may
  still hold what an earlier `do_reset` wrote.
- The ICAP state lasts from the probe to `do_reset`, because the probe never
  desynchronises it.

Why these bounds are enough:
- **Two sessions per run.** One session can supersede another, and the stale
  image case needs that.
- **Two boots.** A shell reset can be followed by a second boot window and a
  further session.
- **Lengths 0-2 and packets 0-2 over 3 slots.** These reach every completion
  case: an empty packet, an exact fit, an overshoot and a multi-packet transfer.
- **The `other` image kind** is used only where the unknown-type question needs
  it, since it adds no case elsewhere.

For `MtdBridge`, `MCMtdBridge.tla` uses:
- **A 4-byte mailbox.** It holds one word, standing in for 2048 bytes, so that
  a 5-byte operation takes two chunks.
- **Lengths 3 and 5.** Both end on a partial word, which is where the round-up
  bites.
- **Offsets 0 and 3 in 8 bytes of flash.** Two operations then overlap or sit
  side by side.
- **A timeout of 2 slices**, standing in for 500.
- **Two operations.** A late answer needs a second command to be taken for.

The daemon latencies differ by run:
- **Timely daemon:** latencies {0, 1}. It answers with a slice to spare; an
  answer in the very slice the driver gives up races it.
- **Late daemon:** latencies {0, 3}. It may answer after the driver gave up.

## Fairness

`Fairness` puts weak fairness on the probe, the poll and the decision. These are
the bootloader's own steps, and only hardware stalls could stop them. The update
loop blocks on the host, so no fairness is assumed on dispatch.
`BootWindowEnds` uses this fairness. A host request is part of the
`PollMailbox` step that answers it. A host that keeps sending requests
therefore keeps taking `PollMailbox` steps, and the loop counter has to end
the window.

`MtdBridge` has weak fairness on the driver's steps, since the driver is the
only thread on its CPU. It also has weak fairness on the daemon's `Pickup`,
`Respond` and `Finish`: a daemon whose latency has run out acts, which is what
a latency bound means. A lost command is the case the timeouts exist for, and
`CommandReturns` holds there as well. `IcapPort` has weak fairness on the CPU's `PutWord`, `PutFinish` and `Get`,
and on the peripheral's `IcapStep`. Both are hardware or straight-line code.
`RunReset` is the host's or user's choice, and gets none. The run sets
`CHECK_DEADLOCK FALSE` because the reconfiguration is a real stop.
`ProbeGetsAnswer` and `ResetReconfigures` are what rule out every other
stop.

## Not modelled

- What the FPGA does after IPROG is not modelled: loading the multiboot
  image, and falling back to the golden one. `IcapPort` stops at the launch.
  `FirmwareUpdate`'s `Reboot` and its nondeterministic `fallback` stand for
  it.
- How the ICAP treats words that are not Type-1 headers once synchronised is
  not modelled. `IcapPort` ignores them. This is also what `do_reset` relies
  on, since it sends its own pads and SYNC to an ICAP the probe left
  synchronised.
- `RUNTIME_FPGA_BASE` is 0 in cmd_reset.c. The update notes (part_001) place
  the runtime FPGA image at 0x00BE0000. The notes describe the Revolver board,
  though, and cmd_reset.c is the Garcia board's, so the model uses the code's
  value and records no finding.
- In the MTD bridge, `spi_flash_probe` / `spi_flash_free`, the OTP stubs and
  the `spi_flash_cmd*` stubs change no state the driver's behaviour depends on.
- The daemon's internals are not modelled beyond the register protocol.
- A load past the end of `buf` in `mtd_bridge_write` is not modelled as a
  fault. `BufferAccessInBounds` reports it, and the bytes reach mailbox RAM but
  never flash.
- The absolute address of `state`, which is NULL, is not modelled. `*state` is
  a single word.
- The unmarshaller's string lifetime is not modelled. `startFirmwareUpdate`
  keeps only the `cmd` pointer (line 89) and runs it after the last data
  packet. Whether that string still holds the command then depends on
  `FirmwareUpdate__unmarshal`, which is not in the repository. The model
  takes the command to be intact, and the hazard list records the case.
- `set_eventQueueEnabled` and `get_eventQueueEnabled` ignore their `eventCode`
  argument (lines 195-207). The IDL comment (part_002 lines 385-393) says the
  setting applies per event type, so setting the queue for any other event
  type switches the firmware-update latch. The model's request has no event
  code, which is faithful to the code. No run states the per-type reading,
  since a unit test reaches this directly.
- The `_LABXDEBUG` build is not modelled as a configuration. Line 19 leaves it
  undefined. Its effect on the polling window is the mutant of
  `WindowCountsEveryPass`. In `DoFirmwareUpdate` the debug block declares `i`
  after a case label and uses it after the switch, so that build does not
  compile.
- The addresses `do_reset` launches are not checked against the bases.
  `RUNTIME_FPGA_BASE` and `BOOT_FPGA_BASE` are both 0, so any comparison of
  the GENERAL1-4 values with the shifted bases would compare 0 with 0,
  whatever shifts lines 25-33 apply.
- Whether a host that starts a transfer in the boot window without
  `remainInBootloader` is served is not stated. The device boots normally
  then, which is what spec 4.5 step 4 and the IDL comment on
  `remainInBootloader` describe.
- The composition of `MtdBridge` with the executor is not modelled. The
  post-transfer command reaches the bridge through the shell's `sf` command,
  and neither `sf` nor the command string is in the repository. What an
  error from `mtd_bridge_write` does to the command's exit status, and so to
  `UPDATE_SUCCESS`, would therefore be invented rather than translated.
  `WriteErrorLeavesPrefix` states what the driver leaves behind for `sf`.
- Time and the 250 ms sleeps are not modelled.

## Plan

1. **Done:** `FirmwareUpdate`, which covers session, executor, latch,
   dispatcher and boot sequencer.
2. **Done:** `MtdBridge`.
3. **Done:** `IcapPort`, the ICAP word protocol of the probe and `do_reset`.
4. **Done:** the event-latch refinement (`EventLatch`).
5. **Done:** the boot window's pass count (`WindowCountsEveryPass`) and the
   bridge's partial write (`WriteErrorLeavesPrefix`).
6. **Not done:** composing `MtdBridge` with the executor. It needs code that
   is not in the repository; see "Not modelled".
