------------------------------ MODULE MtdBridge ------------------------------
(***************************************************************************)
(* The MTD bridge flash driver of u-boot (src/unnamed/part_002, lines     *)
(* 1-267) and the bridge daemon on the other processor that serves its    *)
(* commands through the bridge peripheral's registers and mailbox RAM.    *)
(*                                                                         *)
(* The driver is one thread: mtd_bridge_write / _read / _erase split an   *)
(* operation into mailbox-sized chunks and issue each with                 *)
(* mtd_bridge_cmd, which polls the IRQ register and then the status       *)
(* register, each under a bounded count of 1 ms slices.  The daemon is    *)
(* not in the repository; it is modelled from the register protocol the   *)
(* driver assumes: it picks up the command, answers after some latency    *)
(* by setting the status and the completion IRQ, possibly first with      *)
(* "operation in progress", or it may lose the command.                    *)
(*                                                                         *)
(* Time advances only in the driver's mdelay() calls; a daemon whose       *)
(* latency has run out must act before the next slice passes.             *)
(***************************************************************************)
EXTENDS Integers, Bitwise

CONSTANTS
  BufSize,     \* MTDBRIDGE_BUFFER_SIZE (2048 bytes), scaled down
  Waits,       \* MTDBRIDGE_TIMEOUT_WAITS (500 slices), scaled down
  Latencies,   \* slices the daemon may take to answer, or to finish
  Lossy,       \* whether the daemon may lose a command
  FlashSize,   \* bytes of flash behind the bridge
  Offsets,     \* flash offsets the caller may pass
  Lengths,     \* lengths the caller may pass
  MaxOps       \* bound on the operations the caller starts

ASSUME /\ BufSize \in Nat \ {0} /\ BufSize % 4 = 0
       /\ Waits \in Nat \ {0}
       /\ Latencies \subseteq Nat
       /\ Lossy \in BOOLEAN
       /\ Offsets \subseteq Nat /\ Lengths \subseteq Nat \ {0}
       /\ MaxOps \in Nat

VARIABLES
  pc, op, offset, lenRem, nextLen, wordPtr, rc, timeout, buf, ops, \* driver
  irq, status, regs, cmdFlag, mailbox,                              \* bridge
  dpc, job, wait, flash,                                            \* daemon
  cmdId, statusOwner, rcOwner, last                                 \* history

vars == <<pc, op, offset, lenRem, nextLen, wordPtr, rc, timeout, buf, ops,
          irq, status, regs, cmdFlag, mailbox, dpc, job, wait, flash,
          cmdId, statusOwner, rcOwner, last>>
driverVars == <<op, offset, lenRem, nextLen, wordPtr, buf, ops, last>>
daemonVars == <<dpc, job, wait, flash>>

-----------------------------------------------------------------------------
(* Register values.  Flash and buffer bytes are tags: <<n, a>> is the byte *)
(* the n-th operation (n >= 1) means for flash address a; Old a byte of the initial   *)
(* flash, Erased an erased byte, Stale mailbox RAM nobody wrote, Guard a   *)
(* byte the caller did not hand over.                                      *)

SR_OK      == 0
SR_OIP     == 1      \* MTDBRIDGE_SR_OIP
SR_NORESP  == 4      \* MTDBRIDGE_SR_NORESP
SR_RWERROR == 8      \* MTDBRIDGE_SR_RWERROR
OPCODE_WRITE == 2
OPCODE_READ  == 3
OPCODE_SE    == 216  \* 0xD8

Old    == <<0, 0>>
Erased == <<0, 1>>
Stale  == <<0, 2>>
Guard  == <<0, 3>>
MaxLen == CHOOSE l \in Lengths : \A k \in Lengths : k <= l
BufDom == 0 .. MaxLen + 2            \* the caller's buffer and 3 bytes past it
MboxDom == 0 .. BufSize - 1
FlashDom == 0 .. FlashSize - 1
Kinds == {"write", "read", "erase"}
Busy == {"busy", "oip"}
NoOp == [kind |-> "none", off |-> 0, len |-> 0, n |-> 0, rc |-> SR_OK]

\* (rc & MTDBRIDGE_SR_OIP) != 0
IsOip(r) == (r & SR_OIP) # 0

\* ((next_len + 3) >> 2): whole 32-bit words covering next_len bytes
WordLen(n) == (n + 3) \div 4

\* (len_rem > MTDBRIDGE_BUFFER_SIZE) ? MTDBRIDGE_BUFFER_SIZE : len_rem
ChunkLen(rem) == IF rem > BufSize THEN BufSize ELSE rem

\* while((rc == 0) & (len_rem > 0)): the chunk loops stop at the first error.
\* Mutant: the loop ignores rc and runs until no bytes remain.
ChunkLoop_untilDone(r, rem) == rem > 0

ChunkLoop(r, rem) == r = SR_OK /\ rem > 0

\* The bytes a write hands over: its own data, then memory it does not own.
WriteData(n, off, len) ==
  [i \in BufDom |-> IF i < len THEN <<n, off + i>> ELSE Guard]

-----------------------------------------------------------------------------
(* mdelay(MTDBRIDGE_TIMEOUT_SLICE): one slice passes.  It cannot pass while *)
(* the daemon is due: a pending command not yet picked up, or a job whose   *)
(* latency has run out.                                                    *)
DaemonDue == \/ dpc = "idle" /\ cmdFlag
             \/ dpc \in Busy /\ wait = 0

Delay == /\ ~DaemonDue
         /\ wait' = IF dpc \in Busy THEN wait - 1 ELSE wait

\* Lines 102-109: clear the completion IRQ, set offset and length, write the
\* opcode, and start polling with a full timeout.
Issue_noClear(off, len, opcode) ==
  /\ regs' = [off |-> off, len |-> len, opcode |-> opcode]
  /\ cmdFlag' = TRUE
  /\ cmdId' = cmdId + 1
  /\ rc' = SR_OK
  /\ timeout' = Waits
  /\ pc' = "poll"
  /\ UNCHANGED irq

Issue(off, len, opcode) ==
  /\ irq' = FALSE
  /\ regs' = [off |-> off, len |-> len, opcode |-> opcode]
  /\ cmdFlag' = TRUE
  /\ cmdId' = cmdId + 1
  /\ rc' = SR_OK
  /\ timeout' = Waits
  /\ pc' = "poll"

\* A caller (sf write / read / erase) starts an operation: lines 147-149,
\* 185-187 and 217-219.
Start ==
  /\ pc = "idle"
  /\ ops < MaxOps
  /\ \E kind \in Kinds, off \in Offsets, len \in Lengths :
       /\ off + len <= FlashSize
       /\ op' = [kind |-> kind, off |-> off, len |-> len, n |-> ops + 1, rc |-> SR_OK]
       /\ buf' = IF kind = "write" THEN WriteData(ops + 1, off, len)
                 ELSE [i \in BufDom |-> Guard]
       /\ offset' = off
       /\ lenRem' = len
       /\ wordPtr' = 0
       /\ rc' = SR_OK
       /\ pc' = kind
  /\ ops' = ops + 1
  /\ UNCHANGED <<nextLen, timeout, irq, status, regs, cmdFlag, mailbox,
                 daemonVars, cmdId, statusOwner, rcOwner, last>>

\* Line 123: timeout = MTDBRIDGE_TIMEOUT_WAITS before the OIP loop.
RestartTimeout_missing(t) == t

RestartTimeout(t) == Waits

\* Line 111: if(!timeout--) ... counts one slice off.
PollTick_stuck(t) == t

PollTick(t) == t - 1

\* Lines 150-168: while no error and bytes remain, size the next chunk, copy
\* its whole words from the caller's buffer into mailbox RAM, and issue it.
WriteChunk ==
  /\ pc = "write"
  /\ ChunkLoop(rc, lenRem)
  /\ LET n == ChunkLen(lenRem)
         bytes == 4 * WordLen(n)
     IN /\ nextLen' = n
        /\ lenRem' = lenRem - n
        /\ mailbox' = [j \in MboxDom |->
                         IF j < bytes THEN buf[wordPtr + j] ELSE mailbox[j]]
        /\ wordPtr' = wordPtr + bytes
        /\ Issue(offset, n, OPCODE_WRITE)
  /\ UNCHANGED <<op, offset, buf, ops, last, status, daemonVars,
                 statusOwner, rcOwner>>

\* Line 171: advance the flash offset after the command returned.
WriteAdvance_stuck ==
  /\ pc = "ret" /\ op.kind = "write"
  /\ pc' = "write"
  /\ UNCHANGED <<driverVars, rc, timeout, irq, status, regs, cmdFlag,
                 mailbox, daemonVars, cmdId, statusOwner, rcOwner>>

WriteAdvance ==
  /\ pc = "ret" /\ op.kind = "write"
  /\ offset' = offset + nextLen
  /\ pc' = "write"
  /\ UNCHANGED <<op, lenRem, nextLen, wordPtr, buf, ops, last, rc, timeout,
                 irq, status, regs, cmdFlag, mailbox, daemonVars, cmdId,
                 statusOwner, rcOwner>>

\* Lines 188-194: size the next chunk and issue a read for it.
ReadChunk ==
  /\ pc = "read"
  /\ ChunkLoop(rc, lenRem)
  /\ LET n == ChunkLen(lenRem)
     IN /\ nextLen' = n
        /\ lenRem' = lenRem - n
        /\ Issue(offset, n, OPCODE_READ)
  /\ UNCHANGED <<op, offset, wordPtr, buf, ops, last, status, mailbox,
                 daemonVars, statusOwner, rcOwner>>

\* Lines 196-211: on success copy whole words of mailbox RAM to the caller's
\* buffer; advance the flash offset either way.
ReadCopyOut_samePtr ==
  /\ pc = "ret" /\ op.kind = "read"
  /\ IF rc = SR_OK
       THEN buf' = [i \in BufDom |->
                      IF i < 4 * WordLen(nextLen) THEN mailbox[i] ELSE buf[i]]
       ELSE UNCHANGED buf
  /\ offset' = offset + nextLen
  /\ pc' = "read"
  /\ UNCHANGED <<op, lenRem, nextLen, wordPtr, ops, last, rc, timeout, irq,
                 status, regs, cmdFlag, mailbox, daemonVars, cmdId,
                 statusOwner, rcOwner>>

ReadCopyOut ==
  /\ pc = "ret" /\ op.kind = "read"
  /\ IF rc = SR_OK
       THEN LET bytes == 4 * WordLen(nextLen)
            IN /\ buf' = [i \in BufDom |->
                            IF wordPtr <= i /\ i < wordPtr + bytes
                              THEN mailbox[i - wordPtr] ELSE buf[i]]
               /\ wordPtr' = wordPtr + bytes
       ELSE UNCHANGED <<buf, wordPtr>>
  /\ offset' = offset + nextLen
  /\ pc' = "read"
  /\ UNCHANGED <<op, lenRem, nextLen, ops, last, rc, timeout, irq, status,
                 regs, cmdFlag, mailbox, daemonVars, cmdId, statusOwner,
                 rcOwner>>

\* Lines 150/172-174 and 188/212-214: the loop ends on an error or when no
\* bytes remain, and the operation returns rc.
OpReturn ==
  /\ pc \in {"write", "read"}
  /\ ~ChunkLoop(rc, lenRem)
  /\ pc' = "idle"
  /\ last' = [op EXCEPT !.rc = rc]
  /\ UNCHANGED <<op, offset, lenRem, nextLen, wordPtr, buf, ops, rc, timeout,
                 irq, status, regs, cmdFlag, mailbox, daemonVars, cmdId,
                 statusOwner, rcOwner>>

\* Lines 217-220: a sector erase is one command, returned as it is.
EraseCmd ==
  /\ pc = "erase"
  /\ Issue(op.off, op.len, OPCODE_SE)
  /\ UNCHANGED <<driverVars, status, mailbox, daemonVars, statusOwner,
                 rcOwner>>

EraseReturn ==
  /\ pc = "ret" /\ op.kind = "erase"
  /\ pc' = "idle"
  /\ last' = [op EXCEPT !.rc = rc]
  /\ UNCHANGED <<op, offset, lenRem, nextLen, wordPtr, buf, ops, rc, timeout,
                 irq, status, regs, cmdFlag, mailbox, daemonVars, cmdId,
                 statusOwner, rcOwner>>

\* Lines 110-116: poll the completion IRQ; if(!timeout--) gives up with
\* MTDBRIDGE_SR_NORESP, else one slice passes.  Giving up falls through
\* line 119 and restarts the timeout at line 123.
Poll ==
  /\ pc = "poll"
  /\ \/ /\ irq
        /\ pc' = "fetch"
        /\ UNCHANGED <<rc, timeout, wait>>
     \/ /\ ~irq /\ timeout = 0
        /\ rc' = SR_NORESP
        /\ timeout' = RestartTimeout(timeout - 1)
        /\ pc' = "oip"
        /\ UNCHANGED wait
     \/ /\ ~irq /\ timeout # 0
        /\ timeout' = PollTick(timeout)
        /\ Delay
        /\ UNCHANGED <<rc, pc>>
  /\ UNCHANGED <<driverVars, irq, status, regs, cmdFlag, mailbox, dpc, job,
                 flash, cmdId, statusOwner, rcOwner>>

\* Lines 119 and 123: fetch the status the daemon answered with.
Fetch ==
  /\ pc = "fetch"
  /\ rc' = status
  /\ rcOwner' = statusOwner
  /\ timeout' = RestartTimeout(timeout)
  /\ pc' = "oip"
  /\ UNCHANGED <<driverVars, irq, status, regs, cmdFlag, mailbox, daemonVars,
                 cmdId, statusOwner>>

\* Lines 124-129: while the status says "operation in progress", give up
\* when the timeout is spent (leaving OIP in rc), else let a slice pass.
Oip ==
  /\ pc = "oip"
  /\ \/ /\ ~IsOip(rc) \/ timeout = 0
        /\ pc' = "ret"
        /\ UNCHANGED <<timeout, wait>>
     \/ /\ IsOip(rc) /\ timeout # 0
        /\ timeout' = timeout - 1
        /\ Delay
        /\ pc' = "oipread"
  /\ UNCHANGED <<driverVars, rc, irq, status, regs, cmdFlag, mailbox, dpc,
                 job, flash, cmdId, statusOwner, rcOwner>>

\* Line 130: re-read the status register.
OipRead ==
  /\ pc = "oipread"
  /\ rc' = status
  /\ rcOwner' = statusOwner
  /\ pc' = "oip"
  /\ UNCHANGED <<driverVars, timeout, irq, status, regs, cmdFlag, mailbox,
                 daemonVars, cmdId, statusOwner>>

-----------------------------------------------------------------------------
(* The bridge daemon, modelled from the register protocol above.          *)

\* The daemon takes the command the opcode write signalled, with the offset
\* and length then in the registers, and will answer within a latency.
Pickup ==
  /\ dpc = "idle" /\ cmdFlag
  /\ cmdFlag' = FALSE
  /\ job' = [id |-> cmdId, off |-> regs.off, len |-> regs.len,
             opcode |-> regs.opcode]
  /\ \E l \in Latencies : wait' = l
  /\ dpc' = "busy"
  /\ UNCHANGED <<pc, driverVars, rc, timeout, irq, status, regs, mailbox,
                 flash, cmdId, statusOwner, rcOwner>>

\* The daemon loses the command: it never answers it.
Drop ==
  /\ Lossy
  /\ dpc = "idle" /\ cmdFlag
  /\ cmdFlag' = FALSE
  /\ UNCHANGED <<pc, driverVars, rc, timeout, irq, status, regs, mailbox,
                 daemonVars, cmdId, statusOwner, rcOwner>>

InJob(j, a) == j.off <= a /\ a < j.off + j.len

\* What a successful job does: a write stores the mailbox bytes, a read
\* fills the mailbox from flash, a sector erase blanks the range.
Perform(j) ==
  /\ flash' = [a \in FlashDom |->
                 CASE InJob(j, a) /\ j.opcode = OPCODE_WRITE -> mailbox[a - j.off]
                   [] InJob(j, a) /\ j.opcode = OPCODE_SE    -> Erased
                   [] OTHER                                 -> flash[a]]
  /\ mailbox' = IF j.opcode = OPCODE_READ
                  THEN [k \in MboxDom |-> IF k < j.len THEN flash[j.off + k]
                                                        ELSE mailbox[k]]
                  ELSE mailbox

\* The final status of the job: success with its effect, or an error.
Complete ==
  /\ dpc' = "idle"
  /\ statusOwner' = job.id
  /\ \/ status' = SR_OK /\ Perform(job)
     \/ status' = SR_RWERROR /\ UNCHANGED <<flash, mailbox>>

\* At its latency the daemon answers and raises the completion IRQ, either
\* with the final status or with "operation in progress".
Respond ==
  /\ dpc = "busy" /\ wait = 0
  /\ irq' = TRUE
  /\ \/ /\ status' = SR_OIP
        /\ statusOwner' = job.id
        /\ dpc' = "oip"
        /\ \E l \in Latencies : wait' = l
        /\ UNCHANGED <<flash, mailbox>>
     \/ Complete /\ UNCHANGED wait
  /\ UNCHANGED <<pc, driverVars, rc, timeout, regs, cmdFlag, job, cmdId,
                 rcOwner>>

\* An operation in progress finishes: the status changes, the IRQ is not
\* raised again.
Finish ==
  /\ dpc = "oip" /\ wait = 0
  /\ Complete
  /\ UNCHANGED <<pc, driverVars, rc, timeout, irq, regs, cmdFlag, job, wait,
                 cmdId, rcOwner>>

-----------------------------------------------------------------------------
Init ==
  /\ pc = "idle"
  /\ op = NoOp
  /\ offset = 0 /\ lenRem = 0 /\ nextLen = 0 /\ wordPtr = 0
  /\ rc = SR_OK
  /\ timeout = Waits
  /\ buf = [i \in BufDom |-> Guard]
  /\ ops = 0
  /\ irq = FALSE
  /\ status = SR_OK
  /\ regs = [off |-> 0, len |-> 0, opcode |-> 0]
  /\ cmdFlag = FALSE
  /\ mailbox = [j \in MboxDom |-> Stale]
  /\ dpc = "idle"
  /\ job = [id |-> 0, off |-> 0, len |-> 0, opcode |-> 0]
  /\ wait = 0
  /\ flash = [a \in FlashDom |-> Old]
  /\ cmdId = 0 /\ statusOwner = 0 /\ rcOwner = 0
  /\ last = NoOp

\* The caller has made its last call and the daemon has nothing to do.
Done ==
  /\ pc = "idle" /\ ops = MaxOps
  /\ dpc = "idle" /\ ~cmdFlag
  /\ UNCHANGED vars

DriverStep == \/ WriteChunk \/ WriteAdvance \/ ReadChunk \/ ReadCopyOut
              \/ OpReturn \/ EraseCmd \/ EraseReturn
              \/ Poll \/ Fetch \/ Oip \/ OipRead

Next == Start \/ DriverStep \/ Pickup \/ Drop \/ Respond \/ Finish \/ Done

\* The driver runs on its own CPU, so it keeps taking steps; a daemon whose
\* latency has run out acts, which is what the latency bound says.
Fairness == /\ WF_vars(DriverStep)
            /\ WF_vars(Pickup) /\ WF_vars(Respond) /\ WF_vars(Finish)

Spec == Init /\ [][Next]_vars /\ Fairness

-----------------------------------------------------------------------------
Tags == {Old, Erased, Stale, Guard} \cup ((1 .. MaxOps) \X FlashDom)

TypeOK ==
  /\ pc \in {"idle", "poll", "fetch", "oip", "oipread", "ret"} \cup Kinds
  /\ timeout \in 0 .. Waits
  /\ lenRem \in 0 .. MaxLen /\ nextLen \in 0 .. BufSize
  /\ buf \in [BufDom -> Tags] /\ mailbox \in [MboxDom -> Tags]
  /\ flash \in [FlashDom -> Tags]
  /\ irq \in BOOLEAN /\ cmdFlag \in BOOLEAN
  /\ dpc \in {"idle"} \cup Busy
  /\ status \in {SR_OK, SR_OIP, SR_RWERROR}
  /\ rc \in {SR_OK, SR_OIP, SR_NORESP, SR_RWERROR}

\* A write that returned 0 left its data at its offset in flash: the chunk
\* loop's offset, length and word-pointer arithmetic and the daemon's
\* answers fit together.
WriteLandsInFlash ==
  (pc = "idle" /\ last.kind = "write" /\ last.rc = SR_OK) =>
    \A i \in 0 .. last.len - 1 : flash[last.off + i] = <<last.n, last.off + i>>

\* A read that returned 0 handed the caller exactly the flash bytes it asked
\* for, across chunks.
ReadReturnsFlash ==
  (pc = "idle" /\ last.kind = "read" /\ last.rc = SR_OK) =>
    \A i \in 0 .. last.len - 1 : buf[i] = flash[last.off + i]

\* The status mtd_bridge_cmd acts on is the daemon's answer to the command
\* it issued, never to an earlier one (comment at lines 90-91).
StatusBelongsToCommand ==
  (pc \in {"oip", "oipread", "ret"} /\ rc # SR_NORESP) => rcOwner = cmdId

\* Every command mtd_bridge_cmd issues returns to its caller, even when the
\* daemon loses it: the timeouts at lines 111 and 125 bound both loops.
CommandReturns ==
  pc \in {"poll", "fetch", "oip", "oipread"} ~> pc = "ret"

\* Every byte a write stored in flash is at the address its operation meant
\* it for: the daemon writes the mailbox bytes of the command it serves.
FlashBytesAtTheirAddress ==
  \A a \in FlashDom : flash[a][1] >= 1 => flash[a][2] = a

\* A write that returned an error has rewritten exactly the chunks before the
\* one that failed: flash holds its bytes from its offset up to the start of
\* the failed chunk and none from there on.  The caller gets only rc, so this
\* prefix is the whole of what an error return leaves behind.
WriteErrorLeavesPrefix ==
  (pc = "idle" /\ last.kind = "write" /\ last.rc # SR_OK) =>
    \A a \in last.off .. last.off + last.len - 1 :
      flash[a][1] = last.n <=> a < offset - nextLen

\* The driver touches only the len bytes of the caller's buffer: word_ptr,
\* which mtd_bridge_write loads through and mtd_bridge_read stores through,
\* never passes buf + len.
BufferAccessInBounds == wordPtr <= op.len
=============================================================================
