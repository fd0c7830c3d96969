------------------------------ MODULE IcapPort ------------------------------
(***************************************************************************)
(* The two programs the MicroBlaze runs against the FPGA's internal        *)
(* configuration access port (ICAP), through an FSL link:                  *)
(*   - the fallback probe of CheckFirmwareUpdate (firmware-update.c),      *)
(*     which reads the GENERAL5 register back;                             *)
(*   - do_reset (board/avid/garcia/cmd_reset.c), which writes the          *)
(*     multiboot and fallback addresses to GENERAL1..4 and issues IPROG.   *)
(* Each putfslx queues one word in the FSL FIFO; the word with             *)
(* FINISH_FSL_BIT set makes the peripheral drain the FIFO into the ICAP,   *)
(* whose packet processor runs concurrently with the CPU.  getfslx blocks  *)
(* until the ICAP has returned a word.                                     *)
(*                                                                         *)
(* The peripheral and the ICAP are hardware outside the repository; their *)
(* behaviour is the one the code's comments assume (pads, SYNC, Type-1     *)
(* headers, NOP, IPROG).  A word that is not a Type-1 header is ignored    *)
(* once synchronised.                                                      *)
(***************************************************************************)
EXTENDS Naturals, Sequences, Bitwise

CONSTANT FifoDepth   \* words the FSL FIFO holds before putfslx blocks

ASSUME FifoDepth \in Nat \ {0}

VARIABLES
  pc,        \* CPU: probe, get (blocked in getfslx), boot, reset, spin
  ptr,       \* next putfslx of the running program
  readValue, \* u16 readValue of CheckFirmwareUpdate
  fifo,      \* FSL FIFO, CPU to peripheral
  drain,     \* the peripheral is draining the FIFO into the ICAP
  phase,     \* ICAP packet processor: unsynced, half (AA99 seen), synced, config
  pend,      \* register and words left of the Type-1 write in progress
  regs,      \* the ICAP registers the programs name
  rfifo,     \* words the ICAP returned, not yet taken by getfslx
  \* History variables, kept only to state properties:
  written,   \* registers written since the last synchronisation
  launched   \* what IPROG started: addresses and registers written before it

vars == <<pc, ptr, readValue, fifo, drain, phase, pend, regs, rfifo, written,
          launched>>

-----------------------------------------------------------------------------
(* Constants of the code.                                                  *)

\* FINISH_FSL_BIT is bit 31 of the 32-bit FSL word (0x80000000).  The
\* ICAP words are 16 bits wide and TLC's integers 32-bit signed, so the
\* flag is carried as the bit above the ICAP word; the peripheral only tests
\* it, and no word of either program sets it besides the FINISH word.
FINISH_FSL_BIT == 2^16
GENERAL5_MAGIC == \h0ABCD

RUNTIME_FPGA_BASE == \h00000000
BOOT_FPGA_BASE    == \h00000000

\* ICAP register addresses and the IPROG command code (Spartan-6).
CMD      == \h05
GENERAL1 == \h13
GENERAL2 == \h14
GENERAL3 == \h15
GENERAL4 == \h16
GENERAL5 == \h17
IPROG    == \h0E

Registers == {CMD, GENERAL1, GENERAL2, GENERAL3, GENERAL4, GENERAL5}
Addresses == {GENERAL1, GENERAL2, GENERAL3, GENERAL4}
NoLaunch  == [multiboot |-> 0, fallback |-> 0, written |-> {}, none |-> TRUE]

\* What GENERAL5 may hold at boot: the magic, or anything else.  GENERAL1..4
\* survive a reconfiguration and may hold what an earlier do_reset wrote.
General5Contents == {GENERAL5_MAGIC, 0}
StaleContents    == {0, \h0FFFF}

\* The probe: pad, pad, SYNC, SYNC, read GENERAL5 (1 word), NOP, NOP,
\* FINISH.  The control word put before it is the peripheral's own and
\* never reaches the ICAP.
\* Mutant: the header addresses GENERAL4 (0x2AC1).
ProbeWords_general4 ==
  <<\h0FFFF, \h0FFFF, \h0AA99, \h05566, \h02AC1, \h02000, \h02000,
    FINISH_FSL_BIT>>

\* Mutant: the FINISH word that starts the drain is left out.
ProbeWords_noFinish ==
  <<\h0FFFF, \h0FFFF, \h0AA99, \h05566, \h02AE1, \h02000, \h02000>>

ProbeWords ==
  <<\h0FFFF, \h0FFFF, \h0AA99, \h05566, \h02AE1, \h02000, \h02000,
    FINISH_FSL_BIT>>

\* do_reset: pads and SYNC, GENERAL1/2 <- runtime base as a half-word
\* address, GENERAL3/4 <- boot base as written, CMD <- IPROG, NOP, FINISH.
\* Mutant: IPROG is written before the addresses.
ResetWords_iprogFirst ==
  <<\h0FFFF, \h0FFFF, \h0AA99, \h05566,
    \h030A1, \h0000E,
    \h03261, shiftR(RUNTIME_FPGA_BASE, 1) & \h0FFFF,
    \h03281, shiftR(RUNTIME_FPGA_BASE, 17) & \h0FF,
    \h032A1, BOOT_FPGA_BASE & \h0FFFF,
    \h032C1, shiftR(BOOT_FPGA_BASE, 16) & \h0FF,
    \h02000, FINISH_FSL_BIT>>

\* Mutant: the FINISH word is left out; the CPU spins with the FIFO full.
ResetWords_noFinish ==
  <<\h0FFFF, \h0FFFF, \h0AA99, \h05566,
    \h03261, shiftR(RUNTIME_FPGA_BASE, 1) & \h0FFFF,
    \h03281, shiftR(RUNTIME_FPGA_BASE, 17) & \h0FF,
    \h032A1, BOOT_FPGA_BASE & \h0FFFF,
    \h032C1, shiftR(BOOT_FPGA_BASE, 16) & \h0FF,
    \h030A1, \h0000E, \h02000>>

ResetWords ==
  <<\h0FFFF, \h0FFFF, \h0AA99, \h05566,
    \h03261, shiftR(RUNTIME_FPGA_BASE, 1) & \h0FFFF,
    \h03281, shiftR(RUNTIME_FPGA_BASE, 17) & \h0FF,
    \h032A1, BOOT_FPGA_BASE & \h0FFFF,
    \h032C1, shiftR(BOOT_FPGA_BASE, 16) & \h0FF,
    \h030A1, \h0000E, \h02000, FINISH_FSL_BIT>>

Program == IF pc = "probe" THEN ProbeWords ELSE ResetWords

-----------------------------------------------------------------------------
(* The ICAP packet processor.                                              *)

\* Fields of a 16-bit Type-1 packet header: type [15:13], opcode [12:11]
\* (0 NOP, 1 read, 2 write), register [10:5], word count [4:0].  Written
\* with \div and % rather than Bitwise's & (the same values): TLC evaluates
\* them in every fairness condition, and the recursive & is slow there.
PacketType(w) == (w \div 2^13) % 8
Opcode(w) == (w \div 2^11) % 4

\* Mutant: the count field is masked with six bits.
WordCount_wide(w) == w % 64

WordCount(w) == w % 32
RegAddr(w) == (w \div 2^5) % 64

\* A 24-bit configuration address from its low and high register halves.
RegAddress(lo, hi) == (hi & \h0FF) * 2^16 + lo

RegValue(r) == IF r \in Registers THEN regs[r] ELSE 0

\* The synchronisation detector: AA99 followed by 5566.
SyncStep(w) ==
  /\ phase \in {"unsynced", "half"}
  /\ phase' = IF phase = "half" /\ w = \h05566 THEN "synced"
              ELSE IF w = \h0AA99 THEN "half" ELSE "unsynced"
  /\ written' = IF phase' = "synced" THEN {} ELSE written
  /\ UNCHANGED <<pend, regs, rfifo, launched>>

\* A data word of a write: to CMD it is a command, IPROG starting the
\* reconfiguration from the GENERAL1/2 address (GENERAL3/4 the fallback).
DataWord(w) ==
  /\ phase = "synced" /\ pend.count > 0
  /\ pend' = [pend EXCEPT !.count = @ - 1]
  /\ IF pend.reg = CMD
     THEN /\ phase' = IF w = IPROG THEN "config" ELSE phase
          /\ launched' = IF w = IPROG
                         THEN [multiboot |-> RegAddress(regs[GENERAL1], regs[GENERAL2]),
                               fallback  |-> RegAddress(regs[GENERAL3], regs[GENERAL4]),
                               written   |-> written, none |-> FALSE]
                         ELSE launched
          /\ UNCHANGED <<regs, written>>
     ELSE /\ regs' = IF pend.reg \in Registers THEN [regs EXCEPT ![pend.reg] = w]
                     ELSE regs
          /\ written' = written \cup {pend.reg}
          /\ UNCHANGED <<phase, launched>>
  /\ UNCHANGED rfifo

\* A header word: a Type-1 read returns count words of the register, a
\* write expects count data words; NOP and other words do nothing.
HeaderWord(w) ==
  /\ phase = "synced" /\ pend.count = 0
  /\ rfifo' = IF PacketType(w) = 1 /\ Opcode(w) = 1
              THEN rfifo \o [i \in 1 .. WordCount(w) |-> RegValue(RegAddr(w))]
              ELSE rfifo
  /\ pend' = IF PacketType(w) = 1 /\ Opcode(w) = 2
             THEN [reg |-> RegAddr(w), count |-> WordCount(w)]
             ELSE pend
  /\ UNCHANGED <<phase, regs, written, launched>>

\* The peripheral hands the FIFO's head word to the ICAP.
IcapStep ==
  /\ drain /\ fifo # <<>>
  /\ fifo' = Tail(fifo)
  /\ LET w == Head(fifo) IN SyncStep(w) \/ DataWord(w) \/ HeaderWord(w)
  /\ drain' = (Len(fifo) > 1 /\ phase' # "config")
  /\ UNCHANGED <<pc, ptr, readValue>>

-----------------------------------------------------------------------------
(* The CPU.                                                                *)

\* The CPU moves past one putfslx; after the program's last one the probe
\* goes on to getfslx and do_reset to while(1).
Advance ==
  IF ptr = Len(Program)
  THEN /\ pc' = IF pc = "probe" THEN "get" ELSE "spin"
       /\ ptr' = 1
  ELSE /\ ptr' = ptr + 1
       /\ UNCHANGED pc

\* putfslx of a data word: blocks while the FIFO is full.
PutWord ==
  /\ pc \in {"probe", "reset"}
  /\ Program[ptr] # FINISH_FSL_BIT
  /\ Len(fifo) < FifoDepth
  /\ fifo' = Append(fifo, Program[ptr])
  /\ Advance
  /\ UNCHANGED <<readValue, drain, phase, pend, regs, rfifo, written, launched>>

\* putfslx(FINISH_FSL_BIT): the peripheral starts draining the FIFO.
PutFinish ==
  /\ pc \in {"probe", "reset"}
  /\ Program[ptr] = FINISH_FSL_BIT
  /\ drain' = TRUE
  /\ Advance
  /\ UNCHANGED <<readValue, fifo, phase, pend, regs, rfifo, written, launched>>

\* getfslx(readValue, 0, FSL_ATOMIC): blocks until the ICAP returned a word,
\* which is truncated to the u16 readValue.
Get ==
  /\ pc = "get" /\ rfifo # <<>>
  /\ readValue' = Head(rfifo) % 2^16
  /\ rfifo' = Tail(rfifo)
  /\ pc' = "boot"
  /\ UNCHANGED <<ptr, fifo, drain, phase, pend, regs, written, launched>>

\* Later in the boot, a shell command (a post-transfer command, sendCommand,
\* or the console) runs "reset": do_reset starts putting its words.
RunReset ==
  /\ pc = "boot"
  /\ pc' = "reset"
  /\ UNCHANGED <<ptr, readValue, fifo, drain, phase, pend, regs, rfifo, written,
                 launched>>

Init ==
  /\ pc = "probe" /\ ptr = 1 /\ readValue = 0
  /\ fifo = <<>> /\ drain = FALSE
  /\ phase = "unsynced" /\ pend = [reg |-> 0, count |-> 0]
  /\ \E g5 \in General5Contents, old \in [Addresses -> StaleContents] :
       regs = [r \in Registers |-> IF r = GENERAL5 THEN g5
                                   ELSE IF r \in Addresses THEN old[r] ELSE 0]
  /\ rfifo = <<>> /\ written = {} /\ launched = NoLaunch

Next == PutWord \/ PutFinish \/ Get \/ RunReset \/ IcapStep

\* The CPU's straight-line code and the hardware never stop while they can
\* step; the shell's "reset" is a choice of the host or user, not fair.
Fairness == WF_vars(PutWord) /\ WF_vars(PutFinish) /\ WF_vars(Get) /\ WF_vars(IcapStep)

Spec == Init /\ [][Next]_vars /\ Fairness

-----------------------------------------------------------------------------
(* Properties.                                                             *)

TypeOK ==
  /\ pc \in {"probe", "get", "boot", "reset", "spin"}
  /\ readValue \in 0 .. 2^16 - 1
  /\ fifo \in Seq(Nat) /\ Len(fifo) <= FifoDepth
  /\ rfifo \in Seq(Nat) /\ Len(rfifo) <= FifoDepth
  /\ phase \in {"unsynced", "half", "synced", "config"}
  /\ pend \in [reg : 0 .. 63, count : 0 .. 31]
  /\ written \subseteq 0 .. 63

\* The probe's hand-encoded header reads GENERAL5: once getfslx returns,
\* readValue is what GENERAL5 holds, so CheckFirmwareUpdate's comparison
\* with GENERAL5_MAGIC sees the fallback marker exactly when it is there.
ProbeReadsGeneral5 == pc \in {"boot", "reset", "spin"} => readValue = regs[GENERAL5]

\* IPROG starts the reconfiguration only after do_reset has rewritten all
\* four address registers since its SYNC, so the launch never uses GENERAL1-4
\* contents left from power-up or from an earlier reset (StaleContents).
IprogAfterAddressWrites == ~launched.none => Addresses \subseteq launched.written

\* The blocking getfslx of CheckFirmwareUpdate returns: the probe's words
\* reach the ICAP and its read answers with a word, so the boot goes on.
ProbeGetsAnswer == pc = "get" ~> pc = "boot"

\* do_reset reboots the FPGA: its words fit the FSL FIFO before the FINISH
\* word drains them, and IPROG reaches the ICAP.
ResetReconfigures == pc = "reset" ~> ~launched.none

====
