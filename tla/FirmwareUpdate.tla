--------------------------- MODULE FirmwareUpdate ---------------------------
(***************************************************************************)
(* The mailbox firmware-update path of the Lab X "revolver" U-Boot board   *)
(* code, board/labx/revolver/firmware-update.c.                            *)
(*                                                                         *)
(* One single-threaded program: CheckFirmwareUpdate probes the ICAP        *)
(* fallback register, polls the mailbox four times, then either returns    *)
(* (normal boot, with or without a boot delay) or runs the endless request *)
(* loop DoFirmwareUpdate.  Every request is answered before a completed    *)
(* transfer is executed.  The host is the environment: it may send any     *)
(* request at any poll.  The post-transfer or sendCommand shell command    *)
(* may invoke "reset" (cmd_reset.c), which reboots the device.             *)
(*                                                                         *)
(* The file's static globals are one record, mem.  The DDR2 staging region *)
(* is mem.ddr: each byte slot is tagged with the session that wrote it and *)
(* the host image the byte belongs to (an abstraction of its value).       *)
(***************************************************************************)
EXTENDS Naturals, Sequences, FiniteSets, Functions

CONSTANTS
  Lengths,      \* image lengths the host may declare in startFirmwareUpdate
  PacketSizes,  \* sizes of the FwData sequences the host may send
  Capacity,     \* size, in byte slots, of the DDR2 staging region
  MaxSessions,  \* bound on startFirmwareUpdate calls over the whole run
  MaxBoots,     \* bound on boots (resets) over the whole run
  Images,       \* host images: "kernel" (good), "kernelBadCrc", "other" type
  QueueSettings \* values the host may pass to set_eventQueueEnabled

ASSUME /\ Lengths \subseteq Nat /\ Lengths # {}
       /\ PacketSizes \subseteq Nat /\ PacketSizes # {}
       /\ Capacity \in Nat \ {0}
       /\ MaxSessions \in Nat \ {0}
       /\ MaxBoots \in Nat \ {0}
       /\ Images \subseteq {"kernel", "kernelBadCrc", "other"} /\ Images # {}
       /\ QueueSettings \subseteq BOOLEAN /\ QueueSettings # {}

VARIABLES
  pc,        \* where the program is: probe, window, decide, dispatch, halted, booted
  attempt,   \* loop counter i of the four mailbox polls in CheckFirmwareUpdate
  fallback,  \* readValue = GENERAL5_MAGIC: the ICAP reported a failed reconfiguration
  retVal,    \* value CheckFirmwareUpdate returned (meaningful once booted)
  mem,       \* the globals of firmware-update.c and the DDR2 staging region
  boots,     \* number of boots so far
  \* History variables, kept only to state properties:
  sessions,  \* startFirmwareUpdate calls so far; the current session's number
  declared,  \* declared[s]: the length session s declared (its image's size)
  completed, \* sessions whose transfer received all declared bytes
  executions,\* number of executeFirmwareUpdate calls so far
  lastExec,  \* what the latest executeFirmwareUpdate call ran on
  armed,     \* execution state at the most recent arm of the event
  windowAcks,\* operations answered e_EC_SUCCESS in this boot's polling window
  passes,    \* passes of the polling loop in this boot's window (counted
             \* up to one past the loop's bound)
  overrun    \* a memcpy went past the end of the staging region

vars == <<pc, attempt, fallback, retVal, mem, boots, sessions, declared,
          completed, executions, lastExec, armed, windowAcks, passes, overrun>>

-----------------------------------------------------------------------------
(* Constants of the code and of its IDL.                                   *)

PollAttempts == 4          \* for (i=0; i<4; ++i) in CheckFirmwareUpdate

Blank   == [sid |-> 0, img |-> "none"]          \* a slot no session wrote

SUCCESS       == "UPDATE_SUCCESS"
CORRUPT_IMAGE == "UPDATE_CORRUPT_IMAGE"
NOT_EXECUTED  == "UPDATE_NOT_EXECUTED"
ExecStates    == {SUCCESS, CORRUPT_IMAGE, NOT_EXECUTED}
\* `state' is a global pointer nothing assigns: it is NULL, and *state is
\* the word at address 0.  Its content before the first write:
Addr0Word     == "addr0"

ShellResults == {"zero", "nonzero", "reset"}  \* parse_string_outer outcome

FwOps == {"sendCommand", "remainInBootloader", "requestBootDelay",
          "get_ExecutingImageType", "get_eventQueueEnabled",
          "get_nextQueuedEvent"}

FwRequests ==
       [op : {"startFirmwareUpdate"}, length : Lengths]
  \cup [op : {"sendDataPacket"}, size : PacketSizes, img : Images]
  \cup [op : {"set_eventQueueEnabled"}, enabled : QueueSettings]
  \cup [op : FwOps]

Requests ==
       [cls : {"k_CC_FirmwareUpdate"}, body : FwRequests]
  \cup [cls : {"k_CC_AvbSystem", "k_CC_Other"}]

NoEvent == [code |-> "NULL_EVENT", payload |-> "none"]

InitMem(ddr) ==
  [bootDelay |-> FALSE, firmwareUpdate |-> FALSE, executeUpdate |-> FALSE,
   queueEnabled |-> FALSE, eventValid |-> FALSE, state |-> Addr0Word,
   crcreturn |-> "unset",
   fw |-> [bUpdateInProgress |-> FALSE, length |-> 0, bytesReceived |-> 0,
           fwImagePtr |-> 0],
   ddr |-> ddr]

-----------------------------------------------------------------------------
(* The request handlers.  Each maps the globals m to the handler's result: *)
(* the new globals, the status code written to the response, whether the  *)
(* shell reset the device, and the event returned to the host.            *)

Reply(m, status) == [mem |-> m, status |-> status, reset |-> FALSE, event |-> NoEvent]

\* Mutant: bytesReceived is not reset for the new session.
startFirmwareUpdate_keepCount(m, length) ==
  Reply([m EXCEPT !.fw = [bUpdateInProgress |-> TRUE, length |-> length,
                          bytesReceived |-> m.fw.bytesReceived, fwImagePtr |-> 0]],
        IF m.fw.bUpdateInProgress THEN "e_EC_UPDATE_ALREADY_IN_PROGRESS"
                                  ELSE "e_EC_SUCCESS")

startFirmwareUpdate(m, length) ==
  Reply([m EXCEPT !.fw = [bUpdateInProgress |-> TRUE, length |-> length,
                          bytesReceived |-> 0, fwImagePtr |-> 0]],
        IF m.fw.bUpdateInProgress THEN "e_EC_UPDATE_ALREADY_IN_PROGRESS"
                                  ELSE "e_EC_SUCCESS")

\* memcpy(fwImagePtr, data, size): slot k gets the byte if it is in the
\* region; bytes past the region land outside the model (see overrun).
Memcpy(ddr, ptr, size, byte) ==
  [k \in DOMAIN ddr |-> IF ptr <= k /\ k < ptr + size THEN byte ELSE ddr[k]]

\* Mutant: the last packet ends the session without raising executeUpdate.
sendDataPacket_noRaise(m, size, img, sid) ==
  IF ~m.fw.bUpdateInProgress
  THEN Reply(m, "e_EC_UPDATE_NOT_IN_PROGRESS")
  ELSE LET rcv  == m.fw.bytesReceived + size
           done == rcv >= m.fw.length
       IN Reply([m EXCEPT
                   !.ddr = Memcpy(@, m.fw.fwImagePtr, size, [sid |-> sid, img |-> img]),
                   !.fw.bytesReceived = rcv,
                   !.fw.bUpdateInProgress = IF done THEN FALSE ELSE @,
                   !.fw.fwImagePtr = IF done THEN @ ELSE @ + size],
                "e_EC_SUCCESS")

sendDataPacket(m, size, img, sid) ==
  IF ~m.fw.bUpdateInProgress
  THEN Reply(m, "e_EC_UPDATE_NOT_IN_PROGRESS")
  ELSE LET rcv  == m.fw.bytesReceived + size
           done == rcv >= m.fw.length
       IN Reply([m EXCEPT
                   !.ddr = Memcpy(@, m.fw.fwImagePtr, size, [sid |-> sid, img |-> img]),
                   !.fw.bytesReceived = rcv,
                   !.executeUpdate = IF done THEN TRUE ELSE @,
                   !.fw.bUpdateInProgress = IF done THEN FALSE ELSE @,
                   !.fw.fwImagePtr = IF done THEN @ ELSE @ + size],
                "e_EC_SUCCESS")

sendCommand(m, shell) ==
  [mem |-> m, reset |-> shell = "reset", event |-> NoEvent,
   status |-> IF shell = "zero" THEN "e_EC_SUCCESS" ELSE "e_EC_NOT_EXECUTED"]

\* Mutant: copy-paste slip, remainInBootloader raises bootDelay.
remainInBootloader_setsDelay(m) == Reply([m EXCEPT !.bootDelay = TRUE], "e_EC_SUCCESS")

remainInBootloader(m) == Reply([m EXCEPT !.firmwareUpdate = TRUE], "e_EC_SUCCESS")

requestBootDelay(m) == Reply([m EXCEPT !.bootDelay = TRUE], "e_EC_SUCCESS")

\* The two getters only fill the response.
get_ExecutingImageType(m) == Reply(m, "e_EC_SUCCESS")

get_eventQueueEnabled(m) == Reply(m, "e_EC_SUCCESS")

set_eventQueueEnabled(m, enabled) ==
  Reply([m EXCEPT !.queueEnabled = enabled], "e_EC_SUCCESS")

get_nextQueuedEvent(m) ==
  IF m.eventValid
  THEN [mem |-> [m EXCEPT !.eventValid = FALSE], status |-> "e_EC_SUCCESS",
        reset |-> FALSE,
        event |-> [code |-> "FIRMWARE_UPDATE_EVENT", payload |-> m.state]]
  ELSE Reply(m, "e_EC_SUCCESS")

\* The generated FirmwareUpdate__unmarshal: decode the service and call the
\* handler.  AvbSystem-class requests are decoded by code outside this
\* repository and change nothing modelled here.
Unmarshal(m, req, sid, shell) ==
  IF req.cls = "k_CC_AvbSystem" THEN Reply(m, "AvbSystemStatus")
  ELSE LET b == req.body IN
  CASE b.op = "startFirmwareUpdate"    -> startFirmwareUpdate(m, b.length)
    [] b.op = "sendDataPacket"         -> sendDataPacket(m, b.size, b.img, sid)
    [] b.op = "sendCommand"            -> sendCommand(m, shell)
    [] b.op = "remainInBootloader"     -> remainInBootloader(m)
    [] b.op = "requestBootDelay"       -> requestBootDelay(m)
    [] b.op = "set_eventQueueEnabled"  -> set_eventQueueEnabled(m, b.enabled)
    [] b.op = "get_nextQueuedEvent"    -> get_nextQueuedEvent(m)
    [] b.op = "get_eventQueueEnabled"  -> get_eventQueueEnabled(m)
    [] b.op = "get_ExecutingImageType" -> get_ExecutingImageType(m)

\* The default branch of both switches: a malformed request.
InvalidServiceCode(m) == Reply(m, "e_EC_INVALID_SERVICE_CODE")

-----------------------------------------------------------------------------
(* Execution of a completed transfer.                                      *)

\* image_check_type on the header at fwImageBase, then image_check_dcrc over
\* the data the header declares: the bytes of the image that wrote slot 0.
doCrcCheck(m, decl) ==
  LET hdr == m.ddr[0]
      isKernel == hdr.img \in {"kernel", "kernelBadCrc"}
      dcrcOk == /\ hdr.img = "kernel"
                /\ \A k \in 0 .. decl[hdr.sid] - 1 :
                      k \in DOMAIN m.ddr /\ m.ddr[k] = hdr
  IN [ok        |-> isKernel /\ dcrcOk,
      crcreturn |-> IF ~isKernel THEN m.crcreturn
                    ELSE IF dcrcOk THEN "0" ELSE "1"]

executeFirmwareUpdate(m, decl, shell) ==
  LET c  == doCrcCheck(m, decl)
      m1 == [m EXCEPT !.crcreturn = c.crcreturn]
  IN IF ~c.ok
     THEN [mem |-> [m1 EXCEPT !.state = CORRUPT_IMAGE], shellRan |-> FALSE,
           reset |-> FALSE]
     ELSE [mem |-> [m1 EXCEPT !.state = IF shell = "zero" THEN SUCCESS
                                                         ELSE NOT_EXECUTED],
           shellRan |-> TRUE, reset |-> shell = "reset"]

-----------------------------------------------------------------------------
(* Bookkeeping of the history variables for one answered request.          *)

IsStart(req) == req.cls = "k_CC_FirmwareUpdate" /\ req.body.op = "startFirmwareUpdate"

Bookkeeping(req, h) ==
  /\ sessions'  = IF IsStart(req) THEN sessions + 1 ELSE sessions
  /\ declared'  = IF IsStart(req)
                  THEN [declared EXCEPT ![sessions + 1] = req.body.length]
                  ELSE declared
  /\ completed' = IF mem.fw.bUpdateInProgress /\ ~h.mem.fw.bUpdateInProgress
                  THEN completed \cup {sessions} ELSE completed
  /\ overrun'   = \/ overrun
                  \/ /\ req.cls = "k_CC_FirmwareUpdate"
                     /\ req.body.op = "sendDataPacket"
                     /\ mem.fw.bUpdateInProgress
                     /\ mem.fw.fwImagePtr + req.body.size > Capacity

-----------------------------------------------------------------------------
(* The steps of the program.                                               *)

\* The device reboots: the FPGA is reconfigured and U-Boot starts again with
\* zeroed globals; DDR2 keeps what was staged.
Reboot(m) ==
  /\ pc'    = "probe"
  /\ mem'   = InitMem(m.ddr)
  /\ boots' = boots + 1

ShellChoices == IF boots < MaxBoots THEN ShellResults ELSE ShellResults \ {"reset"}

AllowedRequests == IF sessions < MaxSessions THEN Requests
                   ELSE {r \in Requests : ~IsStart(r)}

\* CheckFirmwareUpdate up to the polling loop: SetupLabXMailbox, the ICAP
\* command words that read GENERAL5, and the read-back of readValue.
ProbeIcap ==
  /\ pc = "probe"
  /\ fallback' \in BOOLEAN
  /\ attempt' = 0
  /\ windowAcks' = {}
  /\ passes' = 0
  /\ pc' = "window"
  /\ UNCHANGED <<retVal, mem, boots, sessions, declared, completed, executions, lastExec,
                 armed, overrun>>

\* The loop's end: after ++i, i<4 fails.
\* Mutant: off by one, the loop runs while i <= 4.
PollLoopDone_offByOne(i) == ~(i <= PollAttempts)

PollLoopDone(i) == ~(i < PollAttempts)

\* i after an answered request: a break leaves it, otherwise the for
\* header's ++i runs.
\* Mutant: a failed request restarts the window (i = 0) for a retry.
AfterRequest_restart(i, ok) == IF ok THEN i ELSE 0

\* Mutant: the _LABXDEBUG build, whose response dump loop reuses i and leaves
\* it at respSize (at least the IDL header, taken as 8 bytes) before ++i.
AfterRequest_debugDump(i, ok) == IF ok THEN i ELSE 8 + 1

AfterRequest(i, ok) == IF ok THEN i ELSE i + 1

\* if(getStatusCode_resp(response) == e_EC_SUCCESS) break;
\* Mutant: the break is dropped; all four polls are always taken.
PollBreaks_never(status) == FALSE

PollBreaks(status) == status = "e_EC_SUCCESS"

\* One pass of the polling loop: an empty non-blocking read sleeps; a
\* request is answered (only the FirmwareUpdate class is routed here) and a
\* success breaks out of the loop.
PollMailbox ==
  /\ pc = "window"
  /\ passes' = IF passes > PollAttempts THEN passes ELSE passes + 1
  /\ \/ /\ attempt' = attempt + 1
        /\ pc' = IF PollLoopDone(attempt') THEN "decide" ELSE "window"
        /\ UNCHANGED <<mem, boots, sessions, declared, completed, overrun,
                       windowAcks>>
     \/ \E req \in AllowedRequests, shell \in ShellChoices :
          LET h  == IF req.cls = "k_CC_FirmwareUpdate"
                    THEN Unmarshal(mem, req, sessions, shell)
                    ELSE InvalidServiceCode(mem)
              ok == PollBreaks(h.status)
          IN /\ Bookkeeping(req, h)
             /\ IF h.reset
                THEN /\ Reboot(h.mem)
                     /\ UNCHANGED <<attempt, windowAcks>>
                ELSE /\ mem' = h.mem
                     /\ windowAcks' = IF ok THEN windowAcks \cup {req.body.op}
                                            ELSE windowAcks
                     /\ attempt' = AfterRequest(attempt, ok)
                     /\ pc' = IF ok \/ PollLoopDone(attempt')
                              THEN "decide" ELSE "window"
                     /\ UNCHANGED boots
  /\ UNCHANGED <<fallback, retVal, executions, lastExec, armed>>

\* The decision after the polling loop.  The loop counter i and the acks
\* of the window are dead past this point and are cleared.
Decide ==
  /\ pc = "decide"
  /\ IF fallback \/ mem.firmwareUpdate
     THEN pc' = "dispatch" /\ UNCHANGED retVal
     ELSE pc' = "booted" /\ retVal' = IF mem.bootDelay THEN 1 ELSE 0
  /\ attempt' = 0
  /\ windowAcks' = {}
  /\ passes' = 0
  /\ UNCHANGED <<fallback, mem, boots, sessions, declared, completed,
                 executions, lastExec, armed, overrun>>

\* if(queueEnabled) after an execution: whether the event is armed.
\* Mutant: the check is dropped and every execution arms the event.
ArmsEvent_always(queueEnabled) == TRUE

ArmsEvent(queueEnabled) == queueEnabled

\* One iteration of DoFirmwareUpdate: read a request (blocking), answer it,
\* then run a transfer it completed and arm the event if the queue is on.
DispatchRequest ==
  /\ pc = "dispatch"
  /\ \E req \in AllowedRequests, shell \in ShellChoices :
       LET h    == IF req.cls = "k_CC_Other" THEN InvalidServiceCode(mem)
                   ELSE Unmarshal(mem, req, sessions, shell)
           runs == ~h.reset /\ h.mem.executeUpdate
           x    == executeFirmwareUpdate(h.mem, declared, shell)
           arm  == runs /\ ~x.reset /\ ArmsEvent(h.mem.queueEnabled)
           m2   == IF runs
                   THEN [x.mem EXCEPT !.executeUpdate = FALSE,
                                      !.eventValid = IF arm THEN TRUE ELSE @]
                   ELSE h.mem
       IN /\ Bookkeeping(req, h)
          /\ executions' = IF runs THEN executions + 1 ELSE executions
          /\ lastExec' = IF runs
                         THEN [sid |-> sessions, image |-> h.mem.ddr[0].sid,
                               header |-> h.mem.ddr[0].img,
                               shellRan |-> x.shellRan]
                         ELSE lastExec
          /\ armed' = IF arm THEN x.mem.state ELSE armed
          /\ IF h.reset \/ (runs /\ x.reset)
             THEN Reboot(m2)
             ELSE mem' = m2 /\ UNCHANGED <<pc, boots>>
  /\ UNCHANGED <<attempt, fallback, retVal, windowAcks, passes>>

\* ReadLabXMailbox returns false: DoFirmwareUpdate returns and the device
\* spins in while(1) waiting for the host to reset it.
MailboxClosed ==
  /\ pc = "dispatch"
  /\ pc' = "halted"
  /\ UNCHANGED <<attempt, fallback, retVal, mem, boots, sessions, declared,
                 completed, executions, lastExec, armed, windowAcks, passes,
                 overrun>>

\* The host resets a device halted in while(1), or the booted main image
\* reboots.
ExternalReset ==
  /\ pc \in {"halted", "booted"}
  /\ boots < MaxBoots
  /\ Reboot(mem)
  /\ UNCHANGED <<attempt, fallback, retVal, sessions, declared, completed,
                 executions, lastExec, armed, windowAcks, passes, overrun>>

\* No more resets within the bound: the run ends here.
Done ==
  /\ pc \in {"halted", "booted"}
  /\ boots = MaxBoots
  /\ UNCHANGED vars

Init ==
  /\ pc = "probe"
  /\ attempt = 0
  /\ fallback = FALSE
  /\ retVal = 0
  /\ mem = InitMem([k \in 0 .. Capacity - 1 |-> Blank])
  /\ boots = 1
  /\ sessions = 0
  /\ declared = [s \in 0 .. MaxSessions |-> 0]
  /\ completed = {}
  /\ executions = 0
  /\ lastExec = [sid |-> 0, image |-> 0, header |-> "none", shellRan |-> FALSE]
  /\ armed = Addr0Word
  /\ windowAcks = {}
  /\ passes = 0
  /\ overrun = FALSE

Next ==
  \/ ProbeIcap
  \/ PollMailbox
  \/ Decide
  \/ DispatchRequest
  \/ MailboxClosed
  \/ ExternalReset
  \/ Done

\* The boot sequence is straight-line code with a bounded loop; nothing in it
\* waits on the host, so its steps are weakly fair.  The request loop waits on
\* the host and gets no fairness.
Fairness == WF_vars(ProbeIcap) /\ WF_vars(PollMailbox) /\ WF_vars(Decide)

Spec == Init /\ [][Next]_vars /\ Fairness

\* The refinement mapping onto the abstract event latch: the queue setting is
\* queueEnabled, and the pending event is *state while eventValid is set.
Latch == INSTANCE EventLatch
           WITH Payloads <- ExecStates, None <- "none",
                enabled  <- mem.queueEnabled,
                pending  <- IF mem.eventValid THEN mem.state ELSE "none"

-----------------------------------------------------------------------------
(* Properties.                                                             *)

TypeOK ==
  /\ pc \in {"probe", "window", "decide", "dispatch", "halted", "booted"}
  /\ attempt \in 0 .. PollAttempts /\ passes \in 0 .. PollAttempts
  /\ fallback \in BOOLEAN /\ retVal \in {0, 1}
  /\ mem.fw.bytesReceived \in Nat /\ mem.fw.fwImagePtr \in Nat
  /\ mem.fw.length \in Lengths \cup {0}
  /\ mem.state \in ExecStates \cup {Addr0Word}
  /\ mem.ddr \in [0 .. Capacity - 1 ->
                  [sid : 0 .. MaxSessions, img : Images \cup {"none"}]]
  /\ boots \in 1 .. MaxBoots /\ sessions \in 0 .. MaxSessions
  /\ completed \subseteq 1 .. MaxSessions
  /\ windowAcks \subseteq FwOps \cup {"startFirmwareUpdate", "sendDataPacket",
                                      "set_eventQueueEnabled"}

\* sendDataPacket raises executeUpdate when a transfer completes, and only
\* the DoFirmwareUpdate loop runs and clears it after the response: every
\* transfer that received all its bytes is executed, and none twice, across
\* boots, the polling window and resets from the shell.
ExecutedExactlyOnce == executions = Cardinality(completed)

\* A completed transfer never waits unexecuted outside the request loop: the
\* polling window's break on the first e_EC_SUCCESS means no transfer can
\* complete there and be left pending when the device boots or halts.
ExecuteNeverStranded ==
  pc \in {"decide", "dispatch", "booted", "halted"} => ~mem.executeUpdate

\* The image the post-transfer command runs on was sent in the session that
\* declared it: startFirmwareUpdate rewinds fwImagePtr, so no byte of an
\* earlier session is committed (spec section 8: old bytes never committed).
CommitsOnlyCurrentImage == lastExec.shellRan => lastExec.image = lastExec.sid

\* The same, with the one exception the stale_image run exhibits: a session
\* that declared length 0 completes on its first packet (bytesReceived >=
\* length) and commits whatever the staging region holds.  Every other
\* session commits only its own bytes.
CommitsCurrentUnlessEmpty ==
  lastExec.shellRan => lastExec.image = lastExec.sid \/ declared[lastExec.sid] = 0

\* The polling window of CheckFirmwareUpdate always ends: every pass of the
\* for loop, an empty poll or an answered request of any status, advances
\* i, so no sequence of host requests can keep the device in the window.
BootWindowEnds == pc = "window" ~> pc # "window"

\* The polling window has its four passes: it ends early only on a request
\* answered e_EC_SUCCESS, never after fewer passes because a request failed
\* or because something else moved the loop counter i.
WindowCountsEveryPass ==
  [][pc = "window" /\ pc' = "decide" =>
       passes' = PollAttempts \/ windowAcks' # {}]_vars

\* The boot decision follows what the host was told in the polling window:
\* the device enters the update loop only on fallback or an acknowledged
\* remainInBootloader, and CheckFirmwareUpdate returns 1 exactly when a
\* requestBootDelay was acknowledged and no update was warranted.
BootDecisionHonoured ==
  [][pc = "decide" =>
       /\ pc' = "dispatch" <=> fallback \/ "remainInBootloader" \in windowAcks
       /\ pc' = "booted" => (retVal' = 1 <=> "requestBootDelay" \in windowAcks)]_vars

\* The globals implement the one-slot event latch of spec 4.3: an event is
\* armed only while the queue is enabled, a later arm overwrites it, only
\* get_nextQueuedEvent clears it, set_eventQueueEnabled leaves it alone, and
\* a reset loses it; what the slot holds changes only by an arm.
ImplementsEventLatch == Latch!LatchSpec

(* Statements of the spec that the code does not meet (violation runs).    *)

\* Spec 4.3: the latch holds the ExecutionState it was armed with, and
\* disabling the queue does not affect a pending event.
\* A delivery is a request step that clears eventValid; its payload is *state.
EventPayloadIsArmedOutcome ==
  [][(mem.eventValid /\ ~mem'.eventValid /\ boots' = boots)
        => mem.state = armed]_vars

\* Spec 4.2 step 1: an image of unrecognized type is vacuously valid and its
\* post-transfer command is run.
UnrecognizedImagePassesThrough ==
  lastExec.header \notin {"kernel", "kernelBadCrc", "none"} => lastExec.shellRan

\* Spec 3: receivedLength <= expectedLength at all times.
ReceivedWithinDeclared == mem.fw.bytesReceived <= mem.fw.length

\* Spec 9: the staging region's capacity bounds every write.
NoStagingOverrun == ~overrun

====
