----------------------------- MODULE EventLatch -----------------------------
(***************************************************************************)
(* What the firmware-update event latch promises the host: one slot,       *)
(* armed only while the queue is enabled, overwritten (never queued) by a  *)
(* later arm, cleared by the poll that delivers it, and untouched by       *)
(* enabling or disabling the queue.  A reset of the device loses it.       *)
(* FirmwareUpdate implements it through the mapping in FirmwareUpdate.tla. *)
(***************************************************************************)
CONSTANTS
  Payloads,   \* the execution states an event can carry
  None        \* no event pending

ASSUME None \notin Payloads

VARIABLES enabled, pending

latchVars == <<enabled, pending>>

LatchInit == enabled = FALSE /\ pending = None

\* The host turns the queue on or off; a pending event stays.
SetEnabled == \E b \in BOOLEAN : enabled' = b /\ UNCHANGED pending

\* A completed execution arms the latch with its outcome.
Arm == enabled /\ \E s \in Payloads : pending' = s /\ UNCHANGED enabled

\* The host's poll delivers the pending event and empties the slot.
Deliver == pending # None /\ pending' = None /\ UNCHANGED enabled

\* The device resets: the latch and its setting are lost.
Lose == enabled' = FALSE /\ pending' = None

LatchNext == SetEnabled \/ Arm \/ Deliver \/ Lose

LatchSpec == LatchInit /\ [][LatchNext]_latchVars
=============================================================================
