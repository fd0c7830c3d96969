----------------------------- MODULE MCMtdBridge -----------------------------
(* Model values for MtdBridge: a 4-byte mailbox (one word), so that a     *)
(* 5-byte operation takes two chunks and a 3- or 5-byte one ends on a     *)
(* partial word; a timeout of 2 slices.                                    *)
EXTENDS MtdBridge

MCOffsets == {0, 3}
MCLengths == {3, 5}
\* The daemon answers, and finishes an operation in progress, with a slice
\* to spare before the driver's timeout.
MCTimely == {0, 1}
\* The daemon may also answer one slice after the driver gave up.
MCLate == {0, 3}
=============================================================================
