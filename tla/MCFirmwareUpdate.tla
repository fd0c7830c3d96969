-------------------------- MODULE MCFirmwareUpdate --------------------------
(* Model values for FirmwareUpdate.  Lengths include 0, which              *)
(* startFirmwareUpdate does not reject; packets of size 0..2 make both an  *)
(* exact fill and an overshooting last packet possible.                    *)
EXTENDS FirmwareUpdate

MCLengths     == {0, 1, 2}
MCPacketSizes == {0, 1, 2}
MCCapacity    == 3

\* A good and a corrupted kernel image: what the CRC check tells apart.
MCKernelImages == {"kernel", "kernelBadCrc"}
\* Adds an image whose header is not of the kernel type.
MCAllImages    == {"kernel", "kernelBadCrc", "other"}
\* Lengths of at least one byte: startFirmwareUpdate never sees 0.
MCNonZeroLengths == {1, 2}
\* A region of two slots for an image of two bytes, or a three-byte image
\* the host declares although it does not fit.
MCSmallCapacity  == 2
MCOverrunLengths == {2, 3}
\* A host may turn the event queue on and off, or only ever turn it on.
MCBothSettings == BOOLEAN
MCEnableOnly == {TRUE}
====
