\* The FSL link's FIFO depth: 16 words, the FSL default.
CONSTANT FifoDepth = 16

SPECIFICATION Spec

\* The only stop is the reconfiguration IPROG starts (the CPU spins in
\* while(1)); ProbeGetsAnswer and ResetReconfigures say the CPU stops
\* nowhere else.
CHECK_DEADLOCK FALSE

INVARIANT TypeOK
INVARIANT ProbeReadsGeneral5
INVARIANT IprogAfterAddressWrites
PROPERTY ProbeGetsAnswer
PROPERTY ResetReconfigures
