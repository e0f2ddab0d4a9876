---------------------------- MODULE MCClockWrap -----------------------------
\* The values of MCTransport; the clock goes from 0 to 4 and starts again.
EXTENDS MCTransport, ClockWrap
=============================================================================
