---------------------------- MODULE MCRelayLoop -----------------------------
\* The alphabets of MCTransport, in the firmware's loop.
EXTENDS MCTransport, RelayLoop

\* Announces of two originators, DATA, a link and its proof: every table fills.
LoopWires == {Direct(Early), Through(Late, 1), Direct(AnnounceOf(d2, b, 1)),
              DataVia, LinkRequest(500), LinkProofBy(a)}
=============================================================================
