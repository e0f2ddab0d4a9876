---------------------------- MODULE MCInterface -----------------------------
\* A queue of three; frames of one and two hops, short and long, at 1 byte
\* per ms; a cap of 3 ms in any window.
EXTENDS Interface

MCFrame == {[id |-> 1, hops |-> 1, size |-> 2], [id |-> 2, hops |-> 1, size |-> 3],
            [id |-> 3, hops |-> 2, size |-> 1]}
=============================================================================
