----------------------------- MODULE ClockWrap ------------------------------
(***************************************************************************)
(* The firmware's loop on the clock it has.  Transport counts in 64 bits   *)
(* and asks for times that never decrease; the loop gives it millis(), 32  *)
(* bits that start again at zero after some seven weeks (main.cpp:298).    *)
(* Here MaxTime stands for the last reading before that.                   *)
(***************************************************************************)
EXTENDS RelayLoop

VARIABLE ticked   \* tick() has run at this reading: no reading is skipped

wrapVars == <<loopVars, ticked>>

WrapInit == LoopInit /\ ticked = FALSE

\* The time between two iterations, on the 32-bit counter.
WrappingDelay ==
  /\ phase = "tick" /\ ticked
  /\ now' = (now + 1) % (MaxTime + 1)
  /\ ticked' = FALSE
  /\ out' = {}
  /\ UNCHANGED <<tables, hashlist, blackholed, nextEmit, phase>>

TickAtReading == LoopTick /\ ticked' = TRUE

Poll == (Receive \/ NothingReceived) /\ UNCHANGED ticked

WrapNext == WrappingDelay \/ TickAtReading \/ Poll

\* The loop runs for ever, and its iterations take time.
WrapSpec ==
  /\ WrapInit /\ [][WrapNext]_wrapVars
  /\ WF_wrapVars(TickAtReading)
  /\ WF_wrapVars(Poll)
  /\ SF_wrapVars(WrappingDelay)

-----------------------------------------------------------------------------

\* "lightweight 5-min "alive" announce keeps paths fresh" (main.cpp:48): the
\* announces of a node that keeps running keep coming.
AliveKeepsComing == []<>(\E e \in out : e.kind = "OwnAnnounce")
=============================================================================
