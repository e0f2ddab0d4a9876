----------------------------- MODULE ConfigCell -----------------------------
(***************************************************************************)
(* What the flash promises of a configuration: a cell that writers         *)
(* replace.  While one of them writes, the cell may be empty; power may go *)
(* at any time.  Configuration.tla implements it.                          *)
(***************************************************************************)
CONSTANTS Writer, Value, None

VARIABLES value, writing

cellVars == <<value, writing>>

Init == value = None /\ writing = [w \in Writer |-> None]

Begin(w) ==
  /\ writing[w] = None
  /\ \E v \in Value : writing' = [writing EXCEPT ![w] = v]
  /\ UNCHANGED value

Clear(w) == writing[w] # None /\ value' = None /\ UNCHANGED writing

\* The write lands, or fails or turns out not to be needed.
End(w) ==
  /\ writing[w] # None
  /\ value' \in {writing[w], value}
  /\ writing' = [writing EXCEPT ![w] = None]

Cut ==
  /\ value' \in {value} \cup {writing[w] : w \in {u \in Writer : writing[u] # None}}
  /\ writing' = [w \in Writer |-> None]

Next == (\E w \in Writer : Begin(w) \/ Clear(w) \/ End(w)) \/ Cut

Spec == Init /\ [][Next]_cellVars
=============================================================================
