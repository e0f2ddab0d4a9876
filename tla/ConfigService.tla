--------------------------- MODULE ConfigService ----------------------------
(***************************************************************************)
(* What the configuration service promises: requests on the serial line    *)
(* are answered in order, each once, requests over BLE at once, and each   *)
(* changes the configuration by its fields or, if it is refused, by those  *)
(* of them that precede the fault.  SerialConsole.tla implements it.       *)
(*                                                                         *)
(* A request is its command and its fields, [name, val] with val the       *)
(* field's new value, Unknown for a field of another firmware, or Faulty.  *)
(***************************************************************************)
EXTENDS Naturals, Sequences

CONSTANTS Request, Config, Unknown, Faulty,
          Ping, Shown(_), Counted(_)   \* what the answers hold

VARIABLES staged,   \* the configuration in memory
          answer,   \* the latest answer
          saved,    \* the configuration last handed to the save callback
          waiting   \* requests on the line

serviceVars == <<staged, answer, saved, waiting>>

No == [ok |-> FALSE]

\* The first n fields, applied.
After(cfg, fields, n) ==
  LET c[k \in 0 .. n] ==
        IF k = 0 THEN cfg
        ELSE IF fields[k].val = Unknown THEN c[k - 1]
        ELSE [c[k - 1] EXCEPT ![fields[k].name] = fields[k].val]
  IN  c[n]

Sound(fields, n) == \A k \in 1 .. n : fields[k].val # Faulty

Known(fields) == Len(SelectSeq(fields, LAMBDA f : f.val # Unknown))

Refuse(r) ==
  /\ r.cmd = "set_config"
  /\ \E n \in 0 .. Len(r.fields) :
       Sound(r.fields, n) /\ staged' = After(staged, r.fields, n)
  /\ answer' = No
  /\ UNCHANGED saved

Handle(r) ==
  \/ r.cmd = "ping" /\ answer' = Ping /\ UNCHANGED <<staged, saved>>
  \/ r.cmd = "get_config" /\ answer' = Shown(staged) /\ UNCHANGED <<staged, saved>>
  \/ /\ r.cmd = "commit"
     /\ answer' \in {[ok |-> TRUE], No}
     /\ saved' = staged
     /\ UNCHANGED staged
  \/ /\ r.cmd = "set_config" /\ Sound(r.fields, Len(r.fields))
     /\ staged' = After(staged, r.fields, Len(r.fields))
     /\ answer' = Counted(Known(r.fields))
     /\ UNCHANGED saved
  \/ /\ \E k \in DOMAIN r.fields : r.fields[k].val = Faulty
     /\ staged' = After(staged, r.fields,
                        (CHOOSE k \in DOMAIN r.fields :
                           r.fields[k].val = Faulty /\ Sound(r.fields, k - 1)) - 1)
     /\ answer' = No
     /\ UNCHANGED saved

Ask(r) == waiting' = Append(waiting, r) /\ UNCHANGED <<staged, answer, saved>>

Serve == waiting # << >> /\ Handle(Head(waiting)) /\ waiting' = Tail(waiting)

\* Over BLE a request may arrive cut short, and is then refused.
ServeAtOnce(r) == Handle(r) /\ UNCHANGED waiting
RefuseCut(r) ==
  /\ Refuse(r) \/ (answer' = No /\ UNCHANGED <<staged, saved>>)
  /\ UNCHANGED waiting

Init == staged \in Config /\ answer = << >> /\ saved = << >> /\ waiting = << >>

Next == Serve \/ \E r \in Request : Ask(r) \/ ServeAtOnce(r) \/ RefuseCut(r)

Spec == Init /\ [][Next]_serviceVars
=============================================================================
