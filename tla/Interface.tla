----------------------------- MODULE Interface ------------------------------
(***************************************************************************)
(* The outbound side of one interface, src/src/rns/Interface.cpp: the      *)
(* queue of announces and the cap on the airtime they may take in any      *)
(* window.  Everything else goes out at once, through transmit_now(), and  *)
(* does not count.                                                         *)
(*                                                                         *)
(* The code compares times only with the present, so an emission is kept   *)
(* with its age; ages past the window are alike and stop at Window + 1.    *)
(* The uncommented definitions that stand before another one are slips     *)
(* this code could have and does not: see "Mutants" in the README.         *)
(***************************************************************************)
EXTENDS Integers, SequencesExt

CONSTANTS
  Frame,      \* announces: [id, hops, size], size in bytes
  Bitrate,    \* bitrate_bps
  CapPct,     \* announce_cap_pct
  QueueMax,   \* max_queued_announces
  Window      \* airtime_window_ms

ASSUME InterfaceAssumption ==
  /\ \A f \in Frame : f.hops \in 0 .. 255 /\ f.size \in Nat
  /\ Bitrate \in Nat /\ CapPct \in Nat /\ QueueMax \in Nat /\ Window \in Nat

VARIABLES
  queue,    \* _queue
  emits,    \* _emits: [age, airtime] of the emissions remembered, oldest first
  aired,    \* the announces that the latest call put on the air, in order
  ledger    \* every announce emission of the last Window, whatever emits says

vars == <<queue, emits, aired, ledger>>

Emissions == [age : 0 .. Window + 1, airtime : Nat]

\* airtime_for_bytes; an interface without a bitrate is not limited.
AirtimeOf(f) == IF Bitrate = 0 THEN 0 ELSE (f.size * 8000) \div Bitrate

WindowCap == (CapPct * Window) \div 100

AirtimeIn(log) ==
  LET sum[k \in 0 .. Len(log)] == IF k = 0 THEN 0 ELSE sum[k - 1] + log[k].airtime
  IN  sum[Len(log)]

\* What a log holds from its first emission on of at most the given age.  A
\* log is in order of time: what precedes that emission is older.
Since(log, age) ==
  LET first == CHOOSE k \in 1 .. Len(log) + 1 :
                 /\ \A j \in 1 .. k - 1 : log[j].age > age
                 /\ k <= Len(log) => log[k].age <= age
  IN  SubSeq(log, first, Len(log))

PrunedNever(log) == log

PrunedTooSoon(log) == Since(log, Window - 1)

\* prune_old_emits
Pruned(log) == Since(log, Window)

BudgetAllowsStrictlyUsed(log, f) == AirtimeIn(log) < WindowCap

BudgetAllowsBelow(log, f) == AirtimeIn(log) + AirtimeOf(f) < WindowCap

\* budget_allows
BudgetAllows(log, f) == AirtimeIn(log) + AirtimeOf(f) <= WindowCap

PickLast(q) ==
  CHOOSE k \in DOMAIN q : /\ \A j \in DOMAIN q : q[k].hops <= q[j].hops
                          /\ \A j \in k + 1 .. Len(q) : q[k].hops < q[j].hops

\* std::min_element: of the announces with the fewest hops, the oldest.
Pick(q) ==
  CHOOSE k \in DOMAIN q : /\ \A j \in DOMAIN q : q[k].hops <= q[j].hops
                          /\ \A j \in 1 .. k - 1 : q[k].hops < q[j].hops

-----------------------------------------------------------------------------

QueueAnnounceOverfull(f) ==
  /\ queue' = IF Len(queue) > QueueMax THEN queue ELSE Append(queue, f)
  /\ aired' = << >>
  /\ UNCHANGED <<emits, ledger>>

\* queue_announce refuses an announce when the queue is full.
QueueAnnounce(f) ==
  /\ queue' = IF Len(queue) >= QueueMax THEN queue ELSE Append(queue, f)
  /\ aired' = << >>
  /\ UNCHANGED <<emits, ledger>>

\* Reading airtime_used_ms_in_window prunes the log.
ReadAirtime ==
  /\ emits' = Pruned(emits)
  /\ aired' = << >>
  /\ UNCHANGED <<queue, ledger>>

\* One round of tick()'s loop, on what the rounds before it left.
Round(s) ==
  LET log == Pruned(s.emits)
      k   == Pick(s.queue)
      f   == s.queue[k]
  IN  IF s.queue = << >> THEN s
      ELSE IF ~BudgetAllows(log, f) THEN [s EXCEPT !.emits = log]
      ELSE [queue |-> RemoveAt(s.queue, k),
            emits |-> Append(log, [age |-> 0, airtime |-> AirtimeOf(f)]),
            aired |-> Append(s.aired, f)]

\* The rounds of one tick(): until the queue is empty or its pick does not
\* fit, after which further rounds change nothing.  A set of one: TLC then
\* works out what a round leaves once, and not wherever it is used.
Drained ==
  LET after[n \in 0 .. Len(queue)] ==
        IF n = 0 THEN {[queue |-> queue, emits |-> emits, aired |-> << >>]}
                 ELSE {Round(s) : s \in after[n - 1]}
  IN  after[Len(queue)]

Tick ==
  \E end \in Drained :
    /\ queue' = end.queue
    /\ emits' = end.emits
    /\ aired' = end.aired
    /\ ledger' = ledger \o [k \in DOMAIN end.aired |->
                              [age |-> 0, airtime |-> AirtimeOf(end.aired[k])]]

Aged(e) == [e EXCEPT !.age = IF @ > Window THEN @ ELSE @ + 1]

\* A millisecond passes.
Elapse ==
  /\ emits' = [k \in DOMAIN emits |-> Aged(emits[k])]
  /\ ledger' = Since([k \in DOMAIN ledger |-> Aged(ledger[k])], Window)
  /\ aired' = << >>
  /\ UNCHANGED queue

-----------------------------------------------------------------------------

Init == queue = << >> /\ emits = << >> /\ aired = << >> /\ ledger = << >>

Next ==
  \/ \E f \in Frame : QueueAnnounce(f)
  \/ ReadAirtime
  \/ Tick
  \/ Elapse

\* The loop calls tick() for ever, and time passes.
Spec == Init /\ [][Next]_vars /\ WF_vars(Elapse) /\ WF_vars(Tick)

-----------------------------------------------------------------------------
(* Properties *)

\* Types.  The queue stays within its limit.
TypeOK ==
  /\ queue \in Seq(Frame) /\ Len(queue) <= QueueMax
  /\ emits \in Seq(Emissions)
  /\ aired \in Seq(Frame)
  /\ ledger \in Seq(Emissions)

\* In no window does the airtime of announces exceed the cap, however the
\* log is pruned and however many announces one tick puts out
\* (Interface.cpp:34-51, 53-70).
CapHolds == AirtimeIn(ledger) <= WindowCap

\* The log keeps what the budget needs: after a prune it accounts for every
\* emission of the window and for nothing else (Interface.cpp:34-41).
LogIsLedger == Pruned(emits) = ledger

\* The announces of a queue that are so many hops away, in its order.
OfHops(q, hops) ==
  LET of[n \in 0 .. Len(q)] ==
        IF n = 0 THEN << >>
        ELSE IF q[n].hops = hops THEN Append(of[n - 1], q[n]) ELSE of[n - 1]
  IN  of[Len(q)]

\* Announces go out by hops, and among equals in the order of arrival: a tick
\* takes from the front of each number of hops, farther ones only when no
\* nearer one is left, and loses none (Interface.cpp:57-68).
NoOvertaking ==
  [][aired' # << >> =>
       /\ \A k \in DOMAIN aired' :
            /\ \A j \in DOMAIN queue' : aired'[k].hops <= queue'[j].hops
            /\ \A j \in 1 .. k - 1 : aired'[j].hops <= aired'[k].hops
       /\ \A f \in Frame :
            OfHops(aired', f.hops) \o OfHops(queue', f.hops) = OfHops(queue, f.hops)]_vars

\* An announce of no more hops than any other that may come is sent sooner or
\* later, if it fits the cap at all: later arrivals cannot starve it, and old
\* emissions leave the log (Interface.cpp:53-70).
NearestGoesOut ==
  \A f \in Frame :
    (AirtimeOf(f) <= WindowCap /\ \A g \in Frame : f.hops <= g.hops) =>
      (f \in ToSet(queue) ~> f \in ToSet(aired))

\* A full queue refuses announces, and the refusal is ignored, but not for
\* ever: where every announce fits the cap, there is room again sooner or
\* later ("caller may retry later", Interface.h:66).
FullQueueDrains ==
  (\A f \in Frame : AirtimeOf(f) <= WindowCap) =>
    (Len(queue) = QueueMax ~> Len(queue) < QueueMax)
=============================================================================
