----------------------------- MODULE RelayLoop ------------------------------
(***************************************************************************)
(* The firmware's main loop, src/src/main.cpp: read the clock, tick(), and *)
(* then hand inbound() at most one packet, at the same reading.            *)
(***************************************************************************)
EXTENDS Transport

VARIABLE phase   \* "tick": about to tick; "rx": about to poll the radio

loopVars == <<vars, phase>>

LoopTypeOK == phase \in {"tick", "rx"}

LoopInit == Init /\ phase = "tick"

\* delay(2) and everything else that takes time between two iterations
Delay == phase = "tick" /\ Elapse /\ UNCHANGED phase

LoopTick == phase = "tick" /\ Tick /\ phase' = "rx"

Receive ==
  /\ phase = "rx"
  /\ \/ \E i \in Iface, w \in Wire : Inbound(i, w)
     \/ \E w \in Wire : DropDuplicate(w)
  /\ phase' = "tick"

NothingReceived ==
  /\ phase = "rx"
  /\ phase' = "tick"
  /\ UNCHANGED vars

LoopNext == Delay \/ LoopTick \/ Receive \/ NothingReceived

\* loop() is called for ever and does not block.
LoopSpec ==
  /\ LoopInit /\ [][LoopNext]_loopVars
  /\ WF_loopVars(LoopTick)
  /\ WF_loopVars(Receive \/ NothingReceived)

-----------------------------------------------------------------------------
(* Properties *)

\* The handlers read the tables without looking at any expiry.  They may: in
\* the loop nothing has expired when a packet is handled, because tick() ran
\* at the same clock reading (main.cpp:298-307, Transport.cpp:138-141).
FreshWhenUsed ==
  phase = "rx" =>
    /\ \A d \in DOMAIN paths : now < paths[d].expires
    /\ \A h \in DOMAIN reverseTable : now < reverseTable[h].at + ReverseTimeout
    /\ \A l \in DOMAIN linkTable :
         now < IF linkTable[l].validated THEN linkTable[l].lastActivity + LinkStale
                                         ELSE linkTable[l].proofTimeout

\* AnnounceTable::put overwrites an entry that is still waiting, and inbound()
\* may be called many times between ticks.  In the loop it never does: every
\* announce that was accepted for rebroadcast waits untouched until a tick
\* takes it (Transport.cpp:308, tables/AnnounceTable.cpp:9-12).
NoPendingDisplaced ==
  [][\A d \in DOMAIN announceTable :
       d \in DOMAIN announceTable' => announceTable'[d] = announceTable[d]]_loopVars

\* Whatever is forwarded or rebroadcast, its hash is in the ring afterwards,
\* so that the neighbour's copy is dropped: the purge of the tick that emits
\* an announce (Transport.cpp:142) takes older hashes.  Requests excepted,
\* whose body a relay may rewrite.
EchoRecognised ==
  \A e \in out :
    (e.kind \notin {"OwnAnnounce", "PathResponse"} /\ ~IsLinkRequest(e.wire)) =>
      Contains(hashlist, HashablePart(e.wire))

\* An announce accepted for rebroadcast is handed to every interface, even if
\* its route is replaced or expires meanwhile.
PendingIsRebroadcast ==
  \A d \in Addr :
    d \in DOMAIN announceTable ~>
      \A i \in Iface : \E e \in out : /\ e.iface = i
                                      /\ e.kind = "Rebroadcast"
                                      /\ e.wire.dest = d
=============================================================================
