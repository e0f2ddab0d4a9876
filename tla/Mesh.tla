-------------------------------- MODULE Mesh ---------------------------------
(***************************************************************************)
(* Two relays, each of them Transport in the firmware's loop, on a shared  *)
(* channel with the two ends they serve: an origin that announces Target   *)
(* and a client that sends to it through relay B.  Everybody who hears a   *)
(* station gets what it transmits, in any order, late, or not at all.      *)
(*                                                                         *)
(* The ends and the medium are external.  A relay is two copies of         *)
(* Transport's variables; the announce cap is left out, so a rebroadcast   *)
(* goes out with its tick.                                                 *)
(***************************************************************************)
EXTENDS Packet, FiniteSets

CONSTANTS
  RelayA, RelayB, Origin, Client,   \* the stations
  Hears,       \* <<s, t>>: t hears s
  Target,      \* the origin's destination
  Script,      \* what each end says on its own account, each packet once
  Receipt,     \* the origin's answer to the client's DATA
  MaxFaults,   \* bound: transmissions lost and relays rebooted
  Iface, PathRequestDest, HwMtu, PathLife, ReverseTimeout, ProofTimeout,
  LinkStale, MaxRandomBlobs, HashlistMax, MaxPrTags, MaxTime

End     == {Origin, Client}
Station == {RelayA, RelayB} \cup End

ASSUME MeshAssumption ==
  /\ {RelayA, RelayB, Origin, Client} \subseteq Id /\ Cardinality(Station) = 4
  /\ Hears \subseteq Station \X Station
  /\ Script \in [End -> SUBSET Packets] /\ Receipt \in Packets
  /\ Target \in Addr /\ MaxFaults \in Nat
  /\ HwMtu \in [Iface -> Nat] /\ HashlistMax \in Nat

VARIABLES
  now,       \* the relays' clocks, here one
  inbox,     \* what each station can still hear; an end keeps what it heard
  said,      \* what the ends have said
  faults,    \* transmissions lost and relays rebooted
  spoiled,   \* whether any of them, or an entry, was lost since the DATA left
  forwarded, \* <<relay, hash>> of the DATA each relay forwarded since it booted
  knownA, pathsA, announcesA, reverseA, linksA, hashlistA, prTagsA, blackA, nextA, outA,
  knownB, pathsB, announcesB, reverseB, linksB, hashlistB, prTagsB, blackB, nextB, outB

nodeA  == <<knownA, pathsA, announcesA, reverseA, linksA, hashlistA, prTagsA,
            blackA, nextA, outA>>
nodeB  == <<knownB, pathsB, announcesB, reverseB, linksB, hashlistB, prTagsB,
            blackB, nextB, outB>>
medium == <<inbox, said, faults, spoiled, forwarded>>
vars   == <<now, medium, nodeA, nodeB>>

NoSchedule == [s \in {} |-> 0]

A == INSTANCE Transport WITH
       Us <- RelayA, LocalDest <- {}, TransportEnabled <- TRUE, HasSeedFn <- FALSE,
       Seed <- {}, Schedule <- NoSchedule, Suspect <- {}, Wire <- {},
       known <- knownA, paths <- pathsA, announceTable <- announcesA,
       reverseTable <- reverseA, linkTable <- linksA, hashlist <- hashlistA,
       prTags <- prTagsA, blackholed <- blackA, nextEmit <- nextA, out <- outA

B == INSTANCE Transport WITH
       Us <- RelayB, LocalDest <- {}, TransportEnabled <- TRUE, HasSeedFn <- FALSE,
       Seed <- {}, Schedule <- NoSchedule, Suspect <- {}, Wire <- {},
       known <- knownB, paths <- pathsB, announceTable <- announcesB,
       reverseTable <- reverseB, linkTable <- linksB, hashlist <- hashlistB,
       prTags <- prTagsB, blackholed <- blackB, nextEmit <- nextB, out <- outB

-----------------------------------------------------------------------------
(* The medium *)

\* An end keeps DATA and receipts only.
Heeded(t, wires) == IF t \in End THEN {w \in wires : w.type \in {"DATA", "PROOF"}} ELSE wires

\* s transmits wires, after taking `taken` out of what it can hear.
Transmitted(s, wires, taken) ==
  [t \in Station |->
     (inbox[t] \ (IF t = s THEN taken ELSE {}))
       \cup (IF <<s, t>> \in Hears THEN Heeded(t, wires) ELSE {})]

WiresOf(out) == {e.wire : e \in out}

DataOf(relay, out) ==
  {<<relay, HashablePart(e.wire)>> : e \in {x \in out : x.kind = "DataForward"}}

-----------------------------------------------------------------------------
(* A relay's loop: tick(), and at the same reading one packet *)

TickA ==
  /\ A!Tick
  /\ inbox' = Transmitted(RelayA, WiresOf(outA'), {})
  /\ spoiled' = (spoiled \/ A!ExpiredPaths \cup A!AgedReceipts # {})
  /\ UNCHANGED <<said, faults, forwarded, nodeB>>

TickB ==
  /\ B!Tick
  /\ inbox' = Transmitted(RelayB, WiresOf(outB'), {})
  /\ spoiled' = (spoiled \/ B!ExpiredPaths \cup B!AgedReceipts # {})
  /\ UNCHANGED <<said, faults, forwarded, nodeA>>

\* tick() has run at this reading.
TickedA == A!DueAnnounces \cup A!ExpiredPaths \cup A!AgedReceipts = {}
TickedB == B!DueAnnounces \cup B!ExpiredPaths \cup B!AgedReceipts = {}

HearA(w) ==
  /\ w \in inbox[RelayA]
  /\ TickedA
  /\ \E i \in Iface : A!Inbound(i, w)
  /\ inbox' = Transmitted(RelayA, WiresOf(outA'), {w})
  /\ forwarded' = forwarded \cup DataOf(RelayA, outA')
  /\ UNCHANGED <<said, faults, spoiled, nodeB>>

DropA(w) ==
  /\ w \in inbox[RelayA]
  /\ TickedA
  /\ A!DropDuplicate(w)
  /\ inbox' = Transmitted(RelayA, {}, {w})
  /\ UNCHANGED <<said, faults, spoiled, forwarded, nodeB>>

HearB(w) ==
  /\ w \in inbox[RelayB]
  /\ TickedB
  /\ \E i \in Iface : B!Inbound(i, w)
  /\ inbox' = Transmitted(RelayB, WiresOf(outB'), {w})
  /\ forwarded' = forwarded \cup DataOf(RelayB, outB')
  /\ UNCHANGED <<said, faults, spoiled, nodeA>>

DropB(w) ==
  /\ w \in inbox[RelayB]
  /\ TickedB
  /\ B!DropDuplicate(w)
  /\ inbox' = Transmitted(RelayB, {}, {w})
  /\ UNCHANGED <<said, faults, spoiled, forwarded, nodeA>>

-----------------------------------------------------------------------------
(* The ends *)

IsDataForTarget(w) == w.type = "DATA" /\ w.dest = Target

Say(s, w) ==
  /\ w \in Script[s] \ said
  /\ said' = said \cup {w}
  /\ inbox' = Transmitted(s, {w}, {})
  /\ spoiled' = (spoiled /\ ~IsDataForTarget(w))
  /\ UNCHANGED <<now, faults, forwarded, nodeA, nodeB>>

\* The origin accepts DATA in HEADER_1 and acknowledges it.
Answer ==
  /\ Receipt \notin said
  /\ \E w \in inbox[Origin] : IsDataForTarget(w) /\ w.hdr = 1
  /\ said' = said \cup {Receipt}
  /\ inbox' = Transmitted(Origin, {Receipt}, {})
  /\ UNCHANGED <<now, faults, spoiled, forwarded, nodeA, nodeB>>

-----------------------------------------------------------------------------
(* Faults, and time *)

Fault == faults < MaxFaults /\ faults' = faults + 1 /\ spoiled' = TRUE

Lose(s, w) ==
  /\ Fault
  /\ s \notin End /\ w \in inbox[s]
  /\ inbox' = [inbox EXCEPT ![s] = @ \ {w}]
  /\ UNCHANGED <<now, said, forwarded, nodeA, nodeB>>

\* A relay's memory is all RAM: it comes up as it did the first time.
RebootA ==
  /\ Fault
  /\ knownA' = A!EmptyTable /\ pathsA' = A!EmptyTable /\ announcesA' = A!EmptyTable
  /\ reverseA' = A!EmptyTable /\ linksA' = A!EmptyTable
  /\ hashlistA' = A!EmptyRing /\ prTagsA' = A!EmptyRing
  /\ blackA' = {} /\ nextA' = NoSchedule /\ outA' = {}
  /\ forwarded' = {f \in forwarded : f[1] # RelayA}
  /\ UNCHANGED <<now, inbox, said, nodeB>>

RebootB ==
  /\ Fault
  /\ knownB' = B!EmptyTable /\ pathsB' = B!EmptyTable /\ announcesB' = B!EmptyTable
  /\ reverseB' = B!EmptyTable /\ linksB' = B!EmptyTable
  /\ hashlistB' = B!EmptyRing /\ prTagsB' = B!EmptyRing
  /\ blackB' = {} /\ nextB' = NoSchedule /\ outB' = {}
  /\ forwarded' = {f \in forwarded : f[1] # RelayB}
  /\ UNCHANGED <<now, inbox, said, nodeA>>

Elapse ==
  /\ now < MaxTime
  /\ now' = now + 1
  /\ UNCHANGED <<medium, nodeA, nodeB>>

-----------------------------------------------------------------------------

Init ==
  /\ A!Init /\ B!Init
  /\ inbox = [s \in Station |-> {}]
  /\ said = {} /\ faults = 0 /\ spoiled = FALSE /\ forwarded = {}

Hear == \E w \in inbox[RelayA] \cup inbox[RelayB] : HearA(w) \/ DropA(w) \/ HearB(w) \/ DropB(w)

Next ==
  \/ TickA \/ TickB \/ Hear
  \/ \E s \in End : \E w \in Script[s] : Say(s, w)
  \/ Answer
  \/ \E s \in Station : \E w \in inbox[s] : Lose(s, w)
  \/ RebootA \/ RebootB
  \/ Elapse

\* The relays' loops run, what is not lost arrives, and the origin answers.
Spec ==
  /\ Init /\ [][Next]_vars
  /\ WF_vars(TickA) /\ WF_vars(TickB) /\ WF_vars(Hear) /\ WF_vars(Answer)

-----------------------------------------------------------------------------
(* How many different hashes a relay can come to record. *)

\* Relays turn an announce into a path response and clamp the MTU of a link
\* request; no other rewrite changes a hash (Packet.h:115-124).
ContextsOf(w) == {w.ctx} \cup IF w.type = "ANNOUNCE" THEN {"PATH_RESPONSE"} ELSE {}

BodiesOf(w) ==
  {w.body} \cup
    IF w.body \in LinkRequestBody THEN {[w.body EXCEPT !.mtu = HwMtu[i]] : i \in Iface} ELSE {}

Spoken == Script[Origin] \cup Script[Client] \cup {Receipt}

Recorded(w, c, b) ==
  [type |-> w.type, dtype |-> w.dtype, dest |-> w.dest, ctx |-> c, body |-> b]

HashesOf(w) == {Recorded(w, c, b) : c \in ContextsOf(w), b \in BodiesOf(w)}

Hashes == UNION {HashesOf(w) : w \in Spoken}

\* The ring has room for all of them, so that no relay ever purges.
NothingForgotten == IsFiniteSet(Hashes) /\ Cardinality(Hashes) <= HashlistMax

-----------------------------------------------------------------------------
(* Properties *)

\* Whatever is lost, late or expired, and although routes may lead in a
\* circle, no relay forwards a DATA packet twice: the hash is recorded before
\* the handler runs (Transport.cpp:204).
ForwardedOnce ==
  [][/\ \A w \in inbox[RelayA] : HearA(w) => DataOf(RelayA, outA') \cap forwarded = {}
     /\ \A w \in inbox[RelayB] : HearB(w) => DataOf(RelayB, outB') \cap forwarded = {}]_vars

DataUnderWay ==
  /\ ~spoiled
  /\ \E w \in inbox[RelayB] : IsDataForTarget(w) /\ w \in said
  /\ Target \in DOMAIN pathsB
  /\ Target \in DOMAIN pathsA /\ pathsA[Target].hops = 1

\* DATA handed to a relay with a route goes through both relays, each of
\* which rewrites its header, and the receipt comes back the same way; unless
\* a transmission, a relay's memory or an entry was lost on the way.
\* "Path-aware DATA forwarding [...], PROOF forwarding via reverse_table"
\* (README.md:17; Transport.cpp:318-334, 368-435).
DeliveredAndAcknowledged ==
  DataUnderWay ~> (spoiled \/ \E w \in inbox[Client] : w.type = "PROOF" /\ w.dest = Receipt.dest)
=============================================================================
