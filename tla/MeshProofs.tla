----------------------------- MODULE MeshProofs -----------------------------
(***************************************************************************)
(* No relay of the mesh forwards a DATA packet twice, whoever hears whom,  *)
(* whatever is lost, late or expired, and however routes lead, as long as  *)
(* its ring of hashes has room for what there is to hear.                  *)
(*                                                                         *)
(* Everything on the channel is something an end said, with a header that  *)
(* relays rewrote; what a relay can record is therefore one of Hashes, the *)
(* ring never grows over its cap, and the hash of what a relay forwarded   *)
(* stays in it until the relay reboots.                                    *)
(***************************************************************************)
EXTENDS Mesh, HashRingProofs, FiniteSetTheorems

USE MeshAssumption, NoIdAssumption

-----------------------------------------------------------------------------
(* What relays make of a packet *)

\* The packets that can be on the channel.
Traffic == {p \in Packets : HashablePart(p) \in Hashes}

Announces == {p \in Traffic : p.type = "ANNOUNCE"}

NextHops == Id \cup {NoId}

LEMMA InHashes ==
  \A h : h \in Hashes <=> \E w \in Spoken : h \in HashesOf(w)
BY DEF Hashes

LEMMA SpokenIsTraffic == Spoken \subseteq Traffic
<1> SUFFICES ASSUME NEW w \in Spoken
             PROVE  w \in Traffic
  OBVIOUS
<1>1. w \in Packets
  BY DEF Spoken, End
<1>2. HashablePart(w) = Recorded(w, w.ctx, w.body)
  BY DEF HashablePart, Recorded
<1>3. w.ctx \in ContextsOf(w) /\ w.body \in BodiesOf(w)
  BY DEF ContextsOf, BodiesOf
<1>4. HashablePart(w) \in HashesOf(w)
  BY <1>2, <1>3 DEF HashesOf
<1> QED
  BY <1>1, <1>4, InHashes DEF Traffic

\* A rewrite of the header alone: counting the hop, and handing on.
LEMMA HeaderRewritten ==
  ASSUME NEW p \in Traffic, NEW id \in NextHops
  PROVE  \A q \in {Bumped(p), ReplaceTransportId(p, id), StripTransportIdToHeader1(p)} \cup
                  {OriginatorToHeader2(p, k) : k \in Id} :
           q \in Traffic /\ HashablePart(q) = HashablePart(p) /\ q.type = p.type
<1>1. p \in Packets /\ HashablePart(p) \in Hashes
  BY DEF Traffic
<1>2. Bumped(p) \in Packets /\ HashablePart(Bumped(p)) = HashablePart(p) /\ Bumped(p).type = p.type
  BY <1>1 DEF Bumped, Packets, MaxHops, HashablePart
<1>3. LET q == ReplaceTransportId(p, id)
      IN  q \in Packets /\ HashablePart(q) = HashablePart(p) /\ q.type = p.type
  BY <1>1 DEF ReplaceTransportId, Packets, HashablePart, NextHops
<1>4. LET q == StripTransportIdToHeader1(p)
      IN  q \in Packets /\ HashablePart(q) = HashablePart(p) /\ q.type = p.type
  BY <1>1 DEF StripTransportIdToHeader1, Packets, HashablePart
<1>5. ASSUME NEW k \in Id
      PROVE  LET q == OriginatorToHeader2(p, k)
             IN  q \in Packets /\ HashablePart(q) = HashablePart(p) /\ q.type = p.type
  BY <1>1 DEF OriginatorToHeader2, Packets, HashablePart
<1> QED
  BY <1>1, <1>2, <1>3, <1>4, <1>5 DEF Traffic

LEMMA HashesOfTraffic ==
  ASSUME NEW p \in Traffic
  PROVE  \E w \in Spoken :
           /\ w \in Packets
           /\ p.type = w.type /\ p.dtype = w.dtype /\ p.dest = w.dest
           /\ p.ctx \in ContextsOf(w) /\ p.body \in BodiesOf(w)
<1>1. PICK w \in Spoken : HashablePart(p) \in HashesOf(w)
  BY InHashes DEF Traffic
<1>2. w \in Packets
  BY SpokenIsTraffic DEF Traffic
<1>3. PICK c \in ContextsOf(w), b \in BodiesOf(w) : HashablePart(p) = Recorded(w, c, b)
  BY <1>1 DEF HashesOf
<1>4. /\ p.type = w.type /\ p.dtype = w.dtype /\ p.dest = w.dest
      /\ p.ctx = c /\ p.body = b
  BY <1>3 DEF HashablePart, Recorded
<1> QED
  BY <1>2, <1>4

\* An announce is answered with as a path response.
LEMMA AnsweredWith ==
  ASSUME NEW p \in Announces
  PROVE  [p EXCEPT !.ctx = "PATH_RESPONSE"] \in Announces
<1> DEFINE q == [p EXCEPT !.ctx = "PATH_RESPONSE"]
<1>1. PICK w \in Spoken : /\ w \in Packets
                          /\ p.type = w.type /\ p.dtype = w.dtype /\ p.dest = w.dest
                          /\ p.body \in BodiesOf(w)
  BY HashesOfTraffic DEF Announces
<1>2. /\ p \in Packets /\ p.type = "ANNOUNCE"
  BY DEF Announces, Traffic
<1>3. "PATH_RESPONSE" \in ContextsOf(w)
  BY <1>1, <1>2 DEF ContextsOf
<1>4. q \in Packets /\ q.type = "ANNOUNCE"
  BY <1>2 DEF Packets, Context
<1>5. HashablePart(q) = Recorded(w, "PATH_RESPONSE", p.body)
  BY <1>1, <1>2 DEF HashablePart, Packets, Recorded
<1>6. HashablePart(q) \in HashesOf(w)
  BY <1>1, <1>3, <1>5 DEF HashesOf
<1> QED
  BY <1>4, <1>6, InHashes DEF Announces, Traffic

\* The MTU of a link request is clamped, for the second time perhaps.
LEMMA Clamped ==
  ASSUME NEW p \in Traffic, NEW i \in Iface
  PROVE  ClampSignalling(p, HwMtu[i]) \in Traffic
<1> DEFINE b == [p.body EXCEPT !.mtu = HwMtu[i]]
           q == [p EXCEPT !.body = b]
<1>1. CASE p.body \in LinkRequestBody /\ p.body.signalling /\ p.body.mtu > HwMtu[i]
  <2>1. PICK w \in Spoken : /\ w \in Packets
                            /\ p.type = w.type /\ p.dtype = w.dtype /\ p.dest = w.dest
                            /\ p.ctx \in ContextsOf(w) /\ p.body \in BodiesOf(w)
    BY HashesOfTraffic
  <2>2. b \in BodiesOf(w)
    <3>1. CASE p.body = w.body
      BY <1>1, <3>1 DEF BodiesOf
    <3>2. CASE p.body # w.body
      <4>1. w.body \in LinkRequestBody
        BY <2>1, <3>2 DEF BodiesOf
      <4>2. PICK j \in Iface : p.body = [w.body EXCEPT !.mtu = HwMtu[j]]
        BY <2>1, <3>2, <4>1 DEF BodiesOf
      <4>3. b = [w.body EXCEPT !.mtu = HwMtu[i]]
        BY <4>1, <4>2 DEF LinkRequestBody
      <4> QED
        BY <4>1, <4>3 DEF BodiesOf
    <3> QED
      BY <3>1, <3>2
  <2>3. b \in LinkRequestBody
    BY <1>1 DEF LinkRequestBody
  <2>4. p \in Packets
    BY DEF Traffic
  <2>5. q \in Packets
    BY <2>3, <2>4 DEF Packets, Body
  <2> HIDE DEF b
  <2>6. HashablePart(q) = Recorded(w, p.ctx, b)
    BY <2>1, <2>4 DEF HashablePart, Packets, Recorded
  <2>7. HashablePart(q) \in HashesOf(w)
    BY <2>1, <2>2, <2>6 DEF HashesOf
  <2>8. ClampSignalling(p, HwMtu[i]) = q
    BY <1>1 DEF ClampSignalling, b
  <2> QED
    BY <2>5, <2>7, <2>8, InHashes DEF Traffic
<1>2. CASE ~(p.body \in LinkRequestBody /\ p.body.signalling /\ p.body.mtu > HwMtu[i])
  BY <1>2 DEF ClampSignalling
<1> QED
  BY <1>1, <1>2

-----------------------------------------------------------------------------
(* A ring with room for all hashes *)

LEMMA DistinctStations ==
  RelayA # RelayB
<1> SUFFICES ASSUME RelayA = RelayB
             PROVE  FALSE
  OBVIOUS
<1>1. Station = ({RelayA} \cup {Origin}) \cup {Client}
  BY DEF Station, End
<1>2. IsFiniteSet({RelayA}) /\ Cardinality({RelayA}) = 1
  BY FS_Singleton
<1>3. /\ IsFiniteSet({RelayA} \cup {Origin})
      /\ Cardinality({RelayA} \cup {Origin}) \in 1 .. 2
  BY <1>2, FS_AddElement
<1>4. \/ Cardinality(Station) = Cardinality({RelayA} \cup {Origin})
      \/ Cardinality(Station) = Cardinality({RelayA} \cup {Origin}) + 1
  <2> DEFINE S == {RelayA} \cup {Origin}
  <2>1. IsFiniteSet(S)
    BY <1>3
  <2> HIDE DEF S
  <2>2. Cardinality(S \cup {Client}) =
          IF Client \in S THEN Cardinality(S) ELSE Cardinality(S) + 1
    BY <2>1, FS_AddElement
  <2> QED
    BY <1>1, <2>2 DEF S
<1> QED
  BY <1>3, <1>4

\* A sequence of different hashes is no longer than there are hashes.
LEMMA NeverPurged ==
  ASSUME NothingForgotten, NEW ring \in RingsOf(Hashes), Sound(ring)
  PROVE  Len(ring.order) <= HashlistMax
<1>1. PICK n \in Nat : n = Len(ring.order)
  BY DEF RingsOf
<1>2. PICK o \in Seq(Hashes) : o = ring.order
  BY DEF RingsOf
<1>3. o \in [1 .. n -> Hashes]
  BY <1>1, <1>2
<1>4. o \in Injection(1 .. n, Hashes)
  BY <1>1, <1>2, <1>3 DEF Sound, Injection, IsInjective
<1>5. IsFiniteSet(1 .. n) /\ Cardinality(1 .. n) = n
  BY FS_Interval
<1>6. n <= Cardinality(Hashes)
  BY <1>4, <1>5, FS_Injection DEF NothingForgotten
<1>7. Cardinality(Hashes) \in Nat
  BY FS_CardinalityType DEF NothingForgotten
<1> QED
  BY <1>1, <1>6, <1>7 DEF NothingForgotten

-----------------------------------------------------------------------------
(* What a relay holds, and what it sends *)

\* A route, of which only the window of blobs and the expiry are free.
IsRoute(r) ==
  /\ r = [hops |-> r.hops, nextHop |-> r.nextHop, iface |-> r.iface,
          expires |-> r.expires, blobs |-> r.blobs, wire |-> r.wire]
  /\ r.nextHop \in NextHops /\ r.iface \in Iface /\ r.wire \in Announces

\* Routes and pending rebroadcasts hold announces of the channel.
Held(paths, announces) ==
  /\ \A d \in DOMAIN paths : IsRoute(paths[d])
  /\ \A d \in DOMAIN announces : announces[d].wire \in Announces

\* What is sent is traffic, and DATA forwarded has the hash h.
Sends(out, h) ==
  \A e \in out : /\ e.wire \in Traffic
                 /\ e.kind = "DataForward" => HashablePart(e.wire) = h

LEMMA SendsNothing == \A h : Sends({}, h)
BY DEF Sends

-----------------------------------------------------------------------------
(* Relay A *)

LEMMA RelayFormA ==
  ASSUME NEW p \in Announces
  PROVE  A!RelayForm(p) \in Announces
<1>1. A!RelayForm(p) \in {ReplaceTransportId(p, RelayA), OriginatorToHeader2(p, RelayA)}
  BY DEF A!RelayForm, A!ReplaceTransportId, A!OriginatorToHeader2, ReplaceTransportId,
         OriginatorToHeader2
<1>2. RelayA \in NextHops /\ p \in Traffic
  BY DEF NextHops, Announces
<1> QED
  BY <1>1, <1>2, HeaderRewritten DEF Announces

LEMMA RelayedA ==
  ASSUME NEW p \in Traffic, NEW r, IsRoute(r)
  PROVE  /\ A!Relayed(p, r) \in Traffic
         /\ HashablePart(A!Relayed(p, r)) = HashablePart(p)
<1>1. A!Relayed(p, r) \in {ReplaceTransportId(p, r.nextHop), StripTransportIdToHeader1(p)}
  BY DEF A!Relayed, A!ReplaceTransportId, A!StripTransportIdToHeader1, ReplaceTransportId,
         StripTransportIdToHeader1
<1>2. r.nextHop \in NextHops
  BY DEF IsRoute
<1> QED
  BY <1>1, <1>2, HeaderRewritten

LEMMA RouteAfterA ==
  ASSUME Held(pathsA, announcesA), NEW i \in Iface, NEW p \in Announces
  PROVE  IsRoute(A!RouteAfter(i, p))
<1>1. CASE A!Replaces(p)
  <2> DEFINE r == [hops |-> p.hops, nextHop |-> IF p.hdr = 2 THEN p.tid ELSE NoId,
                   iface |-> i, expires |-> now + PathLife,
                   blobs |-> A!NoteBlob(A!BlobsOf(p.dest), p.body.blob),
                   wire |-> A!RelayForm(p)]
  <2>1. A!RouteAfter(i, p) = r
    BY <1>1 DEF A!RouteAfter
  <2>2. r.nextHop \in NextHops
    BY DEF NextHops, Announces, Traffic, Packets
  <2> QED
    BY <2>1, <2>2, RelayFormA DEF IsRoute
<1>2. CASE ~A!Replaces(p)
  <2> DEFINE r == pathsA[p.dest]
  <2>1. p.dest \in DOMAIN pathsA
    BY <1>2 DEF A!Replaces
  <2>2. IsRoute(r)
    BY <2>1 DEF Held
  <2>3. PICK b : A!RouteAfter(i, p) = [r EXCEPT !.blobs = b]
    BY <1>2 DEF A!RouteAfter
  <2> HIDE DEF r
  <2> QED
    BY <2>2, <2>3 DEF IsRoute
<1> QED
  BY <1>1, <1>2

\* Whatever handler runs: what is held stays so, and what is sent is fine.
LEMMA HandleA ==
  ASSUME Held(pathsA, announcesA), NEW i \in Iface, NEW p \in Traffic, A!Handle(i, p)
  PROVE  Held(pathsA', announcesA') /\ Sends(outA', HashablePart(p))
<1>1. CASE A!AcceptAnnounce(i, p)
  <2>1. p \in Announces
    BY <1>1 DEF A!AcceptAnnounce, A!IsAnnounce, Announces
  <2>2. \A d \in DOMAIN pathsA' : IsRoute(pathsA'[d])
    BY <1>1, <2>1, RouteAfterA DEF A!AcceptAnnounce, A!Put, Held
  <2>3. \A d \in DOMAIN announcesA' : announcesA'[d].wire \in Announces
    BY <1>1, <2>1, RelayFormA DEF A!AcceptAnnounce, A!Put, Held
  <2> QED
    BY <1>1, <2>2, <2>3, SendsNothing DEF A!AcceptAnnounce, Held
<1>2. CASE \/ A!RejectAnnounce(p) \/ A!LeavePathRequest(i, p) \/ A!LeaveData(p)
           \/ A!LeaveProof(i, p) \/ A!LeaveLinkRequest(p) \/ A!LeaveLinkProof(i, p)
           \/ A!LeaveLinkData(i, p)
  BY <1>2, SendsNothing
     DEF A!RejectAnnounce, A!LeavePathRequest, A!LeaveData, A!LeaveProof,
         A!LeaveLinkRequest, A!LeaveLinkProof, A!LeaveLinkData, A!tables, Held
<1>3. CASE A!AnswerForLocal(i, p)
  BY <1>3 DEF A!AnswerForLocal
<1>4. CASE A!AnswerFromPath(i, p)
  <2>1. /\ UNCHANGED <<pathsA, announcesA>>
        /\ p.body.target \in DOMAIN pathsA
        /\ outA' = {A!Emit(i, "PathResponse", A!PathResponse(p.body.target))}
    BY <1>4 DEF A!AnswerFromPath, A!AnswerableFromPath
  <2>2. A!PathResponse(p.body.target) \in Traffic
    <3>1. pathsA[p.body.target].wire \in Announces
      BY <2>1 DEF Held, IsRoute
    <3>2. A!PathResponse(p.body.target) \in Announces
      BY <3>1, AnsweredWith DEF A!PathResponse
    <3> QED
      BY <3>2 DEF Announces
  <2> QED
    BY <2>1, <2>2 DEF Held, Sends, A!Emit
<1>5. CASE A!ForwardPathRequest(i, p)
  BY <1>5 DEF A!ForwardPathRequest, A!Emit, Held, Sends
<1>6. CASE A!ForwardData(i, p)
  <2> DEFINE r == pathsA[p.dest]
  <2>1. /\ UNCHANGED <<pathsA, announcesA>>
        /\ p.dest \in DOMAIN pathsA
        /\ outA' = {A!Emit(r.iface, "DataForward", A!Relayed(p, r))}
    BY <1>6 DEF A!ForwardData, A!OursToRelay
  <2>2. IsRoute(r)
    BY <2>1 DEF Held
  <2>3. A!Relayed(p, r) \in Traffic /\ HashablePart(A!Relayed(p, r)) = HashablePart(p)
    BY <2>2, RelayedA
  <2> QED
    BY <2>1, <2>3 DEF Held, Sends, A!Emit
<1>7. CASE A!ForwardLinkRequest(i, p)
  <2> DEFINE r == pathsA[p.dest]
             q == ClampSignalling(A!Relayed(p, r), HwMtu[r.iface])
  <2>1. /\ UNCHANGED <<pathsA, announcesA>>
        /\ p.dest \in DOMAIN pathsA
        /\ outA' = {A!Emit(r.iface, "LinkForward",
                           A!ClampSignalling(A!Relayed(p, r), HwMtu[r.iface]))}
    BY <1>7 DEF A!ForwardLinkRequest, A!OursToRelay
  <2>2. IsRoute(r)
    BY <2>1 DEF Held
  <2>3. q \in Traffic
    BY <2>2, RelayedA, Clamped DEF IsRoute
  <2>4. A!ClampSignalling(A!Relayed(p, r), HwMtu[r.iface]) = q
    BY DEF A!ClampSignalling, ClampSignalling, A!LinkRequestBody, LinkRequestBody
  <2> HIDE DEF q, r
  <2> QED
    BY <2>1, <2>3, <2>4 DEF Held, Sends, A!Emit
<1>8. CASE A!ForwardProof(i, p) \/ A!ForwardLinkProof(i, p) \/ A!ForwardLinkData(i, p)
  BY <1>8 DEF A!ForwardProof, A!ForwardLinkProof, A!ForwardLinkData, A!Emit, Held, Sends
<1> QED
  BY <1>1, <1>2, <1>3, <1>4, <1>5, <1>6, <1>7, <1>8 DEF A!Handle

-----------------------------------------------------------------------------
(* Relay B *)

LEMMA RelayFormB ==
  ASSUME NEW p \in Announces
  PROVE  B!RelayForm(p) \in Announces
<1>1. B!RelayForm(p) \in {ReplaceTransportId(p, RelayB), OriginatorToHeader2(p, RelayB)}
  BY DEF B!RelayForm, B!ReplaceTransportId, B!OriginatorToHeader2, ReplaceTransportId,
         OriginatorToHeader2
<1>2. RelayB \in NextHops /\ p \in Traffic
  BY DEF NextHops, Announces
<1> QED
  BY <1>1, <1>2, HeaderRewritten DEF Announces

LEMMA RelayedB ==
  ASSUME NEW p \in Traffic, NEW r, IsRoute(r)
  PROVE  /\ B!Relayed(p, r) \in Traffic
         /\ HashablePart(B!Relayed(p, r)) = HashablePart(p)
<1>1. B!Relayed(p, r) \in {ReplaceTransportId(p, r.nextHop), StripTransportIdToHeader1(p)}
  BY DEF B!Relayed, B!ReplaceTransportId, B!StripTransportIdToHeader1, ReplaceTransportId,
         StripTransportIdToHeader1
<1>2. r.nextHop \in NextHops
  BY DEF IsRoute
<1> QED
  BY <1>1, <1>2, HeaderRewritten

LEMMA RouteAfterB ==
  ASSUME Held(pathsB, announcesB), NEW i \in Iface, NEW p \in Announces
  PROVE  IsRoute(B!RouteAfter(i, p))
<1>1. CASE B!Replaces(p)
  <2> DEFINE r == [hops |-> p.hops, nextHop |-> IF p.hdr = 2 THEN p.tid ELSE NoId,
                   iface |-> i, expires |-> now + PathLife,
                   blobs |-> B!NoteBlob(B!BlobsOf(p.dest), p.body.blob),
                   wire |-> B!RelayForm(p)]
  <2>1. B!RouteAfter(i, p) = r
    BY <1>1 DEF B!RouteAfter
  <2>2. r.nextHop \in NextHops
    BY DEF NextHops, Announces, Traffic, Packets
  <2> QED
    BY <2>1, <2>2, RelayFormB DEF IsRoute
<1>2. CASE ~B!Replaces(p)
  <2> DEFINE r == pathsB[p.dest]
  <2>1. p.dest \in DOMAIN pathsB
    BY <1>2 DEF B!Replaces
  <2>2. IsRoute(r)
    BY <2>1 DEF Held
  <2>3. PICK b : B!RouteAfter(i, p) = [r EXCEPT !.blobs = b]
    BY <1>2 DEF B!RouteAfter
  <2> HIDE DEF r
  <2> QED
    BY <2>2, <2>3 DEF IsRoute
<1> QED
  BY <1>1, <1>2

\* Whatever handler runs: what is held stays so, and what is sent is fine.
LEMMA HandleB ==
  ASSUME Held(pathsB, announcesB), NEW i \in Iface, NEW p \in Traffic, B!Handle(i, p)
  PROVE  Held(pathsB', announcesB') /\ Sends(outB', HashablePart(p))
<1>1. CASE B!AcceptAnnounce(i, p)
  <2>1. p \in Announces
    BY <1>1 DEF B!AcceptAnnounce, B!IsAnnounce, Announces
  <2>2. \A d \in DOMAIN pathsB' : IsRoute(pathsB'[d])
    BY <1>1, <2>1, RouteAfterB DEF B!AcceptAnnounce, B!Put, Held
  <2>3. \A d \in DOMAIN announcesB' : announcesB'[d].wire \in Announces
    BY <1>1, <2>1, RelayFormB DEF B!AcceptAnnounce, B!Put, Held
  <2> QED
    BY <1>1, <2>2, <2>3, SendsNothing DEF B!AcceptAnnounce, Held
<1>2. CASE \/ B!RejectAnnounce(p) \/ B!LeavePathRequest(i, p) \/ B!LeaveData(p)
           \/ B!LeaveProof(i, p) \/ B!LeaveLinkRequest(p) \/ B!LeaveLinkProof(i, p)
           \/ B!LeaveLinkData(i, p)
  BY <1>2, SendsNothing
     DEF B!RejectAnnounce, B!LeavePathRequest, B!LeaveData, B!LeaveProof,
         B!LeaveLinkRequest, B!LeaveLinkProof, B!LeaveLinkData, B!tables, Held
<1>3. CASE B!AnswerForLocal(i, p)
  BY <1>3 DEF B!AnswerForLocal
<1>4. CASE B!AnswerFromPath(i, p)
  <2>1. /\ UNCHANGED <<pathsB, announcesB>>
        /\ p.body.target \in DOMAIN pathsB
        /\ outB' = {B!Emit(i, "PathResponse", B!PathResponse(p.body.target))}
    BY <1>4 DEF B!AnswerFromPath, B!AnswerableFromPath
  <2>2. B!PathResponse(p.body.target) \in Traffic
    <3>1. pathsB[p.body.target].wire \in Announces
      BY <2>1 DEF Held, IsRoute
    <3>2. B!PathResponse(p.body.target) \in Announces
      BY <3>1, AnsweredWith DEF B!PathResponse
    <3> QED
      BY <3>2 DEF Announces
  <2> QED
    BY <2>1, <2>2 DEF Held, Sends, B!Emit
<1>5. CASE B!ForwardPathRequest(i, p)
  BY <1>5 DEF B!ForwardPathRequest, B!Emit, Held, Sends
<1>6. CASE B!ForwardData(i, p)
  <2> DEFINE r == pathsB[p.dest]
  <2>1. /\ UNCHANGED <<pathsB, announcesB>>
        /\ p.dest \in DOMAIN pathsB
        /\ outB' = {B!Emit(r.iface, "DataForward", B!Relayed(p, r))}
    BY <1>6 DEF B!ForwardData, B!OursToRelay
  <2>2. IsRoute(r)
    BY <2>1 DEF Held
  <2>3. B!Relayed(p, r) \in Traffic /\ HashablePart(B!Relayed(p, r)) = HashablePart(p)
    BY <2>2, RelayedB
  <2> QED
    BY <2>1, <2>3 DEF Held, Sends, B!Emit
<1>7. CASE B!ForwardLinkRequest(i, p)
  <2> DEFINE r == pathsB[p.dest]
             q == ClampSignalling(B!Relayed(p, r), HwMtu[r.iface])
  <2>1. /\ UNCHANGED <<pathsB, announcesB>>
        /\ p.dest \in DOMAIN pathsB
        /\ outB' = {B!Emit(r.iface, "LinkForward",
                           B!ClampSignalling(B!Relayed(p, r), HwMtu[r.iface]))}
    BY <1>7 DEF B!ForwardLinkRequest, B!OursToRelay
  <2>2. IsRoute(r)
    BY <2>1 DEF Held
  <2>3. q \in Traffic
    BY <2>2, RelayedB, Clamped DEF IsRoute
  <2>4. B!ClampSignalling(B!Relayed(p, r), HwMtu[r.iface]) = q
    BY DEF B!ClampSignalling, ClampSignalling, B!LinkRequestBody, LinkRequestBody
  <2> HIDE DEF q, r
  <2> QED
    BY <2>1, <2>3, <2>4 DEF Held, Sends, B!Emit
<1>8. CASE B!ForwardProof(i, p) \/ B!ForwardLinkProof(i, p) \/ B!ForwardLinkData(i, p)
  BY <1>8 DEF B!ForwardProof, B!ForwardLinkProof, B!ForwardLinkData, B!Emit, Held, Sends
<1> QED
  BY <1>1, <1>2, <1>3, <1>4, <1>5, <1>6, <1>7, <1>8 DEF B!Handle

-----------------------------------------------------------------------------
(* The inductive invariant *)

\* A ring of hashes of the channel's packets, none of them twice.
Recording(ring) == ring \in RingsOf(Hashes) /\ Sound(ring)

\* What a relay forwarded since it booted is in its ring.
Remembered(relay, ring) ==
  \A f \in forwarded : f[1] = relay => Contains(ring, f[2])

OnAir == inbox \in [Station -> SUBSET Traffic]

IInv ==
  /\ OnAir
  /\ Held(pathsA, announcesA) /\ Recording(hashlistA) /\ Remembered(RelayA, hashlistA)
  /\ Held(pathsB, announcesB) /\ Recording(hashlistB) /\ Remembered(RelayB, hashlistB)

LEMMA TransmittedOnAir ==
  ASSUME OnAir, NEW s, NEW wires \in SUBSET Traffic, NEW taken
  PROVE  Transmitted(s, wires, taken) \in [Station -> SUBSET Traffic]
BY DEF OnAir, Transmitted, Heeded

\* Nobody can hear what is not on the channel, and hops are only counted.
LEMMA HeardIsTraffic ==
  ASSUME OnAir, NEW s \in Station, NEW w \in inbox[s]
  PROVE  w \in Traffic /\ Bumped(w) \in Traffic
<1>1. w \in Traffic
  BY DEF OnAir
<1> QED
  BY <1>1, HeaderRewritten DEF NextHops

-----------------------------------------------------------------------------
(* The steps of relay A *)

RelaysA == Held(pathsA, announcesA) /\ Recording(hashlistA) /\ Remembered(RelayA, hashlistA)

\* A packet is handled under a hash that is recorded first and was not there.
LEMMA HearStepA ==
  ASSUME OnAir, RelaysA, NEW w \in inbox[RelayA], HearA(w)
  PROVE  /\ OnAir' /\ RelaysA'
         /\ DataOf(RelayA, outA') \cap forwarded = {}
         /\ \A f \in forwarded' \ forwarded : f[1] = RelayA
<1> DEFINE h == HashablePart(Bumped(w))
<1>1. RelayA \in Station
  BY DEF Station
<1>2. Bumped(w) \in Traffic /\ h \in Hashes
  BY <1>1, HeardIsTraffic DEF Traffic
<1>3. A!Bumped(w) = Bumped(w) /\ A!HashablePart(Bumped(w)) = h
  BY DEF A!Bumped, Bumped, A!HashablePart, HashablePart, A!MaxHops, MaxHops
<1> HIDE DEF h
<1>4. /\ ~Contains(hashlistA, h)
      /\ hashlistA' = A!RingInsert(hashlistA, h)
      /\ \E i \in Iface : A!Handle(i, Bumped(w))
  BY <1>3 DEF HearA, A!Inbound, A!SeenBefore, A!Contains, Contains
<1>5. Held(pathsA', announcesA') /\ Sends(outA', h)
  BY <1>2, <1>4, HandleA DEF RelaysA, h
<1>6. hashlistA' = RingInsert(hashlistA, h)
  BY <1>4 DEF A!RingInsert, RingInsert, A!Contains, Contains
<1>7. Recording(hashlistA') /\ hashlistA'.seen = hashlistA.seen \cup {h}
  BY <1>2, <1>4, <1>6, RingInsertType, InsertSound DEF RelaysA, Recording
<1>8. \A f \in DataOf(RelayA, outA') : f = <<RelayA, h>>
  BY <1>5 DEF DataOf, Sends
<1>9. DataOf(RelayA, outA') \cap forwarded = {}
  BY <1>4, <1>8 DEF RelaysA, Remembered
<1>10. forwarded' = forwarded \cup DataOf(RelayA, outA')
  BY DEF HearA
<1>11. Remembered(RelayA, hashlistA)' /\ \A f \in forwarded' \ forwarded : f[1] = RelayA
  BY <1>7, <1>8, <1>10 DEF RelaysA, Remembered, Contains
<1>12. OnAir'
  <2>1. WiresOf(outA') \subseteq Traffic
    BY <1>5 DEF WiresOf, Sends
  <2> QED
    BY <2>1, TransmittedOnAir DEF HearA, OnAir
<1> QED
  BY <1>5, <1>7, <1>9, <1>11, <1>12 DEF RelaysA, Recording

\* A tick drops entries, sends held announces, and has nothing to purge.
LEMMA TickStepA ==
  ASSUME NothingForgotten, OnAir, RelaysA, TickA
  PROVE  OnAir' /\ RelaysA' /\ forwarded' = forwarded
<1>1. Held(pathsA', announcesA')
  BY DEF RelaysA, TickA, A!Tick, A!Without, Held
<1>2. WiresOf(outA') \subseteq Traffic
  <2>1. outA' \subseteq A!RebroadcastAll
    BY DEF TickA, A!Tick, A!Announcing, A!DueSchedules, NoSchedule
  <2>2. \A e \in A!RebroadcastAll : e.wire \in Traffic
    BY DEF RelaysA, Held, A!RebroadcastAll, A!DueAnnounces, A!Emit, Announces
  <2> QED
    BY <2>1, <2>2 DEF WiresOf
<1>3. OnAir'
  BY <1>2, TransmittedOnAir DEF TickA, OnAir
<1>4. hashlistA' = hashlistA
  <2>1. Len(hashlistA.order) <= HashlistMax
    BY NeverPurged DEF RelaysA, Recording
  <2> QED
    BY <2>1 DEF TickA, A!Tick, A!RingPurge
<1> QED
  BY <1>1, <1>3, <1>4 DEF TickA, RelaysA, Remembered

LEMMA RebootStepA ==
  ASSUME RelaysA, RebootA
  PROVE  RelaysA' /\ \A f \in forwarded' : f \in forwarded /\ f[1] # RelayA
<1>1. Held(pathsA', announcesA')
  BY DEF RebootA, A!EmptyTable, Held
<1>2. hashlistA' = EmptyRing
  BY DEF RebootA, A!EmptyRing, EmptyRing
<1>3. Recording(hashlistA')
  BY <1>2, EmptyRingType DEF Recording, Sound, EmptyRing
<1>4. \A f \in forwarded' : f \in forwarded /\ f[1] # RelayA
  BY DEF RebootA
<1> QED
  BY <1>1, <1>3, <1>4 DEF RelaysA, Recording, Remembered

LEMMA DropStepA ==
  ASSUME OnAir, NEW w, DropA(w)
  PROVE  OnAir' /\ UNCHANGED <<pathsA, announcesA, hashlistA, forwarded>>
BY TransmittedOnAir DEF DropA, A!DropDuplicate, A!tables, OnAir

-----------------------------------------------------------------------------
(* The steps of relay B *)

RelaysB == Held(pathsB, announcesB) /\ Recording(hashlistB) /\ Remembered(RelayB, hashlistB)

\* A packet is handled under a hash that is recorded first and was not there.
LEMMA HearStepB ==
  ASSUME OnAir, RelaysB, NEW w \in inbox[RelayB], HearB(w)
  PROVE  /\ OnAir' /\ RelaysB'
         /\ DataOf(RelayB, outB') \cap forwarded = {}
         /\ \A f \in forwarded' \ forwarded : f[1] = RelayB
<1> DEFINE h == HashablePart(Bumped(w))
<1>1. RelayB \in Station
  BY DEF Station
<1>2. Bumped(w) \in Traffic /\ h \in Hashes
  BY <1>1, HeardIsTraffic DEF Traffic
<1>3. B!Bumped(w) = Bumped(w) /\ B!HashablePart(Bumped(w)) = h
  BY DEF B!Bumped, Bumped, B!HashablePart, HashablePart, B!MaxHops, MaxHops
<1> HIDE DEF h
<1>4. /\ ~Contains(hashlistB, h)
      /\ hashlistB' = B!RingInsert(hashlistB, h)
      /\ \E i \in Iface : B!Handle(i, Bumped(w))
  BY <1>3 DEF HearB, B!Inbound, B!SeenBefore, B!Contains, Contains
<1>5. Held(pathsB', announcesB') /\ Sends(outB', h)
  BY <1>2, <1>4, HandleB DEF RelaysB, h
<1>6. hashlistB' = RingInsert(hashlistB, h)
  BY <1>4 DEF B!RingInsert, RingInsert, B!Contains, Contains
<1>7. Recording(hashlistB') /\ hashlistB'.seen = hashlistB.seen \cup {h}
  BY <1>2, <1>4, <1>6, RingInsertType, InsertSound DEF RelaysB, Recording
<1>8. \A f \in DataOf(RelayB, outB') : f = <<RelayB, h>>
  BY <1>5 DEF DataOf, Sends
<1>9. DataOf(RelayB, outB') \cap forwarded = {}
  BY <1>4, <1>8 DEF RelaysB, Remembered
<1>10. forwarded' = forwarded \cup DataOf(RelayB, outB')
  BY DEF HearB
<1>11. Remembered(RelayB, hashlistB)' /\ \A f \in forwarded' \ forwarded : f[1] = RelayB
  BY <1>7, <1>8, <1>10 DEF RelaysB, Remembered, Contains
<1>12. OnAir'
  <2>1. WiresOf(outB') \subseteq Traffic
    BY <1>5 DEF WiresOf, Sends
  <2> QED
    BY <2>1, TransmittedOnAir DEF HearB, OnAir
<1> QED
  BY <1>5, <1>7, <1>9, <1>11, <1>12 DEF RelaysB, Recording

\* A tick drops entries, sends held announces, and has nothing to purge.
LEMMA TickStepB ==
  ASSUME NothingForgotten, OnAir, RelaysB, TickB
  PROVE  OnAir' /\ RelaysB' /\ forwarded' = forwarded
<1>1. Held(pathsB', announcesB')
  BY DEF RelaysB, TickB, B!Tick, B!Without, Held
<1>2. WiresOf(outB') \subseteq Traffic
  <2>1. outB' \subseteq B!RebroadcastAll
    BY DEF TickB, B!Tick, B!Announcing, B!DueSchedules, NoSchedule
  <2>2. \A e \in B!RebroadcastAll : e.wire \in Traffic
    BY DEF RelaysB, Held, B!RebroadcastAll, B!DueAnnounces, B!Emit, Announces
  <2> QED
    BY <2>1, <2>2 DEF WiresOf
<1>3. OnAir'
  BY <1>2, TransmittedOnAir DEF TickB, OnAir
<1>4. hashlistB' = hashlistB
  <2>1. Len(hashlistB.order) <= HashlistMax
    BY NeverPurged DEF RelaysB, Recording
  <2> QED
    BY <2>1 DEF TickB, B!Tick, B!RingPurge
<1> QED
  BY <1>1, <1>3, <1>4 DEF TickB, RelaysB, Remembered

LEMMA RebootStepB ==
  ASSUME RelaysB, RebootB
  PROVE  RelaysB' /\ \A f \in forwarded' : f \in forwarded /\ f[1] # RelayB
<1>1. Held(pathsB', announcesB')
  BY DEF RebootB, B!EmptyTable, Held
<1>2. hashlistB' = EmptyRing
  BY DEF RebootB, B!EmptyRing, EmptyRing
<1>3. Recording(hashlistB')
  BY <1>2, EmptyRingType DEF Recording, Sound, EmptyRing
<1>4. \A f \in forwarded' : f \in forwarded /\ f[1] # RelayB
  BY DEF RebootB
<1> QED
  BY <1>1, <1>3, <1>4 DEF RelaysB, Recording, Remembered

LEMMA DropStepB ==
  ASSUME OnAir, NEW w, DropB(w)
  PROVE  OnAir' /\ UNCHANGED <<pathsB, announcesB, hashlistB, forwarded>>
BY TransmittedOnAir DEF DropB, B!DropDuplicate, B!tables, OnAir

-----------------------------------------------------------------------------
(* The theorem *)

LEMMA StepOfOther ==
  /\ \A w : HearA(w) => UNCHANGED <<pathsB, announcesB, hashlistB>>
  /\ \A w : HearB(w) => UNCHANGED <<pathsA, announcesA, hashlistA>>
  /\ \A w : DropA(w) => UNCHANGED <<pathsB, announcesB, hashlistB>>
  /\ \A w : DropB(w) => UNCHANGED <<pathsA, announcesA, hashlistA>>
  /\ TickA \/ RebootA => UNCHANGED <<pathsB, announcesB, hashlistB>>
  /\ TickB \/ RebootB => UNCHANGED <<pathsA, announcesA, hashlistA>>
BY DEF HearA, HearB, DropA, DropB, TickA, TickB, RebootA, RebootB, nodeA, nodeB

LEMMA IInvParts == IInv <=> OnAir /\ RelaysA /\ RelaysB
BY DEF IInv, RelaysA, RelaysB

LEMMA IInvInit == Init => IInv
<1> SUFFICES ASSUME Init
             PROVE  IInv
  OBVIOUS
<1>1. OnAir /\ forwarded = {}
  BY DEF Init, OnAir
<1>2. /\ pathsA = A!EmptyTable /\ announcesA = A!EmptyTable /\ hashlistA = EmptyRing
      /\ pathsB = B!EmptyTable /\ announcesB = B!EmptyTable /\ hashlistB = EmptyRing
  BY DEF Init, A!Init, B!Init, A!EmptyRing, B!EmptyRing, EmptyRing
<1>3. Held(pathsA, announcesA) /\ Held(pathsB, announcesB)
  BY <1>2 DEF Held, A!EmptyTable, B!EmptyTable
<1>4. Recording(EmptyRing)
  BY EmptyRingType DEF Recording, Sound, EmptyRing
<1> QED
  BY <1>1, <1>2, <1>3, <1>4 DEF IInv, Remembered

LEMMA IInvStep ==
  ASSUME NothingForgotten, IInv, [Next]_vars
  PROVE  IInv'
<1> USE IInvParts
<1>1. ASSUME NEW w \in inbox[RelayA] \cup inbox[RelayB], HearA(w)
      PROVE  IInv'
  <2>1. w \in inbox[RelayA]
    BY <1>1 DEF HearA
  <2>2. OnAir' /\ RelaysA' /\ \A f \in forwarded' \ forwarded : f[1] = RelayA
    BY <1>1, <2>1, HearStepA
  <2>3. UNCHANGED <<pathsB, announcesB, hashlistB>>
    BY <1>1, StepOfOther
  <2>4. RelaysB'
    BY <2>2, <2>3, DistinctStations DEF RelaysB, Remembered, Held, Recording
  <2> QED
    BY <2>2, <2>4 DEF IInv, RelaysA, RelaysB
<1>2. ASSUME NEW w \in inbox[RelayA] \cup inbox[RelayB], HearB(w)
      PROVE  IInv'
  <2>1. w \in inbox[RelayB]
    BY <1>2 DEF HearB
  <2>2. OnAir' /\ RelaysB' /\ \A f \in forwarded' \ forwarded : f[1] = RelayB
    BY <1>2, <2>1, HearStepB
  <2>3. UNCHANGED <<pathsA, announcesA, hashlistA>>
    BY <1>2, StepOfOther
  <2>4. RelaysA'
    BY <2>2, <2>3, DistinctStations DEF RelaysA, Remembered, Held, Recording
  <2> QED
    BY <2>2, <2>4 DEF IInv, RelaysA, RelaysB
<1>3. ASSUME NEW w, DropA(w) \/ DropB(w)
      PROVE  IInv'
  BY <1>3, DropStepA, DropStepB, StepOfOther DEF IInv, Remembered, Held, Recording
<1>4. CASE TickA
  BY <1>4, TickStepA, StepOfOther DEF IInv, RelaysA, RelaysB, Remembered, Held, Recording
<1>5. CASE TickB
  BY <1>5, TickStepB, StepOfOther DEF IInv, RelaysA, RelaysB, Remembered, Held, Recording
<1>6. CASE RebootA
  <2>1. RelaysA' /\ \A f \in forwarded' : f \in forwarded
    BY <1>6, RebootStepA
  <2> QED
    BY <1>6, <2>1, StepOfOther
       DEF RebootA, IInv, OnAir, RelaysA, RelaysB, Remembered, Held, Recording
<1>7. CASE RebootB
  <2>1. RelaysB' /\ \A f \in forwarded' : f \in forwarded
    BY <1>7, RebootStepB
  <2> QED
    BY <1>7, <2>1, StepOfOther
       DEF RebootB, IInv, OnAir, RelaysA, RelaysB, Remembered, Held, Recording
<1>8. ASSUME NEW s \in End, NEW w \in Script[s], Say(s, w)
      PROVE  IInv'
  <2>1. w \in Traffic
    BY SpokenIsTraffic DEF Spoken, End
  <2>2. OnAir'
    BY <1>8, <2>1, TransmittedOnAir DEF Say, OnAir
  <2> QED
    BY <1>8, <2>2 DEF Say, nodeA, nodeB, IInv, Remembered, Held, Recording
<1>9. CASE Answer
  <2>1. Receipt \in Traffic
    BY SpokenIsTraffic DEF Spoken
  <2>2. OnAir'
    BY <1>9, <2>1, TransmittedOnAir DEF Answer, OnAir
  <2> QED
    BY <1>9, <2>2 DEF Answer, nodeA, nodeB, IInv, Remembered, Held, Recording
<1>10. ASSUME NEW s \in Station, NEW w \in inbox[s], Lose(s, w)
       PROVE  IInv'
  <2>1. OnAir'
    BY <1>10 DEF Lose, OnAir
  <2> QED
    BY <1>10, <2>1 DEF Lose, nodeA, nodeB, IInv, Remembered, Held, Recording
<1>11. CASE Elapse \/ UNCHANGED vars
  BY <1>11 DEF Elapse, vars, medium, nodeA, nodeB, IInv, OnAir, Remembered, Held, Recording
<1> QED
  BY <1>1, <1>2, <1>3, <1>4, <1>5, <1>6, <1>7, <1>8, <1>9, <1>10, <1>11 DEF Next, Hear

LEMMA IInvHolds ==
  ASSUME NothingForgotten
  PROVE  Spec => []IInv
<1>1. Init => IInv
  BY IInvInit
<1>2. IInv /\ [Next]_vars => IInv'
  BY IInvStep
<1> QED
  BY <1>1, <1>2, PTL DEF Spec

LEMMA ForwardedOnceStep ==
  ASSUME IInv
  PROVE  /\ \A w \in inbox[RelayA] : HearA(w) => DataOf(RelayA, outA') \cap forwarded = {}
         /\ \A w \in inbox[RelayB] : HearB(w) => DataOf(RelayB, outB') \cap forwarded = {}
BY HearStepA, HearStepB, IInvParts

\* However the stations hear each other, whatever is lost, late or expired,
\* and wherever routes lead, no relay forwards a DATA packet twice between
\* two of its boots, given that its ring never fills (Transport.cpp:204).
THEOREM NoDataForwardedTwice ==
  ASSUME NothingForgotten
  PROVE  Spec => ForwardedOnce
<1>1. IInv => [/\ \A w \in inbox[RelayA] : HearA(w) => DataOf(RelayA, outA') \cap forwarded = {}
               /\ \A w \in inbox[RelayB] : HearB(w) => DataOf(RelayB, outB') \cap forwarded = {}]_vars
  BY ForwardedOnceStep
<1> QED
  BY <1>1, IInvHolds, PTL DEF ForwardedOnce, Spec
=============================================================================
