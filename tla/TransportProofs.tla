-------------------------- MODULE TransportProofs ---------------------------
(***************************************************************************)
(* Theorems about Transport, for any interfaces, identities, packets,      *)
(* schedules, timeouts and caps; and, in the last two parts, about what it *)
(* promises of links and about the firmware's loop that drives it.         *)
(***************************************************************************)
EXTENDS RelayLoop, TransportLinks, HashRingProofs

(* What the rewrites of a packet preserve, for every packet. *)

\* A record with its fields one by one: the provers see through EXCEPT.
LEMMA PacketFields ==
  ASSUME NEW p \in Packets
  PROVE  /\ p.type \in PacketType /\ p.hdr \in {1, 2} /\ p.cflag \in BOOLEAN
         /\ p.ttype \in {"BROADCAST", "TRANSPORT"} /\ p.dtype \in DestinationType
         /\ p.hops \in 0 .. MaxHops /\ p.tid \in Id \cup {NoId}
         /\ p.dest \in Addr /\ p.ctx \in Context /\ p.body \in Body
BY DEF Packets

\* Counting a hop keeps a packet a packet: the byte does not overflow.
LEMMA BumpedType ==
  ASSUME NEW p \in Packets
  PROVE  Bumped(p) \in Packets
<1>1. p.hops \in 0 .. MaxHops
  BY DEF Packets
<1>2. (IF p.hops < MaxHops THEN p.hops + 1 ELSE p.hops) \in 0 .. MaxHops
  BY <1>1 DEF MaxHops
<1> QED
  BY <1>2 DEF Bumped, Packets

\* Every rewrite of the header yields a packet with the same type,
\* destination type, destination, hop count, context and body.
LEMMA RewriteType ==
  ASSUME NEW p \in Packets, NEW id \in Id
  PROVE  /\ OriginatorToHeader2(p, id) \in Packets
         /\ ReplaceTransportId(p, id) \in Packets
         /\ StripTransportIdToHeader1(p) \in Packets
BY DEF OriginatorToHeader2, ReplaceTransportId, StripTransportIdToHeader1, Packets

\* The hash of a packet survives every rewrite of its header (Packet.h:115-124).
THEOREM HashSurvivesRewrites ==
  ASSUME NEW p \in Packets, NEW id \in Id
  PROVE  /\ HashablePart(OriginatorToHeader2(p, id)) = HashablePart(p)
         /\ HashablePart(ReplaceTransportId(p, id)) = HashablePart(p)
         /\ HashablePart(StripTransportIdToHeader1(p)) = HashablePart(p)
         /\ HashablePart(Bumped(p)) = HashablePart(p)
BY DEF OriginatorToHeader2, ReplaceTransportId, StripTransportIdToHeader1, Bumped,
       HashablePart, Packets

LEMMA HashableType ==
  ASSUME NEW p \in Packets
  PROVE  HashablePart(p) \in Hashable
BY DEF HashablePart, Hashable, Packets

LEMMA ClampType ==
  ASSUME NEW p \in Packets, NEW mtu \in Nat
  PROVE  ClampSignalling(p, mtu) \in Packets
<1>1. CASE p.body \in LinkRequestBody
  <2>1. [p.body EXCEPT !.mtu = mtu] \in LinkRequestBody
    BY <1>1 DEF LinkRequestBody
  <2>2. [p.body EXCEPT !.mtu = mtu] \in Body
    BY <2>1 DEF Body
  <2> QED
    BY <2>2 DEF ClampSignalling, Packets
<1>2. CASE p.body \notin LinkRequestBody
  BY <1>2 DEF ClampSignalling
<1> QED
  BY <1>1, <1>2

LEMMA LinkIdType ==
  ASSUME NEW p \in Packets
  PROVE  LinkIdOf(p) \in Hashable
<1>1. CASE p.body \in LinkRequestBody
  <2>1. [p.body EXCEPT !.signalling = FALSE, !.mtu = 0] \in LinkRequestBody
    BY <1>1 DEF LinkRequestBody
  <2>2. [p.body EXCEPT !.signalling = FALSE, !.mtu = 0] \in Body
    BY <2>1 DEF Body
  <2> QED
    BY <1>1, <2>2, HashableType DEF LinkIdOf, HashablePart, Hashable
<1>2. CASE p.body \notin LinkRequestBody
  BY <1>2, HashableType DEF LinkIdOf
<1> QED
  BY <1>1, <1>2

\* The link id survives the clamp as well as the rewrites: the relay and both
\* ends of a link compute the same one (Transport.cpp:555-566, 591-595).
THEOREM LinkIdSurvivesClamp ==
  ASSUME NEW p \in Packets, NEW mtu \in Nat
  PROVE  LinkIdOf(ClampSignalling(p, mtu)) = LinkIdOf(p)
<1>1. CASE p.body \in LinkRequestBody /\ p.body.signalling /\ p.body.mtu > mtu
  <2> DEFINE q == ClampSignalling(p, mtu)
  <2>1. /\ q.type = p.type /\ q.dtype = p.dtype /\ q.dest = p.dest
        /\ q.ctx = p.ctx /\ q.body = [p.body EXCEPT !.mtu = mtu]
    BY <1>1 DEF ClampSignalling, Packets
  <2>2. q.body \in LinkRequestBody
    BY <1>1, <2>1 DEF LinkRequestBody
  <2>3. [q.body EXCEPT !.signalling = FALSE, !.mtu = 0]
          = [p.body EXCEPT !.signalling = FALSE, !.mtu = 0]
    BY <1>1, <2>1 DEF LinkRequestBody
  <2>4. LinkIdOf(q) = [HashablePart(q) EXCEPT !.body =
                         [q.body EXCEPT !.signalling = FALSE, !.mtu = 0]]
    BY <2>2 DEF LinkIdOf, HashablePart
  <2>5. LinkIdOf(p) = [HashablePart(p) EXCEPT !.body =
                         [p.body EXCEPT !.signalling = FALSE, !.mtu = 0]]
    BY <1>1 DEF LinkIdOf, HashablePart
  <2> QED
    BY <2>1, <2>3, <2>4, <2>5 DEF HashablePart
<1>2. CASE ~(p.body \in LinkRequestBody /\ p.body.signalling /\ p.body.mtu > mtu)
  BY <1>2 DEF ClampSignalling
<1> QED
  BY <1>1, <1>2

-----------------------------------------------------------------------------
(* What the rewrites of the tables preserve, for every table. *)

LEMMA EmptyTableType ==
  ASSUME NEW Keys, NEW Entries
  PROVE  IsTable(EmptyTable, Keys, Entries)
BY DEF IsTable, EmptyTable

LEMMA PutType ==
  ASSUME NEW Keys, NEW Entries, NEW t, IsTable(t, Keys, Entries),
         NEW k \in Keys, NEW e \in Entries
  PROVE  IsTable(Put(t, k, e), Keys, Entries)
BY DEF IsTable, Put

LEMMA WithoutType ==
  ASSUME NEW Keys, NEW Entries, NEW t, IsTable(t, Keys, Entries), NEW gone
  PROVE  IsTable(Without(t, gone), Keys, Entries)
BY DEF IsTable, Without

-----------------------------------------------------------------------------
(* The types of Transport *)

USE TransportAssumption, NoIdAssumption

\* The part of the state that a handler may write.
TablesOK ==
  /\ IsTable(known, Addr, Id)
  /\ IsTable(paths, Addr, PathEntry)
  /\ IsTable(announceTable, Addr, AnnounceEntry)
  /\ IsTable(reverseTable, Hashable, ReverseEntry)
  /\ IsTable(linkTable, Hashable, LinkEntry)
  /\ prTags \in RingsOf(PathRequestBody)

LEMMA TypeOKParts ==
  TypeOK <=> /\ now \in Nat /\ TablesOK
             /\ hashlist \in RingsOf(Hashable)
             /\ blackholed \subseteq Id
             /\ nextEmit \in [DOMAIN Schedule -> Nat]
             /\ out \subseteq Emission
BY DEF TypeOK, TablesOK, RingsOf

LEMMA ArrivalType ==
  ASSUME NEW w \in Wire
  PROVE  Bumped(w) \in Packets
BY BumpedType

LEMMA EmitType ==
  ASSUME NEW i \in Iface, NEW k \in TxKind, NEW p \in Packets
  PROVE  {Emit(i, k, p)} \subseteq Emission /\ Emit(i, k, p) \in Emission
BY DEF Emit, Emission

LEMMA RelayFormType ==
  ASSUME NEW p \in Packets
  PROVE  RelayForm(p) \in Packets
BY RewriteType DEF RelayForm

LEMMA OwnAnnounceType ==
  ASSUME NEW d \in Addr, NEW s \in Seed, NEW ctx \in Context
  PROVE  OwnAnnounce(d, s, ctx) \in Packets
<1> DEFINE body == [key |-> Us, blob |-> s, ratchet |-> FALSE, derived |-> d, signs |-> d]
<1>1. body \in Body
  BY DEF AnnounceBody, Body
<1> HIDE DEF body
<1>2. [type |-> "ANNOUNCE", hdr |-> 1, cflag |-> FALSE, ttype |-> "BROADCAST",
       dtype |-> "SINGLE", hops |-> 0, tid |-> NoId, dest |-> d, ctx |-> ctx,
       body |-> body] \in Packets
  BY <1>1 DEF Packets, PacketType, DestinationType, MaxHops
<1> QED
  BY <1>2 DEF OwnAnnounce, body

\* The window of blobs stays a sequence of blobs.
LEMMA NoteBlobType ==
  ASSUME NEW blobs \in Seq(Blob), NEW b \in Blob
  PROVE  NoteBlob(blobs, b) \in Seq(Blob)
<1>1. Append(blobs, b) \in Seq(Blob) /\ Append(blobs, b) # << >>
  OBVIOUS
<1>2. Tail(Append(blobs, b)) \in Seq(Blob)
  BY <1>1
<1> QED
  BY <1>1, <1>2 DEF NoteBlob

LEMMA BlobsOfType ==
  ASSUME TablesOK, NEW d
  PROVE  BlobsOf(d) \in Seq(Blob)
BY DEF TablesOK, BlobsOf, IsTable, PathEntry

\* Where a route leads after an accepted announce.
LEMMA RouteAfterType ==
  ASSUME TablesOK, now \in Nat, NEW i \in Iface, NEW p \in Packets, Acceptable(p)
  PROVE  RouteAfter(i, p) \in PathEntry
<1>1. p.body \in AnnounceBody /\ p.body.blob \in Blob
  BY DEF Acceptable, ValidAnnounce, AnnounceBody
<1>2. NoteBlob(BlobsOf(p.dest), p.body.blob) \in Seq(Blob)
  BY <1>1, BlobsOfType, NoteBlobType
<1>3. CASE Replaces(p)
  <2>1. now + PathLife \in Nat
    OBVIOUS
  <2>2. (IF p.hdr = 2 THEN p.tid ELSE NoId) \in Id \cup {NoId}
    BY PacketFields
  <2> QED
    BY <1>2, <1>3, <2>1, <2>2, RelayFormType, PacketFields DEF RouteAfter, PathEntry
<1>4. CASE ~Replaces(p)
  <2>1. p.dest \in DOMAIN paths
    BY <1>4 DEF Replaces
  <2>2. paths[p.dest] \in PathEntry /\ BlobsOf(p.dest) = paths[p.dest].blobs
    BY <2>1 DEF TablesOK, IsTable, BlobsOf
  <2> QED
    BY <1>2, <1>4, <2>2 DEF RouteAfter, PathEntry
<1> QED
  BY <1>3, <1>4

-----------------------------------------------------------------------------
(* Each handler leaves tables and emissions of the right types. *)

LEMMA AcceptAnnounceType ==
  ASSUME TablesOK, now \in Nat, NEW i \in Iface, NEW p \in Packets,
         AcceptAnnounce(i, p)
  PROVE  TablesOK' /\ out' \subseteq Emission
<1>1. p.dest \in Addr /\ p.body \in AnnounceBody /\ p.body.key \in Id
  BY PacketFields DEF AcceptAnnounce, Acceptable, ValidAnnounce, AnnounceBody
<1>2. IsTable(known', Addr, Id)
  BY <1>1, PutType DEF AcceptAnnounce, TablesOK
<1>3. IsTable(paths', Addr, PathEntry)
  BY <1>1, PutType, RouteAfterType DEF AcceptAnnounce, TablesOK
<1>4. IsTable(announceTable', Addr, AnnounceEntry)
  <2>1. [retransmitAt |-> now, receivedFrom |-> i, wire |-> RelayForm(p)] \in AnnounceEntry
    BY RelayFormType DEF AnnounceEntry
  <2> QED
    BY <1>1, <2>1, PutType DEF AcceptAnnounce, TablesOK
<1> QED
  BY <1>2, <1>3, <1>4 DEF AcceptAnnounce, TablesOK

LEMMA PathRequestType ==
  ASSUME TablesOK, NEW i \in Iface, NEW p \in Packets,
         \/ AnswerForLocal(i, p) \/ AnswerFromPath(i, p)
         \/ ForwardPathRequest(i, p) \/ LeavePathRequest(i, p)
  PROVE  TablesOK' /\ out' \subseteq Emission
<1>1. prTags' \in RingsOf(PathRequestBody)
  BY RingInsertType
     DEF TablesOK, AnswerForLocal, AnswerFromPath, ForwardPathRequest, LeavePathRequest,
         NewRequest, NoteRequest, Tagged
<1>2. TablesOK'
  BY <1>1 DEF TablesOK, AnswerForLocal, AnswerFromPath, ForwardPathRequest,
              LeavePathRequest
<1>3. CASE AnswerForLocal(i, p)
  <2>1. PICK s \in Seed : out' = {Emit(i, "PathResponse",
                                    OwnAnnounce(p.body.target, s, "PATH_RESPONSE"))}
    BY <1>3 DEF AnswerForLocal
  <2>2. p.body.target \in Addr
    BY <1>3 DEF AnswerForLocal
  <2> QED
    BY <1>2, <2>1, <2>2, OwnAnnounceType, EmitType DEF Context, TxKind
<1>4. CASE AnswerFromPath(i, p)
  <2>1. paths[p.body.target].wire \in Packets
    BY <1>4 DEF AnswerFromPath, AnswerableFromPath, TablesOK, IsTable, PathEntry
  <2>2. PathResponse(p.body.target) \in Packets
    BY <2>1 DEF PathResponse, Packets, Context
  <2> QED
    BY <1>2, <1>4, <2>2, EmitType DEF AnswerFromPath, TxKind
<1>5. CASE ForwardPathRequest(i, p)
  <2>1. \A j \in Iface \ {i} : Emit(j, "PathRequestForward", p) \in Emission
    BY EmitType DEF TxKind
  <2> QED
    BY <1>2, <1>5, <2>1 DEF ForwardPathRequest
<1>6. CASE LeavePathRequest(i, p)
  BY <1>2, <1>6 DEF LeavePathRequest
<1> QED
  BY <1>3, <1>4, <1>5, <1>6

\* A route we forward over is an entry of the table, and what goes over it a
\* packet.
LEMMA RelayedType ==
  ASSUME TablesOK, NEW p \in Packets, OursToRelay(p)
  PROVE  /\ paths[p.dest] \in PathEntry
         /\ Relayed(p, paths[p.dest]) \in Packets
<1>1. paths[p.dest] \in PathEntry
  BY DEF OursToRelay, TablesOK, IsTable
<1>2. CASE paths[p.dest].hops > 1
  <2>1. paths[p.dest].nextHop \in Id
    BY <1>1, <1>2 DEF OursToRelay, CanRelay, PathEntry
  <2> QED
    BY <1>1, <1>2, <2>1, RewriteType DEF Relayed
<1>3. CASE ~(paths[p.dest].hops > 1)
  BY <1>1, <1>3, RewriteType DEF Relayed
<1> QED
  BY <1>2, <1>3

\* A forwarded LINKREQUEST is one, and opens the link that the one received
\* opened.
LEMMA ForwardedRequest ==
  ASSUME TablesOK, NEW p \in Packets, IsLinkRequest(p), OursToRelay(p), NEW mtu \in Nat
  PROVE  /\ IsLinkRequest(ClampSignalling(Relayed(p, paths[p.dest]), mtu))
         /\ LinkIdOf(ClampSignalling(Relayed(p, paths[p.dest]), mtu)) = LinkIdOf(p)
<1> DEFINE q == Relayed(p, paths[p.dest])
<1>1. q \in Packets /\ paths[p.dest] \in PathEntry
  BY RelayedType
<1>2. q.type = p.type /\ q.body = p.body /\ HashablePart(q) = HashablePart(p)
  BY <1>1 DEF Relayed, ReplaceTransportId, StripTransportIdToHeader1, HashablePart, Packets
<1> HIDE DEF q
<1>3. LinkIdOf(q) = LinkIdOf(p)
  BY <1>2 DEF LinkIdOf
<1>4. ClampSignalling(q, mtu).type = q.type
  BY <1>1 DEF ClampSignalling, Packets
<1>5. IsLinkRequest(ClampSignalling(q, mtu)) /\ LinkIdOf(ClampSignalling(q, mtu)) = LinkIdOf(p)
  BY <1>1, <1>2, <1>3, <1>4, LinkIdSurvivesClamp DEF IsLinkRequest
<1> QED
  BY <1>5 DEF q

LEMMA DataType ==
  ASSUME TablesOK, now \in Nat, NEW i \in Iface, NEW p \in Packets,
         ForwardData(i, p) \/ ForwardProof(i, p)
  PROVE  TablesOK' /\ out' \subseteq Emission
<1>1. CASE ForwardData(i, p)
  <2> DEFINE route == paths[p.dest]
             entry == [receivedIf |-> i, outboundIf |-> route.iface, at |-> now]
  <2>1. route \in PathEntry /\ Relayed(p, route) \in Packets
    BY <1>1, RelayedType DEF ForwardData
  <2>2. entry \in ReverseEntry
    BY <2>1 DEF PathEntry, ReverseEntry
  <2>3. IsTable(reverseTable', Hashable, ReverseEntry)
    BY <1>1, <2>2, HashableType, PutType DEF ForwardData, TablesOK
  <2>4. out' \subseteq Emission
    BY <1>1, <2>1, EmitType DEF ForwardData, PathEntry, TxKind
  <2> QED
    BY <1>1, <2>3, <2>4 DEF ForwardData, TablesOK
<1>2. CASE ForwardProof(i, p)
  <2>1. reverseTable[p.dest].receivedIf \in Iface
    BY <1>2 DEF ForwardProof, ReceiptDue, TablesOK, IsTable, ReverseEntry
  <2>2. out' \subseteq Emission
    BY <1>2, <2>1, EmitType DEF ForwardProof, TxKind
  <2>3. IsTable(reverseTable', Hashable, ReverseEntry)
    BY <1>2, WithoutType DEF ForwardProof, TablesOK
  <2> QED
    BY <1>2, <2>2, <2>3 DEF ForwardProof, TablesOK
<1> QED
  BY <1>1, <1>2

\* An entry refreshed in place is an entry.
LEMMA LinkTouchedType ==
  ASSUME IsTable(linkTable, Hashable, LinkEntry), now \in Nat,
         NEW l \in DOMAIN linkTable
  PROVE  /\ IsTable([linkTable EXCEPT ![l].lastActivity = now], Hashable, LinkEntry)
         /\ IsTable([linkTable EXCEPT ![l].validated = TRUE, ![l].lastActivity = now],
                    Hashable, LinkEntry)
<1>1. linkTable[l] \in LinkEntry
  BY DEF IsTable
<1>2. /\ [linkTable[l] EXCEPT !.lastActivity = now] \in LinkEntry
      /\ [[linkTable[l] EXCEPT !.validated = TRUE] EXCEPT !.lastActivity = now] \in LinkEntry
  BY <1>1 DEF LinkEntry
<1> QED
  BY <1>2 DEF IsTable

LEMMA LinkType ==
  ASSUME TablesOK, now \in Nat, NEW i \in Iface, NEW p \in Packets,
         \/ ForwardLinkRequest(i, p) \/ ForwardLinkProof(i, p) \/ ForwardLinkData(i, p)
  PROVE  TablesOK' /\ out' \subseteq Emission
<1>1. CASE ForwardLinkRequest(i, p)
  <2> DEFINE route == paths[p.dest]
             wire  == ClampSignalling(Relayed(p, route), HwMtu[route.iface])
             entry == [nhIf |-> route.iface, rcvdIf |-> i, dst |-> p.dest,
                       validated |-> FALSE, proofTimeout |-> now + ProofTimeout,
                       lastActivity |-> now]
  <2>1. route \in PathEntry /\ Relayed(p, route) \in Packets
    BY <1>1, RelayedType DEF ForwardLinkRequest
  <2>2. route.iface \in Iface /\ HwMtu[route.iface] \in Nat
    BY <2>1 DEF PathEntry
  <2>3. wire \in Packets
    BY <2>1, <2>2, ClampType
  <2>4. entry \in LinkEntry
    BY <2>2, PacketFields DEF LinkEntry
  <2>5. IsTable(linkTable', Hashable, LinkEntry)
    <3> HIDE DEF entry
    <3>1. linkTable' = Put(linkTable, LinkIdOf(p), entry)
      BY <1>1 DEF ForwardLinkRequest, entry
    <3> QED
      BY <2>4, <3>1, LinkIdType, PutType DEF TablesOK
  <2>6. out' \subseteq Emission
    <3> HIDE DEF wire
    <3>1. out' = {Emit(route.iface, "LinkForward", wire)}
      BY <1>1 DEF ForwardLinkRequest, wire
    <3> QED
      BY <2>2, <2>3, <3>1, EmitType DEF TxKind
  <2> QED
    BY <1>1, <2>5, <2>6 DEF ForwardLinkRequest, TablesOK
<1>2. CASE ForwardLinkProof(i, p)
  <2>1. p.dest \in DOMAIN linkTable /\ linkTable[p.dest].rcvdIf \in Iface
    BY <1>2 DEF ForwardLinkProof, LinkProofAccepted, TablesOK, IsTable, LinkEntry
  <2>2. IsTable(linkTable', Hashable, LinkEntry)
    BY <1>2, <2>1, LinkTouchedType DEF ForwardLinkProof, TablesOK
  <2>3. out' \subseteq Emission
    BY <1>2, <2>1, EmitType DEF ForwardLinkProof, TxKind
  <2> QED
    BY <1>2, <2>2, <2>3 DEF ForwardLinkProof, TablesOK
<1>3. CASE ForwardLinkData(i, p)
  <2>1. p.dest \in DOMAIN linkTable /\ linkTable[p.dest] \in LinkEntry
    BY <1>3 DEF ForwardLinkData, LinkDataAccepted, TablesOK, IsTable
  <2>2. OtherSide(linkTable[p.dest], i) \in Iface
    BY <2>1 DEF OtherSide, LinkEntry
  <2>3. IsTable(linkTable', Hashable, LinkEntry)
    BY <1>3, <2>1, LinkTouchedType, WithoutType DEF ForwardLinkData, LinkAfter, TablesOK
  <2>4. out' \subseteq Emission
    BY <1>3, <2>2, EmitType DEF ForwardLinkData, TxKind
  <2> QED
    BY <1>3, <2>3, <2>4 DEF ForwardLinkData, TablesOK
<1> QED
  BY <1>1, <1>2, <1>3

\* The handlers' early returns.
Left(i, p) ==
  \/ RejectAnnounce(p) \/ LeaveData(p) \/ LeaveProof(i, p)
  \/ LeaveLinkRequest(p) \/ LeaveLinkProof(i, p) \/ LeaveLinkData(i, p)

LEMMA LeftType ==
  ASSUME TablesOK, NEW i, NEW p, Left(i, p)
  PROVE  UNCHANGED tables /\ TablesOK' /\ out' = {}
BY DEF Left, RejectAnnounce, LeaveData, LeaveProof, LeaveLinkRequest, LeaveLinkProof,
       LeaveLinkData, TablesOK, tables

LEMMA HandleType ==
  ASSUME TablesOK, now \in Nat, NEW i \in Iface, NEW p \in Packets, Handle(i, p)
  PROVE  TablesOK' /\ out' \subseteq Emission
BY AcceptAnnounceType, PathRequestType, DataType, LinkType, LeftType DEF Handle, Left

LEMMA TickType ==
  ASSUME TypeOK, Tick
  PROVE  TypeOK'
<1>1. TablesOK'
  BY WithoutType, RingPurgeType, TypeOKParts DEF Tick, TablesOK
<1>2. hashlist' \in RingsOf(Hashable)
  BY RingPurgeType, TypeOKParts DEF Tick
<1>3. nextEmit' \in [DOMAIN Schedule -> Nat]
  BY DEF Tick, NextEmits, Never, TypeOK
<1>4. RebroadcastAll \subseteq Emission
  <2>1. \A d \in DueAnnounces : announceTable[d].wire \in Packets
    BY DEF DueAnnounces, TypeOK, IsTable, AnnounceEntry
  <2> QED
    BY <2>1, EmitType DEF RebroadcastAll, TxKind
<1>5. out' \subseteq Emission
  <2>1. PICK seed \in [Announcing -> Seed] :
          out' = RebroadcastAll \cup
                   {Emit(i, "OwnAnnounce", OwnAnnounce(Schedule[s].dest, seed[s], "NONE")) :
                      i \in Iface, s \in Announcing}
    BY DEF Tick
  <2>2. \A s \in Announcing : OwnAnnounce(Schedule[s].dest, seed[s], "NONE") \in Packets
    BY OwnAnnounceType DEF Announcing, Context
  <2> QED
    BY <1>4, <2>1, <2>2, EmitType DEF TxKind
<1> QED
  BY <1>1, <1>2, <1>3, <1>5 DEF Tick, TypeOK, TablesOK, RingsOf

\* Types are kept by every step.
LEMMA TypeStep ==
  ASSUME TypeOK, [Next]_vars
  PROVE  TypeOK'
<1>1. CASE \E i \in Iface, w \in Wire : Inbound(i, w)
  <2>1. PICK i \in Iface, w \in Wire : Inbound(i, w)
    BY <1>1
  <2>2. Bumped(w) \in Packets
    BY ArrivalType
  <2>3. TablesOK' /\ out' \subseteq Emission
    BY <2>1, <2>2, HandleType, TypeOKParts DEF Inbound
  <2>4. hashlist' \in RingsOf(Hashable)
    BY <2>1, <2>2, HashableType, RingInsertType, TypeOKParts DEF Inbound
  <2> QED
    BY <2>1, <2>3, <2>4 DEF Inbound, TypeOK, TablesOK, RingsOf
<1>2. CASE \E w \in Wire : DropDuplicate(w)
  BY <1>2 DEF DropDuplicate, TypeOK, tables
<1>3. CASE Tick
  BY <1>3, TickType
<1>4. CASE \E id \in Suspect : Blackhole(id) \/ Unblackhole(id)
  BY <1>4 DEF Blackhole, Unblackhole, TypeOK, tables
<1>5. CASE Elapse
  BY <1>5 DEF Elapse, TypeOK, tables
<1>6. CASE UNCHANGED vars
  BY <1>6 DEF vars, TypeOK
<1> QED
  BY <1>1, <1>2, <1>3, <1>4, <1>5, <1>6 DEF Next

LEMMA TypeInit == Init => TypeOK
<1> SUFFICES ASSUME Init PROVE TypeOK
  OBVIOUS
<1>1. TablesOK
  BY EmptyTableType, EmptyRingType DEF Init, TablesOK
<1> QED
  BY <1>1, EmptyRingType, TypeOKParts DEF Init

\* Types, and with them the hop count staying within its byte, hold for every
\* relay.
THEOREM TypeCorrect == Spec => []TypeOK
<1> QED
  BY TypeInit, TypeStep, PTL DEF Spec

-----------------------------------------------------------------------------
(* What is held for re-emission validates; keys stay bound. *)

\* The form we re-emit differs from the announce we accepted in the header
\* only: it validates as that did.
LEMMA RelayFormValid ==
  ASSUME NEW p \in Packets, ValidAnnounce(p)
  PROVE  /\ ValidAnnounce(RelayForm(p))
         /\ RelayForm(p).dest = p.dest /\ RelayForm(p).body = p.body
         /\ RelayForm(p).hops = p.hops
         /\ RelayForm(p).hdr = 2 /\ RelayForm(p).tid = Us
         /\ HashablePart(RelayForm(p)) = HashablePart(p)
<1>1. CASE p.hdr = 1
  BY <1>1, HashSurvivesRewrites DEF RelayForm, OriginatorToHeader2, ValidAnnounce, Packets
<1>2. CASE p.hdr = 2
  BY <1>2, HashSurvivesRewrites DEF RelayForm, ReplaceTransportId, ValidAnnounce, Packets
<1> QED
  BY <1>1, <1>2, PacketFields

\* Accepting an announce adds or confirms one binding and disturbs no other.
LEMMA AcceptBinds ==
  ASSUME TypeOK, NEW i \in Iface, NEW p \in Packets, AcceptAnnounce(i, p)
  PROVE  /\ p.dest \in DOMAIN known' /\ known'[p.dest] = p.body.key
         /\ \A d \in DOMAIN known : d \in DOMAIN known' /\ known'[d] = known[d]
<1>1. known' = Put(known, p.dest, p.body.key)
  BY DEF AcceptAnnounce
<1>2. p.dest \in DOMAIN known => known[p.dest] = p.body.key
  BY DEF AcceptAnnounce, Acceptable
<1>3. /\ DOMAIN known' = DOMAIN known \cup {p.dest}
      /\ known'[p.dest] = p.body.key
      /\ \A d \in DOMAIN known : d # p.dest => known'[d] = known[d]
  BY <1>1 DEF Put
<1> QED
  BY <1>2, <1>3

LEMMA AcceptHolds ==
  ASSUME TypeOK, HeldAnnouncesValidate, NEW i \in Iface, NEW p \in Packets,
         AcceptAnnounce(i, p)
  PROVE  HeldAnnouncesValidate'
<1>1. /\ ValidAnnounce(p) /\ p.dest \in Addr /\ now \in Nat /\ TablesOK
  BY PacketFields, TypeOKParts DEF AcceptAnnounce, Acceptable
<1>2. Reemittable(p.dest, RelayForm(p))'
  BY <1>1, AcceptBinds, RelayFormValid DEF Reemittable
<1>3. ASSUME NEW d, NEW w, Reemittable(d, w)
      PROVE  Reemittable(d, w)'
  BY <1>3, AcceptBinds DEF Reemittable
<1>4. /\ \A w : w = RouteAfter(i, p).wire => Reemittable(p.dest, w)'
      /\ RouteAfter(i, p).wire.hops = RouteAfter(i, p).hops
  <2>1. CASE Replaces(p)
    <3>1. /\ RouteAfter(i, p).wire = RelayForm(p)
          /\ RouteAfter(i, p).hops = p.hops
      BY <2>1 DEF RouteAfter
    <3> QED
      BY <1>1, <1>2, <3>1, RelayFormValid
  <2>2. CASE ~Replaces(p)
    <3>1. p.dest \in DOMAIN paths /\ paths[p.dest] \in PathEntry
      BY <1>1, <2>2 DEF Replaces, TablesOK, IsTable
    <3>2. /\ RouteAfter(i, p).wire = paths[p.dest].wire
          /\ RouteAfter(i, p).hops = paths[p.dest].hops
      BY <2>2, <3>1 DEF RouteAfter, PathEntry
    <3>3. /\ Reemittable(p.dest, paths[p.dest].wire)
          /\ paths[p.dest].wire.hops = paths[p.dest].hops
      BY <3>1 DEF HeldAnnouncesValidate
    <3>4. ASSUME NEW w, w = paths[p.dest].wire
          PROVE  Reemittable(p.dest, w)'
      BY <1>3, <3>3, <3>4
    <3> QED
      BY <3>2, <3>3, <3>4
  <2> QED
    BY <2>1, <2>2
<1>5. ASSUME NEW d \in DOMAIN paths'
      PROVE  Reemittable(d, paths[d].wire)' /\ (paths[d].wire.hops = paths[d].hops)'
  <2>1. /\ DOMAIN paths' = DOMAIN paths \cup {p.dest}
        /\ paths'[p.dest] = RouteAfter(i, p)
        /\ \A x \in DOMAIN paths : x # p.dest => paths'[x] = paths[x]
    BY DEF AcceptAnnounce, Put
  <2>2. CASE d = p.dest
    <3>1. paths'[d] = RouteAfter(i, p)
      BY <2>1, <2>2
    <3>2. ASSUME NEW w, w = paths'[d].wire
          PROVE  Reemittable(p.dest, w)'
      BY <1>4, <3>1, <3>2
    <3>3. Reemittable(d, paths[d].wire)'
      BY <2>2, <3>2
    <3> QED
      BY <1>4, <3>1, <3>3
  <2>3. CASE d # p.dest
    BY <1>3, <1>5, <2>1, <2>3 DEF HeldAnnouncesValidate
  <2> QED
    BY <2>2, <2>3
<1>6. ASSUME NEW d \in DOMAIN announceTable'
      PROVE  Reemittable(d, announceTable[d].wire)'
  <2> DEFINE entry == [retransmitAt |-> now, receivedFrom |-> i, wire |-> RelayForm(p)]
  <2>1. CASE announceTable' = announceTable
    BY <1>3, <1>6, <2>1 DEF HeldAnnouncesValidate
  <2>2. CASE announceTable' = Put(announceTable, p.dest, entry)
    <3>2. entry.wire = RelayForm(p)
      OBVIOUS
    <3> HIDE DEF entry
    <3>3. /\ DOMAIN announceTable' = DOMAIN announceTable \cup {p.dest}
          /\ announceTable'[p.dest] = entry
          /\ \A x \in DOMAIN announceTable : x # p.dest => announceTable'[x] = announceTable[x]
      BY <2>2 DEF Put
    <3>4. CASE d = p.dest
      BY <1>2, <3>2, <3>3, <3>4
    <3>5. CASE d # p.dest
      BY <1>3, <1>6, <3>3, <3>5 DEF HeldAnnouncesValidate
    <3> QED
      BY <3>4, <3>5
  <2> QED
    BY <2>1, <2>2 DEF AcceptAnnounce
<1> QED
  BY <1>5, <1>6 DEF HeldAnnouncesValidate

\* No other handler writes the routes, the announces or the keys.
LEMMA OthersKeepRoutes ==
  ASSUME NEW i, NEW p, Handle(i, p), ~AcceptAnnounce(i, p)
  PROVE  UNCHANGED <<known, paths, announceTable>>
BY DEF Handle, RejectAnnounce, AnswerForLocal, AnswerFromPath, ForwardPathRequest,
       LeavePathRequest, ForwardData, LeaveData, ForwardProof, LeaveProof,
       ForwardLinkRequest, LeaveLinkRequest, ForwardLinkProof, LeaveLinkProof,
       ForwardLinkData, LeaveLinkData, tables

\* Every step but an accepted announce keeps the keys, and at most removes
\* routes and pending announces.
OnlyRemoves ==
  /\ known' = known
  /\ DOMAIN paths' \subseteq DOMAIN paths
  /\ \A d \in DOMAIN paths' : paths'[d] = paths[d]
  /\ DOMAIN announceTable' \subseteq DOMAIN announceTable
  /\ \A d \in DOMAIN announceTable' : announceTable'[d] = announceTable[d]

LEMMA StepKinds ==
  ASSUME TypeOK, [Next]_vars
  PROVE  \/ OnlyRemoves
         \/ \E i \in Iface, w \in Wire :
              Inbound(i, w) /\ AcceptAnnounce(i, Bumped(w))
<1>1. CASE Tick
  <2>1. known' = known
    BY <1>1 DEF Tick
  <2>2. DOMAIN paths' \subseteq DOMAIN paths /\ \A d \in DOMAIN paths' : paths'[d] = paths[d]
    BY <1>1 DEF Tick, Without
  <2>3. /\ DOMAIN announceTable' \subseteq DOMAIN announceTable
        /\ \A d \in DOMAIN announceTable' : announceTable'[d] = announceTable[d]
    BY <1>1 DEF Tick, Without
  <2> QED
    BY <2>1, <2>2, <2>3 DEF OnlyRemoves
<1>2. CASE \E i \in Iface, w \in Wire : Inbound(i, w)
  <2>1. PICK i \in Iface, w \in Wire : Inbound(i, w)
    BY <1>2
  <2>2. CASE AcceptAnnounce(i, Bumped(w))
    BY <2>1, <2>2
  <2>3. CASE ~AcceptAnnounce(i, Bumped(w))
    BY <2>1, <2>3, OthersKeepRoutes DEF Inbound, OnlyRemoves
  <2> QED
    BY <2>2, <2>3
<1>3. CASE UNCHANGED <<known, paths, announceTable>>
  BY <1>3 DEF OnlyRemoves
<1> QED
  BY <1>1, <1>2, <1>3
     DEF Next, DropDuplicate, Blackhole, Unblackhole, Elapse, vars, tables

LEMMA HeldStep ==
  ASSUME TypeOK, HeldAnnouncesValidate, [Next]_vars
  PROVE  HeldAnnouncesValidate'
<1>1. CASE OnlyRemoves
  BY <1>1 DEF OnlyRemoves, HeldAnnouncesValidate, Reemittable
<1>2. CASE \E i \in Iface, w \in Wire : Inbound(i, w) /\ AcceptAnnounce(i, Bumped(w))
  BY <1>2, AcceptHolds, ArrivalType
<1> QED
  BY <1>1, <1>2, StepKinds

\* Every announce a relay holds, for path responses or for rebroadcast, is one
\* that its neighbours will accept and will route back through it.
THEOREM HeldAnnouncesCorrect == Spec => []HeldAnnouncesValidate
<1>1. Init => HeldAnnouncesValidate
  BY DEF Init, EmptyTable, HeldAnnouncesValidate
<1>2. TypeOK /\ HeldAnnouncesValidate /\ [Next]_vars => HeldAnnouncesValidate'
  BY HeldStep
<1> QED
  BY <1>1, <1>2, TypeCorrect, PTL DEF Spec

LEMMA KeyStep ==
  ASSUME TypeOK, [Next]_vars, NEW d \in DOMAIN known
  PROVE  d \in DOMAIN known' /\ known'[d] = known[d]
<1>1. CASE OnlyRemoves
  BY <1>1 DEF OnlyRemoves
<1>2. CASE \E i \in Iface, w \in Wire : Inbound(i, w) /\ AcceptAnnounce(i, Bumped(w))
  BY <1>2, AcceptBinds, ArrivalType
<1> QED
  BY <1>1, <1>2, StepKinds

\* Once a destination is bound to a key it stays bound to it.
THEOREM KeysStayBound == Spec => KeyBindingStable
<1> DEFINE Stable == \A d \in DOMAIN known : d \in DOMAIN known' /\ known'[d] = known[d]
<1>1. TypeOK /\ [Next]_vars => [Stable]_vars
  BY KeyStep
<1> HIDE DEF Stable
<1>2. Spec => [][Stable]_vars
  BY <1>1, TypeCorrect, PTL DEF Spec
<1> QED
  BY <1>2 DEF KeyBindingStable, Stable

-----------------------------------------------------------------------------
(* What waits to be rebroadcast is in the ring. *)

\* A tick takes every waiting announce: none is scheduled for later.
WaitingIsDue == \A d \in DOMAIN announceTable : announceTable[d].retransmitAt <= now

EchoInv == WaitingIsDue /\ PendingEchoRecognised

LEMMA AcceptEcho ==
  ASSUME TypeOK, EchoInv, NEW i \in Iface, NEW w \in Wire,
         Inbound(i, w), AcceptAnnounce(i, Bumped(w))
  PROVE  EchoInv'
<1> DEFINE p == Bumped(w)
           entry == [retransmitAt |-> now, receivedFrom |-> i, wire |-> RelayForm(p)]
<1>1. p \in Packets /\ ValidAnnounce(p) /\ now \in Nat /\ now' = now
  BY ArrivalType DEF AcceptAnnounce, Acceptable, TypeOK, Inbound
<1>2. hashlist'.seen = hashlist.seen \cup {HashablePart(p)}
  BY <1>1, HashableType, RingInsertType, TypeOKParts DEF Inbound
<1>4. HashablePart(entry.wire) = HashablePart(p) /\ entry.retransmitAt = now
  BY <1>1, RelayFormValid
<1> HIDE DEF entry, p
<1>5. CASE announceTable' = announceTable
  BY <1>1, <1>2, <1>5 DEF EchoInv, WaitingIsDue, PendingEchoRecognised, Contains
<1>6. CASE announceTable' = Put(announceTable, p.dest, entry)
  <2>1. /\ DOMAIN announceTable' = DOMAIN announceTable \cup {p.dest}
        /\ announceTable'[p.dest] = entry
        /\ \A x \in DOMAIN announceTable : x # p.dest => announceTable'[x] = announceTable[x]
    BY <1>6 DEF Put
  <2>2. WaitingIsDue'
    BY <1>1, <1>4, <2>1 DEF EchoInv, WaitingIsDue
  <2>3. PendingEchoRecognised'
    BY <1>2, <1>4, <2>1 DEF EchoInv, PendingEchoRecognised, Contains
  <2> QED
    BY <2>2, <2>3 DEF EchoInv
<1> QED
  BY <1>5, <1>6 DEF AcceptAnnounce, p, entry

LEMMA EchoStep ==
  ASSUME TypeOK, EchoInv, [Next]_vars
  PROVE  EchoInv'
<1>1. CASE Tick
  <2>1. DueAnnounces = DOMAIN announceTable
    BY DEF EchoInv, WaitingIsDue, DueAnnounces
  <2>2. DOMAIN announceTable' = {}
    BY <1>1, <2>1 DEF Tick, Without
  <2> QED
    BY <2>2 DEF EchoInv, WaitingIsDue, PendingEchoRecognised
<1>2. CASE \E i \in Iface, w \in Wire : Inbound(i, w) /\ AcceptAnnounce(i, Bumped(w))
  BY <1>2, AcceptEcho
<1>3. ASSUME NEW i \in Iface, NEW w \in Wire, Inbound(i, w),
             ~AcceptAnnounce(i, Bumped(w))
      PROVE  EchoInv'
  <2>1. announceTable' = announceTable /\ now' = now
    BY <1>3, OthersKeepRoutes DEF Inbound
  <2>2. hashlist'.seen = hashlist.seen \cup {HashablePart(Bumped(w))}
    BY <1>3, ArrivalType, HashableType, RingInsertType, TypeOKParts DEF Inbound
  <2> QED
    BY <2>1, <2>2 DEF EchoInv, WaitingIsDue, PendingEchoRecognised, Contains
<1>4. CASE Elapse
  BY <1>4 DEF Elapse, tables, TypeOK, IsTable, AnnounceEntry, EchoInv, WaitingIsDue,
              PendingEchoRecognised
<1>5. CASE UNCHANGED <<now, announceTable, hashlist>>
  BY <1>5 DEF EchoInv, WaitingIsDue, PendingEchoRecognised
<1> QED
  BY <1>1, <1>2, <1>3, <1>4, <1>5
     DEF Next, DropDuplicate, Blackhole, Unblackhole, vars, tables

LEMMA EchoHolds == Spec => []EchoInv
<1>1. Init => EchoInv
  BY DEF Init, EmptyTable, EchoInv, WaitingIsDue, PendingEchoRecognised
<1>2. TypeOK /\ EchoInv /\ [Next]_vars => EchoInv'
  BY EchoStep
<1> QED
  BY <1>1, <1>2, TypeCorrect, PTL DEF Spec

\* However small the ring and however often it is purged, the announce a relay
\* is about to rebroadcast is one it will recognise when it comes back.
THEOREM PendingEchoCorrect == Spec => []PendingEchoRecognised
<1>1. EchoInv => PendingEchoRecognised
  BY DEF EchoInv
<1> QED
  BY <1>1, EchoHolds, PTL

-----------------------------------------------------------------------------
(* Routes are usable. *)

\* An accepted announce leaves a usable route: heard directly it is one hop
\* long, and heard through a relay it names that relay.
LEMMA RouteAfterUsable ==
  ASSUME OriginatorsOnly, TypeOK, AdvertisedIsRelayable,
         NEW i \in Iface, NEW w \in Wire, AcceptAnnounce(i, Bumped(w))
  PROVE  CanRelay(RouteAfter(i, Bumped(w)))
<1> DEFINE p == Bumped(w)
<1>1. w \in Packets /\ WellFormed(w) /\ w.hops \in 0 .. MaxHops
  BY PacketFields
<1>2. /\ p.hdr = w.hdr /\ p.tid = w.tid
      /\ p.hops = IF w.hops < MaxHops THEN w.hops + 1 ELSE w.hops
  BY <1>1 DEF Bumped, Packets
<1>3. IsAnnounce(w) /\ w.hdr \in {1, 2}
  BY <1>1, PacketFields DEF AcceptAnnounce, IsAnnounce, Bumped, Packets
<1> HIDE DEF p
<1> SUFFICES CanRelay(RouteAfter(i, p))
  BY DEF p
<1>4. CASE Replaces(p)
  <2>1. /\ RouteAfter(i, p).hops = p.hops
        /\ RouteAfter(i, p).nextHop = IF p.hdr = 2 THEN p.tid ELSE NoId
    BY <1>4 DEF RouteAfter
  <2>2. CASE w.hdr = 1
    BY <1>2, <1>3, <2>1, <2>2 DEF OriginatorsOnly, CanRelay, MaxHops
  <2>3. CASE w.hdr = 2
    BY <1>1, <1>2, <2>1, <2>3 DEF WellFormed, CanRelay, MaxHops
  <2> QED
    BY <1>3, <2>2, <2>3
<1>5. CASE ~Replaces(p)
  <2>1. p.dest \in DOMAIN paths /\ paths[p.dest] \in PathEntry
    BY <1>5 DEF Replaces, TypeOK, IsTable
  <2>2. /\ RouteAfter(i, p).hops = paths[p.dest].hops
        /\ RouteAfter(i, p).nextHop = paths[p.dest].nextHop
    BY <1>5, <2>1 DEF RouteAfter, PathEntry
  <2> QED
    BY <2>1, <2>2 DEF AdvertisedIsRelayable, CanRelay
<1> QED
  BY <1>4, <1>5

LEMMA UsableStep ==
  ASSUME OriginatorsOnly, TypeOK, AdvertisedIsRelayable, [Next]_vars
  PROVE  AdvertisedIsRelayable'
<1>1. CASE OnlyRemoves
  BY <1>1 DEF OnlyRemoves, AdvertisedIsRelayable, CanRelay
<1>2. ASSUME NEW i \in Iface, NEW w \in Wire, AcceptAnnounce(i, Bumped(w))
      PROVE  AdvertisedIsRelayable'
  <2>1. \A r : r = RouteAfter(i, Bumped(w)) => CanRelay(r)
    BY <1>2, RouteAfterUsable
  <2>2. \A d \in DOMAIN paths' :
          \/ paths'[d] = RouteAfter(i, Bumped(w))
          \/ d \in DOMAIN paths /\ paths'[d] = paths[d]
    BY <1>2 DEF AcceptAnnounce, Put
  <2>3. \A d \in DOMAIN paths : CanRelay(paths[d])
    BY DEF AdvertisedIsRelayable
  <2>4. ASSUME NEW d \in DOMAIN paths'
        PROVE  CanRelay(paths'[d])
    <3>1. CASE paths'[d] = RouteAfter(i, Bumped(w))
      BY <2>1, <3>1
    <3>2. CASE d \in DOMAIN paths /\ paths'[d] = paths[d]
      BY <2>3, <3>2 DEF CanRelay
    <3> QED
      BY <2>2, <3>1, <3>2
  <2> QED
    BY <2>4 DEF AdvertisedIsRelayable, CanRelay
<1> QED
  BY <1>1, <1>2, StepKinds

\* As long as only originators send HEADER_1 announces, every route a relay
\* holds, and so advertises, is one it can forward over.
THEOREM AdvertisedCorrect ==
  ASSUME OriginatorsOnly
  PROVE  Spec => []AdvertisedIsRelayable
<1>1. Init => AdvertisedIsRelayable
  BY DEF Init, EmptyTable, AdvertisedIsRelayable
<1>2. TypeOK /\ AdvertisedIsRelayable /\ [Next]_vars => AdvertisedIsRelayable'
  BY UsableStep
<1> QED
  BY <1>1, <1>2, TypeCorrect, PTL DEF Spec

-----------------------------------------------------------------------------
(* What a step may never do to a route. *)

\* Every step either keeps the routes it does not remove, or is an accepted
\* announce, which writes the route of its own destination.
LEMMA RouteStep ==
  ASSUME TypeOK, [Next]_vars, NEW d \in DOMAIN paths, d \in DOMAIN paths',
         paths'[d] # paths[d]
  PROVE  \E i \in Iface, p \in Packets :
           /\ Acceptable(p) /\ p.dest = d
           /\ paths'[d] = RouteAfter(i, p)
<1>1. PICK i \in Iface, w \in Wire : AcceptAnnounce(i, Bumped(w))
  BY StepKinds DEF OnlyRemoves
<1>2. \A x \in DOMAIN paths : x # Bumped(w).dest => paths'[x] = paths[x]
  BY <1>1 DEF AcceptAnnounce, Put
<1>3. Bumped(w).dest = d
  BY <1>2
<1>4. paths'[d] = RouteAfter(i, Bumped(w)) /\ Acceptable(Bumped(w))
  BY <1>1, <1>3 DEF AcceptAnnounce, Put
<1> QED
  BY <1>3, <1>4, ArrivalType

\* Nothing that a blackholed identity says changes its routes.
THEOREM BlackholeFreezes == Spec => BlackholeFreezesRoutes
<1> DEFINE Frozen == \A d \in DOMAIN paths :
                       (known[d] \in blackholed /\ d \in DOMAIN paths') =>
                         paths'[d] = paths[d]
<1>1. TypeOK /\ HeldAnnouncesValidate /\ [Next]_vars => [Frozen]_vars
  <2> SUFFICES ASSUME TypeOK, HeldAnnouncesValidate, [Next]_vars,
                      NEW d \in DOMAIN paths, d \in DOMAIN paths',
                      known[d] \in blackholed, paths'[d] # paths[d]
               PROVE  FALSE
    OBVIOUS
  <2>1. PICK p \in Packets : Acceptable(p) /\ p.dest = d
    BY RouteStep
  <2>2. d \in DOMAIN known
    BY DEF HeldAnnouncesValidate, Reemittable
  <2> QED
    BY <2>1, <2>2 DEF Acceptable
<1> HIDE DEF Frozen
<1>2. Spec => [][Frozen]_vars
  BY <1>1, TypeCorrect, HeldAnnouncesCorrect, PTL DEF Spec
<1> QED
  BY <1>2 DEF BlackholeFreezesRoutes, Frozen

\* Neither a replay nor a late copy of an announce lengthens a route that has
\* not expired, whatever is delivered and in whatever order.
THEOREM RoutesWorsenForNews == Spec => RouteWorsensOnlyForNews
<1> DEFINE Worsens(d) == paths'[d].hops > paths[d].hops /\ paths[d].expires > now
           News(d) == \A k \in DOMAIN paths[d].blobs :
                        paths[d].blobs[k].ts < paths'[d].wire.body.blob.ts
           OnlyForNews == \A d \in DOMAIN paths \cap DOMAIN paths' :
                            Worsens(d) => News(d)
<1>1. TypeOK /\ [Next]_vars => [OnlyForNews]_vars
  <2> SUFFICES ASSUME TypeOK, [Next]_vars, NEW d \in DOMAIN paths,
                      d \in DOMAIN paths', Worsens(d)
               PROVE  News(d)
    OBVIOUS
  <2>1. /\ paths[d] \in PathEntry /\ now \in Nat
        /\ paths[d].hops \in Nat /\ paths[d].expires \in Nat
    <3>1. paths[d] \in PathEntry /\ now \in Nat
      BY DEF TypeOK, IsTable
    <3>2. paths[d].hops \in 0 .. MaxHops /\ paths[d].expires \in Nat
      BY <3>1 DEF PathEntry
    <3> QED
      BY <3>1, <3>2 DEF MaxHops
  <2>2. paths'[d] # paths[d]
    BY <2>1
  <2>3. PICK i \in Iface, p \in Packets :
          Acceptable(p) /\ p.dest = d /\ paths'[d] = RouteAfter(i, p)
    BY <2>2, RouteStep
  <2>4. Replaces(p)
    <3>1. ASSUME ~Replaces(p)
          PROVE  paths'[d].hops = paths[d].hops
      BY <2>1, <2>3, <3>1 DEF RouteAfter, PathEntry
    <3> QED
      BY <2>1, <3>1
  <2>5. paths'[d].hops = p.hops /\ paths'[d].wire = RelayForm(p)
    BY <2>3, <2>4 DEF RouteAfter
  <2>6. p.hops \in Nat
    BY PacketFields DEF MaxHops
  <2>7. ~(p.hops <= paths[d].hops) /\ ~(paths[d].expires <= now)
    BY <2>1, <2>5, <2>6
  <2>8. \A k \in DOMAIN paths[d].blobs : p.body.blob.ts > paths[d].blobs[k].ts
    BY <2>3, <2>4, <2>7 DEF Replaces
  <2>9. paths'[d].wire.body = p.body
    BY <2>3, <2>5, RelayFormValid DEF Acceptable
  <2>10. p.body.blob.ts \in Nat
    BY <2>3 DEF Acceptable, ValidAnnounce, AnnounceBody, Blob
  <2>11. \A k \in DOMAIN paths[d].blobs : paths[d].blobs[k].ts \in Nat
    <3>1. paths[d].blobs \in Seq(Blob)
      BY <2>1 DEF PathEntry
    <3>2. \A k \in DOMAIN paths[d].blobs : paths[d].blobs[k] \in Blob
      BY <3>1
    <3> QED
      BY <3>2 DEF Blob
  <2> QED
    BY <2>8, <2>9, <2>10, <2>11
<1> HIDE DEF OnlyForNews
<1>2. Spec => [][OnlyForNews]_vars
  BY <1>1, TypeCorrect, PTL DEF Spec
<1> QED
  BY <1>2 DEF RouteWorsensOnlyForNews, OnlyForNews

-----------------------------------------------------------------------------
(* Receipts and answers. *)

\* Only forwarded DATA, which has not been seen before, adds a receipt that is
\* due; every other step at most removes some.
LEMMA ReceiptStep ==
  ASSUME TypeOK, [Next]_vars, NEW h \in DOMAIN reverseTable,
         h \in DOMAIN reverseTable', Contains(hashlist, h)
  PROVE  reverseTable'[h] = reverseTable[h]
<1>1. ASSUME NEW i \in Iface, NEW w \in Wire, Inbound(i, w)
      PROVE  reverseTable'[h] = reverseTable[h]
  <2>1. CASE ForwardData(i, Bumped(w))
    <3>1. HashablePart(Bumped(w)) # h
      BY <1>1 DEF Inbound, SeenBefore
    <3> QED
      BY <2>1, <3>1 DEF ForwardData, Put
  <2>2. CASE ForwardProof(i, Bumped(w))
    BY <2>2 DEF ForwardProof, Without
  <2>3. CASE ~ForwardData(i, Bumped(w)) /\ ~ForwardProof(i, Bumped(w))
    <3>1. reverseTable' = reverseTable
      BY <1>1, <2>3
         DEF Inbound, Handle, AcceptAnnounce, RejectAnnounce, AnswerForLocal,
             AnswerFromPath, ForwardPathRequest, LeavePathRequest, LeaveData, LeaveProof,
             ForwardLinkRequest, LeaveLinkRequest, ForwardLinkProof, LeaveLinkProof,
             ForwardLinkData, LeaveLinkData, tables
    <3> QED
      BY <3>1
  <2> QED
    BY <2>1, <2>2, <2>3
<1>2. CASE Tick
  BY <1>2 DEF Tick, Without
<1>3. CASE UNCHANGED reverseTable
  BY <1>3
<1> QED
  BY <1>1, <1>2, <1>3
     DEF Next, DropDuplicate, Blackhole, Unblackhole, Elapse, vars, tables

\* No later copy of a DATA packet redirects its receipt or extends its time.
THEOREM ReceiptsStay == Spec => ReceiptNotRedirected
<1> DEFINE Stays == \A h \in DOMAIN reverseTable \cap DOMAIN reverseTable' :
                      Contains(hashlist, h) => reverseTable'[h] = reverseTable[h]
<1>1. TypeOK /\ [Next]_vars => [Stays]_vars
  BY ReceiptStep
<1> HIDE DEF Stays
<1>2. Spec => [][Stays]_vars
  BY <1>1, TypeCorrect, PTL DEF Spec
<1> QED
  BY <1>2 DEF ReceiptNotRedirected, Stays

\* An answer made from the path table names a route of ours that is usable.
LEMMA AnswerFromPathHonoured ==
  ASSUME TypeOK, HeldAnnouncesValidate, AdvertisedIsRelayable,
         NEW i \in Iface, NEW p \in Packets, AnswerFromPath(i, p)
  PROVE  AnswersAreHonoured'
<1> DEFINE d == p.body.target
           w == paths[d].wire
<1>1. /\ d \in DOMAIN paths /\ paths' = paths
      /\ out' = {Emit(i, "PathResponse", PathResponse(d))}
  BY DEF AnswerFromPath, AnswerableFromPath
<1>2. w \in Packets
  BY <1>1 DEF TypeOK, IsTable, PathEntry
<1>3. /\ ValidAnnounce(w) /\ w.dest = d /\ w.tid = Us /\ w.hops = paths[d].hops
      /\ CanRelay(paths[d])
  BY <1>1 DEF HeldAnnouncesValidate, Reemittable, AdvertisedIsRelayable
<1>4. /\ PathResponse(d).type = w.type /\ PathResponse(d).dtype = w.dtype
      /\ PathResponse(d).body = w.body /\ PathResponse(d).cflag = w.cflag
      /\ PathResponse(d).dest = w.dest /\ PathResponse(d).tid = w.tid
      /\ PathResponse(d).hops = w.hops
  BY <1>2 DEF PathResponse, Packets
<1> HIDE DEF d, w
<1>5. ValidAnnounce(PathResponse(d))
  BY <1>3, <1>4 DEF ValidAnnounce
<1>6. \A e \in out' : e.wire = PathResponse(d)
  BY <1>1 DEF Emit
<1> QED
  BY <1>1, <1>3, <1>4, <1>5, <1>6 DEF AnswersAreHonoured, CanRelay

\* So does an answer for a destination of our own.
LEMMA AnswerForLocalHonoured ==
  ASSUME NEW i \in Iface, NEW p \in Packets, AnswerForLocal(i, p)
  PROVE  AnswersAreHonoured'
<1> DEFINE d == p.body.target
<1>1. PICK s \in Seed :
        out' = {Emit(i, "PathResponse", OwnAnnounce(d, s, "PATH_RESPONSE"))}
  BY DEF AnswerForLocal
<1>2. d \in LocalDest /\ d \in Addr
  BY DEF AnswerForLocal
<1> HIDE DEF d
<1> DEFINE w == OwnAnnounce(d, s, "PATH_RESPONSE")
           body == [key |-> Us, blob |-> s, ratchet |-> FALSE, derived |-> d, signs |-> d]
<1>3. /\ body \in AnnounceBody
      /\ body.key = Us /\ body.ratchet = FALSE /\ body.signs = d /\ body.derived = d
  BY <1>2 DEF AnnounceBody
<1>4. /\ w.type = "ANNOUNCE" /\ w.dtype = "SINGLE" /\ w.cflag = FALSE
      /\ w.dest = d /\ w.hops = 0 /\ w.body = body
  BY DEF OwnAnnounce
<1>5. \A e \in out' : e.wire = w
  BY <1>1 DEF Emit
<1> HIDE DEF w, body
<1>6. ValidAnnounce(w) /\ w.body.key = Us
  BY <1>3, <1>4 DEF ValidAnnounce
<1> QED
  BY <1>2, <1>4, <1>5, <1>6 DEF AnswersAreHonoured

LEMMA AnswersStep ==
  ASSUME TypeOK, HeldAnnouncesValidate, AdvertisedIsRelayable, AnswersAreHonoured,
         [Next]_vars
  PROVE  AnswersAreHonoured'
<1>1. ASSUME \A e \in out' : e.kind # "PathResponse"
      PROVE  AnswersAreHonoured'
  BY <1>1 DEF AnswersAreHonoured
<1>2. ASSUME NEW i \in Iface, NEW w \in Wire, Inbound(i, w)
      PROVE  AnswersAreHonoured'
  <2>1. CASE AnswerFromPath(i, Bumped(w))
    BY <2>1, ArrivalType, AnswerFromPathHonoured
  <2>2. CASE AnswerForLocal(i, Bumped(w))
    BY <2>2, ArrivalType, AnswerForLocalHonoured
  <2>3. CASE ~AnswerFromPath(i, Bumped(w)) /\ ~AnswerForLocal(i, Bumped(w))
    <3>1. \A e \in out' : e.kind # "PathResponse"
      BY <1>2, <2>3
         DEF Inbound, Handle, Emit, AcceptAnnounce, RejectAnnounce, ForwardPathRequest,
             LeavePathRequest, ForwardData, LeaveData, ForwardProof, LeaveProof,
             ForwardLinkRequest, LeaveLinkRequest, ForwardLinkProof, LeaveLinkProof,
             ForwardLinkData, LeaveLinkData
    <3> QED
      BY <1>1, <3>1
  <2> QED
    BY <2>1, <2>2, <2>3
<1>3. CASE Tick
  <2>1. \A e \in RebroadcastAll : e.kind = "Rebroadcast"
    BY DEF RebroadcastAll, Emit
  <2>2. \A e \in out' : e.kind \in {"Rebroadcast", "OwnAnnounce"}
    BY <1>3, <2>1 DEF Tick, Emit
  <2> QED
    BY <1>1, <2>2
<1>4. CASE out' = {}
  BY <1>1, <1>4
<1>5. CASE UNCHANGED vars
  BY <1>5 DEF vars, AnswersAreHonoured, CanRelay
<1>6. CASE \/ \E w \in Wire : DropDuplicate(w)
           \/ \E id \in Suspect : Blackhole(id) \/ Unblackhole(id)
           \/ Elapse
  BY <1>4, <1>6 DEF DropDuplicate, Blackhole, Unblackhole, Elapse
<1> QED
  BY <1>2, <1>3, <1>5, <1>6 DEF Next

\* Whoever follows a path response of ours is served: it validates, and it
\* names a destination of ours or a route through us, at its length, that we
\* can forward over.
THEOREM AnswersHonoured ==
  ASSUME OriginatorsOnly
  PROVE  Spec => []AnswersAreHonoured
<1>1. Init => AnswersAreHonoured
  BY DEF Init, AnswersAreHonoured
<1>2. TypeOK /\ HeldAnnouncesValidate /\ AdvertisedIsRelayable /\ AnswersAreHonoured
        /\ [Next]_vars => AnswersAreHonoured'
  BY AnswersStep
<1> QED
  BY <1>1, <1>2, TypeCorrect, HeldAnnouncesCorrect, AdvertisedCorrect, PTL DEF Spec

-----------------------------------------------------------------------------
(* Links: the relay keeps the promise of LinkRelay.  Every step of         *)
(* Transport is, seen through LinkView and CrossingView, a step of         *)
(* LinkRelay or none.  What goes on over a link is what came.              *)

\* The id of a link is that of the request on the wire.
LEMMA LinkIdArrives ==
  ASSUME NEW w \in Wire, IsLinkRequest(Bumped(w))
  PROVE  LinkIdOf(Bumped(w)) \in LinkIds
<1>1. Bumped(w).type = w.type /\ Bumped(w).body = w.body
  BY DEF Bumped, Packets
<1>2. HashablePart(Bumped(w)) = HashablePart(w)
  BY DEF Bumped, Packets, HashablePart
<1>3. LinkIdOf(Bumped(w)) = LinkIdOf(w)
  BY <1>1, <1>2 DEF LinkIdOf
<1> QED
  BY <1>1, <1>3 DEF LinkIds, IsLinkRequest

LEMMA OneCrossing ==
  ASSUME NEW i, NEW w, out' = {Emit(i, "LinkForward", w)}
  PROVE  CrossingView' = {[link |-> LinkOfEmission(w), what |-> MeaningOf(w), to |-> i,
                           by |-> IF IsLinkProof(w) THEN w.body.signer ELSE NoId]}
<1> DEFINE e == Emit(i, "LinkForward", w)
<1>1. e.kind = "LinkForward" /\ e.wire = w /\ e.iface = i
  BY DEF Emit
<1> HIDE DEF e
<1>2. {x \in out' : x.kind = "LinkForward"} = {e}
  BY <1>1 DEF e
<1> QED
  BY <1>1, <1>2 DEF CrossingView

LEMMA NoCrossing ==
  ASSUME \A e \in out' : e.kind # "LinkForward"
  PROVE  CrossingView' = {}
BY DEF CrossingView

-----------------------------------------------------------------------------
(* Every link was asked for, and its destination has a key. *)

LinksGrounded ==
  \A l \in DOMAIN linkTable : l \in LinkIds /\ linkTable[l].dst \in DOMAIN known

\* The steps that pass nothing on over a link: at most they forget links.
Forgets ==
  /\ \A e \in out' : e.kind # "LinkForward"
  /\ \E gone \in SUBSET DOMAIN linkTable : linkTable' = Without(linkTable, gone)

LinkStep(i, p) ==
  ForwardLinkRequest(i, p) \/ ForwardLinkProof(i, p) \/ ForwardLinkData(i, p)

LEMMA ForgetsNone ==
  ASSUME TypeOK, linkTable' = linkTable, \A e \in out' : e.kind # "LinkForward"
  PROVE  Forgets
<1>1. linkTable = Without(linkTable, {})
  BY DEF TypeOK, IsTable, Without
<1> QED
  BY <1>1 DEF Forgets

LEMMA LinkStepKinds ==
  ASSUME TypeOK, [Next]_vars
  PROVE  \/ Forgets
         \/ \E i \in Iface, w \in Wire : LinkStep(i, Bumped(w))
         \/ UNCHANGED vars
<1>1. ASSUME NEW i \in Iface, NEW w \in Wire, Inbound(i, w), ~LinkStep(i, Bumped(w))
      PROVE  Forgets
  <2>1. linkTable' = linkTable /\ \A e \in out' : e.kind # "LinkForward"
    BY <1>1
       DEF Inbound, Handle, LinkStep, Emit, AcceptAnnounce, RejectAnnounce,
           AnswerForLocal, AnswerFromPath, ForwardPathRequest, LeavePathRequest,
           ForwardData, LeaveData, ForwardProof, LeaveProof, LeaveLinkRequest,
           LeaveLinkProof, LeaveLinkData, tables
  <2> QED
    BY <2>1, ForgetsNone
<1>2. CASE Tick
  <2>1. linkTable' = Without(linkTable, UnprovenLinks \cup StaleLinks)
    BY <1>2 DEF Tick
  <2>2. \A e \in RebroadcastAll : e.kind = "Rebroadcast"
    BY DEF RebroadcastAll, Emit
  <2>3. \A e \in out' : e.kind \in {"Rebroadcast", "OwnAnnounce"}
    BY <1>2, <2>2 DEF Tick, Emit
  <2>4. UnprovenLinks \cup StaleLinks \subseteq DOMAIN linkTable
    BY DEF UnprovenLinks, StaleLinks
  <2> QED
    BY <2>1, <2>3, <2>4 DEF Forgets
<1>3. CASE linkTable' = linkTable /\ out' = {}
  BY <1>3, ForgetsNone
<1> QED
  BY <1>1, <1>2, <1>3 DEF Next, DropDuplicate, Blackhole, Unblackhole, Elapse, tables

-----------------------------------------------------------------------------
(* Each of the three link handlers is a step of the promise. *)

LEMMA RequestKept ==
  ASSUME TypeOK, HeldAnnouncesValidate, NEW i \in Iface, NEW w \in Wire,
         ForwardLinkRequest(i, Bumped(w))
  PROVE  /\ Promise!Next
         /\ LinksGrounded => LinksGrounded'
<1> DEFINE p     == Bumped(w)
           l     == LinkIdOf(p)
           route == paths[p.dest]
           fwd   == ClampSignalling(Relayed(p, route), HwMtu[route.iface])
           entry == [nhIf |-> route.iface, rcvdIf |-> i, dst |-> p.dest,
                     validated |-> FALSE, proofTimeout |-> now + ProofTimeout,
                     lastActivity |-> now]
           view  == [initiator |-> i, responder |-> route.iface, key |-> known[p.dest],
                     proven |-> FALSE]
<1>1. /\ p \in Packets /\ IsLinkRequest(p) /\ OursToRelay(p) /\ known' = known
      /\ out' = {Emit(route.iface, "LinkForward", fwd)}
      /\ linkTable' = Put(linkTable, l, entry)
  BY ArrivalType DEF ForwardLinkRequest
<1>2. route \in PathEntry /\ route.iface \in Iface /\ HwMtu[route.iface] \in Nat
  BY <1>1, RelayedType, TypeOKParts DEF PathEntry
<1>3. p.dest \in DOMAIN known /\ known[p.dest] \in Id
  BY <1>1 DEF OursToRelay, HeldAnnouncesValidate, Reemittable, TypeOK, IsTable
<1>4. IsLinkRequest(fwd) /\ LinkIdOf(fwd) = l
  BY <1>1, <1>2, ForwardedRequest, TypeOKParts
<1>5. l \in LinkIds
  BY <1>1, LinkIdArrives
<1>6. /\ entry.rcvdIf = i /\ entry.nhIf = route.iface /\ entry.dst = p.dest
      /\ entry.validated = FALSE
  OBVIOUS
<1> HIDE DEF p, l, route, fwd, entry
<1>7. CrossingView' = {[link |-> l, what |-> "request", to |-> route.iface, by |-> NoId]}
  BY <1>1, <1>4, OneCrossing DEF LinkOfEmission, MeaningOf, IsLinkRequest, IsLinkProof
<1>8. LinkView' = Put(LinkView, l, view)
  BY <1>1, <1>6 DEF LinkView, Put
<1>9. Promise!Request(l, i, route.iface, known[p.dest])
  BY <1>7, <1>8 DEF Promise!Request, Promise!Cross, Promise!Put, Put
<1>10. Promise!Next
  BY <1>2, <1>3, <1>5, <1>9 DEF Promise!Next
<1>11. ASSUME LinksGrounded PROVE LinksGrounded'
  BY <1>1, <1>3, <1>5, <1>6, <1>11 DEF LinksGrounded, Put
<1> QED
  BY <1>10, <1>11

LEMMA ProofKept ==
  ASSUME TypeOK, LinksGrounded, NEW i \in Iface, NEW w \in Wire,
         ForwardLinkProof(i, Bumped(w))
  PROVE  Promise!Next /\ LinksGrounded'
<1> DEFINE p == Bumped(w)
           l == p.dest
<1>1. /\ IsLinkProof(p) /\ l \in DOMAIN linkTable /\ known' = known
      /\ p.body.signer = known[linkTable[l].dst]
      /\ out' = {Emit(linkTable[l].rcvdIf, "LinkForward", p)}
      /\ linkTable' = [linkTable EXCEPT ![l].validated = TRUE, ![l].lastActivity = now]
  BY DEF ForwardLinkProof, LinkProofAccepted
<1>2. linkTable[l] \in LinkEntry /\ l \in LinkIds
  BY <1>1 DEF TypeOK, IsTable, LinksGrounded
<1> HIDE DEF p, l
<1>3. /\ DOMAIN linkTable' = DOMAIN linkTable
      /\ \A x \in DOMAIN linkTable : x # l => linkTable'[x] = linkTable[x]
      /\ linkTable'[l].rcvdIf = linkTable[l].rcvdIf
      /\ linkTable'[l].nhIf = linkTable[l].nhIf
      /\ linkTable'[l].dst = linkTable[l].dst
      /\ linkTable'[l].validated = TRUE
  BY <1>1, <1>2 DEF LinkEntry
<1>4. CrossingView' = {[link |-> l, what |-> "proof", to |-> LinkView[l].initiator,
                        by |-> LinkView[l].key]}
  <2>1. LinkOfEmission(p) = l /\ MeaningOf(p) = "proof"
    BY <1>1 DEF LinkOfEmission, MeaningOf, IsLinkProof, IsLinkRequest, l
  <2> QED
    BY <1>1, <2>1, OneCrossing DEF LinkView
<1>5. LinkView' = [LinkView EXCEPT ![l].proven = TRUE]
  BY <1>1, <1>3 DEF LinkView
<1>6. Promise!Prove(l)
  BY <1>1, <1>4, <1>5 DEF Promise!Prove, Promise!Cross, LinkView
<1>7. Promise!Next
  BY <1>2, <1>6 DEF Promise!Next
<1>8. LinksGrounded'
  BY <1>1, <1>3 DEF LinksGrounded
<1> QED
  BY <1>7, <1>8

LEMMA DataKept ==
  ASSUME TypeOK, LinksGrounded, NEW i \in Iface, NEW w \in Wire,
         ForwardLinkData(i, Bumped(w))
  PROVE  Promise!Next /\ LinksGrounded'
<1> DEFINE p  == Bumped(w)
           l  == p.dest
           to == OtherSide(linkTable[l], i)
<1>1. /\ IsLinkData(p) /\ l \in DOMAIN linkTable /\ known' = known
      /\ linkTable[l].validated
      /\ i \in {linkTable[l].rcvdIf, linkTable[l].nhIf}
      /\ out' = {Emit(to, "LinkForward", p)}
      /\ linkTable' = LinkAfter(p)
  BY DEF ForwardLinkData, LinkDataAccepted
<1>2. linkTable[l] \in LinkEntry /\ l \in LinkIds
  BY <1>1 DEF TypeOK, IsTable, LinksGrounded
<1>3. to \in Iface
  BY <1>2 DEF OtherSide, LinkEntry
<1>4. Promise!Crosses(l, i, to)
  BY <1>1 DEF Promise!Crosses, LinkView, OtherSide
<1> HIDE DEF to
<1>5. /\ LinkOfEmission(p) = l /\ ~IsLinkProof(p)
      /\ MeaningOf(p) = IF p.ctx = "LINKCLOSE" THEN "close" ELSE "traffic"
  BY <1>1 DEF LinkOfEmission, MeaningOf, IsLinkProof, IsLinkRequest, IsLinkData
<1> HIDE DEF p, l
<1>6. CrossingView' = {[link |-> l, what |-> MeaningOf(p), to |-> to, by |-> NoId]}
  BY <1>1, <1>5, OneCrossing
<1>7. CASE p.ctx = "LINKCLOSE"
  <2>1. linkTable' = Without(linkTable, {l})
    BY <1>1, <1>7 DEF LinkAfter, l
  <2>2. LinkView' = Without(LinkView, {l})
    BY <1>1, <2>1 DEF LinkView, Without
  <2>3. Promise!Close(l, i, to)
    BY <1>4, <1>5, <1>6, <1>7, <2>2
       DEF Promise!Close, Promise!Cross, Promise!Without, Without
  <2>4. LinksGrounded'
    BY <1>1, <2>1 DEF LinksGrounded, Without
  <2> QED
    BY <1>2, <1>3, <2>3, <2>4 DEF Promise!Next
<1>8. CASE p.ctx # "LINKCLOSE"
  <2>1. linkTable' = [linkTable EXCEPT ![l].lastActivity = now]
    BY <1>1, <1>8 DEF LinkAfter, l
  <2>2. /\ DOMAIN linkTable' = DOMAIN linkTable
        /\ \A x \in DOMAIN linkTable :
             /\ linkTable'[x].rcvdIf = linkTable[x].rcvdIf
             /\ linkTable'[x].nhIf = linkTable[x].nhIf
             /\ linkTable'[x].dst = linkTable[x].dst
             /\ linkTable'[x].validated = linkTable[x].validated
    BY <1>2, <2>1 DEF LinkEntry
  <2>3. LinkView' = LinkView
    BY <1>1, <2>2 DEF LinkView
  <2>4. Promise!Carry(l, i, to)
    BY <1>4, <1>5, <1>6, <1>8, <2>3 DEF Promise!Carry, Promise!Cross
  <2>5. LinksGrounded'
    BY <1>1, <2>2 DEF LinksGrounded
  <2> QED
    BY <1>2, <1>3, <2>4, <2>5 DEF Promise!Next
<1> QED
  BY <1>7, <1>8

\* Whatever else the relay does, the keys of its links stay.
LEMMA ForgetsKept ==
  ASSUME TypeOK, LinksGrounded, [Next]_vars, Forgets
  PROVE  Promise!Next /\ LinksGrounded'
<1>1. PICK gone \in SUBSET DOMAIN linkTable : linkTable' = Without(linkTable, gone)
  BY DEF Forgets
<1>2. /\ DOMAIN linkTable' = DOMAIN linkTable \ gone
      /\ \A l \in DOMAIN linkTable' : linkTable'[l] = linkTable[l]
  BY <1>1 DEF Without
<1>3. \A l \in DOMAIN linkTable :
        /\ linkTable[l].dst \in DOMAIN known'
        /\ known'[linkTable[l].dst] = known[linkTable[l].dst]
  BY KeyStep DEF LinksGrounded
<1>4. LinkView' = Without(LinkView, gone)
  BY <1>2, <1>3 DEF LinkView, Without
<1>5. CrossingView' = {}
  BY NoCrossing DEF Forgets
<1>6. Promise!Forget(gone)
  BY <1>4, <1>5 DEF Promise!Forget, Promise!Without, Without
<1>7. gone \in SUBSET DOMAIN LinkView
  BY DEF LinkView
<1>8. Promise!Next
  BY <1>6, <1>7 DEF Promise!Next
<1>9. LinksGrounded'
  BY <1>2, <1>3 DEF LinksGrounded
<1> QED
  BY <1>8, <1>9

LEMMA PromiseStep ==
  ASSUME TypeOK, HeldAnnouncesValidate, LinksGrounded, [Next]_vars
  PROVE  LinksGrounded' /\ [Promise!Next]_(Promise!vars)
<1>1. CASE Forgets
  BY <1>1, ForgetsKept
<1>2. CASE \E i \in Iface, w \in Wire : LinkStep(i, Bumped(w))
  BY <1>2, RequestKept, ProofKept, DataKept DEF LinkStep
<1>3. CASE UNCHANGED vars
  BY <1>3 DEF vars, LinksGrounded, Promise!vars, LinkView, CrossingView
<1> QED
  BY <1>1, <1>2, <1>3, LinkStepKinds

\* What happens to links at the relay is what their ends may expect, for any
\* interfaces, routes, link requests and proofs.
THEOREM LinksKeepPromise == Spec => LinkPromise
<1>1. Init => LinksGrounded /\ Promise!Init
  BY DEF Init, EmptyTable, LinksGrounded, Promise!Init, Promise!EmptyTable, LinkView,
         CrossingView
<1>2. TypeOK /\ HeldAnnouncesValidate /\ LinksGrounded /\ [Next]_vars
        => LinksGrounded' /\ [Promise!Next]_(Promise!vars)
  BY PromiseStep
<1> QED
  BY <1>1, <1>2, TypeCorrect, HeldAnnouncesCorrect, PTL
     DEF Spec, LinkPromise, Promise!Spec

-----------------------------------------------------------------------------
(* The firmware's loop drives the relay through its two entry points only, *)
(* so what is proved above of the relay holds in the loop; and the order   *)
(* of the two calls gives the rest.                                        *)

LEMMA LoopStepIsStep ==
  ASSUME [LoopNext]_loopVars
  PROVE  [Next]_vars
BY DEF LoopNext, Delay, LoopTick, Receive, NothingReceived, Next, loopVars

\* The firmware uses the relay as its interface allows: every theorem about
\* Spec is one about the loop.
THEOREM LoopImplementsTransport == LoopSpec => Spec
<1>1. LoopInit => Init
  BY DEF LoopInit
<1>2. [LoopNext]_loopVars => [Next]_vars
  BY LoopStepIsStep
<1> QED
  BY <1>1, <1>2, PTL DEF LoopSpec, Spec

\* In the loop no entry has expired when a packet is handled.
THEOREM LoopFreshWhenUsed == LoopSpec => []FreshWhenUsed
<1>1. LoopInit => FreshWhenUsed
  BY DEF LoopInit, FreshWhenUsed
<1>2. ASSUME TypeOK, FreshWhenUsed, [LoopNext]_loopVars
      PROVE  FreshWhenUsed'
  <2>1. CASE LoopTick
    <3>1. now' = now /\ now \in Nat
      BY <1>2, <2>1 DEF LoopTick, Tick, TypeOK
    <3>2. \A d \in DOMAIN paths' : now < paths'[d].expires
      <4>1. \A d \in DOMAIN paths : paths[d].expires \in Nat
        BY <1>2 DEF TypeOK, IsTable, PathEntry
      <4> QED
        BY <2>1, <3>1, <4>1 DEF LoopTick, Tick, Without, ExpiredPaths
    <3>3. \A h \in DOMAIN reverseTable' : now < reverseTable'[h].at + ReverseTimeout
      <4>1. \A h \in DOMAIN reverseTable : reverseTable[h].at \in Nat
        BY <1>2 DEF TypeOK, IsTable, ReverseEntry
      <4> QED
        BY <2>1, <3>1, <4>1 DEF LoopTick, Tick, Without, AgedReceipts
    <3>4. \A l \in DOMAIN linkTable' :
            now < IF linkTable'[l].validated THEN linkTable'[l].lastActivity + LinkStale
                                             ELSE linkTable'[l].proofTimeout
      <4>1. \A l \in DOMAIN linkTable :
              /\ linkTable[l].lastActivity \in Nat /\ linkTable[l].proofTimeout \in Nat
              /\ linkTable[l].validated \in BOOLEAN
        BY <1>2 DEF TypeOK, IsTable, LinkEntry
      <4> QED
        BY <2>1, <3>1, <4>1 DEF LoopTick, Tick, Without, UnprovenLinks, StaleLinks
    <3> QED
      BY <3>1, <3>2, <3>3, <3>4 DEF FreshWhenUsed
  <2>2. CASE Delay \/ Receive \/ NothingReceived
    BY <2>2 DEF Delay, Receive, NothingReceived, FreshWhenUsed
  <2>3. CASE UNCHANGED loopVars
    BY <1>2, <2>3 DEF loopVars, vars, FreshWhenUsed
  <2> QED
    BY <1>2, <2>1, <2>2, <2>3 DEF LoopNext
<1>3. TypeOK /\ FreshWhenUsed /\ [LoopNext]_loopVars => FreshWhenUsed'
  BY <1>2
<1> QED
  BY <1>1, <1>3, TypeCorrect, LoopImplementsTransport, PTL DEF LoopSpec

\* Between a tick and the packet that follows it nothing waits to be
\* rebroadcast: the tick took all there was.
DrainedBeforeReceive == phase = "rx" => DOMAIN announceTable = {}

LEMMA DrainStep ==
  ASSUME WaitingIsDue, DrainedBeforeReceive, [LoopNext]_loopVars
  PROVE  DrainedBeforeReceive'
<1>1. CASE LoopTick
  <2>1. DueAnnounces = DOMAIN announceTable
    BY DEF WaitingIsDue, DueAnnounces
  <2> QED
    BY <1>1, <2>1 DEF LoopTick, Tick, Without, DrainedBeforeReceive
<1>2. CASE Delay \/ Receive \/ NothingReceived
  BY <1>2 DEF Delay, Receive, NothingReceived, DrainedBeforeReceive
<1>3. CASE UNCHANGED loopVars
  BY <1>3 DEF loopVars, vars, DrainedBeforeReceive
<1> QED
  BY <1>1, <1>2, <1>3 DEF LoopNext

\* No announce waiting to be rebroadcast is overwritten before a tick has
\* taken it.
THEOREM LoopNoPendingDisplaced == LoopSpec => NoPendingDisplaced
<1> DEFINE Kept == \A d \in DOMAIN announceTable :
                     d \in DOMAIN announceTable' => announceTable'[d] = announceTable[d]
<1>1. DrainedBeforeReceive /\ [LoopNext]_loopVars => Kept
  <2> SUFFICES ASSUME DrainedBeforeReceive, [LoopNext]_loopVars PROVE Kept
    OBVIOUS
  <2>1. CASE LoopTick
    BY <2>1 DEF LoopTick, Tick, Without
  <2>2. CASE Receive
    BY <2>2 DEF Receive, DrainedBeforeReceive
  <2>3. CASE Delay \/ NothingReceived \/ UNCHANGED loopVars
    BY <2>3 DEF Delay, Elapse, NothingReceived, loopVars, vars, tables
  <2> QED
    BY <2>1, <2>2, <2>3 DEF LoopNext
<1>2. LoopInit => WaitingIsDue /\ DrainedBeforeReceive
  BY DEF LoopInit, Init, EmptyTable, WaitingIsDue, DrainedBeforeReceive
<1>3. DrainedBeforeReceive /\ [LoopNext]_loopVars => [Kept]_loopVars
  BY <1>1
<1>4. Spec => []WaitingIsDue
  BY EchoHolds, PTL DEF EchoInv
<1>5. WaitingIsDue /\ DrainedBeforeReceive /\ [LoopNext]_loopVars => DrainedBeforeReceive'
  BY DrainStep
<1> HIDE DEF Kept
<1>6. LoopSpec => [][Kept]_loopVars
  BY <1>2, <1>3, <1>4, <1>5, LoopImplementsTransport, PTL DEF LoopSpec
<1> QED
  BY <1>6 DEF NoPendingDisplaced, Kept

-----------------------------------------------------------------------------
(* The ring knows all that has been sent on. *)

\* Whatever a handler sends on, a request apart, hashes as what came.
LEMMA SentOnHashes ==
  ASSUME TypeOK, NEW i \in Iface, NEW w \in Wire, Inbound(i, w), NEW e \in out',
         e.kind \notin {"OwnAnnounce", "PathResponse"}, ~IsLinkRequest(e.wire)
  PROVE  HashablePart(e.wire) = HashablePart(Bumped(w))
<1> DEFINE p == Bumped(w)
<1>1. p \in Packets /\ Handle(i, p) /\ TablesOK
  BY ArrivalType, TypeOKParts DEF Inbound
<1> HIDE DEF p
<1> SUFFICES HashablePart(e.wire) = HashablePart(p)
  BY DEF p
<1>2. CASE ForwardData(i, p)
  <2>1. paths[p.dest] \in PathEntry /\ e.wire = Relayed(p, paths[p.dest])
    BY <1>1, <1>2, RelayedType DEF ForwardData, Emit
  <2> QED
    BY <1>1, <2>1
       DEF Relayed, ReplaceTransportId, StripTransportIdToHeader1, HashablePart, Packets
<1>3. CASE ForwardLinkRequest(i, p)
  <2> DEFINE route == paths[p.dest]
  <2>1. /\ IsLinkRequest(p) /\ OursToRelay(p)
        /\ e.wire = ClampSignalling(Relayed(p, route), HwMtu[route.iface])
    BY <1>3 DEF ForwardLinkRequest, Emit
  <2>2. route.iface \in Iface /\ HwMtu[route.iface] \in Nat
    BY <1>1, <2>1, RelayedType DEF PathEntry
  <2>3. IsLinkRequest(e.wire)
    BY <1>1, <2>1, <2>2, ForwardedRequest
  <2> QED
    BY <2>3
<1>4. CASE AnswerForLocal(i, p) \/ AnswerFromPath(i, p)
  BY <1>4 DEF AnswerForLocal, AnswerFromPath, Emit
<1>5. CASE ForwardPathRequest(i, p) \/ ForwardProof(i, p) \/ ForwardLinkProof(i, p)
             \/ ForwardLinkData(i, p)
  BY <1>5 DEF ForwardPathRequest, ForwardProof, ForwardLinkProof, ForwardLinkData, Emit
<1>6. CASE out' = {}
  BY <1>6
<1> QED
  BY <1>1, <1>2, <1>3, <1>4, <1>5, <1>6
     DEF Handle, AcceptAnnounce, RejectAnnounce, LeavePathRequest, LeaveData, LeaveProof,
         LeaveLinkRequest, LeaveLinkProof, LeaveLinkData

\* The announce waiting to be rebroadcast, if there is one, arrived last: so
\* the purge of the tick that emits it does not take its hash.
LoopEchoInv ==
  /\ DrainedBeforeReceive
  /\ Sound(hashlist)
  /\ \A d \in DOMAIN announceTable :
       IsNewest(hashlist, HashablePart(announceTable[d].wire))
  /\ EchoRecognised

LEMMA TickEcho ==
  ASSUME TypeOK, WaitingIsDue, LoopEchoInv, LoopTick
  PROVE  LoopEchoInv'
<1>1. /\ hashlist \in RingsOf(Hashable) /\ Sound(hashlist)
      /\ hashlist' = RingPurge(hashlist, HashlistMax)
  BY TypeOKParts DEF LoopEchoInv, LoopTick, Tick
<1>2. /\ Sound(hashlist')
      /\ \A h : IsNewest(hashlist, h) => Contains(hashlist', h)
  BY <1>1, PurgeSound
<1>3. DOMAIN announceTable' = {}
  <2>1. DueAnnounces = DOMAIN announceTable
    BY DEF WaitingIsDue, DueAnnounces
  <2> QED
    BY <2>1 DEF LoopTick, Tick, Without
<1>4. EchoRecognised'
  <2>1. \A e \in RebroadcastAll : \E d \in DOMAIN announceTable : e.wire = announceTable[d].wire
    BY DEF RebroadcastAll, DueAnnounces, Emit
  <2>2. \A e \in out' : e \in RebroadcastAll \/ e.kind = "OwnAnnounce"
    BY DEF LoopTick, Tick, Emit
  <2> QED
    BY <1>2, <2>1, <2>2 DEF LoopEchoInv, EchoRecognised
<1> QED
  BY <1>2, <1>3, <1>4 DEF LoopEchoInv, DrainedBeforeReceive

LEMMA InboundEcho ==
  ASSUME TypeOK, LoopEchoInv, phase = "rx", phase' = "tick",
         NEW i \in Iface, NEW w \in Wire, Inbound(i, w)
  PROVE  LoopEchoInv'
<1> DEFINE h == HashablePart(Bumped(w))
<1>1. /\ hashlist \in RingsOf(Hashable) /\ Sound(hashlist) /\ ~Contains(hashlist, h)
      /\ hashlist' = RingInsert(hashlist, h)
  BY TypeOKParts DEF LoopEchoInv, Inbound, SeenBefore
<1>2. h \in Hashable
  BY ArrivalType, HashableType
<1> HIDE DEF h
<1>3. Sound(hashlist') /\ IsNewest(hashlist', h) /\ Contains(hashlist', h)
  <2>1. Contains(hashlist', h)
    BY <1>1, <1>2, RingInsertType DEF Contains
  <2> QED
    BY <1>1, <1>2, <2>1, InsertSound
<1>4. DOMAIN announceTable = {}
  BY DEF LoopEchoInv, DrainedBeforeReceive
<1>5. \A d \in DOMAIN announceTable' : HashablePart(announceTable'[d].wire) = h
  <2>1. CASE AcceptAnnounce(i, Bumped(w))
    <3> DEFINE p     == Bumped(w)
               entry == [retransmitAt |-> now, receivedFrom |-> i, wire |-> RelayForm(p)]
    <3>1. HashablePart(entry.wire) = h
      BY <2>1, ArrivalType, RelayFormValid DEF AcceptAnnounce, Acceptable, h
    <3>2. announceTable' \in {announceTable, Put(announceTable, p.dest, entry)}
      BY <2>1 DEF AcceptAnnounce
    <3> HIDE DEF p, entry
    <3> QED
      BY <1>4, <3>1, <3>2 DEF Put
  <2>2. CASE ~AcceptAnnounce(i, Bumped(w))
    BY <1>4, <2>2, OthersKeepRoutes DEF Inbound
  <2> QED
    BY <2>1, <2>2
<1>6. EchoRecognised'
  BY <1>3, SentOnHashes DEF EchoRecognised, h
<1> QED
  BY <1>3, <1>5, <1>6 DEF LoopEchoInv, DrainedBeforeReceive

LEMMA LoopEchoStep ==
  ASSUME TypeOK, WaitingIsDue, LoopEchoInv, [LoopNext]_loopVars
  PROVE  LoopEchoInv'
<1>1. CASE LoopTick
  BY <1>1, TickEcho
<1>2. ASSUME NEW i \in Iface, NEW w \in Wire, Inbound(i, w), phase = "rx", phase' = "tick"
      PROVE  LoopEchoInv'
  BY <1>2, InboundEcho
<1>3. CASE /\ UNCHANGED <<announceTable, hashlist>> /\ out' \in {out, {}}
           /\ phase' \in {phase, "tick"}
  BY <1>3 DEF LoopEchoInv, DrainedBeforeReceive, EchoRecognised
<1>4. CASE Delay \/ NothingReceived \/ UNCHANGED loopVars
  BY <1>3, <1>4 DEF Delay, Elapse, NothingReceived, loopVars, vars, tables
<1>5. ASSUME NEW w \in Wire, DropDuplicate(w), phase' = "tick"
      PROVE  LoopEchoInv'
  BY <1>3, <1>5 DEF DropDuplicate, tables
<1> QED
  BY <1>1, <1>2, <1>4, <1>5 DEF LoopNext, Receive

\* Whatever the relay sends on, requests apart, it recognises when it comes
\* back, however small the ring: the purge in the tick that rebroadcasts an
\* announce does not take its hash.
THEOREM LoopEchoRecognised == LoopSpec => []EchoRecognised
<1>1. LoopInit => LoopEchoInv
  BY DEF LoopInit, Init, EmptyTable, EmptyRing, LoopEchoInv, DrainedBeforeReceive, Sound,
         EchoRecognised
<1>2. TypeOK /\ WaitingIsDue /\ LoopEchoInv /\ [LoopNext]_loopVars => LoopEchoInv'
  BY LoopEchoStep
<1>3. Spec => []WaitingIsDue
  BY EchoHolds, PTL DEF EchoInv
<1>4. LoopEchoInv => EchoRecognised
  BY DEF LoopEchoInv
<1> QED
  BY <1>1, <1>2, <1>3, <1>4, TypeCorrect, LoopImplementsTransport, PTL DEF LoopSpec
=============================================================================
