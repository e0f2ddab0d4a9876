----------------------------- MODULE Transport ------------------------------
(***************************************************************************)
(* One relay: src/src/rns/Transport.cpp and the tables it owns.  The two   *)
(* entry points, inbound() and tick(), are modelled as the API offers      *)
(* them: in any order, at times that never decrease.  RelayLoop composes   *)
(* them the way the firmware does.                                         *)
(*                                                                         *)
(* inbound() runs to completion, so each action is one call: the packet    *)
(* is parsed, its hop counted, its hash recorded, and one handler runs.    *)
(* Packets that do not parse change nothing and are left out, as are the   *)
(* statistics, the observers and the entry fields that are never read.     *)
(*                                                                         *)
(* The definitions without a comment that stand before another one         *)
(* (AcceptableUnbound before Acceptable, ...) are slips this code could    *)
(* have and does not: see "Mutants" in the README.                         *)
(***************************************************************************)
EXTENDS Packet, Tables, HashRing

CONSTANTS
  Iface,             \* the registered interfaces
  Us,                \* the local identity, our transport_id
  LocalDest,         \* registered local destinations
  PathRequestDest,   \* the destination of rnstransport.path.request
  TransportEnabled,  \* relay (TRUE) or leaf
  HasSeedFn,         \* whether set_announce_seed_fn was called
  Seed,              \* random_hash values the seed function may produce
  Schedule,          \* scheduled announces: id -> [dest, period, offset]
  HwMtu,             \* hw_mtu_bytes of each interface
  PathLife,          \* 1 h
  ReverseTimeout,    \* 30 s
  ProofTimeout,      \* 60 s
  LinkStale,         \* 10 min
  MaxRandomBlobs,    \* 32
  HashlistMax,       \* 1000000
  MaxPrTags,         \* 32000
  Suspect,           \* identities the operator may blackhole
  Wire,              \* the packets that may arrive
  MaxTime            \* bound: the clock stops here

ASSUME TransportAssumption ==
  /\ Us \in Id
  /\ LocalDest \subseteq Addr /\ Suspect \subseteq Id
  /\ TransportEnabled \in BOOLEAN /\ HasSeedFn \in BOOLEAN
  /\ Seed \subseteq Blob
  /\ \A s \in DOMAIN Schedule :
       Schedule[s] \in [dest : Addr, period : Nat, offset : Nat]
  /\ HwMtu \in [Iface -> Nat]
  /\ PathLife \in Nat /\ ReverseTimeout \in Nat /\ ProofTimeout \in Nat
  /\ LinkStale \in Nat /\ HashlistMax \in Nat /\ MaxPrTags \in Nat
  /\ MaxRandomBlobs \in Nat \ {0}
  /\ MaxTime \in Nat
  /\ Wire \subseteq Packets
  /\ \A w \in Wire : WellFormed(w)

VARIABLES
  now,            \* now_ms of the latest call
  known,          \* _known_destinations: destination -> public key
  paths,          \* _paths: destination -> route
  announceTable,  \* _announce_table: destination -> announce to re-emit
  reverseTable,   \* _reverse_table: DATA hash -> where its receipt goes
  linkTable,      \* _link_table: link id -> the two sides of the link
  hashlist,       \* _hashlist
  prTags,         \* _pr_tags
  blackholed,     \* _blackholed
  nextEmit,       \* next_emit_ms of each scheduled announce
  out             \* what the latest call handed to the interfaces

tables == <<known, paths, announceTable, reverseTable, linkTable, prTags>>
vars   == <<now, known, paths, announceTable, reverseTable, linkTable,
            hashlist, prTags, blackholed, nextEmit, out>>

PathEntry == [hops : 0 .. MaxHops, nextHop : Id \cup {NoId}, iface : Iface,
              expires : Nat, blobs : Seq(Blob), wire : Packets]
AnnounceEntry == [retransmitAt : Nat, receivedFrom : Iface, wire : Packets]
ReverseEntry  == [receivedIf : Iface, outboundIf : Iface, at : Nat]
LinkEntry == [nhIf : Iface, rcvdIf : Iface, dst : Addr, validated : BOOLEAN,
              proofTimeout : Nat, lastActivity : Nat]

TxKind == {"OwnAnnounce", "PathResponse", "Rebroadcast", "DataForward",
           "ProofForward", "LinkForward", "PathRequestForward"}

\* A call of transmit_now(), or of queue_announce() for a Rebroadcast.
Emission == [iface : Iface, kind : TxKind, wire : Packets]
Emit(i, kind, w) == [iface |-> i, kind |-> kind, wire |-> w]

-----------------------------------------------------------------------------
(* Dispatch: the handler that inbound() picks *)

IsAnnounce(p)    == p.type = "ANNOUNCE"
IsPathRequest(p) == p.type = "DATA" /\ p.dest = PathRequestDest
IsLinkData(p)    == p.type = "DATA" /\ p.dest # PathRequestDest /\ p.dtype = "LINK"
IsData(p)        == p.type = "DATA" /\ p.dest # PathRequestDest /\ p.dtype # "LINK"
IsLinkRequest(p) == p.type = "LINKREQUEST"
IsLinkProof(p)   == p.type = "PROOF" /\ p.ctx = "LRPROOF"
IsProof(p)       == p.type = "PROOF" /\ p.ctx # "LRPROOF"

SeenAnnounce(p) == IsAnnounce(p) /\ Contains(hashlist, HashablePart(p))

\* The packet has been seen: dropped before any handler runs.
SeenBefore(p) == Contains(hashlist, HashablePart(p))

-----------------------------------------------------------------------------
(* Announces *)

AcceptableUnbound(p) ==
  /\ ValidAnnounce(p)
  /\ p.body.key # Us
  /\ p.body.key \notin blackholed

AcceptableBlackholed(p) ==
  /\ ValidAnnounce(p)
  /\ p.body.key # Us
  /\ (p.dest \in DOMAIN known => known[p.dest] = p.body.key)

\* What handle_announce lets through: a valid announce of another identity
\* that is not blackholed, whose destination is not bound to another key.
Acceptable(p) ==
  /\ ValidAnnounce(p)
  /\ p.body.key # Us
  /\ p.body.key \notin blackholed
  /\ (p.dest \in DOMAIN known => known[p.dest] = p.body.key)

\* The form we re-emit: HEADER_2 with our transport_id.
RelayForm(p) ==
  IF p.hdr = 1 THEN OriginatorToHeader2(p, Us) ELSE ReplaceTransportId(p, Us)

BlobsOf(d) == IF d \in DOMAIN paths THEN paths[d].blobs ELSE << >>

KnownBlob(p) == \E k \in DOMAIN BlobsOf(p.dest) : BlobsOf(p.dest)[k] = p.body.blob

\* note_random_blob: the window of the last MaxRandomBlobs blobs.
NoteBlob(blobs, b) ==
  IF \E k \in DOMAIN blobs : blobs[k] = b
    THEN blobs
    ELSE LET longer == Append(blobs, b)
         IN  IF Len(longer) > MaxRandomBlobs THEN Tail(longer) ELSE longer

ReplacesWhenNew(p) ==
  \/ p.dest \notin DOMAIN paths
  \/ p.hops <= paths[p.dest].hops
  \/ paths[p.dest].expires <= now
  \/ ~KnownBlob(p)

\* A route is replaced by one that is no longer, or when it has expired, or
\* by an announce emitted after every announce in its window.
Replaces(p) ==
  \/ p.dest \notin DOMAIN paths
  \/ p.hops <= paths[p.dest].hops
  \/ paths[p.dest].expires <= now
  \/ \A k \in DOMAIN paths[p.dest].blobs : p.body.blob.ts > paths[p.dest].blobs[k].ts

RouteAfterCachingReceived(i, p) ==
  IF Replaces(p)
    THEN [hops |-> p.hops, nextHop |-> IF p.hdr = 2 THEN p.tid ELSE NoId,
          iface |-> i, expires |-> now + PathLife,
          blobs |-> NoteBlob(BlobsOf(p.dest), p.body.blob), wire |-> p]
    ELSE [paths[p.dest] EXCEPT !.blobs = NoteBlob(@, p.body.blob)]

RouteAfterForgettingRelay(i, p) ==
  IF Replaces(p)
    THEN [hops |-> p.hops, nextHop |-> NoId,
          iface |-> i, expires |-> now + PathLife,
          blobs |-> NoteBlob(BlobsOf(p.dest), p.body.blob), wire |-> RelayForm(p)]
    ELSE [paths[p.dest] EXCEPT !.blobs = NoteBlob(@, p.body.blob)]

\* cache_validated_announce: the route to p.dest afterwards.
RouteAfter(i, p) ==
  IF Replaces(p)
    THEN [hops    |-> p.hops,
          nextHop |-> IF p.hdr = 2 THEN p.tid ELSE NoId,
          iface   |-> i,
          expires |-> now + PathLife,
          blobs   |-> NoteBlob(BlobsOf(p.dest), p.body.blob),
          wire    |-> RelayForm(p)]
    ELSE [paths[p.dest] EXCEPT !.blobs = NoteBlob(@, p.body.blob)]

\* Whether a relay will re-emit this announce.
Rebroadcasts(p) ==
  /\ TransportEnabled
  /\ p.ctx # "PATH_RESPONSE"
  /\ ~KnownBlob(p)

AcceptAnnounce(i, p) ==
  /\ IsAnnounce(p)
  /\ Acceptable(p)
  /\ known' = Put(known, p.dest, p.body.key)
  /\ paths' = Put(paths, p.dest, RouteAfter(i, p))
  /\ announceTable' =
       IF Rebroadcasts(p)
         THEN Put(announceTable, p.dest,
                  [retransmitAt |-> now, receivedFrom |-> i, wire |-> RelayForm(p)])
         ELSE announceTable
  /\ out' = {}
  /\ UNCHANGED <<reverseTable, linkTable, prTags>>

RejectAnnounce(p) ==
  /\ IsAnnounce(p)
  /\ ~Acceptable(p)
  /\ out' = {}
  /\ UNCHANGED tables

-----------------------------------------------------------------------------
(* Path requests *)

\* An announce of a local destination, as Destination::build_announce makes it.
OwnAnnounce(d, blob, ctx) ==
  [type |-> "ANNOUNCE", hdr |-> 1, cflag |-> FALSE, ttype |-> "BROADCAST",
   dtype |-> "SINGLE", hops |-> 0, tid |-> NoId, dest |-> d, ctx |-> ctx,
   body |-> [key |-> Us, blob |-> blob, ratchet |-> FALSE,
             derived |-> d, signs |-> d]]

Tagged(p) == p.body \in PathRequestBody /\ p.body.tag # NoTag

\* target || tag is the key of _pr_tags.
NewRequest(p) == IsPathRequest(p) /\ Tagged(p) /\ ~Contains(prTags, p.body)

NoteRequest(p) == prTags' = RingInsert(prTags, p.body)

AnswerForLocal(i, p) ==
  /\ NewRequest(p)
  /\ p.body.target \in LocalDest
  /\ HasSeedFn
  /\ NoteRequest(p)
  /\ \E s \in Seed :
       out' = {Emit(i, "PathResponse", OwnAnnounce(p.body.target, s, "PATH_RESPONSE"))}
  /\ UNCHANGED <<known, paths, announceTable, reverseTable, linkTable>>

AnswerableFromPath(p) ==
  /\ p.body.target \notin LocalDest
  /\ TransportEnabled
  /\ p.body.target \in DOMAIN paths

PathResponse(d) == [paths[d].wire EXCEPT !.ctx = "PATH_RESPONSE"]

AnswerFromPath(i, p) ==
  /\ NewRequest(p)
  /\ AnswerableFromPath(p)
  /\ NoteRequest(p)
  /\ out' = {Emit(i, "PathResponse", PathResponse(p.body.target))}
  /\ UNCHANGED <<known, paths, announceTable, reverseTable, linkTable>>

Forwardable(i, p) ==
  /\ p.body.target \notin LocalDest
  /\ TransportEnabled
  /\ p.body.target \notin DOMAIN paths
  /\ Iface # {i}

ForwardPathRequest(i, p) ==
  /\ NewRequest(p)
  /\ Forwardable(i, p)
  /\ NoteRequest(p)
  /\ out' = {Emit(j, "PathRequestForward", p) : j \in Iface \ {i}}
  /\ UNCHANGED <<known, paths, announceTable, reverseTable, linkTable>>

\* Too short, tagless or asked before: nothing.  No answer and nobody else
\* to ask: the tag is noted all the same.
LeavePathRequest(i, p) ==
  /\ IsPathRequest(p)
  /\ NewRequest(p) => /\ ~(p.body.target \in LocalDest /\ HasSeedFn)
                      /\ ~AnswerableFromPath(p)
                      /\ ~Forwardable(i, p)
  /\ prTags' = IF Tagged(p) THEN RingInsert(prTags, p.body) ELSE prTags
  /\ out' = {}
  /\ UNCHANGED <<known, paths, announceTable, reverseTable, linkTable>>

-----------------------------------------------------------------------------
(* DATA and its receipt *)

\* compute_relay_forward: through the next relay, or to the destination
\* itself when it is one hop away.
CanRelay(route) == route.hops = 1 \/ (route.hops > 1 /\ route.nextHop # NoId)

Relayed(p, route) ==
  IF route.hops > 1
    THEN ReplaceTransportId(p, route.nextHop)
    ELSE StripTransportIdToHeader1(p)

\* The entry conditions of the DATA and LINKREQUEST handlers.
OursToRelay(p) ==
  /\ p.hdr = 2
  /\ p.tid = Us
  /\ p.dest \in DOMAIN paths
  /\ CanRelay(paths[p.dest])

ForwardData(i, p) ==
  /\ IsData(p)
  /\ OursToRelay(p)
  /\ LET route == paths[p.dest]
     IN  /\ out' = {Emit(route.iface, "DataForward", Relayed(p, route))}
         /\ reverseTable' = Put(reverseTable, HashablePart(p),
              [receivedIf |-> i, outboundIf |-> route.iface, at |-> now])
  /\ UNCHANGED <<known, paths, announceTable, linkTable, prTags>>

LeaveData(p) ==
  /\ IsData(p)
  /\ ~OursToRelay(p)
  /\ out' = {}
  /\ UNCHANGED tables

\* A receipt is looked at before it is consumed: one on the wrong interface
\* leaves the entry in place.
ReceiptDue(i, p) ==
  /\ p.dest \in DOMAIN reverseTable
  /\ reverseTable[p.dest].outboundIf = i

ForwardProof(i, p) ==
  /\ IsProof(p)
  /\ ReceiptDue(i, p)
  /\ out' = {Emit(reverseTable[p.dest].receivedIf, "ProofForward", p)}
  /\ reverseTable' = Without(reverseTable, {p.dest})
  /\ UNCHANGED <<known, paths, announceTable, linkTable, prTags>>

LeaveProof(i, p) ==
  /\ IsProof(p)
  /\ ~ReceiptDue(i, p)
  /\ out' = {}
  /\ UNCHANGED tables

-----------------------------------------------------------------------------
(* Links *)

ForwardLinkRequest(i, p) ==
  /\ IsLinkRequest(p)
  /\ OursToRelay(p)
  /\ LET route == paths[p.dest]
     IN  /\ out' = {Emit(route.iface, "LinkForward",
                         ClampSignalling(Relayed(p, route), HwMtu[route.iface]))}
         /\ linkTable' = Put(linkTable, LinkIdOf(p),
              [nhIf |-> route.iface, rcvdIf |-> i, dst |-> p.dest,
               validated |-> FALSE, proofTimeout |-> now + ProofTimeout,
               lastActivity |-> now])
  /\ UNCHANGED <<known, paths, announceTable, reverseTable, prTags>>

LeaveLinkRequest(p) ==
  /\ IsLinkRequest(p)
  /\ ~OursToRelay(p)
  /\ out' = {}
  /\ UNCHANGED tables

LinkProofUnsigned(i, p) ==
  /\ p.dest \in DOMAIN linkTable
  /\ linkTable[p.dest].nhIf = i
  /\ p.body \in LinkProofBody
  /\ p.body.link = p.dest

\* A link proof comes from the responder's side, and the responder's
\* long-term key, bound by its announce, signed it for this link.
LinkProofAccepted(i, p) ==
  /\ p.dest \in DOMAIN linkTable
  /\ linkTable[p.dest].nhIf = i
  /\ p.body \in LinkProofBody
  /\ linkTable[p.dest].dst \in DOMAIN known
  /\ p.body.signer = known[linkTable[p.dest].dst]
  /\ p.body.link = p.dest

ForwardLinkProof(i, p) ==
  /\ IsLinkProof(p)
  /\ LinkProofAccepted(i, p)
  /\ out' = {Emit(linkTable[p.dest].rcvdIf, "LinkForward", p)}
  /\ linkTable' = [linkTable EXCEPT ![p.dest].validated = TRUE,
                                    ![p.dest].lastActivity = now]
  /\ UNCHANGED <<known, paths, announceTable, reverseTable, prTags>>

LeaveLinkProof(i, p) ==
  /\ IsLinkProof(p)
  /\ ~LinkProofAccepted(i, p)
  /\ out' = {}
  /\ UNCHANGED tables

LinkDataUnproven(i, p) ==
  /\ p.dest \in DOMAIN linkTable
  /\ i \in {linkTable[p.dest].rcvdIf, linkTable[p.dest].nhIf}

\* Link traffic flows on a proven link, from one of its sides.
LinkDataAccepted(i, p) ==
  /\ p.dest \in DOMAIN linkTable
  /\ linkTable[p.dest].validated
  /\ i \in {linkTable[p.dest].rcvdIf, linkTable[p.dest].nhIf}

OtherSide(link, i) == IF i = link.rcvdIf THEN link.nhIf ELSE link.rcvdIf

\* Any traffic refreshes the link; LINKCLOSE removes it.
LinkAfter(p) ==
  IF p.ctx = "LINKCLOSE"
    THEN Without(linkTable, {p.dest})
    ELSE [linkTable EXCEPT ![p.dest].lastActivity = now]

ForwardLinkData(i, p) ==
  /\ IsLinkData(p)
  /\ LinkDataAccepted(i, p)
  /\ out' = {Emit(OtherSide(linkTable[p.dest], i), "LinkForward", p)}
  /\ linkTable' = LinkAfter(p)
  /\ UNCHANGED <<known, paths, announceTable, reverseTable, prTags>>

LeaveLinkData(i, p) ==
  /\ IsLinkData(p)
  /\ ~LinkDataAccepted(i, p)
  /\ out' = {}
  /\ UNCHANGED tables

-----------------------------------------------------------------------------
(* inbound() *)

Handle(i, p) ==
  \/ AcceptAnnounce(i, p)     \/ RejectAnnounce(p)
  \/ AnswerForLocal(i, p)     \/ AnswerFromPath(i, p)
  \/ ForwardPathRequest(i, p) \/ LeavePathRequest(i, p)
  \/ ForwardData(i, p)        \/ LeaveData(p)
  \/ ForwardProof(i, p)       \/ LeaveProof(i, p)
  \/ ForwardLinkRequest(i, p) \/ LeaveLinkRequest(p)
  \/ ForwardLinkProof(i, p)   \/ LeaveLinkProof(i, p)
  \/ ForwardLinkData(i, p)    \/ LeaveLinkData(i, p)

\* A packet arrives on i: its hop is counted, its hash recorded before
\* anything is decided about it, and its handler runs.
Inbound(i, w) ==
  LET p == Bumped(w)
  IN  /\ ~SeenBefore(p)
      /\ hashlist' = RingInsert(hashlist, HashablePart(p))
      /\ Handle(i, p)
      /\ UNCHANGED <<now, blackholed, nextEmit>>

DropDuplicate(w) ==
  /\ SeenBefore(Bumped(w))
  /\ out' = {}
  /\ UNCHANGED <<now, tables, hashlist, blackholed, nextEmit>>

-----------------------------------------------------------------------------
(* tick() *)

DueLater == {d \in DOMAIN announceTable : announceTable[d].retransmitAt < now}

\* pop_due
DueAnnounces == {d \in DOMAIN announceTable : announceTable[d].retransmitAt <= now}

RebroadcastElsewhere ==
  {Emit(i, "Rebroadcast", announceTable[d].wire) :
     i \in Iface \ {announceTable[d].receivedFrom : d \in DueAnnounces}, d \in DueAnnounces}

\* drive_announce_rebroadcast: on every interface, the receiving one too.
RebroadcastAll ==
  {Emit(i, "Rebroadcast", announceTable[d].wire) : i \in Iface, d \in DueAnnounces}

\* UINT64_MAX, which the clock never reaches
Never == MaxTime + 1

DueSchedules == {s \in DOMAIN Schedule : nextEmit[s] <= now}

\* The due schedules whose announce can be built.
Announcing == {s \in DueSchedules : HasSeedFn /\ Schedule[s].dest \in LocalDest}

\* drive_scheduled_announces moves on whether or not the emit succeeded.
NextEmits ==
  [s \in DOMAIN Schedule |->
     IF s \notin DueSchedules THEN nextEmit[s]
     ELSE IF Schedule[s].period > 0 THEN now + Schedule[s].period ELSE Never]

ExpiredPaths == {d \in DOMAIN paths : paths[d].expires <= now}

AgedLater == {h \in DOMAIN reverseTable : reverseTable[h].at + ReverseTimeout < now}

AgedReceipts == {h \in DOMAIN reverseTable : reverseTable[h].at + ReverseTimeout <= now}

UnprovenLinks ==
  {l \in DOMAIN linkTable : ~linkTable[l].validated /\ linkTable[l].proofTimeout <= now}

StaleLinks ==
  {l \in DOMAIN linkTable : linkTable[l].validated
                            /\ linkTable[l].lastActivity + LinkStale <= now}

Tick ==
  /\ announceTable' = Without(announceTable, DueAnnounces)
  /\ \E seed \in [Announcing -> Seed] :
       out' = RebroadcastAll \cup
                {Emit(i, "OwnAnnounce", OwnAnnounce(Schedule[s].dest, seed[s], "NONE")) :
                   i \in Iface, s \in Announcing}
  /\ nextEmit' = NextEmits
  /\ paths' = Without(paths, ExpiredPaths)
  /\ reverseTable' = Without(reverseTable, AgedReceipts)
  /\ linkTable' = Without(linkTable, UnprovenLinks \cup StaleLinks)
  /\ hashlist' = RingPurge(hashlist, HashlistMax)
  /\ prTags' = RingPurge(prTags, MaxPrTags)
  /\ UNCHANGED <<now, known, blackholed>>

-----------------------------------------------------------------------------
(* The operator's list, and time *)

Blackhole(id) ==
  /\ blackholed' = blackholed \cup {id}
  /\ out' = {}
  /\ UNCHANGED <<now, tables, hashlist, nextEmit>>

Unblackhole(id) ==
  /\ blackholed' = blackholed \ {id}
  /\ out' = {}
  /\ UNCHANGED <<now, tables, hashlist, nextEmit>>

\* The caller's clock advances between calls.
Elapse ==
  /\ now < MaxTime
  /\ now' = now + 1
  /\ out' = {}
  /\ UNCHANGED <<tables, hashlist, blackholed, nextEmit>>

-----------------------------------------------------------------------------

Init ==
  /\ now = 0
  /\ known = EmptyTable /\ paths = EmptyTable /\ announceTable = EmptyTable
  /\ reverseTable = EmptyTable /\ linkTable = EmptyTable
  /\ hashlist = EmptyRing /\ prTags = EmptyRing
  /\ blackholed = {}
  /\ nextEmit = [s \in DOMAIN Schedule |-> Schedule[s].offset]
  /\ out = {}

Next ==
  \/ \E i \in Iface, w \in Wire : Inbound(i, w)
  \/ \E w \in Wire : DropDuplicate(w)
  \/ Tick
  \/ \E id \in Suspect : Blackhole(id) \/ Unblackhole(id)
  \/ Elapse

Spec == Init /\ [][Next]_vars

-----------------------------------------------------------------------------
(* Properties *)

\* Types.  The hop count, one byte, stays within it.
TypeOK ==
  /\ now \in Nat
  /\ IsTable(known, Addr, Id)
  /\ IsTable(paths, Addr, PathEntry)
  /\ IsTable(announceTable, Addr, AnnounceEntry)
  /\ IsTable(reverseTable, Hashable, ReverseEntry)
  /\ IsTable(linkTable, Hashable, LinkEntry)
  /\ hashlist \in [order : Seq(Hashable), seen : SUBSET Hashable]
  /\ prTags \in [order : Seq(PathRequestBody), seen : SUBSET PathRequestBody]
  /\ blackholed \subseteq Id
  /\ nextEmit \in [DOMAIN Schedule -> Nat]
  /\ out \subseteq Emission

\* w is an announce of d that the next node will accept from us: it still
\* validates after our rewrite, under the key d is bound to, and names us as
\* the relay to send through.
Reemittable(d, w) ==
  /\ d \in DOMAIN known
  /\ w.dest = d
  /\ ValidAnnounce(w)
  /\ w.body.key = known[d]
  /\ w.hdr = 2 /\ w.tid = Us

\* Every announce held for a path response or for rebroadcast is one peers
\* will accept, at the distance our own route has (Transport.cpp:295-307,
\* 787-799).
HeldAnnouncesValidate ==
  /\ \A d \in DOMAIN paths : /\ Reemittable(d, paths[d].wire)
                            /\ paths[d].wire.hops = paths[d].hops
  /\ \A d \in DOMAIN announceTable : Reemittable(d, announceTable[d].wire)

\* When the announce we are about to rebroadcast comes back from a neighbour
\* it will be a duplicate, however small the ring and however often it is
\* purged: the tick that purges has drained the announce table first
\* (Transport.cpp:134-144, 156-160).
PendingEchoRecognised ==
  \A d \in DOMAIN announceTable :
    Contains(hashlist, HashablePart(announceTable[d].wire))

\* Only originators send HEADER_1 announces (Destination.cpp:18-83).
OriginatorsOnly == \A w \in Wire : (IsAnnounce(w) /\ w.hdr = 1) => w.hops = 0

\* A route we hold, and so advertise in rebroadcasts and path responses, is
\* one that compute_relay_forward can use (Transport.cpp:318-334), given
\* OriginatorsOnly: what is sent in HEADER_1 has made no hop before us.
AdvertisedIsRelayable == \A d \in DOMAIN paths : CanRelay(paths[d])

\* A path response names a route that will carry the traffic it attracts: to
\* a local destination, or through us, at our distance, on a usable route
\* (Transport.cpp:475-500, 533-553).
AnswersAreHonoured ==
  \A e \in out : e.kind = "PathResponse" =>
    /\ ValidAnnounce(e.wire)
    /\ \/ e.wire.dest \in LocalDest /\ e.wire.body.key = Us /\ e.wire.hops = 0
       \/ /\ e.wire.dest \in DOMAIN paths
          /\ e.wire.tid = Us
          /\ e.wire.hops = paths[e.wire.dest].hops
          /\ CanRelay(paths[e.wire.dest])

\* A destination is bound to the first key that announced it, for good:
\* expiry of its route does not release it (Transport.cpp:269-276, 740).
KeyBindingStable ==
  [][\A d \in DOMAIN known : d \in DOMAIN known' /\ known'[d] = known[d]]_vars

\* While an identity is blackholed nothing it says changes its routes: they
\* can only expire (Transport.cpp:261-267).
BlackholeFreezesRoutes ==
  [][\A d \in DOMAIN paths :
       (known[d] \in blackholed /\ d \in DOMAIN paths') => paths'[d] = paths[d]]_vars

\* An unexpired route gets longer only through an announce emitted after
\* every announce in its window: replays and late copies never lengthen it
\* (Transport.cpp:742-771).
RouteWorsensOnlyForNews ==
  [][\A d \in DOMAIN paths \cap DOMAIN paths' :
       (paths'[d].hops > paths[d].hops /\ paths[d].expires > now) =>
         \A k \in DOMAIN paths[d].blobs :
           paths[d].blobs[k].ts < paths'[d].wire.body.blob.ts]_vars

\* The receipt of a forwarded DATA packet goes back where the packet first
\* came from: no later copy of it, on any interface, redirects the receipt
\* or extends its time (Transport.cpp:204, 397-403), as long as the packet's
\* hash is still in the ring.
ReceiptNotRedirected ==
  [][\A h \in DOMAIN reverseTable \cap DOMAIN reverseTable' :
       Contains(hashlist, h) => reverseTable'[h] = reverseTable[h]]_vars
=============================================================================
