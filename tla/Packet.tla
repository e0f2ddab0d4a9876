------------------------------- MODULE Packet -------------------------------
(***************************************************************************)
(* The wire format of src/src/rns/Packet.cpp, as Transport uses it: the    *)
(* parsed header fields, the rewrites a relay applies to a header, and the *)
(* part of a packet that is hashed.                                        *)
(*                                                                         *)
(* SHA-256 is injective here: a hash is its input.  So the deduplication   *)
(* hash, the reverse-table key and the link id of a packet are the record  *)
(* of the fields that enter them.  A signature is the fact of what it      *)
(* signs.  A body is a record of the fields that the code reads from it.   *)
(***************************************************************************)
EXTENDS Naturals

CONSTANTS
  Addr,       \* 16-byte addresses the wires carry: destinations, link ids,
              \* hashes of packets
  Id,         \* identities: a public key and its hash are one value
  NoId,       \* the empty transport_id of a HEADER_1 packet
  NoAddr,     \* what a signature that verifies for nothing is over
  Nonce,      \* the 5 random bytes of an announce's random_hash
  Tag,        \* path-request tags
  NoTag,      \* a path request without tag bytes
  Payload,    \* bodies the relay never looks into
  Ephemeral   \* the initiator's ephemeral public keys in a LINKREQUEST

ASSUME NoIdAssumption == NoId \notin Id

PacketType      == {"DATA", "ANNOUNCE", "LINKREQUEST", "PROOF"}
DestinationType == {"SINGLE", "GROUP", "PLAIN", "LINK"}
Context         == {"NONE", "PATH_RESPONSE", "KEEPALIVE", "LINKCLOSE", "LRPROOF"}
MaxHops         == 255

\* random_hash: the random prefix and the emission time in unix seconds
Blob == [nonce : Nonce, ts : Nat]

\* An announce: `derived` is the destination hash recomputed from its name
\* and key, `signs` the destination its signature covers, `ratchet` whether
\* the body holds a ratchet key.
AnnounceBody == [key : Id, blob : Blob, ratchet : BOOLEAN,
                 derived : Addr, signs : Addr \cup {NoAddr}]

\* A LINKREQUEST: two ephemeral keys, and perhaps the 3 signalling bytes
\* with an MTU (0 when there are none).
LinkRequestBody == [pub : Ephemeral, signalling : BOOLEAN, mtu : Nat]

\* A link proof: who signed it, for which link.
LinkProofBody == [signer : Id, link : Addr]

\* A path request of at least 16 bytes.
PathRequestBody == [target : Addr, tag : Tag \cup {NoTag}]

Body == AnnounceBody \cup LinkRequestBody \cup LinkProofBody
          \cup PathRequestBody \cup Payload

\* A parsed packet: the flag byte's fields, hops, addresses, context, body.
Packets == [type : PacketType, hdr : {1, 2}, cflag : BOOLEAN,
            ttype : {"BROADCAST", "TRANSPORT"}, dtype : DestinationType,
            hops : 0 .. MaxHops, tid : Id \cup {NoId}, dest : Addr,
            ctx : Context, body : Body]

\* HEADER_2 carries a transport_id and HEADER_1 does not.
WellFormed(p) == (p.hdr = 2) <=> (p.tid # NoId)

-----------------------------------------------------------------------------
(* Rewrites of a header *)

\* An originator's HEADER_1 becomes HEADER_2 through transport id `id`; the
\* context flag, which says that an announce has a ratchet, is kept.
OriginatorToHeader2Dropping(p, id) ==
  [p EXCEPT !.hdr = 2, !.ttype = "TRANSPORT", !.tid = id, !.cflag = FALSE]

OriginatorToHeader2(p, id) ==
  [p EXCEPT !.hdr = 2, !.ttype = "TRANSPORT", !.tid = id]

\* A HEADER_2 packet is handed to another relay.
ReplaceTransportId(p, id) == [p EXCEPT !.tid = id]

\* The last hop: the packet is broadcast to the destination as HEADER_1.
StripTransportIdToHeader1(p) ==
  [p EXCEPT !.hdr = 1, !.ttype = "BROADCAST", !.tid = NoId, !.cflag = FALSE]

BumpedUnsaturated(p) == [p EXCEPT !.hops = @ + 1]

\* The hop just taken, counted on arrival; the byte saturates.
Bumped(p) == [p EXCEPT !.hops = IF @ < MaxHops THEN @ + 1 ELSE @]

-----------------------------------------------------------------------------
(* Hashes *)

\* What of a packet is hashed: the low nibble of the flags (packet and
\* destination type), the destination, the context and the body.
Hashable == [type : PacketType, dtype : DestinationType, dest : Addr,
             ctx : Context, body : Body]

HashablePart(p) == [type |-> p.type, dtype |-> p.dtype, dest |-> p.dest,
                    ctx |-> p.ctx, body |-> p.body]

\* A link id leaves the signalling bytes out, so that a relay may rewrite them.
LinkIdOf(p) ==
  IF p.body \in LinkRequestBody
    THEN [HashablePart(p) EXCEPT !.body = [@ EXCEPT !.signalling = FALSE, !.mtu = 0]]
    ELSE HashablePart(p)

\* A relay lowers the signalled MTU to what its outbound interface carries.
ClampSignalling(p, hwMtu) ==
  IF /\ p.body \in LinkRequestBody
     /\ p.body.signalling
     /\ p.body.mtu > hwMtu
    THEN [p EXCEPT !.body.mtu = hwMtu]
    ELSE p

-----------------------------------------------------------------------------
(* Announces *)

\* Identity::validate_announce: the shape, the ratchet flag agreeing with the
\* body's layout (or the slices and so the signature are wrong), the
\* signature over the outer destination, and the destination derived anew.
ValidAnnounce(p) ==
  /\ p.type = "ANNOUNCE"
  /\ p.dtype = "SINGLE"
  /\ p.body \in AnnounceBody
  /\ p.body.ratchet = p.cflag
  /\ p.body.signs = p.dest
  /\ p.body.derived = p.dest
=============================================================================
