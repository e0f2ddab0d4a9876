---------------------------- MODULE MCTransport -----------------------------
(***************************************************************************)
(* Alphabets of packets for checking Transport.  Each run hears one of     *)
(* them, on any interface, in any order, each packet at most once (a copy  *)
(* is a duplicate) unless the ring has forgotten it.                       *)
(***************************************************************************)
EXTENDS TransportLinks, TLC

CONSTANTS
  us, a, b, r,      \* identities: ourselves, two originators, a relay
  d1, d2, own,      \* destinations: of a, of b, our own
  pr,               \* the path-request destination
  nowhere, n1, n2, t1, x1, x2, x3, k1, i1, i2

-----------------------------------------------------------------------------
(* Building packets; `hops` is the value on the wire, before we count ours *)

AnnounceOf(d, key, ts) ==
  [key |-> key, blob |-> [nonce |-> n1, ts |-> ts], ratchet |-> FALSE,
   derived |-> d, signs |-> d]

Base == [type |-> "DATA", hdr |-> 1, cflag |-> FALSE, ttype |-> "BROADCAST",
         dtype |-> "SINGLE", hops |-> 0, tid |-> NoId, dest |-> d1,
         ctx |-> "NONE", body |-> x1]

\* An announce as its originator sends it, with or without a ratchet.
Direct(body) ==
  [Base EXCEPT !.type = "ANNOUNCE", !.dest = body.derived, !.body = body,
               !.cflag = body.ratchet]

\* The same, heard from relay r after `hops` hops.
Through(body, hops) ==
  [Direct(body) EXCEPT !.hdr = 2, !.ttype = "TRANSPORT", !.tid = r, !.hops = hops]

PathResponseOf(p) == [p EXCEPT !.ctx = "PATH_RESPONSE"]

\* A packet of type `type` for d that names us as the relay to go through.
ViaUs(type, d, body) ==
  [Base EXCEPT !.type = type, !.hdr = 2, !.ttype = "TRANSPORT", !.tid = us,
               !.dest = d, !.body = body]

-----------------------------------------------------------------------------
(* Routes: announces near and far and too far, path responses, one emitted *)
(* in the same second as another, another key for the same destination,     *)
(* and an unsigned one.                                                     *)

Early  == AnnounceOf(d1, a, 1)
Late   == [AnnounceOf(d1, a, 2) EXCEPT !.ratchet = TRUE]
Rival  == AnnounceOf(d1, b, 3)
Forged == [AnnounceOf(d1, a, 3) EXCEPT !.signs = nowhere]

\* Emitted with Late, in the same second.
Again  == [AnnounceOf(d1, a, 2) EXCEPT !.blob.nonce = n2]

RouteWires == {Direct(Late), Through(Late, 1), PathResponseOf(Through(Early, 255)),
               PathResponseOf(Through(Again, 2)), Through(Rival, 1), Direct(Forged)}

-----------------------------------------------------------------------------
(* DATA through us and its receipt *)

DataVia  == ViaUs("DATA", d1, x1)
Receipt  == [Base EXCEPT !.type = "PROOF", !.dest = HashablePart(DataVia), !.body = x3]

-----------------------------------------------------------------------------
(* Path requests, for a destination we know and for *)
(* our own.                                                                 *)

Request(target, tag) ==
  [Base EXCEPT !.dtype = "PLAIN", !.dest = pr,
               !.body = [target |-> target, tag |-> tag]]

TrafficWires == {Direct(Early), Through(Late, 1), DataVia, Receipt,
                 Request(d1, t1), Request(own, t1)}

-----------------------------------------------------------------------------
(* A link to d1 through us *)

LinkRequest(mtu) ==
  ViaUs("LINKREQUEST", d1, [pub |-> k1, signalling |-> TRUE, mtu |-> mtu])

TheLink == LinkIdOf(LinkRequest(500))

LinkProofBy(signer) ==
  [Base EXCEPT !.type = "PROOF", !.dtype = "LINK", !.ctx = "LRPROOF",
               !.dest = TheLink, !.body = [signer |-> signer, link |-> TheLink]]

LinkTraffic(ctx, body) ==
  [Base EXCEPT !.dtype = "LINK", !.dest = TheLink, !.ctx = ctx, !.body = body]

\* The request also as an interface of 400 bytes clamps it: what comes back
\* to us when the next relay's route to d1 leads through us.
LinkWires == {Direct(Early), LinkRequest(500), LinkRequest(400), LinkProofBy(a),
              LinkProofBy(b), LinkTraffic("KEEPALIVE", x1), LinkTraffic("LINKCLOSE", x1)}

-----------------------------------------------------------------------------
\* The interfaces are alike in every run.
IfaceSymmetry == Permutations(Iface)

(* Values shared by the runs *)

MCAddr == {d1, d2, own, pr, TheLink, HashablePart(DataVia)}

MCSeed == {[nonce |-> n2, ts |-> 0]}

NoSchedule == [s \in {} |-> 0]

\* The firmware's pair: a periodic "alive" announce and a one-shot here.
TwoSchedules == [alive |-> [dest |-> own, period |-> 2, offset |-> 1],
                 once  |-> [dest |-> own, period |-> 0, offset |-> 1]]

WideMtu   == [i \in Iface |-> 508]
NarrowMtu == [i \in Iface |-> 400]
=============================================================================
