------------------------------- MODULE MCMesh --------------------------------
\* An announce of the origin, a path request and a DATA packet of the client.
\* The stations stand in a line; in Overlap, relay A also hears the client.
EXTENDS Mesh

CONSTANTS ra, rb, o, c, d1, pr, p1, x1, x2, n1, t1, lora

Base == [type |-> "DATA", hdr |-> 1, cflag |-> FALSE, ttype |-> "BROADCAST",
         dtype |-> "SINGLE", hops |-> 0, tid |-> NoId, dest |-> d1,
         ctx |-> "NONE", body |-> x1]

OriginAnnounce(ts) ==
  [Base EXCEPT !.type = "ANNOUNCE",
               !.body = [key |-> o, blob |-> [nonce |-> n1, ts |-> ts],
                         ratchet |-> FALSE, derived |-> d1, signs |-> d1]]

DataThroughB ==
  [Base EXCEPT !.hdr = 2, !.ttype = "TRANSPORT", !.tid = rb]

AskForTarget ==
  [Base EXCEPT !.dtype = "PLAIN", !.dest = pr, !.body = [target |-> d1, tag |-> t1]]

MCReceipt == [Base EXCEPT !.type = "PROOF", !.dest = HashablePart(DataThroughB), !.body = x2]

MCAddr == {d1, pr, HashablePart(DataThroughB)}

MCScript == [s \in End |-> IF s = o THEN {OriginAnnounce(1)}
                                    ELSE {DataThroughB, AskForTarget}]

BothWays(links) == links \cup {<<l[2], l[1]>> : l \in links}

Line    == BothWays({<<o, ra>>, <<ra, rb>>, <<rb, c>>})
Overlap == Line \cup {<<c, ra>>}

OneChannel == [i \in Iface |-> 508]

ASSUME RingIsLarge == NothingForgotten
=============================================================================
