--------------------------- MODULE TransportLinks ---------------------------
(***************************************************************************)
(* The link handlers of Transport implement LinkRelay.                     *)
(***************************************************************************)
EXTENDS Transport

\* The link a packet handed to an interface belongs to, and its meaning.
LinkOfEmission(w) == IF IsLinkRequest(w) THEN LinkIdOf(w) ELSE w.dest

MeaningOf(w) ==
  CASE IsLinkRequest(w) -> "request"
    [] IsLinkProof(w)   -> "proof"
    [] OTHER            -> IF w.ctx = "LINKCLOSE" THEN "close" ELSE "traffic"

\* An entry of linkTable, with the key that its destination is bound to.
LinkView ==
  [l \in DOMAIN linkTable |->
     [initiator |-> linkTable[l].rcvdIf,
      responder |-> linkTable[l].nhIf,
      key       |-> known[linkTable[l].dst],
      proven    |-> linkTable[l].validated]]

CrossingView ==
  {[link |-> LinkOfEmission(e.wire),
    what |-> MeaningOf(e.wire),
    to   |-> e.iface,
    by   |-> IF IsLinkProof(e.wire) THEN e.wire.body.signer ELSE NoId] :
     e \in {e \in out : e.kind = "LinkForward"}}

LinkIds == {LinkIdOf(w) : w \in {w \in Wire : IsLinkRequest(w)}}

Promise == INSTANCE LinkRelay
  WITH Link <- LinkIds, Side <- Iface, Key <- Id, NoKey <- NoId,
       link <- LinkView, crossing <- CrossingView

\* Every step of the relay is one the ends of its links may expect: requests
\* go on, proofs by the bound key return, and traffic crosses proven links
\* only, from side to side, until they close (Transport.cpp:568-723).
LinkPromise == Promise!Spec
=============================================================================
