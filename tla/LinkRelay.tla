----------------------------- MODULE LinkRelay ------------------------------
(***************************************************************************)
(* What a relay promises the two ends of a link, whatever its tables look  *)
(* like.  A link exists at the relay from the moment a request for it is   *)
(* passed on; it is between the interface of the initiator and that of the *)
(* responder, and it waits for a proof by one key.  It is proven once a    *)
(* proof by that key has been passed to the initiator, and only then does  *)
(* traffic cross it, from one side to the other.  The relay may forget a   *)
(* link at any time, and a new request starts it afresh.                   *)
(***************************************************************************)
EXTENDS Tables

CONSTANTS
  Link,   \* link ids
  Side,   \* interfaces
  Key,    \* keys of responders
  NoKey   \* what is not a proof is signed by nobody

VARIABLES
  link,     \* the links that exist: id -> [initiator, responder, key, proven]
  crossing  \* what the latest step passed on

vars == <<link, crossing>>

What == {"request", "proof", "traffic", "close"}

TypeOK ==
  /\ IsTable(link, Link, [initiator : Side, responder : Side, key : Key,
                          proven : BOOLEAN])
  /\ crossing \subseteq [link : Link, what : What, to : Side, by : Key \cup {NoKey}]

Init == link = EmptyTable /\ crossing = {}

Cross(l, what, side, by) ==
  crossing' = {[link |-> l, what |-> what, to |-> side, by |-> by]}

Request(l, from, to, key) ==
  /\ Cross(l, "request", to, NoKey)
  /\ link' = Put(link, l, [initiator |-> from, responder |-> to, key |-> key,
                           proven |-> FALSE])

Prove(l) ==
  /\ l \in DOMAIN link
  /\ Cross(l, "proof", link[l].initiator, link[l].key)
  /\ link' = [link EXCEPT ![l].proven = TRUE]

\* The sides of a proven link, as (from, to).
Crosses(l, from, to) ==
  /\ l \in DOMAIN link
  /\ link[l].proven
  /\ \/ from = link[l].initiator /\ to = link[l].responder
     \/ from = link[l].responder /\ to = link[l].initiator

Carry(l, from, to) ==
  /\ Crosses(l, from, to)
  /\ Cross(l, "traffic", to, NoKey)
  /\ UNCHANGED link

Close(l, from, to) ==
  /\ Crosses(l, from, to)
  /\ Cross(l, "close", to, NoKey)
  /\ link' = Without(link, {l})

Forget(gone) ==
  /\ crossing' = {}
  /\ link' = Without(link, gone)

Next ==
  \/ \E l \in Link, from, to \in Side :
       \/ \E key \in Key : Request(l, from, to, key)
       \/ Carry(l, from, to)
       \/ Close(l, from, to)
  \/ \E l \in Link : Prove(l)
  \/ \E gone \in SUBSET DOMAIN link : Forget(gone)

Spec == Init /\ [][Next]_vars
=============================================================================
