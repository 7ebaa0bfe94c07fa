----------------------------- MODULE Directory ------------------------------
(***************************************************************************)
(* What the hub promises about the names of peers.  An address, an alias   *)
(* in any spelling or a peer id, reaches nobody or one peer.  A peer that  *)
(* joins is given addresses that reached nobody, and keeps them for good.  *)
(***************************************************************************)
CONSTANTS Address, Identity

VARIABLE reach    \* per address, the peers a message to it could go to

Nobody == [x \in Address |-> {}]

Init == reach = Nobody

\* p comes in under addresses that reached nobody; the others stay.
Join(p) ==
    /\ \A x \in Address : p \notin reach[x]
    /\ reach' \in [Address -> SUBSET Identity]
    /\ \A x \in Address :
          \/ reach'[x] = reach[x]
          \/ reach[x] = {} /\ reach'[x] = {p}

Next == \E p \in Identity : Join(p)

Spec == Init /\ [][Next]_reach
=============================================================================
