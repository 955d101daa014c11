---------------------------- MODULE RootfsStore ----------------------------
(***************************************************************************)
(* What the rootfs cache promises to the rest of the build: an immutable   *)
(* store keyed by identity, whose entries are exactly what the identity    *)
(* requests, and a place at the root of the checkout where package builds  *)
(* find a rootfs with its record, which is an entry of the store or        *)
(* nothing a package build would accept.                                   *)
(***************************************************************************)
CONSTANTS
  Ids,
  Content,  \* the rootfs each identity requests
  None

VARIABLES
  store,  \* the rootfs certified for each identity
  root    \* the accepted rootfs at the root of the checkout, with its identity

Init == store = [i \in Ids |-> None] /\ root = None

Publish(i) ==
  /\ store[i] = None
  /\ store' = [store EXCEPT ![i] = Content[i]]
  /\ root' = root

Provide(i) ==
  /\ store[i] # None
  /\ root' = [id |-> i, img |-> store[i]]
  /\ store' = store

Withdraw == root' = None /\ store' = store

Next == Withdraw \/ \E i \in Ids : Publish(i) \/ Provide(i)

Spec == Init /\ [][Next]_<<store, root>>
=============================================================================
