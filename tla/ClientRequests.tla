--------------------------- MODULE ClientRequests ---------------------------
(***************************************************************************)
(* What clients ask of a durable node.  A request is [session, seq], the   *)
(* MutationIdentity a client keeps over its retries (kivi-protocol); it    *)
(* writes one key.  A conditional request is rejected by a key that has a  *)
(* value.                                                                  *)
(***************************************************************************)
EXTENDS Naturals, Sequences

CONSTANTS Keys, Sessions, Requests,
          KeyOf,         \* the key each request writes
          Conditional    \* the requests that only create

ASSUME RequestAssumption ==
  /\ Requests \subseteq [session : Sessions, seq : Nat \ {0}]
  /\ KeyOf \in [Requests -> Keys]
  /\ Conditional \subseteq Requests
=============================================================================
