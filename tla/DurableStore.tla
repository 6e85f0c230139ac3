---------------------------- MODULE DurableStore ----------------------------
(***************************************************************************)
(* What a durable node promises its clients, with no log, batch,           *)
(* checkpoint or restart in sight.  store[k] is the history of key k: the  *)
(* requests that wrote it, in order, so that the position of a request is  *)
(* the version it produced.  acked holds the outcomes told to clients: a   *)
(* version, or 0 for a rejected conditional request.                       *)
(*                                                                         *)
(* It is the contract at the head of crates/kivi-engine/src/commit.rs      *)
(* ("durability-before-acknowledgement") together with that of the dedup   *)
(* state of tablet.rs ("never execute again"): nothing acknowledged is     *)
(* lost, and a retried request executes once and hears the same answer.    *)
(***************************************************************************)
EXTENDS ClientRequests

VARIABLES store, acked

vars == <<store, acked>>

Reply == [req : Requests, out : Nat]

(* A history of key k: its own requests, each at most once, a conditional  *)
(* one only first.                                                         *)
History(k, h) ==
  /\ h \in Seq(Requests)
  /\ \A i \in 1..Len(h) : KeyOf[h[i]] = k
  /\ \A i, j \in 1..Len(h) : h[i] = h[j] => i = j
  /\ \A i \in 1..Len(h) : h[i] \in Conditional => i = 1

Extends(h, g) == Len(h) <= Len(g) /\ \A i \in 1..Len(h) : g[i] = h[i]

(* A reply agrees with the history of its key. *)
Truthful(a) ==
  LET h == store[KeyOf[a.req]]
  IN  IF a.out = 0
      THEN a.req \in Conditional /\ h # <<>> /\ \A i \in 1..Len(h) : h[i] # a.req
      ELSE a.out \in 1..Len(h) /\ h[a.out] = a.req

Init == store = [k \in Keys |-> <<>>] /\ acked = {}

(* Clients hear outcomes of durable requests. *)
Answer ==
  /\ UNCHANGED store
  /\ acked \subseteq acked'
  /\ \A a \in acked' \ acked : a \in Reply /\ Truthful(a)

(* Requests become durable. *)
Commit ==
  /\ UNCHANGED acked
  /\ store' = [k \in Keys |-> store'[k]]
  /\ \A k \in Keys : History(k, store'[k]) /\ Extends(store[k], store'[k])

Next == Answer \/ Commit

Spec == Init /\ [][Next]_vars
=============================================================================
