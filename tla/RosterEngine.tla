---------------------------- MODULE RosterEngine ----------------------------
(***************************************************************************)
(* RosterEngine of crates/kivi-types/src/roster.rs: the lease state        *)
(* machine of one node for one tablet, as functions of its state.          *)
(*                                                                         *)
(* Every node is a voter, grants leases to every node and holds leases of  *)
(* every node, itself included.  A lease is first guarded, then renewed:   *)
(* the grantor excludes until its own deadline has passed, the grantee     *)
(* holds until its own, shorter one.                                       *)
(*                                                                         *)
(* Authority and voters do not change here.  The driver announces a roster *)
(* only in a term for which it knows none, so that a roster is the only    *)
(* one of its term and names every voter: [term, leader] stands for it,    *)
(* and what supersedes a generation within a term has nothing to do.       *)
(*                                                                         *)
(* A deadline is represented by the time left until it: Elapse takes one   *)
(* unit off every timer, and "now < deadline" is "timer > 0".              *)
(*                                                                         *)
(*   engine   [local, incarnation, term, accepted, committed, known,       *)
(*             quarantine, grantor, grantee]; grantor maps peers and       *)
(*             grantee maps <<grantor, term>> to leases;                   *)
(*   result   [engine, out]: out[p] are the messages for p, in order.      *)
(***************************************************************************)
EXTENDS LeaseTiming, FiniteSets, FiniteSetsExt, Sequences, TLC

CONSTANT Nodes   \* numbers, the voters

ASSUME NodesAreVoters == Nodes \subseteq Nat /\ Nodes # {} /\ IsFiniteSet(Nodes)

(* MUTE_AFTER_UNACKED *)
MuteAfterUnacked == 2

(* majority_of *)
Majority == Cardinality(Nodes) \div 2 + 1

FirstIncarnation == 1

(* GrantorLease, GranteeLease, RosterEngine: a lease that lapsed is removed,*)
(* so that of the terminal phases only Idle is ever stored.  guard,        *)
(* exclusion, hold, due and quarantine are the times left.                 *)
GrantorLeases ==
  [phase : {"Idle", "Guarding", "Renewing", "Revoking"}, term : Nat, attempt : Nat \X Nat,
   seq : Nat, guard : Nat, exclusion : Nat, due : Nat, unacked : 0..MuteAfterUnacked]
GranteeLeases ==
  [phase : {"Guarded", "Renewed"}, attempt : Nat \X Nat, seq : Nat, guard : Nat, hold : Nat,
   floor : Nat]
IsEngine(e, terms) ==
  /\ e \in [local : Nodes, incarnation : Nat, term : terms, accepted : Nat, committed : Nat,
            known : SUBSET [term : terms, leader : Nodes], quarantine : Nat,
            grantor : [DOMAIN e.grantor -> GrantorLeases],
            grantee : [DOMAIN e.grantee -> GranteeLeases]]
  /\ DOMAIN e.grantor \subseteq Nodes
  /\ DOMAIN e.grantee \subseteq Nodes \X terms

NoMessages == [p \in Nodes |-> <<>>]
Result(e, out) == [engine |-> e, out |-> out]
To(p, m) == [NoMessages EXCEPT ![p] = <<m>>]
Both(out1, out2) == [p \in Nodes |-> out1[p] \o out2[p]]

(* One step after another, their messages in that order. *)
AndThen(r, Step(_)) ==
  LET next == Step(r.engine) IN Result(next.engine, Both(r.out, next.out))

With(f, k, v) == [x \in DOMAIN f \cup {k} |-> IF x = k THEN v ELSE f[x]]
Without(f, k) == [x \in DOMAIN f \ {k} |-> f[x]]

(* RosterEngine::new *)
NewEngine(n, incarnation, term) ==
  [local |-> n, incarnation |-> incarnation, term |-> term, accepted |-> 0, committed |-> 0,
   known |-> {}, quarantine |-> IF incarnation = FirstIncarnation THEN 0 ELSE Quarantine,
   grantor |-> <<>>, grantee |-> <<>>]

Quarantined(e) == e.quarantine > 0

----------------------------------------------------------------------------
(* The grantor's side *)

(* Messages carry the lease's roster, attempt and sequence; a reply echoes *)
(* those of the message it answers.                                        *)
Message(type, lease) ==
  [type |-> type, term |-> lease.term, attempt |-> lease.attempt, seq |-> lease.seq]
GuardMessage(lease, roster, accepted) ==
  Message("Guard", lease) @@ [roster |-> roster, accepted |-> accepted]
RenewMessage(lease, committed) == Message("Renew", lease) @@ [committed |-> committed]
ReplyTo(m, type) == [type |-> type, term |-> m.term, attempt |-> m.attempt, seq |-> m.seq]

(* The lease named by a reply is the grantor's, unchanged since. *)
Echoes(m, lease) == m.term = lease.term /\ m.attempt = lease.attempt /\ m.seq = lease.seq

(* open_guard: a fresh attempt, unless a lease to the peer excludes. *)
OpenGuard(e, p, roster, accepted) ==
  LET held  == p \in DOMAIN e.grantor
      seq   == IF held THEN e.grantor[p].seq + 1 ELSE 1
      lease == [phase |-> "Guarding", term |-> roster.term, attempt |-> <<e.incarnation, seq>>,
                seq |-> seq, guard |-> Expand(GuardDuration), exclusion |-> 0, due |-> 0, unacked |-> 0]
  IN  IF held /\ e.grantor[p].phase \in {"Renewing", "Revoking"} THEN Result(e, NoMessages)
      ELSE Result([e EXCEPT !.grantor = With(@, p, lease)],
                  To(p, GuardMessage(lease, roster, accepted)))

(* The lease to p becomes Revoking: what revoke_stale_grants and           *)
(* revoke_peer do to one that is Renewing.                                 *)
Revoked(lease) ==
  [lease EXCEPT !.phase = "Revoking", !.seq = @ + 1, !.exclusion = Expand(LeaseDuration)]

(* The same operation for each peer of a set; the peers are independent.   *)
ForPeers(e, peers, Step(_, _)) ==
  LET one  == [p \in peers |-> Step(e, p)]
      kept == (DOMAIN e.grantor \ peers) \cup {p \in peers : p \in DOMAIN one[p].engine.grantor}
  IN  Result([e EXCEPT !.grantor = [p \in kept |-> IF p \in peers THEN one[p].engine.grantor[p]
                                                               ELSE @[p]]],
             [p \in Nodes |-> IF p \in peers THEN one[p].out[p] ELSE <<>>])

(* reconcile, with revoke_stale_grants: leases of an older term are given  *)
(* up, with a Revoke for one that excludes.                                *)
Reconcile(e, term) ==
  LET Stale(f, p) ==
        LET lease == f.grantor[p] IN
        IF lease.term >= term THEN Result(f, NoMessages)
        ELSE IF lease.phase = "Guarding"
        THEN Result([f EXCEPT !.grantor[p].phase = "Idle"], NoMessages)
        ELSE IF lease.phase = "Renewing"
        THEN Result([f EXCEPT !.grantor[p] = Revoked(lease)], To(p, Message("Revoke", Revoked(lease))))
        ELSE Result(f, NoMessages)
      r == ForPeers(e, DOMAIN e.grantor, Stale)
  IN  IF term = e.term THEN Result(e, NoMessages)
      ELSE Result([r.engine EXCEPT !.term = term], r.out)

(* Mutant: a renewal goes out and the deadline of the last one stays. *)
TickGrantorSameDeadline(e, p) ==
  LET lease   == e.grantor[p]
      renewed == [lease EXCEPT !.seq = @ + 1, !.unacked = @ + 1, !.due = RenewInterval]
      Removed == Result([e EXCEPT !.grantor = Without(@, p)], NoMessages)
      Kept    == Result(e, NoMessages)
      rosters == {r \in e.known : r.term = lease.term}
  IN  CASE lease.phase = "Guarding" ->
             IF lease.guard > 0 THEN Kept
             ELSE IF rosters = {} THEN Removed
             ELSE OpenGuard(e, p, CHOOSE r \in rosters : TRUE, e.accepted)
        [] lease.phase = "Renewing" ->
             IF lease.exclusion = 0 THEN Removed
             ELSE IF lease.due > 0 \/ lease.unacked >= MuteAfterUnacked THEN Kept
             ELSE Result([e EXCEPT !.grantor[p] = renewed], To(p, RenewMessage(renewed, e.committed)))
        [] lease.phase = "Revoking" -> IF lease.exclusion = 0 THEN Removed ELSE Kept
        [] OTHER -> Kept

(* tick, for the lease to one peer. *)
TickGrantor(e, p) ==
  LET lease   == e.grantor[p]
      renewed == [lease EXCEPT !.seq = @ + 1, !.unacked = @ + 1, !.due = RenewInterval,
                               !.exclusion = Expand(LeaseDuration)]
      Removed == Result([e EXCEPT !.grantor = Without(@, p)], NoMessages)
      Kept    == Result(e, NoMessages)
      rosters == {r \in e.known : r.term = lease.term}
  IN  CASE lease.phase = "Guarding" ->
             IF lease.guard > 0 THEN Kept
             ELSE IF rosters = {} THEN Removed
             ELSE OpenGuard(e, p, CHOOSE r \in rosters : TRUE, e.accepted)
        [] lease.phase = "Renewing" ->
             IF lease.exclusion = 0 THEN Removed
             ELSE IF lease.due > 0 \/ lease.unacked >= MuteAfterUnacked THEN Kept
             ELSE Result([e EXCEPT !.grantor[p] = renewed], To(p, RenewMessage(renewed, e.committed)))
        [] lease.phase = "Revoking" -> IF lease.exclusion = 0 THEN Removed ELSE Kept
        [] OTHER -> Kept

(* tick: positions first, then every lease given and every lease held. *)
EngineTick(e, accepted, committed) ==
  LET e1 == [e EXCEPT !.accepted = Max({@, accepted}), !.committed = Max({@, committed})]
      r  == ForPeers(e1, DOMAIN e1.grantor, TickGrantor)
      Live(lease) == (IF lease.phase = "Guarded" THEN lease.guard ELSE lease.hold) > 0
  IN  Result([r.engine EXCEPT !.grantee =
                [k \in {k \in DOMAIN @ : Live(@[k])} |-> @[k]]], r.out)

(* grant_for: a guard for every peer without a lease of this roster. *)
GrantFor(e, roster, accepted) ==
  LET Current(p) == /\ p \in DOMAIN e.grantor
                    /\ e.grantor[p].term = roster.term
                    /\ e.grantor[p].phase \in {"Guarding", "Renewing", "Revoking"}
  IN  IF Quarantined(e) THEN Result(e, NoMessages)
      ELSE ForPeers(e, {p \in Nodes : ~Current(p)},
                    LAMBDA f, p : OpenGuard(f, p, roster, accepted))

(* announce, by the leader of a term without a known roster. *)
Announce(e, accepted) ==
  LET roster == [term |-> e.term, leader |-> e.local]
      e1     == [e EXCEPT !.accepted = Max({@, accepted}), !.known = @ \cup {roster}]
  IN  ForPeers(e1, Nodes, LAMBDA f, p : OpenGuard(f, p, roster, accepted))

(* current_roster_for_term *)
RosterOfTerm(e, term) == {r \in e.known : r.term = term}

(* covered_grantees: the peers that may still serve reads. *)
CoveredGrantees(e) ==
  {p \in DOMAIN e.grantor : /\ e.grantor[p].phase \in {"Renewing", "Revoking"}
                            /\ e.grantor[p].exclusion > 0}

(* revoke_peer *)
RevokePeer(e, p) ==
  IF p \notin DOMAIN e.grantor \/ e.grantor[p].phase # "Renewing" THEN Result(e, NoMessages)
  ELSE LET lease == Revoked(e.grantor[p])
       IN  Result([e EXCEPT !.grantor[p] = lease], To(p, Message("Revoke", lease)))

(* on_guard_reply: the first renewal, for the attempt that is open. *)
OnGuardReply(e, from, m) ==
  LET lease == e.grantor[from]
      live  == [lease EXCEPT !.phase = "Renewing", !.seq = @ + 1, !.unacked = 0,
                             !.due = RenewInterval, !.exclusion = Expand(GuardDuration) + Expand(LeaseDuration),
                             !.guard = 0]
  IN  IF from \in DOMAIN e.grantor /\ lease.phase = "Guarding" /\ Echoes(m, lease) /\ lease.guard > 0
      THEN Result([e EXCEPT !.grantor[from] = live], To(from, RenewMessage(live, e.committed)))
      ELSE Result(e, NoMessages)

(* on_renew_reply *)
OnRenewReply(e, from, m) ==
  IF from \in DOMAIN e.grantor /\ e.grantor[from].phase = "Renewing" /\ Echoes(m, e.grantor[from])
  THEN Result([e EXCEPT !.grantor[from].unacked = 0], NoMessages)
  ELSE Result(e, NoMessages)

(* on_revoke_reply *)
OnRevokeReply(e, from, m) ==
  IF from \in DOMAIN e.grantor /\ e.grantor[from].phase = "Revoking" /\ Echoes(m, e.grantor[from])
  THEN Result([e EXCEPT !.grantor = Without(@, from)], NoMessages)
  ELSE Result(e, NoMessages)

----------------------------------------------------------------------------
(* The grantee's side *)

(* on_guard: a guard is taken up when there is no lease of that grantor    *)
(* and roster, or it is fresher than the one held; a node that takes it up *)
(* learns the roster, answers, and grants in turn.                         *)
OnGuard(e, from, m) ==
  LET key   == <<from, m.term>>
      held  == e.grantee[key]
      fresh == \/ key \notin DOMAIN e.grantee
               \/ m.attempt[1] > held.attempt[1]
               \/ m.attempt = held.attempt /\ m.seq > held.seq
      lease == [phase |-> "Guarded", attempt |-> m.attempt, seq |-> m.seq, guard |-> Shrink(GuardDuration),
                hold |-> 0, floor |-> m.accepted]
      e1    == [e EXCEPT !.grantee = With(@, key, lease), !.known = @ \cup {m.roster}]
  IN  IF Quarantined(e) \/ m.term < e.term \/ ~fresh THEN Result(e, NoMessages)
      ELSE AndThen(Result(e1, To(from, ReplyTo(m, "GuardReply"))),
                   LAMBDA f : GrantFor(f, m.roster, f.accepted))

(* on_renew: the hold starts in the guard's window and is extended only    *)
(* while it lasts.                                                         *)
OnRenew(e, from, m) ==
  LET key   == <<from, m.term>>
      lease == e.grantee[key]
      live  == [lease EXCEPT !.phase = "Renewed", !.seq = m.seq, !.guard = 0, !.hold = Shrink(LeaseDuration),
                             !.floor = Max({@, m.committed})]
      InTime == IF lease.phase = "Guarded" THEN lease.guard > 0
                                           ELSE lease.hold > 0 /\ Shrink(LeaseDuration) > lease.hold
  IN  IF key \in DOMAIN e.grantee /\ m.attempt = lease.attempt /\ m.seq > lease.seq /\ InTime
      THEN Result([e EXCEPT !.grantee[key] = live], To(from, ReplyTo(m, "RenewReply")))
      ELSE Result(e, NoMessages)

(* on_revoke: of the lease named, or else of the newest lease of that      *)
(* grantor for an older roster.                                            *)
OnRevoke(e, from, m) ==
  LET older == {k \in DOMAIN e.grantee : k[1] = from /\ k[2] < m.term}
      key   == IF <<from, m.term>> \in DOMAIN e.grantee THEN <<from, m.term>>
               ELSE <<from, Max({k[2] : k \in older})>>
      lease == e.grantee[key]
  IN  IF /\ <<from, m.term>> \in DOMAIN e.grantee \/ older # {}
         /\ m.attempt[1] > lease.attempt[1] \/ m.seq > lease.seq
      THEN Result([e EXCEPT !.grantee = Without(@, key)], To(from, ReplyTo(m, "RevokeReply")))
      ELSE Result(e, NoMessages)

(* receive *)
Receive(e, from, m) ==
  CASE m.type = "Guard"       -> OnGuard(e, from, m)
    [] m.type = "GuardReply"  -> OnGuardReply(e, from, m)
    [] m.type = "Renew"       -> OnRenew(e, from, m)
    [] m.type = "RenewReply"  -> OnRenewReply(e, from, m)
    [] m.type = "Revoke"      -> OnRevoke(e, from, m)
    [] m.type = "RevokeReply" -> OnRevokeReply(e, from, m)

----------------------------------------------------------------------------
(* Reads *)

(* stable: the live holds of the current term from a majority, the         *)
(* roster's leader among them.                                             *)
Grants(e) == {k \in DOMAIN e.grantee : /\ e.grantee[k].phase = "Renewed" /\ e.grantee[k].hold > 0
                                       /\ k[2] = e.term /\ RosterOfTerm(e, k[2]) # {}}

Stable(e) ==
  /\ Cardinality(Grants(e)) >= Majority
  /\ \E r \in RosterOfTerm(e, e.term) : <<r.leader, r.term>> \in Grants(e)

(* Mutant: the smallest contribution. *)
FloorOfAnyGrantor(e) == Min({e.grantee[k].floor : k \in Grants(e)})

(* The floor: the contribution at position Majority, in ascending order.   *)
Floor(e) ==
  Min({f \in {e.grantee[k].floor : k \in Grants(e)} :
         Cardinality({k \in Grants(e) : e.grantee[k].floor <= f}) >= Majority})

(* evidence: a read may be served locally. *)
Evidence(e, applied) == Stable(e) /\ applied >= Floor(e)

----------------------------------------------------------------------------
(* Time *)

Less(t) == IF t > 0 THEN t - 1 ELSE 0

Elapse(e) ==
  [e EXCEPT !.quarantine = Less(@),
            !.grantor = [p \in DOMAIN @ |-> [@[p] EXCEPT !.guard = Less(@), !.due = Less(@),
                                                         !.exclusion = Less(@)]],
            !.grantee = [k \in DOMAIN @ |-> [@[k] EXCEPT !.guard = Less(@), !.hold = Less(@)]]]
=============================================================================
