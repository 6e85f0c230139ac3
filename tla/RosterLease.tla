---------------------------- MODULE RosterLease ----------------------------
(***************************************************************************)
(* Local reads under roster leases: the lease driver of                    *)
(* crates/kivi-consensus/src/consistency.rs (lease_drive, lease_receive,   *)
(* takeover_fence), the calls between nodes and the coverage gate of a     *)
(* write of crates/kivi-consensus/src/node.rs (propose, coverage_gate,     *)
(* send_lease_batches), over the engines of RosterEngine, for one tablet   *)
(* whose provider is RosterLease.                                          *)
(*                                                                         *)
(* OpenRaft is external: terms, logs, elections, replication and commits   *)
(* are modelled by what the code reads of them.  A log entry is its term;  *)
(* a position is an index of the log.                                      *)
(*                                                                         *)
(* Time passes in units, at the same rate everywhere.  In one unit the     *)
(* driver of a node runs once, unless it is stalled, and a message is      *)
(* delivered in the unit it was sent or at most budget.delay units later,  *)
(* unless it is lost.  Messages of a node to another arrive in the order   *)
(* sent unless Reordering is set.  What may happen how often is the        *)
(* budget, chosen initially.                                               *)
(***************************************************************************)
EXTENDS RosterEngine, SequencesExt

CONSTANTS Reordering, Budgets

VARIABLES
  raft,       \* raft[n]: [term, leads, log, committed, applied]
  process,    \* process[n]: [incarnation, driven, takeover], driven a set of at most one term
  engine,     \* engine[n]: the set of at most one engine
  calls,      \* calls[<<n, p>>]: the batches from n under way to p, [reply, round, batch, age]
  writes,     \* proposals not answered: [node, position, term, stage, hold, uncovered]
  acked,      \* history: positions of the writes that were acknowledged
  missed,     \* history: <<position, node>>, the nodes a gate neither covered nor vouched for
  waiting,    \* the nodes whose driver has not run in this unit
  budget      \* [time, writes, losses, stalls, restarts, elections] left, and the longest delay

vars == <<raft, process, engine, calls, writes, acked, missed, waiting, budget>>

Links == {l \in Nodes \X Nodes : l[1] # l[2]}

Init ==
  /\ raft = [n \in Nodes |-> [term |-> 1, leads |-> n = Min(Nodes), log |-> <<1>>,
                              committed |-> 1, applied |-> 1]]
  /\ process = [n \in Nodes |-> [incarnation |-> FirstIncarnation, driven |-> {}, takeover |-> 0]]
  /\ engine = [n \in Nodes |-> {}]
  /\ calls = [l \in Links |-> <<>>]
  /\ writes = {} /\ acked = {} /\ missed = {}
  /\ waiting = Nodes
  /\ budget \in Budgets

Spend(what) == budget[what] > 0 /\ budget' = [budget EXCEPT ![what] = @ - 1]

----------------------------------------------------------------------------
(* OpenRaft, external *)

(* propose up to the wait for client_write: an entry of the leader's log.  *)
Propose(n) ==
  /\ raft[n].leads /\ Spend("writes")
  /\ raft' = [raft EXCEPT ![n].log = Append(@, raft[n].term)]
  /\ writes' = writes \cup {[node |-> n, position |-> Len(raft[n].log) + 1, term |-> raft[n].term,
                             stage |-> "Commit", hold |-> 0, uncovered |-> {}]}
  /\ UNCHANGED <<process, engine, calls, acked, missed, waiting>>

(* The leader n brings p up to date; an entry of its term that is on a     *)
(* majority is committed.                                                  *)
Replicate(n, p) ==
  LET r         == raft[n]
      Has(q, i) == q = p \/ (i <= Len(raft[q].log) /\ raft[q].log[i] = r.term)
      quorum    == {i \in DOMAIN r.log : /\ r.log[i] = r.term
                                         /\ Cardinality({q \in Nodes : Has(q, i)}) >= Majority}
  IN  /\ n # p /\ r.leads /\ raft[p].term <= r.term
      /\ raft' = [raft EXCEPT ![n].committed = Max({@} \cup quorum),
                              ![p] = [@ EXCEPT !.term = r.term, !.leads = FALSE, !.log = r.log,
                                               !.committed = Max({@, r.committed})]]
      /\ raft' # raft
      /\ UNCHANGED <<process, engine, calls, writes, acked, missed, waiting, budget>>

Apply(n) ==
  /\ raft[n].applied < raft[n].committed
  /\ raft' = [raft EXCEPT ![n].applied = raft[n].committed]
  /\ UNCHANGED <<process, engine, calls, writes, acked, missed, waiting, budget>>

UpToDate(a, b) ==
  \/ a[Len(a)] > b[Len(b)]
  \/ a[Len(a)] = b[Len(b)] /\ Len(a) >= Len(b)

(* n becomes the leader of the next term with the votes of Q, and starts   *)
(* it with an entry of its own.                                            *)
Elect(n) ==
  /\ ~raft[n].leads /\ Spend("elections")
  /\ \E Q \in SUBSET Nodes :
       LET term == raft[n].term + 1 IN
       /\ n \in Q /\ Cardinality(Q) >= Majority
       /\ \A q \in Q : UpToDate(raft[n].log, raft[q].log) /\ raft[q].term < term
       /\ raft' = [q \in Nodes |->
                     IF q = n THEN [raft[n] EXCEPT !.term = term, !.leads = TRUE, !.log = Append(@, term)]
                     ELSE IF q \in Q THEN [raft[q] EXCEPT !.term = term, !.leads = FALSE]
                     ELSE raft[q]]
  /\ UNCHANGED <<process, engine, calls, writes, acked, missed, waiting>>

----------------------------------------------------------------------------
(* The lease driver *)

(* The messages of one batch, received in order. *)
ReceiveAll(e, from, batch) ==
  FoldLeft(LAMBDA r, m : AndThen(r, LAMBDA f : Receive(f, from, m)), Result(e, NoMessages), batch)

(* drain_loopback: messages of the node to itself are received on the      *)
(* spot, for at most that many rounds.  A lease to oneself needs four of   *)
(* the eight, so that nothing is left when they are used up.               *)
RECURSIVE DrainLoopback(_, _)
DrainLoopback(r, rounds) ==
  LET local == r.engine.local
      next  == ReceiveAll(r.engine, local, r.out[local])
  IN  IF rounds = 0 \/ r.out[local] = <<>> THEN [r EXCEPT !.out[local] = <<>>]
      ELSE DrainLoopback(Result(next.engine, Both([r.out EXCEPT ![local] = <<>>], next.out)),
                         rounds - 1)

(* send_lease_batches: the batches of a result go to their targets, three  *)
(* rounds in all.                                                          *)
Send(c, n, out, round) ==
  [l \in Links |->
     IF l[1] = n /\ out[l[2]] # <<>> /\ round <= 3
     THEN Append(c[l], [reply |-> FALSE, round |-> round, batch |-> out[l[2]], age |-> 0])
     ELSE c[l]]

(* takeover_fence: the hold owed by this drive, as a set of at most one. *)
TakeoverFence(n, term) ==
  LET owed == \/ engine[n] = {}
              \/ /\ process[n].driven # {term}
                 /\ \E e \in engine[n] : /\ \E r \in e.known : r.term # term
                                         /\ ~(Nodes \ {n} \subseteq CoveredGrantees(e))
  IN  IF process[n].incarnation # FirstIncarnation /\ owed THEN {Quarantine} ELSE {}

(* lease_tick_drive with lease_drive: what Raft says of the term and of    *)
(* the log is reconciled, the leases tick, and the roster of the term is   *)
(* announced by its leader or granted for by everyone who knows it.        *)
LeaseDrive(n) ==
  LET v  == raft[n]
      e0 == IF engine[n] = {} THEN NewEngine(n, process[n].incarnation, v.term)
                              ELSE CHOOSE x \in engine[n] : TRUE
      Grant(f) ==
        LET current == RosterOfTerm(f, v.term) IN
        IF Quarantined(f) THEN Result(f, NoMessages)
        ELSE IF current # {} THEN GrantFor(f, CHOOSE r \in current : TRUE, Len(v.log))
        ELSE IF v.leads THEN Announce(f, Len(v.log)) ELSE Result(f, NoMessages)
      r == DrainLoopback(AndThen(AndThen(Reconcile(e0, v.term),
                                         LAMBDA f : EngineTick(f, Len(v.log), v.committed)),
                                 Grant), 8)
  IN  /\ n \in waiting
      /\ waiting' = waiting \ {n}
      /\ process' = [process EXCEPT ![n] =
           [@ EXCEPT !.driven = {v.term}, !.takeover = Max({@} \cup TakeoverFence(n, v.term))]]
      /\ engine' = [engine EXCEPT ![n] = {r.engine}]
      /\ calls' = Send(calls, n, r.out, 1)
      /\ UNCHANGED <<raft, writes, acked, missed, budget>>

(* lease_receive: a batch reaches an engine, if there is one. *)
LeaseReceive(n, from, batch) ==
  {DrainLoopback(ReceiveAll(e, from, batch), 8) : e \in engine[n]}

Forget(l, i) == [calls EXCEPT ![l] = RemoveAt(@, i)]

(* A batch overtakes another one only if calls are reordered. *)
Arrives(l, i) == Reordering \/ i = 1

(* serve_lease: everything the engine sends in answer, to whomever, goes   *)
(* back to the caller.                                                     *)
ServeLease(l, i) ==
  LET c     == calls[l][i]
      order == SetToSortSeq(Nodes, <)
      Reply(out) == [c EXCEPT !.reply = TRUE, !.age = 0,
                       !.batch = FlattenSeq([j \in DOMAIN order |-> out[order[j]]])]
  IN  /\ Arrives(l, i) /\ ~c.reply
      /\ \/ /\ engine[l[2]] = {}
            /\ calls' = Forget(l, i)
            /\ UNCHANGED engine
         \/ \E r \in LeaseReceive(l[2], l[1], c.batch) :
              /\ engine' = [engine EXCEPT ![l[2]] = {r.engine}]
              /\ calls' = IF Reply(r.out).batch = <<>> THEN Forget(l, i)
                          ELSE [Forget(l, i) EXCEPT ![<<l[2], l[1]>>] = Append(@, Reply(r.out))]
      /\ UNCHANGED <<raft, process, writes, acked, missed, waiting, budget>>

(* send_lease_batches, when an answer comes: it is received, and what the  *)
(* engine sends in turn is the next round.                                 *)
TakeReply(l, i) ==
  /\ Arrives(l, i) /\ calls[l][i].reply
  /\ \E r \in LeaseReceive(l[2], l[1], calls[l][i].batch) :
       /\ engine' = [engine EXCEPT ![l[2]] = {r.engine}]
       /\ calls' = Send(Forget(l, i), l[2], r.out, calls[l][i].round + 1)
  /\ UNCHANGED <<raft, process, writes, acked, missed, waiting, budget>>

(* A request or an answer is lost: call returns an error. *)
Lose(l, i) ==
  /\ Spend("losses")
  /\ calls' = Forget(l, i)
  /\ UNCHANGED <<raft, process, engine, writes, acked, missed, waiting>>

----------------------------------------------------------------------------
(* Writes: propose after client_write, and coverage_gate *)

(* Mutant: the gate polls its own node. *)
RespondersWithSelf(n) == UNION {CoveredGrantees(e) : e \in engine[n]}

(* covered_grantees of the hub, without the node itself. *)
Responders(n) == UNION {CoveredGrantees(e) : e \in engine[n]} \ {n}

(* The gate passes once nobody is left to poll. *)
Answer(w, uncovered) ==
  IF uncovered = {}
  THEN acked' = acked \cup {w.position} /\ writes' = writes \ {w}
  ELSE /\ writes' = (writes \ {w}) \cup {[w EXCEPT !.stage = "Poll", !.uncovered = uncovered]}
       /\ UNCHANGED acked

(* The lease driver of the writer's node has seen the write committed, so  *)
(* that every later renewal vouches for it.                                *)
Seen(w) == \E e \in engine[w.node] : e.committed >= w.position

(* coverage_gate looks up the responders once. *)
Snapshot(w) ==
  /\ Answer(w, Responders(w.node))
  /\ missed' = missed \cup {<<w.position, p>> :
                              p \in {q \in Nodes \ Responders(w.node) : ~Seen(w)}}

(* client_write returns once the entry is applied, and the gate starts,    *)
(* with the takeover hold if there is one.  When another entry took the    *)
(* place it returns an error; such a write just stays here.                *)
Committed(w) ==
  /\ w.stage = "Commit"
  /\ raft[w.node].applied >= w.position /\ raft[w.node].log[w.position] = w.term
  /\ \/ /\ process[w.node].takeover > 0
        /\ writes' = (writes \ {w})
                       \cup {[w EXCEPT !.stage = "Hold", !.hold = process[w.node].takeover]}
        /\ UNCHANGED <<acked, missed>>
     \/ process[w.node].takeover = 0 /\ Snapshot(w)
  /\ UNCHANGED <<raft, process, engine, calls, waiting, budget>>

HoldOver(w) ==
  /\ w.stage = "Hold" /\ w.hold = 0
  /\ Snapshot(w)
  /\ UNCHANGED <<raft, process, engine, calls, waiting, budget>>

(* poll_coverage_once, when p answers that it has applied the write. *)
PollCoverage(w, p) ==
  /\ w.stage = "Poll" /\ p \in w.uncovered
  /\ raft[p].applied >= w.position
  /\ Answer(w, w.uncovered \ {p})
  /\ UNCHANGED <<raft, process, engine, calls, missed, waiting, budget>>

(* The window of the gate ends: the responders left are revoked, and the   *)
(* write is answered with an uncertain outcome.                            *)
CoverageTimeout(w) ==
  /\ w.stage = "Poll"
  /\ \E e \in engine[w.node] :
       LET r == ForPeers(e, w.uncovered, RevokePeer) IN
       /\ engine' = [engine EXCEPT ![w.node] = {r.engine}]
       /\ calls' = Send(calls, w.node, r.out, 1)
  /\ writes' = writes \ {w}
  /\ UNCHANGED <<raft, process, acked, missed, waiting, budget>>

----------------------------------------------------------------------------
(* Time and faults *)

Tick ==
  /\ waiting = {} /\ Spend("time")
  /\ \A l \in Links : \A i \in DOMAIN calls[l] : calls[l][i].age < budget.delay
  /\ engine' = [n \in Nodes |-> {Elapse(e) : e \in engine[n]}]
  /\ process' = [n \in Nodes |-> [process[n] EXCEPT !.takeover = Less(@)]]
  /\ calls' = [l \in Links |-> [i \in DOMAIN calls[l] |-> [calls[l][i] EXCEPT !.age = @ + 1]]]
  /\ writes' = {[w EXCEPT !.hold = Less(@)] : w \in writes}
  /\ waiting' = Nodes
  /\ UNCHANGED <<raft, acked, missed>>

(* The driver does not get to run in this unit. *)
Stall(n) ==
  /\ n \in waiting /\ Spend("stalls")
  /\ waiting' = waiting \ {n}
  /\ UNCHANGED <<raft, process, engine, calls, writes, acked, missed>>

(* The process dies and starts again: a new incarnation without an engine. *)
(* It may find itself leader still, and its state machine behind.          *)
Restart(n) ==
  /\ Spend("restarts")
  /\ \E leads \in {FALSE, raft[n].leads}, applied \in {1, raft[n].applied} :
       raft' = [raft EXCEPT ![n] = [@ EXCEPT !.leads = leads, !.applied = applied]]
  /\ process' = [process EXCEPT ![n] =
                   [incarnation |-> @.incarnation + 1, driven |-> {}, takeover |-> 0]]
  /\ engine' = [engine EXCEPT ![n] = {}]
  /\ calls' = [l \in Links |-> SelectSeq(calls[l], LAMBDA c : ~(c.reply /\ l[2] = n))]
  /\ writes' = {w \in writes : w.node # n}
  /\ UNCHANGED <<acked, missed, waiting>>

Next ==
  \/ \E n \in Nodes : Propose(n) \/ Apply(n) \/ Elect(n)
  \/ \E n, p \in Nodes : Replicate(n, p)
  \/ \E n \in Nodes : LeaseDrive(n) \/ Stall(n) \/ Restart(n)
  \/ \E l \in Links : \E i \in DOMAIN calls[l] : ServeLease(l, i) \/ TakeReply(l, i) \/ Lose(l, i)
  \/ \E w \in writes : Committed(w) \/ HoldOver(w) \/ CoverageTimeout(w)
  \/ \E w \in writes, p \in Nodes : PollCoverage(w, p)
  \/ Tick

Spec == Init /\ [][Next]_vars

----------------------------------------------------------------------------
(* Properties *)

(* Engines, calls and writes have the shape the code gives them: an engine *)
(* knows no term that Raft has not reached, no exchange has a fourth       *)
(* round, and the coverage gate never waits for its own node.              *)
TypeOK ==
  /\ \A n \in Nodes : /\ Cardinality(engine[n]) <= 1
                      /\ \A e \in engine[n] : IsEngine(e, 1..Max({raft[q].term : q \in Nodes}))
                      /\ raft[n].applied <= raft[n].committed /\ raft[n].committed <= Len(raft[n].log)
  /\ \A l \in Links : \A i \in DOMAIN calls[l] : calls[l][i].round \in 1..3
  /\ \A w \in writes : /\ w.stage \in {"Commit", "Hold", "Poll"}
                       /\ w.uncovered \subseteq Nodes \ {w.node}
                       /\ (w.stage = "Poll") <=> (w.uncovered # {})

(* A hold that allows its node to read. *)
LiveHolds(e) == {k \in DOMAIN e.grantee : e.grantee[k].phase = "Renewed" /\ e.grantee[k].hold > 0}

(* How long f still excludes for n: how long a write waits for it. *)
ExclusionLeft(f, n) == IF n \in CoveredGrantees(f) THEN f.grantor[n].exclusion ELSE 0

(* What expand adds and the grantee takes off: between them a hold ends    *)
(* this much before its exclusion, when the renewal takes no time.         *)
Slack == Expand(LeaseDuration) - Shrink(LeaseDuration)

(* The asymmetric deadlines under delays: the exclusion counts from the    *)
(* sending of a renewal and the hold from its receipt, and a hold outlasts *)
(* the exclusion of the process that granted it by no more than a message  *)
(* may take beyond the slack, through renewals, mutes, revocations,        *)
(* stalled drivers and lost messages.  When no message takes longer than   *)
(* the slack, the grantee of a live hold is always one of the              *)
(* covered_grantees that a write waits for.                                *)
HoldsAreExcluded ==
  \A n \in Nodes : \A e \in engine[n] : \A k \in LiveHolds(e) : \A f \in engine[k[1]] :
    f.incarnation = e.grantee[k].attempt[1] =>
      e.grantee[k].hold + Slack <= ExclusionLeft(f, n) + budget.delay

(* The same without a bound on delays: a lease that is removed never       *)
(* uncovers a live hold ("The grantee's hold already lapsed first, by the  *)
(* asymmetric deadlines", tick in roster.rs).                              *)
RemovalUncoversNothing ==
  \A n \in Nodes : \A e \in engine[n] : \A k \in LiveHolds(e) : \A f \in engine[k[1]] :
    f.incarnation = e.grantee[k].attempt[1] => n \in CoveredGrantees(f)

(* As long as a hold lasts that a process has granted before it died, the  *)
(* engine of its successor is in quarantine.  ("After this span, no        *)
(* grantee can still consider a forgotten grant valid", quarantine in      *)
(* roster.rs.)                                                             *)
QuarantineOutlivesHolds ==
  \A n \in Nodes : \A e \in engine[n] : \A k \in LiveHolds(e) : \A f \in engine[k[1]] :
    f.incarnation > e.grantee[k].attempt[1] => Quarantined(f)

(* The node serves a read from its own state: evidence at the hub. *)
Serves(n) == \E e \in engine[n] : Evidence(e, raft[n].applied)

(* A node that serves reads from its own state has applied every write     *)
(* that was acknowledged before.  ("... so a later local read can never    *)
(* miss an externally completed write", propose in node.rs.)               *)
LocalReadsSeeCompletedWrites ==
  \A n \in Nodes, i \in acked : Serves(n) => raft[n].applied >= i

(* The same for the writes whose coverage gate waited for the node, or     *)
(* which the lease driver of the writer had seen committed when the gate   *)
(* looked up whom to wait for.                                             *)
CoveredReads ==
  \A n \in Nodes, i \in acked : Serves(n) /\ <<i, n>> \notin missed => raft[n].applied >= i
=============================================================================
