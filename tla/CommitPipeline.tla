--------------------------- MODULE CommitPipeline ---------------------------
(***************************************************************************)
(* The group-commit coordinator of one worker: CommitCoordinator of        *)
(* crates/kivi-engine/src/commit.rs.                                       *)
(*                                                                         *)
(*   w [co, live, acked, panic]: what poll reads and writes.  co holds the *)
(*     queue of admitted entries [req, ack], the open batch, the batch on  *)
(*     the lane and its proof ("none": no batch on the lane, "pending",    *)
(*     "ok", "err"); live maps each tablet; acked is the history of the    *)
(*     outcomes sent to clients; panic records a failed assertion.         *)
(*                                                                         *)
(* A batch is the sequence of its records.  What the code keeps beside     *)
(* them follows from them: commit_base, the overlay of each tablet,        *)
(* unapplied_identities and unapplied_sessions.                            *)
(***************************************************************************)
EXTENDS LiveTablet

CONSTANT MaxOps                 \* BatchPolicy.max_ops

ASSUME MaxOpsAssumption == MaxOps \in Nat \ {0}

IdleCoordinator == [queue |-> <<>>, open |-> <<>>, inflight |-> <<>>, proof |-> "none"]

TabletOfReq(req) == TabletOf[KeyOf[req]]

(* The outcomes a batch's replies carry. *)
Replies(batch) == {[req |-> batch[i].req, out |-> batch[i].out] : i \in DOMAIN batch}

(* apply_item: an item is applied to its tablet; a failed assertion ends   *)
(* it all.                                                                 *)
ApplyItem(a, rec) ==
  IF a.ok /\ Applies(a.live[rec.tablet], rec)
  THEN [live |-> [a.live EXCEPT ![rec.tablet] = Apply(@, rec)], ok |-> TRUE]
  ELSE [live |-> a.live, ok |-> FALSE]

(* The coordinator when its batch has left the lane. *)
LaneFree(co) == [queue |-> co.queue, open |-> co.open, inflight |-> <<>>, proof |-> "none"]

(* apply_completion, on proof: every item is applied in order, verified    *)
(* and answered.                                                           *)
ApplyProven(w) ==
  LET batch == w.co.inflight
      after[n \in 0..Len(batch)] ==
        IF n = 0 THEN [live |-> w.live, ok |-> TRUE] ELSE ApplyItem(after[n - 1], batch[n])
      done == after[Len(batch)]
  IN  [co |-> LaneFree(w.co), live |-> done.live, acked |-> w.acked \cup Replies(batch),
       panic |-> w.panic \/ ~done.ok]

(* commit_base: the position of a tablet before its first item in a batch. *)
CommitBase(batch, t) ==
  LET own == {i \in DOMAIN batch : batch[i].tablet = t}
  IN  batch[CHOOSE i \in own : \A j \in own : i <= j].commit - 1

(* The tablets that a batch has items of. *)
Touched(batch) == {batch[i].tablet : i \in DOMAIN batch}

(* Mutant: the position goes back to the one before commit_base. *)
RewindPastBase(w) ==
  [co |-> LaneFree(w.co), acked |-> w.acked, panic |-> w.panic,
   live |-> [t \in Tablets |->
     IF t \in Touched(w.co.inflight)
     THEN [w.live[t] EXCEPT !.next = CommitBase(w.co.inflight, t) - 1] ELSE w.live[t]]]

(* apply_completion, on a storage error: commit positions go back to       *)
(* commit_base.                                                            *)
RewindFailed(w) ==
  [co |-> LaneFree(w.co), acked |-> w.acked, panic |-> w.panic,
   live |-> [t \in Tablets |->
     IF t \in Touched(w.co.inflight)
     THEN [w.live[t] EXCEPT !.next = CommitBase(w.co.inflight, t)] ELSE w.live[t]]]

(* Mutant: the error of a batch is taken for its proof. *)
DrainUnproven(w) == IF w.co.proof \in {"ok", "err"} THEN ApplyProven(w) ELSE w

(* drain_completions *)
DrainCompletions(w) ==
  CASE w.co.proof = "ok"  -> ApplyProven(w)
    [] w.co.proof = "err" -> RewindFailed(w)
    [] OTHER -> w

(* answer_fast_paths: a settled identity is answered from the dedup state  *)
(* and leaves the queue.                                                   *)
AnswerFastPaths(w) ==
  LET queue   == w.co.queue
      Gate(e) == CheckIdentity(w.live[TabletOfReq(e.req)], e)
      hits    == {e \in Range(queue) : Gate(e) = "Hit"}
      Known(e) == w.live[TabletOfReq(e.req)].dedup[e.req.session].outcomes[e.req.seq]
      kept[n \in 0..Len(queue)] ==
        IF n = 0 THEN <<>>
        ELSE IF Gate(queue[n]) = "Admit" THEN Append(kept[n - 1], queue[n]) ELSE kept[n - 1]
  IN  [co |-> [w.co EXCEPT !.queue = kept[Len(queue)]], live |-> w.live,
       acked |-> w.acked \cup {[req |-> e.req, out |-> Known(e)] : e \in hits}, panic |-> w.panic]

(* batch_is_full: by count, or its formation window is over.  age is how   *)
(* long the open batch has been forming: "young", "lingered" (past linger) *)
(* or "overdue" (past max_wait).                                           *)
BatchIsFull(open, age) == open # <<>> /\ (Len(open) >= MaxOps \/ age = "overdue")

(* is_held, with no batch on the lane: the identity is in the open batch.  *)
IsHeld(open, e) == \E i \in DOMAIN open : open[i].req = e.req

(* The session-cap test of prepare_mutations: the outcomes retained by the *)
(* tablet and the unapplied ones of this batch.                            *)
SessionFull(live, open, e) ==
  Cardinality(DOMAIN live[TabletOfReq(e.req)].dedup[e.req.session].outcomes)
    + Len(SelectSeq(open, LAMBDA r : r.req.session = e.req.session)) >= SessionCap

(* Mutant: the committed store alone. *)
CommittedVersion(live, open, k) == Len(live[TabletOf[k]].store[k])

(* The version of key k that the next item of the open batch meets: the    *)
(* overlay of earlier items over the committed store.                      *)
OverlayVersion(live, open, k) ==
  Len(live[TabletOf[k]].store[k])
    + Cardinality({i \in DOMAIN open : KeyOf[open[i].req] = k /\ open[i].out # 0})

(* prepare_into_open: the outcome predicted over the overlay, and a commit *)
(* position.                                                               *)
PrepareIntoOpen(w, e) ==
  LET t   == TabletOfReq(e.req)
      rec == [tablet |-> t, commit |-> w.live[t].next + 1, req |-> e.req, ack |-> e.ack,
              out |-> OutcomeOn(e.req, OverlayVersion(w.live, w.co.open, KeyOf[e.req]))]
  IN  [co |-> [w.co EXCEPT !.open = Append(@, rec)],
       live |-> [w.live EXCEPT ![t].next = @ + 1],
       acked |-> w.acked, panic |-> w.panic]

(* One turn of the loop of prepare_mutations over the queue: an entry      *)
(* stays queued, is refused or joins the open batch.                       *)
PrepareEntry(w, e, age) ==
  IF BatchIsFull(w.co.open, age) \/ IsHeld(w.co.open, e)
  THEN [w EXCEPT !.co.queue = Append(@, e)]
  ELSE IF SessionFull(w.live, w.co.open, e) THEN w
  ELSE PrepareIntoOpen(w, e)

PrepareQueue(w, age) ==
  LET queue == w.co.queue
      after[n \in 0..Len(queue)] ==
        IF n = 0 THEN [w EXCEPT !.co.queue = <<>>]
        ELSE PrepareEntry(after[n - 1], queue[n], age)
  IN  after[Len(queue)]

(* Mutant: time never seals a batch, only its size. *)
SealBySize(co, age) == co.open # <<>> /\ Len(co.open) >= MaxOps

(* seal_is_due: full, past linger, or no queued entry can ever join. *)
SealIsDue(co, age) ==
  /\ co.open # <<>>
  /\ \/ BatchIsFull(co.open, age)
     \/ age # "young"
     \/ co.queue # <<>> /\ \A i \in DOMAIN co.queue : IsHeld(co.open, co.queue[i])

(* seal_open: the batch goes to the lane thread. *)
SealOpen(w) ==
  [w EXCEPT !.co = [queue |-> w.co.queue, open |-> <<>>, inflight |-> w.co.open,
                    proof |-> "pending"]]

(* prepare_mutations *)
PrepareMutations(w, age) ==
  LET p == PrepareQueue(w, age)
  IN  IF SealIsDue(p.co, age) THEN SealOpen(p) ELSE p

(* poll: one pass of the worker loop over the coordinator. *)
PollOnce(w, age) ==
  LET a == AnswerFastPaths(DrainCompletions(w))
  IN  IF a.co.proof = "none" THEN PrepareMutations(a, age) ELSE a
=============================================================================
