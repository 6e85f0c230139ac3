----------------------------- MODULE LiveTablet -----------------------------
(***************************************************************************)
(* The durable side of one tablet: LiveTablet and SessionDedup of          *)
(* crates/kivi-engine/src/tablet.rs.                                       *)
(*                                                                         *)
(* A value is represented by its history, the sequence of the requests     *)
(* that wrote the key, so that its length is the key's version.  An        *)
(* outcome is the version a write produced, or 0 for a rejected            *)
(* conditional request, which is remembered like any other.                *)
(*                                                                         *)
(*   live [next, applied, store, dedup, tracking, dirty]: next_commit,     *)
(*        applied_commit, store, dedup, bands.is_some() and the dirty set  *)
(*        of bands; a band is represented by one key;                      *)
(*   rec  [tablet, commit, req, ack, out]: MutationRecord, or              *)
(*        OutcomeRecord when out = 0.                                      *)
(***************************************************************************)
EXTENDS ClientRequests, FiniteSetsExt, Functions, TLC

CONSTANTS Tablets,
          TabletOf,      \* the tablet that owns each key
          SessionCap     \* SESSION_OUTCOME_CAP

ASSUME TabletAssumption ==
  TabletOf \in [Keys -> Tablets] /\ SessionCap \in Nat \ {0}

KeysOf(t) == {k \in Keys : TabletOf[k] = t}

EmptyDedup == [floor |-> 0, outcomes |-> <<>>]

(* from_descriptor: a tablet with no state. *)
FreshTablet(t) ==
  [next |-> 0, applied |-> 0, store |-> [k \in KeysOf(t) |-> <<>>],
   dedup |-> [s \in Sessions |-> EmptyDedup], tracking |-> FALSE, dirty |-> {}]

(* enable_band_tracking: every band starts clean. *)
EnableBandTracking(live) == [live EXCEPT !.tracking = TRUE, !.dirty = {}]

(* advance_floor *)
AdvanceFloor(d, ack) ==
  IF ack > d.floor
  THEN [floor |-> ack,
        outcomes |-> [n \in {m \in DOMAIN d.outcomes : m > ack} |-> d.outcomes[n]]]
  ELSE d

(* Mutant: a remembered outcome does not stop a retry. *)
CheckIdentityWithoutHit(live, e) ==
  LET d == live.dedup[e.req.session]
  IN  IF e.req.seq <= Max({d.floor, e.ack}) THEN "Expired"
      ELSE IF Cardinality(DOMAIN d.outcomes) >= SessionCap THEN "Overloaded"
      ELSE "Admit"

(* A retry meets the floor its own acknowledgement would install. *)
CheckIdentity(live, e) ==
  LET d == live.dedup[e.req.session]
  IN  IF e.req.seq <= Max({d.floor, e.ack}) THEN "Expired"
      ELSE IF e.req.seq \in DOMAIN d.outcomes THEN "Hit"
      ELSE IF Cardinality(DOMAIN d.outcomes) >= SessionCap THEN "Overloaded"
      ELSE "Admit"

(* The outcome of a request on a key that has been written n times. *)
OutcomeOn(req, n) == IF req \in Conditional /\ n > 0 THEN 0 ELSE n + 1

(* commit_persisted and commit_terminal assert this, and recovery refuses  *)
(* to start without it: commits apply in order, and applying a mutation    *)
(* gives the outcome that was predicted when it was prepared.              *)
Applies(live, rec) ==
  /\ rec.commit = live.applied + 1
  /\ rec.out # 0 => rec.out = Len(live.store[KeyOf[rec.req]]) + 1

(* One durable record takes effect, on the live path and in recovery: the  *)
(* store, the dirty band, the remembered outcome, then the session floor.  *)
Apply(live, rec) ==
  LET k == KeyOf[rec.req]
      s == rec.req.session
      d == [live.dedup[s] EXCEPT !.outcomes = (rec.req.seq :> rec.out) @@ @]
  IN  [next     |-> live.next,
       applied  |-> rec.commit,
       store    |-> IF rec.out = 0 THEN live.store
                    ELSE [live.store EXCEPT ![k] = Append(@, rec.req)],
       dedup    |-> [live.dedup EXCEPT ![s] = AdvanceFloor(d, rec.ack)],
       tracking |-> live.tracking,
       dirty    |-> IF rec.out # 0 /\ live.tracking THEN live.dirty \cup {k} ELSE live.dirty]

(* Records applied in order up to the first that does not fit. *)
ApplyAll(live, recs) ==
  LET after[n \in 0..Len(recs)] ==
        IF n = 0 THEN [ok |-> TRUE, live |-> live]
        ELSE IF after[n - 1].ok /\ Applies(after[n - 1].live, recs[n])
             THEN [ok |-> TRUE, live |-> Apply(after[n - 1].live, recs[n])]
             ELSE [ok |-> FALSE, live |-> after[n - 1].live]
  IN  after[Len(recs)]

(* capture_view: what a checkpoint saves.  Taking the view clears the      *)
(* dirty set.                                                              *)
CaptureView(live) ==
  [cut |-> live.applied, store |-> live.store, dedup |-> live.dedup, dirty |-> live.dirty]

Captured(live) == [live EXCEPT !.dirty = {}]

(* Mutant: the session floors are not restored. *)
RestoreWithoutFloors(t, cut, store, dedup) ==
  [FreshTablet(t) EXCEPT !.next = cut, !.applied = cut, !.store = store,
                         !.dedup = [s \in Sessions |-> [dedup[s] EXCEPT !.floor = 0]]]

(* restore_checkpoint *)
RestoreCheckpoint(t, cut, store, dedup) ==
  [FreshTablet(t) EXCEPT !.next = cut, !.applied = cut, !.store = store, !.dedup = dedup]

(* replay_records for one tablet: the records past the restored cut, in    *)
(* commit order, as a set that is empty when the chain breaks or an        *)
(* outcome differs.                                                        *)
Replay(t, live, recs) ==
  LET tail == SortSeq(SelectSeq(recs, LAMBDA r : r.tablet = t /\ r.commit > live.applied),
                      LAMBDA a, b : a.commit < b.commit)
      end  == ApplyAll(live, tail)
  IN  {[l EXCEPT !.next = l.applied] : l \in {x \in {end.live} : end.ok}}
=============================================================================
