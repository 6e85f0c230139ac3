-------------------------------- MODULE Wal --------------------------------
(***************************************************************************)
(* One write-ahead-log lane: LocalWalLane of                               *)
(* crates/kivi-durability/src/wal.rs.  The operators here are functions of *)
(* the lane (its volatile fields) and of the segment files of its          *)
(* directory; the modules that use them own the variables.                 *)
(*                                                                         *)
(*   lane   [target, file, seq, bytes, next, first, health]: target_bytes, *)
(*          file.is_some(), segment_seq, segment_bytes, next_batch_seq,    *)
(*          active_first_batch, health;                                    *)
(*   files  a function from the segment numbers present to                 *)
(*          [header, frames]: header is FALSE for a file shorter than its  *)
(*          header, frames are the batches in file order, the constant     *)
(*          Torn standing for an incomplete one.                           *)
(*                                                                         *)
(* Sizes are counted in units: one for a header, one for a batch.  An      *)
(* operation that can fail returns the set of its outcomes                 *)
(* [lane, files, ok].                                                      *)
(***************************************************************************)
EXTENDS Naturals, Sequences, FiniteSetsExt, SequencesExt, TLC

(* What the disk may do to a write, beside succeeding.  "io": the write or *)
(* its fsync fails after none or all of the batch; "tear": it fails in the *)
(* middle; "space": the filesystem is full, after any part of the batch;   *)
(* "rotate": a segment cannot be created; "header": a segment file is left *)
(* with a short header.                                                    *)
FaultKinds == {"io", "tear", "space", "rotate", "header"}

Torn == [seq |-> 0, recs |-> <<>>]

Segment(header, frames) == [header |-> header, frames |-> frames]

SegmentBytes(s) == (IF s.header THEN 1 ELSE 0) + Len(s.frames)

Outcome(l, f, ok) == [lane |-> l, files |-> f, ok |-> ok]

(* A lane as open leaves it, before recovery. *)
NewLane(target) ==
  [target |-> target, file |-> FALSE, seq |-> 0, bytes |-> 0, next |-> 1, first |-> 1,
   health |-> "Healthy"]

(* The segment file n with one more frame at its end. *)
WithFrame(f, n, b) == [f EXCEPT ![n].frames = Append(@, b)]

----------------------------------------------------------------------------
(* Writing *)

(* rotate: the current file is closed first, so an error leaves the lane   *)
(* without one; create_new refuses a name that is taken.                   *)
Rotate(l, f, faults) ==
  LET n      == l.seq + 1
      closed == [l EXCEPT !.file = FALSE]
      opened == [l EXCEPT !.file = TRUE, !.seq = n, !.bytes = 1, !.first = l.next]
  IN  IF n \in DOMAIN f THEN {Outcome(closed, f, FALSE)}
      ELSE {Outcome(opened, (n :> Segment(TRUE, <<>>)) @@ f, TRUE)}
           \cup {Outcome(closed, f, FALSE) : x \in faults \cap {"rotate"}}
           \cup {Outcome(closed, (n :> Segment(FALSE, <<>>)) @@ f, FALSE)
                   : x \in faults \cap {"header"}}

(* ensure_open: the first segment of a new lane, or the last one reopened  *)
(* for appending.                                                          *)
EnsureOpen(l, f, faults) ==
  IF l.file THEN {Outcome(l, f, TRUE)}
  ELSE IF l.seq = 0 THEN Rotate(l, f, faults)
  ELSE IF l.seq \notin DOMAIN f THEN {Outcome(l, f, FALSE)}
  ELSE {Outcome([l EXCEPT !.file = TRUE, !.bytes = SegmentBytes(f[l.seq])], f, TRUE)}

(* The part of seal_encoded_body before the write: a segment that cannot   *)
(* hold the batch is left for a new one.                                   *)
MakeRoom(l, f, faults) ==
  IF l.bytes > 0 /\ l.bytes + 1 > l.target THEN Rotate(l, f, faults)
                                          ELSE {Outcome(l, f, TRUE)}

(* The write and its fsync.  An error leaves any part of the batch in the  *)
(* file and does not advance the batch sequence; a full disk makes the     *)
(* lane read-only, any other error fails it for good.                      *)
Write(l, f, recs, faults) ==
  LET b     == [seq |-> l.next, recs |-> recs]
      whole == WithFrame(f, l.seq, b)
      torn  == WithFrame(f, l.seq, Torn)
      done  == [l EXCEPT !.bytes = @ + 1, !.next = @ + 1, !.health = "Healthy"]
      Err(health, left) == {Outcome([l EXCEPT !.health = health], g, FALSE) : g \in left}
  IN  {Outcome(done, whole, TRUE)}
      \cup (IF "io" \in faults THEN Err("Failed", {f, whole}) ELSE {})
      \cup (IF "tear" \in faults THEN Err("Failed", {torn}) ELSE {})
      \cup (IF "space" \in faults THEN Err("ReadOnly", {f, torn, whole}) ELSE {})

(* The steps of an operation that returns at the first error. *)
Then(outcomes, Step(_, _)) ==
  UNION {IF o.ok THEN Step(o.lane, o.files) ELSE {o} : o \in outcomes}

(* append_batch: one batch made durable by the lane thread. *)
AppendBatch(l, f, recs, faults) ==
  Then(EnsureOpen(l, f, faults),
       LAMBDA l1, f1 :
         IF l1.health = "Failed" THEN {Outcome(l1, f1, FALSE)}
         ELSE Then(MakeRoom(l1, f1, faults),
                   LAMBDA l2, f2 : Write(l2, f2, recs, faults)))

(* seal_active_segment: a segment that holds a batch is closed for a new   *)
(* one.  The lane's health is not looked at.                               *)
SealActive(l, f, faults) ==
  IF l.file /\ l.bytes > 1 THEN Rotate(l, f, faults) ELSE {Outcome(l, f, TRUE)}

(* What a process death may leave of an append that was under way: every   *)
(* prefix of what it does to the directory.                                *)
Interrupted(l, f, recs, faults) ==
  LET Reached(o) ==
        IF l.health = "Failed" \/ ~o.ok THEN {o.files}
        ELSE {o.files, WithFrame(o.files, o.lane.seq, Torn),
              WithFrame(o.files, o.lane.seq, [seq |-> o.lane.next, recs |-> recs])}
  IN  {f} \cup UNION {Reached(o) :
                o \in Then(EnsureOpen(l, f, faults \cap {"header"}),
                           LAMBDA l1, f1 : MakeRoom(l1, f1, faults \cap {"header"}))}

----------------------------------------------------------------------------
(* Recovery *)

(* LaneFloor: where recovery starts reading. *)
GenesisFloor == [segment |-> 1, batch |-> 1, next |-> 1]

(* A lane that cannot be recovered: the engine does not start. *)
Refused == [ok |-> FALSE]

(* The segments at or above the floor, in order. *)
RetainedSegments(f, floor) == {n \in DOMAIN f : n >= floor.segment}

FramesOf(f, S) ==
  FlattenSeq([i \in 1..Cardinality(S) |-> f[SetToSortSeq(S, <)[i]].frames])

(* scan_segment on a segment that is not the last, and scan_sealed: every  *)
(* byte must belong to a complete batch, and the batch sequence has no     *)
(* gap.                                                                    *)
StrictFrames(frames, expected) ==
  \A i \in DOMAIN frames : frames[i] # Torn /\ frames[i].seq = expected + i - 1

(* scan_segment on the last segment: the frames it keeps, as a set that is *)
(* empty when the scan fails.  A file shorter than its header is emptied.  *)
(* An incomplete batch at the end is cut off; when bytes were appended     *)
(* after an incomplete batch, they read as the rest of it or as a corrupt  *)
(* one, depending on sizes the model abstracts.                            *)
LastKept(s, expected) ==
  LET tears == {i \in DOMAIN s.frames : s.frames[i] = Torn}
      kept  == IF tears = {} THEN s.frames ELSE SubSeq(s.frames, 1, Min(tears) - 1)
  IN  IF ~s.header THEN {k \in {s.frames} : k = <<>>}
      ELSE {k \in {kept} : StrictFrames(k, expected)}

(* The scan may as well call the last segment corrupt. *)
LastAmbiguous(s) == s.header /\ \E i \in DOMAIN s.frames : s.frames[i] = Torn /\ i < Len(s.frames)

(* recover_from: the possible results [ok, files, lane, recs].  The        *)
(* retained segments start at the floor and have no gap; a torn tail of    *)
(* the last one is cut off; batch numbering resumes past everything read   *)
(* and past the floor's watermark.                                         *)
RecoverFrom(f, floor, target) ==
  LET S      == RetainedSegments(f, floor)
      last   == Max(S)
      early  == FramesOf(f, S \ {last})
      first  == floor.batch + Len(early)
      sound  == /\ S = floor.segment..last
                /\ \A n \in S \ {last} : f[n].header
                /\ StrictFrames(early, floor.batch)
      Recovered(kept) ==
        [ok |-> TRUE, files |-> [f EXCEPT ![last].frames = kept],
         lane |-> [NewLane(target) EXCEPT !.seq = last, !.first = first,
                     !.next = Max({first + Len(kept), floor.next})],
         recs |-> FlattenSeq([i \in DOMAIN (early \o kept) |-> (early \o kept)[i].recs])]
  IN  IF S = {}
      THEN {[ok |-> TRUE, files |-> f, recs |-> <<>>,
             lane |-> [NewLane(target) EXCEPT !.seq = Max(DOMAIN f \cup {floor.segment - 1}),
                         !.first = Max({floor.batch, floor.next}),
                         !.next = Max({floor.batch, floor.next})]]}
      ELSE IF ~sound \/ LastKept(f[last], first) = {} THEN {Refused}
      ELSE {Recovered(k) : k \in LastKept(f[last], first)}
           \cup {Refused : x \in {TRUE} \cap {LastAmbiguous(f[last])}}

----------------------------------------------------------------------------
(* Maintenance, for the checkpoint worker *)

(* LaneFloorSnapshot: the positions a reclaim anchors on. *)
FloorSnapshot(l) == [segment |-> l.seq, first |-> l.first, next |-> l.next]

(* scan_sealed succeeds on segment n. *)
Scannable(f, n) ==
  f[n].header /\ (f[n].frames = <<>> \/ StrictFrames(f[n].frames, f[n].frames[1].seq))

(* SealedSegmentSummary: the first batch, 0 when there is none, and every  *)
(* record.                                                                 *)
Summary(f, n) ==
  [first |-> IF f[n].frames = <<>> THEN 0 ELSE f[n].frames[1].seq,
   recs  |-> UNION {Range(f[n].frames[i].recs) : i \in DOMAIN f[n].frames}]

(* delete_segment refuses the active segment. *)
Deletable(l, n) == n # l.seq

Without(f, n) == [m \in DOMAIN f \ {n} |-> f[m]]
============================================================================
