------------------------------- MODULE Durable -------------------------------
(***************************************************************************)
(* A durable single-node engine: one worker with its commit coordinator,   *)
(* the lane thread that owns its WAL lane, the checkpoint worker, and the  *)
(* clients that retry.  The three threads interleave; the process may die  *)
(* between any two of their steps and in the middle of a write, and starts *)
(* again from what the disk holds.                                         *)
(***************************************************************************)
EXTENDS Wal, CommitPipeline, Checkpoint

CONSTANTS Configs,           \* the configurations the node may run with
          MaxFaults,         \* how many disk operations may fail
          MaxCrashes,        \* how many times the process may die
          MaxCheckpoints     \* how many checkpoints may be taken

(* A configuration: the size of a segment, the lives of the process in     *)
(* which checkpoints are triggered, what the disk may do, and how often    *)
(* each request may be sent.  Beside the faults of a lane, "publish" is an *)
(* error in writing a checkpoint and "damage" the loss of one of its files.*)
Config == [target : Nat \ {0}, lives : SUBSET (1..(MaxCrashes + 1)),
           faults : SUBSET (FaultKinds \cup {"publish", "damage"}), sends : [Requests -> Nat]]

ASSUME BoundAssumption ==
  /\ {MaxFaults, MaxCrashes, MaxCheckpoints} \subseteq Nat
  /\ \A c \in Configs : c \in Config

VARIABLES
  config,     \* how the node is configured
  up,         \* the process is running
  co,         \* the commit coordinator (worker thread)
  live,       \* the live tablets (worker thread)
  lane,       \* the WAL lane (lane thread)
  ck,         \* the checkpoint worker: its program counter and locals
  installed,  \* the checkpoint worker's map of installed CURRENT records
  disk,       \* [files, floor, bands, comps, manifests, current]
  restart,    \* history: what a restart from this disk would find
  acked,      \* history: the outcomes clients were told
  sends,      \* how many times each request was sent
  life,       \* which life of the process this is
  built,      \* how many checkpoints were built
  failed,     \* how many operations failed
  panic       \* history: an assertion of the worker failed

vars == <<config, up, co, live, lane, ck, installed, disk, restart, acked, sends, life, built, failed, panic>>

bookkeeping == <<config, sends, life, built, failed>>
storage == <<disk, restart>>

IdleCheckpoint == [pc |-> "idle"]

EmptyDisk == [files |-> <<>>, floor |-> {}] @@ EmptyCheckpointDir

(* recover_durable on a disk d: checkpoints are restored, the lane is      *)
(* scanned from its floor and the records past each cut are replayed; then *)
(* band tracking starts.  The results are [ok, files, lane, live,          *)
(* installed], or Refused.                                                 *)
RecoverDurable(d, target) ==
  LET floor    == IF d.floor = {} THEN GenesisFloor ELSE CHOOSE f \in d.floor : TRUE
      restored == [t \in Tablets |-> CHOOSE x \in RestoreTablet(d, t) : TRUE]
      Tails(t, recs) == Replay(t, restored[t].live, recs)
      Started(r) ==
        IF ~r.ok THEN Refused
        ELSE IF \E t \in Tablets : Tails(t, r.recs) = {} THEN Refused
        ELSE [ok |-> TRUE, files |-> r.files, lane |-> r.lane,
              live |-> [t \in Tablets |->
                          EnableBandTracking(CHOOSE l \in Tails(t, r.recs) : TRUE)],
              installed |-> [t \in Tablets |-> restored[t].installed]]
  IN  IF (\E t \in Tablets : RestoreTablet(d, t) = {}) \/ floor.next < floor.batch
      THEN {Refused}
      ELSE {Started(r) : r \in RecoverFrom(d.files, floor, target)}

Init ==
  /\ config \in Configs
  /\ up = TRUE
  /\ co = IdleCoordinator
  /\ live = [t \in Tablets |-> EnableBandTracking(FreshTablet(t))]
  /\ lane = NewLane(config.target)
  /\ ck = IdleCheckpoint
  /\ installed = [t \in Tablets |-> {}]
  /\ disk = EmptyDisk /\ restart = RecoverDurable(EmptyDisk, config.target)
  /\ acked = {}
  /\ sends = [r \in Requests |-> 0]
  /\ life = 1 /\ built = 0 /\ failed = 0 /\ panic = FALSE

(* The disk becomes d. *)
DiskBecomes(d) == disk' = d /\ restart' = RecoverDurable(d, config.target)

(* The faults that may strike now. *)
Armed == IF failed < MaxFaults THEN config.faults ELSE {}

(* An operation that failed uses up one fault. *)
CountFailure(ok) == failed' = IF ok \/ failed = MaxFaults THEN failed ELSE failed + 1

----------------------------------------------------------------------------
(* Clients *)

(* The acknowledgements a client can attach to r: it may acknowledge every *)
(* sequence number up to one below which it has heard all the outcomes.    *)
AckFloors(r) ==
  {n \in 0..(r.seq - 1) :
     \A m \in 1..n : \E a \in acked : a.req = [session |-> r.session, seq |-> m]}

(* A client sends a request, or sends it again: admit. *)
Submit(r) ==
  /\ up
  /\ sends[r] < config.sends[r]
  /\ \A q \in Requests : q.session = r.session /\ q.seq < r.seq => sends[q] > 0
  /\ \E n \in AckFloors(r) : co' = [co EXCEPT !.queue = Append(@, [req |-> r, ack |-> n])]
  /\ sends' = [sends EXCEPT ![r] = @ + 1]
  /\ UNCHANGED <<up, live, lane, ck, installed, storage, acked, config, life, built, failed, panic>>

----------------------------------------------------------------------------
(* The worker thread and the lane thread *)

(* What the worker sees of the node. *)
Worker == [co |-> co, live |-> live, acked |-> acked, panic |-> panic]

(* One pass of the worker over its coordinator, with an open batch of the  *)
(* given age.                                                              *)
Poll(age) ==
  LET w == PollOnce(Worker, age)
  IN  /\ up
      /\ co' = w.co /\ live' = w.live /\ acked' = w.acked /\ panic' = w.panic
      /\ UNCHANGED <<up, lane, ck, installed, storage, bookkeeping>>

(* lane_thread_main on a Seal command: the batch is appended and its proof *)
(* or error posted.                                                        *)
LaneSeal ==
  /\ up
  /\ co.proof = "pending"
  /\ \E o \in AppendBatch(lane, disk.files, co.inflight, Armed) :
       /\ lane' = o.lane
       /\ DiskBecomes([disk EXCEPT !.files = o.files])
       /\ co' = [co EXCEPT !.proof = IF o.ok THEN "ok" ELSE "err"]
       /\ CountFailure(o.ok)
  /\ UNCHANGED <<up, live, ck, installed, acked, config, sends, life, built, panic>>

----------------------------------------------------------------------------
(* The checkpoint worker: checkpoint_tablet_inner, then reclaim_wal.  Each *)
(* step is one exchange with another thread or one change of the disk that *)
(* a crash can come after.                                                 *)

(* The installed manifest, for band reuse: load_previous_manifest. *)
PreviousManifest(t) ==
  UNION {{[id |-> c.manifest, manifest |-> m] : m \in ReadManifest(disk, t, c.manifest)}
           : c \in installed[t]}

(* capture_tablet: the worker thread hands over its committed state. *)
Capture(t) ==
  /\ up
  /\ ck.pc = "idle"
  /\ built < MaxCheckpoints
  /\ life \in config.lives
  /\ ck' = [pc |-> "captured", tablet |-> t, snap |-> CaptureView(live[t])]
  /\ live' = [live EXCEPT ![t] = Captured(@)]
  /\ built' = built + 1
  /\ UNCHANGED <<up, co, lane, installed, storage, acked, config, sends, life, failed, panic>>

(* build_tablet, and publish_tablet up to CURRENT.  A reused band that is  *)
(* not on disk, or a write error, gives the checkpoint up.                 *)
WriteArtifacts ==
  LET t     == ck.tablet
      prev  == PreviousManifest(t)
      b     == BuildTablet(t, ck.snap, prev)
      sound == ReusedBands(ck.snap, b, prev) \subseteq disk.bands
  IN  /\ up
      /\ ck.pc = "captured"
      /\ \E ok \in {sound} \cup {FALSE : x \in Armed \cap {"publish"}} :
           /\ DiskBecomes(IF ok THEN WithArtifacts(disk, t, built, b) ELSE disk)
           /\ ck' = IF ok THEN [pc |-> "written", tablet |-> t, id |-> built, build |-> b]
                          ELSE IdleCheckpoint
           /\ CountFailure(ok)
      /\ UNCHANGED <<up, co, live, lane, installed, acked, config, sends, life, built, panic>>

(* The atomic CURRENT write, and the sweep that follows it.  The sweep is  *)
(* best effort: it may do nothing.                                         *)
InstallCurrent ==
  LET t   == ck.tablet
      cur == NewCurrent(ck.id, ck.build, installed[t])
      d   == [disk EXCEPT !.current[t] = {cur}]
  IN  /\ up
      /\ ck.pc = "written"
      /\ \E e \in {d, SweepUnreferenced(d, t, cur)} : DiskBecomes(e)
      /\ installed' = [installed EXCEPT ![t] = {cur}]
      /\ ck' = [pc |-> "installed"]
      /\ UNCHANGED <<up, co, live, lane, acked, bookkeeping, panic>>

(* SealActive on the lane thread. *)
SealActiveSegment ==
  /\ up
  /\ ck.pc = "installed"
  /\ \E o \in SealActive(lane, disk.files, Armed) :
       /\ lane' = o.lane
       /\ DiskBecomes([disk EXCEPT !.files = o.files])
       /\ ck' = IF o.ok THEN [pc |-> "sealed"] ELSE IdleCheckpoint
       /\ CountFailure(o.ok)
  /\ UNCHANGED <<up, co, live, installed, acked, config, sends, life, built, panic>>

(* FloorSnapshot on the lane thread. *)
TakeFloorSnapshot ==
  /\ up
  /\ ck.pc = "sealed"
  /\ ck' = [pc |-> "snapshot", active |-> FloorSnapshot(lane)]
  /\ UNCHANGED <<up, co, live, lane, installed, storage, acked, bookkeeping, panic>>

(* list_sealed_segments: the checkpoint worker reads the directory. *)
ListSealedSegments ==
  /\ up
  /\ ck.pc = "snapshot"
  /\ ck' = [pc |-> "listed", active |-> ck.active,
            sealed |-> DOMAIN disk.files \ {ck.active.segment}]
  /\ UNCHANGED <<up, co, live, lane, installed, storage, acked, bookkeeping, panic>>

(* ScanSealed on the lane thread, plan_reclaim, and the floor record       *)
(* written before anything is deleted.  A segment that does not scan gives *)
(* the reclaim up.                                                         *)
PlanAndWriteFloor ==
  LET plan == PlanReclaim([n \in ck.sealed |-> Summary(disk.files, n)], ck.active,
                          [t \in Tablets |-> PreviousCut(disk, t, installed[t])])
      ok   == \A n \in ck.sealed : Scannable(disk.files, n)
  IN  /\ up
      /\ ck.pc = "listed"
      /\ DiskBecomes(IF ok THEN [disk EXCEPT !.floor = {plan.floor}] ELSE disk)
      /\ ck' = IF ok THEN [pc |-> "planned", obsolete |-> plan.obsolete] ELSE IdleCheckpoint
      /\ UNCHANGED <<up, co, live, lane, installed, acked, bookkeeping, panic>>

(* The obsolete segments that are deleted before one that is refused, up   *)
(* to segment n.                                                           *)
DeletedUpTo(n) == {m \in ck.obsolete : m <= n /\ \A x \in ck.obsolete : x <= m => Deletable(lane, x)}

KeepSegments(gone) == [m \in DOMAIN disk.files \ gone |-> disk.files[m]]

(* DeleteSegments on the lane thread. *)
DeleteSegments ==
  /\ up
  /\ ck.pc = "planned"
  /\ DiskBecomes([disk EXCEPT !.files = KeepSegments(DeletedUpTo(lane.seq))])
  /\ ck' = IdleCheckpoint
  /\ UNCHANGED <<up, co, live, lane, installed, acked, bookkeeping, panic>>

----------------------------------------------------------------------------
(* Death and restart *)

(* What the process leaves of the lane directory when it dies: of an       *)
(* append, a rotation or a deletion under way, any part.                   *)
LeftBehind ==
  (IF co.proof = "pending" THEN Interrupted(lane, disk.files, co.inflight, config.faults)
                           ELSE {disk.files})
  \cup (IF ck.pc = "installed"
        THEN {o.files : o \in SealActive(lane, disk.files, config.faults \cap {"header"})} ELSE {})
  \cup (IF ck.pc = "planned" THEN {KeepSegments(DeletedUpTo(n)) : n \in ck.obsolete} ELSE {})

Crash ==
  /\ up
  /\ life <= MaxCrashes
  /\ \E f \in LeftBehind : DiskBecomes([disk EXCEPT !.files = f])
  /\ up' = FALSE
  /\ co' = IdleCoordinator
  /\ live' = [t \in Tablets |-> FreshTablet(t)]
  /\ lane' = NewLane(config.target)
  /\ ck' = IdleCheckpoint
  /\ installed' = [t \in Tablets |-> {}]
  /\ life' = life + 1
  /\ UNCHANGED <<acked, config, sends, built, failed, panic>>

(* The engine starts from its data directory; when recovery is refused, it *)
(* stays down.                                                             *)
Recover ==
  /\ ~up
  /\ \E r \in {x \in restart : x.ok} :
       /\ live' = r.live /\ lane' = r.lane /\ installed' = r.installed
       /\ DiskBecomes([disk EXCEPT !.files = r.files])
  /\ up' = TRUE
  /\ UNCHANGED <<co, ck, acked, bookkeeping, panic>>

(* A file of an installed checkpoint becomes unreadable.  What load.rs     *)
(* protects against is the loss of a file that the previous checkpoint     *)
(* does not share; nor is it one that a checkpoint about to be installed   *)
(* has found in place.                                                     *)
LoseArtifact(t) ==
  /\ "damage" \in Armed
  /\ \E c \in disk.current[t] : \E m \in ReadManifest(disk, t, c.manifest) :
       LET older  == UNION {ReadManifest(disk, t, id) : id \in c.previous}
           shared == UNION {o.bands : o \in older}
                       \cup (IF ck.pc = "written" THEN ck.build.bands ELSE {})
       IN  /\ older # {}
           /\ \/ \E b \in m.bands \ shared : DiskBecomes([disk EXCEPT !.bands = @ \ {b}])
              \/ /\ \A o \in older : o.comp # m.comp
                 /\ DiskBecomes([disk EXCEPT !.comps = @ \ {m.comp}])
              \/ DiskBecomes([disk EXCEPT !.manifests[t] = Without(@, c.manifest)])
  /\ CountFailure(FALSE)
  /\ UNCHANGED <<up, co, live, lane, ck, installed, acked, config, sends, life, built, panic>>

----------------------------------------------------------------------------
CheckpointStep ==
  \/ WriteArtifacts \/ InstallCurrent \/ SealActiveSegment \/ TakeFloorSnapshot
  \/ ListSealedSegments \/ PlanAndWriteFloor \/ DeleteSegments

Next ==
  \/ \E r \in Requests : Submit(r)
  \/ \E age \in {"young", "lingered", "overdue"} : Poll(age)
  \/ LaneSeal
  \/ \E t \in Tablets : Capture(t)
  \/ CheckpointStep
  \/ Crash
  \/ Recover
  \/ \E t \in Tablets : LoseArtifact(t)

(* Weak fairness, with ENABLED of each step written out.  The worker loop  *)
(* polls for as long as it has pending requests, so the age of an open     *)
(* batch passes linger; the lane and checkpoint threads run; a dead        *)
(* process is started again.                                               *)
Fairness ==
  /\ <>[](up /\ PollOnce(Worker, "lingered") # Worker) => []<><<Poll("lingered")>>_vars
  /\ <>[](up /\ co.proof = "pending") => []<><<LaneSeal>>_vars
  /\ <>[](up /\ ck.pc # "idle") => []<><<CheckpointStep>>_vars
  /\ <>[](~up /\ \E r \in restart : r.ok) => []<><<Recover>>_vars

Spec == Init /\ [][Next]_vars

FairSpec == Spec /\ Fairness

----------------------------------------------------------------------------
(* Properties *)

TypeOK ==
  /\ up \in BOOLEAN /\ panic \in BOOLEAN
  /\ co.proof \in {"none", "pending", "ok", "err"}
  /\ (co.proof = "none") = (co.inflight = <<>>)
  /\ lane.health \in {"Healthy", "ReadOnly", "Failed"}
  /\ acked \subseteq [req : Requests, out : Nat]
  /\ \A t \in Tablets : live[t].applied <= live[t].next /\ live[t].dirty \subseteq KeysOf(t)

(* What a restart would find now, if it is not refused. *)
RecoveredTablets == {r.live : r \in {x \in restart : x.ok}}

(* The contents of the node, as its disk determines them: the histories    *)
(* that a restart rebuilds, nothing when it would be refused.              *)
RecoveredStore ==
  LET found == IF Refused \in restart
               THEN [t \in Tablets |-> FreshTablet(t)]
               ELSE CHOOSE l \in RecoveredTablets : TRUE
  IN  [k \in Keys |-> found[TabletOf[k]].store[k]]

(* The node keeps the promise of DurableStore at every step of every       *)
(* thread, whatever part of a write a crash leaves: what a restart would   *)
(* rebuild only grows, no request is in it twice, and every outcome told   *)
(* to a client agrees with it.  Appends and torn writes, checkpoint        *)
(* publication and sweep, the floor and the deletion of segments are steps *)
(* of that specification or change nothing it can see.                     *)
Promise == INSTANCE DurableStore WITH store <- RecoveredStore

KeepsPromise == Promise!Spec

(* No read sees a write that a crash could take back: the committed state, *)
(* which answers reads, is always a prefix of what a restart rebuilds.     *)
ReadsAreDurable ==
  up => \A k \in Keys : IsPrefix(live[TabletOf[k]].store[k], RecoveredStore[k])

(* A restart loses nothing of a tablet's state: while the lane is healthy  *)
(* and no finished batch waits to be applied, recovery would rebuild each  *)
(* running tablet exactly, its applied position, its store and the         *)
(* retained outcomes and floor of every session, from whichever            *)
(* checkpoint and log tail are on disk.                                    *)
RestartRebuildsTablets ==
  (up /\ lane.health = "Healthy" /\ co.proof \in {"none", "pending"}) =>
    \A found \in RecoveredTablets : \A t \in Tablets :
       /\ found[t].applied = live[t].applied
       /\ found[t].store = live[t].store
       /\ found[t].dedup = live[t].dedup

(* No outcome told to a client is lost by a restart. *)
NothingAckedIsLost == \A a \in acked : Promise!Truthful(a)

(* The assertions of commit_persisted never fail: commits apply in the     *)
(* order they were assigned, and the outcome predicted over the overlay of *)
(* an open batch, before anything was durable, is the outcome of applying. *)
PredictionHolds == ~panic

InPipeline(r) ==
  \/ \E i \in DOMAIN co.queue : co.queue[i].req = r
  \/ \E i \in DOMAIN co.open : co.open[i].req = r
  \/ \E i \in DOMAIN co.inflight : co.inflight[i].req = r

(* Every admitted request leaves the pipeline, by an answer or by the      *)
(* death of the process: a retry held behind its own identity, an entry    *)
(* that meets a full batch and a batch that failed all make progress.      *)
EveryRequestIsAnswered == \A r \in Requests : InPipeline(r) ~> ~InPipeline(r)
=============================================================================
