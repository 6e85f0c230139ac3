------------------------------ MODULE Topology ------------------------------
(***************************************************************************)
(* Online split and merge across the cluster: how committed topology plans *)
(* reach the directory every node serves from.  kivi-server/src/cluster.rs *)
(* (replay, cutover endpoint, plan creation) and kivi-server/src/control.rs*)
(* (publish, prune, the directory side of drive_split and drive_merge).    *)
(*                                                                         *)
(* plans is the replicated control image; view[n] is what node n has       *)
(* applied of it.  dir[n] is the ArcSwap a node routes from.  Two tasks of *)
(* a node write it, each by load, compute, store: the reconciler (replay   *)
(* of committed plans, local publication when the node drives a plan) and  *)
(* the cutover endpoint (a push by the node that drives the plan).  The    *)
(* store is not a compare-and-swap, so their steps interleave.             *)
(*                                                                         *)
(* Abstractions.  Ranges are sets of points (module Ranges).  Phases:      *)
(* "Live" is Planned to Fenced, "Ready" is ChildrenReady or TargetReady,   *)
(* "Committed" is CutoverCommitted or ParentRetiring; module ControlState  *)
(* has them all, and shows that plan ids order the plans by creation.  No  *)
(* code proposes Failed.  Data movement (fences, seeds) is left out: a     *)
(* plan becomes Ready as long as its parents' groups are not retired.      *)
(***************************************************************************)
EXTENDS DirectorySnapshot

CONSTANTS
    Nodes,
    GenesisKeys,   \* split keys of the genesis tiling
    MaxPlans,      \* bound on created plans
    MaxRetained,   \* MAX_RETAINED_TERMINAL_PLANS
    MaxCrashes     \* bound on crashes

ASSUME TopologyAssumption ==
    /\ Tablets \subseteq Nat \ {0} /\ Points \subseteq Nat /\ MaxPlans \in Nat
    /\ "ordered" \in Kinds

VARIABLES
    plans,       \* the plans of the control image
    planCount,   \* next_plan_id - 1
    nextTablet,  \* next_tablet_id
    retired,     \* tablets whose groups were retired
    view,        \* node -> the control image it has applied
    dir,         \* node -> directory snapshot it serves from
    up,          \* node -> is it running
    crashes,     \* crashes so far (bound)
    work,        \* node -> the reconciler's replay or local publication
    push,        \* node -> the cutover endpoint between load and store
    pass,        \* node -> the plan it publishes and the nodes done so far
    meaning      \* history: tablet -> the ranges any node ever served it with

controlVars == <<plans, planCount, nextTablet, retired>>
topologyVars == <<plans, planCount, nextTablet, retired, view, dir, up, crashes, work, push, pass, meaning>>

Phase == {"Live", "Ready", "Committed", "Completed"}

Parents(p) == IF p.kind = "split" THEN {p.parent} ELSE {p.left, p.right}
Children(p) == IF p.kind = "split" THEN {p.left, p.right} ELSE {p.merged}
HasLiveTopology(t) ==
    \E p \in plans : p.phase # "Completed" /\ t \in Parents(p) \cup Children(p)

-----------------------------------------------------------------------------
(* Boundaries. *)

Ordered(points) == [kind |-> "ordered", points |-> points]

\* Mutant: the split key belongs to neither child.
SplitChildRangesOpen(r, key) ==
    {c \in {<<Ordered({p \in r.points : p < key}), Ordered({p \in r.points : p > key})>>} :
        c[1].points # {} /\ c[2].points # {}}

\* split_child_ranges: both sides of a strictly interior key; {} is the error.
SplitChildRanges(r, key) ==
    {c \in {<<Ordered({p \in r.points : p < key}), Ordered({p \in r.points : p >= key})>>} :
        c[1].points # {} /\ c[2].points # {}}

\* merge_parent_ranges: the left parent ends where the right one starts.
Adjacent(r, s) ==
    /\ \A p \in r.points, q \in s.points : p < q
    /\ \A x \in Points \ (r.points \cup s.points) :
          (\A p \in r.points : x < p) \/ (\A q \in s.points : q < x)

MergeParentRanges(r, s) == {m \in {Ordered(r.points \cup s.points)} : Adjacent(r, s)}

-----------------------------------------------------------------------------
(* One cutover applied to a snapshot.  Each step maps the set of snapshots *)
(* the steps before it can return; {} is Err.                              *)

EnsureAllocated(S, t, r) ==
    UNION {IF t \in Known(d) THEN {d} ELSE Allocate(d, t, r, 1, 1) : d \in S}

EnsureStaged(S, t) ==
    UNION {IF d.state[t] = "Allocated" THEN Stage(d, t) ELSE {d} : d \in S}

EnsureSealed(S, t) ==
    UNION {IF d.state[t] = "Active" THEN Seal(d, t) ELSE {d} : d \in S}

\* The snapshot apply_completed_split (and apply_cutover_split_local, the same
\* steps) hands to cutover_split.
SplitPrepared(d, p) ==
    UNION {EnsureSealed(EnsureStaged(EnsureStaged(EnsureAllocated(
               EnsureAllocated({d}, p.left, c[1]), p.right, c[2]), p.left), p.right), p.parent) :
               c \in SplitChildRanges(d.range[p.parent], p.key)}

ApplySplit(d, p) ==
    IF d.state[p.parent] = "Tombstone" /\ {p.left, p.right} \subseteq Active(d) THEN {d}
    ELSE IF p.parent \notin Known(d) THEN {}
    ELSE UNION {CutoverSplit(e, p.parent, p.left, p.right) : e \in SplitPrepared(d, p)}

\* apply_completed_merge and apply_cutover_merge_local.
MergePrepared(d, p) ==
    UNION {EnsureSealed(EnsureSealed(EnsureStaged(EnsureAllocated(
               {d}, p.merged, m), p.merged), p.left), p.right) :
               m \in MergeParentRanges(d.range[p.left], d.range[p.right])}

ApplyMerge(d, p) ==
    IF d.state[p.merged] = "Active" THEN {d}
    ELSE IF ~({p.left, p.right} \subseteq Known(d)) THEN {}
    ELSE UNION {CutoverMerge(e, p.left, p.right, p.merged) : e \in MergePrepared(d, p)}

Apply(d, p) == IF p.kind = "split" THEN ApplySplit(d, p) ELSE ApplyMerge(d, p)

\* routes_somewhere
RoutesSomewhere(d) == Active(d) # {}

\* static_ordered_tiles: tablet i holds the points between keys i - 1 and i; each
\* is allocated, staged and activated.
GenesisTile(t) ==
    {x \in Points : Cardinality({k \in GenesisKeys : k <= x}) = t - 1}

GenesisTiles == 1..(Cardinality(GenesisKeys) + 1)

\* The tiling is validated when the configuration is read: no empty tile.
ASSUME GenesisAssumption ==
    /\ GenesisKeys \subseteq Nat /\ IsFiniteSet(GenesisKeys)
    /\ GenesisTiles \subseteq Tablets
    /\ \A t \in GenesisTiles : GenesisTile(t) # {}

Genesis ==
    [version  |-> 3 * Cardinality(GenesisTiles),
     state    |-> [t \in Tablets |-> IF t \in GenesisTiles THEN "Active" ELSE "Absent"],
     range    |-> [t \in Tablets |-> IF t \in GenesisTiles THEN Ordered(GenesisTile(t)) ELSE NoRange],
     redirect |-> [t \in Tablets |-> {}]]

-----------------------------------------------------------------------------
(* The control image. *)

\* fresh_tablet_ids, and the allocator once the plan that uses them is applied.
FreshTabletIds(count) == nextTablet' = nextTablet + count

\* control_splits_create and drive_auto_split on node n: the parent is active in
\* the directory of that node, the key interior to its range.
CreateSplit(n, parent, key) ==
    LET plan == [id |-> planCount + 1, kind |-> "split", parent |-> parent,
                 left |-> nextTablet, right |-> nextTablet + 1, key |-> key, phase |-> "Live"]
    IN  /\ up[n] /\ planCount < MaxPlans
        /\ dir[n].state[parent] = "Active"
        /\ SplitChildRanges(dir[n].range[parent], key) # {}
        /\ ~HasLiveTopology(parent)
        /\ {nextTablet, nextTablet + 1} \subseteq Tablets
        /\ plans' = plans \cup {plan}
        /\ planCount' = planCount + 1
        /\ FreshTabletIds(2)
        /\ UNCHANGED <<retired, view, dir, up, crashes, work, push, pass, meaning>>

\* control_merges_create: no directory is read, any two placed tablets will do.
CreateMerge(left, right) ==
    LET plan == [id |-> planCount + 1, kind |-> "merge", left |-> left, right |-> right,
                 merged |-> nextTablet, phase |-> "Live"]
    IN  /\ planCount < MaxPlans
        /\ left # right /\ left < nextTablet /\ right < nextTablet
        /\ ~HasLiveTopology(left) /\ ~HasLiveTopology(right)
        /\ nextTablet \in Tablets
        /\ plans' = plans \cup {plan}
        /\ planCount' = planCount + 1
        /\ FreshTabletIds(1)
        /\ UNCHANGED <<retired, view, dir, up, crashes, work, push, pass, meaning>>

NoPass == [plan |-> {}, nodes |-> {}]

SetPhase(p, phase) == plans' = (plans \ {p}) \cup {[p EXCEPT !.phase = phase]}

\* The data is in place: ensure, seed, fence and seal all need the parents'
\* groups.
BecomeReady(p) ==
    /\ p \in plans /\ p.phase = "Live"
    /\ Parents(p) \cap retired = {}
    /\ SetPhase(p, "Ready")
    /\ UNCHANGED <<planCount, nextTablet, retired, view, dir, up, crashes, work, push, pass, meaning>>

\* publish_split_cutover or publish_merge_cutover of driver d returned true, and
\* its proposal is applied.
CommitCutover(d, p) ==
    /\ p \in plans /\ p.phase = "Ready"
    /\ \E q \in pass[d].plan : q.id = p.id
    /\ pass[d].nodes = Nodes
    /\ SetPhase(p, "Committed")
    /\ pass' = [pass EXCEPT ![d] = NoPass]
    /\ UNCHANGED <<planCount, nextTablet, retired, view, dir, up, crashes, work, push, meaning>>

\* CutoverCommitted to Completed: the parents' groups are retired.
Complete(p) ==
    /\ p \in plans /\ p.phase = "Committed"
    /\ SetPhase(p, "Completed")
    /\ retired' = retired \cup Parents(p)
    /\ UNCHANGED <<planCount, nextTablet, view, dir, up, crashes, work, push, pass, meaning>>

\* prune_terminal_plans: per kind, the oldest beyond the cap.
Prune(p) ==
    LET terminal == {q \in plans : q.kind = p.kind /\ q.phase = "Completed"}
    IN  /\ p \in terminal
        /\ Cardinality(terminal) > MaxRetained
        /\ \A q \in terminal : p.id <= q.id
        /\ plans' = plans \ {p}
        /\ UNCHANGED <<planCount, nextTablet, retired, view, dir, up, crashes, work, push, pass, meaning>>

\* Node n applies the control log up to its end.
Sync(n) ==
    /\ up[n] /\ view[n] # plans
    /\ view' = [view EXCEPT ![n] = plans]
    /\ UNCHANGED <<controlVars, dir, up, crashes, work, push, pass, meaning>>

-----------------------------------------------------------------------------
(* The reconciler of a node: one replay, or one local publication.  snap is *)
(* the private copy; todo and pending are ops and pending of the code.      *)

\* The store of the ArcSwap.
Serve(n, snap) ==
    /\ dir' = [dir EXCEPT ![n] = snap]
    /\ meaning' = [t \in Tablets |->
                      IF t \in Known(snap) THEN meaning[t] \cup {snap.range[t]} ELSE meaning[t]]

Idle == [busy |-> FALSE, snap |-> Genesis, todo |-> {}, pending |-> {},
         progress |-> FALSE, changed |-> FALSE, plan |-> {}]

\* Mutant: a completed plan is no longer replayed.
CommittedOnly(image) == {p \in image : p.phase = "Committed"}

\* The plans replay_committed_topology applies.
Committed(image) == {p \in image : p.phase \in {"Committed", "Completed"}}

\* replay_committed_topology up to the load of the directory.
ReplayLoad(n) ==
    /\ up[n] /\ ~work[n].busy /\ pass[n] = NoPass
    /\ Committed(view[n]) # {}
    /\ work' = [work EXCEPT ![n] = [Idle EXCEPT !.busy = TRUE, !.snap = dir[n],
                                                 !.todo = Committed(view[n])]]
    /\ UNCHANGED <<controlVars, view, dir, up, crashes, push, pass, meaning>>

\* publish_cutover_local on the node that drives a plan its image calls Ready.
PublishLoad(n, p) ==
    /\ up[n] /\ ~work[n].busy /\ pass[n] = NoPass
    /\ p \in view[n] /\ p.phase = "Ready"
    /\ work' = [work EXCEPT ![n] = [Idle EXCEPT !.busy = TRUE, !.snap = dir[n],
                                                 !.todo = {p}, !.plan = {p}]]
    /\ UNCHANGED <<controlVars, view, dir, up, crashes, push, pass, meaning>>

\* The next op of the current round, in plan-id order.
WorkStep(n, p) ==
    /\ work[n].busy /\ p \in work[n].todo
    /\ \A q \in work[n].todo : p.id <= q.id
    /\ \/ \E next \in Apply(work[n].snap, p) :
             work' = [work EXCEPT ![n].snap = next,
                                  ![n].changed = @ \/ next # work[n].snap,
                                  ![n].progress = TRUE,
                                  ![n].todo = @ \ {p}]
       \/ /\ Apply(work[n].snap, p) = {}
          /\ work' = [work EXCEPT ![n].todo = @ \ {p}, ![n].pending = @ \cup {p}]
    /\ UNCHANGED <<controlVars, view, dir, up, crashes, push, pass, meaning>>

\* Another round while the last one made progress.
WorkRound(n) ==
    /\ work[n].busy /\ work[n].todo = {}
    /\ work[n].pending # {} /\ work[n].progress
    /\ work' = [work EXCEPT ![n].todo = work[n].pending, ![n].pending = {},
                             ![n].progress = FALSE]
    /\ UNCHANGED <<controlVars, view, dir, up, crashes, push, pass, meaning>>

\* The fixpoint is stored if it changed anything; a publication is stored in any
\* case, and reports success to the driver.
WorkStore(n) ==
    LET w == work[n]
        published == w.plan # {} /\ w.pending = {} /\ Valid(w.snap) /\ RoutesSomewhere(w.snap)
        replayed == w.plan = {} /\ w.changed /\ Valid(w.snap) /\ RoutesSomewhere(w.snap)
    IN  /\ w.busy /\ w.todo = {}
        /\ w.pending = {} \/ ~w.progress
        /\ IF published \/ replayed THEN Serve(n, w.snap) ELSE UNCHANGED <<dir, meaning>>
        /\ pass' = IF published THEN [pass EXCEPT ![n] = [plan |-> w.plan, nodes |-> {n}]] ELSE pass
        /\ work' = [work EXCEPT ![n] = Idle]
        /\ UNCHANGED <<controlVars, view, up, crashes, push>>

-----------------------------------------------------------------------------
(* The rest of a publication: driver d calls the cutover endpoint of every  *)
(* other serving node.                                                      *)

NoPush == [busy |-> FALSE, snap |-> Genesis, plan |-> {}, driver |-> {}]

\* Mutant: the endpoint takes the children of a split in the other order.
PushLoadSwapped(n, d) ==
    /\ up[n] /\ ~push[n].busy
    /\ n \notin pass[d].nodes
    /\ \E p \in {q \in pass[d].plan : q.kind = "split"} :
       \E next \in Apply(dir[n], [p EXCEPT !.left = p.right, !.right = p.left]) :
          push' = [push EXCEPT ![n] = [busy |-> TRUE, snap |-> next, plan |-> {p}, driver |-> {d}]]
    /\ UNCHANGED <<controlVars, view, dir, up, crashes, work, pass, meaning>>

\* directory_cutover up to the computed snapshot; an error changes nothing.
PushLoad(n, d) ==
    /\ up[n] /\ ~push[n].busy
    /\ n \notin pass[d].nodes
    /\ \E p \in pass[d].plan : \E next \in Apply(dir[n], p) :
          push' = [push EXCEPT ![n] = [busy |-> TRUE, snap |-> next, plan |-> {p}, driver |-> {d}]]
    /\ UNCHANGED <<controlVars, view, dir, up, crashes, work, pass, meaning>>

\* publish_directory, and the answer if the driver still waits for it.
PushStore(n) ==
    /\ push[n].busy /\ Valid(push[n].snap)
    /\ Serve(n, push[n].snap)
    /\ pass' = [d \in Nodes |-> IF d \in push[n].driver /\ pass[d].plan = push[n].plan
                                THEN [pass[d] EXCEPT !.nodes = @ \cup {n}] ELSE pass[d]]
    /\ push' = [push EXCEPT ![n] = NoPush]
    /\ UNCHANGED <<controlVars, view, up, crashes, work>>

\* The driver passes over a node it has recorded as other than Active, Suspect or
\* Draining; that record follows the node's health with a delay, so the node may
\* be running.
Skip(n, d) ==
    /\ pass[d].plan # {} /\ n \notin pass[d].nodes
    /\ pass' = [pass EXCEPT ![d].nodes = @ \cup {n}]
    /\ UNCHANGED <<controlVars, view, dir, up, crashes, work, push, meaning>>

\* A call failed, timed out, or the proposal was refused: the next reconciler
\* pass starts over.
GiveUp(d) ==
    /\ pass[d].plan # {}
    /\ pass' = [pass EXCEPT ![d] = NoPass]
    /\ UNCHANGED <<controlVars, view, dir, up, crashes, work, push, meaning>>

-----------------------------------------------------------------------------
Crash(n) ==
    /\ up[n] /\ crashes < MaxCrashes
    /\ crashes' = crashes + 1
    /\ up' = [up EXCEPT ![n] = FALSE]
    /\ work' = [work EXCEPT ![n] = Idle]
    /\ push' = [push EXCEPT ![n] = NoPush]
    /\ pass' = [pass EXCEPT ![n] = NoPass]
    /\ UNCHANGED <<controlVars, view, dir, meaning>>

\* The directory is rebuilt from the genesis tiling; the control image a node
\* starts from is the one it had, or not recovered yet.  The first replay runs
\* before it serves.
Restart(n) ==
    /\ ~up[n]
    /\ up' = [up EXCEPT ![n] = TRUE]
    /\ Serve(n, Genesis)
    /\ \E image \in {view[n], {}} :
          /\ view' = [view EXCEPT ![n] = image]
          /\ work' = [work EXCEPT ![n] = [Idle EXCEPT !.busy = TRUE, !.todo = Committed(image)]]
    /\ UNCHANGED <<controlVars, crashes, push, pass>>

Init ==
    /\ plans = {} /\ planCount = 0 /\ retired = {} /\ crashes = 0
    /\ nextTablet = Cardinality(GenesisTiles) + 1
    /\ view = [n \in Nodes |-> {}]
    /\ dir = [n \in Nodes |-> Genesis]
    /\ up = [n \in Nodes |-> TRUE]
    /\ work = [n \in Nodes |-> Idle]
    /\ push = [n \in Nodes |-> NoPush]
    /\ pass = [n \in Nodes |-> NoPass]
    /\ meaning = [t \in Tablets |-> IF t \in GenesisTiles THEN {Genesis.range[t]} ELSE {}]

Next ==
    \/ \E n \in Nodes, t \in Tablets, k \in Points : CreateSplit(n, t, k)
    \/ \E l, r \in Tablets : CreateMerge(l, r)
    \/ \E p \in plans : BecomeReady(p) \/ Complete(p) \/ Prune(p)
    \/ \E d \in Nodes, p \in plans : CommitCutover(d, p)
    \/ \E n \in Nodes : Sync(n) \/ ReplayLoad(n) \/ WorkRound(n) \/ WorkStore(n) \/ PushStore(n)
    \/ \E n \in Nodes : \E p \in view[n] : PublishLoad(n, p)
    \/ \E n \in Nodes : \E p \in work[n].todo : WorkStep(n, p)
    \/ \E n, d \in Nodes : PushLoad(n, d) \/ Skip(n, d)
    \/ \E d \in Nodes : GiveUp(d)
    \/ \E n \in Nodes : Crash(n) \/ Restart(n)

Spec == Init /\ [][Next]_topologyVars

\* Every node's image keeps up and its reconciler keeps running; each of its
\* passes begins with a replay, so publications cannot starve it.  An endpoint
\* handler finishes, and a crashed node is started again.
Fairness ==
    \A n \in Nodes :
        /\ WF_topologyVars(Sync(n)) /\ WF_topologyVars(Restart(n))
        /\ SF_topologyVars(ReplayLoad(n))
        /\ WF_topologyVars((\E p \in work[n].todo : WorkStep(n, p)) \/ WorkRound(n) \/ WorkStore(n))
        /\ WF_topologyVars(PushStore(n)) /\ WF_topologyVars(GiveUp(n))

FairSpec == Spec /\ Fairness

-----------------------------------------------------------------------------
(* Properties. *)

Plan ==
    [id : Nat, kind : {"split"}, parent : Tablets, left : Tablets, right : Tablets,
     key : Points, phase : Phase]
    \cup [id : Nat, kind : {"merge"}, left : Tablets, right : Tablets, merged : Tablets,
          phase : Phase]

WorkState ==
    [busy : BOOLEAN, snap : Snapshot, todo : SUBSET Plan, pending : SUBSET Plan,
     progress : BOOLEAN, changed : BOOLEAN, plan : SUBSET Plan]

PushState == [busy : BOOLEAN, snap : Snapshot, plan : SUBSET Plan, driver : SUBSET Nodes]

PassState == [plan : SUBSET Plan, nodes : SUBSET Nodes]

\* Type invariant.
TypeOK ==
    /\ plans \subseteq Plan
    /\ planCount \in Nat /\ nextTablet \in Nat /\ crashes \in Nat
    /\ retired \subseteq Tablets
    /\ view \in [Nodes -> SUBSET Plan]
    /\ dir \in [Nodes -> Snapshot]
    /\ up \in [Nodes -> BOOLEAN]
    /\ work \in [Nodes -> WorkState]
    /\ push \in [Nodes -> PushState]
    /\ pass \in [Nodes -> PassState]
    /\ meaning \in [Tablets -> SUBSET PartitionRange]

Covered(d) == \A x \in Points : \E t \in Active(d) : Lookup(d, x) = {t}

\* Every key maps to exactly one active tablet, no gap and no overlap, in every
\* snapshot any node ever publishes (cluster.rs, ClusterShared::directory),
\* whatever replays, pushes, lost updates and restarts interleave.
CoverageExact == \A n \in Nodes : Covered(dir[n])

\* A tablet id means one range, on every node and for ever: nodes may disagree on
\* which tablets are active, and a restarted node forgets what it served, but no
\* two snapshots ever served say different things of what a tablet holds.
SameTabletSameRange == \A t \in Tablets : Cardinality(meaning[t]) <= 1

\* What the comment on replay_committed_topology says: every member eventually
\* applies every committed cutover, whatever it missed and whenever it
\* restarted.
EveryCutoverReachesEveryNode ==
    \A t \in Tablets \ GenesisTiles :
        (\E p \in Committed(plans) : t \in Children(p)) ~> (\A n \in Nodes : t \in Known(dir[n]))
=============================================================================
