---------------------------- MODULE ControlState ----------------------------
(***************************************************************************)
(* The replicated control state machine: kivi-control/src/state.rs, with   *)
(* the plan lifecycles of migration.rs, split.rs and merge.rs and the node *)
(* lifecycle of node.rs.                                                   *)
(*                                                                         *)
(* Mutations are applied in log order by one deterministic function, so    *)
(* one copy of the state is modelled and each action is one arm of         *)
(* ControlState::apply.  A refused mutation leaves the state unchanged and *)
(* is a stuttering step: a guard is the negation of the arm's early        *)
(* returns.  Arms that return Ok without a change (a repeated create, a    *)
(* repeated identical placement, registering a known node) stutter too.    *)
(*                                                                         *)
(* Mutations are built by proposers from a control image they read earlier *)
(* (create_plans, create_split_plan, create_merge_plan): the plan id is    *)
(* that image's next_plan_id, the generation follows its placement_version *)
(* and new tablets take their ids from fresh_tablet_ids of an image read   *)
(* no later.  The history variable images holds these three counters of    *)
(* every state gone through, and a plan may be built from any of them.     *)
(* SetDesiredPlacement is proposed by the genesis loop, at version 1.      *)
(*                                                                         *)
(* Abstractions.  A BTreeMap of plans keyed by id is the set of the plans, *)
(* which carry their id.  A desired replica set, sorted and duplicate-free *)
(* in the code, is a set.  Split boundaries are left out here (Topology    *)
(* has them).  The cluster generation, a saturating counter that only the  *)
(* status endpoint reads, is left out.  Catalog and redundancy records are *)
(* independent of this state and left out.                                 *)
(***************************************************************************)
EXTENDS Naturals, FiniteSets

CONSTANTS
    Nodes,        \* node identities
    MaxTablet,    \* bound: tablet ids are 1..MaxTablet
    MaxVersion,   \* bound on PlacementVersion; next() fails above it
    MaxPlan       \* bound: plan ids are 1..MaxPlan

ASSUME ControlAssumption ==
    MaxTablet \in Nat /\ MaxVersion \in Nat \ {0} /\ MaxPlan \in Nat

Tablets == 1..MaxTablet
NodeState == {"Joining", "Active", "Suspect", "Unavailable", "Draining", "Drained", "Removed"}

MigrationPhase == {"Planned", "TargetStarting", "LearnerAdded", "Ready",
    "MembershipChanging", "Committed", "SourceRetiring", "Completed", "Failed"}

SplitPhase == {"Planned", "ChildrenProvisioning", "BaseSeeded", "Fenced",
    "ChildrenReady", "CutoverCommitted", "ParentRetiring", "Completed", "Failed"}

MergePhase == {"Planned", "TargetAllocated", "BaseSeeded", "Fenced",
    "TargetReady", "CutoverCommitted", "ParentsRetiring", "Completed", "Failed"}

MigrationPlan == [id : Nat, tablet : Tablets, from : Nodes, to : Nodes,
                  voters : SUBSET Nodes, gen : Nat, phase : MigrationPhase]

SplitPlan == [id : Nat, parent : Tablets, left : Tablets, right : Tablets,
              replicas : SUBSET Nodes, gen : Nat, phase : SplitPhase]

MergePlan == [id : Nat, left : Tablets, right : Tablets, merged : Tablets,
              replicas : SUBSET Nodes, gen : Nat, phase : MergePhase]

Placement == [version : Nat, replicas : SUBSET Nodes]
Unplaced == [version |-> 0, replicas |-> {}]

VARIABLES
    nodes,             \* node id -> state, "Absent" when not registered
    placements,        \* tablet -> desired replica set, Unplaced when none
    migrations, splits, merges,   \* the plan maps
    placementVersion,
    nextPlanId,
    nextTabletId,
    images             \* history: <<next_plan_id, placement_version, next_tablet_id>>

planVars == <<migrations, splits, merges>>
controlVars == <<nodes, placements, migrations, splits, merges,
                 placementVersion, nextPlanId, nextTabletId, images>>

-----------------------------------------------------------------------------
(* Phases and queries. *)

\* is_terminal, the same for the three plan kinds.
Terminal(plan) == plan.phase \in {"Completed", "Failed"}
Live(plans) == {p \in plans : ~Terminal(p)}

\* can_advance_to of the three phase types.  Self transitions change nothing.
MigrationEdges ==
    {<<"Planned", "TargetStarting">>, <<"TargetStarting", "LearnerAdded">>,
     <<"LearnerAdded", "Ready">>, <<"Ready", "MembershipChanging">>,
     <<"MembershipChanging", "Committed">>, <<"Committed", "SourceRetiring">>,
     <<"SourceRetiring", "Completed">>}
    \cup {<<p, "Failed">> : p \in MigrationPhase \ {"Completed", "Failed"}}

SplitEdges ==
    {<<"Planned", "ChildrenProvisioning">>, <<"ChildrenProvisioning", "BaseSeeded">>,
     <<"BaseSeeded", "Fenced">>, <<"Fenced", "BaseSeeded">>, <<"Fenced", "ChildrenReady">>,
     <<"ChildrenReady", "CutoverCommitted">>, <<"CutoverCommitted", "ParentRetiring">>,
     <<"ParentRetiring", "Completed">>}
    \cup {<<p, "Failed">> : p \in SplitPhase \ {"Completed", "Failed"}}

MergeEdges ==
    {<<"Planned", "TargetAllocated">>, <<"TargetAllocated", "BaseSeeded">>,
     <<"BaseSeeded", "Fenced">>, <<"Fenced", "BaseSeeded">>, <<"Fenced", "TargetReady">>,
     <<"TargetReady", "CutoverCommitted">>, <<"CutoverCommitted", "ParentsRetiring">>,
     <<"ParentsRetiring", "Completed">>}
    \cup {<<p, "Failed">> : p \in MergePhase \ {"Completed", "Failed"}}

SplitTablets(s) == {s.parent, s.left, s.right}
MergeTablets(m) == {m.left, m.right, m.merged}

\* Mutant: a live merge does not count.
HasLiveTopologyNoMerge(t) ==
    \/ \E m \in Live(migrations) : m.tablet = t
    \/ \E s \in Live(splits) : t \in SplitTablets(s)

\* has_live_topology
HasLiveTopology(t) ==
    \/ \E m \in Live(migrations) : m.tablet = t
    \/ \E s \in Live(splits) : t \in SplitTablets(s)
    \/ \E m \in Live(merges) : t \in MergeTablets(m)

\* has_plan: ids are shared by the three kinds.
HasPlan(id) == \E p \in migrations \cup splits \cup merges : p.id = id

Placed(t) == placements[t].replicas # {}

\* Mutant: an allocator is not advanced.
LargerFirst(a, b) == a

\* max, as the allocators and the placement version advance by it.
Larger(a, b) == IF a < b THEN b ELSE a

\* check_transition.  A transition to the same state changes nothing.
NodeEdges ==
    {"Joining"} \X {"Active", "Removed"}
    \cup {"Active"} \X {"Suspect", "Unavailable", "Draining", "Removed"}
    \cup {"Suspect"} \X {"Active", "Unavailable", "Draining", "Removed"}
    \cup {"Unavailable"} \X {"Active", "Draining", "Removed"}
    \cup {"Draining"} \X {"Drained", "Active", "Removed"}
    \cup {"Drained"} \X {"Removed", "Active"}

-----------------------------------------------------------------------------
(* The arms of apply. *)

\* Proposers may read the image the step leaves behind.
Observe == images' = images \cup {<<nextPlanId', placementVersion', nextTabletId'>>}

RegisterNode(n) ==
    /\ nodes[n] = "Absent"
    /\ nodes' = [nodes EXCEPT ![n] = "Joining"]
    /\ UNCHANGED <<placements, planVars, placementVersion, nextPlanId, nextTabletId>>
    /\ Observe

SetNodeState(n, state) ==
    /\ <<nodes[n], state>> \in NodeEdges
    /\ nodes' = [nodes EXCEPT ![n] = state]
    /\ UNCHANGED <<placements, planVars, placementVersion, nextPlanId, nextTabletId>>
    /\ Observe

\* Mutant: the version already placed is not compared.
OfferAcceptedAnyVersion(t, offered) ==
    offered <= placementVersion + 1 /\ offered <= MaxVersion

\* The version checks of SetDesiredPlacement.
OfferAccepted(t, offered) ==
    /\ offered >= placementVersion
    /\ Placed(t) => offered > placements[t].version
    /\ offered <= placementVersion + 1 /\ offered <= MaxVersion

SetDesiredPlacement(t, replicas, offered) ==
    /\ replicas # {}
    /\ ~HasLiveTopology(t)
    /\ OfferAccepted(t, offered)
    /\ placements' = [placements EXCEPT ![t] = [version |-> offered, replicas |-> replicas]]
    /\ placementVersion' = Larger(offered, placementVersion)
    /\ nextTabletId' = Larger(nextTabletId, t + 1)
    /\ UNCHANGED <<nodes, planVars, nextPlanId>>
    /\ Observe

\* Mutant: the version of the placement is not compared.
MigrationMatchesAnyVersion(plan) ==
    /\ plan.gen = placementVersion
    /\ plan.from \notin placements[plan.tablet].replicas
    /\ plan.to \in placements[plan.tablet].replicas
    /\ plan.voters = placements[plan.tablet].replicas

\* CreateMigration at the current placement version: the placement already
\* names the target.
MigrationMatches(plan) ==
    /\ plan.gen = placementVersion
    /\ placements[plan.tablet].version = plan.gen
    /\ plan.from \notin placements[plan.tablet].replicas
    /\ plan.to \in placements[plan.tablet].replicas
    /\ plan.voters = placements[plan.tablet].replicas

\* CreateMigration at the next version: the plan replaces one replica.
MigrationReplaces(plan) ==
    /\ plan.gen = placementVersion + 1 /\ plan.gen <= MaxVersion
    /\ plan.from \in placements[plan.tablet].replicas
    /\ plan.to \notin placements[plan.tablet].replicas
    /\ plan.voters = (placements[plan.tablet].replicas \ {plan.from}) \cup {plan.to}

CreateMigration(plan) ==
    /\ ~HasPlan(plan.id)
    /\ ~HasLiveTopology(plan.tablet)
    /\ Placed(plan.tablet)
    /\ plan.from # plan.to
    /\ nodes[plan.to] = "Active"
    /\ \/ MigrationMatches(plan) /\ UNCHANGED <<placements, placementVersion, nextTabletId>>
       \/ /\ MigrationReplaces(plan)
          /\ placements' = [placements EXCEPT
                  ![plan.tablet] = [version |-> plan.gen, replicas |-> plan.voters]]
          /\ placementVersion' = plan.gen
          /\ nextTabletId' = Larger(nextTabletId, plan.tablet + 1)
    /\ migrations' = migrations \cup {plan}
    /\ nextPlanId' = Larger(nextPlanId, plan.id + 1)
    /\ UNCHANGED <<nodes, splits, merges>>
    /\ Observe

AdvanceMigration(plan, phase) ==
    /\ plan \in migrations
    /\ <<plan.phase, phase>> \in MigrationEdges
    /\ migrations' = (migrations \ {plan}) \cup {[plan EXCEPT !.phase = phase]}
    /\ UNCHANGED <<nodes, placements, splits, merges, placementVersion, nextPlanId, nextTabletId>>
    /\ Observe

RemoveMigration(plan) ==
    /\ plan \in migrations /\ Terminal(plan)
    /\ migrations' = migrations \ {plan}
    /\ UNCHANGED <<nodes, placements, splits, merges, placementVersion, nextPlanId, nextTabletId>>
    /\ Observe

\* The generation fence of CreateSplit and CreateMerge.
IsNextGeneration(plan) == plan.gen = placementVersion + 1 /\ plan.gen <= MaxVersion

\* Mutant: a created plan leaves the placement version alone.
AdvanceVersionNot(plan) == placementVersion' = placementVersion

\* A created split or merge takes the placement version to its generation.
AdvanceVersion(plan) == placementVersion' = Larger(placementVersion, plan.gen)

CreateSplit(plan) ==
    /\ ~HasPlan(plan.id)
    /\ \A t \in SplitTablets(plan) : ~HasLiveTopology(t)
    /\ plan.phase = "Planned"
    /\ IsNextGeneration(plan)
    /\ Placed(plan.parent) /\ placements[plan.parent].replicas = plan.replicas
    /\ ~Placed(plan.left) /\ ~Placed(plan.right)
    /\ splits' = splits \cup {plan}
    /\ AdvanceVersion(plan)
    /\ nextPlanId' = Larger(nextPlanId, plan.id + 1)
    /\ nextTabletId' = Larger(Larger(nextTabletId, plan.left + 1), plan.right + 1)
    /\ placements' = [t \in Tablets |-> IF t \in {plan.left, plan.right}
                         THEN [version |-> plan.gen, replicas |-> plan.replicas]
                         ELSE placements[t]]
    /\ UNCHANGED <<nodes, migrations, merges>>
    /\ Observe

AdvanceSplit(plan, phase) ==
    /\ plan \in splits
    /\ <<plan.phase, phase>> \in SplitEdges
    /\ splits' = (splits \ {plan}) \cup {[plan EXCEPT !.phase = phase]}
    /\ UNCHANGED <<nodes, placements, migrations, merges, placementVersion, nextPlanId, nextTabletId>>
    /\ Observe

RemoveSplit(plan) ==
    /\ plan \in splits /\ Terminal(plan)
    /\ splits' = splits \ {plan}
    /\ UNCHANGED <<nodes, placements, migrations, merges, placementVersion, nextPlanId, nextTabletId>>
    /\ Observe

CreateMerge(plan) ==
    /\ ~HasPlan(plan.id)
    /\ \A t \in MergeTablets(plan) : ~HasLiveTopology(t)
    /\ plan.phase = "Planned"
    /\ IsNextGeneration(plan)
    /\ \A t \in {plan.left, plan.right} :
          Placed(t) /\ placements[t].replicas = plan.replicas
    /\ ~Placed(plan.merged)
    /\ merges' = merges \cup {plan}
    /\ AdvanceVersion(plan)
    /\ nextPlanId' = Larger(nextPlanId, plan.id + 1)
    /\ nextTabletId' = Larger(nextTabletId, plan.merged + 1)
    /\ placements' = [placements EXCEPT
            ![plan.merged] = [version |-> plan.gen, replicas |-> plan.replicas]]
    /\ UNCHANGED <<nodes, migrations, splits>>
    /\ Observe

AdvanceMerge(plan, phase) ==
    /\ plan \in merges
    /\ <<plan.phase, phase>> \in MergeEdges
    /\ merges' = (merges \ {plan}) \cup {[plan EXCEPT !.phase = phase]}
    /\ UNCHANGED <<nodes, placements, migrations, splits, placementVersion, nextPlanId, nextTabletId>>
    /\ Observe

RemoveMerge(plan) ==
    /\ plan \in merges /\ Terminal(plan)
    /\ merges' = merges \ {plan}
    /\ UNCHANGED <<nodes, placements, migrations, splits, placementVersion, nextPlanId, nextTabletId>>
    /\ Observe

-----------------------------------------------------------------------------
(* The plans a proposer can build from an image it read. *)

\* create_plans replaces one replica of the tablet.  A plan built from an older
\* placement carries other voters, and apply accepts it only if they are those
\* of MigrationMatches.
NewMigration(image, t, from, to, voters) ==
    [id |-> image[1], tablet |-> t, from |-> from, to |-> to, voters |-> voters,
     gen |-> image[2] + 1, phase |-> "Planned"]

\* create_split_plan; left and right are adjacent ids of fresh_tablet_ids(2).
\* Replicas other than the parent's current ones are refused.
NewSplit(image, fresh, parent) ==
    [id |-> image[1], parent |-> parent, left |-> fresh, right |-> fresh + 1,
     replicas |-> placements[parent].replicas, gen |-> image[2] + 1, phase |-> "Planned"]

\* create_merge_plan
NewMerge(image, left, right) ==
    [id |-> image[1], left |-> left, right |-> right, merged |-> image[3],
     replicas |-> placements[left].replicas, gen |-> image[2] + 1, phase |-> "Planned"]

Init ==
    /\ nodes = [n \in Nodes |-> "Absent"]
    /\ placements = [t \in Tablets |-> Unplaced]
    /\ migrations = {} /\ splits = {} /\ merges = {}
    /\ placementVersion = 1
    /\ nextPlanId = 1
    /\ nextTabletId = 1
    /\ images = {<<1, 1, 1>>}

CreateAnyMigration(image) ==
    \E t \in Tablets, from, to \in Nodes :
        \E voters \in {placements[t].replicas, (placements[t].replicas \ {from}) \cup {to}} :
            CreateMigration(NewMigration(image, t, from, to, voters))

CreateAnySplit(image, earlier) ==
    /\ {earlier[3], earlier[3] + 1} \subseteq Tablets
    /\ \E parent \in Tablets : CreateSplit(NewSplit(image, earlier[3], parent))

CreateAnyMerge(image) ==
    /\ image[3] \in Tablets
    /\ \E left, right \in Tablets :
          left # right /\ CreateMerge(NewMerge(image, left, right))

Next ==
    \/ \E n \in Nodes : RegisterNode(n)
    \/ \E n \in Nodes, state \in NodeState : SetNodeState(n, state)
    \/ \E t \in Tablets, replicas \in SUBSET Nodes : SetDesiredPlacement(t, replicas, 1)
    \/ \E image \in images : image[1] <= MaxPlan /\ CreateAnyMigration(image)
    \/ \E image, earlier \in images : image[1] <= MaxPlan /\ CreateAnySplit(image, earlier)
    \/ \E image \in images : image[1] <= MaxPlan /\ CreateAnyMerge(image)
    \/ \E plan \in migrations, phase \in MigrationPhase : AdvanceMigration(plan, phase)
    \/ \E plan \in splits, phase \in SplitPhase : AdvanceSplit(plan, phase)
    \/ \E plan \in merges, phase \in MergePhase : AdvanceMerge(plan, phase)
    \/ \E plan \in migrations : RemoveMigration(plan)
    \/ \E plan \in splits : RemoveSplit(plan)
    \/ \E plan \in merges : RemoveMerge(plan)

Spec == Init /\ [][Next]_controlVars

-----------------------------------------------------------------------------
(* Properties. *)

\* Type invariant of the control image.
TypeOK ==
    /\ nodes \in [Nodes -> NodeState \cup {"Absent"}]
    /\ placements \in [Tablets -> Placement]
    /\ migrations \subseteq MigrationPlan
    /\ splits \subseteq SplitPlan
    /\ merges \subseteq MergePlan
    /\ placementVersion \in Nat /\ nextPlanId \in Nat /\ nextTabletId \in Nat
    /\ images \subseteq Nat \X Nat \X Nat

\* One tablet, one live plan: two live plans of any kind share no tablet, so no
\* two reconcilers ever move, split or merge the same tablet at once.
OneLivePlanPerTablet ==
    /\ \A p, q \in Live(migrations) : p.tablet = q.tablet => p = q
    /\ \A p, q \in Live(splits) : SplitTablets(p) \cap SplitTablets(q) # {} => p = q
    /\ \A p, q \in Live(merges) : MergeTablets(p) \cap MergeTablets(q) # {} => p = q
    /\ \A m \in Live(migrations), s \in Live(splits) : m.tablet \notin SplitTablets(s)
    /\ \A m \in Live(migrations), g \in Live(merges) : m.tablet \notin MergeTablets(g)
    /\ \A s \in Live(splits), g \in Live(merges) : SplitTablets(s) \cap MergeTablets(g) = {}

\* While a plan is live the placement it works towards stays put: the migrated
\* tablet is placed on exactly the plan's voters, and the parents and children
\* of a split or merge are all placed on the plan's replicas.  Seeding a child
\* from the colocated parent, and retiring what is not desired, rely on it.
PlacementFrozenUnderPlan ==
    /\ \A m \in Live(migrations) :
          placements[m.tablet] = [version |-> m.gen, replicas |-> m.voters]
    /\ \A s \in Live(splits) :
          /\ placements[s.parent].replicas = s.replicas
          /\ \A c \in {s.left, s.right} :
                placements[c] = [version |-> s.gen, replicas |-> s.replicas]
    /\ \A g \in Live(merges) :
          /\ \A p \in {g.left, g.right} : placements[p].replicas = g.replicas
          /\ placements[g.merged] = [version |-> g.gen, replicas |-> g.replicas]

\* Plan ids order splits and merges by creation, however stale the image a
\* proposer read and whatever was removed: the directory replay sorts by id and
\* needs parents before children (cluster.rs, comment on replay order).
PlanOrder ==
    \A p, q \in splits \cup merges : p.id < q.id <=> p.gen < q.gen

\* fresh_tablet_ids never hands out the id of a tablet that was ever placed,
\* whoever placed it: genesis, a migration, a split or a merge.
AllocatorsAhead == \A t \in Tablets : Placed(t) => t < nextTabletId

\* A stale control action never overrides a newer placement: a tablet's desired
\* set is only ever replaced by one of a higher version.
PlacementMovesForward ==
    [][\A t \in Tablets : placements'[t] # placements[t] =>
          placements'[t].version > placements[t].version]_controlVars
=============================================================================
