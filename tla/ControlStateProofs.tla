------------------------- MODULE ControlStateProofs -------------------------
(***************************************************************************)
(* Proofs about ControlState, for any set of nodes and any bounds.         *)
(*                                                                         *)
(* The invariants the runs check are not inductive by themselves.  PlanOrder*)
(* needs to know what a stale proposer can hold: every image is behind the *)
(* state, and an image that already saw a plan's generation also saw its   *)
(* id taken (ImagesBehind).  PlacementMovesForward needs that a tablet     *)
(* without replicas has version 0 (BlankUnplaced).                         *)
(***************************************************************************)
EXTENDS ControlState, TLAPS

Topologies == splits \cup merges

ImagesBehind ==
    /\ \A i \in images : i[2] <= placementVersion
    /\ \A p \in Topologies : p.id < nextPlanId /\ p.gen <= placementVersion
    /\ \A i \in images, p \in Topologies : p.gen <= i[2] => p.id < i[1]

BlankUnplaced == \A t \in Tablets : ~Placed(t) => placements[t].version = 0

\* AllocatorsAhead, and no placement is ahead of the placement version.
Ahead ==
    \A t \in Tablets : Placed(t) =>
        t < nextTabletId /\ placements[t].version <= placementVersion

IInv ==
    /\ TypeOK
    /\ OneLivePlanPerTablet
    /\ PlacementFrozenUnderPlan
    /\ PlanOrder
    /\ Ahead
    /\ ImagesBehind
    /\ BlankUnplaced

LEMMA InitInv == Init => IInv
BY ControlAssumption DEF Init, IInv, TypeOK, OneLivePlanPerTablet, PlacementFrozenUnderPlan,
    PlanOrder, Ahead, ImagesBehind, BlankUnplaced, Topologies, Live, Placed,
    Unplaced, Placement, Tablets

\* A step that leaves the plans, the placements and the counters alone.
LEMMA NodeStep ==
    ASSUME IInv, nodes' \in [Nodes -> NodeState \cup {"Absent"}],
           UNCHANGED <<placements, planVars, placementVersion, nextPlanId, nextTabletId>>,
           Observe
    PROVE  IInv'
<1>1. TypeOK' BY DEF IInv, TypeOK, Observe, planVars
<1>2. ImagesBehind'
  BY DEF IInv, TypeOK, ImagesBehind, Topologies, Observe, planVars, SplitPlan, MergePlan
<1> QED BY <1>1, <1>2 DEF IInv, OneLivePlanPerTablet, PlacementFrozenUnderPlan, PlanOrder,
    Ahead, BlankUnplaced, Topologies, Live, Placed, planVars

LEMMA SetDesiredPlacementInv ==
    ASSUME IInv, NEW t \in Tablets, NEW replicas \in SUBSET Nodes, NEW offered \in Nat,
           SetDesiredPlacement(t, replicas, offered)
    PROVE  IInv'
<1> USE DEF SetDesiredPlacement
<1>1. TypeOK' BY DEF IInv, TypeOK, Observe, planVars, Placement, Larger, Tablets
<1>2. OneLivePlanPerTablet' BY Zenon DEF IInv, OneLivePlanPerTablet, Live, planVars
<1>3. PlacementFrozenUnderPlan'
  BY DEF IInv, TypeOK, PlacementFrozenUnderPlan, HasLiveTopology, Live, planVars, SplitTablets,
      MergeTablets, MigrationPlan, SplitPlan, MergePlan
<1>4. PlanOrder' BY Zenon DEF IInv, PlanOrder, planVars
<1>5. Ahead'
  BY DEF IInv, TypeOK, Ahead, Placed, Larger, Tablets, OfferAccepted, Placement
<1>6. ImagesBehind'
  BY DEF IInv, TypeOK, ImagesBehind, Topologies, Observe, planVars, Larger, SplitPlan, MergePlan
<1>7. BlankUnplaced' BY Zenon DEF IInv, TypeOK, BlankUnplaced, Placed, Placement
<1> QED BY <1>1, <1>2, <1>3, <1>4, <1>5, <1>6, <1>7, Zenon DEF IInv

LEMMA CreateMigrationInv ==
    ASSUME IInv, NEW plan \in MigrationPlan, CreateMigration(plan)
    PROVE  IInv'
<1> USE DEF CreateMigration
<1>0. /\ placements' \in [Tablets -> Placement]
      /\ \A t \in Tablets \ {plan.tablet} : placements'[t] = placements[t]
      /\ placements'[plan.tablet] = [version |-> plan.gen, replicas |-> plan.voters]
      /\ plan.voters # {}
      /\ plan.gen \in {placementVersion, placementVersion + 1}
      /\ placementVersion' = plan.gen
      /\ nextTabletId' \in Nat /\ nextTabletId' >= nextTabletId
      /\ plan.tablet < nextTabletId'
  <2>1. CASE MigrationMatches(plan) /\ UNCHANGED <<placements, placementVersion, nextTabletId>>
    BY <2>1 DEF IInv, TypeOK, MigrationMatches, MigrationPlan, Placement, Ahead, Placed
  <2>2. CASE ~(MigrationMatches(plan) /\ UNCHANGED <<placements, placementVersion, nextTabletId>>)
    <3>1. /\ MigrationReplaces(plan)
          /\ placements' = [placements EXCEPT
                  ![plan.tablet] = [version |-> plan.gen, replicas |-> plan.voters]]
          /\ placementVersion' = plan.gen
          /\ nextTabletId' = Larger(nextTabletId, plan.tablet + 1)
      BY <2>2, Zenon
    <3>2. plan.tablet \in Nat /\ nextTabletId \in Nat
      BY DEF IInv, TypeOK, MigrationPlan, Tablets
    <3>3. plan.to \in plan.voters BY <3>1, Zenon DEF MigrationReplaces
    <3> QED
      BY <3>1, <3>2, <3>3 DEF IInv, TypeOK, MigrationReplaces, MigrationPlan, Placement, Larger
  <2> QED BY <2>1, <2>2, Zenon
<1>1. TypeOK' BY <1>0 DEF IInv, TypeOK, Observe, Larger, MigrationPlan
<1>2. OneLivePlanPerTablet'
  BY DEF IInv, OneLivePlanPerTablet, Live, HasLiveTopology, SplitTablets, MergeTablets
<1>3. PlacementFrozenUnderPlan'
  BY <1>0 DEF IInv, TypeOK, PlacementFrozenUnderPlan, HasLiveTopology, Live, SplitTablets,
      MergeTablets, MigrationPlan, SplitPlan, MergePlan
<1>4. PlanOrder' BY Zenon DEF IInv, PlanOrder
<1>5. Ahead' BY <1>0 DEF IInv, TypeOK, Ahead, Placed, Tablets, Placement
<1>6. ImagesBehind'
  BY <1>0 DEF IInv, TypeOK, ImagesBehind, Topologies, Observe, Larger, SplitPlan, MergePlan,
      MigrationPlan
<1>7. BlankUnplaced' BY <1>0 DEF IInv, TypeOK, BlankUnplaced, Placed, Placement
<1> QED BY <1>1, <1>2, <1>3, <1>4, <1>5, <1>6, <1>7, Zenon DEF IInv

\* A plan that only changes its phase, or disappears once terminal, keeps the
\* invariant: nothing but liveness can change, and only from live to terminal.
LEMMA MigrationStepInv ==
    ASSUME IInv, NEW plan \in migrations,
           \/ \E phase \in MigrationPhase : AdvanceMigration(plan, phase)
           \/ RemoveMigration(plan)
    PROVE  IInv'
<1>1. /\ migrations' \subseteq MigrationPlan
      /\ \A q \in Live(migrations') : \E p \in Live(migrations) :
            /\ p.tablet = q.tablet /\ p.gen = q.gen /\ p.voters = q.voters
            /\ q = p \/ p = plan
      /\ \A q, r \in Live(migrations') : q.tablet = r.tablet => q = r
  BY DEF IInv, TypeOK, OneLivePlanPerTablet, AdvanceMigration, RemoveMigration, Live, Terminal,
      MigrationPlan, MigrationEdges
<1>2. UNCHANGED <<nodes, placements, splits, merges, placementVersion, nextPlanId, nextTabletId>>
      /\ Observe
  BY Zenon DEF AdvanceMigration, RemoveMigration
<1>3. TypeOK' BY <1>1, <1>2 DEF IInv, TypeOK, Observe
<1>4. OneLivePlanPerTablet' BY <1>1, <1>2, Zenon DEF IInv, OneLivePlanPerTablet, Live
<1>5. PlacementFrozenUnderPlan' BY <1>1, <1>2 DEF IInv, PlacementFrozenUnderPlan, Live
<1>6. ImagesBehind'
  BY <1>2 DEF IInv, TypeOK, ImagesBehind, Topologies, Observe, SplitPlan, MergePlan
<1> QED BY <1>2, <1>3, <1>4, <1>5, <1>6, Zenon
    DEF IInv, PlanOrder, Ahead, BlankUnplaced, Placed

LEMMA SplitStepInv ==
    ASSUME IInv, NEW plan \in splits,
           \/ \E phase \in SplitPhase : AdvanceSplit(plan, phase)
           \/ RemoveSplit(plan)
    PROVE  IInv'
<1>1. /\ splits' \subseteq SplitPlan
      /\ \A q \in splits' : \E p \in splits : p.id = q.id /\ p.gen = q.gen
      /\ \A q \in Live(splits') : \E p \in Live(splits) :
            /\ p.parent = q.parent /\ p.left = q.left /\ p.right = q.right
            /\ p.gen = q.gen /\ p.replicas = q.replicas
            /\ q = p \/ p = plan
      /\ \A q, r \in Live(splits') : SplitTablets(q) \cap SplitTablets(r) # {} => q = r
  BY DEF IInv, TypeOK, OneLivePlanPerTablet, AdvanceSplit, RemoveSplit, Live, Terminal,
      SplitPlan, SplitEdges, SplitTablets
<1>2. UNCHANGED <<nodes, placements, migrations, merges, placementVersion, nextPlanId, nextTabletId>>
      /\ Observe
  BY Zenon DEF AdvanceSplit, RemoveSplit
<1>3. TypeOK' BY <1>1, <1>2 DEF IInv, TypeOK, Observe
<1>4. OneLivePlanPerTablet' BY <1>1, <1>2 DEF IInv, OneLivePlanPerTablet, Live, SplitTablets
<1>5. PlacementFrozenUnderPlan' BY <1>1, <1>2 DEF IInv, PlacementFrozenUnderPlan, Live
<1>6. PlanOrder' BY <1>1, <1>2 DEF IInv, PlanOrder
<1>7. ImagesBehind'
  BY <1>1, <1>2 DEF IInv, TypeOK, ImagesBehind, Topologies, Observe, SplitPlan, MergePlan
<1> QED BY <1>2, <1>3, <1>4, <1>5, <1>6, <1>7, Zenon DEF IInv, Ahead, BlankUnplaced, Placed

LEMMA MergeStepInv ==
    ASSUME IInv, NEW plan \in merges,
           \/ \E phase \in MergePhase : AdvanceMerge(plan, phase)
           \/ RemoveMerge(plan)
    PROVE  IInv'
<1>1. /\ merges' \subseteq MergePlan
      /\ \A q \in merges' : \E p \in merges : p.id = q.id /\ p.gen = q.gen
      /\ \A q \in Live(merges') : \E p \in Live(merges) :
            /\ p.left = q.left /\ p.right = q.right /\ p.merged = q.merged
            /\ p.gen = q.gen /\ p.replicas = q.replicas
            /\ q = p \/ p = plan
      /\ \A q, r \in Live(merges') : MergeTablets(q) \cap MergeTablets(r) # {} => q = r
  BY DEF IInv, TypeOK, OneLivePlanPerTablet, AdvanceMerge, RemoveMerge, Live, Terminal,
      MergePlan, MergeEdges, MergeTablets
<1>2. UNCHANGED <<nodes, placements, migrations, splits, placementVersion, nextPlanId, nextTabletId>>
      /\ Observe
  BY Zenon DEF AdvanceMerge, RemoveMerge
<1>3. TypeOK' BY <1>1, <1>2 DEF IInv, TypeOK, Observe
<1>4. OneLivePlanPerTablet' BY <1>1, <1>2 DEF IInv, OneLivePlanPerTablet, Live, MergeTablets
<1>5. PlacementFrozenUnderPlan' BY <1>1, <1>2 DEF IInv, PlacementFrozenUnderPlan, Live
<1>6. PlanOrder' BY <1>1, <1>2 DEF IInv, PlanOrder
<1>7. ImagesBehind'
  BY <1>1, <1>2 DEF IInv, TypeOK, ImagesBehind, Topologies, Observe, SplitPlan, MergePlan
<1> QED BY <1>2, <1>3, <1>4, <1>5, <1>6, <1>7, Zenon DEF IInv, Ahead, BlankUnplaced, Placed

LEMMA CreateSplitInv ==
    ASSUME IInv, NEW plan \in SplitPlan, NEW image \in images,
           plan.id = image[1], plan.gen = image[2] + 1, CreateSplit(plan)
    PROVE  IInv'
<1>t. TypeOK BY Zenon DEF IInv
<1>g. /\ \A t \in SplitTablets(plan) : ~HasLiveTopology(t)
      /\ plan.gen = placementVersion + 1
      /\ placements[plan.parent].replicas # {} /\ placements[plan.parent].replicas = plan.replicas
      /\ placements[plan.left].replicas = {} /\ placements[plan.right].replicas = {}
  BY Zenon DEF CreateSplit, IsNextGeneration, Placed
<1>a. /\ splits' = splits \cup {plan} /\ merges' = merges /\ migrations' = migrations /\ nodes' = nodes
      /\ images' = images \cup {<<nextPlanId', placementVersion', nextTabletId'>>}
  BY Zenon DEF CreateSplit, Observe
<1>d. /\ plan.parent \in Tablets /\ plan.left \in Tablets /\ plan.right \in Tablets
      /\ plan.parent \notin {plan.left, plan.right}
      /\ plan.gen \in Nat /\ plan.id \in Nat /\ plan.replicas \in SUBSET Nodes
      /\ placementVersion \in Nat /\ image[2] \in Nat
  BY <1>g, <1>t, Zenon DEF SplitPlan, TypeOK
<1>0. /\ placements' \in [Tablets -> Placement]
      /\ \A t \in Tablets \ {plan.left, plan.right} : placements'[t] = placements[t]
      /\ \A t \in {plan.left, plan.right} :
            placements'[t] = [version |-> plan.gen, replicas |-> plan.replicas]
      /\ plan.replicas # {}
      /\ plan.gen = placementVersion + 1 /\ placementVersion' = plan.gen
      /\ image[2] = placementVersion
  <2>1. placements' = [t \in Tablets |-> IF t \in {plan.left, plan.right}
                         THEN [version |-> plan.gen, replicas |-> plan.replicas]
                         ELSE placements[t]]
    BY Zenon DEF CreateSplit
  <2>2. placementVersion' = Larger(placementVersion, plan.gen)
    BY Zenon DEF CreateSplit, AdvanceVersion
  <2>3. placementVersion' = plan.gen /\ image[2] = placementVersion
    BY <2>2, <1>g, <1>d DEF Larger
  <2> QED BY <2>1, <2>3, <1>g, <1>d, <1>t, Zenon DEF TypeOK, Placement
<1>1. /\ nextTabletId' \in Nat /\ nextTabletId' >= nextTabletId
      /\ plan.left < nextTabletId' /\ plan.right < nextTabletId'
  <2>1. plan.left \in Nat /\ plan.right \in Nat /\ nextTabletId \in Nat
    BY <1>d, <1>t DEF TypeOK, Tablets
  <2>2. nextTabletId' = Larger(Larger(nextTabletId, plan.left + 1), plan.right + 1)
    BY Zenon DEF CreateSplit
  <2> QED BY <2>1, <2>2 DEF Larger
<1>2. nextPlanId' \in Nat /\ nextPlanId' >= nextPlanId /\ plan.id < nextPlanId'
  <2>1. nextPlanId' = Larger(nextPlanId, plan.id + 1) BY Zenon DEF CreateSplit
  <2> QED BY <2>1, <1>d, <1>t DEF TypeOK, Larger
<1>3. TypeOK'
  <2>1. splits' \subseteq SplitPlan /\ images' \subseteq Nat \X Nat \X Nat
    BY <1>a, <1>0, <1>1, <1>2, <1>d, <1>t DEF TypeOK
  <2> QED BY <2>1, <1>a, <1>0, <1>1, <1>2, <1>d, <1>t, Zenon DEF TypeOK
<1>5a. \A m \in Live(migrations) : m.tablet \notin SplitTablets(plan)
  BY <1>g, Zenon DEF HasLiveTopology
<1>5b. \A m \in Live(splits) : SplitTablets(m) \cap SplitTablets(plan) = {}
  BY <1>g, Zenon DEF HasLiveTopology
<1>5c. \A m \in Live(merges) : MergeTablets(m) \cap SplitTablets(plan) = {}
  BY <1>g, Zenon DEF HasLiveTopology
<1>5d. /\ Live(migrations)' = Live(migrations) /\ Live(merges)' = Live(merges)
       /\ Live(splits)' \subseteq Live(splits) \cup {plan}
  BY <1>a, Zenon DEF Live
<1>4. OneLivePlanPerTablet'
  BY <1>5a, <1>5b, <1>5c, <1>5d, Zenon DEF IInv, OneLivePlanPerTablet
<1>5. PlacementFrozenUnderPlan'
  <2>3. \A m \in Live(migrations) : m.tablet \in Tablets \ {plan.left, plan.right}
    BY <1>t, <1>5a, Zenon DEF TypeOK, MigrationPlan, Live, SplitTablets
  <2>4. \A m \in Live(splits) : {m.parent, m.left, m.right} \subseteq Tablets \ {plan.left, plan.right}
    <3>1. \A m \in Live(splits) : m \in SplitPlan BY <1>t, Zenon DEF TypeOK, Live
    <3>2. \A m \in Live(splits) : m.parent \in Tablets /\ m.left \in Tablets /\ m.right \in Tablets
      BY <3>1, Zenon DEF SplitPlan
    <3> QED BY <1>5b, <3>2, Zenon DEF SplitTablets
  <2>5. \A m \in Live(merges) : {m.left, m.right, m.merged} \subseteq Tablets \ {plan.left, plan.right}
    BY <1>t, <1>5c, Zenon DEF TypeOK, MergePlan, Live, SplitTablets, MergeTablets
  <2> QED
    BY SMTT(30), <1>0, <1>d, <1>g, <1>5d, <2>3, <2>4, <2>5 DEF IInv, PlacementFrozenUnderPlan
<1>b. /\ Topologies' = Topologies \cup {plan} /\ plan.id \in Nat /\ plan.gen \in Nat
      /\ \A p \in Topologies : p.id \in Nat /\ p.gen \in Nat
      /\ placementVersion \in Nat /\ \A i \in images : i[1] \in Nat /\ i[2] \in Nat
  BY <1>a, Zenon DEF IInv, TypeOK, Topologies, SplitPlan, MergePlan
<1>c. \A p \in Topologies : p.id < plan.id /\ p.gen < plan.gen
  BY <1>0, <1>b DEF IInv, ImagesBehind
<1>6. PlanOrder'
  BY <1>b, <1>c DEF IInv, PlanOrder, Topologies
<1>7. Ahead'
  <2> SUFFICES ASSUME NEW t \in Tablets, Placed(t)'
               PROVE  t < nextTabletId' /\ placements'[t].version <= placementVersion'
    BY Zenon DEF Ahead
  <2>1. t \in Nat /\ nextTabletId \in Nat /\ placementVersion \in Nat /\ placements[t].version \in Nat
    BY DEF IInv, TypeOK, Placement, Tablets
  <2>2. CASE t \in {plan.left, plan.right} BY <2>1, <2>2, <1>0, <1>1
  <2>3. CASE t \notin {plan.left, plan.right}
    BY <2>1, <2>3, <1>0, <1>1 DEF IInv, Ahead, Placed
  <2> QED BY <2>2, <2>3, Zenon
<1>8. ImagesBehind'
  <2>1. placementVersion <= placementVersion' /\ nextPlanId \in Nat
    BY <1>0, <1>b DEF IInv, TypeOK
  <2>2. \A i \in images' : i[2] <= placementVersion'
    BY <2>1, <1>0, <1>a, <1>b DEF IInv, ImagesBehind
  <2>3. \A p \in Topologies' : p.id < nextPlanId' /\ p.gen <= placementVersion'
    BY <2>1, <1>0, <1>2, <1>b DEF IInv, ImagesBehind
  <2>4. \A i \in images', p \in Topologies' : p.gen <= i[2] => p.id < i[1]
    BY <2>3, <1>0, <1>a, <1>b DEF IInv, ImagesBehind
  <2> QED BY <2>2, <2>3, <2>4, Zenon DEF ImagesBehind
<1>9. BlankUnplaced' BY <1>0 DEF IInv, TypeOK, BlankUnplaced, Placed, Placement
<1> QED BY <1>3, <1>4, <1>5, <1>6, <1>7, <1>8, <1>9, Zenon DEF IInv

LEMMA CreateMergeInv ==
    ASSUME IInv, NEW plan \in MergePlan, NEW image \in images,
           plan.id = image[1], plan.gen = image[2] + 1, CreateMerge(plan)
    PROVE  IInv'
<1>t. TypeOK BY Zenon DEF IInv
<1>g. /\ \A t \in MergeTablets(plan) : ~HasLiveTopology(t)
      /\ plan.gen = placementVersion + 1
      /\ \A t \in {plan.left, plan.right} :
            placements[t].replicas # {} /\ placements[t].replicas = plan.replicas
      /\ placements[plan.merged].replicas = {}
  BY Zenon DEF CreateMerge, IsNextGeneration, Placed
<1>a. /\ merges' = merges \cup {plan} /\ splits' = splits /\ migrations' = migrations /\ nodes' = nodes
      /\ images' = images \cup {<<nextPlanId', placementVersion', nextTabletId'>>}
  BY Zenon DEF CreateMerge, Observe
<1>d. /\ plan.merged \in Tablets /\ plan.left \in Tablets /\ plan.right \in Tablets
      /\ plan.merged \notin {plan.left, plan.right}
      /\ plan.gen \in Nat /\ plan.id \in Nat /\ plan.replicas \in SUBSET Nodes
      /\ placementVersion \in Nat /\ image[2] \in Nat
  BY <1>g, <1>t, Zenon DEF MergePlan, TypeOK
<1>0. /\ placements' \in [Tablets -> Placement]
      /\ \A t \in Tablets \ {plan.merged} : placements'[t] = placements[t]
      /\ placements'[plan.merged] = [version |-> plan.gen, replicas |-> plan.replicas]
      /\ plan.replicas # {}
      /\ plan.gen = placementVersion + 1 /\ placementVersion' = plan.gen
      /\ image[2] = placementVersion
  <2>1. placements' = [placements EXCEPT
            ![plan.merged] = [version |-> plan.gen, replicas |-> plan.replicas]]
    BY Zenon DEF CreateMerge
  <2>2. placementVersion' = Larger(placementVersion, plan.gen)
    BY Zenon DEF CreateMerge, AdvanceVersion
  <2>3. placementVersion' = plan.gen /\ image[2] = placementVersion
    BY <2>2, <1>g, <1>d DEF Larger
  <2> QED BY <2>1, <2>3, <1>g, <1>d, <1>t, Zenon DEF TypeOK, Placement
<1>1. /\ nextTabletId' \in Nat /\ nextTabletId' >= nextTabletId /\ plan.merged < nextTabletId'
  <2>1. plan.merged \in Nat /\ nextTabletId \in Nat BY <1>d, <1>t DEF TypeOK, Tablets
  <2>2. nextTabletId' = Larger(nextTabletId, plan.merged + 1) BY Zenon DEF CreateMerge
  <2> QED BY <2>1, <2>2 DEF Larger
<1>2. nextPlanId' \in Nat /\ nextPlanId' >= nextPlanId /\ plan.id < nextPlanId'
  <2>1. nextPlanId' = Larger(nextPlanId, plan.id + 1) BY Zenon DEF CreateMerge
  <2> QED BY <2>1, <1>d, <1>t DEF TypeOK, Larger
<1>3. TypeOK'
  <2>1. merges' \subseteq MergePlan /\ images' \subseteq Nat \X Nat \X Nat
    BY <1>a, <1>0, <1>1, <1>2, <1>d, <1>t DEF TypeOK
  <2> QED BY <2>1, <1>a, <1>0, <1>1, <1>2, <1>d, <1>t, Zenon DEF TypeOK
<1>5a. \A m \in Live(migrations) : m.tablet \notin MergeTablets(plan)
  BY <1>g, Zenon DEF HasLiveTopology
<1>5b. \A m \in Live(splits) : SplitTablets(m) \cap MergeTablets(plan) = {}
  BY <1>g, Zenon DEF HasLiveTopology
<1>5c. \A m \in Live(merges) : MergeTablets(m) \cap MergeTablets(plan) = {}
  BY <1>g, Zenon DEF HasLiveTopology
<1>5d. /\ Live(migrations)' = Live(migrations) /\ Live(splits)' = Live(splits)
       /\ Live(merges)' \subseteq Live(merges) \cup {plan}
  BY <1>a, Zenon DEF Live
<1>4. OneLivePlanPerTablet'
  BY <1>5a, <1>5b, <1>5c, <1>5d, Zenon DEF IInv, OneLivePlanPerTablet
<1>5. PlacementFrozenUnderPlan'
  <2>3. \A m \in Live(migrations) : m.tablet \in Tablets \ {plan.merged}
    BY <1>t, <1>5a, Zenon DEF TypeOK, MigrationPlan, Live, MergeTablets
  <2>4. \A m \in Live(splits) : {m.parent, m.left, m.right} \subseteq Tablets \ {plan.merged}
    BY <1>t, <1>5b, Zenon DEF TypeOK, SplitPlan, Live, SplitTablets, MergeTablets
  <2>5. \A m \in Live(merges) : {m.left, m.right, m.merged} \subseteq Tablets \ {plan.merged}
    BY <1>t, <1>5c, Zenon DEF TypeOK, MergePlan, Live, MergeTablets
  <2> QED
    BY SMTT(30), <1>0, <1>d, <1>g, <1>5d, <2>3, <2>4, <2>5 DEF IInv, PlacementFrozenUnderPlan
<1>b. /\ Topologies' = Topologies \cup {plan} /\ plan.id \in Nat /\ plan.gen \in Nat
      /\ \A p \in Topologies : p.id \in Nat /\ p.gen \in Nat
      /\ placementVersion \in Nat /\ \A i \in images : i[1] \in Nat /\ i[2] \in Nat
  BY <1>a, Zenon DEF IInv, TypeOK, Topologies, SplitPlan, MergePlan
<1>c. \A p \in Topologies : p.id < plan.id /\ p.gen < plan.gen
  BY <1>0, <1>b DEF IInv, ImagesBehind
<1>6. PlanOrder'
  BY <1>b, <1>c DEF IInv, PlanOrder, Topologies
<1>7. Ahead'
  <2> SUFFICES ASSUME NEW t \in Tablets, Placed(t)'
               PROVE  t < nextTabletId' /\ placements'[t].version <= placementVersion'
    BY Zenon DEF Ahead
  <2>1. t \in Nat /\ nextTabletId \in Nat /\ placementVersion \in Nat /\ placements[t].version \in Nat
    BY DEF IInv, TypeOK, Placement, Tablets
  <2>2. CASE t = plan.merged BY <2>1, <2>2, <1>0, <1>1
  <2>3. CASE t # plan.merged
    BY <2>1, <2>3, <1>0, <1>1 DEF IInv, Ahead, Placed
  <2> QED BY <2>2, <2>3, Zenon
<1>8. ImagesBehind'
  <2>1. placementVersion <= placementVersion' /\ nextPlanId \in Nat
    BY <1>0, <1>b DEF IInv, TypeOK
  <2>2. \A i \in images' : i[2] <= placementVersion'
    BY <2>1, <1>0, <1>a, <1>b DEF IInv, ImagesBehind
  <2>3. \A p \in Topologies' : p.id < nextPlanId' /\ p.gen <= placementVersion'
    BY <2>1, <1>0, <1>2, <1>b DEF IInv, ImagesBehind
  <2>4. \A i \in images', p \in Topologies' : p.gen <= i[2] => p.id < i[1]
    BY SMTT(30), <2>3, <1>0, <1>a, <1>b DEF IInv, ImagesBehind
  <2> QED BY <2>2, <2>3, <2>4, Zenon DEF ImagesBehind
<1>9. BlankUnplaced' BY SMTT(30), <1>0 DEF IInv, TypeOK, BlankUnplaced, Placed, Placement
<1> QED BY <1>3, <1>4, <1>5, <1>6, <1>7, <1>8, <1>9, Zenon DEF IInv

\* The plans the proposers build are well formed.
LEMMA ProposedPlans ==
    ASSUME IInv, NEW image \in images
    PROVE  /\ \A t \in Tablets, from, to \in Nodes, voters \in SUBSET Nodes :
                 NewMigration(image, t, from, to, voters) \in MigrationPlan
           /\ \A fresh \in Tablets, parent \in Tablets : fresh + 1 \in Tablets =>
                 NewSplit(image, fresh, parent) \in SplitPlan
           /\ \A left, right \in Tablets : image[3] \in Tablets =>
                 NewMerge(image, left, right) \in MergePlan
<1>1. image[1] \in Nat /\ image[2] + 1 \in Nat BY DEF IInv, TypeOK
<1>2. \A t \in Tablets : placements[t].replicas \in SUBSET Nodes BY Zenon DEF IInv, TypeOK, Placement
<1> QED
  BY <1>1, <1>2, Zenon DEF NewMigration, NewSplit, NewMerge, MigrationPlan, SplitPlan, MergePlan,
    MigrationPhase, SplitPhase, MergePhase

LEMMA NextInv == IInv /\ [Next]_controlVars => IInv'
<1> SUFFICES ASSUME IInv, [Next]_controlVars PROVE IInv' BY Zenon
<1>1. ASSUME NEW n \in Nodes, RegisterNode(n) PROVE IInv'
  BY <1>1, NodeStep, Zenon DEF RegisterNode, IInv, TypeOK, NodeState
<1>2. ASSUME NEW n \in Nodes, NEW state \in NodeState, SetNodeState(n, state) PROVE IInv'
  BY <1>2, NodeStep, Zenon DEF SetNodeState, IInv, TypeOK
<1>3. ASSUME NEW t \in Tablets, NEW replicas \in SUBSET Nodes, SetDesiredPlacement(t, replicas, 1)
      PROVE IInv'
  BY <1>3, SetDesiredPlacementInv, Zenon
<1>4. ASSUME NEW image \in images, CreateAnyMigration(image) PROVE IInv'
  <2>1. PICK t \in Tablets, from \in Nodes, to \in Nodes, voters \in SUBSET Nodes :
             CreateMigration(NewMigration(image, t, from, to, voters))
    BY <1>4, Zenon DEF CreateAnyMigration, IInv, TypeOK, Placement
  <2>2. NewMigration(image, t, from, to, voters) \in MigrationPlan BY ProposedPlans, Zenon
  <2> QED BY <2>1, <2>2, CreateMigrationInv, Zenon
<1>5. ASSUME NEW image \in images, NEW earlier \in images, CreateAnySplit(image, earlier) PROVE IInv'
  <2>1. PICK parent \in Tablets : CreateSplit(NewSplit(image, earlier[3], parent))
    BY <1>5, Zenon DEF CreateAnySplit
  <2>2. NewSplit(image, earlier[3], parent) \in SplitPlan
    BY <1>5, ProposedPlans, Zenon DEF CreateAnySplit
  <2>3. /\ NewSplit(image, earlier[3], parent).id = image[1]
        /\ NewSplit(image, earlier[3], parent).gen = image[2] + 1
    BY Zenon DEF NewSplit
  <2> QED BY <2>1, <2>2, <2>3, CreateSplitInv, Zenon
<1>6. ASSUME NEW image \in images, CreateAnyMerge(image) PROVE IInv'
  <2>1. PICK left \in Tablets, right \in Tablets : CreateMerge(NewMerge(image, left, right))
    BY <1>6, Zenon DEF CreateAnyMerge
  <2>2. NewMerge(image, left, right) \in MergePlan BY <1>6, ProposedPlans, Zenon DEF CreateAnyMerge
  <2>3. /\ NewMerge(image, left, right).id = image[1]
        /\ NewMerge(image, left, right).gen = image[2] + 1
    BY Zenon DEF NewMerge
  <2> QED BY <2>1, <2>2, <2>3, CreateMergeInv, Zenon
<1>7. CASE UNCHANGED controlVars
  <2> USE <1>7 DEF controlVars
  <2>1. TypeOK' BY Zenon DEF IInv, TypeOK
  <2>2. OneLivePlanPerTablet' BY Zenon DEF IInv, OneLivePlanPerTablet, Live
  <2>3. PlacementFrozenUnderPlan' BY DEF IInv, PlacementFrozenUnderPlan, Live
  <2>4. PlanOrder' BY Zenon DEF IInv, PlanOrder
  <2>5. Ahead' /\ BlankUnplaced' BY Zenon DEF IInv, Ahead, BlankUnplaced, Placed
  <2>6. ImagesBehind' BY Zenon DEF IInv, ImagesBehind, Topologies
  <2> QED BY <2>1, <2>2, <2>3, <2>4, <2>5, <2>6, Zenon DEF IInv
<1> QED
  BY <1>1, <1>2, <1>3, <1>4, <1>5, <1>6, <1>7, MigrationStepInv, SplitStepInv, MergeStepInv, Zenon
    DEF Next

-----------------------------------------------------------------------------
(* Theorems. *)

\* The strengthened invariant holds in every reachable control state.
THEOREM Invariance == Spec => []IInv
BY InitInv, NextInv, PTL DEF Spec

\* Every reachable control image is well typed.
THEOREM TypeCorrect == Spec => []TypeOK
BY Invariance, PTL DEF IInv

\* However stale the images proposers read, apply never lets two live plans
\* share a tablet.
THEOREM OneLivePlanHolds == Spec => []OneLivePlanPerTablet
BY Invariance, PTL DEF IInv

\* No accepted mutation changes a placement a live plan works towards.
THEOREM PlacementFrozenHolds == Spec => []PlacementFrozenUnderPlan
BY Invariance, PTL DEF IInv

\* Replaying splits and merges by plan id replays them in creation order.
THEOREM PlanOrderHolds == Spec => []PlanOrder
BY Invariance, PTL DEF IInv

\* The tablet allocator stays ahead of every placed tablet.
THEOREM AllocatorsAheadHolds == Spec => []AllocatorsAhead
<1>1. IInv => AllocatorsAhead BY Zenon DEF IInv, Ahead, AllocatorsAhead
<1> QED BY <1>1, Invariance, PTL

\* A desired placement is only ever replaced by one of a higher version.
THEOREM PlacementMovesForwardHolds == Spec => PlacementMovesForward
<1> DEFINE Grows == \A t \in Tablets : placements'[t] # placements[t] =>
                       placements'[t].version > placements[t].version
<1>1. IInv /\ [Next]_controlVars => [Grows]_controlVars
  <2> SUFFICES ASSUME IInv, Next PROVE Grows BY Zenon DEF controlVars
  <2>1. ASSUME NEW t \in Tablets, NEW replicas \in SUBSET Nodes, SetDesiredPlacement(t, replicas, 1)
        PROVE Grows
    BY SMTT(30), <2>1 DEF IInv, TypeOK, SetDesiredPlacement, OfferAccepted, Placement, BlankUnplaced
  <2>2. ASSUME NEW plan \in MigrationPlan, CreateMigration(plan) PROVE Grows
    BY SMTT(30), <2>2
       DEF IInv, TypeOK, CreateMigration, MigrationReplaces, MigrationPlan, Placement,
        Ahead
  <2>3. ASSUME NEW plan \in SplitPlan, CreateSplit(plan) PROVE Grows
    BY SMTT(30), <2>3
       DEF IInv, TypeOK, CreateSplit, IsNextGeneration, SplitPlan, Placement, BlankUnplaced
  <2>4. ASSUME NEW plan \in MergePlan, CreateMerge(plan) PROVE Grows
    BY SMTT(30), <2>4
       DEF IInv, TypeOK, CreateMerge, IsNextGeneration, MergePlan, Placement, BlankUnplaced
  <2>5. ASSUME NEW image \in images, CreateAnyMigration(image) PROVE Grows
    <3>1. PICK t \in Tablets, from \in Nodes, to \in Nodes, voters \in SUBSET Nodes :
               CreateMigration(NewMigration(image, t, from, to, voters))
      BY <2>5, Zenon DEF CreateAnyMigration, IInv, TypeOK, Placement
    <3>2. NewMigration(image, t, from, to, voters) \in MigrationPlan BY ProposedPlans, Zenon
    <3> QED BY <3>1, <3>2, <2>2, Zenon
  <2>6. ASSUME NEW image \in images, NEW earlier \in images, CreateAnySplit(image, earlier)
        PROVE Grows
    BY <2>6, <2>3, ProposedPlans, Zenon DEF CreateAnySplit
  <2>7. ASSUME NEW image \in images, CreateAnyMerge(image) PROVE Grows
    BY <2>7, <2>4, ProposedPlans, Zenon DEF CreateAnyMerge
  <2>8. UNCHANGED placements => Grows BY Zenon
  <2> QED
    BY <2>1, <2>5, <2>6, <2>7, <2>8, Zenon DEF Next, RegisterNode, SetNodeState, AdvanceMigration,
      AdvanceSplit, AdvanceMerge, RemoveMigration, RemoveSplit, RemoveMerge
<1> QED BY <1>1, Invariance, PTL DEF Spec, PlacementMovesForward
=============================================================================
