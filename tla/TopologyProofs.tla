-------------------------- MODULE TopologyProofs ---------------------------
(***************************************************************************)
(* Proofs about Topology for every set of nodes, tablets and points, every *)
(* genesis tiling and every bound.                                         *)
(***************************************************************************)
EXTENDS Topology, FiniteSetTheorems, TLAPS

-----------------------------------------------------------------------------
(* One cutover: a snapshot a node may serve stays one, whatever plan is     *)
(* applied to it and however often.                                        *)

\* A snapshot a node may serve: validate accepts it, no tablet is caught between
\* two states, every range is an ordered one, and every key has an owner.
Good(d) ==
    /\ d \in Snapshot
    /\ Valid(d)
    /\ \A t \in Tablets : d.state[t] \in {"Absent", "Active", "Tombstone"}
    /\ \A t \in Known(d) : d.range[t].kind = "ordered" /\ d.range[t] \in PartitionRange
    /\ \A x \in Points : \E t \in Active(d) : x \in d.range[t].points

\* A plan as create builds it: the two children of a split are different tablets.
Built == {p \in Plan : p.kind = "split" => p.left # p.right}

\* In a good snapshot the lookup of a key finds exactly one tablet.
LEMMA GoodCovered == ASSUME NEW d, Good(d) PROVE Covered(d)
<1> SUFFICES ASSUME NEW x \in Points PROVE \E t \in Active(d) : Lookup(d, x) = {t}
  BY Zenon DEF Covered
<1>1. PICK t \in Active(d) : x \in d.range[t].points BY Zenon DEF Good
<1>2. \A u \in Active(d) : u # t => x \notin d.range[u].points
  BY <1>1 DEF Good, Valid, Overlaps
<1> QED BY <1>1, <1>2, Zenon DEF Lookup

\* What advance returns.
LEMMA AdvanceResult ==
    ASSUME NEW d, NEW st, NEW rg, NEW rd, NEW e \in Advance(d, st, rg, rd)
    PROVE  /\ e = [version |-> d.version + 1, state |-> st, range |-> rg, redirect |-> rd]
           /\ Valid(e)
  BY Zenon DEF Advance

\* A snapshot between the steps of a cutover: only state, range and redirect of
\* the tablets in T may differ from d.
Outside(d, e, T) ==
    /\ e \in Snapshot
    /\ \A t \in Tablets \ T : e.state[t] = d.state[t] /\ e.range[t] = d.range[t]
                              /\ e.redirect[t] = d.redirect[t]

\* What EnsureAllocated does to the one snapshot it is given.
AllocatedFrom(f, e, t, r) ==
    /\ Outside(f, e, {t})
    /\ t \in Known(f) => e = f
    /\ t \notin Known(f) => e.state[t] = "Allocated" /\ e.range[t] = r

\* What a cutover of the tablets in T leaves alone.
Kept(d, g, T) == \A t \in Tablets \ T : g.state[t] = d.state[t] /\ g.range[t] = d.range[t]

\* What applying p to d may say of the tablets of p.
SplitRanges(d, p, g) ==
    \E c \in SplitChildRanges(d.range[p.parent], p.key) :
        /\ p.parent \in Known(d) /\ g.range[p.parent] = d.range[p.parent]
        /\ g.range[p.left] = c[1] /\ g.range[p.right] = c[2]
        /\ Kept(d, g, {p.parent, p.left, p.right})

MergeRanges(d, p, g) ==
    \E m \in MergeParentRanges(d.range[p.left], d.range[p.right]) :
        /\ {p.left, p.right} \subseteq Known(d)
        /\ g.range[p.left] = d.range[p.left] /\ g.range[p.right] = d.range[p.right]
        /\ g.range[p.merged] = m
        /\ Kept(d, g, {p.merged, p.left, p.right})

LEMMA SnapshotFields ==
    ASSUME NEW f \in Snapshot
    PROVE  /\ f.version \in Nat
           /\ f.state \in [Tablets -> TabletState \cup {"Absent"}]
           /\ f.range \in [Tablets -> PartitionRange \cup {NoRange}]
           /\ f.redirect \in [Tablets -> SUBSET Tablets]
  BY Zenon DEF Snapshot

LEMMA SnapshotBuilt ==
    ASSUME NEW v \in Nat, NEW st \in [Tablets -> TabletState \cup {"Absent"}],
           NEW rg \in [Tablets -> PartitionRange \cup {NoRange}], NEW rd \in [Tablets -> SUBSET Tablets]
    PROVE  [version |-> v + 1, state |-> st, range |-> rg, redirect |-> rd] \in Snapshot
  BY DEF Snapshot

LEMMA AllocateStep ==
    ASSUME NEW S, NEW t \in Tablets, NEW r \in PartitionRange, NEW e \in EnsureAllocated(S, t, r),
           S \subseteq Snapshot
    PROVE  \E f \in S : AllocatedFrom(f, e, t, r)
<1> USE DEF AllocatedFrom
<1>1. PICK f \in S : e \in IF t \in Known(f) THEN {f} ELSE Allocate(f, t, r, 1, 1)
  BY Zenon DEF EnsureAllocated
<1>2. CASE t \in Known(f) BY <1>1, <1>2, Zenon DEF Outside
<1>3. CASE t \notin Known(f)
  <2>1. e \in Advance(f, [f.state EXCEPT ![t] = "Allocated"], [f.range EXCEPT ![t] = r],
                      [f.redirect EXCEPT ![t] = {}])
    BY <1>1, <1>3, Zenon DEF Allocate
  <2>2. e = [version |-> f.version + 1, state |-> [f.state EXCEPT ![t] = "Allocated"],
             range |-> [f.range EXCEPT ![t] = r], redirect |-> [f.redirect EXCEPT ![t] = {}]]
    BY <2>1, AdvanceResult
  <2>3. f \in Snapshot BY Zenon
  <2>4. /\ e.state = [f.state EXCEPT ![t] = "Allocated"] /\ e.range = [f.range EXCEPT ![t] = r]
        /\ e.redirect = [f.redirect EXCEPT ![t] = {}] /\ e.version = f.version + 1
    BY <2>2, Zenon
  <2>6. /\ f.state \in [Tablets -> TabletState \cup {"Absent"}] /\ f.version \in Nat
        /\ f.range \in [Tablets -> PartitionRange \cup {NoRange}] /\ f.redirect \in [Tablets -> SUBSET Tablets]
    BY <2>3, SnapshotFields, Zenon
  <2>7. /\ e.state \in [Tablets -> TabletState \cup {"Absent"}]
        /\ e.range \in [Tablets -> PartitionRange \cup {NoRange}]
        /\ e.redirect \in [Tablets -> SUBSET Tablets]
    BY <2>4, <2>6 DEF TabletState
  <2>8. e \in Snapshot BY <2>2, <2>4, <2>6, <2>7, SnapshotBuilt, Zenon
  <2>5. e.state[t] = "Allocated" /\ e.range[t] = r /\ Outside(f, e, {t})
    BY <2>4, <2>6, <2>8, Zenon DEF Outside
  <2> QED BY <1>3, <2>5, Zenon
<1> QED BY <1>2, <1>3, Zenon

LEMMA ReplaceStep ==
    ASSUME NEW f \in Snapshot, NEW t \in Tablets, NEW allowed, NEW to \in TabletState,
           NEW e \in Replace(f, t, allowed, to, {})
    PROVE  /\ Outside(f, e, {t})
           /\ f.state[t] \in allowed
           /\ e.state[t] = to /\ e.range[t] = f.range[t]
<1>1. /\ e \in Advance(f, [f.state EXCEPT ![t] = to], f.range, [f.redirect EXCEPT ![t] = {}])
      /\ f.state[t] \in allowed
  BY Zenon DEF Replace
<1>2. e = [version |-> f.version + 1, state |-> [f.state EXCEPT ![t] = to],
           range |-> f.range, redirect |-> [f.redirect EXCEPT ![t] = {}]]
  BY <1>1, AdvanceResult
<1> QED BY <1>1, <1>2 DEF Outside, Snapshot

LEMMA StageStep ==
    ASSUME NEW S, NEW t \in Tablets, NEW e \in EnsureStaged(S, t), S \subseteq Snapshot
    PROVE  \E f \in S :
             /\ Outside(f, e, {t}) /\ e.range[t] = f.range[t]
             /\ f.state[t] # "Allocated" => e = f
             /\ f.state[t] = "Allocated" => e.state[t] = "Inactive"
<1>1. PICK f \in S : e \in IF f.state[t] = "Allocated" THEN Stage(f, t) ELSE {f}
  BY Zenon DEF EnsureStaged
<1>2. CASE f.state[t] = "Allocated"
  <2>1. e \in Replace(f, t, {"Allocated"}, "Inactive", {}) BY <1>1, <1>2, Zenon DEF Stage
  <2>2. Outside(f, e, {t}) /\ e.state[t] = "Inactive" /\ e.range[t] = f.range[t]
    <3>1. f \in Snapshot /\ "Inactive" \in TabletState BY Zenon DEF TabletState
    <3> QED BY <2>1, <3>1, ReplaceStep
  <2> QED BY <1>2, <2>2, Zenon
<1>3. CASE f.state[t] # "Allocated"
  BY <1>1, <1>3, Zenon DEF Outside
<1> QED BY Zenon, <1>2, <1>3

LEMMA SealStep ==
    ASSUME NEW S, NEW t \in Tablets, NEW e \in EnsureSealed(S, t), S \subseteq Snapshot
    PROVE  \E f \in S :
             /\ Outside(f, e, {t}) /\ e.range[t] = f.range[t]
             /\ f.state[t] # "Active" => e = f
             /\ f.state[t] = "Active" => e.state[t] = "Fenced"
<1>1. PICK f \in S : e \in IF f.state[t] = "Active" THEN Seal(f, t) ELSE {f}
  BY Zenon DEF EnsureSealed
<1>2. CASE f.state[t] = "Active"
  <2>1. e \in Replace(f, t, {"Active"}, "Fenced", {}) BY <1>1, <1>2, Zenon DEF Seal
  <2>2. Outside(f, e, {t}) /\ e.state[t] = "Fenced" /\ e.range[t] = f.range[t]
    <3>1. f \in Snapshot /\ "Fenced" \in TabletState BY Zenon DEF TabletState
    <3> QED BY <2>1, <3>1, ReplaceStep
  <2> QED BY <1>2, <2>2, Zenon
<1>3. CASE f.state[t] # "Active"
  BY <1>1, <1>3, Zenon DEF Outside
<1> QED BY Zenon, <1>2, <1>3

LEMMA EnsureTyped ==
    ASSUME NEW S, S \subseteq Snapshot, NEW t \in Tablets, NEW r \in PartitionRange
    PROVE  /\ EnsureAllocated(S, t, r) \subseteq Snapshot
           /\ EnsureStaged(S, t) \subseteq Snapshot
           /\ EnsureSealed(S, t) \subseteq Snapshot
<1>1. EnsureAllocated(S, t, r) \subseteq Snapshot
  BY Zenon, AllocateStep DEF AllocatedFrom, Outside
<1>2. EnsureStaged(S, t) \subseteq Snapshot BY StageStep, Zenon DEF Outside
<1>3. EnsureSealed(S, t) \subseteq Snapshot BY SealStep, Zenon DEF Outside
<1> QED BY <1>1, <1>2, <1>3, Zenon

\* The children's ranges partition the parent's.
LEMMA ChildRanges ==
    ASSUME NEW r, r.points \subseteq Points, NEW key \in Points, NEW c \in SplitChildRanges(r, key)
    PROVE  /\ c[1] \in PartitionRange /\ c[2] \in PartitionRange
           /\ c[1].kind = "ordered" /\ c[2].kind = "ordered"
           /\ c[1].points \cup c[2].points = r.points
<1>1. c = <<Ordered({p \in r.points : p < key}), Ordered({p \in r.points : p >= key})>>
  BY Zenon DEF SplitChildRanges
<1>2. \A p \in r.points : p \in Nat /\ key \in Nat BY Zenon, TopologyAssumption
<1> QED BY <1>1, <1>2, TopologyAssumption DEF Ordered, PartitionRange

\* A split cutover that succeeds found its parent active and its children
\* unknown, and gave them the two halves.
LEMMA SplitPreparedResult ==
    ASSUME NEW d, Good(d), NEW P \in Tablets, NEW L \in Tablets, NEW R \in Tablets, L # R,
           P \in Known(d), NEW c1 \in PartitionRange, NEW c2 \in PartitionRange,
           NEW e \in EnsureSealed(EnsureStaged(EnsureStaged(EnsureAllocated(
                         EnsureAllocated({d}, L, c1), R, c2), L), R), P),
           e.state[P] = "Fenced", e.state[L] = "Inactive", e.state[R] = "Inactive"
    PROVE  /\ P # L /\ P # R
           /\ d.state[P] = "Active" /\ e.range[P] = d.range[P]
           /\ L \notin Known(d) /\ R \notin Known(d)
           /\ Outside(d, e, {P, L, R})
           /\ e.range[L] = c1 /\ e.range[R] = c2
<1>d. d \in Snapshot BY Zenon DEF Good
<1> DEFINE S1 == EnsureAllocated({d}, L, c1)  S2 == EnsureAllocated(S1, R, c2)
           S3 == EnsureStaged(S2, L)  S4 == EnsureStaged(S3, R)
<1>S1. S1 \subseteq Snapshot BY <1>d, EnsureTyped, Zenon
<1> HIDE DEF S1
<1>S2. S2 \subseteq Snapshot BY Zenon, <1>S1, EnsureTyped
<1> HIDE DEF S2
<1>S3. S3 \subseteq Snapshot BY <1>S2, EnsureTyped, Zenon
<1> HIDE DEF S3
<1>S4. S4 \subseteq Snapshot BY Zenon, <1>S3, EnsureTyped
<1> HIDE DEF S4
<1>e. e \in EnsureSealed(S4, P) BY Zenon DEF S1, S2, S3, S4
<1>2. PICK f4 \in S4 : /\ Outside(f4, e, {P}) /\ e.range[P] = f4.range[P]
                       /\ f4.state[P] # "Active" => e = f4
                       /\ f4.state[P] = "Active" => e.state[P] = "Fenced"
  BY <1>e, <1>S4, SealStep, Zenon
<1>3. PICK f3 \in S3 : /\ Outside(f3, f4, {R}) /\ f4.range[R] = f3.range[R]
                       /\ f3.state[R] # "Allocated" => f4 = f3
                       /\ f3.state[R] = "Allocated" => f4.state[R] = "Inactive"
  <2>1. f4 \in EnsureStaged(S3, R) BY Zenon DEF S4
  <2> QED BY Zenon, <2>1, <1>S3, StageStep
<1>4. PICK f2 \in S2 : /\ Outside(f2, f3, {L}) /\ f3.range[L] = f2.range[L]
                       /\ f2.state[L] # "Allocated" => f3 = f2
                       /\ f2.state[L] = "Allocated" => f3.state[L] = "Inactive"
  <2>1. f3 \in EnsureStaged(S2, L) BY Zenon DEF S3
  <2> QED BY Zenon, <2>1, <1>S2, StageStep
<1>5. PICK f1 \in S1 : AllocatedFrom(f1, f2, R, c2)
  <2>1. f2 \in EnsureAllocated(S1, R, c2) BY Zenon DEF S2
  <2> QED BY <2>1, <1>S1, AllocateStep, Zenon
<1>6. AllocatedFrom(d, f1, L, c1)
  <2>1. {d} \subseteq Snapshot BY <1>d, Zenon
  <2>2. f1 \in EnsureAllocated({d}, L, c1) BY Zenon DEF S1
  <2>3. PICK f \in {d} : AllocatedFrom(f, f1, L, c1)
    BY <2>1, <2>2, AllocateStep
  <2> QED BY <2>3, Zenon
<1> USE DEF AllocatedFrom
<1>7. P # L /\ P # R BY Zenon
<1>8. \A t \in Tablets : d.state[t] \in {"Absent", "Active", "Tombstone"} BY Zenon DEF Good
<1>9. L \notin Known(d) /\ e.range[L] = c1
  <2>1. e.state[L] = f4.state[L] /\ f4.state[L] = f3.state[L] /\ f2.state[L] = f1.state[L]
        /\ e.range[L] = f4.range[L] /\ f4.range[L] = f3.range[L] /\ f2.range[L] = f1.range[L]
    BY <1>7, <1>2, <1>3, <1>5, Zenon DEF Outside
  <2>2. L \in Known(d) => f1.state[L] \in {"Active", "Tombstone"}
    BY <1>6, <1>8, Zenon DEF Known
  <2>3. L \notin Known(d) BY <2>1, <2>2, <1>4, Zenon
  <2> QED BY <2>1, <2>3, <1>4, <1>6, Zenon
<1>10. R \notin Known(d) /\ e.range[R] = c2
  <2>1. e.state[R] = f4.state[R] /\ f3.state[R] = f2.state[R] /\ f1.state[R] = d.state[R]
        /\ e.range[R] = f4.range[R] /\ f4.range[R] = f3.range[R] /\ f3.range[R] = f2.range[R]
    BY <1>7, <1>2, <1>3, <1>4, <1>6, Zenon DEF Outside
  <2>2. R \in Known(d) => R \in Known(f1) /\ f2.state[R] \in {"Active", "Tombstone"}
    BY <1>5, <1>8, <2>1, Zenon DEF Known
  <2>3. R \notin Known(d) BY <2>1, <2>2, <1>3, Zenon
  <2>4. R \notin Known(f1) BY <2>1, <2>3, Zenon DEF Known
  <2> QED BY <2>1, <2>3, <2>4, <1>5, Zenon
<1>11. d.state[P] = "Active" /\ e.range[P] = d.range[P]
  <2>1. /\ f4.state[P] = d.state[P] /\ f4.range[P] = d.range[P]
    BY <1>7, <1>3, <1>4, <1>5, <1>6 DEF Outside
  <2> QED BY <2>1, <1>2, <1>8, Zenon
<1>12. Outside(d, e, {P, L, R})
  BY <1>2, <1>3, <1>4, <1>5, <1>6 DEF Outside
<1> QED BY <1>7, <1>9, <1>10, <1>11, <1>12, Zenon

\* The split of d at P into L and R, with the ranges c1 and c2, by way of e, gives g.
SplitRun(d, P, L, R, c1, c2, e, g) ==
    /\ Good(d) /\ {P, L, R} \subseteq Tablets /\ L # R /\ P \in Known(d)
    /\ {c1, c2} \subseteq PartitionRange /\ c1.kind = "ordered" /\ c2.kind = "ordered"
    /\ c1.points \cup c2.points = d.range[P].points
    /\ e \in EnsureSealed(EnsureStaged(EnsureStaged(EnsureAllocated(
                 EnsureAllocated({d}, L, c1), R, c2), L), R), P)
    /\ g \in CutoverSplit(e, P, L, R)

\* What the split leaves of d, and what it says of the three tablets.
SplitSays(d, P, L, R, c1, c2, g) ==
    /\ Kept(d, g, {P, L, R})
    /\ g.range[P] = d.range[P] /\ g.range[L] = c1 /\ g.range[R] = c2

\* Cutting over a prepared split gives a good snapshot.
LEMMA SplitCutoverGood ==
    ASSUME NEW d, NEW P, NEW L, NEW R, NEW c1, NEW c2, NEW e, NEW g,
           SplitRun(d, P, L, R, c1, c2, e, g)
    PROVE  Good(g) /\ SplitSays(d, P, L, R, c1, c2, g)
<1> DEFINE st == [t \in Tablets |-> IF t = P THEN "Tombstone"
                                    ELSE IF t \in {L, R} THEN "Active" ELSE e.state[t]]
           rd == [t \in Tablets |-> IF t = P THEN {L, R}
                                    ELSE IF t \in {L, R} THEN {} ELSE e.redirect[t]]
<1>0. /\ Good(d) /\ P \in Tablets /\ L \in Tablets /\ R \in Tablets /\ L # R /\ P \in Known(d)
      /\ c1 \in PartitionRange /\ c2 \in PartitionRange /\ c1.kind = "ordered" /\ c2.kind = "ordered"
      /\ c1.points \cup c2.points = d.range[P].points
      /\ e \in EnsureSealed(EnsureStaged(EnsureStaged(EnsureAllocated(
                   EnsureAllocated({d}, L, c1), R, c2), L), R), P)
      /\ g \in CutoverSplit(e, P, L, R)
  BY Zenon DEF SplitRun
<1> USE <1>0
<1>1. /\ g \in Advance(e, st, e.range, rd)
      /\ e.state[P] = "Fenced" /\ e.state[L] = "Inactive" /\ e.state[R] = "Inactive"
  BY Zenon DEF CutoverSplit
<1>2. /\ P # L /\ P # R
      /\ d.state[P] = "Active" /\ e.range[P] = d.range[P]
      /\ L \notin Known(d) /\ R \notin Known(d)
      /\ Outside(d, e, {P, L, R})
      /\ e.range[L] = c1 /\ e.range[R] = c2
  BY <1>1, SplitPreparedResult
<1>3. g = [version |-> e.version + 1, state |-> st, range |-> e.range, redirect |-> rd] /\ Valid(g)
  BY <1>1, AdvanceResult, Zenon
<1>4. e \in Snapshot BY <1>2, Zenon DEF Outside
<1>5. g \in Snapshot
  <2>1. e.version \in Nat /\ e.range \in [Tablets -> PartitionRange \cup {NoRange}]
        /\ e.redirect \in [Tablets -> SUBSET Tablets]
        /\ e.state \in [Tablets -> TabletState \cup {"Absent"}]
    BY <1>4, SnapshotFields, Zenon
  <2>2. st \in [Tablets -> TabletState \cup {"Absent"}] BY <2>1, Zenon DEF TabletState
  <2>3. rd \in [Tablets -> SUBSET Tablets] BY <2>1, Zenon
  <2> HIDE DEF st, rd
  <2> QED BY <1>3, <2>1, <2>2, <2>3, SnapshotBuilt, Zenon
<1>6. g.state = st /\ g.range = e.range BY <1>3, Zenon
<1>7. \A t \in Tablets : /\ t \notin {P, L, R} => g.state[t] = d.state[t] /\ g.range[t] = d.range[t]
                         /\ t \in {L, R} => g.state[t] = "Active"
                         /\ t = P => g.state[t] = "Tombstone"
  BY <1>2, <1>6 DEF Outside
<1>8. \A t \in Tablets : g.state[t] \in {"Absent", "Active", "Tombstone"}
  BY <1>7, Zenon DEF Good
<1>9. \A t \in Known(g) : g.range[t].kind = "ordered" /\ g.range[t] \in PartitionRange
  <2> SUFFICES ASSUME NEW t \in Tablets, g.state[t] # "Absent"
               PROVE  g.range[t].kind = "ordered" /\ g.range[t] \in PartitionRange
    BY Zenon DEF Known
  <2>1. CASE t \in {L, R} BY <2>1, <1>2, <1>6, Zenon
  <2>2. CASE t = P BY <2>2, <1>2, <1>6 DEF Good
  <2>3. CASE t \notin {P, L, R} BY <2>3, <1>7 DEF Good, Known
  <2> QED BY <2>1, <2>2, <2>3, Zenon
<1>10. \A x \in Points : \E t \in Active(g) : x \in g.range[t].points
  <2> SUFFICES ASSUME NEW x \in Points PROVE \E t \in Active(g) : x \in g.range[t].points
    BY Zenon
  <2>1. PICK t \in Active(d) : x \in d.range[t].points BY Zenon DEF Good
  <2>2. CASE t # P
    <3>1. t \in Tablets /\ t \notin {P, L, R} BY <2>1, <2>2, <1>2, Zenon DEF Active, Known
    <3> QED BY <2>1, <3>1, <1>7, Zenon DEF Active
  <2>3. CASE t = P
    <3>1. x \in c1.points \/ x \in c2.points BY <2>1, <2>3, Zenon
    <3>2. L \in Active(g) /\ R \in Active(g) BY <1>7, Zenon DEF Active
    <3> QED BY <3>1, <3>2, <1>2, <1>6, Zenon
  <2> QED BY <2>2, <2>3, Zenon
<1>11. Good(g) BY Zenon, <1>3, <1>5, <1>8, <1>9, <1>10 DEF Good
<1>12. Kept(d, g, {P, L, R}) BY <1>7, Zenon DEF Kept
<1>13. g.range[P] = d.range[P] /\ g.range[L] = c1 /\ g.range[R] = c2 BY <1>2, <1>6, Zenon
<1> QED BY <1>11, <1>12, <1>13, Zenon DEF SplitSays

\* apply_completed_split keeps a snapshot good, and gives the children the two
\* halves of what the snapshot says of the parent.
LEMMA ApplySplitGood ==
    ASSUME NEW d, Good(d), NEW p \in Built, p.kind = "split", NEW g \in ApplySplit(d, p)
    PROVE  Good(g) /\ (g = d \/ SplitRanges(d, p, g))
<1>t. p.parent \in Tablets /\ p.left \in Tablets /\ p.right \in Tablets /\ p.key \in Points
      /\ p.left # p.right
  BY Zenon DEF Built, Plan
<1>1. CASE d.state[p.parent] = "Tombstone" /\ {p.left, p.right} \subseteq Active(d)
  BY <1>1, Zenon DEF ApplySplit
<1>2. CASE ~(d.state[p.parent] = "Tombstone" /\ {p.left, p.right} \subseteq Active(d))
  <2>1. PICK e \in SplitPrepared(d, p) : g \in CutoverSplit(e, p.parent, p.left, p.right)
    BY <1>2, Zenon DEF ApplySplit
  <2>2. p.parent \in Known(d) BY <1>2, Zenon DEF ApplySplit
  <2>3. PICK c \in SplitChildRanges(d.range[p.parent], p.key) :
          e \in EnsureSealed(EnsureStaged(EnsureStaged(EnsureAllocated(
                  EnsureAllocated({d}, p.left, c[1]), p.right, c[2]), p.left), p.right), p.parent)
    BY Zenon DEF SplitPrepared
  <2>4. d.range[p.parent].points \subseteq Points
    BY <2>2, <1>t, Zenon DEF Good, PartitionRange
  <2>5. /\ c[1] \in PartitionRange /\ c[2] \in PartitionRange
        /\ c[1].kind = "ordered" /\ c[2].kind = "ordered"
        /\ c[1].points \cup c[2].points = d.range[p.parent].points
    BY <2>4, <1>t, ChildRanges, Zenon
  <2>6. PICK c1, c2 : c1 = c[1] /\ c2 = c[2] BY Zenon
  <2>7. e \in EnsureSealed(EnsureStaged(EnsureStaged(EnsureAllocated(
                 EnsureAllocated({d}, p.left, c1), p.right, c2), p.left), p.right), p.parent)
    BY Zenon, <2>3, <2>6
  <2>8. /\ c1 \in PartitionRange /\ c2 \in PartitionRange
        /\ c1.kind = "ordered" /\ c2.kind = "ordered"
        /\ c1.points \cup c2.points = d.range[p.parent].points
    BY Zenon, <2>5, <2>6
  <2>9. Good(g) /\ SplitSays(d, p.parent, p.left, p.right, c1, c2, g)
    <3>1. SplitRun(d, p.parent, p.left, p.right, c1, c2, e, g)
      BY Zenon, <1>t, <2>1, <2>2, <2>7, <2>8 DEF SplitRun
    <3> QED BY Zenon, <3>1, SplitCutoverGood
  <2> QED BY Zenon, <2>2, <2>6, <2>9 DEF SplitSays, SplitRanges
<1> QED BY <1>1, <1>2, Zenon

\* A merge cutover that succeeds found both parents active and the target
\* unknown, and gave it the union of their ranges.
LEMMA MergePreparedResult ==
    ASSUME NEW d, Good(d), NEW M \in Tablets, NEW L \in Tablets, NEW R \in Tablets,
           NEW m \in PartitionRange,
           NEW e \in EnsureSealed(EnsureSealed(EnsureStaged(EnsureAllocated({d}, M, m), M), L), R),
           e.state[L] = "Fenced", e.state[R] = "Fenced", e.state[M] = "Inactive"
    PROVE  /\ M # L /\ M # R
           /\ d.state[L] = "Active" /\ d.state[R] = "Active"
           /\ e.range[L] = d.range[L] /\ e.range[R] = d.range[R]
           /\ M \notin Known(d) /\ e.range[M] = m
           /\ Outside(d, e, {M, L, R})
<1>d. d \in Snapshot BY Zenon DEF Good
<1> DEFINE S1 == EnsureAllocated({d}, M, m)  S2 == EnsureStaged(S1, M)  S3 == EnsureSealed(S2, L)
<1>S1. S1 \subseteq Snapshot BY <1>d, EnsureTyped, Zenon
<1> HIDE DEF S1
<1>S2. S2 \subseteq Snapshot BY Zenon, <1>S1, EnsureTyped
<1> HIDE DEF S2
<1>S3. S3 \subseteq Snapshot BY <1>S2, EnsureTyped, Zenon
<1> HIDE DEF S3
<1>e. e \in EnsureSealed(S3, R) BY Zenon DEF S1, S2, S3
<1>2. PICK f3 \in S3 : /\ Outside(f3, e, {R}) /\ e.range[R] = f3.range[R]
                       /\ f3.state[R] # "Active" => e = f3
                       /\ f3.state[R] = "Active" => e.state[R] = "Fenced"
  BY Zenon, <1>e, <1>S3, SealStep
<1>3. PICK f2 \in S2 : /\ Outside(f2, f3, {L}) /\ f3.range[L] = f2.range[L]
                       /\ f2.state[L] # "Active" => f3 = f2
                       /\ f2.state[L] = "Active" => f3.state[L] = "Fenced"
  <2>1. f3 \in EnsureSealed(S2, L) BY Zenon DEF S3
  <2> QED BY Zenon, <2>1, <1>S2, SealStep
<1>4. PICK f1 \in S1 : /\ Outside(f1, f2, {M}) /\ f2.range[M] = f1.range[M]
                       /\ f1.state[M] # "Allocated" => f2 = f1
                       /\ f1.state[M] = "Allocated" => f2.state[M] = "Inactive"
  <2>1. f2 \in EnsureStaged(S1, M) BY Zenon DEF S2
  <2> QED BY Zenon, <2>1, <1>S1, StageStep
<1>5. AllocatedFrom(d, f1, M, m)
  <2>1. {d} \subseteq Snapshot BY <1>d, Zenon
  <2>2. f1 \in EnsureAllocated({d}, M, m) BY Zenon DEF S1
  <2>3. PICK f \in {d} : AllocatedFrom(f, f1, M, m)
    BY <2>1, <2>2, AllocateStep
  <2> QED BY <2>3, Zenon
<1>6. M # L /\ M # R BY Zenon
<1>7. \A t \in Tablets : d.state[t] \in {"Absent", "Active", "Tombstone"} BY Zenon DEF Good
<1>8. M \notin Known(d) /\ e.range[M] = m
  <2>1. e.state[M] = f3.state[M] /\ f3.state[M] = f2.state[M]
        /\ e.range[M] = f3.range[M] /\ f3.range[M] = f2.range[M]
    BY <1>6, <1>2, <1>3, Zenon DEF Outside
  <2>2. M \in Known(d) => f1.state[M] \in {"Active", "Tombstone"}
    BY <1>5, <1>7, Zenon DEF AllocatedFrom, Known
  <2>3. M \notin Known(d) BY <2>1, <2>2, <1>4, Zenon
  <2> QED BY <2>1, <2>3, <1>4, <1>5, Zenon DEF AllocatedFrom
<1>9. \A t \in {L, R} : f2.state[t] = d.state[t] /\ f2.range[t] = d.range[t]
  BY <1>6, <1>4, <1>5, Zenon DEF Outside, AllocatedFrom
<1>10. d.state[L] = "Active" /\ e.range[L] = d.range[L]
  <2>1. e.range[L] = f3.range[L] BY <1>2, Zenon DEF Outside
  <2>2. e.state[L] = f3.state[L] \/ f3.state[L] = "Active" BY <1>2, Zenon DEF Outside
  <2> QED BY <2>1, <2>2, <1>3, <1>7, <1>9, Zenon
<1>11. d.state[R] = "Active" /\ e.range[R] = d.range[R]
  <2>1. f3.range[R] = f2.range[R] BY <1>3, Zenon DEF Outside
  <2>2. f3.state[R] = f2.state[R] \/ f2.state[R] = "Active" BY <1>3, Zenon DEF Outside
  <2> QED BY <2>1, <2>2, <1>2, <1>7, <1>9, Zenon
<1>12. Outside(d, e, {M, L, R})
  BY SMTT(30), <1>2, <1>3, <1>4, <1>5 DEF Outside, AllocatedFrom
<1> QED BY <1>6, <1>8, <1>10, <1>11, <1>12, Zenon

\* The merge of L and R of d into M, with the range m, by way of e, gives g.
MergeRun(d, M, L, R, m, e, g) ==
    /\ Good(d) /\ {M, L, R} \subseteq Tablets /\ m \in PartitionRange /\ m.kind = "ordered"
    /\ m.points = d.range[L].points \cup d.range[R].points
    /\ e \in EnsureSealed(EnsureSealed(EnsureStaged(EnsureAllocated({d}, M, m), M), L), R)
    /\ g \in CutoverMerge(e, L, R, M)

\* What the merge leaves of d, and what it says of the three tablets.
MergeSays(d, M, L, R, m, g) ==
    /\ Kept(d, g, {M, L, R})
    /\ g.range[L] = d.range[L] /\ g.range[R] = d.range[R] /\ g.range[M] = m

\* Cutting over a prepared merge gives a good snapshot.
LEMMA MergeCutoverGood ==
    ASSUME NEW d, NEW M, NEW L, NEW R, NEW m, NEW e, NEW g, MergeRun(d, M, L, R, m, e, g)
    PROVE  Good(g) /\ MergeSays(d, M, L, R, m, g)
<1> DEFINE st == [t \in Tablets |-> IF t = M THEN "Active"
                                    ELSE IF t \in {L, R} THEN "Tombstone" ELSE e.state[t]]
           rd == [t \in Tablets |-> IF t = M THEN {}
                                    ELSE IF t \in {L, R} THEN {M} ELSE e.redirect[t]]
<1>0. /\ Good(d) /\ M \in Tablets /\ L \in Tablets /\ R \in Tablets
      /\ m \in PartitionRange /\ m.kind = "ordered"
      /\ m.points = d.range[L].points \cup d.range[R].points
      /\ e \in EnsureSealed(EnsureSealed(EnsureStaged(EnsureAllocated({d}, M, m), M), L), R)
      /\ g \in CutoverMerge(e, L, R, M)
  BY Zenon DEF MergeRun
<1> USE <1>0
<1>1. /\ g \in Advance(e, st, e.range, rd)
      /\ e.state[L] = "Fenced" /\ e.state[R] = "Fenced" /\ e.state[M] = "Inactive"
  BY Zenon DEF CutoverMerge
<1>2. /\ M # L /\ M # R
      /\ d.state[L] = "Active" /\ d.state[R] = "Active"
      /\ e.range[L] = d.range[L] /\ e.range[R] = d.range[R]
      /\ M \notin Known(d) /\ e.range[M] = m
      /\ Outside(d, e, {M, L, R})
  BY Zenon, <1>1, MergePreparedResult
<1>3. g = [version |-> e.version + 1, state |-> st, range |-> e.range, redirect |-> rd] /\ Valid(g)
  BY <1>1, AdvanceResult, Zenon
<1>4. e \in Snapshot BY <1>2, Zenon DEF Outside
<1>5. g \in Snapshot
  <2>1. e.version \in Nat /\ e.range \in [Tablets -> PartitionRange \cup {NoRange}]
        /\ e.redirect \in [Tablets -> SUBSET Tablets]
        /\ e.state \in [Tablets -> TabletState \cup {"Absent"}]
    BY <1>4, SnapshotFields, Zenon
  <2>2. st \in [Tablets -> TabletState \cup {"Absent"}] BY <2>1, Zenon DEF TabletState
  <2>3. rd \in [Tablets -> SUBSET Tablets] BY <2>1, Zenon
  <2> HIDE DEF st, rd
  <2> QED BY <1>3, <2>1, <2>2, <2>3, SnapshotBuilt, Zenon
<1>6. g.state = st /\ g.range = e.range BY <1>3, Zenon
<1>7. \A t \in Tablets : /\ t \notin {M, L, R} => g.state[t] = d.state[t] /\ g.range[t] = d.range[t]
                         /\ t \in {L, R} => g.state[t] = "Tombstone"
                         /\ t = M => g.state[t] = "Active"
  BY <1>2, <1>6 DEF Outside
<1>8. \A t \in Tablets : g.state[t] \in {"Absent", "Active", "Tombstone"}
  BY <1>7, Zenon DEF Good
<1>9. \A t \in Known(g) : g.range[t].kind = "ordered" /\ g.range[t] \in PartitionRange
  <2> SUFFICES ASSUME NEW t \in Tablets, g.state[t] # "Absent"
               PROVE  g.range[t].kind = "ordered" /\ g.range[t] \in PartitionRange
    BY Zenon DEF Known
  <2>1. CASE t = M BY <2>1, <1>2, <1>6, Zenon
  <2>2. CASE t \in {L, R} BY <2>2, <1>2, <1>6 DEF Good, Known
  <2>3. CASE t \notin {M, L, R} BY <2>3, <1>7, Zenon DEF Good, Known
  <2> QED BY <2>1, <2>2, <2>3, Zenon
<1>10. \A x \in Points : \E t \in Active(g) : x \in g.range[t].points
  <2> SUFFICES ASSUME NEW x \in Points PROVE \E t \in Active(g) : x \in g.range[t].points
    BY Zenon
  <2>1. PICK t \in Active(d) : x \in d.range[t].points BY Zenon DEF Good
  <2>2. CASE t \notin {L, R}
    <3>1. t \in Tablets /\ t \notin {M, L, R} BY <2>1, <2>2, <1>2, Zenon DEF Active, Known
    <3> QED BY <2>1, <3>1, <1>7, Zenon DEF Active
  <2>3. CASE t \in {L, R}
    <3>1. x \in m.points BY <2>1, <2>3, Zenon
    <3>2. M \in Active(g) BY <1>7, Zenon DEF Active
    <3> QED BY <3>1, <3>2, <1>2, <1>6, Zenon
  <2> QED BY <2>2, <2>3, Zenon
<1>11. Good(g) BY Zenon, <1>3, <1>5, <1>8, <1>9, <1>10 DEF Good
<1>12. Kept(d, g, {M, L, R}) BY <1>7, Zenon DEF Kept
<1>13. g.range[L] = d.range[L] /\ g.range[R] = d.range[R] /\ g.range[M] = m BY <1>2, <1>6, Zenon
<1> QED BY <1>11, <1>12, <1>13, Zenon DEF MergeSays

\* apply_completed_merge keeps a snapshot good, and gives the target the union of
\* what the snapshot says of the parents.
LEMMA ApplyMergeGood ==
    ASSUME NEW d, Good(d), NEW p \in Built, p.kind = "merge", NEW g \in ApplyMerge(d, p)
    PROVE  Good(g) /\ (g = d \/ MergeRanges(d, p, g))
<1>t. p.merged \in Tablets /\ p.left \in Tablets /\ p.right \in Tablets
  BY Zenon DEF Built, Plan
<1>1. CASE d.state[p.merged] = "Active"
  BY <1>1, Zenon DEF ApplyMerge
<1>2. CASE d.state[p.merged] # "Active"
  <2>1. PICK e \in MergePrepared(d, p) : g \in CutoverMerge(e, p.left, p.right, p.merged)
    BY <1>2, Zenon DEF ApplyMerge
  <2>2. p.left \in Known(d) /\ p.right \in Known(d) BY <1>2, Zenon DEF ApplyMerge
  <2>3. PICK m \in MergeParentRanges(d.range[p.left], d.range[p.right]) :
          e \in EnsureSealed(EnsureSealed(EnsureStaged(EnsureAllocated(
                  {d}, p.merged, m), p.merged), p.left), p.right)
    BY Zenon DEF MergePrepared
  <2>4. d.range[p.left].points \subseteq Points /\ d.range[p.right].points \subseteq Points
    BY <2>2, <1>t, Zenon DEF Good, PartitionRange
  <2>5. /\ m \in PartitionRange /\ m.kind = "ordered"
        /\ m.points = d.range[p.left].points \cup d.range[p.right].points
    BY <2>4, TopologyAssumption DEF MergeParentRanges, Ordered, PartitionRange
  <2>6. Good(g) /\ MergeSays(d, p.merged, p.left, p.right, m, g)
    <3>1. MergeRun(d, p.merged, p.left, p.right, m, e, g)
      BY Zenon, <1>t, <2>1, <2>3, <2>5 DEF MergeRun
    <3> QED BY Zenon, <3>1, MergeCutoverGood
  <2> QED BY <2>2, <2>6, Zenon DEF MergeSays, MergeRanges
<1> QED BY <1>1, <1>2, Zenon

\* Whatever cutover is applied to a good snapshot, the result is good, and no
\* tablet outside the plan means anything else than before.
LEMMA ApplyGood ==
    ASSUME NEW d, Good(d), NEW p \in Built, NEW g \in Apply(d, p)
    PROVE  /\ Good(g)
           /\ \/ g = d
              \/ p.kind = "split" /\ SplitRanges(d, p, g)
              \/ p.kind = "merge" /\ MergeRanges(d, p, g)
<1>1. p.kind \in {"split", "merge"} BY Zenon DEF Built, Plan
<1> QED BY <1>1, ApplySplitGood, ApplyMergeGood, Zenon DEF Apply

-----------------------------------------------------------------------------
(* The inductive invariant. *)

WorkOK(w) ==
    w \in WorkState /\ w.todo \subseteq Built /\ w.pending \subseteq Built /\ w.plan \subseteq Built /\ Good(w.snap)

PushOK(q) == q \in PushState /\ q.plan \subseteq Built /\ Good(q.snap)

\* The inductive invariant: every snapshot at rest or in flight is good, and every
\* copy of a plan is one that was built.
IInv ==
    /\ TypeOK
    /\ plans \subseteq Built
    /\ \A n \in Nodes :
          /\ view[n] \subseteq Built
          /\ Good(dir[n])
          /\ WorkOK(work[n]) /\ PushOK(push[n]) /\ pass[n].plan \subseteq Built

-----------------------------------------------------------------------------
(* The genesis tiling. *)

\* One tile more than there are split keys.
LEMMA GenesisCount ==
    /\ Cardinality(GenesisKeys) \in Nat
    /\ Cardinality(GenesisTiles) = Cardinality(GenesisKeys) + 1
<1>1. Cardinality(GenesisKeys) \in Nat BY GenesisAssumption, FS_CardinalityType, Zenon
<1> QED BY <1>1, FS_Interval DEF GenesisTiles

LEMMA SmallSets == Cardinality({}) = 0 /\ \A x : Cardinality({x}) = 1
  BY FS_EmptySet, FS_Singleton, Zenon

\* The genesis tiling is good.
LEMMA GenesisGood == Good(Genesis)
<1> DEFINE K == Cardinality(GenesisKeys)
           rank(x) == Cardinality({k \in GenesisKeys : k <= x})
<1>1. K \in Nat BY GenesisCount, Zenon
<1>2. \A x \in Points : rank(x) \in Nat /\ rank(x) <= K
  BY GenesisAssumption, FS_Subset, FS_CardinalityType, Zenon
<1>3. Cardinality(GenesisTiles) = K + 1 BY GenesisCount, Zenon
<1>4. \A t \in GenesisTiles : t \in Tablets /\ t \in Nat
  BY GenesisAssumption, TopologyAssumption, Zenon
<1>5. \A t \in Tablets : Ordered(GenesisTile(t)) \in PartitionRange
  BY TopologyAssumption, Zenon DEF Ordered, GenesisTile, PartitionRange
<1>6. Genesis \in Snapshot
  <2>1. 3 * Cardinality(GenesisTiles) \in Nat BY <1>1, <1>3
  <2> QED BY <2>1, <1>5, Zenon DEF Genesis, Snapshot, TabletState
<1>7. Known(Genesis) = GenesisTiles /\ Active(Genesis) = GenesisTiles
  BY <1>4, Zenon DEF Known, Active, Genesis
<1>8. \A t \in GenesisTiles : Genesis.range[t] = Ordered(GenesisTile(t))
  BY <1>4, Zenon DEF Genesis
<1>9. \A t \in GenesisTiles : Genesis.range[t].kind = "ordered" /\ Genesis.range[t].points = GenesisTile(t)
                              /\ Genesis.range[t] \in PartitionRange
  <2> SUFFICES ASSUME NEW t \in GenesisTiles
               PROVE  /\ Genesis.range[t].kind = "ordered" /\ Genesis.range[t].points = GenesisTile(t)
                      /\ Genesis.range[t] \in PartitionRange
    BY Zenon
  <2>1. Genesis.range[t] = Ordered(GenesisTile(t)) BY <1>8, Zenon
  <2>2. Ordered(GenesisTile(t)).kind = "ordered" /\ Ordered(GenesisTile(t)).points = GenesisTile(t)
    BY Zenon DEF Ordered
  <2> QED BY <2>1, <2>2, <1>4, <1>5, Zenon
<1>10. \A t, u \in GenesisTiles : t # u => GenesisTile(t) \cap GenesisTile(u) = {}
  <2> SUFFICES ASSUME NEW t \in GenesisTiles, NEW u \in GenesisTiles, NEW x \in Points,
                      rank(x) = t - 1, rank(x) = u - 1
               PROVE  t = u
    BY Zenon DEF GenesisTile
  <2> HIDE DEF rank
  <2> QED BY <1>2, <1>4
<1>11. Valid(Genesis)
  <2>1. Genesis.version # 0 BY <1>1, <1>3 DEF Genesis
  <2>2. \A t \in GenesisTiles : CheckRange(Genesis.range[t])
    BY <1>9, GenesisAssumption, Zenon DEF CheckRange
  <2>3. \A t \in GenesisTiles : Genesis.state[t] # "Tombstone" /\ Genesis.redirect[t] = {}
    BY <1>4, Zenon DEF Genesis
  <2>4. \A t, u \in GenesisTiles : t # u => ~Overlaps(Genesis.range[t], Genesis.range[u])
    BY <1>9, <1>10, Zenon DEF Overlaps
  <2> QED BY <1>7, <1>9, <2>1, <2>2, <2>3, <2>4, Zenon DEF Valid
<1>12. \A t \in Tablets : Genesis.state[t] \in {"Absent", "Active", "Tombstone"}
  BY Zenon DEF Genesis
<1>13. \A x \in Points : \E t \in GenesisTiles : x \in Genesis.range[t].points
  <2> SUFFICES ASSUME NEW x \in Points PROVE \E t \in GenesisTiles : x \in Genesis.range[t].points
    BY Zenon
  <2>1. rank(x) + 1 \in GenesisTiles BY <1>1, <1>2 DEF GenesisTiles
  <2>2. x \in GenesisTile(rank(x) + 1) BY <1>2 DEF GenesisTile
  <2> HIDE DEF rank
  <2> QED BY <2>1, <2>2, <1>9, Zenon
<1> QED BY <1>6, <1>7, <1>9, <1>11, <1>12, <1>13, Zenon DEF Good

LEMMA IdleTyped == Idle \in WorkState /\ NoPush \in PushState /\ NoPass \in PassState
<1>1. Genesis \in Snapshot BY GenesisGood, Zenon DEF Good
<1>2. Idle \in WorkState BY <1>1, Zenon DEF Idle, WorkState
<1>3. NoPush \in PushState BY <1>1, Zenon DEF NoPush, PushState
<1>4. NoPass \in PassState BY Zenon DEF NoPass, PassState
<1> QED BY <1>2, <1>3, <1>4, Zenon

LEMMA IdleOK == WorkOK(Idle) /\ PushOK(NoPush) /\ NoPass.plan = {}
  BY IdleTyped, GenesisGood, Zenon DEF WorkOK, PushOK, Idle, NoPush, NoPass

LEMMA InitInv == Init => IInv
<1> SUFFICES ASSUME Init PROVE IInv BY Zenon
<1>1. Cardinality(GenesisTiles) + 1 \in Nat BY GenesisCount
<1>2. \A t \in GenesisTiles : t \in Tablets /\ Genesis.range[t] \in PartitionRange
  BY GenesisGood, GenesisAssumption, Zenon DEF Good, Known, Genesis
<1>3. TypeOK BY <1>1, <1>2, IdleTyped, GenesisGood, Zenon DEF Init, TypeOK, Good
<1>4. \A n \in Nodes : /\ view[n] = {} /\ dir[n] = Genesis /\ work[n] = Idle
                       /\ push[n] = NoPush /\ pass[n] = NoPass
  BY Zenon DEF Init
<1>5. plans = {} BY Zenon DEF Init
<1> QED BY <1>3, <1>4, <1>5, IdleOK, GenesisGood, Zenon DEF IInv

-----------------------------------------------------------------------------
(* One lemma per action, or per group of actions with the same effect. *)

LEMMA BuiltFacts ==
    ASSUME NEW p \in Built
    PROVE  /\ p \in Plan
           /\ Parents(p) \subseteq Tablets
           /\ \A phase \in Phase : [p EXCEPT !.phase = phase] \in Built
<1>1. CASE p.kind = "split"
  <2>1. p \in [id : Nat, kind : {"split"}, parent : Tablets, left : Tablets, right : Tablets,
               key : Points, phase : Phase]
    BY <1>1, Zenon DEF Built, Plan
  <2>2. \A phase \in Phase : /\ [p EXCEPT !.phase = phase] \in Plan
                             /\ [p EXCEPT !.phase = phase].left = p.left
                             /\ [p EXCEPT !.phase = phase].right = p.right
    BY <2>1, Zenon DEF Plan
  <2> QED BY <1>1, <2>1, <2>2, Zenon DEF Built, Parents
<1>2. CASE p.kind = "merge"
  <2>1. p \in [id : Nat, kind : {"merge"}, left : Tablets, right : Tablets, merged : Tablets,
               phase : Phase]
    BY <1>2, Zenon DEF Built, Plan
  <2>2. \A phase \in Phase : /\ [p EXCEPT !.phase = phase] \in Plan
                             /\ [p EXCEPT !.phase = phase].kind = "merge"
    BY <2>1, Zenon DEF Plan
  <2> QED BY <1>2, <2>1, <2>2, Zenon DEF Built, Parents
<1> QED BY <1>1, <1>2, Zenon DEF Built, Plan

\* A step of the control image leaves every node alone.
LEMMA ControlStepInv ==
    ASSUME IInv, plans' \subseteq Built, planCount' \in Nat, nextTablet' \in Nat, retired' \subseteq Tablets,
           UNCHANGED <<view, dir, up, crashes, work, push, meaning>>,
           pass' \in [Nodes -> PassState], \A n \in Nodes : pass'[n].plan \subseteq Built
    PROVE  IInv'
<1>1. TypeOK' BY Zenon DEF IInv, TypeOK, Built
<1> QED BY <1>1, Zenon DEF IInv

LEMMA CreateSplitInv ==
    ASSUME IInv, NEW n \in Nodes, NEW t \in Tablets, NEW k \in Points, CreateSplit(n, t, k)
    PROVE  IInv'
<1> DEFINE plan == [id |-> planCount + 1, kind |-> "split", parent |-> t,
                    left |-> nextTablet, right |-> nextTablet + 1, key |-> k, phase |-> "Live"]
<1>1. /\ plans' = plans \cup {plan} /\ planCount' = planCount + 1 /\ nextTablet' = nextTablet + 2
      /\ nextTablet \in Tablets /\ nextTablet + 1 \in Tablets
      /\ UNCHANGED <<retired, view, dir, up, crashes, work, push, pass, meaning>>
  BY Zenon DEF CreateSplit, FreshTabletIds
<1>2. planCount \in Nat /\ nextTablet \in Nat /\ plans \subseteq Built /\ retired \subseteq Tablets
      /\ pass \in [Nodes -> PassState] /\ \A m \in Nodes : pass[m].plan \subseteq Built
  BY Zenon DEF IInv, TypeOK
<1>3. plan \in Built BY <1>1, <1>2 DEF Built, Plan, Phase
<1> HIDE DEF plan
<1> QED BY <1>1, <1>2, <1>3, ControlStepInv

LEMMA CreateMergeInv ==
    ASSUME IInv, NEW l \in Tablets, NEW r \in Tablets, CreateMerge(l, r)
    PROVE  IInv'
<1> DEFINE plan == [id |-> planCount + 1, kind |-> "merge", left |-> l, right |-> r,
                    merged |-> nextTablet, phase |-> "Live"]
<1>1. /\ plans' = plans \cup {plan} /\ planCount' = planCount + 1 /\ nextTablet' = nextTablet + 1
      /\ nextTablet \in Tablets
      /\ UNCHANGED <<retired, view, dir, up, crashes, work, push, pass, meaning>>
  BY Zenon DEF CreateMerge, FreshTabletIds
<1>2. planCount \in Nat /\ nextTablet \in Nat /\ plans \subseteq Built /\ retired \subseteq Tablets
      /\ pass \in [Nodes -> PassState] /\ \A m \in Nodes : pass[m].plan \subseteq Built
  BY Zenon DEF IInv, TypeOK
<1>3. plan \in Built BY <1>1, <1>2 DEF Built, Plan, Phase
<1> HIDE DEF plan
<1> QED BY <1>1, <1>2, <1>3, ControlStepInv

LEMMA PlanStepInv ==
    ASSUME IInv, NEW p \in plans,
           \/ BecomeReady(p) \/ Complete(p) \/ Prune(p)
           \/ \E d \in Nodes : CommitCutover(d, p)
    PROVE  IInv'
<1>1. /\ planCount \in Nat /\ nextTablet \in Nat /\ plans \subseteq Built /\ retired \subseteq Tablets
      /\ pass \in [Nodes -> PassState] /\ \A m \in Nodes : pass[m].plan \subseteq Built
  BY Zenon DEF IInv, TypeOK
<1>2. p \in Built BY <1>1, Zenon
<1>3. \/ plans' \subseteq plans
      \/ \E phase \in Phase : plans' = (plans \ {p}) \cup {[p EXCEPT !.phase = phase]}
  BY Zenon DEF BecomeReady, Complete, Prune, CommitCutover, SetPhase, Phase
<1>4. plans' \subseteq Built BY <1>1, <1>2, <1>3, BuiltFacts, Zenon
<1>5. retired' \subseteq Tablets
  BY <1>1, <1>2, BuiltFacts, Zenon DEF BecomeReady, Complete, Prune, CommitCutover
<1>6. pass' = pass \/ \E d \in Nodes : pass' = [pass EXCEPT ![d] = NoPass]
  BY Zenon DEF BecomeReady, Complete, Prune, CommitCutover
<1>7. pass' \in [Nodes -> PassState] /\ \A m \in Nodes : pass'[m].plan \subseteq Built
  BY <1>1, <1>6, IdleTyped DEF NoPass
<1>8. UNCHANGED <<planCount, nextTablet, view, dir, up, crashes, work, push, meaning>>
  BY Zenon DEF BecomeReady, Complete, Prune, CommitCutover
<1> QED BY <1>1, <1>4, <1>5, <1>7, <1>8, ControlStepInv, Zenon

\* A step of one node that changes its reconciler and no directory.
LEMMA WorkStepInv ==
    ASSUME IInv, NEW n \in Nodes, NEW w, WorkOK(w), work' = [work EXCEPT ![n] = w],
           UNCHANGED <<controlVars, view, dir, up, crashes, push, pass, meaning>>
    PROVE  IInv'
<1>1. work' \in [Nodes -> WorkState] BY Zenon DEF IInv, TypeOK, WorkOK
<1>2. \A m \in Nodes : WorkOK(work'[m]) BY Zenon DEF IInv, TypeOK
<1>3. TypeOK' BY <1>1, Zenon DEF IInv, TypeOK, controlVars
<1> QED BY <1>2, <1>3, Zenon DEF IInv, controlVars

\* A node stores a good snapshot in its directory.
LEMMA ServeInv ==
    ASSUME IInv, NEW n \in Nodes, NEW snap, Good(snap), Serve(n, snap)
    PROVE  /\ dir' \in [Nodes -> Snapshot] /\ \A m \in Nodes : Good(dir'[m])
           /\ meaning' \in [Tablets -> SUBSET PartitionRange]
<1>1. dir' = [dir EXCEPT ![n] = snap] /\ dir \in [Nodes -> Snapshot] /\ snap \in Snapshot
  BY Zenon DEF Serve, IInv, TypeOK, Good
<1>2. \A m \in Nodes : Good(dir[m]) BY Zenon DEF IInv
<1>3. \A t \in Tablets : t \in Known(snap) => snap.range[t] \in PartitionRange
  BY Zenon DEF Good
<1>4. meaning' \in [Tablets -> SUBSET PartitionRange]
  BY <1>3, Zenon DEF Serve, IInv, TypeOK
<1> QED BY <1>1, <1>2, <1>4, Zenon

LEMMA SyncInv == ASSUME IInv, NEW n \in Nodes, Sync(n) PROVE IInv'
<1>1. view' = [view EXCEPT ![n] = plans]
      /\ UNCHANGED <<controlVars, dir, up, crashes, work, push, pass, meaning>>
  BY Zenon DEF Sync
<1>2. TypeOK' BY <1>1, Zenon DEF IInv, TypeOK, controlVars
<1> QED BY <1>1, <1>2, Zenon DEF IInv, TypeOK, controlVars

LEMMA LoadedOK ==
    ASSUME NEW d, Good(d), NEW todo, todo \subseteq Built, NEW plan, plan \subseteq Built
    PROVE  /\ WorkOK([Idle EXCEPT !.busy = TRUE, !.snap = d, !.todo = todo])
           /\ WorkOK([Idle EXCEPT !.busy = TRUE, !.todo = todo])
           /\ WorkOK([Idle EXCEPT !.busy = TRUE, !.snap = d, !.todo = todo, !.plan = plan])
<1>1. todo \subseteq Plan /\ plan \subseteq Plan /\ d \in Snapshot /\ Genesis \in Snapshot
  BY GenesisGood, Zenon DEF Built, Good
<1>2. WorkOK([Idle EXCEPT !.busy = TRUE, !.snap = d, !.todo = todo])
  BY Zenon, <1>1 DEF Idle, WorkOK, WorkState
<1>3. WorkOK([Idle EXCEPT !.busy = TRUE, !.snap = d, !.todo = todo, !.plan = plan])
  BY Zenon, <1>1 DEF Idle, WorkOK, WorkState
<1>4. WorkOK([Idle EXCEPT !.busy = TRUE, !.todo = todo])
  BY Zenon, <1>1, GenesisGood DEF Idle, WorkOK, WorkState
<1> QED BY <1>2, <1>3, <1>4, Zenon

LEMMA ReplayLoadInv == ASSUME IInv, NEW n \in Nodes, ReplayLoad(n) PROVE IInv'
<1>1. Good(dir[n]) /\ Committed(view[n]) \subseteq Built BY Zenon DEF IInv, Committed
<1>2. WorkOK([Idle EXCEPT !.busy = TRUE, !.snap = dir[n], !.todo = Committed(view[n])])
  BY Zenon, <1>1, LoadedOK
<1> QED BY Zenon, <1>2, WorkStepInv DEF ReplayLoad

LEMMA PublishLoadInv == ASSUME IInv, NEW n \in Nodes, NEW p \in view[n], PublishLoad(n, p) PROVE IInv'
<1>1. Good(dir[n]) /\ {p} \subseteq Built BY Zenon DEF IInv
<1>2. WorkOK([Idle EXCEPT !.busy = TRUE, !.snap = dir[n], !.todo = {p}, !.plan = {p}])
  BY Zenon, <1>1, LoadedOK
<1> QED BY Zenon, <1>2, WorkStepInv DEF PublishLoad

LEMMA WorkStepActionInv ==
    ASSUME IInv, NEW n \in Nodes, NEW p \in work[n].todo, WorkStep(n, p) PROVE IInv'
<1>1. /\ WorkOK(work[n]) /\ p \in Built /\ work[n] \in WorkState /\ work \in [Nodes -> WorkState]
      /\ Good(work[n].snap)
  BY Zenon DEF IInv, WorkOK, TypeOK
<1>2. UNCHANGED <<controlVars, view, dir, up, crashes, push, pass, meaning>>
  BY Zenon DEF WorkStep
<1>3. ASSUME NEW next \in Apply(work[n].snap, p),
             work' = [work EXCEPT ![n].snap = next, ![n].changed = @ \/ next # work[n].snap,
                                  ![n].progress = TRUE, ![n].todo = @ \ {p}]
      PROVE  IInv'
  <2> DEFINE w == [work[n] EXCEPT !.snap = next, !.changed = @ \/ next # work[n].snap,
                                  !.progress = TRUE, !.todo = @ \ {p}]
  <2>1. Good(next) BY <1>1, ApplyGood, Zenon
  <2>2. work' = [work EXCEPT ![n] = w] BY Zenon, <1>1, <1>3
  <2>3. w \in WorkState /\ w.snap = next /\ w.todo = work[n].todo \ {p}
        /\ w.pending = work[n].pending /\ w.plan = work[n].plan
    BY Zenon, <1>1, <2>1 DEF WorkState, Good
  <2>4. WorkOK(w)
    <3> HIDE DEF w
    <3> QED BY <1>1, <2>1, <2>3, Zenon DEF WorkOK
  <2> HIDE DEF w
  <2> QED BY Zenon, <1>2, <2>2, <2>4, WorkStepInv
<1>4. ASSUME work' = [work EXCEPT ![n].todo = @ \ {p}, ![n].pending = @ \cup {p}]
      PROVE  IInv'
  <2> DEFINE w == [work[n] EXCEPT !.todo = @ \ {p}, !.pending = @ \cup {p}]
  <2>2. work' = [work EXCEPT ![n] = w] BY Zenon, <1>1, <1>4
  <2>3. w \in WorkState /\ w.snap = work[n].snap /\ w.todo = work[n].todo \ {p}
        /\ w.pending = work[n].pending \cup {p} /\ w.plan = work[n].plan
    BY Zenon, <1>1 DEF WorkState, Built
  <2>4. WorkOK(w)
    <3> HIDE DEF w
    <3> QED BY <1>1, <2>3, Zenon DEF WorkOK
  <2> HIDE DEF w
  <2> QED BY Zenon, <1>2, <2>2, <2>4, WorkStepInv
<1> QED BY Zenon, <1>3, <1>4 DEF WorkStep

LEMMA WorkRoundInv == ASSUME IInv, NEW n \in Nodes, WorkRound(n) PROVE IInv'
<1>1. WorkOK(work[n]) /\ work[n] \in WorkState /\ work \in [Nodes -> WorkState]
  BY Zenon DEF IInv, WorkOK, TypeOK
<1> DEFINE w == [work[n] EXCEPT !.todo = work[n].pending, !.pending = {}, !.progress = FALSE]
<1>2. work' = [work EXCEPT ![n] = w]
      /\ UNCHANGED <<controlVars, view, dir, up, crashes, push, pass, meaning>>
  BY Zenon, <1>1 DEF WorkRound
<1>3. w \in WorkState /\ w.snap = work[n].snap /\ w.todo = work[n].pending
      /\ w.pending = {} /\ w.plan = work[n].plan
  BY Zenon, <1>1 DEF WorkState
<1>4. WorkOK(w)
  <2> HIDE DEF w
  <2> QED BY <1>1, <1>3, Zenon DEF WorkOK
<1> HIDE DEF w
<1> QED BY Zenon, <1>2, <1>4, WorkStepInv

LEMMA WorkStoreInv == ASSUME IInv, NEW n \in Nodes, WorkStore(n) PROVE IInv'
<1>1. /\ WorkOK(work[n]) /\ work \in [Nodes -> WorkState] /\ pass \in [Nodes -> PassState]
      /\ work[n] \in WorkState
  BY Zenon DEF IInv, WorkOK, TypeOK
<1>2. /\ Serve(n, work[n].snap) \/ UNCHANGED <<dir, meaning>>
      /\ pass' = pass \/ pass' = [pass EXCEPT ![n] = [plan |-> work[n].plan, nodes |-> {n}]]
      /\ work' = [work EXCEPT ![n] = Idle]
      /\ UNCHANGED <<controlVars, view, up, crashes, push>>
  BY Zenon DEF WorkStore
<1>3. /\ dir' \in [Nodes -> Snapshot] /\ \A m \in Nodes : Good(dir'[m])
      /\ meaning' \in [Tablets -> SUBSET PartitionRange]
  <2>1. CASE Serve(n, work[n].snap) BY <2>1, <1>1, ServeInv, Zenon DEF WorkOK
  <2>2. CASE UNCHANGED <<dir, meaning>> BY <2>2, Zenon DEF IInv, TypeOK
  <2> QED BY <1>2, <2>1, <2>2, Zenon
<1>4. [plan |-> work[n].plan, nodes |-> {n}] \in PassState /\ work[n].plan \subseteq Built
  <2>1. work[n].plan \subseteq Built BY <1>1, Zenon DEF WorkOK
  <2>2. work[n].plan \subseteq Plan BY <2>1, Zenon DEF Built
  <2> QED BY <2>1, <2>2, Zenon DEF PassState
<1>5. pass' \in [Nodes -> PassState] /\ \A m \in Nodes : pass'[m].plan \subseteq Built
  <2> DEFINE q == [plan |-> work[n].plan, nodes |-> {n}]
  <2>1. q \in PassState /\ q.plan \subseteq Built BY <1>4, Zenon
  <2>2. \A m \in Nodes : pass[m].plan \subseteq Built BY Zenon DEF IInv
  <2>3. pass' = pass \/ pass' = [pass EXCEPT ![n] = q] BY <1>2, Zenon
  <2> HIDE DEF q
  <2> QED BY <1>1, <2>1, <2>2, <2>3, Zenon
<1>6. work' \in [Nodes -> WorkState] /\ \A m \in Nodes : WorkOK(work'[m])
  BY <1>1, <1>2, IdleTyped, IdleOK, Zenon DEF IInv
<1>7. TypeOK' BY <1>2, <1>3, <1>5, <1>6, Zenon DEF IInv, TypeOK, controlVars
<1> QED BY <1>2, <1>3, <1>5, <1>6, <1>7, Zenon DEF IInv, controlVars

LEMMA PushLoadInv == ASSUME IInv, NEW n \in Nodes, NEW d \in Nodes, PushLoad(n, d) PROVE IInv'
<1>1. PICK p \in pass[d].plan : \E next \in Apply(dir[n], p) :
        push' = [push EXCEPT ![n] = [busy |-> TRUE, snap |-> next, plan |-> {p}, driver |-> {d}]]
  BY Zenon DEF PushLoad
<1>2. PICK next \in Apply(dir[n], p) :
        push' = [push EXCEPT ![n] = [busy |-> TRUE, snap |-> next, plan |-> {p}, driver |-> {d}]]
  BY Zenon, <1>1
<1>3. Good(next) /\ p \in Built /\ next \in Snapshot /\ p \in Plan
  <2>1. p \in Built /\ Good(dir[n]) BY Zenon DEF IInv
  <2>2. Good(next) BY Zenon, <2>1, ApplyGood
  <2>3. next \in Snapshot BY <2>2, Zenon DEF Good
  <2>4. p \in Plan BY <2>1, Zenon DEF Built
  <2> QED BY <2>1, <2>2, <2>3, <2>4, Zenon
<1> DEFINE q == [busy |-> TRUE, snap |-> next, plan |-> {p}, driver |-> {d}]
<1>4. PushOK(q) BY <1>3, Zenon DEF PushOK, PushState
<1>5. push \in [Nodes -> PushState] /\ q \in PushState /\ \A m \in Nodes : PushOK(push[m])
  BY <1>4, Zenon DEF IInv, TypeOK, PushOK
<1>6. push' = [push EXCEPT ![n] = q] BY <1>2, Zenon
<1> HIDE DEF q
<1>7. push' \in [Nodes -> PushState] /\ \A m \in Nodes : PushOK(push'[m])
  BY <1>4, <1>5, <1>6, Zenon
<1>8. UNCHANGED <<controlVars, view, dir, up, crashes, work, pass, meaning>>
  BY Zenon DEF PushLoad
<1>9. TypeOK' BY <1>7, <1>8, Zenon DEF IInv, TypeOK, controlVars
<1> QED BY <1>7, <1>8, <1>9, Zenon DEF IInv, controlVars

LEMMA PushStoreInv == ASSUME IInv, NEW n \in Nodes, PushStore(n) PROVE IInv'
<1>1. /\ Serve(n, push[n].snap) /\ push' = [push EXCEPT ![n] = NoPush]
      /\ UNCHANGED <<controlVars, view, up, crashes, work>>
      /\ pass' = [d \in Nodes |-> IF d \in push[n].driver /\ pass[d].plan = push[n].plan
                                  THEN [pass[d] EXCEPT !.nodes = @ \cup {n}] ELSE pass[d]]
  BY Zenon DEF PushStore
<1>2. Good(push[n].snap) BY Zenon DEF IInv, PushOK
<1>3. /\ dir' \in [Nodes -> Snapshot] /\ \A m \in Nodes : Good(dir'[m])
      /\ meaning' \in [Tablets -> SUBSET PartitionRange]
  BY <1>1, <1>2, ServeInv, Zenon
<1>4. push' \in [Nodes -> PushState] /\ \A m \in Nodes : PushOK(push'[m])
  BY <1>1, IdleTyped, IdleOK, Zenon DEF IInv, TypeOK
<1>5. \A d \in Nodes : pass[d] \in PassState /\ pass[d].plan \subseteq Built
  BY Zenon DEF IInv, TypeOK
<1>6. \A d \in Nodes : /\ [pass[d] EXCEPT !.nodes = @ \cup {n}] \in PassState
                       /\ [pass[d] EXCEPT !.nodes = @ \cup {n}].plan = pass[d].plan
  BY <1>5, Zenon DEF PassState
<1>7. pass' \in [Nodes -> PassState] /\ \A m \in Nodes : pass'[m].plan \subseteq Built
  BY <1>1, <1>5, <1>6, Zenon
<1>8. TypeOK' BY <1>1, <1>3, <1>4, <1>7, Zenon DEF IInv, TypeOK, controlVars
<1> QED BY <1>1, <1>3, <1>4, <1>7, <1>8, Zenon DEF IInv, controlVars

\* Skip and GiveUp only touch the publication of d.
LEMMA PassStepInv ==
    ASSUME IInv, NEW d \in Nodes, GiveUp(d) \/ \E n \in Nodes : Skip(n, d)
    PROVE  IInv'
<1>1. pass \in [Nodes -> PassState] /\ \A m \in Nodes : pass[m].plan \subseteq Built
  BY Zenon DEF IInv, TypeOK
<1>2. pass[d] \in PassState BY <1>1, Zenon
<1>3. \A n \in Nodes : /\ [pass[d] EXCEPT !.nodes = @ \cup {n}] \in PassState
                       /\ [pass[d] EXCEPT !.nodes = @ \cup {n}].plan = pass[d].plan
  BY <1>2, Zenon DEF PassState
<1>4. \/ pass' = [pass EXCEPT ![d] = NoPass]
      \/ \E n \in Nodes : pass' = [pass EXCEPT ![d] = [pass[d] EXCEPT !.nodes = @ \cup {n}]]
  BY <1>1, Zenon DEF GiveUp, Skip
<1>5. pass' \in [Nodes -> PassState] /\ \A m \in Nodes : pass'[m].plan \subseteq Built
  BY Zenon, <1>1, <1>3, <1>4, IdleTyped, IdleOK
<1>6. UNCHANGED <<controlVars, view, dir, up, crashes, work, push, meaning>>
  BY Zenon DEF GiveUp, Skip
<1>7. planCount \in Nat /\ nextTablet \in Nat /\ plans \subseteq Built /\ retired \subseteq Tablets
  BY Zenon DEF IInv, TypeOK
<1> QED BY <1>5, <1>6, <1>7, ControlStepInv, Zenon DEF controlVars

LEMMA CrashInv == ASSUME IInv, NEW n \in Nodes, Crash(n) PROVE IInv'
<1>1. /\ crashes' = crashes + 1 /\ up' = [up EXCEPT ![n] = FALSE]
      /\ work' = [work EXCEPT ![n] = Idle] /\ push' = [push EXCEPT ![n] = NoPush]
      /\ pass' = [pass EXCEPT ![n] = NoPass]
      /\ UNCHANGED <<controlVars, view, dir, meaning>>
  BY Zenon DEF Crash
<1>2. work' \in [Nodes -> WorkState] /\ \A m \in Nodes : WorkOK(work'[m])
  BY <1>1, IdleTyped, IdleOK, Zenon DEF IInv, TypeOK
<1>3. push' \in [Nodes -> PushState] /\ \A m \in Nodes : PushOK(push'[m])
  BY <1>1, IdleTyped, IdleOK, Zenon DEF IInv, TypeOK
<1>4. pass' \in [Nodes -> PassState] /\ \A m \in Nodes : pass'[m].plan \subseteq Built
  BY <1>1, IdleTyped, IdleOK, Zenon DEF IInv, TypeOK
<1>5. up' \in [Nodes -> BOOLEAN] /\ crashes' \in Nat BY <1>1 DEF IInv, TypeOK
<1>6. TypeOK' BY <1>1, <1>2, <1>3, <1>4, <1>5, Zenon DEF IInv, TypeOK, controlVars
<1> QED BY <1>1, <1>2, <1>3, <1>4, <1>6, Zenon DEF IInv, controlVars

LEMMA RestartInv == ASSUME IInv, NEW n \in Nodes, Restart(n) PROVE IInv'
<1>1. PICK image \in {view[n], {}} :
        /\ view' = [view EXCEPT ![n] = image]
        /\ work' = [work EXCEPT ![n] = [Idle EXCEPT !.busy = TRUE, !.todo = Committed(image)]]
  BY Zenon DEF Restart
<1>2. /\ up' = [up EXCEPT ![n] = TRUE] /\ Serve(n, Genesis)
      /\ UNCHANGED <<controlVars, crashes, push, pass>>
  BY Zenon DEF Restart
<1>3. image \subseteq Built /\ Committed(image) \subseteq Built BY Zenon DEF IInv, Committed
<1>4. /\ dir' \in [Nodes -> Snapshot] /\ \A m \in Nodes : Good(dir'[m])
      /\ meaning' \in [Tablets -> SUBSET PartitionRange]
  BY <1>2, GenesisGood, ServeInv, Zenon
<1> DEFINE w == [Idle EXCEPT !.busy = TRUE, !.todo = Committed(image)]
<1>5. WorkOK(w) BY Zenon, <1>3, GenesisGood, LoadedOK
<1>6. work' = [work EXCEPT ![n] = w] BY <1>1, Zenon
<1> HIDE DEF w
<1>7. work' \in [Nodes -> WorkState] /\ \A m \in Nodes : WorkOK(work'[m])
  BY <1>5, <1>6, Zenon DEF IInv, TypeOK, WorkOK
<1>8. view' \in [Nodes -> SUBSET Plan] /\ \A m \in Nodes : view'[m] \subseteq Built
  BY <1>1, <1>3, Zenon DEF IInv, TypeOK, Built
<1>9. up' \in [Nodes -> BOOLEAN] BY <1>2, Zenon DEF IInv, TypeOK
<1>10. TypeOK'
  <2>1. TypeOK BY Zenon DEF IInv
  <2>2. plans' \subseteq Plan /\ planCount' \in Nat /\ nextTablet' \in Nat /\ retired' \subseteq Tablets
    BY <1>2, <2>1, Zenon DEF TypeOK, controlVars
  <2>3. crashes' \in Nat /\ push' \in [Nodes -> PushState] /\ pass' \in [Nodes -> PassState]
    BY <1>2, <2>1, Zenon DEF TypeOK
  <2> QED BY Zenon, <1>4, <1>7, <1>8, <1>9, <2>2, <2>3 DEF TypeOK
<1> QED BY <1>2, <1>4, <1>7, <1>8, <1>10, Zenon DEF IInv, controlVars

LEMMA NextInv == IInv /\ [Next]_topologyVars => IInv'
<1> SUFFICES ASSUME IInv, [Next]_topologyVars PROVE IInv' BY Zenon
<1>1. ASSUME NEW n \in Nodes, NEW t \in Tablets, NEW k \in Points, CreateSplit(n, t, k) PROVE IInv'
  BY <1>1, CreateSplitInv, Zenon
<1>2. ASSUME NEW l \in Tablets, NEW r \in Tablets, CreateMerge(l, r) PROVE IInv'
  BY <1>2, CreateMergeInv, Zenon
<1>3. ASSUME NEW p \in plans, BecomeReady(p) \/ Complete(p) \/ Prune(p) PROVE IInv'
  BY <1>3, PlanStepInv, Zenon
<1>4. ASSUME NEW d \in Nodes, NEW p \in plans, CommitCutover(d, p) PROVE IInv'
  BY <1>4, PlanStepInv, Zenon
<1>5. ASSUME NEW n \in Nodes,
             Sync(n) \/ ReplayLoad(n) \/ WorkRound(n) \/ WorkStore(n) \/ PushStore(n)
      PROVE  IInv'
  BY <1>5, SyncInv, ReplayLoadInv, WorkRoundInv, WorkStoreInv, PushStoreInv, Zenon
<1>6. ASSUME NEW n \in Nodes, NEW p \in view[n], PublishLoad(n, p) PROVE IInv'
  BY <1>6, PublishLoadInv, Zenon
<1>7. ASSUME NEW n \in Nodes, NEW p \in work[n].todo, WorkStep(n, p) PROVE IInv'
  BY <1>7, WorkStepActionInv, Zenon
<1>8. ASSUME NEW n \in Nodes, NEW d \in Nodes, PushLoad(n, d) \/ Skip(n, d) PROVE IInv'
  BY <1>8, PushLoadInv, PassStepInv, Zenon
<1>9. ASSUME NEW d \in Nodes, GiveUp(d) PROVE IInv'
  BY <1>9, PassStepInv, Zenon
<1>10. ASSUME NEW n \in Nodes, Crash(n) \/ Restart(n) PROVE IInv'
  BY <1>10, CrashInv, RestartInv, Zenon
<1>11. ASSUME UNCHANGED topologyVars PROVE IInv'
  <2>1. TypeOK' BY <1>11, Zenon DEF IInv, TypeOK, topologyVars
  <2> QED BY <2>1, <1>11, Zenon DEF IInv, topologyVars
<1> QED BY <1>1, <1>2, <1>3, <1>4, <1>5, <1>6, <1>7, <1>8, <1>9, <1>10, <1>11, Zenon DEF Next

\* Type correctness.
THEOREM TypeCorrect == Spec => []TypeOK
<1>1. IInv => TypeOK BY Zenon DEF IInv
<1> QED BY <1>1, InitInv, NextInv, PTL DEF Spec

\* Every directory any node ever serves from maps every key to exactly one
\* active tablet: for any number of nodes, plans, crashes and lost updates.
THEOREM CoverageHolds == Spec => []CoverageExact
<1>1. IInv => CoverageExact BY GoodCovered, Zenon DEF IInv, CoverageExact
<1> QED BY <1>1, InitInv, NextInv, PTL DEF Spec
-----------------------------------------------------------------------------
(* One meaning for every tablet id.  The ranges are a function of the tablet *)
(* that no step changes for an id already handed out: what a child holds     *)
(* follows from its plan and from what its parents hold, whoever computes it. *)

\* The plans some step may still apply, and the snapshots some step may still
\* serve.
Copies ==
    plans \cup UNION {view[n] \cup work[n].todo \cup work[n].pending \cup work[n].plan
                      \cup pass[n].plan : n \in Nodes}

Snaps == {Genesis} \cup UNION {{dir[n], work[n].snap, push[n].snap} : n \in Nodes}

\* What the children of p hold follows from what its parents hold.
Derived(p, R) ==
    IF p.kind = "split"
    THEN \A c \in SplitChildRanges(R[p.parent], p.key) : R[p.left] = c[1] /\ R[p.right] = c[2]
    ELSE \A m \in MergeParentRanges(R[p.left], R[p.right]) : R[p.merged] = m

\* Every tablet of p was handed out.
Below(p, limit) == \A t \in Parents(p) \cup Children(p) : t < limit

Agrees(d, R, limit) == \A t \in Known(d) : t < limit /\ d.range[t] = R[t]

RangesAre(R) ==
    /\ R \in [Tablets -> PartitionRange]
    /\ \A p \in Copies : Derived(p, R) /\ Below(p, nextTablet)
    /\ \A d \in Snaps : Agrees(d, R, nextTablet)
    /\ \A t \in Tablets : meaning[t] \subseteq {R[t]} /\ (meaning[t] # {} => t < nextTablet)

\* The inductive invariant of this part.
MInv == \E R : RangesAre(R)

\* A cutover says of its tablets what R says of them.
LEMMA ApplyAgrees ==
    ASSUME NEW d, Good(d), NEW p \in Built, NEW R, NEW limit, Agrees(d, R, limit), Derived(p, R), Below(p, limit),
           NEW g \in Apply(d, p)
    PROVE  Agrees(g, R, limit)
<1> SUFFICES ASSUME NEW t \in Tablets, g.state[t] # "Absent" PROVE t < limit /\ g.range[t] = R[t]
  BY Zenon DEF Agrees, Known
<1>0. \A u \in Known(d) : u < limit /\ d.range[u] = R[u] BY Zenon DEF Agrees
<1>1. CASE g = d BY <1>0, <1>1, Zenon DEF Known
<1>2. CASE p.kind = "split" /\ SplitRanges(d, p, g)
  <2>1. PICK c \in SplitChildRanges(d.range[p.parent], p.key) :
          /\ p.parent \in Known(d) /\ g.range[p.parent] = d.range[p.parent]
          /\ g.range[p.left] = c[1] /\ g.range[p.right] = c[2]
          /\ Kept(d, g, {p.parent, p.left, p.right})
    BY Zenon, <1>2 DEF SplitRanges
  <2>2. d.range[p.parent] = R[p.parent] BY <1>0, <2>1, Zenon
  <2>3. R[p.left] = c[1] /\ R[p.right] = c[2]
    <3>1. \A e \in SplitChildRanges(R[p.parent], p.key) : R[p.left] = e[1] /\ R[p.right] = e[2]
      BY Zenon, <1>2 DEF Derived
    <3> QED BY Zenon, <2>1, <2>2, <3>1
  <2>4. \A u \in {p.parent, p.left, p.right} : u < limit
    BY Zenon, <1>2 DEF Below, Parents, Children
  <2>5. CASE t \in {p.parent, p.left, p.right} BY Zenon, <2>1, <2>2, <2>3, <2>4, <2>5
  <2>6. CASE t \notin {p.parent, p.left, p.right}
    <3>1. g.state[t] = d.state[t] /\ g.range[t] = d.range[t] BY <2>1, <2>6, Zenon DEF Kept
    <3> QED BY <3>1, <1>0, Zenon DEF Known
  <2> QED BY <2>5, <2>6, Zenon
<1>3. CASE p.kind = "merge" /\ MergeRanges(d, p, g)
  <2>1. PICK m \in MergeParentRanges(d.range[p.left], d.range[p.right]) :
          /\ {p.left, p.right} \subseteq Known(d)
          /\ g.range[p.left] = d.range[p.left] /\ g.range[p.right] = d.range[p.right]
          /\ g.range[p.merged] = m
          /\ Kept(d, g, {p.merged, p.left, p.right})
    BY Zenon, <1>3 DEF MergeRanges
  <2>2. d.range[p.left] = R[p.left] /\ d.range[p.right] = R[p.right] BY <1>0, <2>1, Zenon
  <2>3. R[p.merged] = m
    <3>1. \A e \in MergeParentRanges(R[p.left], R[p.right]) : R[p.merged] = e
      BY <1>3, Zenon DEF Derived
    <3> QED BY Zenon, <2>1, <2>2, <3>1
  <2>4. \A u \in {p.merged, p.left, p.right} : u < limit
    BY <1>3, Zenon DEF Below, Parents, Children
  <2>5. CASE t \in {p.merged, p.left, p.right} BY Zenon, <2>1, <2>2, <2>3, <2>4, <2>5
  <2>6. CASE t \notin {p.merged, p.left, p.right}
    <3>1. g.state[t] = d.state[t] /\ g.range[t] = d.range[t] BY <2>1, <2>6, Zenon DEF Kept
    <3> QED BY <3>1, <1>0, Zenon DEF Known
  <2> QED BY <2>5, <2>6, Zenon
<1> QED BY <1>1, <1>2, <1>3, ApplyGood, Zenon

\* Every copy of a plan was built, and every snapshot is good.
LEMMA CopiesBuilt == ASSUME IInv PROVE Copies \subseteq Built /\ \A d \in Snaps : Good(d)
  BY GenesisGood, Zenon DEF IInv, WorkOK, PushOK, Copies, Snaps

\* The phase of a plan says nothing about ranges.
LEMMA PhaseDerived ==
    ASSUME NEW p \in Built, NEW phase \in Phase, NEW R, NEW limit, Derived(p, R), Below(p, limit)
    PROVE  Derived([p EXCEPT !.phase = phase], R) /\ Below([p EXCEPT !.phase = phase], limit)
<1> DEFINE q == [p EXCEPT !.phase = phase]
<1>1. CASE p.kind = "split"
  <2>1. p \in [id : Nat, kind : {"split"}, parent : Tablets, left : Tablets, right : Tablets,
               key : Points, phase : Phase]
    BY <1>1, Zenon DEF Built, Plan
  <2>2. q.kind = p.kind /\ q.parent = p.parent /\ q.left = p.left /\ q.right = p.right /\ q.key = p.key
    BY <2>1, Zenon
  <2> HIDE DEF q
  <2>3. Derived(q, R) BY <1>1, <2>2, Zenon DEF Derived
  <2>4. Below(q, limit) BY <1>1, <2>2, Zenon DEF Below, Parents, Children
  <2> QED BY <2>3, <2>4, Zenon DEF q
<1>2. CASE p.kind = "merge"
  <2>1. p \in [id : Nat, kind : {"merge"}, left : Tablets, right : Tablets, merged : Tablets,
               phase : Phase]
    BY <1>2, Zenon DEF Built, Plan
  <2>2. q.kind = p.kind /\ q.left = p.left /\ q.right = p.right /\ q.merged = p.merged
    BY <2>1, Zenon
  <2> HIDE DEF q
  <2>3. Derived(q, R) BY <1>2, <2>2, Zenon DEF Derived
  <2>4. Below(q, limit) BY <1>2, <2>2, Zenon DEF Below, Parents, Children
  <2> QED BY <2>3, <2>4, Zenon DEF q
<1> QED BY <1>1, <1>2, Zenon DEF Built, Plan

\* What the steps that create no plan have in common: plans are copied or change
\* their phase, snapshots are copied or the result of a cutover, and what is
\* served is one of the snapshots.
LEMMA CopyStep ==
    ASSUME IInv, NEW R, RangesAre(R), nextTablet' = nextTablet,
           \A p \in Copies' : p \in Copies \/ \E q \in Copies, phase \in Phase : p = [q EXCEPT !.phase = phase],
           \A d \in Snaps' : d \in Snaps \/ \E s \in Snaps, p \in Copies : d \in Apply(s, p),
           meaning' = meaning \/ \E n \in Nodes : \E s \in Snaps : Serve(n, s)
    PROVE  MInv'
<1>0. Copies \subseteq Built /\ \A d \in Snaps : Good(d) BY CopiesBuilt, Zenon
<1>1. \A p \in Copies' : Derived(p, R) /\ Below(p, nextTablet)
  <2> SUFFICES ASSUME NEW p \in Copies' PROVE Derived(p, R) /\ Below(p, nextTablet)
    BY Zenon
  <2>1. CASE p \in Copies BY <2>1, Zenon DEF RangesAre
  <2>2. ASSUME NEW q \in Copies, NEW phase \in Phase, p = [q EXCEPT !.phase = phase]
        PROVE  Derived(p, R) /\ Below(p, nextTablet)
    <3>1. Derived(q, R) /\ Below(q, nextTablet) /\ q \in Built BY <1>0, Zenon DEF RangesAre
    <3> QED BY Zenon, <2>2, <3>1, PhaseDerived
  <2> QED BY Zenon, <2>1, <2>2
<1>2. \A d \in Snaps' : Agrees(d, R, nextTablet)
  <2> SUFFICES ASSUME NEW d \in Snaps' PROVE Agrees(d, R, nextTablet)
    BY Zenon
  <2>1. CASE d \in Snaps BY <2>1, Zenon DEF RangesAre
  <2>2. ASSUME NEW s \in Snaps, NEW p \in Copies, d \in Apply(s, p)
        PROVE  Agrees(d, R, nextTablet)
    <3>1. /\ Derived(p, R) /\ Below(p, nextTablet) /\ p \in Built
          /\ Good(s) /\ Agrees(s, R, nextTablet)
      BY <1>0, Zenon DEF RangesAre
    <3> QED BY Zenon, <2>2, <3>1, ApplyAgrees
  <2> QED BY Zenon, <2>1, <2>2
<1>3. \A t \in Tablets : meaning'[t] \subseteq {R[t]} /\ (meaning'[t] # {} => t < nextTablet)
  <2>1. CASE meaning' = meaning BY <2>1, Zenon DEF RangesAre
  <2>2. ASSUME NEW n \in Nodes, NEW s \in Snaps, Serve(n, s)
        PROVE  \A t \in Tablets : meaning'[t] \subseteq {R[t]} /\ (meaning'[t] # {} => t < nextTablet)
    <3>1. \A t \in Known(s) : t < nextTablet /\ s.range[t] = R[t] BY Zenon DEF RangesAre, Agrees
    <3>2. \A t \in Tablets : /\ t \in Known(s) => meaning'[t] = meaning[t] \cup {s.range[t]}
                             /\ t \notin Known(s) => meaning'[t] = meaning[t]
      BY <2>2, Zenon DEF Serve
    <3>3. \A t \in Tablets : meaning[t] \subseteq {R[t]} /\ (meaning[t] # {} => t < nextTablet)
      BY Zenon DEF RangesAre
    <3> QED BY <3>1, <3>2, <3>3, Zenon
  <2> QED BY Zenon, <2>1, <2>2
<1>4. RangesAre(R)' BY <1>1, <1>2, <1>3, Zenon DEF RangesAre
<1> QED BY <1>4, Zenon DEF MInv

\* A plan for tablet ids that nobody uses yet.
LEMMA FreshStep ==
    ASSUME IInv, NEW R, RangesAre(R), NEW S \in [Tablets -> PartitionRange],
           \A t \in Tablets : t < nextTablet => S[t] = R[t],
           NEW plan, plans' = plans \cup {plan}, Derived(plan, S), Below(plan, nextTablet'),
           nextTablet' \in Nat, nextTablet <= nextTablet',
           UNCHANGED <<view, dir, work, push, pass, meaning>>
    PROVE  MInv'
<1>0. /\ Copies \subseteq Built /\ nextTablet \in Nat /\ Tablets \subseteq Nat
      /\ Snaps' = Snaps /\ \A p \in Copies' : p \in Copies \/ p = plan
  <2>1. Copies \subseteq Built BY CopiesBuilt, Zenon
  <2>2. nextTablet \in Nat /\ Tablets \subseteq Nat
    BY TopologyAssumption, Zenon DEF IInv, TypeOK
  <2>3. Snaps' = Snaps BY Zenon DEF Snaps
  <2>4. \A p \in Copies' : p \in Copies \/ p = plan BY DEF Copies
  <2> QED BY <2>1, <2>2, <2>3, <2>4, Zenon
<1>1. \A p \in Copies : Derived(p, S) /\ Below(p, nextTablet')
  <2> SUFFICES ASSUME NEW p \in Copies PROVE Derived(p, S) /\ Below(p, nextTablet')
    BY Zenon
  <2>1. p \in Built /\ Derived(p, R) /\ Below(p, nextTablet) BY <1>0, Zenon DEF RangesAre
  <2>2. Parents(p) \cup Children(p) \subseteq Tablets
    BY <2>1, Zenon DEF Built, Plan, Parents, Children
  <2>3. Below(p, nextTablet') BY <1>0, <2>1, <2>2 DEF Below
  <2>4. \A t \in Parents(p) \cup Children(p) : S[t] = R[t] BY <2>1, <2>2, Zenon DEF Below
  <2>5. CASE p.kind = "split"
    <3>1. S[p.parent] = R[p.parent] /\ S[p.left] = R[p.left] /\ S[p.right] = R[p.right]
      BY <2>4, <2>5, Zenon DEF Parents, Children
    <3> QED BY <2>1, <2>3, <2>5, <3>1, Zenon DEF Derived
  <2>6. CASE p.kind # "split"
    <3>1. S[p.merged] = R[p.merged] /\ S[p.left] = R[p.left] /\ S[p.right] = R[p.right]
      BY <2>4, <2>6, Zenon DEF Parents, Children
    <3> QED BY <2>1, <2>3, <2>6, <3>1, Zenon DEF Derived
  <2> QED BY <2>5, <2>6, Zenon
<1>2. \A p \in Copies' : Derived(p, S) /\ Below(p, nextTablet') BY Zenon, <1>0, <1>1
<1>3. \A d \in Snaps' : Agrees(d, S, nextTablet')
  BY <1>0 DEF RangesAre, Agrees, Known
<1>4. \A t \in Tablets : meaning'[t] \subseteq {S[t]} /\ (meaning'[t] # {} => t < nextTablet')
  <2> SUFFICES ASSUME NEW t \in Tablets
               PROVE  meaning'[t] \subseteq {S[t]} /\ (meaning'[t] # {} => t < nextTablet')
    BY Zenon
  <2>1. meaning'[t] = meaning[t] BY Zenon
  <2>2. meaning[t] \subseteq {R[t]} /\ (meaning[t] # {} => t < nextTablet)
    BY Zenon DEF RangesAre
  <2>3. CASE meaning[t] = {} BY <2>1, <2>3, Zenon
  <2>4. CASE meaning[t] # {}
    <3>1. t < nextTablet BY <2>2, <2>4, Zenon
    <3>2. S[t] = R[t] /\ t < nextTablet' BY <1>0, <3>1
    <3> QED BY Zenon, <2>1, <2>2, <3>2
  <2> QED BY <2>3, <2>4, Zenon
<1>5. RangesAre(S)' BY <1>2, <1>3, <1>4, Zenon DEF RangesAre
<1> QED BY <1>5, Zenon DEF MInv

\* A table changed at two places.
LEMMA TwoEntries ==
    ASSUME NEW A, NEW B, NEW f \in [A -> B], NEW a \in A, NEW b \in A, a # b, NEW x \in B, NEW y \in B,
           NEW g, g = [f EXCEPT ![a] = x, ![b] = y]
    PROVE  /\ g \in [A -> B] /\ g[a] = x /\ g[b] = y
           /\ \A c \in A : c # a /\ c # b => g[c] = f[c]
<1>1. g \in [A -> B] BY Zenon
<1>2. g[a] = x BY Zenon
<1>3. g[b] = y BY Zenon
<1>4. \A c \in A : c # a /\ c # b => g[c] = f[c] BY Zenon
<1> QED BY <1>1, <1>2, <1>3, <1>4, Zenon

LEMMA CreateSplitMeaning ==
    ASSUME IInv, MInv, NEW n \in Nodes, NEW t \in Tablets, NEW k \in Points, CreateSplit(n, t, k)
    PROVE  MInv'
<1> DEFINE plan == [id |-> planCount + 1, kind |-> "split", parent |-> t,
                    left |-> nextTablet, right |-> nextTablet + 1, key |-> k, phase |-> "Live"]
<1>1. PICK R : RangesAre(R) BY Zenon DEF MInv
<1>2. /\ plans' = plans \cup {plan} /\ nextTablet' = nextTablet + 2
      /\ dir[n].state[t] = "Active" /\ SplitChildRanges(dir[n].range[t], k) # {}
      /\ nextTablet \in Tablets /\ nextTablet + 1 \in Tablets
      /\ UNCHANGED <<view, dir, work, push, pass, meaning>>
  BY Zenon DEF CreateSplit, FreshTabletIds
<1>3. nextTablet \in Nat /\ Tablets \subseteq Nat BY TopologyAssumption, Zenon DEF IInv, TypeOK
<1>4. t < nextTablet /\ dir[n].range[t] = R[t]
  <2>1. dir[n] \in Snaps BY Zenon DEF Snaps
  <2>2. t \in Known(dir[n]) BY <1>2, Zenon DEF Known
  <2> QED BY <1>1, <2>1, <2>2, Zenon DEF RangesAre, Agrees
<1>5. PICK c : c \in SplitChildRanges(R[t], k) BY Zenon, <1>2, <1>4
<1>6. c[1] \in PartitionRange /\ c[2] \in PartitionRange
  <2>1. R[t].points \subseteq Points BY <1>1, Zenon DEF RangesAre, PartitionRange
  <2> QED BY <1>5, <2>1, ChildRanges, Zenon
<1>7. \A e \in SplitChildRanges(R[t], k) : e = c BY <1>5, Zenon DEF SplitChildRanges
<1> DEFINE S == [R EXCEPT ![nextTablet] = c[1], ![nextTablet + 1] = c[2]]
<1>8. R \in [Tablets -> PartitionRange] BY <1>1, Zenon DEF RangesAre
<1>9. /\ S \in [Tablets -> PartitionRange] /\ S[nextTablet] = c[1] /\ S[nextTablet + 1] = c[2]
      /\ \A u \in Tablets : u < nextTablet => S[u] = R[u]
  <2>1. nextTablet # nextTablet + 1 BY <1>3
  <2>2. /\ S \in [Tablets -> PartitionRange] /\ S[nextTablet] = c[1] /\ S[nextTablet + 1] = c[2]
        /\ \A u \in Tablets : u # nextTablet /\ u # nextTablet + 1 => S[u] = R[u]
    BY <1>2, <1>6, <1>8, <2>1, TwoEntries, Zenon
  <2> HIDE DEF S
  <2>3. \A u \in Tablets : u < nextTablet => u # nextTablet /\ u # nextTablet + 1 BY <1>3
  <2> QED BY <2>2, <2>3, Zenon
<1> HIDE DEF S
<1>10. /\ plan.kind = "split" /\ plan.parent = t /\ plan.left = nextTablet
       /\ plan.right = nextTablet + 1 /\ plan.key = k
  BY Zenon
<1> HIDE DEF plan
<1>11. Derived(plan, S)
  <2>1. S[t] = R[t] BY <1>4, <1>9, Zenon
  <2>2. ASSUME NEW e \in SplitChildRanges(S[plan.parent], plan.key)
        PROVE  S[plan.left] = e[1] /\ S[plan.right] = e[2]
    <3>1. S[plan.parent] = R[t] /\ plan.key = k BY <1>10, <2>1, Zenon
    <3>2. e = c BY <1>7, <3>1, Zenon
    <3> QED BY <1>9, <1>10, <3>2, Zenon
  <2>3. plan.kind = "split" BY <1>10, Zenon
  <2> QED BY <2>2, <2>3, Zenon DEF Derived
<1>12. Below(plan, nextTablet') BY <1>2, <1>3, <1>4, <1>10 DEF Below, Parents, Children
<1>13. nextTablet' \in Nat /\ nextTablet <= nextTablet' BY <1>2, <1>3
<1> QED BY <1>1, <1>2, <1>9, <1>11, <1>12, <1>13, FreshStep, Zenon

LEMMA CreateMergeMeaning ==
    ASSUME IInv, MInv, NEW l \in Tablets, NEW r \in Tablets, CreateMerge(l, r)
    PROVE  MInv'
<1> DEFINE plan == [id |-> planCount + 1, kind |-> "merge", left |-> l, right |-> r,
                    merged |-> nextTablet, phase |-> "Live"]
<1>1. PICK R : RangesAre(R) BY Zenon DEF MInv
<1>2. /\ plans' = plans \cup {plan} /\ nextTablet' = nextTablet + 1
      /\ l < nextTablet /\ r < nextTablet /\ nextTablet \in Tablets
      /\ UNCHANGED <<view, dir, work, push, pass, meaning>>
  BY Zenon DEF CreateMerge, FreshTabletIds
<1>3. nextTablet \in Nat /\ Tablets \subseteq Nat BY TopologyAssumption, Zenon DEF IInv, TypeOK
<1>4. R \in [Tablets -> PartitionRange] BY <1>1, Zenon DEF RangesAre
<1> DEFINE m == Ordered(R[l].points \cup R[r].points)
           S == [R EXCEPT ![nextTablet] = m]
<1>5. m \in PartitionRange
  <2>1. R[l].points \subseteq Points /\ R[r].points \subseteq Points
    BY <1>4, Zenon DEF PartitionRange
  <2> QED BY <2>1, TopologyAssumption, Zenon DEF PartitionRange, Ordered
<1>6. \A e \in MergeParentRanges(R[l], R[r]) : e = m BY Zenon DEF MergeParentRanges
<1> HIDE DEF m
<1>7. /\ S \in [Tablets -> PartitionRange] /\ S[nextTablet] = m
      /\ \A u \in Tablets : u < nextTablet => S[u] = R[u]
  BY <1>2, <1>3, <1>4, <1>5
<1> HIDE DEF S
<1>8. plan.kind = "merge" /\ plan.left = l /\ plan.right = r /\ plan.merged = nextTablet
  BY Zenon
<1> HIDE DEF plan
<1>9. Derived(plan, S)
  <2>1. S[l] = R[l] /\ S[r] = R[r] BY <1>2, <1>7, Zenon
  <2> QED BY <1>6, <1>7, <1>8, <2>1, Zenon DEF Derived
<1>10. Below(plan, nextTablet') BY <1>2, <1>3, <1>8 DEF Below, Parents, Children
<1>11. nextTablet' \in Nat /\ nextTablet <= nextTablet' BY <1>2, <1>3
<1> QED BY <1>1, <1>2, <1>7, <1>9, <1>10, <1>11, FreshStep, Zenon

\* What CopyStep asks of a step.
Copied ==
    /\ nextTablet' = nextTablet
    /\ \A p \in Copies' : p \in Copies \/ \E q \in Copies, phase \in Phase : p = [q EXCEPT !.phase = phase]
    /\ \A d \in Snaps' : d \in Snaps \/ \E s \in Snaps, p \in Copies : d \in Apply(s, p)
    /\ meaning' = meaning \/ \E n \in Nodes : \E s \in Snaps : Serve(n, s)

LEMMA PlanStepCopies ==
    ASSUME IInv, NEW p \in plans,
           \/ BecomeReady(p) \/ Complete(p) \/ Prune(p)
           \/ \E d \in Nodes : CommitCutover(d, p)
    PROVE  Copied
<1>1. \/ plans' \subseteq plans
      \/ \E phase \in Phase : plans' = (plans \ {p}) \cup {[p EXCEPT !.phase = phase]}
  BY Zenon DEF BecomeReady, Complete, Prune, CommitCutover, SetPhase, Phase
<1>2. \A n \in Nodes : pass'[n].plan \subseteq pass[n].plan
  BY IdleOK, Zenon DEF BecomeReady, Complete, Prune, CommitCutover, IInv, TypeOK
<1>3. UNCHANGED <<nextTablet, view, dir, work, push, meaning>>
  BY Zenon DEF BecomeReady, Complete, Prune, CommitCutover
<1>4. \A q \in Copies' : q \in Copies \/ \E phase \in Phase : q = [p EXCEPT !.phase = phase]
  BY <1>1, <1>2, <1>3 DEF Copies
<1>5. p \in Copies BY Zenon DEF Copies
<1>6. Snaps' = Snaps BY <1>3, Zenon DEF Snaps
<1> QED BY Zenon, <1>3, <1>4, <1>5, <1>6 DEF Copied

\* What a node holds.
HeldPlans(n) == view[n] \cup work[n].todo \cup work[n].pending \cup work[n].plan \cup pass[n].plan
HeldSnaps(n) == {dir[n], work[n].snap, push[n].snap}

\* A node's copies are among the copies.
LEMMA Held ==
    ASSUME NEW n \in Nodes
    PROVE  /\ plans \subseteq Copies /\ view[n] \subseteq Copies /\ work[n].todo \subseteq Copies
           /\ work[n].pending \subseteq Copies /\ work[n].plan \subseteq Copies /\ pass[n].plan \subseteq Copies
           /\ Genesis \in Snaps /\ dir[n] \in Snaps /\ work[n].snap \in Snaps /\ push[n].snap \in Snaps
<1>1. plans \subseteq Copies /\ HeldPlans(n) \subseteq Copies BY Zenon DEF Copies, HeldPlans
<1>2. Genesis \in Snaps /\ HeldSnaps(n) \subseteq Snaps BY Zenon DEF Snaps, HeldSnaps
<1> QED BY <1>1, <1>2, Zenon DEF HeldPlans, HeldSnaps

\* A step of node n; the other nodes' publications may lose or keep their plan.
LEMMA NodeCopies ==
    ASSUME IInv, NEW n \in Nodes, UNCHANGED controlVars,
           \A m \in Nodes \ {n} : /\ view'[m] = view[m] /\ dir'[m] = dir[m] /\ work'[m] = work[m]
                                  /\ push'[m] = push[m] /\ pass'[m].plan = pass[m].plan,
           HeldPlans(n)' \subseteq Copies,
           \A d \in HeldSnaps(n)' : d \in Snaps \/ \E s \in Snaps, p \in Copies : d \in Apply(s, p),
           meaning' = meaning \/ \E s \in Snaps : Serve(n, s)
    PROVE  Copied
<1>1. nextTablet' = nextTablet /\ plans' = plans BY Zenon DEF controlVars
<1>2. \A m \in Nodes : HeldPlans(m)' \subseteq Copies
  <2> SUFFICES ASSUME NEW m \in Nodes, m # n PROVE HeldPlans(m)' \subseteq Copies BY Zenon
  <2>1. HeldPlans(m)' = HeldPlans(m) BY Zenon DEF HeldPlans
  <2>2. HeldPlans(m) \subseteq Copies BY Held, Zenon DEF HeldPlans
  <2> QED BY <2>1, <2>2, Zenon
<1>3. \A p \in Copies' : p \in plans' \/ \E m \in Nodes : p \in HeldPlans(m)'
  <2> SUFFICES ASSUME NEW p \in Copies', p \notin plans' PROVE \E m \in Nodes : p \in HeldPlans(m)'
    BY Zenon
  <2>1. PICK m \in Nodes : p \in (view[m] \cup work[m].todo \cup work[m].pending \cup work[m].plan
                                  \cup pass[m].plan)'
    BY Zenon DEF Copies
  <2>2. p \in HeldPlans(m)' BY <2>1, Zenon DEF HeldPlans
  <2> QED BY <2>2, Zenon
<1>4. plans \subseteq Copies BY Zenon DEF Copies
<1>5. \A p \in Copies' : p \in Copies BY <1>1, <1>2, <1>3, <1>4, Zenon
<1>6. \A m \in Nodes : \A d \in HeldSnaps(m)' : d \in Snaps \/ \E s \in Snaps, p \in Copies : d \in Apply(s, p)
  <2> SUFFICES ASSUME NEW m \in Nodes, m # n PROVE HeldSnaps(m)' \subseteq Snaps BY Zenon
  <2>1. HeldSnaps(m)' = HeldSnaps(m) BY Zenon DEF HeldSnaps
  <2>2. HeldSnaps(m) \subseteq Snaps BY Zenon DEF HeldSnaps, Snaps
  <2> QED BY <2>1, <2>2, Zenon
<1>7. \A d \in Snaps' : d = Genesis \/ \E m \in Nodes : d \in HeldSnaps(m)'
  BY Zenon DEF Snaps, HeldSnaps
<1>8. Genesis \in Snaps BY Zenon DEF Snaps
<1>9. \A d \in Snaps' : d \in Snaps \/ \E s \in Snaps, p \in Copies : d \in Apply(s, p)
  BY Zenon, <1>6, <1>7, <1>8
<1> QED BY Zenon, <1>1, <1>5, <1>9 DEF Copied

LEMMA IdleHolds ==
    /\ Idle.snap = Genesis /\ Idle.todo = {} /\ Idle.pending = {} /\ Idle.plan = {}
    /\ NoPush.snap = Genesis /\ NoPass.plan = {}
  BY Zenon DEF Idle, NoPush, NoPass

\* The reconciler of n goes on to w.
LEMMA WorkCopies ==
    ASSUME IInv, NEW n \in Nodes, NEW w, work' = [work EXCEPT ![n] = w],
           w.todo \subseteq Copies, w.pending \subseteq Copies, w.plan \subseteq Copies,
           w.snap \in Snaps \/ \E s \in Snaps, p \in Copies : w.snap \in Apply(s, p),
           UNCHANGED <<controlVars, view, dir, up, crashes, push, pass, meaning>>
    PROVE  Copied
<1>1. work \in [Nodes -> WorkState] BY Zenon DEF IInv, TypeOK
<1>2. work'[n] = w /\ \A m \in Nodes \ {n} : work'[m] = work[m] BY <1>1, Zenon
<1>3. HeldPlans(n)' \subseteq Copies BY <1>2, Held, Zenon DEF HeldPlans
<1>4. HeldSnaps(n)' = {dir[n], w.snap, push[n].snap} BY <1>2, Zenon DEF HeldSnaps
<1>5. \A d \in HeldSnaps(n)' : d \in Snaps \/ \E s \in Snaps, p \in Copies : d \in Apply(s, p)
  BY Zenon, <1>4, Held
<1> QED BY Zenon, <1>2, <1>3, <1>5, NodeCopies

LEMMA LoadCopies ==
    ASSUME IInv, NEW n \in Nodes,
           Sync(n) \/ ReplayLoad(n) \/ \E p \in view[n] : PublishLoad(n, p)
    PROVE  Copied
<1>1. CASE Sync(n)
  <2>1. view' = [view EXCEPT ![n] = plans]
        /\ UNCHANGED <<controlVars, dir, up, crashes, work, push, pass, meaning>>
    BY <1>1, Zenon DEF Sync
  <2>2. view'[n] = plans /\ \A m \in Nodes \ {n} : view'[m] = view[m]
    BY <2>1, Zenon DEF IInv, TypeOK
  <2>3. HeldPlans(n)' \subseteq Copies BY <2>1, <2>2, Held, Zenon DEF HeldPlans
  <2>4. HeldSnaps(n)' \subseteq Snaps BY <2>1, Held, Zenon DEF HeldSnaps
  <2> QED BY Zenon, <2>1, <2>2, <2>3, <2>4, NodeCopies
<1>2. CASE ReplayLoad(n)
  <2> DEFINE w == [Idle EXCEPT !.busy = TRUE, !.snap = dir[n], !.todo = Committed(view[n])]
  <2>1. w.snap = dir[n] /\ w.todo = Committed(view[n]) /\ w.pending = {} /\ w.plan = {}
    BY Zenon DEF Idle
  <2>2. work' = [work EXCEPT ![n] = w]
        /\ UNCHANGED <<controlVars, view, dir, up, crashes, push, pass, meaning>>
    BY Zenon, <1>2 DEF ReplayLoad
  <2> HIDE DEF w
  <2>3. w.todo \subseteq Copies /\ w.snap \in Snaps BY <2>1, Held, Zenon DEF Committed
  <2>4. w.pending \subseteq Copies /\ w.plan \subseteq Copies BY <2>1, Zenon
  <2> QED BY Zenon, <2>2, <2>3, <2>4, WorkCopies
<1>3. ASSUME NEW p \in view[n], PublishLoad(n, p) PROVE Copied
  <2> DEFINE w == [Idle EXCEPT !.busy = TRUE, !.snap = dir[n], !.todo = {p}, !.plan = {p}]
  <2>1. w.snap = dir[n] /\ w.todo = {p} /\ w.pending = {} /\ w.plan = {p} BY Zenon DEF Idle
  <2>2. work' = [work EXCEPT ![n] = w]
        /\ UNCHANGED <<controlVars, view, dir, up, crashes, push, pass, meaning>>
    BY Zenon, <1>3 DEF PublishLoad
  <2> HIDE DEF w
  <2>3. w.todo \subseteq Copies /\ w.plan \subseteq Copies /\ w.snap \in Snaps
    BY <2>1, Held, Zenon
  <2>4. w.pending \subseteq Copies BY <2>1, Zenon
  <2> QED BY Zenon, <2>2, <2>3, <2>4, WorkCopies
<1> QED BY Zenon, <1>1, <1>2, <1>3

LEMMA WorkStepCopies ==
    ASSUME IInv, NEW n \in Nodes, NEW p \in work[n].todo, WorkStep(n, p) PROVE Copied
<1>1. work[n] \in WorkState /\ work \in [Nodes -> WorkState] /\ p \in Copies
  BY Held, Zenon DEF IInv, TypeOK
<1>2. UNCHANGED <<controlVars, view, dir, up, crashes, push, pass, meaning>>
  BY Zenon DEF WorkStep
<1>3. ASSUME NEW next \in Apply(work[n].snap, p),
             work' = [work EXCEPT ![n].snap = next, ![n].changed = @ \/ next # work[n].snap,
                                  ![n].progress = TRUE, ![n].todo = @ \ {p}]
      PROVE  Copied
  <2> DEFINE w == [work[n] EXCEPT !.snap = next, !.changed = @ \/ next # work[n].snap,
                                  !.progress = TRUE, !.todo = @ \ {p}]
  <2>1. work' = [work EXCEPT ![n] = w] BY Zenon, <1>1, <1>3
  <2>2. w.snap = next /\ w.todo = work[n].todo \ {p} /\ w.pending = work[n].pending
        /\ w.plan = work[n].plan
    BY Zenon, <1>1 DEF WorkState
  <2> HIDE DEF w
  <2>3. w.todo \subseteq Copies /\ w.pending \subseteq Copies /\ w.plan \subseteq Copies
    BY <2>2, Held, Zenon
  <2>4. \E s \in Snaps, q \in Copies : w.snap \in Apply(s, q) BY Zenon, <1>1, <1>3, <2>2, Held
  <2> QED BY Zenon, <1>2, <2>1, <2>3, <2>4, WorkCopies
<1>4. ASSUME work' = [work EXCEPT ![n].todo = @ \ {p}, ![n].pending = @ \cup {p}]
      PROVE  Copied
  <2> DEFINE w == [work[n] EXCEPT !.todo = @ \ {p}, !.pending = @ \cup {p}]
  <2>1. work' = [work EXCEPT ![n] = w] BY Zenon, <1>1, <1>4
  <2>2. w.snap = work[n].snap /\ w.todo = work[n].todo \ {p} /\ w.pending = work[n].pending \cup {p}
        /\ w.plan = work[n].plan
    BY Zenon, <1>1 DEF WorkState
  <2> HIDE DEF w
  <2>3. w.todo \subseteq Copies /\ w.pending \subseteq Copies /\ w.plan \subseteq Copies /\ w.snap \in Snaps
    BY <1>1, <2>2, Held, Zenon
  <2> QED BY Zenon, <1>2, <2>1, <2>3, WorkCopies
<1> QED BY Zenon, <1>3, <1>4 DEF WorkStep

LEMMA WorkRoundCopies == ASSUME IInv, NEW n \in Nodes, WorkRound(n) PROVE Copied
<1>1. work[n] \in WorkState /\ work \in [Nodes -> WorkState] BY Zenon DEF IInv, TypeOK
<1> DEFINE w == [work[n] EXCEPT !.todo = work[n].pending, !.pending = {}, !.progress = FALSE]
<1>2. work' = [work EXCEPT ![n] = w]
      /\ UNCHANGED <<controlVars, view, dir, up, crashes, push, pass, meaning>>
  BY Zenon, <1>1 DEF WorkRound
<1>3. w.snap = work[n].snap /\ w.todo = work[n].pending /\ w.pending = {} /\ w.plan = work[n].plan
  BY Zenon, <1>1 DEF WorkState
<1> HIDE DEF w
<1>4. w.todo \subseteq Copies /\ w.pending \subseteq Copies /\ w.plan \subseteq Copies /\ w.snap \in Snaps
  BY <1>3, Held, Zenon
<1> QED BY Zenon, <1>2, <1>4, WorkCopies

LEMMA WorkStoreCopies == ASSUME IInv, NEW n \in Nodes, WorkStore(n) PROVE Copied
<1>1. work \in [Nodes -> WorkState] /\ pass \in [Nodes -> PassState] /\ dir \in [Nodes -> Snapshot]
  BY Zenon DEF IInv, TypeOK
<1>2. /\ Serve(n, work[n].snap) \/ UNCHANGED <<dir, meaning>>
      /\ pass' = pass \/ pass' = [pass EXCEPT ![n] = [plan |-> work[n].plan, nodes |-> {n}]]
      /\ work' = [work EXCEPT ![n] = Idle]
      /\ UNCHANGED <<controlVars, view, up, crashes, push>>
  BY Zenon DEF WorkStore
<1>3. \A m \in Nodes \ {n} : dir'[m] = dir[m] BY <1>1, <1>2, Zenon DEF Serve
<1>4. dir'[n] \in Snaps BY <1>1, <1>2, Held, Zenon DEF Serve
<1>5. pass'[n].plan \subseteq Copies /\ \A m \in Nodes \ {n} : pass'[m].plan = pass[m].plan
  <2> DEFINE q == [plan |-> work[n].plan, nodes |-> {n}]
  <2>1. q.plan \subseteq Copies /\ pass[n].plan \subseteq Copies BY Held, Zenon
  <2>2. pass' = pass \/ pass' = [pass EXCEPT ![n] = q] BY <1>2, Zenon
  <2> HIDE DEF q
  <2> QED BY <1>1, <2>1, <2>2, Zenon
<1>6. work'[n] = Idle /\ \A m \in Nodes \ {n} : work'[m] = work[m] BY <1>1, <1>2, Zenon
<1>7. HeldPlans(n)' \subseteq Copies BY <1>2, <1>5, <1>6, IdleHolds, Held, Zenon DEF HeldPlans
<1>8. HeldSnaps(n)' \subseteq Snaps BY <1>2, <1>4, <1>6, IdleHolds, Held, Zenon DEF HeldSnaps
<1>9. meaning' = meaning \/ \E s \in Snaps : Serve(n, s) BY Zenon, <1>2, Held
<1> QED BY Zenon, <1>2, <1>3, <1>5, <1>6, <1>7, <1>8, <1>9, NodeCopies

LEMMA PushLoadCopies == ASSUME IInv, NEW n \in Nodes, NEW d \in Nodes, PushLoad(n, d) PROVE Copied
<1>1. PICK p \in pass[d].plan : \E next \in Apply(dir[n], p) :
        push' = [push EXCEPT ![n] = [busy |-> TRUE, snap |-> next, plan |-> {p}, driver |-> {d}]]
  BY Zenon DEF PushLoad
<1>2. PICK next \in Apply(dir[n], p) :
        push' = [push EXCEPT ![n] = [busy |-> TRUE, snap |-> next, plan |-> {p}, driver |-> {d}]]
  BY Zenon, <1>1
<1>3. push'[n].snap = next /\ \A m \in Nodes \ {n} : push'[m] = push[m]
  BY <1>2, Zenon DEF IInv, TypeOK
<1>4. UNCHANGED <<controlVars, view, dir, up, crashes, work, pass, meaning>>
  BY Zenon DEF PushLoad
<1>5. p \in Copies BY Held, Zenon
<1>6. HeldPlans(n)' \subseteq Copies BY <1>4, Held, Zenon DEF HeldPlans
<1>7. HeldSnaps(n)' = {dir[n], work[n].snap, next} BY <1>3, <1>4, Zenon DEF HeldSnaps
<1>8. \A s \in HeldSnaps(n)' : s \in Snaps \/ \E f \in Snaps, q \in Copies : s \in Apply(f, q)
  BY Zenon, <1>5, <1>7, Held
<1> QED BY Zenon, <1>3, <1>4, <1>6, <1>8, NodeCopies

LEMMA PushStoreCopies == ASSUME IInv, NEW n \in Nodes, PushStore(n) PROVE Copied
<1>1. /\ Serve(n, push[n].snap) /\ push' = [push EXCEPT ![n] = NoPush]
      /\ UNCHANGED <<controlVars, view, up, crashes, work>>
      /\ pass' = [d \in Nodes |-> IF d \in push[n].driver /\ pass[d].plan = push[n].plan
                                  THEN [pass[d] EXCEPT !.nodes = @ \cup {n}] ELSE pass[d]]
  BY Zenon DEF PushStore
<1>2. dir'[n] = push[n].snap /\ \A m \in Nodes \ {n} : dir'[m] = dir[m]
  BY <1>1, Zenon DEF Serve, IInv, TypeOK
<1>3. push'[n] = NoPush /\ \A m \in Nodes \ {n} : push'[m] = push[m]
  BY <1>1, Zenon DEF IInv, TypeOK
<1>4. \A d \in Nodes : [pass[d] EXCEPT !.nodes = @ \cup {n}].plan = pass[d].plan
  BY DEF IInv, TypeOK, PassState
<1>5. \A d \in Nodes : pass'[d].plan = pass[d].plan BY <1>1, <1>4, Zenon
<1>6. HeldPlans(n)' \subseteq Copies BY <1>1, <1>5, Held, Zenon DEF HeldPlans
<1>7. HeldSnaps(n)' \subseteq Snaps BY <1>1, <1>2, <1>3, IdleHolds, Held, Zenon DEF HeldSnaps
<1> QED BY Zenon, <1>1, <1>2, <1>3, <1>5, <1>6, <1>7, Held, NodeCopies

LEMMA PassCopies ==
    ASSUME IInv, NEW d \in Nodes, GiveUp(d) \/ \E n \in Nodes : Skip(n, d)
    PROVE  Copied
<1>1. pass \in [Nodes -> PassState] /\ pass[d] \in PassState BY Zenon DEF IInv, TypeOK
<1>2. \A n \in Nodes : [pass[d] EXCEPT !.nodes = @ \cup {n}].plan = pass[d].plan
  BY <1>1, Zenon DEF PassState
<1>3. \/ pass' = [pass EXCEPT ![d] = NoPass]
      \/ \E n \in Nodes : pass' = [pass EXCEPT ![d] = [pass[d] EXCEPT !.nodes = @ \cup {n}]]
  BY <1>1, Zenon DEF GiveUp, Skip
<1>4. /\ pass'[d].plan \subseteq pass[d].plan
      /\ \A m \in Nodes \ {d} : pass'[m] = pass[m]
  BY <1>1, <1>2, <1>3, IdleHolds, Zenon
<1>5. UNCHANGED <<controlVars, view, dir, up, crashes, work, push, meaning>>
  BY Zenon DEF GiveUp, Skip
<1>6. HeldPlans(d)' \subseteq Copies BY <1>4, <1>5, Held, Zenon DEF HeldPlans
<1>7. HeldSnaps(d)' \subseteq Snaps BY <1>5, Held, Zenon DEF HeldSnaps
<1> QED BY Zenon, <1>4, <1>5, <1>6, <1>7, NodeCopies

LEMMA CrashCopies == ASSUME IInv, NEW n \in Nodes, Crash(n) PROVE Copied
<1>1. /\ work' = [work EXCEPT ![n] = Idle] /\ push' = [push EXCEPT ![n] = NoPush]
      /\ pass' = [pass EXCEPT ![n] = NoPass] /\ UNCHANGED <<controlVars, view, dir, meaning>>
  BY Zenon DEF Crash
<1>2. /\ work'[n] = Idle /\ push'[n] = NoPush /\ pass'[n] = NoPass
      /\ \A m \in Nodes \ {n} : work'[m] = work[m] /\ push'[m] = push[m] /\ pass'[m] = pass[m]
  BY <1>1, Zenon DEF IInv, TypeOK
<1>3. HeldPlans(n)' \subseteq Copies BY <1>1, <1>2, IdleHolds, Held, Zenon DEF HeldPlans
<1>4. HeldSnaps(n)' \subseteq Snaps BY <1>1, <1>2, IdleHolds, Held, Zenon DEF HeldSnaps
<1> QED BY Zenon, <1>1, <1>2, <1>3, <1>4, NodeCopies

LEMMA RestartCopies == ASSUME IInv, NEW n \in Nodes, Restart(n) PROVE Copied
<1>1. PICK image \in {view[n], {}} :
        /\ view' = [view EXCEPT ![n] = image]
        /\ work' = [work EXCEPT ![n] = [Idle EXCEPT !.busy = TRUE, !.todo = Committed(image)]]
  BY Zenon DEF Restart
<1>2. Serve(n, Genesis) /\ UNCHANGED <<controlVars, push, pass>> BY Zenon DEF Restart
<1> DEFINE w == [Idle EXCEPT !.busy = TRUE, !.todo = Committed(image)]
<1>3. w.snap = Genesis /\ w.todo = Committed(image) /\ w.pending = {} /\ w.plan = {}
  BY Zenon DEF Idle
<1>4. work' = [work EXCEPT ![n] = w] BY <1>1, Zenon
<1> HIDE DEF w
<1>5. /\ work'[n] = w /\ view'[n] = image /\ dir'[n] = Genesis
      /\ \A m \in Nodes \ {n} : work'[m] = work[m] /\ view'[m] = view[m] /\ dir'[m] = dir[m]
  BY <1>1, <1>2, <1>4, Zenon DEF Serve, IInv, TypeOK
<1>6. image \subseteq Copies /\ Committed(image) \subseteq Copies BY Held, Zenon DEF Committed
<1>7. HeldPlans(n)' \subseteq Copies BY <1>2, <1>3, <1>5, <1>6, Held, Zenon DEF HeldPlans
<1>8. HeldSnaps(n)' \subseteq Snaps BY <1>2, <1>3, <1>5, Held DEF HeldSnaps
<1> QED BY Zenon, <1>2, <1>5, <1>7, <1>8, Held, NodeCopies

LEMMA InitMeaning == Init => MInv
<1> SUFFICES ASSUME Init PROVE MInv BY Zenon
<1> DEFINE R == [t \in Tablets |-> Ordered(GenesisTile(t))]
<1>1. R \in [Tablets -> PartitionRange]
  BY TopologyAssumption, Zenon DEF Ordered, GenesisTile, PartitionRange
<1>2. Copies = {} BY IdleHolds, Zenon DEF Init, Copies
<1>3. Snaps \subseteq {Genesis} BY IdleHolds, Zenon DEF Init, Snaps
<1>5. \A t \in GenesisTiles : t \in Tablets /\ t < nextTablet
  <2>1. nextTablet = Cardinality(GenesisKeys) + 1 + 1 /\ Cardinality(GenesisKeys) \in Nat
    BY GenesisCount, Zenon DEF Init
  <2>2. \A t \in GenesisTiles : t \in Nat /\ t <= Cardinality(GenesisKeys) + 1
    BY <2>1 DEF GenesisTiles
  <2>3. GenesisTiles \subseteq Tablets BY GenesisAssumption, Zenon
  <2> QED BY <2>1, <2>2, <2>3
<1>6. \A t \in Known(Genesis) : t \in GenesisTiles BY Zenon DEF Known, Genesis
<1>7. \A t \in GenesisTiles : Genesis.range[t] = R[t] BY <1>5, Zenon DEF Genesis
<1>8. \A t \in Tablets : meaning[t] \subseteq {R[t]} /\ (meaning[t] # {} => t < nextTablet)
  BY <1>5, <1>7, Zenon DEF Init
<1> HIDE DEF R
<1>9. Agrees(Genesis, R, nextTablet) BY <1>5, <1>6, <1>7, Zenon DEF Agrees
<1>10. RangesAre(R) BY <1>1, <1>2, <1>3, <1>8, <1>9, Zenon DEF RangesAre
<1> QED BY <1>10, Zenon DEF MInv

LEMMA NextMeaning == IInv /\ MInv /\ [Next]_topologyVars => MInv'
<1> SUFFICES ASSUME IInv, MInv, [Next]_topologyVars PROVE MInv' BY Zenon
<1>0. ASSUME Copied PROVE MInv' BY <1>0, CopyStep, Zenon DEF Copied, MInv
<1>1. ASSUME NEW n \in Nodes, NEW t \in Tablets, NEW k \in Points, CreateSplit(n, t, k) PROVE MInv'
  BY <1>1, CreateSplitMeaning, Zenon
<1>2. ASSUME NEW l \in Tablets, NEW r \in Tablets, CreateMerge(l, r) PROVE MInv'
  BY <1>2, CreateMergeMeaning, Zenon
<1>3. ASSUME NEW p \in plans, BecomeReady(p) \/ Complete(p) \/ Prune(p) PROVE MInv'
  BY <1>0, <1>3, PlanStepCopies, Zenon
<1>4. ASSUME NEW d \in Nodes, NEW p \in plans, CommitCutover(d, p) PROVE MInv'
  BY <1>0, <1>4, PlanStepCopies, Zenon
<1>5. ASSUME NEW n \in Nodes,
             Sync(n) \/ ReplayLoad(n) \/ WorkRound(n) \/ WorkStore(n) \/ PushStore(n)
      PROVE  MInv'
  BY <1>0, <1>5, LoadCopies, WorkRoundCopies, WorkStoreCopies, PushStoreCopies, Zenon
<1>6. ASSUME NEW n \in Nodes, NEW p \in view[n], PublishLoad(n, p) PROVE MInv'
  BY <1>0, <1>6, LoadCopies, Zenon
<1>7. ASSUME NEW n \in Nodes, NEW p \in work[n].todo, WorkStep(n, p) PROVE MInv'
  BY <1>0, <1>7, WorkStepCopies, Zenon
<1>8. ASSUME NEW n \in Nodes, NEW d \in Nodes, PushLoad(n, d) \/ Skip(n, d) PROVE MInv'
  BY <1>0, <1>8, PushLoadCopies, PassCopies, Zenon
<1>9. ASSUME NEW d \in Nodes, GiveUp(d) PROVE MInv'
  BY <1>0, <1>9, PassCopies, Zenon
<1>10. ASSUME NEW n \in Nodes, Crash(n) \/ Restart(n) PROVE MInv'
  BY <1>0, <1>10, CrashCopies, RestartCopies, Zenon
<1>11. ASSUME UNCHANGED topologyVars PROVE MInv'
  <2>1. Copies' = Copies /\ Snaps' = Snaps /\ UNCHANGED <<nextTablet, meaning>>
    BY <1>11 DEF Copies, Snaps, topologyVars
  <2> QED BY <1>0, <2>1, Zenon DEF Copied
<1> QED BY <1>1, <1>2, <1>3, <1>4, <1>5, <1>6, <1>7, <1>8, <1>9, <1>10, <1>11, Zenon DEF Next

\* A tablet id means one range: no two snapshots that any nodes ever served, before
\* or after a restart, in whatever order cutovers were replayed or pushed,
\* disagree on what a tablet holds.
THEOREM OneMeaningHolds == Spec => []SameTabletSameRange
<1>1. MInv => SameTabletSameRange
  <2> SUFFICES ASSUME MInv, NEW t \in Tablets PROVE Cardinality(meaning[t]) <= 1
    BY Zenon DEF SameTabletSameRange
  <2>1. PICK R : RangesAre(R) BY Zenon DEF MInv
  <2>2. meaning[t] = {} \/ meaning[t] = {R[t]} BY <2>1, Zenon DEF RangesAre
  <2>3. Cardinality({}) = 0 /\ Cardinality({R[t]}) = 1 BY Zenon, SmallSets
  <2> QED BY <2>2, <2>3
<1>2. Init => IInv /\ MInv BY InitInv, InitMeaning, Zenon
<1>3. (IInv /\ MInv) /\ [Next]_topologyVars => (IInv /\ MInv)' BY NextInv, NextMeaning, Zenon
<1> QED BY <1>1, <1>2, <1>3, PTL DEF Spec
=============================================================================
