-------------------------- MODULE DirectoryProofs --------------------------
(***************************************************************************)
(* Proofs about Directory for every set of tablets, points and kinds and   *)
(* every MaxVersion.                                                       *)
(***************************************************************************)
EXTENDS Directory, FiniteSetTheorems, WellFoundedInduction, TLAPS

\* The inductive invariant: the snapshot is one that validate accepts, a tablet
\* outside the vector has no redirect, no retirement is dated in the future,
\* and redirects point forward.
IInv ==
    /\ TypeOK
    /\ Valid(dir)
    /\ \A t \in Tablets : dir.state[t] = "Absent" => dir.redirect[t] = {}
    /\ \A t \in Tablets : retiredAt[t] <= dir.version
    /\ RedirectsForward

\* advance either fails or returns the given contents at the next version,
\* accepted by validate.
LEMMA AdvanceResult ==
    ASSUME NEW d, NEW st, NEW rg, NEW rd, NEW e \in Advance(d, st, rg, rd)
    PROVE  /\ e = [version |-> d.version + 1, state |-> st, range |-> rg, redirect |-> rd]
           /\ e.version = d.version + 1
           /\ e.state = st
           /\ e.range = rg
           /\ e.redirect = rd
           /\ Valid(e)
  BY DEF Advance

\* The initial snapshot, whatever bootstrap is given, satisfies the invariant.
LEMMA InitInv == Init => IInv
<1> SUFFICES ASSUME Init PROVE IInv
  OBVIOUS
<1>1. PICK t \in Tablets, r \in PartitionRange, epoch \in 0..1, guard \in 0..1 :
        dir \in Bootstrap(t, r, epoch, guard)
  BY DEF Init
<1>2. /\ dir = [version  |-> 1,
                state    |-> [u \in Tablets |-> IF u = t THEN "Allocated" ELSE "Absent"],
                range    |-> [u \in Tablets |-> IF u = t THEN r ELSE NoRange],
                redirect |-> [u \in Tablets |-> {}]]
      /\ Valid(dir)
  BY <1>1 DEF Bootstrap
<1>3. TypeOK
  BY <1>2 DEF TypeOK, Init, Snapshot, TabletState
<1>4. RedirectsForward
  BY <1>2 DEF RedirectsForward
<1> QED
  BY <1>2, <1>3, <1>4 DEF IInv, Init

\* What every operation does to the snapshot, as far as the invariant is
\* concerned: the version grows, the result is valid and well typed, every tablet
\* stays or moves along the lifecycle, ranges and the redirects of tombstones
\* stay, and a tablet retired by the step names only tablets that are active in
\* the result.
Forward(d, e) ==
    /\ e \in Snapshot
    /\ e.version = d.version + 1
    /\ Valid(e)
    /\ \A t \in Tablets :
          /\ \/ e.state[t] = d.state[t]
             \/ <<d.state[t], e.state[t]>> \in LifecycleEdges
          /\ d.state[t] # "Absent" => e.range[t] = d.range[t]
          /\ d.state[t] = "Tombstone" => e.redirect[t] = d.redirect[t]
          /\ e.state[t] = "Tombstone" /\ d.state[t] # "Tombstone" =>
                \A u \in e.redirect[t] : e.state[u] = "Active"
          /\ e.state[t] = "Absent" => e.redirect[t] = {}

\* A step that goes forward preserves the invariant.
LEMMA ForwardPreserves ==
    ASSUME IInv, Forward(dir, dir'), Record
    PROVE  IInv'
<1>1. TypeOK'
  <2>1. dir' \in Snapshot
    BY DEF Forward
  <2>2. retiredAt' \in [Tablets -> Nat]
    BY DEF Record, IInv, TypeOK, Forward, Snapshot
  <2> QED
    BY <2>1, <2>2 DEF TypeOK
<1>2. \A t \in Tablets : retiredAt'[t] <= dir'.version
  BY DEF Record, IInv, TypeOK, Forward, Snapshot
<1>3. RedirectsForward'
  <2> SUFFICES ASSUME NEW t \in Tablets, dir'.state[t] = "Tombstone",
                      NEW u \in dir'.redirect[t]
               PROVE  \/ dir'.state[u] \in {"Active", "Fenced"}
                      \/ dir'.state[u] = "Tombstone" /\ retiredAt'[t] < retiredAt'[u]
    BY DEF RedirectsForward
  <2>0. u \in Tablets
    BY <1>1 DEF TypeOK, Snapshot
  <2>1. CASE dir.state[t] # "Tombstone"
    BY <2>1, Zenon DEF Forward
  <2>2. CASE dir.state[t] = "Tombstone"
    <3>1. u \in dir.redirect[t] /\ retiredAt'[t] = retiredAt[t]
      BY <2>2 DEF Forward, Record, LifecycleEdges
    <3>2. CASE dir.state[u] = "Tombstone"
      <4>1. retiredAt'[u] = retiredAt[u] /\ dir'.state[u] = "Tombstone"
        BY <2>0, <3>2 DEF Forward, Record, LifecycleEdges
      <4> QED
        BY <2>2, <3>1, <3>2, <4>1 DEF IInv, RedirectsForward
    <3>3. CASE dir.state[u] \in {"Active", "Fenced"}
      <4>1. CASE dir'.state[u] = "Tombstone"
        <5>1. retiredAt'[u] = dir.version + 1
          BY <2>0, <3>3, <4>1 DEF Forward, Record, LifecycleEdges
        <5>2. retiredAt[t] <= dir.version /\ retiredAt[t] \in Nat /\ dir.version \in Nat
          BY DEF IInv, TypeOK, Snapshot
        <5> QED
          BY <3>1, <4>1, <5>1, <5>2
      <4> QED
        BY <2>0, <3>3, <4>1 DEF Forward, LifecycleEdges
    <3> QED
      BY <2>2, <3>1, <3>2, <3>3 DEF IInv, RedirectsForward
  <2> QED
    BY <2>1, <2>2
<1> QED
  BY <1>1, <1>2, <1>3, Zenon DEF IInv, Forward

\* replace goes forward, for each (allowed, to, redirect) the operations use.
LEMMA ReplaceForward ==
    ASSUME IInv, NEW t \in Tablets, NEW allowed, NEW to, NEW redirect,
           dir' \in Replace(dir, t, allowed, to, redirect),
           \/ allowed = {"Allocated"} /\ to = "Inactive" /\ redirect = {}
           \/ allowed = {"Inactive"} /\ to = "Active" /\ redirect = {}
           \/ allowed = {"Active"} /\ to = "Fenced" /\ redirect = {}
           \/ /\ allowed = {"Fenced", "Inactive"} /\ to = "Tombstone"
              /\ redirect \subseteq Active(dir)
    PROVE  Forward(dir, dir')
<1> DEFINE st == [dir.state EXCEPT ![t] = to]
           rd == [dir.redirect EXCEPT ![t] = redirect]
<1>1. /\ dir' = [version |-> dir.version + 1, state |-> st, range |-> dir.range,
                redirect |-> rd]
      /\ dir'.version = dir.version + 1
      /\ dir'.state = st /\ dir'.range = dir.range /\ dir'.redirect = rd
      /\ Valid(dir')
      /\ dir.state[t] \in allowed
  BY AdvanceResult DEF Replace
<1>2. dir \in Snapshot
  BY DEF IInv, TypeOK
<1>3. redirect \in SUBSET Tablets
  BY DEF Active
<1>4. dir' \in Snapshot
  <2> HIDE DEF st, rd
  <2>1. st \in [Tablets -> TabletState \cup {"Absent"}]
    BY <1>2 DEF st, Snapshot, TabletState
  <2>2. rd \in [Tablets -> SUBSET Tablets]
    BY <1>2, <1>3 DEF rd, Snapshot
  <2> QED
    BY <1>1, <1>2, <2>1, <2>2 DEF Snapshot
<1>5. ASSUME NEW u \in Tablets
      PROVE  /\ dir'.state[u] = IF u = t THEN to ELSE dir.state[u]
             /\ dir'.redirect[u] = IF u = t THEN redirect ELSE dir.redirect[u]
  BY <1>1, <1>2 DEF Snapshot
<1>6. ASSUME NEW u \in Tablets
      PROVE  /\ \/ dir'.state[u] = dir.state[u]
                \/ <<dir.state[u], dir'.state[u]>> \in LifecycleEdges
             /\ dir.state[u] = "Tombstone" => dir'.redirect[u] = dir.redirect[u]
             /\ dir'.state[u] = "Absent" => dir'.redirect[u] = {}
  BY <1>1, <1>5 DEF IInv, LifecycleEdges
<1>7. ASSUME NEW u \in Tablets, dir'.state[u] = "Tombstone", dir.state[u] # "Tombstone",
             NEW v \in dir'.redirect[u]
      PROVE  dir'.state[v] = "Active"
  <2>1. u = t /\ to = "Tombstone" /\ redirect \subseteq Active(dir)
    BY <1>5, <1>7
  <2>2. v \in Active(dir) /\ v # t
    BY <1>1, <1>5, <1>7, <2>1 DEF Active
  <2> QED
    BY <1>5, <2>2 DEF Active
<1> QED
  BY <1>1, <1>4, <1>6, <1>7 DEF Forward

\* allocate goes forward.
LEMMA AllocateForward ==
    ASSUME IInv, NEW t \in Tablets, NEW r \in PartitionRange, NEW epoch, NEW guard,
           dir' \in Allocate(dir, t, r, epoch, guard)
    PROVE  Forward(dir, dir')
<1>1. /\ dir' = [version |-> dir.version + 1,
                state |-> [dir.state EXCEPT ![t] = "Allocated"],
                range |-> [dir.range EXCEPT ![t] = r],
                redirect |-> [dir.redirect EXCEPT ![t] = {}]]
      /\ dir'.version = dir.version + 1
      /\ Valid(dir')
      /\ dir.state[t] = "Absent"
  BY AdvanceResult DEF Allocate, Known
<1>2. dir \in Snapshot
  BY DEF IInv, TypeOK
<1>3. dir' \in Snapshot
  BY <1>1, <1>2 DEF Snapshot, TabletState
<1> QED
  BY <1>1, <1>2, <1>3 DEF Forward, Snapshot, IInv, LifecycleEdges

\* cutover_split goes forward.
LEMMA CutoverSplitForward ==
    ASSUME IInv, NEW p \in Tablets, NEW l \in Tablets, NEW r \in Tablets,
           dir' \in CutoverSplit(dir, p, l, r)
    PROVE  Forward(dir, dir')
<1>1. /\ dir' = [version  |-> dir.version + 1,
                state    |-> [t \in Tablets |-> IF t = p THEN "Tombstone"
                                ELSE IF t \in {l, r} THEN "Active" ELSE dir.state[t]],
                range    |-> dir.range,
                redirect |-> [t \in Tablets |-> IF t = p THEN {l, r}
                                ELSE IF t \in {l, r} THEN {} ELSE dir.redirect[t]]]
      /\ dir'.version = dir.version + 1
      /\ Valid(dir')
      /\ dir.state[p] = "Fenced" /\ dir.state[l] = "Inactive" /\ dir.state[r] = "Inactive"
  BY AdvanceResult DEF CutoverSplit
<1>2. dir \in Snapshot
  BY DEF IInv, TypeOK
<1>3. dir' \in Snapshot
  BY <1>1, <1>2 DEF Snapshot, TabletState
<1> QED
  BY <1>1, <1>2, <1>3 DEF Forward, Snapshot, IInv, LifecycleEdges

\* cutover_merge goes forward.
LEMMA CutoverMergeForward ==
    ASSUME IInv, NEW l \in Tablets, NEW r \in Tablets, NEW m \in Tablets,
           dir' \in CutoverMerge(dir, l, r, m)
    PROVE  Forward(dir, dir')
<1>1. /\ dir' = [version  |-> dir.version + 1,
                state    |-> [t \in Tablets |-> IF t = m THEN "Active"
                                ELSE IF t \in {l, r} THEN "Tombstone" ELSE dir.state[t]],
                range    |-> dir.range,
                redirect |-> [t \in Tablets |-> IF t = m THEN {}
                                ELSE IF t \in {l, r} THEN {m} ELSE dir.redirect[t]]]
      /\ dir'.version = dir.version + 1
      /\ Valid(dir')
      /\ dir.state[l] = "Fenced" /\ dir.state[r] = "Fenced" /\ dir.state[m] = "Inactive"
  BY AdvanceResult DEF CutoverMerge
<1>2. dir \in Snapshot
  BY DEF IInv, TypeOK
<1>3. dir' \in Snapshot
  BY <1>1, <1>2 DEF Snapshot, TabletState
<1> QED
  BY <1>1, <1>2, <1>3 DEF Forward, Snapshot, IInv, LifecycleEdges

\* Every step of the directory goes forward.
LEMMA NextForward == IInv /\ Next => Forward(dir, dir') /\ Record
<1> SUFFICES ASSUME IInv, Next PROVE Forward(dir, dir') /\ Record
  OBVIOUS
<1>1. ASSUME NEW t \in Tablets, NEW r \in PartitionRange, NEW epoch \in 0..1, NEW guard \in 0..1,
             DoAllocate(t, r, epoch, guard)
      PROVE  Forward(dir, dir') /\ Record
  BY <1>1, AllocateForward DEF DoAllocate
<1>2. ASSUME NEW t \in Tablets, DoStage(t) PROVE Forward(dir, dir') /\ Record
  BY <1>2, ReplaceForward DEF DoStage, Stage
<1>3. ASSUME NEW t \in Tablets, DoActivate(t) PROVE Forward(dir, dir') /\ Record
  BY <1>3, ReplaceForward DEF DoActivate, Activate
<1>4. ASSUME NEW t \in Tablets, DoSeal(t) PROVE Forward(dir, dir') /\ Record
  BY <1>4, ReplaceForward DEF DoSeal, Seal
<1>5. ASSUME NEW t \in Tablets, NEW redirect \in SUBSET Tablets, DoRetire(t, redirect)
      PROVE  Forward(dir, dir') /\ Record
  BY <1>5, ReplaceForward DEF DoRetire, Retire
<1>6. ASSUME NEW p \in Tablets, NEW l \in Tablets, NEW r \in Tablets, DoCutoverSplit(p, l, r)
      PROVE  Forward(dir, dir') /\ Record
  BY <1>6, CutoverSplitForward DEF DoCutoverSplit
<1>7. ASSUME NEW l \in Tablets, NEW r \in Tablets, NEW m \in Tablets, DoCutoverMerge(l, r, m)
      PROVE  Forward(dir, dir') /\ Record
  BY <1>7, CutoverMergeForward DEF DoCutoverMerge
<1> QED
  BY <1>1, <1>2, <1>3, <1>4, <1>5, <1>6, <1>7 DEF Next

\* The invariant holds in every reachable state.
THEOREM Invariance == Spec => []IInv
<1>1. IInv /\ [Next]_vars => IInv'
  <2> SUFFICES ASSUME IInv, [Next]_vars PROVE IInv'
    OBVIOUS
  <2>1. CASE Next
    BY <2>1, NextForward, ForwardPreserves
  <2>2. CASE UNCHANGED vars
    BY <2>2 DEF vars, IInv, TypeOK, RedirectsForward, Valid, Known, Active
  <2> QED
    BY <2>1, <2>2
<1> QED
  BY <1>1, InitInv, PTL DEF Spec

\* The snapshot always has the type the code gives it.
THEOREM TypeCorrect == Spec => []TypeOK
<1>1. IInv => TypeOK
  BY DEF IInv
<1> QED
  BY <1>1, Invariance, PTL

\* No sequence of directory operations gives one point two writable
\* authorities.
THEOREM SingleAuthorityHolds == Spec => []SingleAuthority
<1>1. IInv => SingleAuthority
  BY DEF IInv, Valid, SingleAuthority, Lookup, Active, Overlaps
<1> QED
  BY <1>1, Invariance, PTL

\* Redirects point forward in lineage time, so a redirect chain has no cycle.
THEOREM RedirectsForwardHolds == Spec => []RedirectsForward
<1>1. IInv => RedirectsForward
  BY DEF IInv
<1> QED
  BY <1>1, Invariance, PTL

\* No operation moves a tablet backward, changes its range or rewrites a
\* tombstone's redirect.
THEOREM LifecycleForwardHolds == Spec => LifecycleForward
<1>1. IInv /\ [Next]_vars =>
        [\A t \in Tablets :
          /\ \/ dir'.state[t] = dir.state[t]
             \/ <<dir.state[t], dir'.state[t]>> \in LifecycleEdges
          /\ dir.state[t] # "Absent" => dir'.range[t] = dir.range[t]
          /\ dir.state[t] = "Tombstone" => dir'.redirect[t] = dir.redirect[t]]_vars
  BY NextForward DEF Forward
<1> QED
  BY <1>1, Invariance, PTL DEF Spec, LifecycleForward

-----------------------------------------------------------------------------
(* Following a stale route. *)

\* A non-empty set of numbers has a least one.
LEMMA LeastNat ==
    ASSUME NEW S, S \subseteq Nat, S # {}
    PROVE  \E x \in S : \A y \in S : x <= y
<1> DEFINE R == OpToRel(<, Nat)
<1>1. PICK x \in S : \A y \in S : <<y, x>> \notin R
  BY NatLessThanWellFounded, WFMin, Zenon
<1>2. \A y \in S : ~(y < x)
  BY <1>1, Zenon DEF OpToRel
<1> QED
  BY <1>2

\* A non-empty bounded set of numbers has a greatest one.
LEMMA GreatestNat ==
    ASSUME NEW S, S \subseteq Nat, S # {}, NEW b \in Nat, \A x \in S : x <= b
    PROVE  \E x \in S : \A y \in S : y <= x
<1> DEFINE Above == {n \in Nat : \A y \in S : y <= n}
<1>1. PICK x \in Above : \A n \in Above : x <= n
  <2>1. b \in Above
    OBVIOUS
  <2> QED
    BY <2>1, LeastNat, Zenon
<1>2. x \in S
  <2> SUFFICES ASSUME x \notin S PROVE FALSE
    OBVIOUS
  <2>1. \A y \in S : y < x
    BY <1>1
  <2>2. x # 0
    <3>1. PICK y \in S : TRUE
      BY Zenon
    <3>2. y \in Nat /\ y < x
      BY <2>1
    <3> QED
      BY <3>2
  <2>3. x - 1 \in Above
    BY <2>1, <2>2
  <2> QED
    BY <1>1, <2>3
<1> QED
  BY <1>1, <1>2

\* One more hop of successor_ranges from the visited tablets.
Hop(d, visited) ==
    visited \cup {u \in UNION {d.redirect[v] : v \in visited} : d.state[u] = "Tombstone"}

\* h lists the tablets visited from t within 0, 1, ..., n hops.
Hops(d, t, n, h) == h = [m \in 0..n |-> IF m = 0 THEN {t} ELSE Hop(d, h[m - 1])]

\* The hops can be counted out to any length.
LEMMA HopsExist ==
    ASSUME NEW d, NEW t, NEW n \in Nat
    PROVE  \E h : Hops(d, t, n, h)
<1> DEFINE Bad == {m \in Nat : ~\E h : Hops(d, t, m, h)}
<1> SUFFICES ASSUME Bad # {} PROVE FALSE
  OBVIOUS
<1>1. PICK x \in Bad : \A y \in Bad : x <= y
  BY LeastNat, Zenon
<1>2. CASE x = 0
  <2>1. Hops(d, t, 0, [m \in 0..0 |-> {t}])
    BY DEF Hops
  <2> QED
    BY <1>1, <1>2, <2>1
<1>3. CASE x # 0
  <2>1. x - 1 \in Nat /\ x - 1 \notin Bad
    BY <1>1, <1>3
  <2>2. PICK h : Hops(d, t, x - 1, h)
    BY <2>1
  <2> DEFINE g == [m \in 0..x |-> IF m = x THEN Hop(d, h[x - 1]) ELSE h[m]]
  <2>3. \A m \in 0..(x - 1) : g[m] = h[m]
    BY <2>1
  <2>4. \A m \in 0..(x - 1) : h[m] = IF m = 0 THEN {t} ELSE Hop(d, h[m - 1])
    BY <2>2, Zenon DEF Hops
  <2>5. ASSUME NEW m \in 0..x
        PROVE  g[m] = IF m = 0 THEN {t} ELSE Hop(d, g[m - 1])
    <3>1. CASE m = x
      <4>1. g[m] = Hop(d, h[x - 1]) /\ m # 0
        BY <1>3, <3>1
      <4>2. g[m - 1] = h[x - 1]
        BY <2>1, <2>3, <3>1
      <4> QED
        BY <4>1, <4>2
    <3>2. CASE m # x
      <4>1. m \in 0..(x - 1)
        BY <3>2
      <4>2. m # 0 => g[m - 1] = h[m - 1]
        BY <2>3, <4>1
      <4> QED
        BY <2>3, <2>4, <4>1, <4>2, Zenon
    <3> QED
      BY <3>1, <3>2
  <2>6. g = [m \in 0..x |-> g[m]]
    OBVIOUS
  <2> HIDE DEF g
  <2>7. Hops(d, t, x, g)
    BY <2>5, <2>6, Zenon DEF Hops
  <2> QED
    BY <1>1, <2>7
<1> QED
  BY <1>2, <1>3

\* What VisitedWithin computes: the last of the hops.
LEMMA VisitedIsLastHop ==
    ASSUME NEW d, NEW t
    PROVE  \E h : Hops(d, t, Cardinality(Tablets), h) /\ VisitedWithin(d, t) = h[Cardinality(Tablets)]
<1> DEFINE c == CHOOSE h : Hops(d, t, Cardinality(Tablets), h)
<1>1. Cardinality(Tablets) \in Nat
  BY TabletsAssumption, FS_CardinalityType
<1>2. \E h : Hops(d, t, Cardinality(Tablets), h)
  BY <1>1, HopsExist
<1>3. Hops(d, t, Cardinality(Tablets), c)
  BY <1>2
<1>4. VisitedWithin(d, t) = c[Cardinality(Tablets)]
  BY DEF VisitedWithin, Hops, Hop
<1> QED
  BY <1>3, <1>4, Zenon

\* The tablets that were retired.
Tombstones == {t \in Tablets : dir.state[t] = "Tombstone"}

\* A visit that meets no live successor meets a tombstone that it has not visited
\* yet: the successors of the one that was retired last.
LEMMA HopGrows ==
    ASSUME IInv, NEW V, V \subseteq Tombstones, V # {},
           \A v \in V : \A u \in dir.redirect[v] : dir.state[u] \notin {"Active", "Fenced"}
    PROVE  \E u \in Hop(dir, V) : u \notin V
<1>1. dir \in Snapshot /\ retiredAt \in [Tablets -> Nat] /\ dir.version \in Nat
  BY DEF IInv, TypeOK, Snapshot
<1>2. V \subseteq Tablets
  BY DEF Tombstones
<1> DEFINE S == {retiredAt[v] : v \in V}
<1>3. PICK x \in S : \A y \in S : y <= x
  <2>1. S \subseteq Nat /\ S # {}
    BY <1>1, <1>2
  <2>2. \A y \in S : y <= dir.version
    BY <1>2 DEF IInv
  <2> HIDE DEF S
  <2> QED
    BY <1>1, <2>1, <2>2, GreatestNat, Zenon
<1>4. PICK v \in V : x = retiredAt[v]
  BY <1>3
<1>5. v \in Tablets /\ dir.state[v] = "Tombstone"
  BY <1>4 DEF Tombstones
<1>6. PICK u \in dir.redirect[v] : TRUE
  BY <1>5 DEF IInv, Valid, Known
<1>7. dir.state[u] = "Tombstone" /\ retiredAt[v] < retiredAt[u]
  BY <1>4, <1>5, <1>6 DEF IInv, RedirectsForward
<1>8. u \notin V
  <2> SUFFICES ASSUME u \in V PROVE FALSE
    OBVIOUS
  <2>1. retiredAt[u] <= retiredAt[v]
    BY <1>3, <1>4
  <2>2. retiredAt[u] \in Nat /\ retiredAt[v] \in Nat
    BY <1>1, <1>2, <1>5
  <2> QED
    BY <1>7, <2>1, <2>2
<1>9. u \in Hop(dir, V)
  BY <1>4, <1>6, <1>7 DEF Hop
<1> QED
  BY <1>8, <1>9

\* The hops only add tombstones.
LEMMA HopsMonotone ==
    ASSUME IInv, NEW t \in Tombstones, NEW N \in Nat, NEW h, Hops(dir, t, N, h), NEW m \in 0..N
    PROVE  /\ h[m] \subseteq Tombstones /\ t \in h[m]
           /\ h[m] \subseteq h[N]
           /\ m # N => h[m + 1] = Hop(dir, h[m])
<1>1. h[0] = {t} /\ \A k \in 0..N : k # 0 => h[k] = Hop(dir, h[k - 1])
  <2>1. \A k \in 0..N : h[k] = IF k = 0 THEN {t} ELSE Hop(dir, h[k - 1])
    BY Zenon DEF Hops
  <2>2. 0 \in 0..N
    OBVIOUS
  <2> QED
    BY <2>1, <2>2
<1>2. \A k \in 0..N : k # N => h[k + 1] = Hop(dir, h[k])
  <2> SUFFICES ASSUME NEW k \in 0..N, k # N PROVE h[k + 1] = Hop(dir, h[k])
    OBVIOUS
  <2>1. k + 1 \in 0..N /\ k + 1 # 0 /\ (k + 1) - 1 = k
    OBVIOUS
  <2> QED
    BY <1>1, <2>1
<1>3. \A V : V \subseteq Tombstones => Hop(dir, V) \subseteq Tombstones
  BY DEF Hop, Tombstones, IInv, TypeOK, Snapshot
<1>4. \A k \in 0..N : h[k] \subseteq Tombstones /\ t \in h[k]
  <2> DEFINE Bad == {k \in 0..N : ~(h[k] \subseteq Tombstones /\ t \in h[k])}
  <2> SUFFICES ASSUME Bad # {} PROVE FALSE
    OBVIOUS
  <2>1. PICK x \in Bad : \A y \in Bad : x <= y
    <3>1. Bad \subseteq Nat
      OBVIOUS
    <3> HIDE DEF Bad
    <3> QED
      BY <3>1, LeastNat, Zenon
  <2>2. x # 0
    BY <1>1, <2>1
  <2>3. x - 1 \in 0..N /\ x - 1 \notin Bad
    BY <2>1, <2>2
  <2>4. h[x] = Hop(dir, h[x - 1])
    BY <1>1, <2>1, <2>2
  <2>5. h[x - 1] \subseteq Tombstones /\ t \in h[x - 1]
    BY <2>3
  <2> QED
    BY <1>3, <2>1, <2>4, <2>5 DEF Hop
<1>5. \A k \in 0..N : h[N - k] \subseteq h[N]
  <2> DEFINE Bad == {k \in 0..N : ~(h[N - k] \subseteq h[N])}
  <2> SUFFICES ASSUME Bad # {} PROVE FALSE
    OBVIOUS
  <2>1. PICK x \in Bad : \A y \in Bad : x <= y
    <3>1. Bad \subseteq Nat
      OBVIOUS
    <3> HIDE DEF Bad
    <3> QED
      BY <3>1, LeastNat, Zenon
  <2>2. x # 0
    BY <2>1
  <2>3. x - 1 \in 0..N /\ x - 1 \notin Bad
    BY <2>1, <2>2
  <2>4. h[N - (x - 1)] \subseteq h[N]
    BY <2>3
  <2>5. N - x \in 0..N /\ N - x # N /\ (N - x) + 1 = N - (x - 1)
    BY <2>1, <2>2
  <2>6. h[N - (x - 1)] = Hop(dir, h[N - x])
    BY <1>2, <2>5
  <2>7. h[N - x] \subseteq h[N]
    BY <2>4, <2>6 DEF Hop
  <2> QED
    BY <2>1, <2>7
<1>6. h[m] \subseteq h[N]
  <2>1. N - m \in 0..N /\ N - (N - m) = m
    OBVIOUS
  <2> QED
    BY <1>5, <2>1
<1> QED
  BY <1>2, <1>4, <1>6

\* A visit that met no live successor in all of its hops would have met one more
\* tablet in each of them, and there are not that many.
LEMMA RouteResolves ==
    ASSUME IInv
    PROVE  StaleRouteResolves
<1> DEFINE N == Cardinality(Tablets)
<1> SUFFICES ASSUME NEW t \in Tombstones,
                    \A v \in VisitedWithin(dir, t) : \A u \in dir.redirect[v] :
                        dir.state[u] \notin {"Active", "Fenced"}
             PROVE  FALSE
  BY DEF StaleRouteResolves, SuccessorRanges, Tombstones
<1>1. N \in Nat
  BY TabletsAssumption, FS_CardinalityType
<1>2. PICK h : Hops(dir, t, N, h) /\ VisitedWithin(dir, t) = h[N]
  BY VisitedIsLastHop
<1>3. \A m \in 0..N : h[m] \subseteq Tablets /\ IsFiniteSet(h[m]) /\ Cardinality(h[m]) \in Nat
  <2> SUFFICES ASSUME NEW m \in 0..N
               PROVE  h[m] \subseteq Tablets /\ IsFiniteSet(h[m]) /\ Cardinality(h[m]) \in Nat
    OBVIOUS
  <2>1. h[m] \subseteq Tablets
    BY <1>1, <1>2, HopsMonotone DEF Tombstones
  <2>2. IsFiniteSet(h[m])
    BY <2>1, TabletsAssumption, FS_Subset
  <2> QED
    BY <2>1, <2>2, FS_CardinalityType
<1> DEFINE Bad == {m \in 0..N : Cardinality(h[m]) <= m}
<1>4. N \in Bad
  <2>1. h[N] \in SUBSET Tablets
    BY <1>1, <1>3
  <2>2. Cardinality(h[N]) <= N
    BY <2>1, TabletsAssumption, FS_Subset
  <2> QED
    BY <1>1, <2>2
<1>5. PICK x \in Bad : \A y \in Bad : x <= y
  <2>1. Bad \subseteq Nat /\ Bad # {}
    BY <1>1, <1>4
  <2> HIDE DEF Bad
  <2> QED
    BY <2>1, LeastNat, Zenon
<1>6. x # 0
  <2>1. h[0] = {t}
    BY <1>1, <1>2 DEF Hops
  <2>2. Cardinality(h[0]) = 1
    BY <2>1, FS_Singleton, Zenon
  <2> QED
    BY <1>5, <2>2
<1> DEFINE y == x - 1
<1>7. y \in 0..N /\ y # N /\ y + 1 = x /\ y \notin Bad /\ x \in 0..N
  BY <1>1, <1>5, <1>6
<1>8. Cardinality(h[y]) >= y + 1
  BY <1>3, <1>7
<1> HIDE DEF y, Bad
<1>9. h[x] = Hop(dir, h[y]) /\ h[y] \subseteq Tombstones /\ h[y] # {} /\ h[y] \subseteq h[N]
  BY <1>1, <1>2, <1>7, HopsMonotone
<1>10. PICK u \in h[x] : u \notin h[y]
  BY <1>2, <1>9, HopGrows
<1>11. h[y] \cup {u} \in SUBSET h[x]
  BY <1>9, <1>10 DEF Hop
<1>12. Cardinality(h[y] \cup {u}) = Cardinality(h[y]) + 1
  BY <1>3, <1>7, <1>10, FS_AddElement, Zenon
<1>13. Cardinality(h[y] \cup {u}) <= Cardinality(h[x])
  BY <1>3, <1>7, <1>11, FS_Subset
<1>14. Cardinality(h[x]) <= x
  BY <1>5 DEF Bad
<1> QED
  BY <1>3, <1>7, <1>8, <1>12, <1>13, <1>14

\* A stale route always leads to a tablet that is active, or sealed and about to be
\* replaced, after any sequence of directory operations: successor_ranges never
\* loses its way in the tombstones, however long the chain is.
THEOREM StaleRouteResolvesHolds == Spec => []StaleRouteResolves
<1>1. IInv => StaleRouteResolves
  BY RouteResolves
<1> QED
  BY <1>1, Invariance, PTL
=============================================================================
