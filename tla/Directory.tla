----------------------------- MODULE Directory -----------------------------
(***************************************************************************)
(* One directory snapshot under every sequence of operations: what         *)
(* kivi-tablet/src/directory.rs guarantees whatever its callers do.        *)
(***************************************************************************)
EXTENDS DirectorySnapshot

\* The tablet identities of a namespace are u64s.
ASSUME TabletsAssumption == IsFiniteSet(Tablets)

\* retiredAt is a history variable: the version at which each tablet was
\* retired, 0 before that.
VARIABLES dir, retiredAt

vars == <<dir, retiredAt>>

Init ==
    /\ \E t \in Tablets, r \in PartitionRange, epoch, guard \in 0..1 :
          dir \in Bootstrap(t, r, epoch, guard)
    /\ retiredAt = [t \in Tablets |-> 0]

\* Records which tablets the step retired.
Record ==
    retiredAt' = [t \in Tablets |->
                     IF dir'.state[t] = "Tombstone" /\ dir.state[t] # "Tombstone"
                     THEN dir'.version ELSE retiredAt[t]]

DoAllocate(t, r, epoch, guard) == dir' \in Allocate(dir, t, r, epoch, guard) /\ Record
DoStage(t) == dir' \in Stage(dir, t) /\ Record
DoActivate(t) == dir' \in Activate(dir, t) /\ Record
DoSeal(t) == dir' \in Seal(dir, t) /\ Record
DoRetire(t, redirect) == dir' \in Retire(dir, t, redirect) /\ Record
DoCutoverSplit(p, l, r) == dir' \in CutoverSplit(dir, p, l, r) /\ Record
DoCutoverMerge(l, r, m) == dir' \in CutoverMerge(dir, l, r, m) /\ Record

Next ==
    \/ \E t \in Tablets, r \in PartitionRange, epoch, guard \in 0..1 : DoAllocate(t, r, epoch, guard)
    \/ \E t \in Tablets : DoStage(t)
    \/ \E t \in Tablets : DoActivate(t)
    \/ \E t \in Tablets : DoSeal(t)
    \/ \E t \in Tablets, redirect \in SUBSET Tablets : DoRetire(t, redirect)
    \/ \E p, l, r \in Tablets : DoCutoverSplit(p, l, r)
    \/ \E l, r, m \in Tablets : DoCutoverMerge(l, r, m)

Spec == Init /\ [][Next]_vars

-----------------------------------------------------------------------------
(* Properties. *)

\* Type invariant of the snapshot and of the history variable.
TypeOK ==
    /\ dir \in Snapshot
    /\ retiredAt \in [Tablets -> Nat]

\* No point has two writable authorities, whatever operations were called in
\* whatever order: a lookup never has a choice to make.
SingleAuthority == \A p \in Points : \A t, u \in Lookup(dir, p) : t = u

\* Every redirect points forward in lineage time: a successor is live (active
\* or being replaced), or was itself retired later than the tablet that names
\* it.  This is what makes redirect chains acyclic (directory.rs, comment on
\* successor_ranges).
RedirectsForward ==
    \A t \in Tablets : dir.state[t] = "Tombstone" =>
        \A u \in dir.redirect[t] :
            \/ dir.state[u] \in {"Active", "Fenced"}
            \/ dir.state[u] = "Tombstone" /\ retiredAt[t] < retiredAt[u]

\* A stale route always leads somewhere: following the tombstone chain, as
\* successor_ranges does, meets a tablet that is active, or one that is sealed
\* and about to be replaced.
StaleRouteResolves ==
    \A t \in Tablets : dir.state[t] = "Tombstone" =>
        \/ SuccessorRanges(dir, t) # {}
        \/ \E v \in VisitedWithin(dir, t) : \E u \in dir.redirect[v] : dir.state[u] = "Fenced"

\* The edges of the lifecycle chain drawn at the top of tablet.rs.
LifecycleEdges ==
    {<<"Absent", "Allocated">>, <<"Allocated", "Inactive">>, <<"Inactive", "Active">>,
     <<"Active", "Fenced">>, <<"Fenced", "Tombstone">>, <<"Inactive", "Tombstone">>}

\* A tablet identity moves along the one lifecycle chain only, so a fenced
\* tablet is never writable again; its range is fixed at allocation and a
\* tombstone keeps its redirect.
LifecycleForward ==
    [][\A t \in Tablets :
          /\ \/ dir'.state[t] = dir.state[t]
             \/ <<dir.state[t], dir'.state[t]>> \in LifecycleEdges
          /\ dir.state[t] # "Absent" => dir'.range[t] = dir.range[t]
          /\ dir.state[t] = "Tombstone" => dir'.redirect[t] = dir.redirect[t]]_vars
=============================================================================
