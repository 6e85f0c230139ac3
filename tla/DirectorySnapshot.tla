------------------------- MODULE DirectorySnapshot -------------------------
(***************************************************************************)
(* The tablet directory of one namespace: kivi-tablet/src/directory.rs.    *)
(*                                                                         *)
(* A DirectorySnapshot is immutable; every operation builds the snapshot   *)
(* of the next version or returns an error.  Here an operation is an       *)
(* operator from a snapshot to the SET of snapshots it can return: the     *)
(* empty set is the Err result, a singleton is Ok.  Module Directory       *)
(* applies the operations to one snapshot in every order; in Topology each *)
(* node holds a snapshot of its own.                                       *)
(*                                                                         *)
(* Abstractions.  A range is its layout kind and the set of points (hash   *)
(* values or keys) it contains; module Ranges checks that the code's       *)
(* contains / overlaps / split / merge are the set operations used here.   *)
(* The descriptor vector is three functions over the tablet identities;    *)
(* a tablet that is not in the vector has state "Absent".  Epoch and guard *)
(* are validated at allocation and then copied unchanged by every          *)
(* operation, so they are not stored.  A redirect is its set of successor  *)
(* ids and None is the empty set: retire refuses an empty redirect.        *)
(***************************************************************************)
EXTENDS Naturals, FiniteSets

CONSTANTS
    Tablets,     \* tablet identities
    Points,      \* hash values (hash layout) or keys (ordered layout)
    Kinds,       \* layout kinds a range may have
    MaxVersion   \* largest DirectoryVersion; next() fails above it

ASSUME MaxVersionAssumption == MaxVersion \in Nat \ {0}

PartitionRange == [kind : Kinds, points : SUBSET Points]

\* What the descriptor of a tablet that is not in the vector holds.
NoRange == [kind |-> "none", points |-> {}]

TabletState == {"Allocated", "Inactive", "Active", "Fenced", "Tombstone"}

Snapshot ==
    [version  : Nat,
     state    : [Tablets -> TabletState \cup {"Absent"}],
     range    : [Tablets -> PartitionRange \cup {NoRange}],
     redirect : [Tablets -> SUBSET Tablets]]

Known(d) == {t \in Tablets : d.state[t] # "Absent"}
Active(d) == {t \in Tablets : d.state[t] = "Active"}

\* PartitionRange::check: a canonical prefix and an interval with start < end
\* are exactly the ranges that contain a point.
CheckRange(r) == r.points # {}

\* PartitionRange::overlaps; ranges of different layouts never overlap.
Overlaps(r, s) == r.kind = s.kind /\ r.points \cap s.points # {}

\* Mutant: only the layouts are compared, overlaps are not.
ValidNoOverlapCheck(d) ==
    /\ d.version # 0
    /\ \A t \in Known(d) :
          /\ CheckRange(d.range[t])
          /\ (d.state[t] = "Tombstone") <=> (d.redirect[t] # {})
    /\ \A t, u \in Active(d) : d.range[t].kind = d.range[u].kind

\* DirectorySnapshot::validate.
Valid(d) ==
    /\ d.version # 0
    /\ \A t \in Known(d) :
          /\ CheckRange(d.range[t])
          /\ (d.state[t] = "Tombstone") <=> (d.redirect[t] # {})
    /\ \A t, u \in Active(d) : d.range[t].kind = d.range[u].kind
    /\ \A t, u \in Active(d) : t # u => ~Overlaps(d.range[t], d.range[u])

\* DirectorySnapshot::advance: next version, then validate.
Advance(d, state, range, redirect) ==
    {e \in {[version |-> d.version + 1, state |-> state, range |-> range,
             redirect |-> redirect]} :
        d.version < MaxVersion /\ Valid(e)}

\* Mutant: the index_of / allowed-state check is dropped.
ReplaceAnyState(d, t, allowed, to, redirect) ==
    {e \in Advance(d, [d.state EXCEPT ![t] = to], d.range,
                   [d.redirect EXCEPT ![t] = redirect]) :
        t \in Known(d)}

\* DirectorySnapshot::replace.
Replace(d, t, allowed, to, redirect) ==
    {e \in Advance(d, [d.state EXCEPT ![t] = to], d.range,
                   [d.redirect EXCEPT ![t] = redirect]) :
        t \in Known(d) /\ d.state[t] \in allowed}

-----------------------------------------------------------------------------
(* The operations. *)

\* check_generations
GenerationsValid(epoch, guard) == epoch # 0 /\ guard # 0

\* DirectorySnapshot::bootstrap
Bootstrap(t, r, epoch, guard) ==
    {d \in {[version  |-> 1,
             state    |-> [u \in Tablets |-> IF u = t THEN "Allocated" ELSE "Absent"],
             range    |-> [u \in Tablets |-> IF u = t THEN r ELSE NoRange],
             redirect |-> [u \in Tablets |-> {}]]} :
        CheckRange(r) /\ GenerationsValid(epoch, guard) /\ Valid(d)}

Allocate(d, t, r, epoch, guard) ==
    {e \in Advance(d, [d.state EXCEPT ![t] = "Allocated"],
                      [d.range EXCEPT ![t] = r],
                      [d.redirect EXCEPT ![t] = {}]) :
        t \notin Known(d) /\ CheckRange(r) /\ GenerationsValid(epoch, guard)}

Stage(d, t) == Replace(d, t, {"Allocated"}, "Inactive", {})

Activate(d, t) ==
    {e \in Replace(d, t, {"Inactive"}, "Active", {}) :
        \A u \in Active(d) \ {t} : ~Overlaps(d.range[t], d.range[u])}

Seal(d, t) == Replace(d, t, {"Active"}, "Fenced", {})

\* Mutant: successors only have to exist.
RetireAnySuccessor(d, t, redirect) ==
    {e \in Replace(d, t, {"Fenced", "Inactive"}, "Tombstone", redirect) :
        redirect # {} /\ redirect \subseteq Known(d)}

Retire(d, t, redirect) ==
    {e \in Replace(d, t, {"Fenced", "Inactive"}, "Tombstone", redirect) :
        redirect # {} /\ redirect \subseteq Active(d)}

CutoverSplit(d, parent, left, right) ==
    {e \in Advance(d, [t \in Tablets |->
                          IF t = parent THEN "Tombstone"
                          ELSE IF t \in {left, right} THEN "Active"
                          ELSE d.state[t]],
                      d.range,
                      [t \in Tablets |->
                          IF t = parent THEN {left, right}
                          ELSE IF t \in {left, right} THEN {}
                          ELSE d.redirect[t]]) :
        d.state[parent] = "Fenced" /\ d.state[left] = "Inactive"
                                   /\ d.state[right] = "Inactive"}

CutoverMerge(d, left, right, merged) ==
    {e \in Advance(d, [t \in Tablets |->
                          IF t = merged THEN "Active"
                          ELSE IF t \in {left, right} THEN "Tombstone"
                          ELSE d.state[t]],
                      d.range,
                      [t \in Tablets |->
                          IF t = merged THEN {}
                          ELSE IF t \in {left, right} THEN {merged}
                          ELSE d.redirect[t]]) :
        d.state[left] = "Fenced" /\ d.state[right] = "Fenced"
                                 /\ d.state[merged] = "Inactive"}

-----------------------------------------------------------------------------
(* Queries. *)

\* lookup_by_hash and lookup_by_key: the active tablets that hold the point.
\* The code returns the first in storage order.
Lookup(d, p) == {t \in Active(d) : p \in d.range[t].points}

\* Mutant: the redirect of the tablet itself is followed, no further.
VisitedOnce(d, t) == {t}

\* The tablets the stack of successor_ranges visits from t, by number of hops:
\* t, then every tombstone named by the redirect of a visited tablet.
VisitedWithin(d, t) ==
    LET hops[n \in 0..Cardinality(Tablets)] ==
            IF n = 0 THEN {t}
            ELSE hops[n-1] \cup
                 {u \in UNION {d.redirect[v] : v \in hops[n-1]} :
                     d.state[u] = "Tombstone"}
    IN  hops[Cardinality(Tablets)]

\* successor_ranges: the active successors of the visited tablets.
SuccessorRanges(d, t) ==
    {u \in UNION {d.redirect[v] : v \in VisitedWithin(d, t)} : d.state[u] = "Active"}
=============================================================================
