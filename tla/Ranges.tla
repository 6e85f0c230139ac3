------------------------------- MODULE Ranges -------------------------------
(***************************************************************************)
(* Range arithmetic: kivi-tablet/src/range.rs, the boundary derivations    *)
(* split_child_ranges and merge_parent_ranges of kivi-server/src/          *)
(* cluster.rs, and the queries of directory.rs that work on range bounds.  *)
(*                                                                         *)
(* A hash prefix is [kind, bits, len] over W-bit hashes (128 in the code). *)
(* An ordered range is [kind, start, end]; keys are 0..MaxKey in their     *)
(* byte order, 0 is the empty key, and the end None (+infinity) is the     *)
(* bound Inf above every key.                                              *)
(*                                                                         *)
(* The state machine is what the rest of the system does with ranges: a    *)
(* genesis tiling, then splits and merges of its tiles.  The properties    *)
(* compare every operation with the set of points it stands for, which is  *)
(* the abstraction modules Directory and Topology use.                     *)
(***************************************************************************)
EXTENDS Naturals, FiniteSets, Sequences

CONSTANTS
    W,          \* bits of a partition hash
    MaxKey,     \* largest key
    MaxGenesis  \* largest genesis tablet count

ASSUME RangesAssumption == W \in Nat /\ MaxKey \in Nat /\ MaxGenesis \in Nat

Inf == MaxKey + 1

\* 1 << k
Pow2[k \in 0..W] == IF k = 0 THEN 1 ELSE 2 * Pow2[k - 1]

Hashes == 0..(Pow2[W] - 1)
Keys == 0..MaxKey

-----------------------------------------------------------------------------
(* HashPrefix *)

\* HashPrefix::new and check: the low W - len bits are zero.
Canonical(r) == r.len <= W /\ (IF r.len = 0 THEN r.bits = 0
                                            ELSE r.bits % Pow2[W - r.len] = 0)

HashPrefix(bits, len) == [kind |-> "hash", bits |-> bits, len |-> len]

\* a | (1 << k)
SetBit(a, k) == IF (a \div Pow2[k]) % 2 = 1 THEN a ELSE a + Pow2[k]

HashContains(r, h) ==
    r.len = 0 \/ h \div Pow2[W - r.len] = r.bits \div Pow2[W - r.len]

\* Mutant: the comparison uses the longer prefix.
HashOverlapsLonger(r, s) ==
    LET common == IF r.len < s.len THEN s.len ELSE r.len
    IN  common = 0 \/ r.bits \div Pow2[W - common] = s.bits \div Pow2[W - common]

HashOverlaps(r, s) ==
    LET common == IF r.len < s.len THEN r.len ELSE s.len
    IN  common = 0 \/ r.bits \div Pow2[W - common] = s.bits \div Pow2[W - common]

\* split_midpoint: {} is the error, else the triple (left, right, split_hash).
SplitMidpoint(r) ==
    IF r.len >= W THEN {}
    ELSE LET len == r.len + 1
             right == SetBit(r.bits, W - len)
         IN  {t \in {<<HashPrefix(r.bits, len), HashPrefix(right, len), right>>} :
                 Canonical(t[1]) /\ Canonical(t[2])}

-----------------------------------------------------------------------------
(* OrderedRange *)

Ordered(start, end) == [kind |-> "ordered", start |-> start, end |-> end]

OrderedContains(r, k) == r.start <= k /\ k < r.end

OrderedOverlaps(r, s) == r.start < s.end /\ s.start < r.end

\* Mutant: the split key may be the start of the range.
SplitAtStart(r, key) ==
    IF key < r.start \/ key >= r.end THEN {}
    ELSE {<<Ordered(r.start, key), Ordered(key, r.end)>>}

\* split_at: the key must be strictly interior.
SplitAt(r, key) ==
    IF key <= r.start \/ key >= r.end THEN {}
    ELSE {<<Ordered(r.start, key), Ordered(key, r.end)>>}

IsAdjacentTo(r, s) == r.end = s.start

-----------------------------------------------------------------------------
(* PartitionRange *)

Space(kind) == IF kind = "hash" THEN Hashes ELSE Keys

\* contains_hash and contains_key.
RangeContains(r, p) == IF r.kind = "hash" THEN HashContains(r, p) ELSE OrderedContains(r, p)

PartitionOverlaps(r, s) ==
    CASE r.kind = "hash" /\ s.kind = "hash" -> HashOverlaps(r, s)
      [] r.kind = "ordered" /\ s.kind = "ordered" -> OrderedOverlaps(r, s)
      [] OTHER -> FALSE

\* split_child_ranges: the plan's boundary must be the midpoint of a hash
\* parent, a strictly interior key of an ordered one.
SplitChildRanges(r, boundary) ==
    IF r.kind = "hash"
    THEN {<<t[1], t[2]>> : t \in {u \in SplitMidpoint(r) : u[3] = boundary}}
    ELSE SplitAt(r, boundary)

\* Mutant: any two prefixes of one length that differ in the last bit of their
\* length merge, without checking which of them is the left one.
MergeParentRangesUnordered(r, s) ==
    CASE r.kind = "hash" /\ s.kind = "hash" ->
           {m \in {HashPrefix(r.bits, r.len - 1)} :
              /\ r.len = s.len /\ r.len # 0
              /\ SetBit(r.bits, W - r.len) = SetBit(s.bits, W - s.len)}
      [] r.kind = "ordered" /\ s.kind = "ordered" ->
           {m \in {Ordered(r.start, s.end)} : IsAdjacentTo(r, s)}
      [] OTHER -> {}

\* merge_parent_ranges: midpoint siblings, left first, or adjacent intervals.
MergeParentRanges(r, s) ==
    CASE r.kind = "hash" /\ s.kind = "hash" ->
           {m \in {HashPrefix(r.bits, r.len - 1)} :
              /\ r.len = s.len /\ r.len # 0
              /\ SetBit(r.bits, W - r.len) = s.bits
              /\ (r.bits \div Pow2[W - r.len]) % 2 = 0
              /\ Canonical(m)}
      [] r.kind = "ordered" /\ s.kind = "ordered" ->
           {m \in {Ordered(r.start, s.end)} : IsAdjacentTo(r, s)}
      [] OTHER -> {}

-----------------------------------------------------------------------------
(* Queries of DirectorySnapshot over the active ordered ranges. *)

\* The ranges sorted by their starts, which are all different.
InKeyOrder(ranges) ==
    [i \in 1..Cardinality(ranges) |->
        CHOOSE r \in ranges : Cardinality({s \in ranges : s.start < r.start}) = i - 1]

\* Mutant: the last range may end anywhere.
OrderedCoverageNoTail(ranges) ==
    LET sorted == InKeyOrder(ranges)
    IN  /\ ranges # {}
        /\ sorted[1].start = 0
        /\ \A i \in 1..(Len(sorted) - 1) : IsAdjacentTo(sorted[i], sorted[i+1])

\* ordered_coverage_complete on the set of active ordered ranges.
OrderedCoverageComplete(ranges) ==
    LET sorted == InKeyOrder(ranges)
    IN  /\ ranges # {}
        /\ sorted[1].start = 0
        /\ \A i \in 1..(Len(sorted) - 1) : IsAdjacentTo(sorted[i], sorted[i+1])
        /\ sorted[Len(sorted)].end = Inf

\* Mutant: the end of the query is taken as inclusive.
TabletsCoveringRangeClosed(ranges, start, end) ==
    InKeyOrder({r \in ranges : r.start <= end /\ start < r.end})

\* tablets_covering_range, in key order.
TabletsCoveringRange(ranges, start, end) ==
    InKeyOrder({r \in ranges : r.start < end /\ start < r.end})

-----------------------------------------------------------------------------
(* A namespace's tiling over time. *)
VARIABLES
    tiles,    \* the active ranges
    genesis   \* how many tiles static_tiles still has to reach; 0 = serving

vars == <<tiles, genesis>>

\* static_tiles starts from the root prefix; static_ordered_tiles makes a tile
\* between every two consecutive bounds: the empty key, the split keys, no end.
Init ==
    \/ tiles = {HashPrefix(0, 0)} /\ genesis \in 1..MaxGenesis
    \/ /\ genesis = 0
       /\ \E keys \in SUBSET (1..MaxKey) :
             LET bounds == keys \cup {0, Inf}
             IN  tiles = {Ordered(b[1], b[2]) :
                            b \in {c \in bounds \X bounds :
                                     /\ c[1] < c[2]
                                     /\ \A x \in bounds : x <= c[1] \/ c[2] <= x}}

\* The piece static_tiles halves next.
LargestPiece(r) == \A s \in tiles : r.len <= s.len

\* One turn of the static_tiles loop: halve a largest piece.  Storage order
\* breaks ties in the code; any largest piece may be halved here.
GenesisSplit ==
    /\ Cardinality(tiles) < genesis
    /\ \E r \in tiles : \E t \in SplitMidpoint(r) :
          /\ LargestPiece(r)
          /\ tiles' = (tiles \ {r}) \cup {t[1], t[2]}
    /\ UNCHANGED genesis

GenesisDone ==
    /\ genesis # 0 /\ Cardinality(tiles) = genesis
    /\ genesis' = 0
    /\ UNCHANGED tiles

\* A split cutover replaces a tile by its children, a merge two tiles by one.
Split(r, boundary) ==
    /\ genesis = 0
    /\ \E t \in SplitChildRanges(r, boundary) : tiles' = (tiles \ {r}) \cup {t[1], t[2]}
    /\ UNCHANGED genesis

Merge(r, s) ==
    /\ genesis = 0
    /\ \E m \in MergeParentRanges(r, s) : tiles' = (tiles \ {r, s}) \cup {m}
    /\ UNCHANGED genesis

Next ==
    \/ GenesisSplit
    \/ GenesisDone
    \/ \E r \in tiles : \E b \in Space(r.kind) : Split(r, b)
    \/ \E r, s \in tiles : Merge(r, s)

Spec == Init /\ [][Next]_vars

-----------------------------------------------------------------------------
(* Properties. *)

PointsOf(r) == {p \in Space(r.kind) : RangeContains(r, p)}

\* However the tiling was reached, every point of the space is in exactly one
\* tile, and no tile is empty: splits and merges lose and duplicate nothing.
TilingExact ==
    /\ \A r \in tiles : PointsOf(r) # {}
    /\ \A kind \in {r.kind : r \in tiles} : \A p \in Space(kind) :
          Cardinality({r \in tiles : RangeContains(r, p)}) = 1

\* Every prefix and every interval there is.
AllRanges ==
    {q \in [kind : {"hash"}, bits : Hashes, len : 0..W] : Canonical(q)}
      \cup {q \in [kind : {"ordered"}, start : Keys, end : 1..Inf] : q.start < q.end}

\* overlaps is intersection: for every prefix or interval, checked against every
\* tile of every reachable tiling.
OverlapsIsIntersection ==
    \A r \in tiles, s \in AllRanges :
        PartitionOverlaps(r, s)
            <=> (r.kind = s.kind /\ PointsOf(r) \cap PointsOf(s) # {})

\* merge_parent_ranges is the inverse of split_child_ranges: what it joins, some
\* boundary cuts into the same two tiles, left one first; and any two tiles that
\* are the children of some range, it joins to that range.
MergeUndoesSplit ==
    /\ \A r, s \in tiles : \A m \in MergeParentRanges(r, s) :
          \E b \in Space(m.kind) : <<r, s>> \in SplitChildRanges(m, b)
    /\ \A m \in AllRanges : \A b \in Space(m.kind) : \A t \in SplitChildRanges(m, b) :
          {t[1], t[2]} \subseteq tiles => MergeParentRanges(t[1], t[2]) = {m}

\* ordered_coverage_complete says exactly whether the active ranges cover every
\* key, for every subset of a tiling (some tablets sealed, the others active).
CoverageCheckExact ==
    \A active \in SUBSET {r \in tiles : r.kind = "ordered"} :
        active # {} =>
            (OrderedCoverageComplete(active)
                <=> UNION {PointsOf(r) : r \in active} = Keys)

\* A range scan visits every tile that holds a key of a non-empty query, no
\* other, and in key order.
ScanCoversQuery ==
    LET ordered == {r \in tiles : r.kind = "ordered"}
    IN  \A start \in Keys, end \in 1..Inf : start < end =>
            LET visit == TabletsCoveringRange(ordered, start, end)
            IN  /\ {visit[i] : i \in DOMAIN visit}
                      = {r \in ordered : PointsOf(r) \cap (start..(end - 1)) # {}}
                /\ \A i \in 1..(Len(visit) - 1) : visit[i].end <= visit[i+1].start
=============================================================================
