----------------------------- MODULE MCTopology -----------------------------
(* Finite instance of Topology for TLC. *)
EXTENDS Topology, TLC

Symmetry == Permutations(Nodes)

\* WorkStep and WorkRound touch only the private copy of one node, which no other
\* action reads, so they commute with every other step: exploring them as soon as
\* they are enabled reaches the same directories.
Computing ==
    {n \in Nodes : work[n].busy /\ (work[n].todo # {} \/ (work[n].pending # {} /\ work[n].progress))}

\* A plan that can become Ready does so at once.  Nothing but BecomeReady tells a
\* Live plan from a Ready one that nobody publishes, so the same directories are
\* reached.
Unready == {p \in plans : p.phase = "Live" /\ Parents(p) \cap retired = {}}

LocalStepsFirst ==
    IF Computing # {} THEN \E n \in Computing : work'[n] # work[n] /\ up' = up
    ELSE Unready = {} \/ \E p \in Unready : p \notin plans'

\* The first split is at the key 1: with three points, a split at 2 gives the
\* mirror image.
FirstSplitAtOne == \A p \in plans : p.kind = "split" /\ p.parent = 1 => p.key = 1
=============================================================================
