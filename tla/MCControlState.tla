--------------------------- MODULE MCControlState ---------------------------
(* Finite instance of ControlState for TLC. *)
EXTENDS ControlState, TLC

Symmetry == Permutations(Nodes)

\* Bound: states past this one are not explored.  Nodes stay on the part of
\* their lifecycle that CreateMigration tells apart, tablets are placed in the
\* order of their ids, as genesis and the allocator do, and at most one plan is
\* between its first and its terminal phase: the arms of apply only ask whether
\* a plan is terminal.
Explored ==
    /\ \A n \in Nodes : nodes[n] \in {"Absent", "Joining", "Active"}
    /\ \A t \in Tablets : t > 1 /\ Placed(t) => Placed(t - 1)
    /\ Cardinality({p \in migrations \cup splits \cup merges :
                      p.phase \notin {"Planned", "Completed", "Failed"}}) <= 1
=============================================================================
