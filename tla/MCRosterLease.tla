--------------------------- MODULE MCRosterLease ---------------------------
(* Instances of RosterLease: two nodes, the first the leader; a lease of   *)
(* three units, a guard of one, renewed every unit.                        *)
EXTENDS RosterLease

Budget(t, w, l, s, r, e, d) ==
  [time |-> t, writes |-> w, losses |-> l, stalls |-> s, restarts |-> r, elections |-> e,
   delay |-> d]

(* One write with an election, a lost message or a restart, and messages   *)
(* that are delivered at once; and leases without writes, until they       *)
(* lapse, whose messages take up to a unit, with a restart or a stalled    *)
(* driver.                                                                 *)
OneFaultBudgets ==
  {Budget(1, 1, 0, 0, 0, 1, 0), Budget(1, 1, 1, 0, 0, 0, 0), Budget(4, 1, 0, 0, 1, 0, 0),
   Budget(5, 0, 0, 0, 0, 0, 1), Budget(3, 0, 0, 0, 1, 0, 1), Budget(3, 0, 0, 1, 0, 0, 1)}

(* Bound: next to a write, a node restarts in the first unit. *)
EarlyRestart == budget.restarts = 1 /\ budget.delay = 0 => budget.time = 4
============================================================================
