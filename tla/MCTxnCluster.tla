---------------------------- MODULE MCTxnCluster ----------------------------
(* Two transactions that write the same two keys in opposite orders. *)
EXTENDS TxnCluster, TLC

CONSTANTS t1, t2, k1, k2

MCWrites == [t \in Txns |-> IF t = t1 THEN <<k1, k2>> ELSE <<k2, k1>>]

\* The instance looks the same with both the transactions and the keys exchanged.
Swap == {f \in Permutations({t1, t2, k1, k2}) :
            <<f[t1], f[t2], f[k1], f[k2]>> \in {<<t1, t2, k1, k2>>, <<t2, t1, k2, k1>>}}

\* Any call may fail and a driver may die; those that run act in time.
Faulty == [guarded |-> {}, age |-> 0, versions |-> 0, deletes |-> FALSE,
           faults |-> {"read", "prepare", "decide", "finalize", "discard", "crash"}]

\* Guarded writes, and other clients that write the same keys.
Contended == [guarded |-> Txns, age |-> 0, versions |-> 1, deletes |-> FALSE, faults |-> {}]

\* Drivers so slow that resolvers look at their reservations.
Slow == [guarded |-> Txns, age |-> 1, versions |-> 0, deletes |-> FALSE, faults |-> {}]

\* Other clients delete the keys.
Deleted == [guarded |-> {}, age |-> 0, versions |-> 0, deletes |-> TRUE, faults |-> {}]

SafetyConfigs == {Faulty, Contended, Slow, Deleted}

\* One transaction whose decision calls are answered, for liveness.
LivenessConfigs ==
    {[guarded |-> {}, age |-> 0, versions |-> 0, deletes |-> FALSE,
      faults |-> {"read", "prepare", "finalize", "discard", "crash"}]}
=============================================================================
