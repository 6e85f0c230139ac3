----------------------------- MODULE MCTxnEngine ----------------------------
(* Two batches that write the same two keys in opposite orders. *)
EXTENDS TxnEngine, TLC

CONSTANTS t1, t2, k1, k2

MCWrites == [t \in Txns |-> IF t = t1 THEN <<k1, k2>> ELSE <<k2, k1>>]

\* The instance looks the same with both the transactions and the keys exchanged.
Swap == {f \in Permutations({t1, t2, k1, k2}) :
            <<f[t1], f[t2], f[k1], f[k2]>> \in {<<t1, t2, k1, k2>>, <<t2, t1, k2, k1>>}}

\* Another client interferes with one batch, or the batches with each other.
OneRival ==
    (\E k \in Keys : obj[k].value = "local") =>
        Cardinality({k \in Keys : obj[k].value = "local"}) = 1 /\ \E t \in Txns : drv[t].pc = "idle"

\* Of the reservations whose driver still runs, one at a time gets old.
OneSlow ==
    Cardinality({s \in Slots : \E i \in intent[s] : Attended(i) /\ i.age > 0}) <= 1
=============================================================================
