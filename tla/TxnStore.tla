------------------------------ MODULE TxnStore ------------------------------
(***************************************************************************)
(* What a tablet does for a transaction: the prepare, finalize and         *)
(* ordinary-write paths of kivi-state/src/store.rs, on the keys the        *)
(* transactions of kivi-state/src/txn.rs use.  The drivers that call it    *)
(* are modules TxnCluster (client and cluster resolver) and TxnEngine      *)
(* (embedded engine).                                                      *)
(*                                                                         *)
(* A slot is a key.  Txns doubles as the set of decision-record keys: slot *)
(* t is the record key of transaction t on its coordinator tablet, a key   *)
(* like any other to the store.  Each step below is one entry applied by   *)
(* the tablet that owns the slot.  Which tablet that is plays no role      *)
(* here: no step touches two slots, and a tablet applies entries in order. *)
(*                                                                         *)
(* Abstractions.  A value is its writer; the record values are Committed,  *)
(* Aborted and Fenced (Aborted with the zero digest of a resolver).  The   *)
(* digest is "own" for the digest of the write set and "zero" for record   *)
(* steps.  The age of a reservation is 0, 1 (older than                    *)
(* RESOLVE_GRACE_MICROS) or 2 (older than MAX_TXN_LIFETIME_MICROS).        *)
(***************************************************************************)
EXTENDS Naturals, FiniteSets

CONSTANTS
    Keys,         \* user keys
    Txns,         \* transaction ids, and their record keys
    MaxVersion    \* bound on the versions ordinary writes create

ASSUME TxnStoreAssumption == Keys \cap Txns = {} /\ "gone" \notin Txns /\ MaxVersion \in Nat

VARIABLES
    obj,         \* slot -> version and value of the live object
    intent,      \* slot -> the reservation on it, if any
    fault,       \* an entry failed to apply: ApplyError::TxnDiverged
    applied,     \* history: how often the write of t was applied to k
    discarded    \* history: keys whose reservation by t was discarded

storeVars == <<obj, intent, fault, applied, discarded>>

Slots == Keys \cup Txns

\* "data" is the TxnId itself; the others are derived from it with salts 0, 1, 2.
Step == {"data", "commit", "abort", "fence"}
Id == Txns \X Step
Decision == {"Committed", "Aborted", "Fenced"}
Value == Txns \cup Decision \cup {"local", "gone"}
Object == [version : Nat, value : Value]
Gone == [version |-> 0, value |-> "gone"]
Intent == [id : Id, digest : {"own", "zero"}, write : Value, age : 0..2, observed : Nat]

\* An operation as a driver sends it.  expect is TxnExpect: {v} for Version(v), {0}
\* for Absent, {} for Any.
Prepare(slot, id, digest, write, expect) ==
    [op |-> "prepare", slot |-> slot, id |-> id, digest |-> digest, write |-> write,
     expect |-> expect, commit |-> FALSE]
Finalize(slot, id, digest, write, commit) ==
    [op |-> "finalize", slot |-> slot, id |-> id, digest |-> digest, write |-> write,
     expect |-> {}, commit |-> commit]

-----------------------------------------------------------------------------
(* Guards. *)

\* The reservation on the slot belongs to another transaction or write set.
Foreign(r) == \E i \in intent[r.slot] : i.id # r.id \/ i.digest # r.digest

\* Mutant: the expected version is not looked at.
ExpectationAny(r) == TRUE

\* check_txn_expectation
ExpectationHolds(r) == r.expect \subseteq {obj[r.slot].version}

\* prepare_txn_reserve and apply_txn_prepare.
CanPrepare(r) == ~Foreign(r) /\ ExpectationHolds(r)

-----------------------------------------------------------------------------
(* Entries. *)

\* apply_txn_prepare
ApplyPrepare(r) ==
    /\ intent' = [intent EXCEPT ![r.slot] =
                     {[id |-> r.id, digest |-> r.digest, write |-> r.write, age |-> 0,
                       observed |-> obj[r.slot].version]}]
    /\ UNCHANGED <<obj, fault, applied, discarded>>

\* The object after a write; PutBytes advances the version, Delete forgets it.
Written(s, write) ==
    IF write = "gone" THEN Gone ELSE [version |-> obj[s].version + 1, value |-> write]

\* apply_txn_finalize.  The write is the entry's: a commit applies whether or not
\* the reservation is still there.  An entry that meets the reservation of another
\* drops it and fails: a replica has logged it by then and stops.  (A durable tablet
\* of the engine tries the entry first and never gets here with one: TxnEngine.)
ApplyFinalize(r) ==
    LET t == r.id[1]
        data == r.id[2] = "data"
    IN  /\ intent' = [intent EXCEPT ![r.slot] = {}]
        /\ fault' = (fault \/ Foreign(r))
        /\ obj' = IF r.commit /\ ~Foreign(r)
                  THEN [obj EXCEPT ![r.slot] = Written(r.slot, r.write)] ELSE obj
        /\ applied' = IF data /\ r.commit /\ ~Foreign(r)
                      THEN [applied EXCEPT ![t][r.slot] = @ + 1] ELSE applied
        /\ discarded' = IF data /\ ~r.commit /\ ~Foreign(r) /\ intent[r.slot] # {}
                        THEN [discarded EXCEPT ![t] = @ \cup {r.slot}] ELSE discarded

\* Any request: a prepare that does not validate changes nothing.
Execute(r) ==
    IF r.op = "finalize" THEN ApplyFinalize(r)
    ELSE IF CanPrepare(r) THEN ApplyPrepare(r)
    ELSE UNCHANGED storeVars

\* Mutant: an ordinary write does not look for reservations.
UnreservedAny(k) == TRUE

\* prepare: a mutating operation on a reserved key is refused with TxnConflict.
Unreserved(k) == intent[k] = {}

\* An ordinary put or delete by some other client.
LocalWrite(k, write) ==
    /\ Unreserved(k)
    /\ write = "gone" \/ obj[k].version < MaxVersion
    /\ obj' = [obj EXCEPT ![k] = Written(k, write)]
    /\ UNCHANGED <<intent, fault, applied, discarded>>

\* Time passes for the reservation on slot s.
Grow(s) ==
    /\ \E i \in intent[s] : i.age < 2 /\ intent' = [intent EXCEPT ![s] = {[i EXCEPT !.age = @ + 1]}]
    /\ UNCHANGED <<obj, fault, applied, discarded>>

\* Requests a driver can have in flight.
Request ==
    [op : {"prepare", "finalize"}, slot : Slots, id : Id, digest : {"own", "zero"},
     write : Value, expect : SUBSET Nat, commit : BOOLEAN]

StoreInit ==
    /\ obj = [s \in Slots |-> Gone]
    /\ intent = [s \in Slots |-> {}]
    /\ fault = FALSE
    /\ applied = [t \in Txns |-> [k \in Keys |-> 0]]
    /\ discarded = [t \in Txns |-> {}]

StoreTypeOK ==
    /\ obj \in [Slots -> Object]
    /\ intent \in [Slots -> SUBSET Intent]
    /\ fault \in BOOLEAN
    /\ applied \in [Txns -> [Keys -> Nat]]
    /\ discarded \in [Txns -> SUBSET Keys]

-----------------------------------------------------------------------------
(* Properties of the store under either driver. *)

\* All writes commit or none does (atomic_batch): no transaction has one write
\* applied and another discarded, whoever finalized them and whatever was lost.
Atomic == \A t \in Txns : (\E k \in Keys : applied[t][k] > 0) => discarded[t] = {}

\* Isolation without MVCC: while a key is reserved, nothing changes it.
ReservedKeyFrozen == \A s \in Slots : \A i \in intent[s] : obj[s].version = i.observed

\* No entry fails to apply: TxnDiverged stops the tablet on every replica.
NeverDiverges == ~fault
=============================================================================
