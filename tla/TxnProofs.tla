----------------------------- MODULE TxnProofs ------------------------------
(***************************************************************************)
(* Proofs about TxnCluster.  The first half has the inductive invariant,   *)
(* and what an entry of a tablet, a request of a driver and the passing of *)
(* a step do to each of its parts; the second shows that every action      *)
(* keeps the invariant, hence transactions are atomic, a reserved key is   *)
(* frozen, a commit covers its reservations, and a decision stands.  They  *)
(* hold for every set of transactions and keys, all write sets, bounds and *)
(* configurations whose drivers act within their lease.                    *)
(* TxnReportProofs adds what the callers are told.                         *)
(***************************************************************************)
EXTENDS TxnCluster, TLAPS

\* A driver acts within the lease of its reservations.
TimelyDrivers == \A c \in Configs : c.age <= 1

Committed(t) == obj[t].value = "Committed"
Refuted(t) == obj[t].value \in {"Aborted", "Fenced"}

\* The decision that a step on a record key writes.
DecisionOf(step) ==
    IF step = "commit" THEN "Committed" ELSE IF step = "abort" THEN "Aborted" ELSE "Fenced"

\* The driver of t is gone for good, with all it has sent.
Dead(t) == drv[t].pc \in {"done", "crashed"} /\ \A r \in late : r.id[1] # t

\* The step of t on its record key holds the key, or has decided.
Bound(t, step) ==
    (\E i \in intent[t] : i.id = <<t, step>>) \/ obj[t].value = DecisionOf(step)

CoveredKey(t, k) == applied[t][k] > 0 \/ Reserves(t, k)

\* A commit of t can be carried out, or will never be.
Secured(t) == Refuted(t) \/ \A k \in WriteSet(t) : CoveredKey(t, k)

\* The slot and the digest that go with an id.
Home(s, id, digest) ==
    IF id[2] = "data" THEN s \in Keys /\ digest = "own" ELSE s = id[1] /\ digest = "zero"

StoreOK ==
    /\ \A s \in Slots : \A i, j \in intent[s] : i = j
    /\ \A s \in Slots : \A i \in intent[s] : Home(s, i.id, i.digest)
    /\ \A t \in Txns :
          /\ obj[t].value \in Decision \cup {"gone"}
          /\ obj[t].version = 0 <=> obj[t].value = "gone"
          /\ intent[t] # {} => obj[t].value = "gone"
    /\ \A t \in Txns : \A k \in Keys : applied[t][k] > 0 => Committed(t)
    /\ \A t \in Txns : discarded[t] # {} => Refuted(t)
    /\ \A t \in Txns : Committed(t) => Secured(t)

\* Only the dead are fenced: an old reservation, and any that a fence made.
IntentOK(i) ==
    LET t == i.id[1]
    IN  /\ drv[t].pc # "idle"
        /\ i.age = 2 \/ i.id[2] = "fence" => Dead(t)
        /\ i.id[2] = "commit" => Secured(t)

\* A request that may be applied now.
Sound(r) ==
    LET t == r.id[1]
        step == r.id[2]
    IN  /\ Home(r.slot, r.id, r.digest)
        /\ r.op = "finalize" /\ step = "data" => IF r.commit THEN Committed(t) ELSE Refuted(t)
        /\ r.op = "prepare" /\ step # "data" => r.expect = {0}
        /\ r.op = "finalize" /\ step # "data" /\ r.commit =>
              /\ r.write = DecisionOf(step)
              /\ IF step = "fence" THEN obj[t].value \in {"gone", "Fenced"} ELSE Bound(t, step)
        /\ r.op = "finalize" /\ step # "data" /\ ~r.commit => Dead(t)
        /\ step = "commit" => Secured(t)
        /\ step = "fence" => Dead(t)
        /\ step \in {"commit", "abort"} /\ (r.op = "prepare" \/ r.commit) => ~Dead(t)

TaskOK(s, w) ==
    LET i == w.intent
        t == i.id[1]
    IN  /\ Home(s, i.id, i.digest) /\ drv[t].pc # "idle"
        /\ i.age = 2 \/ i.id[2] = "fence" => Dead(t)
        /\ i.id[2] = "commit" => Secured(t)
        /\ w.pc \in {"fence", "fenced"} => i.age = 2
        /\ w.pc = "fenced" => i.id[2] = "data" /\ obj[t].value \in {"gone", "Fenced"}
        /\ w.pc = "apply" => i.id[2] = "data" /\ Committed(t)
        /\ w.pc = "discard" => IF i.id[2] = "data" THEN Refuted(t) ELSE Dead(t)

DriverOK(t) ==
    LET d == drv[t]
    IN  /\ d.pc = "prepare" =>
              /\ d.i \in 1..Len(Writes[t])
              /\ Refuted(t) \/ \A j \in 1..(d.i - 1) : CoveredKey(t, Writes[t][j])
        /\ d.pc = "decide" => Secured(t)
        /\ d.pc = "decided" => Secured(t) /\ Bound(t, "commit")
        /\ d.pc = "aborted" => Bound(t, "abort")
        /\ d.pc = "finalize" => Committed(t) /\ d.i \in 1..Len(Writes[t])
        /\ d.pc = "discard" => Refuted(t)

Core ==
    /\ conf.age <= 1
    /\ StoreOK
    /\ \A s \in Slots : \A i \in intent[s] : IntentOK(i)
    /\ \A r \in late : Sound(r) /\ drv[r.id[1]].pc # "idle"
    /\ \A s \in Slots : \A w, v \in res[s] : w = v
    /\ \A s \in Slots : \A w \in res[s] : TaskOK(s, w)
    /\ \A id \in fenced : Dead(id[1])
    /\ \A t \in Txns : DriverOK(t)

\* The inductive invariant.  Nothing happens any more after a fault.
IInv == TypeOK /\ Atomic /\ ReservedKeyFrozen /\ (~fault => Core)

\* What no step undoes: a decision, a fence on its way, a record step on its way,
\* and the reservations that a commit needs.
Advance ==
    /\ \A t \in Txns : obj[t].value \in Decision => obj'[t].value = obj[t].value
    /\ \A t \in Txns : Dead(t) /\ obj[t].value \in {"gone", "Fenced"} => obj'[t].value \in {"gone", "Fenced"}
    /\ \A t \in Txns : \A step \in {"commit", "abort"} : ~Dead(t) /\ Bound(t, step) => Bound(t, step)'
    /\ \A t \in Txns : \A k \in Keys : CoveredKey(t, k) => CoveredKey(t, k)' \/ Refuted(t)'

\* The reservations after a step are those before it and new ones of one id.
OnlyNew(id) ==
    \A s \in Slots : \A i \in intent'[s] :
        (\E j \in intent[s] : j.id = i.id /\ j.age = i.age) \/ (i.id = id /\ i.age = 0)

\* A decision is never replaced.
DecisionsLast == \A t \in Txns : obj[t].value \in Decision => obj'[t].value = obj[t].value

\* What every step has to keep.
Kept == IInv' /\ DecisionsLast

\* What a request of a driver carries: a write that is no delete, to a key of its
\* batch, and the expectation that goes with what the caller read.
RequestCarries(r) ==
    r.id[2] = "data" =>
        /\ r.write # "gone"
        /\ r.op = "prepare" \/ r.commit => r.slot \in WriteSet(r.id[1])
        /\ r.op = "prepare" => r.expect = Expect(r.id[1], r.slot)

\* A request that the driver of t may send now.
Sendable(t, r) ==
    /\ r \in Request /\ Sound(r) /\ r.id[1] = t /\ RequestCarries(r)
    /\ r.id[2] = "commit" /\ r.op = "finalize" => drv[t].pc = "decided"

-----------------------------------------------------------------------------
(* The store. *)

\* An id is a pair.
LEMMA IdParts ==
  ASSUME NEW id \in Id
  PROVE  id[1] \in Txns /\ id[2] \in Step /\ id = <<id[1], id[2]>>
BY DEF Id

\* Entries keep the types of the store.
LEMMA ExecuteTyped ==
  ASSUME StoreTypeOK, NEW r \in Request, r.id[2] = "data" => r.slot \in Keys, Execute(r)
  PROVE  StoreTypeOK'
<1>1. r.id[1] \in Txns /\ r.slot \in Slots /\ r.id \in Id /\ r.write \in Value /\ r.digest \in {"own", "zero"}
  BY IdParts, Zenon DEF Request
<1>2. CASE r.op = "finalize"
  <2>1. Written(r.slot, r.write) \in Object
    BY <1>1 DEF StoreTypeOK, Written, Object, Gone, Value
  <2>2. obj' \in [Slots -> Object] /\ fault' \in BOOLEAN /\ intent' \in [Slots -> SUBSET Intent]
    BY <1>1, <1>2, <2>1, Zenon DEF Execute, ApplyFinalize, StoreTypeOK
  <2>3. applied' \in [Txns -> [Keys -> Nat]]
    <3>1. applied \in [Txns -> [Keys -> Nat]] BY Zenon DEF StoreTypeOK
    <3>2. \/ applied' = applied
          \/ r.id[2] = "data" /\ applied' = [applied EXCEPT ![r.id[1]][r.slot] = @ + 1]
      BY <1>2, Zenon DEF Execute, ApplyFinalize
    <3>3. r.id[2] = "data" => [applied[r.id[1]] EXCEPT ![r.slot] = @ + 1] \in [Keys -> Nat]
      BY <1>1, <3>1
    <3> QED BY <1>1, <3>1, <3>2, <3>3, Zenon
  <2>4. discarded' \in [Txns -> SUBSET Keys]
    <3>1. r.id[2] = "data" => discarded[r.id[1]] \cup {r.slot} \in SUBSET Keys
      BY <1>1, Zenon DEF StoreTypeOK
    <3>2. \/ discarded' = discarded
          \/ r.id[2] = "data" /\ discarded' = [discarded EXCEPT ![r.id[1]] = discarded[r.id[1]] \cup {r.slot}]
      BY <1>2, Zenon DEF Execute, ApplyFinalize
    <3> QED BY <1>1, <3>1, <3>2, Zenon DEF StoreTypeOK
  <2> QED BY <2>2, <2>3, <2>4, Zenon DEF StoreTypeOK
<1>3. CASE r.op # "finalize" /\ CanPrepare(r)
  <2>1. [id |-> r.id, digest |-> r.digest, write |-> r.write, age |-> 0,
         observed |-> obj[r.slot].version] \in Intent
    BY <1>1 DEF Intent, StoreTypeOK, Object
  <2> QED BY <1>1, <1>3, <2>1 DEF Execute, ApplyPrepare, StoreTypeOK
<1>4. CASE r.op # "finalize" /\ ~CanPrepare(r)
  BY <1>4, Zenon DEF Execute, storeVars, StoreTypeOK
<1> QED BY <1>2, <1>3, <1>4, Zenon

\* Entries leave the object of a reserved key alone.
LEMMA ExecuteFrozen ==
  ASSUME StoreTypeOK, ReservedKeyFrozen, NEW r \in Request, Execute(r)
  PROVE  ReservedKeyFrozen'
<1>1. r.slot \in Slots BY Zenon DEF Request
<1>2. CASE r.op = "finalize"
  BY <1>1, <1>2, Zenon DEF Execute, ApplyFinalize, StoreTypeOK, ReservedKeyFrozen
<1>3. CASE r.op # "finalize" /\ CanPrepare(r)
  BY <1>1, <1>3 DEF Execute, ApplyPrepare, StoreTypeOK, ReservedKeyFrozen
<1>4. CASE r.op # "finalize" /\ ~CanPrepare(r)
  BY <1>4, Zenon DEF Execute, storeVars, ReservedKeyFrozen
<1> QED BY <1>2, <1>3, <1>4, Zenon

\* An entry that fails has no effect on the outcome of any transaction.
LEMMA FaultChangesNothing ==
  ASSUME NEW r, Execute(r), ~fault, fault'
  PROVE  UNCHANGED <<obj, applied, discarded>>
<1>1. r.op = "finalize"
  BY Zenon DEF Execute, ApplyPrepare, storeVars
<1>2. Foreign(r)
  BY <1>1, Zenon DEF Execute, ApplyFinalize
<1> QED BY <1>1, <1>2, Zenon DEF Execute, ApplyFinalize

\* Nothing happens to the store.
LEMMA StutterKeeps ==
  ASSUME StoreOK, UNCHANGED <<obj, intent, applied, discarded>>
  PROVE  StoreOK' /\ Advance
<1>1. \A t \in Txns : \A k : CoveredKey(t, k)' = CoveredKey(t, k)
  BY Zenon DEF CoveredKey, Reserves
<1>2. \A t \in Txns : Committed(t)' = Committed(t) /\ Refuted(t)' = Refuted(t)
  BY Zenon DEF Committed, Refuted
<1>3. \A t \in Txns : Secured(t)' = Secured(t)
  BY <1>1, <1>2, Zenon DEF Secured
<1>4. StoreOK'
  BY <1>2, <1>3, Zenon DEF StoreOK, Home
<1>5. Advance
  BY <1>1, <1>2, Zenon DEF Advance, Bound
<1> QED BY <1>4, <1>5, Zenon

\* A finalize of a data id concerns one key.
LEMMA DataFinalizeKeeps ==
  ASSUME StoreTypeOK, StoreOK, NEW r \in Request, Sound(r), r.id[2] = "data",
         r.op = "finalize", Execute(r), ~Foreign(r)
  PROVE  StoreOK' /\ Advance /\ OnlyNew(r.id)
<1> DEFINE t == r.id[1]
           s == r.slot
<1>1. t \in Txns /\ s \in Keys /\ s \in Slots /\ r.id = Data(t)
  BY IdParts, Zenon DEF Request, Sound, Home, Slots, Data
<1>2. \A u \in Txns : u \in Slots /\ u # s
  BY <1>1, TxnStoreAssumption, Zenon DEF Slots
<1>3. \A k \in Keys : k \in Slots
  BY Zenon DEF Slots
<1>4. intent' = [intent EXCEPT ![s] = {}]
  BY Zenon DEF Execute, ApplyFinalize
<1>5. \A u \in Txns : obj'[u] = obj[u] /\ intent'[u] = intent[u]
  BY <1>2, <1>4, Zenon DEF Execute, ApplyFinalize, StoreTypeOK
<1>6. \A i \in intent[s] : i.id = r.id
  BY Zenon DEF Foreign
<1>7. \A u \in Txns : Committed(u)' = Committed(u) /\ Refuted(u)' = Refuted(u)
  BY <1>5, Zenon DEF Committed, Refuted
<1>8. /\ \A u \in Txns : \A k \in Keys : applied[u][k] > 0 => applied'[u][k] > 0
      /\ r.commit => applied'[t][s] > 0
      /\ \A u \in Txns : \A k \in Keys : applied'[u][k] > 0 => applied[u][k] > 0 \/ (u = t /\ r.commit)
  <2>1. applied' = IF r.commit THEN [applied EXCEPT ![t][s] = @ + 1] ELSE applied
    BY Zenon DEF Execute, ApplyFinalize
  <2> QED BY <1>1, <2>1 DEF StoreTypeOK
<1>9. \A u \in Txns : \A k \in Keys : CoveredKey(u, k) => CoveredKey(u, k)' \/ Refuted(u)'
  <2> SUFFICES ASSUME NEW u \in Txns, NEW k \in Keys, CoveredKey(u, k), ~Refuted(u)'
               PROVE  CoveredKey(u, k)'
    BY Zenon
  <2>1. CASE applied[u][k] > 0 BY <2>1, <1>8, Zenon DEF CoveredKey
  <2>2. CASE Reserves(u, k) /\ k # s
    BY <2>2, <1>3, <1>4, Zenon DEF CoveredKey, Reserves, StoreTypeOK
  <2>3. CASE Reserves(u, k) /\ k = s
    <3>1. Data(u) = Data(t) BY <2>3, <1>1, <1>6, Zenon DEF Reserves
    <3>2. u = t BY <3>1, Zenon DEF Data
    <3>3. r.commit BY <3>2, <1>7, Zenon DEF Sound
    <3> QED BY <3>2, <3>3, <2>3, <1>8, Zenon DEF CoveredKey
  <2> QED BY <2>1, <2>2, <2>3, Zenon DEF CoveredKey
<1>10. Advance
  BY <1>5, <1>9, Zenon DEF Advance, Bound
<1>11. \A u \in Txns : Secured(u) => Secured(u)'
  <2>1. \A u \in Txns : WriteSet(u) \subseteq Keys BY TxnClusterAssumption DEF WriteSet
  <2> QED BY <1>7, <1>9, <2>1, Zenon DEF Secured
<1>12. OnlyNew(r.id)
  BY <1>1, <1>4, Zenon DEF OnlyNew, StoreTypeOK
<1>13. \A u \in Txns : discarded'[u] # {} => Refuted(u)
  <2>1. discarded' = discarded \/ (~r.commit /\ discarded' = [discarded EXCEPT ![t] = @ \cup {s}])
    BY Zenon DEF Execute, ApplyFinalize
  <2>2. ~r.commit => Refuted(t) BY Zenon DEF Sound
  <2> QED BY <1>1, <2>1, <2>2, Zenon DEF StoreOK, StoreTypeOK
<1>14. \A u \in Txns : \A k \in Keys : applied'[u][k] > 0 => Committed(u)
  BY <1>1, <1>8 DEF StoreOK, Sound
<1>15. StoreOK'
  <2>1. (\A z \in Slots : \A i, j \in intent[z] : i = j)'
    BY <1>1, <1>4, Zenon DEF StoreOK, StoreTypeOK
  <2>2. (\A z \in Slots : \A i \in intent[z] : Home(z, i.id, i.digest))'
    BY <1>1, <1>4, Zenon DEF StoreOK, StoreTypeOK, Home
  <2>3. (\A u \in Txns : /\ obj[u].value \in Decision \cup {"gone"}
                         /\ obj[u].version = 0 <=> obj[u].value = "gone"
                         /\ intent[u] # {} => obj[u].value = "gone")'
    BY <1>5 DEF StoreOK
  <2> QED BY <2>1, <2>2, <2>3, <1>7, <1>11, <1>13, <1>14, Zenon DEF StoreOK
<1> QED BY <1>10, <1>12, <1>15, Zenon

\* A finalize on a record key concerns one decision.
LEMMA RecordFinalizeKeeps ==
  ASSUME StoreTypeOK, StoreOK, NEW r \in Request, Sound(r), r.id[2] # "data",
         r.op = "finalize", Execute(r), ~Foreign(r)
  PROVE  StoreOK' /\ Advance /\ OnlyNew(r.id)
<1> DEFINE t == r.id[1]
           step == r.id[2]
<1>1. t \in Txns /\ step \in {"commit", "abort", "fence"} /\ r.slot = t /\ t \in Slots /\ r.id = <<t, step>>
  BY IdParts, Zenon DEF Request, Sound, Home, Slots, Step
<1>2. \A k \in Keys : k \in Slots /\ k # t
  BY <1>1, TxnStoreAssumption, Zenon DEF Slots
<1>2a. \A u \in Txns : u \in Slots
  BY Zenon DEF Slots
<1>3. intent' = [intent EXCEPT ![t] = {}] /\ applied' = applied /\ discarded' = discarded
  BY <1>1, Zenon DEF Execute, ApplyFinalize
<1>4. obj' = IF r.commit THEN [obj EXCEPT ![t] = Written(t, r.write)] ELSE obj
  BY <1>1, Zenon DEF Execute, ApplyFinalize
<1>5. \A i \in intent[t] : i.id = r.id
  BY <1>1, Zenon DEF Foreign
<1>6. \A u \in Txns : \A k \in Keys : CoveredKey(u, k)' = CoveredKey(u, k)
  BY <1>2, <1>3, Zenon DEF CoveredKey, Reserves, StoreTypeOK
<1>7. \A u \in Txns : u # t => obj'[u] = obj[u] /\ intent'[u] = intent[u]
  BY <1>1, <1>2a, <1>3, <1>4, Zenon DEF StoreTypeOK
<1>8. r.commit => /\ obj'[t].value = DecisionOf(step) /\ obj'[t].version # 0
                  /\ obj[t].value \in Decision => obj[t].value = DecisionOf(step)
  <2> SUFFICES ASSUME r.commit
               PROVE /\ obj'[t].value = DecisionOf(step) /\ obj'[t].version # 0
                     /\ obj[t].value \in Decision => obj[t].value = DecisionOf(step)
    BY Zenon
  <2>1. r.write = DecisionOf(step) /\ r.write # "gone" /\ obj[t].version \in Nat
    BY <1>1, Zenon DEF Sound, DecisionOf, StoreTypeOK, Object
  <2>2. obj'[t].value = DecisionOf(step) /\ obj'[t].version # 0
    BY <1>1, <1>4, <2>1 DEF Written, StoreTypeOK
  <2>3. CASE step = "fence" BY <2>2, <2>3, Zenon DEF Sound, DecisionOf, Decision
  <2>4. CASE step # "fence"
    <3>1. Bound(t, step) BY <2>4, <1>1, Zenon DEF Sound
    <3>2. (\E i \in intent[t] : TRUE) => obj[t].value = "gone" BY <1>1, Zenon DEF StoreOK
    <3> QED BY <2>2, <3>1, <3>2, Zenon DEF Bound, Decision
  <2> QED BY <2>2, <2>3, <2>4, Zenon
<1>9. \A u \in Txns : obj[u].value \in Decision => obj'[u].value = obj[u].value
  BY <1>4, <1>7, <1>8, Zenon
<1>10. \A u \in Txns : Dead(u) /\ obj[u].value \in {"gone", "Fenced"} => obj'[u].value \in {"gone", "Fenced"}
  <2>1. Dead(t) /\ r.commit => step = "fence" BY <1>1, Zenon DEF Sound
  <2> QED BY <2>1, <1>4, <1>7, <1>8, Zenon DEF DecisionOf
<1>11. \A u \in Txns : \A y \in {"commit", "abort"} : ~Dead(u) /\ Bound(u, y) => Bound(u, y)'
  <2> SUFFICES ASSUME NEW u \in Txns, NEW y \in {"commit", "abort"}, ~Dead(u), Bound(u, y)
               PROVE  Bound(u, y)'
    BY Zenon
  <2>1. CASE u # t BY <2>1, <1>7, Zenon DEF Bound
  <2>2. CASE u = t
    <3>1. r.commit BY <2>2, <1>1, Zenon DEF Sound
    <3>2. CASE \E i \in intent[t] : i.id = <<t, y>>
      <4>1. y = step BY <3>2, <1>1, <1>5
      <4> QED BY <2>2, <3>1, <4>1, <1>8, Zenon DEF Bound
    <3>3. CASE obj[t].value = DecisionOf(y)
      BY <2>2, <3>3, <1>9, <1>1, Zenon DEF Bound, DecisionOf, Decision
    <3> QED BY <2>2, <3>2, <3>3, Zenon DEF Bound
  <2> QED BY <2>1, <2>2, Zenon
<1>12. Advance
  BY <1>6, <1>9, <1>10, <1>11, Zenon DEF Advance
<1>13. OnlyNew(r.id)
  BY <1>1, <1>3, Zenon DEF OnlyNew, StoreTypeOK
<1>14. \A u \in Txns : Secured(u) => Secured(u)'
  <2>1. \A u \in Txns : WriteSet(u) \subseteq Keys BY TxnClusterAssumption DEF WriteSet
  <2> QED BY <2>1, <1>6, <1>9, Zenon DEF Secured, Refuted, Decision
<1>15. StoreOK'
  <2>1. (\A z \in Slots : \A i, j \in intent[z] : i = j)'
    BY <1>1, <1>3, Zenon DEF StoreOK, StoreTypeOK
  <2>2. (\A z \in Slots : \A i \in intent[z] : Home(z, i.id, i.digest))'
    BY <1>1, <1>3, Zenon DEF StoreOK, StoreTypeOK, Home
  <2>3. (\A u \in Txns : /\ obj[u].value \in Decision \cup {"gone"}
                         /\ obj[u].version = 0 <=> obj[u].value = "gone"
                         /\ intent[u] # {} => obj[u].value = "gone")'
    <3> SUFFICES ASSUME NEW u \in Txns
                 PROVE (/\ obj[u].value \in Decision \cup {"gone"}
                        /\ obj[u].version = 0 <=> obj[u].value = "gone"
                        /\ intent[u] # {} => obj[u].value = "gone")'
      BY Zenon
    <3>1. CASE u # t BY <3>1, <1>7 DEF StoreOK
    <3>2. CASE u = t /\ r.commit
      BY <3>2, <1>1, <1>3, <1>8, Zenon DEF StoreTypeOK, DecisionOf, Decision
    <3>3. CASE u = t /\ ~r.commit
      BY <3>3, <1>1, <1>3, <1>4, Zenon DEF StoreTypeOK, StoreOK
    <3> QED BY <3>1, <3>2, <3>3, Zenon
  <2>4. (\A u \in Txns : \A k \in Keys : applied[u][k] > 0 => Committed(u))'
    BY <1>3, <1>9, Zenon DEF StoreOK, Committed, Decision
  <2>5. (\A u \in Txns : discarded[u] # {} => Refuted(u))'
    BY <1>3, <1>9, Zenon DEF StoreOK, Refuted, Decision
  <2>6. ASSUME NEW u \in Txns, Committed(u)' PROVE Secured(u)'
    <3>1. CASE Committed(u) BY <3>1, <1>14, Zenon DEF StoreOK
    <3>2. CASE ~Committed(u)
      <4>1. u = t /\ r.commit BY <2>6, <3>2, <1>4, <1>7, Zenon DEF Committed
      <4>2. step = "commit" BY <2>6, <4>1, <1>1, <1>8, Zenon DEF Committed, DecisionOf
      <4> QED BY <4>1, <4>2, <1>14, Zenon DEF Sound
    <3> QED BY <3>1, <3>2, Zenon
  <2> QED BY <2>1, <2>2, <2>3, <2>4, <2>5, <2>6, Zenon DEF StoreOK
<1> QED BY <1>12, <1>13, <1>15, Zenon

\* A reservation is made where there was none, or again for the same id.
LEMMA PrepareKeeps ==
  ASSUME StoreTypeOK, StoreOK, NEW r \in Request, Sound(r), r.op = "prepare", Execute(r), CanPrepare(r)
  PROVE  StoreOK' /\ Advance /\ OnlyNew(r.id)
<1> DEFINE s == r.slot
           new == [id |-> r.id, digest |-> r.digest, write |-> r.write, age |-> 0,
                   observed |-> obj[s].version]
<1>1. s \in Slots /\ r.id[1] \in Txns /\ r.id[2] \in Step /\ r.id = <<r.id[1], r.id[2]>>
  BY IdParts, Zenon DEF Request
<1>2. intent' = [intent EXCEPT ![s] = {new}] /\ UNCHANGED <<obj, applied, discarded>>
  BY Zenon DEF Execute, ApplyPrepare
<1>3. \A i \in intent[s] : i.id = r.id
  BY Zenon DEF CanPrepare, Foreign
<1>5. \A z \in Slots : \A id : (\E i \in intent[z] : i.id = id) => (\E i \in intent'[z] : i.id = id)
  <2> SUFFICES ASSUME NEW z \in Slots, NEW id, NEW i \in intent[z], i.id = id
               PROVE  \E j \in intent'[z] : j.id = id
    BY Zenon
  <2>1. CASE z # s BY <2>1, <1>2, Zenon DEF StoreTypeOK
  <2>2. CASE z = s
    <3>1. id = r.id /\ new \in intent'[z] BY <2>2, <1>1, <1>2, <1>3, Zenon DEF StoreTypeOK
    <3> QED BY <3>1, Zenon
  <2> QED BY <2>1, <2>2, Zenon
<1>6. \A u \in Txns : \A k \in Keys : CoveredKey(u, k) => CoveredKey(u, k)'
  BY <1>2, <1>5, Zenon DEF CoveredKey, Reserves, Slots
<1>7. \A u \in Txns : Committed(u)' = Committed(u) /\ Refuted(u)' = Refuted(u)
  BY <1>2, Zenon DEF Committed, Refuted
<1>8. Advance
  BY <1>2, <1>5, <1>6 DEF Advance, Bound, Slots
<1>9. OnlyNew(r.id)
  BY <1>1, <1>2 DEF OnlyNew, StoreTypeOK
<1>10. \A u \in Txns : Secured(u) => Secured(u)'
  <2>1. \A u \in Txns : WriteSet(u) \subseteq Keys BY TxnClusterAssumption DEF WriteSet
  <2> QED BY <2>1, <1>6, <1>7, Zenon DEF Secured
<1>11. StoreOK'
  <2>1. (\A z \in Slots : \A i, j \in intent[z] : i = j)' BY <1>1, <1>2 DEF StoreOK, StoreTypeOK
  <2>2. (\A z \in Slots : \A i \in intent[z] : Home(z, i.id, i.digest))'
    <3> SUFFICES ASSUME NEW z \in Slots, NEW i \in intent'[z] PROVE Home(z, i.id, i.digest)
      BY Zenon DEF Home
    <3>1. CASE z # s BY <3>1, <1>2 DEF StoreOK, StoreTypeOK
    <3>2. CASE z = s BY <3>2, <1>1, <1>2 DEF Sound, StoreTypeOK
    <3> QED BY <3>1, <3>2, Zenon
  <2>3. ASSUME NEW u \in Txns, intent'[u] # {} PROVE obj[u].value = "gone"
    <3>1. CASE u # s BY <2>3, <3>1, <1>2, Zenon DEF StoreOK, StoreTypeOK, Slots
    <3>2. CASE u = s
      <4>1. r.id[2] # "data" BY <3>2, TxnStoreAssumption, Zenon DEF Sound, Home
      <4>2. r.expect = {0} BY <4>1, Zenon DEF Sound
      <4>3. obj[s].version = 0 BY <4>2, Zenon DEF CanPrepare, ExpectationHolds
      <4> QED BY <3>2, <4>3, Zenon DEF StoreOK
    <3> QED BY <3>1, <3>2, Zenon
  <2>4. (\A u \in Txns : /\ obj[u].value \in Decision \cup {"gone"}
                         /\ obj[u].version = 0 <=> obj[u].value = "gone"
                         /\ intent[u] # {} => obj[u].value = "gone")'
    BY <2>3, <1>2, Zenon DEF StoreOK
  <2> QED BY <2>1, <2>2, <2>4, <1>2, <1>7, <1>10, Zenon DEF StoreOK
<1> QED BY <1>8, <1>9, <1>11, Zenon

\* Any sound request that does not fail.
LEMMA ExecuteKeeps ==
  ASSUME StoreTypeOK, StoreOK, NEW r \in Request, Sound(r), Execute(r), ~fault'
  PROVE  StoreOK' /\ Advance /\ OnlyNew(r.id)
<1>1. CASE r.op = "finalize"
  <2>1. ~Foreign(r) BY <1>1, Zenon DEF Execute, ApplyFinalize
  <2> QED BY <1>1, <2>1, DataFinalizeKeeps, RecordFinalizeKeeps, Zenon
<1>2. CASE r.op # "finalize" /\ CanPrepare(r)
  BY <1>2, PrepareKeeps, Zenon DEF Request
<1>3. CASE r.op # "finalize" /\ ~CanPrepare(r)
  <2>1. UNCHANGED <<obj, intent, applied, discarded>> BY <1>3, Zenon DEF Execute, storeVars
  <2>2. OnlyNew(r.id) BY <2>1, Zenon DEF OnlyNew
  <2> QED BY <2>1, <2>2, StutterKeeps, Zenon
<1> QED BY <1>1, <1>2, <1>3, Zenon

\* Atomicity is in StoreOK.
LEMMA StoreOKIsAtomic ==
  StoreOK' => Atomic'
<1> SUFFICES ASSUME StoreOK', NEW t \in Txns, NEW k \in Keys, applied'[t][k] > 0, discarded'[t] # {}
             PROVE  FALSE
  BY Zenon DEF Atomic
<1>1. Committed(t)' /\ Refuted(t)' BY Zenon DEF StoreOK
<1> QED BY <1>1, Zenon DEF Committed, Refuted

\* What a sound request does to the store.
LEMMA ExecuteInv ==
  ASSUME TypeOK, Atomic, ReservedKeyFrozen, StoreOK, ~fault, NEW r \in Request, Sound(r), Execute(r)
  PROVE  /\ StoreTypeOK' /\ ReservedKeyFrozen' /\ Atomic'
         /\ DecisionsLast
         /\ ~fault' => StoreOK' /\ Advance /\ OnlyNew(r.id)
<1>1. StoreTypeOK BY Zenon DEF TypeOK
<1>2. StoreTypeOK' BY <1>1, ExecuteTyped, Zenon DEF Sound, Home
<1>3. ReservedKeyFrozen' BY <1>1, ExecuteFrozen, Zenon
<1>4. ~fault' => StoreOK' /\ Advance /\ OnlyNew(r.id) BY <1>1, ExecuteKeeps, Zenon
<1>5. Atomic' /\ DecisionsLast
  <2>1. CASE ~fault' BY <2>1, <1>4, StoreOKIsAtomic, Zenon DEF Advance, DecisionsLast
  <2>2. CASE fault'
    <3>1. UNCHANGED <<obj, applied, discarded>> BY <2>2, FaultChangesNothing, Zenon
    <3> QED BY <3>1, Zenon DEF Atomic, DecisionsLast
  <2> QED BY <2>1, <2>2, Zenon
<1> QED BY <1>2, <1>3, <1>4, <1>5, Zenon

-----------------------------------------------------------------------------
(* What a step leaves of the rest. *)

\* The dead stay dead.
DeadStay == \A t \in Txns : Dead(t) => Dead(t)'

\* Decisions and what secures them last.
LEMMA Lasting ==
  ASSUME Advance, NEW t \in Txns
  PROVE  /\ Committed(t) => Committed(t)'
         /\ Refuted(t) => Refuted(t)'
         /\ Secured(t) => Secured(t)'
<1>1. Committed(t) => Committed(t)' BY Zenon DEF Advance, Committed, Decision
<1>2. Refuted(t) => Refuted(t)' BY Zenon DEF Advance, Refuted, Decision
<1>3. WriteSet(t) \subseteq Keys BY TxnClusterAssumption DEF WriteSet
<1>4. Secured(t) => Secured(t)' BY <1>2, <1>3, Zenon DEF Secured, Advance
<1> QED BY <1>1, <1>2, <1>4, Zenon

\* A request of a driver that is not dead stays sound.
LEMMA SoundLasts ==
  ASSUME Advance, NEW r \in Request, Sound(r), ~Dead(r.id[1]), ~Dead(r.id[1])'
  PROVE  Sound(r)'
<1> DEFINE t == r.id[1]
<1>1. t \in Txns /\ r.id[2] \in Step BY IdParts, Zenon DEF Request
<1>2. /\ Committed(t) => Committed(t)'
      /\ Refuted(t) => Refuted(t)'
      /\ Secured(t) => Secured(t)'
  BY <1>1, Lasting, Zenon
<1>3. \A step \in {"commit", "abort"} : Bound(t, step) => Bound(t, step)'
  BY <1>1, Zenon DEF Advance
<1>4. r.id[2] # "fence" BY Zenon DEF Sound
<1>5. r.id[2] \in {"data", "commit", "abort"} BY <1>1, <1>4, Zenon DEF Step
<1> QED BY <1>2, <1>3, <1>4, <1>5, Zenon DEF Sound, Home

\* So does the knowledge of a resolver task.
LEMMA TaskLasts ==
  ASSUME Advance, DeadStay, NEW s \in Slots, NEW w \in Task, TaskOK(s, w),
         \A t \in Txns : drv[t].pc # "idle" => drv'[t].pc # "idle"
  PROVE  TaskOK(s, w)'
<1> DEFINE t == w.intent.id[1]
<1>1. t \in Txns BY IdParts, Zenon DEF Task, Intent
<1>2. (Committed(t) => Committed(t)') /\ (Refuted(t) => Refuted(t)') /\ (Secured(t) => Secured(t)')
  BY <1>1, Lasting, Zenon
<1>3. Dead(t) => Dead(t)' BY <1>1, Zenon DEF DeadStay
<1>4. w.pc = "fenced" => obj'[t].value \in {"gone", "Fenced"} BY <1>1, Zenon DEF TaskOK, Advance
<1> QED BY <1>1, <1>2, <1>3, <1>4, Zenon DEF TaskOK, Home

\* And that of a driver.
LEMMA DriverLasts ==
  ASSUME TypeOK, Advance, NEW t \in Txns, DriverOK(t), drv'[t] = drv[t]
  PROVE  DriverOK(t)'
<1>1. (Committed(t) => Committed(t)') /\ (Refuted(t) => Refuted(t)') /\ (Secured(t) => Secured(t)')
  BY Lasting, Zenon
<1>2. drv[t].pc \in {"decided", "aborted"} => ~Dead(t) BY Zenon DEF Dead
<1>3. drv[t].pc = "decided" => Bound(t, "commit")' BY <1>2, Zenon DEF DriverOK, Advance
<1>4. drv[t].pc = "aborted" => Bound(t, "abort")' BY <1>2, Zenon DEF DriverOK, Advance
<1>5. drv[t].pc = "prepare" => Refuted(t)' \/ \A j \in 1..(drv[t].i - 1) : CoveredKey(t, Writes[t][j])'
  <2> SUFFICES ASSUME drv[t].pc = "prepare", ~Refuted(t)', NEW j \in 1..(drv[t].i - 1)
               PROVE  CoveredKey(t, Writes[t][j])'
    BY Zenon
  <2>1. drv[t].i \in 1..Len(Writes[t]) /\ CoveredKey(t, Writes[t][j])
    BY <1>1, Zenon DEF DriverOK
  <2>2. Writes[t] \in Seq(Keys) BY TxnClusterAssumption, Zenon
  <2>3. j \in 1..Len(Writes[t]) BY <2>1, <2>2
  <2>4. Writes[t][j] \in Keys BY <2>2, <2>3
  <2> QED BY <2>1, <2>4, Zenon DEF Advance
<1> QED BY <1>1, <1>3, <1>4, <1>5, Zenon DEF DriverOK

\* All of it together.
LEMMA CoreLasts ==
  ASSUME TypeOK, Core, StoreOK', Advance, DeadStay, conf' = conf,
         \A t \in Txns : drv[t].pc # "idle" => drv'[t].pc # "idle",
         \A s \in Slots : \A i \in intent'[s] :
            i.id \in Id /\ ((\E j \in intent[s] : j.id = i.id /\ j.age = i.age) \/ IntentOK(i)'),
         \A r \in late' : r \in late \/ (r \in Request /\ Sound(r) /\ ~Dead(r.id[1])),
         \A r \in late' : drv'[r.id[1]].pc # "idle",
         \A s \in Slots : \A w, v \in res'[s] : w = v,
         \A s \in Slots : \A w \in res'[s] : w \in res[s] \/ TaskOK(s, w)',
         \A id \in fenced' : id \in fenced \/ (id \in Id /\ Dead(id[1])),
         \A t \in Txns : drv'[t] = drv[t] \/ DriverOK(t)'
  PROVE  Core'
<1>1. \A s \in Slots : \A i \in intent'[s] : IntentOK(i)'
  <2> SUFFICES ASSUME NEW s \in Slots, NEW i \in intent'[s], NEW j \in intent[s],
                      j.id = i.id, j.age = i.age
               PROVE  IntentOK(i)'
    BY Zenon
  <2>1. i.id[1] \in Txns BY IdParts, Zenon
  <2>2. IntentOK(j) BY Zenon DEF Core
  <2>3. Dead(i.id[1]) => Dead(i.id[1])' BY <2>1, Zenon DEF DeadStay
  <2>4. Secured(i.id[1]) => Secured(i.id[1])' BY <2>1, Lasting, Zenon
  <2> QED BY <2>1, <2>2, <2>3, <2>4, Zenon DEF IntentOK
<1>2. \A r \in late' : Sound(r)'
  <2> SUFFICES ASSUME NEW r \in late' PROVE Sound(r)'
    BY Zenon
  <2>1. r \in Request /\ Sound(r) /\ ~Dead(r.id[1]) BY Zenon DEF TypeOK, Core, Dead
  <2>2. ~Dead(r.id[1])' BY Zenon DEF Dead
  <2> QED BY <2>1, <2>2, SoundLasts, Zenon
<1>3. \A s \in Slots : \A w \in res'[s] : TaskOK(s, w)'
  BY TaskLasts, Zenon DEF Core, TypeOK
<1>4. \A id \in fenced' : Dead(id[1])'
  BY IdParts, Zenon DEF DeadStay, Core, TypeOK
<1>5. \A t \in Txns : DriverOK(t)'
  BY DriverLasts, Zenon DEF Core
<1> QED BY <1>1, <1>2, <1>3, <1>4, <1>5, Zenon DEF Core

\* The reservations after a sound request.
LEMMA NewIntents ==
  ASSUME StoreTypeOK', NEW r \in Request, Sound(r), OnlyNew(r.id), Advance, DeadStay,
         drv'[r.id[1]].pc # "idle"
  PROVE  \A s \in Slots : \A i \in intent'[s] :
            i.id \in Id /\ ((\E j \in intent[s] : j.id = i.id /\ j.age = i.age) \/ IntentOK(i)')
<1> SUFFICES ASSUME NEW s \in Slots, NEW i \in intent'[s]
             PROVE  i.id \in Id /\ ((\E j \in intent[s] : j.id = i.id /\ j.age = i.age) \/ IntentOK(i)')
  BY Zenon
<1>1. i.id \in Id BY DEF StoreTypeOK, Intent
<1>2. r.id[1] \in Txns BY IdParts, Zenon DEF Request
<1>3. CASE i.id = r.id /\ i.age = 0
  <2>1. r.id[2] = "fence" => Dead(r.id[1])' BY <1>2, Zenon DEF Sound, DeadStay
  <2>2. r.id[2] = "commit" => Secured(r.id[1])' BY <1>2, Lasting, Zenon DEF Sound
  <2> QED BY <1>1, <1>3, <2>1, <2>2 DEF IntentOK
<1> QED BY <1>1, <1>3, Zenon DEF OnlyNew

-----------------------------------------------------------------------------
(* Drivers. *)

Driver == [pc : Pc, i : Nat, prepared : SUBSET Keys, outcome : Outcome, redrives : 0..MaxRedrives]

\* Only the driver of t moves, and it has begun.
Moved(t) ==
    /\ drv' \in [Txns -> Driver]
    /\ \A u \in Txns \ {t} : drv'[u] = drv[u]
    /\ drv'[t].pc # "idle"

\* The driver of t is in the middle of its work.
Working(t) == drv[t].pc \notin {"idle", "done", "crashed"}

\* A move of one driver, without its call.
LEMMA MovedFacts ==
  ASSUME TypeOK, Core, NEW t \in Txns, Moved(t), drv[t].pc \notin {"done", "crashed"},
         \A r \in late' : r \in late \/ r.id[1] = t
  PROVE  /\ DeadStay
         /\ \A u \in Txns : drv[u].pc # "idle" => drv'[u].pc # "idle"
         /\ \A r \in late' : drv'[r.id[1]].pc # "idle"
<1>1. ~Dead(t) BY Zenon DEF Dead
<1>2. \A u \in Txns : u # t /\ Dead(u) => Dead(u)' BY Zenon DEF Dead, Moved
<1>3. \A u \in Txns : drv[u].pc # "idle" => drv'[u].pc # "idle" BY Zenon DEF Moved
<1>4. \A r \in late : r.id[1] \in Txns BY IdParts, Zenon DEF TypeOK, Request
<1>5. \A r \in late' : drv'[r.id[1]].pc # "idle" BY <1>3, <1>4, Zenon DEF Core, Moved
<1> QED BY <1>1, <1>2, <1>3, <1>5, Zenon DEF DeadStay

\* A driver's request is answered.
LEMMA CallServed ==
  ASSUME IInv, ~fault, NEW t \in Txns, Working(t), Moved(t), NEW r, Sendable(t, r), Served(r),
         ~fault' /\ StoreOK' /\ Advance => DriverOK(t)'
  PROVE  Kept
<1>r. r \in Request /\ Sound(r) /\ r.id[1] = t BY Zenon DEF Sendable
<1>1. TypeOK /\ Core /\ StoreOK /\ Atomic /\ ReservedKeyFrozen BY Zenon DEF IInv, Core
<1>2. /\ StoreTypeOK' /\ ReservedKeyFrozen' /\ Atomic' /\ DecisionsLast
      /\ ~fault' => StoreOK' /\ Advance /\ OnlyNew(r.id)
  BY <1>1, <1>r, ExecuteInv, Zenon DEF Served
<1>3. UNCHANGED <<conf, seen, late, faults, res, fenced>> BY Zenon DEF Served
<1>4. TypeOK' BY <1>1, <1>2, <1>3, Zenon DEF TypeOK, Moved, Driver
<1>5. ASSUME ~fault' PROVE Core'
  <2>1. StoreOK' /\ Advance /\ OnlyNew(r.id) /\ DriverOK(t)' BY <1>2, <1>5, Zenon
  <2>2. /\ DeadStay
        /\ \A u \in Txns : drv[u].pc # "idle" => drv'[u].pc # "idle"
        /\ \A q \in late' : drv'[q.id[1]].pc # "idle"
    BY <1>1, <1>3, MovedFacts, Zenon DEF Working
  <2>3. \A s \in Slots : \A i \in intent'[s] :
           i.id \in Id /\ ((\E j \in intent[s] : j.id = i.id /\ j.age = i.age) \/ IntentOK(i)')
    BY <1>2, <1>r, <2>1, <2>2, NewIntents, Zenon DEF Moved
  <2>4. \A u \in Txns : drv'[u] = drv[u] \/ DriverOK(u)' BY <2>1, Zenon DEF Moved
  <2>5. \A s \in Slots : \A w, v \in res'[s] : w = v BY <1>1, <1>3, Zenon DEF Core
  <2> QED BY <1>1, <1>3, <2>1, <2>2, <2>3, <2>4, <2>5, CoreLasts, Zenon
<1> QED BY <1>2, <1>4, <1>5, Zenon DEF IInv, Kept

\* A driver moves while the store stays: a read, or a lost call.
LEMMA StoreStays ==
  ASSUME IInv, ~fault, NEW t \in Txns, Moved(t), drv[t].pc \notin {"done", "crashed"},
         UNCHANGED <<conf, storeVars, res, fenced>>, seen' \in [Txns -> [Keys -> Object]],
         faults' \in 0..MaxFaults,
         \A r \in late' : r \in late \/ (r \in Request /\ Sound(r) /\ r.id[1] = t),
         StoreOK' /\ Advance => DriverOK(t)'
  PROVE  Kept
<1>1. TypeOK /\ Core /\ StoreOK /\ Atomic /\ ReservedKeyFrozen BY Zenon DEF IInv, Core
<1>2. UNCHANGED <<obj, intent, fault, applied, discarded>> BY Zenon DEF storeVars
<1>3. StoreOK' /\ Advance BY <1>1, <1>2, StutterKeeps, Zenon
<1>4. TypeOK' BY <1>1, <1>2, Zenon DEF TypeOK, StoreTypeOK, Moved, Driver
<1>5. Atomic' /\ ReservedKeyFrozen' BY <1>1, <1>2, Zenon DEF Atomic, ReservedKeyFrozen
<1>6. /\ DeadStay
      /\ \A u \in Txns : drv[u].pc # "idle" => drv'[u].pc # "idle"
      /\ \A q \in late' : drv'[q.id[1]].pc # "idle"
  BY <1>1, MovedFacts, Zenon
<1>7. ~Dead(t) BY Zenon DEF Dead
<1>8. \A s \in Slots : \A i \in intent'[s] : i.id \in Id /\ \E j \in intent[s] : j.id = i.id /\ j.age = i.age
  <2>1. \A s \in Slots : \A i \in intent[s] : i.id \in Id
    BY <1>1 DEF TypeOK, StoreTypeOK, Intent
  <2> QED BY <1>2, <2>1, Zenon
<1>9. \A u \in Txns : drv'[u] = drv[u] \/ DriverOK(u)' BY <1>3, Zenon DEF Moved
<1>10. \A s \in Slots : \A w, v \in res'[s] : w = v BY <1>1, Zenon DEF Core
<1>11. \A r \in late' : r \in late \/ (r \in Request /\ Sound(r) /\ ~Dead(r.id[1]))
  BY <1>7, Zenon
<1>12. Core' BY <1>1, <1>3, <1>6, <1>8, <1>9, <1>10, <1>11, CoreLasts
<1>13. DecisionsLast BY <1>2, Zenon DEF DecisionsLast
<1> QED BY <1>4, <1>5, <1>12, <1>13, Zenon DEF IInv, Kept

\* The record is read, or the read is lost.
LEMMA CallRead ==
  ASSUME IInv, ~fault, NEW t \in Txns, Working(t), Moved(t),
         Read \/ \E call : Lost(call, {}),
         StoreOK' /\ Advance => DriverOK(t)'
  PROVE  Kept
<1>1. TypeOK BY Zenon DEF IInv
<1>2. UNCHANGED <<conf, storeVars, res, fenced, seen, late>> BY Zenon DEF Read, Lost
<1>3. faults' \in 0..MaxFaults BY <1>1, TxnClusterAssumption DEF TypeOK, Read, Lost
<1>4. seen' \in [Txns -> [Keys -> Object]] BY <1>1, <1>2, Zenon DEF TypeOK
<1> QED BY <1>2, <1>3, <1>4, StoreStays, Zenon DEF Working

\* A request is lost.
LEMMA CallLost ==
  ASSUME IInv, ~fault, NEW t \in Txns, Working(t), Moved(t), NEW r, Sendable(t, r),
         NEW call, Lost(call, {r}),
         StoreOK' /\ Advance => DriverOK(t)'
  PROVE  Kept
<1>1. TypeOK BY Zenon DEF IInv
<1>2. UNCHANGED <<conf, storeVars, res, fenced, seen>> /\ late' = late \cup {r}
  BY Zenon DEF Lost
<1>3. faults' \in 0..MaxFaults BY <1>1, TxnClusterAssumption DEF TypeOK, Lost
<1>4. seen' \in [Txns -> [Keys -> Object]] BY <1>1, <1>2, Zenon DEF TypeOK
<1>r. r \in Request /\ Sound(r) /\ r.id[1] = t BY Zenon DEF Sendable
<1> QED BY <1>r, <1>2, <1>3, <1>4, StoreStays, Zenon DEF Working

-----------------------------------------------------------------------------
(* The moves of a driver. *)

LEMMA GoMoves ==
  ASSUME TypeOK, NEW t \in Txns, NEW pc \in Pc \ {"idle"}, Go(t, pc)
  PROVE  Moved(t) /\ drv'[t].pc = pc /\ drv'[t].outcome = drv[t].outcome
<1>1. drv \in [Txns -> Driver] BY Zenon DEF TypeOK, Driver
<1>2. [drv[t] EXCEPT !.pc = pc] \in Driver BY <1>1, Zenon DEF Driver
<1>3. drv' = [drv EXCEPT ![t] = [drv[t] EXCEPT !.pc = pc]] BY <1>1, Zenon DEF Go
<1>4. drv'[t] = [drv[t] EXCEPT !.pc = pc] BY <1>1, <1>3, Zenon
<1>5. drv'[t].pc = pc /\ drv'[t].outcome = drv[t].outcome BY <1>1, <1>4, Zenon DEF Driver
<1>6. drv' \in [Txns -> Driver] /\ \A u \in Txns \ {t} : drv'[u] = drv[u]
  BY <1>1, <1>2, <1>3, Zenon
<1> QED BY <1>5, <1>6, Zenon DEF Moved

LEMMA FinishMoves ==
  ASSUME TypeOK, NEW t \in Txns, NEW outcome \in Outcome, Finish(t, outcome)
  PROVE  Moved(t) /\ drv'[t].pc = "done" /\ drv'[t].outcome = outcome
<1>1. drv \in [Txns -> Driver] BY Zenon DEF TypeOK, Driver
<1>2. [drv[t] EXCEPT !.pc = "done", !.outcome = outcome] \in Driver
  BY <1>1, Zenon DEF Driver, Pc
<1>3. drv' = [drv EXCEPT ![t] = [drv[t] EXCEPT !.pc = "done", !.outcome = outcome]]
  BY <1>1, Zenon DEF Finish
<1>4. drv'[t] = [drv[t] EXCEPT !.pc = "done", !.outcome = outcome] BY <1>1, <1>3, Zenon
<1>5. drv'[t].pc = "done" /\ drv'[t].outcome = outcome BY <1>1, <1>4, Zenon DEF Driver
<1>6. drv' \in [Txns -> Driver] /\ \A u \in Txns \ {t} : drv'[u] = drv[u]
  BY <1>1, <1>2, <1>3, Zenon
<1> QED BY <1>5, <1>6, Zenon DEF Moved

LEMMA StartAbortMoves ==
  ASSUME TypeOK, NEW t \in Txns, NEW outcome \in Outcome, StartAbort(t, outcome)
  PROVE  Moved(t) /\ drv'[t].pc = "abort" /\ drv'[t].outcome = outcome
<1>1. drv \in [Txns -> Driver] BY Zenon DEF TypeOK, Driver
<1>2. [drv[t] EXCEPT !.pc = "abort", !.outcome = outcome] \in Driver
  BY <1>1, Zenon DEF Driver, Pc
<1>3. drv' = [drv EXCEPT ![t] = [drv[t] EXCEPT !.pc = "abort", !.outcome = outcome]]
  BY <1>1, Zenon DEF StartAbort
<1>4. drv'[t] = [drv[t] EXCEPT !.pc = "abort", !.outcome = outcome] BY <1>1, <1>3, Zenon
<1>5. drv'[t].pc = "abort" /\ drv'[t].outcome = outcome BY <1>1, <1>4, Zenon DEF Driver
<1>6. drv' \in [Txns -> Driver] /\ \A u \in Txns \ {t} : drv'[u] = drv[u]
  BY <1>1, <1>2, <1>3, Zenon
<1> QED BY <1>5, <1>6, Zenon DEF Moved

LEMMA StartWaveMoves ==
  ASSUME TypeOK, NEW t \in Txns, NEW pc \in Pc \ {"idle"}, StartWave(t, pc)
  PROVE  Moved(t) /\ drv'[t].pc = pc /\ drv'[t].i = 1 /\ drv'[t].outcome = drv[t].outcome
<1>1. drv \in [Txns -> Driver] BY Zenon DEF TypeOK, Driver
<1>2. [drv[t] EXCEPT !.pc = pc, !.i = 1] \in Driver BY <1>1, Zenon DEF Driver
<1>3. drv' = [drv EXCEPT ![t] = [drv[t] EXCEPT !.pc = pc, !.i = 1]] BY <1>1, Zenon DEF StartWave
<1>4. drv'[t] = [drv[t] EXCEPT !.pc = pc, !.i = 1] BY <1>1, <1>3, Zenon
<1>5. drv'[t].pc = pc /\ drv'[t].i = 1 /\ drv'[t].outcome = drv[t].outcome
  BY <1>1, <1>4, Zenon DEF Driver
<1>6. drv' \in [Txns -> Driver] /\ \A u \in Txns \ {t} : drv'[u] = drv[u]
  BY <1>1, <1>2, <1>3, Zenon
<1> QED BY <1>5, <1>6, Zenon DEF Moved

LEMMA RedrivenMoves ==
  ASSUME TypeOK, NEW t \in Txns, Redriven(t)
  PROVE  /\ Moved(t) /\ drv'[t].pc \in {"recover", "done"}
         /\ drv'[t].pc = "done" => drv'[t].outcome = "unavailable"
<1> DEFINE n == [Idle EXCEPT !.pc = "recover", !.redrives = drv[t].redrives + 1]
           o == [drv[t] EXCEPT !.pc = "done", !.outcome = "unavailable"]
           d == IF drv[t].redrives < MaxRedrives THEN n ELSE o
<1>1. drv \in [Txns -> Driver] BY Zenon DEF TypeOK, Driver
<1>2. drv[t].redrives < MaxRedrives => n \in Driver
  <2>1. Idle \in Driver BY TxnClusterAssumption DEF Idle, Driver, Pc, Outcome
  <2>2. drv[t].redrives < MaxRedrives => drv[t].redrives + 1 \in 0..MaxRedrives
    <3>1. drv[t].redrives \in 0..MaxRedrives BY <1>1, Zenon DEF Driver
    <3>2. MaxRedrives \in Nat BY TxnClusterAssumption, Zenon
    <3> QED BY <3>1, <3>2
  <2>3. "recover" \in Pc BY Zenon DEF Pc
  <2> QED BY <2>1, <2>2, <2>3, Zenon DEF Driver
<1>3. o \in Driver BY <1>1, Zenon DEF Driver, Pc, Outcome
<1>4. drv' = [drv EXCEPT ![t] = d] BY <1>1, Zenon DEF Redriven
<1>5. /\ d \in Driver /\ d.pc \in {"recover", "done"}
      /\ d.pc = "done" => d.outcome = "unavailable"
  BY <1>1, <1>2, <1>3, Zenon DEF Driver, Idle
<1>6. drv'[t] = d BY <1>1, <1>4, Zenon
<1>7. drv' \in [Txns -> Driver] /\ \A u \in Txns \ {t} : drv'[u] = drv[u]
  BY <1>1, <1>4, <1>5, Zenon
<1> QED BY <1>5, <1>6, <1>7, Zenon DEF Moved

LEMMA ReportMoves ==
  ASSUME TypeOK, NEW t \in Txns, Report(t)
  PROVE  /\ Moved(t) /\ drv'[t].pc \in {"recover", "done"}
         /\ drv'[t].pc = "done" => drv'[t].outcome \in {"unavailable", drv[t].outcome}
<1>1. drv[t].outcome \in Outcome BY Zenon DEF TypeOK
<1> QED BY <1>1, RedrivenMoves, FinishMoves, Zenon DEF Report

\* A driver that has nothing to be sure of.
LEMMA Unburdened ==
  ASSUME NEW t, drv'[t].pc \notin {"prepare", "decide", "decided", "aborted", "finalize", "discard"}
  PROVE  DriverOK(t)'
BY Zenon DEF DriverOK

\* The key of a wave.
LEMMA WaveKey ==
  ASSUME NEW t \in Txns, drv[t].i \in 1..Len(Writes[t])
  PROVE  Key(t) \in Keys /\ Key(t) \in Slots /\ Key(t) \in WriteSet(t) /\ Data(t) \in Id
<1>1. Writes[t] \in Seq(Keys) BY TxnClusterAssumption, Zenon
<1>2. Key(t) = Writes[t][drv[t].i] BY Zenon DEF Key
<1>3. Key(t) \in Keys BY <1>1, <1>2
<1>4. Key(t) \in WriteSet(t) BY <1>1, <1>2 DEF WriteSet
<1>5. Data(t) \in Id BY Zenon DEF Data, Id, Step
<1> QED BY <1>3, <1>4, <1>5, Zenon DEF Slots

\* The first position of a wave.
LEMMA FirstOfWave ==
  ASSUME NEW t \in Txns
  PROVE  1 \in 1..Len(Writes[t]) /\ Len(Writes[t]) \in Nat
<1>1. Writes[t] \in Seq(Keys) /\ Writes[t] # <<>> BY TxnClusterAssumption, Zenon
<1> QED BY <1>1


-----------------------------------------------------------------------------
(* The requests of a driver. *)

PersistRequest(t) == Finalize(t, <<t, "commit">>, "zero", "Committed", TRUE)
PersistAbortRequest(t) == Finalize(t, AbortRequest(t).id, "zero", "Aborted", TRUE)
FinalizeRequest(t, k) == Finalize(k, Data(t), "own", t, TRUE)
DiscardRequest(t, k) == Finalize(k, Data(t), "own", t, FALSE)

\* A request on a data key is sound when its decision is recorded.
LEMMA DataSound ==
  ASSUME NEW t, NEW r, r.id[1] = t, r.id[2] = "data", r.slot \in Keys, r.digest = "own",
         \/ r.op = "prepare"
         \/ r.op = "finalize" /\ r.commit /\ Committed(t)
         \/ r.op = "finalize" /\ ~r.commit /\ Refuted(t)
  PROVE  Sound(r)
<1>1. r.id[2] \notin {"commit", "abort", "fence"} /\ Home(r.slot, r.id, r.digest)
  BY Zenon DEF Home
<1>2. CASE r.op = "prepare"
  <2>1. r.op # "finalize" BY <1>2, Zenon
  <2> QED BY <1>1, <1>2, <2>1, Zenon DEF Sound
<1>3. CASE r.op = "finalize" /\ r.commit /\ Committed(t) BY <1>1, <1>3, Zenon DEF Sound
<1>4. CASE r.op = "finalize" /\ ~r.commit /\ Refuted(t) BY <1>1, <1>4, Zenon DEF Sound
<1> QED BY <1>2, <1>3, <1>4, Zenon

\* A request of a driver on its record key is sound when the step may still be taken.
LEMMA RecordSound ==
  ASSUME NEW t, NEW step \in {"commit", "abort"}, NEW r, r.id[1] = t, r.id[2] = step,
         r.slot = t, r.digest = "zero", ~Dead(t), step = "commit" => Secured(t),
         \/ r.op = "prepare" /\ r.expect = {0}
         \/ r.op = "finalize" /\ r.commit /\ r.write = DecisionOf(step) /\ Bound(t, step)
  PROVE  Sound(r) /\ RequestCarries(r)
<1>1. r.id[2] # "data" /\ r.id[2] # "fence" BY Zenon
<1>2. RequestCarries(r) /\ Home(r.slot, r.id, r.digest) BY <1>1, Zenon DEF RequestCarries, Home
<1>3. CASE r.op = "prepare" /\ r.expect = {0}
  <2>1. r.op # "finalize" BY <1>3, Zenon
  <2> QED BY <1>1, <1>2, <1>3, <2>1, Zenon DEF Sound
<1>4. CASE r.op = "finalize" /\ r.commit /\ r.write = DecisionOf(step) /\ Bound(t, step)
  <2>1. r.op # "prepare" BY <1>4, Zenon
  <2> QED BY <1>1, <1>2, <1>4, <2>1, Zenon DEF Sound
<1> QED BY <1>2, <1>3, <1>4, Zenon

\* The position of a wave.
LEMMA WavePosition ==
  ASSUME IInv, ~fault, NEW t \in Txns, drv[t].pc \in {"prepare", "finalize"}
  PROVE  drv[t].i \in 1..Len(Writes[t]) /\ Len(Writes[t]) \in Nat /\ drv[t].i \in Nat
<1>1. drv[t].i \in 1..Len(Writes[t]) BY Zenon DEF IInv, Core, DriverOK
<1>2. Len(Writes[t]) \in Nat BY FirstOfWave, Zenon
<1> QED BY <1>1, <1>2

LEMMA PrepareSent ==
  ASSUME IInv, ~fault, NEW t \in Txns, drv[t].pc = "prepare", NEW k, k = Key(t),
         NEW r, r = Prepare(k, Data(t), "own", t, Expect(t, k))
  PROVE  /\ Sendable(t, r) /\ k \in Keys /\ k \in Slots /\ k \in WriteSet(t)
         /\ r.id = <<t, "data">> /\ r.op = "prepare" /\ r.slot = k /\ r.digest = "own"
         /\ r.expect = Expect(t, k)
<1>1. k \in Keys /\ k \in Slots /\ k \in WriteSet(t) /\ Data(t) \in Id
  BY WavePosition, WaveKey, Zenon
<1>2. Expect(t, k) \in SUBSET Nat BY <1>1 DEF Expect, IInv, TypeOK, Object
<1>3. r \in Request BY <1>1, <1>2, Zenon DEF Request, Prepare, Value
<1>4. /\ r.id = <<t, "data">> /\ r.op = "prepare" /\ r.slot = k /\ r.digest = "own"
      /\ r.write = t /\ r.expect = Expect(t, k)
  BY Zenon DEF Prepare, Data
<1>5. r.id[1] = t /\ r.id[2] = "data" BY <1>4
<1>6. Sound(r) BY <1>1, <1>4, <1>5, DataSound, Zenon
<1>7. t # "gone" BY TxnStoreAssumption, Zenon
<1>8. RequestCarries(r) BY SMT, <1>1, <1>4, <1>5, <1>7 DEF RequestCarries
<1> QED BY <1>1, <1>3, <1>4, <1>5, <1>6, <1>8, Zenon DEF Sendable

LEMMA CommitSent ==
  ASSUME IInv, ~fault, NEW t \in Txns, drv[t].pc = "decide", NEW r, r = CommitRequest(t)
  PROVE  Sendable(t, r) /\ r.id = <<t, "commit">> /\ r.op = "prepare" /\ r.slot = t
<1>1. r.id = <<t, "commit">> /\ r.op = "prepare" /\ r.slot = t /\ r.digest = "zero" /\ r.expect = {0}
  BY Zenon DEF CommitRequest, Prepare
<1>2. r \in Request BY DEF CommitRequest, Prepare, Request, Slots, Id, Step, Value, Decision
<1>3. ~Dead(t) /\ Secured(t) BY Zenon DEF IInv, Core, Dead, DriverOK
<1>4. r.id[1] = t /\ r.id[2] = "commit" BY <1>1
<1>5. Sound(r) /\ RequestCarries(r) BY <1>1, <1>3, <1>4, RecordSound, Zenon
<1> QED BY <1>1, <1>2, <1>4, <1>5, Zenon DEF Sendable

LEMMA PersistSent ==
  ASSUME IInv, ~fault, NEW t \in Txns, drv[t].pc = "decided",
         NEW r, r = PersistRequest(t)
  PROVE  /\ Sendable(t, r) /\ r.id = <<t, "commit">> /\ r.op = "finalize" /\ r.slot = t
         /\ r.write = "Committed" /\ r.commit
<1>1. /\ r.id = <<t, "commit">> /\ r.op = "finalize" /\ r.slot = t /\ r.digest = "zero"
      /\ r.write = "Committed" /\ r.commit
  BY Zenon DEF PersistRequest, Finalize
<1>2. r \in Request
  BY Zenon DEF PersistRequest, Finalize, Request, Slots, Id, Step, Value, Decision
<1>3. ~Dead(t) /\ Secured(t) /\ Bound(t, "commit") BY Zenon DEF IInv, Core, Dead, DriverOK
<1>4. r.id[1] = t /\ r.id[2] = "commit" BY <1>1
<1>5. r.write = DecisionOf("commit") BY <1>1, Zenon DEF DecisionOf
<1>6. Sound(r) /\ RequestCarries(r) BY <1>1, <1>3, <1>4, <1>5, RecordSound, Zenon
<1> QED BY <1>1, <1>2, <1>4, <1>6, Zenon DEF Sendable, Request

LEMMA FinalizeSent ==
  ASSUME IInv, ~fault, NEW t \in Txns, drv[t].pc = "finalize", NEW k, k = Key(t),
         NEW r, r = FinalizeRequest(t, k)
  PROVE  /\ Sendable(t, r) /\ k \in Keys /\ k \in Slots /\ k \in WriteSet(t)
         /\ r.id = <<t, "data">> /\ r.op = "finalize" /\ r.slot = k /\ r.digest = "own" /\ r.commit
<1>1. k \in Keys /\ k \in Slots /\ k \in WriteSet(t) /\ Data(t) \in Id
  BY WavePosition, WaveKey, Zenon
<1>2. r \in Request BY <1>1, Zenon DEF FinalizeRequest, Request, Finalize, Value
<1>3. /\ r.id = <<t, "data">> /\ r.op = "finalize" /\ r.slot = k /\ r.digest = "own"
      /\ r.write = t /\ r.commit
  BY Zenon DEF FinalizeRequest, Finalize, Data
<1>4. Committed(t) BY Zenon DEF IInv, Core, DriverOK
<1>5. r.id[1] = t /\ r.id[2] = "data" BY <1>3
<1>6. Sound(r) BY <1>1, <1>3, <1>4, <1>5, DataSound, Zenon
<1>7. t # "gone" BY TxnStoreAssumption, Zenon
<1>8. RequestCarries(r) BY SMT, <1>1, <1>3, <1>5, <1>7 DEF RequestCarries
<1> QED BY <1>1, <1>2, <1>3, <1>5, <1>6, <1>8, Zenon DEF Sendable, Request

LEMMA AbortSent ==
  ASSUME IInv, ~fault, NEW t \in Txns, drv[t].pc = "abort", NEW r, r = AbortRequest(t)
  PROVE  Sendable(t, r) /\ r.id = <<t, "abort">> /\ r.op = "prepare" /\ r.slot = t
<1>1. r.id = <<t, "abort">> /\ r.op = "prepare" /\ r.slot = t /\ r.digest = "zero" /\ r.expect = {0}
  BY Zenon DEF AbortRequest, Prepare
<1>2. r \in Request BY DEF AbortRequest, Prepare, Request, Slots, Id, Step, Value, Decision
<1>3. ~Dead(t) BY Zenon DEF Dead
<1>4. r.id[1] = t /\ r.id[2] = "abort" BY <1>1
<1>5. Sound(r) /\ RequestCarries(r) BY <1>1, <1>3, <1>4, RecordSound, Zenon
<1> QED BY <1>1, <1>2, <1>4, <1>5, Zenon DEF Sendable

LEMMA PersistAbortSent ==
  ASSUME IInv, ~fault, NEW t \in Txns, drv[t].pc = "aborted",
         NEW r, r = PersistAbortRequest(t)
  PROVE  /\ Sendable(t, r) /\ r.id = <<t, "abort">> /\ r.op = "finalize" /\ r.slot = t
         /\ r.write = "Aborted" /\ r.commit
<1>1. /\ r.id = <<t, "abort">> /\ r.op = "finalize" /\ r.slot = t /\ r.digest = "zero"
      /\ r.write = "Aborted" /\ r.commit
  BY Zenon DEF PersistAbortRequest, Finalize, AbortRequest, Prepare
<1>2. r \in Request
  BY Zenon
     DEF PersistAbortRequest, Finalize, AbortRequest, Prepare, Request, Slots, Id, Step, Value, Decision
<1>3. ~Dead(t) /\ Bound(t, "abort") BY Zenon DEF IInv, Core, Dead, DriverOK
<1>4. r.id[1] = t /\ r.id[2] = "abort" BY <1>1
<1>5. r.write = DecisionOf("abort") BY <1>1, Zenon DEF DecisionOf
<1>6. Sound(r) /\ RequestCarries(r) BY <1>1, <1>3, <1>4, <1>5, RecordSound, Zenon
<1> QED BY <1>1, <1>2, <1>4, <1>6, Zenon DEF Sendable, Request

LEMMA DiscardSent ==
  ASSUME IInv, ~fault, NEW t \in Txns, drv[t].pc = "discard", NEW k \in drv[t].prepared,
         NEW r, r = DiscardRequest(t, k)
  PROVE  Sendable(t, r) /\ r.id = <<t, "data">>
<1>1. k \in Keys BY Zenon DEF IInv, TypeOK
<1>2. r \in Request
  BY <1>1, Zenon DEF DiscardRequest, Request, Finalize, Value, Slots, Data, Id, Step
<1>3. /\ r.id = <<t, "data">> /\ r.op = "finalize" /\ r.slot = k /\ r.digest = "own"
      /\ r.write = t /\ ~r.commit
  BY Zenon DEF DiscardRequest, Finalize, Data
<1>4. Refuted(t) BY Zenon DEF IInv, Core, DriverOK
<1>5. r.id[1] = t /\ r.id[2] = "data" BY <1>3
<1>6. Sound(r) BY <1>1, <1>3, <1>4, <1>5, DataSound, Zenon
<1>7. t # "gone" BY TxnStoreAssumption, Zenon
<1>8. RequestCarries(r) BY SMT, <1>3, <1>5, <1>7 DEF RequestCarries
<1> QED BY <1>2, <1>3, <1>5, <1>6, <1>8, Zenon DEF Sendable, Request

-----------------------------------------------------------------------------
(* Each action of a driver keeps the invariant. *)

LEMMA BeginKeeps ==
  ASSUME IInv, NEW t \in Txns, Begin(t)
  PROVE  Kept
<1>1. TypeOK /\ StoreTypeOK BY Zenon DEF IInv, TypeOK
<1>2. ~fault /\ drv[t].pc = "idle" /\ UNCHANGED <<conf, storeVars, res, fenced, late, faults>>
  BY Zenon DEF Begin, At
<1>3. Moved(t) /\ drv'[t].pc = "recover" BY <1>1, GoMoves, Zenon DEF Begin, Pc
<1>4. DriverOK(t)' BY <1>3, Unburdened, Zenon
<1>5. \A k \in Keys : obj[k] \in Object BY <1>1, Zenon DEF StoreTypeOK, Slots
<1>6. seen' \in [Txns -> [Keys -> Object]] BY <1>1, <1>5, Zenon DEF Begin, TypeOK
<1>7. faults' \in 0..MaxFaults BY <1>1, <1>2, Zenon DEF TypeOK
<1> QED BY <1>2, <1>3, <1>4, <1>6, <1>7, StoreStays, Zenon

LEMMA RecoverKeeps ==
  ASSUME IInv, NEW t \in Txns, Recover(t)
  PROVE  Kept
<1>1. TypeOK BY Zenon DEF IInv
<1>2. ~fault /\ Working(t) BY Zenon DEF Recover, At, Working
<1>3. CASE Read /\ CASE obj[t].value = "Committed" -> StartWave(t, "finalize")
                     [] obj[t].value = "Aborted"   -> Finish(t, "aborted")
                     [] obj[t].value = "Fenced"    -> Finish(t, "conflict")
                     [] OTHER                      -> StartWave(t, "prepare")
  <2>1. obj' = obj BY <1>3, Zenon DEF Read, storeVars
  <2>2. CASE obj[t].value = "Committed" /\ StartWave(t, "finalize")
    <3>1. Moved(t) /\ drv'[t].pc = "finalize" /\ drv'[t].i = 1
      BY <1>1, <2>2, StartWaveMoves, Zenon DEF Pc
    <3>2. DriverOK(t)' BY <2>1, <2>2, <3>1, FirstOfWave, Zenon DEF DriverOK, Committed
    <3> QED BY <1>2, <1>3, <3>1, <3>2, CallRead, Zenon
  <2>3. CASE Finish(t, "aborted") \/ Finish(t, "conflict")
    <3>1. Moved(t) /\ drv'[t].pc = "done" BY <1>1, <2>3, FinishMoves, Zenon DEF Outcome
    <3> QED BY <1>2, <1>3, <3>1, Unburdened, CallRead, Zenon
  <2>4. CASE StartWave(t, "prepare")
    <3>1. Moved(t) /\ drv'[t].pc = "prepare" /\ drv'[t].i = 1
      BY <1>1, <2>4, StartWaveMoves, Zenon DEF Pc
    <3>2. 1 \in 1..Len(Writes[t]) BY FirstOfWave, Zenon
    <3>3. 1..(drv'[t].i - 1) = {} BY <3>1
    <3>4. DriverOK(t)' BY <3>1, <3>2, <3>3, Zenon DEF DriverOK
    <3> QED BY <1>2, <1>3, <3>1, <3>4, CallRead, Zenon
  <2> QED BY <1>3, <2>2, <2>3, <2>4, Zenon
<1>4. CASE Lost("read", {}) /\ Redriven(t)
  <2>1. Moved(t) /\ drv'[t].pc \in {"recover", "done"} BY <1>1, <1>4, RedrivenMoves, Zenon
  <2> QED BY <1>2, <1>4, <2>1, Unburdened, CallRead, Zenon
<1> QED BY <1>3, <1>4, Zenon DEF Recover

LEMMA PrepareKeyKeeps ==
  ASSUME IInv, NEW t \in Txns, PrepareKey(t)
  PROVE  Kept
<1>k. PICK k : k = Key(t) BY Zenon
<1> DEFINE r == Prepare(k, Data(t), "own", t, Expect(t, k))
<1>1. TypeOK /\ Core /\ StoreTypeOK /\ DriverOK(t)
  BY Zenon DEF IInv, TypeOK, Core, PrepareKey, At
<1>2. ~fault /\ Working(t) /\ drv[t].pc = "prepare" BY Zenon DEF PrepareKey, At, Working
<1>3. drv[t].i \in 1..Len(Writes[t]) /\ Len(Writes[t]) \in Nat /\ drv[t].i \in Nat
  BY <1>2, WavePosition, Zenon
<1>6. r = Prepare(k, Data(t), "own", t, Expect(t, k)) BY Zenon
<1> HIDE DEF r
<1>7. /\ Sendable(t, r) /\ r.id = <<t, "data">> /\ r.op = "prepare" /\ r.slot = k
      /\ k \in Keys /\ k \in Slots
  BY <1>2, <1>6, <1>k, PrepareSent
<1>9. CASE /\ CanPrepare(r) /\ Served(r)
           /\ drv' = [drv EXCEPT ![t].prepared = @ \cup {k},
                                 ![t].pc = IF Last(t) THEN "decide" ELSE "prepare",
                                 ![t].i = IF Last(t) THEN 1 ELSE @ + 1]
  <2> DEFINE d == [drv[t] EXCEPT !.prepared = @ \cup {k},
                                 !.pc = IF Last(t) THEN "decide" ELSE "prepare",
                                 !.i = IF Last(t) THEN 1 ELSE @ + 1]
  <2>1. drv \in [Txns -> Driver] BY <1>1, Zenon DEF TypeOK, Driver
  <2>2. d \in Driver
    <3>1. (IF Last(t) THEN 1 ELSE drv[t].i + 1) \in Nat BY <1>3
    <3>2. (IF Last(t) THEN "decide" ELSE "prepare") \in Pc BY Zenon DEF Pc
    <3>3. drv[t].prepared \cup {k} \in SUBSET Keys BY <1>7, <2>1, Zenon DEF Driver
    <3> QED BY <2>1, <3>1, <3>2, <3>3, Zenon DEF Driver
  <2>3. drv' = [drv EXCEPT ![t] = d] BY <1>9, <2>1, Zenon
  <2>4. drv'[t] = d /\ drv' \in [Txns -> Driver] /\ \A u \in Txns \ {t} : drv'[u] = drv[u]
    BY <2>1, <2>2, <2>3, Zenon
  <2>5. /\ drv'[t].pc = IF Last(t) THEN "decide" ELSE "prepare"
        /\ drv'[t].i = IF Last(t) THEN 1 ELSE drv[t].i + 1
    BY <2>1, <2>4 DEF Driver
  <2>6. Moved(t) BY <2>4, <2>5, Zenon DEF Moved
  <2>7. ASSUME Advance PROVE DriverOK(t)'
    <3>1. CoveredKey(t, k)'
      <4>1. r.op # "finalize" BY <1>7, Zenon
      <4>2. intent' = [intent EXCEPT ![k] = {[id |-> r.id, digest |-> r.digest, write |-> r.write,
                                              age |-> 0, observed |-> obj[k].version]}]
        BY <1>7, <1>9, <4>1, Zenon DEF Served, Execute, ApplyPrepare
      <4>3. \E i \in intent'[k] : i.id = Data(t)
        BY <1>1, <1>7, <4>2, Zenon DEF StoreTypeOK, Data
      <4> QED BY <4>3, Zenon DEF CoveredKey, Reserves
    <3>2. Refuted(t)' \/ \A j \in 1..drv[t].i : CoveredKey(t, Writes[t][j])'
      <4> SUFFICES ASSUME ~Refuted(t)', NEW j \in 1..drv[t].i PROVE CoveredKey(t, Writes[t][j])'
        BY Zenon
      <4>1. ~Refuted(t) BY <2>7, Lasting, Zenon
      <4>2. Writes[t] \in Seq(Keys) BY TxnClusterAssumption, Zenon
      <4>3. j \in 1..Len(Writes[t]) BY <1>3
      <4>4. Writes[t][j] \in Keys BY <4>2, <4>3
      <4>5. CASE j = drv[t].i BY <4>5, <3>1, <1>k, Zenon DEF Key
      <4>6. CASE j # drv[t].i
        <5>1. j \in 1..(drv[t].i - 1) BY <1>3, <4>6
        <5>2. CoveredKey(t, Writes[t][j]) BY <1>1, <1>2, <4>1, <5>1, Zenon DEF DriverOK
        <5> QED BY <2>7, <4>4, <5>2, Zenon DEF Advance
      <4> QED BY <4>5, <4>6, Zenon
    <3>3. CASE Last(t)
      <4>1. drv'[t].pc = "decide" BY <3>3, <2>5, Zenon
      <4>2. DOMAIN Writes[t] = 1..drv[t].i
        <5>1. Writes[t] \in Seq(Keys) BY TxnClusterAssumption, Zenon
        <5> QED BY <5>1, <3>3 DEF Last
      <4>3. Secured(t)' BY <3>2, <4>2, Zenon DEF Secured, WriteSet
      <4> QED BY <4>1, <4>3, Zenon DEF DriverOK
    <3>4. CASE ~Last(t)
      <4>1. drv'[t].pc = "prepare" /\ drv'[t].i = drv[t].i + 1 BY <3>4, <2>5, Zenon
      <4>2. drv'[t].i \in 1..Len(Writes[t]) /\ drv'[t].i - 1 = drv[t].i
        BY <1>3, <3>4, <4>1 DEF Last
      <4> QED BY <3>2, <4>1, <4>2, Zenon DEF DriverOK
    <3> QED BY <3>3, <3>4, Zenon
  <2> QED BY <1>2, <1>7, <1>9, <2>6, <2>7, CallServed, Zenon
<1>10. CASE Served(r) /\ StartAbort(t, "conflict")
  <2>1. Moved(t) /\ drv'[t].pc = "abort" BY <1>1, <1>10, StartAbortMoves, Zenon DEF Outcome
  <2> QED BY <1>2, <1>7, <1>10, <2>1, Unburdened, CallServed, Zenon
<1>11. CASE Lost("prepare", {r}) /\ StartAbort(t, "redrive")
  <2>1. Moved(t) /\ drv'[t].pc = "abort" BY <1>1, <1>11, StartAbortMoves, Zenon DEF Outcome
  <2> QED BY <1>2, <1>7, <1>11, <2>1, Unburdened, CallLost, Zenon
<1> QED BY <1>9, <1>10, <1>11, <1>k, Zenon DEF PrepareKey, r

\* A successful reservation of a record key binds it.
LEMMA RecordBound ==
  ASSUME TypeOK, NEW t \in Txns, NEW step \in Step,
         NEW r \in Request, r.slot = t, r.id = <<t, step>>, r.op = "prepare",
         CanPrepare(r), Execute(r)
  PROVE  Bound(t, step)'
<1>1. t \in Slots BY Zenon DEF Slots
<1>2. intent' = [intent EXCEPT ![t] = {[id |-> r.id, digest |-> r.digest, write |-> r.write,
                                        age |-> 0, observed |-> obj[t].version]}]
  BY Zenon DEF Execute, ApplyPrepare
<1>3. \E i \in intent'[t] : i.id = <<t, step>> BY <1>1, <1>2, Zenon DEF TypeOK, StoreTypeOK
<1> QED BY <1>3, Zenon DEF Bound

\* Writing a decision leaves it in the object.
LEMMA DecisionWritten ==
  ASSUME NEW t, NEW d \in Decision
  PROVE  Written(t, d).value = d
BY SMT DEF Written, Decision

\* A finalize of a record key decides it.
LEMMA RecordDecided ==
  ASSUME TypeOK, NEW t \in Txns, NEW r \in Request, r.slot = t, r.op = "finalize", r.commit,
         r.write \in Decision, Execute(r), ~fault'
  PROVE  obj'[t].value = r.write
<1>1. t \in Slots BY Zenon DEF Slots
<1>2. ~Foreign(r) BY Zenon DEF Execute, ApplyFinalize
<1>3. obj' = [obj EXCEPT ![t] = Written(t, r.write)] BY <1>2, Zenon DEF Execute, ApplyFinalize
<1>4. obj'[t] = Written(t, r.write) BY <1>1, <1>3, Zenon DEF TypeOK, StoreTypeOK
<1> QED BY <1>4, DecisionWritten

LEMMA DecideCommitKeeps ==
  ASSUME IInv, NEW t \in Txns, DecideCommit(t)
  PROVE  Kept
<1> DEFINE r == CommitRequest(t)
<1>1. TypeOK /\ Core /\ DriverOK(t) BY Zenon DEF IInv, Core, DecideCommit, At
<1>2. ~fault /\ Working(t) /\ drv[t].pc = "decide" BY Zenon DEF DecideCommit, At, Working
<1>3. r = CommitRequest(t) BY Zenon
<1>5. Secured(t) BY <1>1, <1>2, Zenon DEF DriverOK
<1> HIDE DEF r
<1>4. Sendable(t, r) /\ r.id = <<t, "commit">> /\ r.op = "prepare" /\ r.slot = t
  BY <1>2, <1>3, CommitSent, Zenon
<1>6. r \in Request BY <1>4, Zenon DEF Sendable
<1>7. CASE CanPrepare(r) /\ Served(r) /\ Go(t, "decided")
  <2>1. Moved(t) /\ drv'[t].pc = "decided" BY <1>1, <1>7, GoMoves, Zenon DEF Pc
  <2>2. Bound(t, "commit")' BY <1>1, <1>4, <1>6, <1>7, RecordBound, Zenon DEF Served, Step
  <2>3. Advance => Secured(t)' BY <1>5, Lasting, Zenon
  <2>4. Advance => DriverOK(t)' BY <2>1, <2>2, <2>3, Zenon DEF DriverOK
  <2> QED BY <1>2, <1>4, <1>7, <2>1, <2>4, CallServed, Zenon
<1>8. CASE Served(r) /\ Go(t, "reread")
  <2>1. Moved(t) /\ drv'[t].pc = "reread" BY <1>1, <1>8, GoMoves, Zenon DEF Pc
  <2> QED BY <1>2, <1>4, <1>8, <2>1, Unburdened, CallServed, Zenon
<1>9. CASE Lost("decide", {r}) /\ Go(t, "reread")
  <2>1. Moved(t) /\ drv'[t].pc = "reread" BY <1>1, <1>9, GoMoves, Zenon DEF Pc
  <2> QED BY <1>2, <1>4, <1>9, <2>1, Unburdened, CallLost, Zenon
<1> QED BY <1>7, <1>8, <1>9, Zenon DEF DecideCommit, r

LEMMA PersistCommitKeeps ==
  ASSUME IInv, NEW t \in Txns, PersistCommit(t)
  PROVE  Kept
<1> DEFINE r == Finalize(t, <<t, "commit">>, "zero", "Committed", TRUE)
<1>1. TypeOK BY Zenon DEF IInv
<1>2. ~fault /\ Working(t) /\ drv[t].pc = "decided" BY Zenon DEF PersistCommit, At, Working
<1>3. r = PersistRequest(t) BY Zenon DEF PersistRequest, Finalize
<1> HIDE DEF r
<1>4. Sendable(t, r) BY <1>2, <1>3, PersistSent, Zenon
<1>7. CASE Served(r) /\ Go(t, "verify")
  <2>1. Moved(t) /\ drv'[t].pc = "verify" BY <1>1, <1>7, GoMoves, Zenon DEF Pc
  <2> QED BY <1>2, <1>4, <1>7, <2>1, Unburdened, CallServed, Zenon
<1>8. CASE Lost("decide", {r}) /\ Go(t, "reread")
  <2>1. Moved(t) /\ drv'[t].pc = "reread" BY <1>1, <1>8, GoMoves, Zenon DEF Pc
  <2> QED BY <1>2, <1>4, <1>8, <2>1, Unburdened, CallLost, Zenon
<1> QED BY <1>7, <1>8, Zenon DEF PersistCommit, r

\* A record that says Committed starts the wave of finalizes.
LEMMA FollowCommit ==
  ASSUME IInv, ~fault, NEW t \in Txns, Working(t), Read, obj[t].value = "Committed", StartWave(t, "finalize")
  PROVE  Kept
<1>1. TypeOK BY Zenon DEF IInv
<1>2. Moved(t) /\ drv'[t].pc = "finalize" /\ drv'[t].i = 1 BY <1>1, StartWaveMoves, Zenon DEF Pc
<1>3. DriverOK(t)' BY <1>2, FirstOfWave, Zenon DEF DriverOK, Committed, Read, storeVars
<1> QED BY <1>2, <1>3, CallRead, Zenon

LEMMA RereadKeeps ==
  ASSUME IInv, NEW t \in Txns, Reread(t)
  PROVE  Kept
<1>1. TypeOK BY Zenon DEF IInv
<1>2. ~fault /\ Working(t) BY Zenon DEF Reread, At, Working
<1>3. CASE Read /\ obj[t].value = "Committed" /\ StartWave(t, "finalize")
  BY <1>2, <1>3, FollowCommit, Zenon
<1>4. CASE Read /\ StartAbort(t, "redrive")
  <2>1. Moved(t) /\ drv'[t].pc = "abort" BY <1>1, <1>4, StartAbortMoves, Zenon DEF Outcome
  <2> QED BY <1>2, <1>4, <2>1, Unburdened, CallRead, Zenon
<1>5. CASE Lost("read", {}) /\ Redriven(t)
  <2>1. Moved(t) /\ drv'[t].pc \in {"recover", "done"} BY <1>1, <1>5, RedrivenMoves, Zenon
  <2> QED BY <1>2, <1>5, <2>1, Unburdened, CallRead, Zenon
<1> QED BY <1>3, <1>4, <1>5, Zenon DEF Reread, RereadDecision

LEMMA VerifyKeeps ==
  ASSUME IInv, NEW t \in Txns, Verify(t)
  PROVE  Kept
<1>1. TypeOK BY Zenon DEF IInv
<1>2. ~fault /\ Working(t) BY Zenon DEF Verify, At, Working
<1>3. CASE Read /\ obj[t].value = "Committed" /\ StartWave(t, "finalize")
  BY <1>2, <1>3, FollowCommit, Zenon
<1>4. CASE Read /\ StartAbort(t, "conflict")
  <2>1. Moved(t) /\ drv'[t].pc = "abort" BY <1>1, <1>4, StartAbortMoves, Zenon DEF Outcome
  <2> QED BY <1>2, <1>4, <2>1, Unburdened, CallRead, Zenon
<1>5. CASE Lost("read", {}) /\ Redriven(t)
  <2>1. Moved(t) /\ drv'[t].pc \in {"recover", "done"} BY <1>1, <1>5, RedrivenMoves, Zenon
  <2> QED BY <1>2, <1>5, <2>1, Unburdened, CallRead, Zenon
<1> QED BY <1>3, <1>4, <1>5, Zenon DEF Verify

LEMMA AbortRereadKeeps ==
  ASSUME IInv, NEW t \in Txns, AbortReread(t)
  PROVE  Kept
<1>1. TypeOK BY Zenon DEF IInv
<1>2. ~fault /\ Working(t) BY Zenon DEF AbortReread, At, Working
<1>3. CASE Read /\ obj[t].value = "Committed" /\ StartWave(t, "finalize")
  BY <1>2, <1>3, FollowCommit, Zenon
<1>4. CASE Read /\ Report(t)
  <2>1. Moved(t) /\ drv'[t].pc \in {"recover", "done"} BY <1>1, <1>4, ReportMoves, Zenon
  <2> QED BY <1>2, <1>4, <2>1, Unburdened, CallRead, Zenon
<1>5. CASE Lost("read", {}) /\ Redriven(t)
  <2>1. Moved(t) /\ drv'[t].pc \in {"recover", "done"} BY <1>1, <1>5, RedrivenMoves, Zenon
  <2> QED BY <1>2, <1>5, <2>1, Unburdened, CallRead, Zenon
<1> QED BY <1>3, <1>4, <1>5, Zenon DEF AbortReread

LEMMA FinalizeKeyKeeps ==
  ASSUME IInv, NEW t \in Txns, FinalizeKey(t)
  PROVE  Kept
<1>k. PICK k : k = Key(t) BY Zenon
<1> DEFINE r == Finalize(k, Data(t), "own", t, TRUE)
<1>1. TypeOK /\ Core /\ DriverOK(t) BY Zenon DEF IInv, Core, FinalizeKey, At
<1>2. ~fault /\ Working(t) /\ drv[t].pc = "finalize" BY Zenon DEF FinalizeKey, At, Working
<1>3. drv[t].i \in 1..Len(Writes[t]) /\ Committed(t) /\ Len(Writes[t]) \in Nat /\ drv[t].i \in Nat
  <2>1. Committed(t) BY <1>1, <1>2, Zenon DEF DriverOK
  <2> QED BY <1>2, <2>1, WavePosition, Zenon
<1>6. r = FinalizeRequest(t, k) BY Zenon DEF FinalizeRequest, Finalize
<1> HIDE DEF r
<1>7. Sendable(t, r) BY <1>2, <1>6, <1>k, FinalizeSent, Zenon
<1>8. CASE Served(r) /\ Last(t) /\ Finish(t, "committed")
  <2>1. Moved(t) /\ drv'[t].pc = "done" BY <1>1, <1>8, FinishMoves, Zenon DEF Outcome
  <2> QED BY <1>2, <1>7, <1>8, <2>1, Unburdened, CallServed, Zenon
<1>9. CASE Served(r) /\ ~Last(t) /\ drv' = [drv EXCEPT ![t].i = @ + 1]
  <2>1. drv \in [Txns -> Driver] BY <1>1, Zenon DEF TypeOK, Driver
  <2>2. [drv[t] EXCEPT !.i = @ + 1] \in Driver
    <3>1. drv[t].i + 1 \in Nat BY <1>3
    <3> QED BY <2>1, <3>1, Zenon DEF Driver
  <2>3. drv' = [drv EXCEPT ![t] = [drv[t] EXCEPT !.i = @ + 1]] BY <1>9, <2>1, Zenon
  <2>4. /\ drv'[t] = [drv[t] EXCEPT !.i = @ + 1]
        /\ drv' \in [Txns -> Driver] /\ \A u \in Txns \ {t} : drv'[u] = drv[u]
    BY <2>1, <2>2, <2>3, Zenon
  <2>5. drv'[t].pc = "finalize" /\ drv'[t].i = drv[t].i + 1
    BY <1>2, <2>1, <2>4, Zenon DEF Driver
  <2>6. Moved(t) BY <2>4, <2>5, Zenon DEF Moved
  <2>7. drv'[t].i \in 1..Len(Writes[t]) BY <1>3, <1>9, <2>5 DEF Last
  <2>8. Advance => Committed(t)' BY <1>3, Lasting, Zenon
  <2>9. Advance => DriverOK(t)' BY <2>5, <2>7, <2>8, Zenon DEF DriverOK
  <2> QED BY <1>2, <1>7, <1>9, <2>6, <2>9, CallServed, Zenon
<1>10. CASE Lost("finalize", {r}) /\ Redriven(t)
  <2>1. Moved(t) /\ drv'[t].pc \in {"recover", "done"} BY <1>1, <1>10, RedrivenMoves, Zenon
  <2> QED BY <1>2, <1>7, <1>10, <2>1, Unburdened, CallLost, Zenon
<1> QED BY <1>8, <1>9, <1>10, <1>k, Zenon DEF FinalizeKey, r

LEMMA DecideAbortKeeps ==
  ASSUME IInv, NEW t \in Txns, DecideAbort(t)
  PROVE  Kept
<1> DEFINE r == AbortRequest(t)
<1>1. TypeOK BY Zenon DEF IInv
<1>2. ~fault /\ Working(t) /\ drv[t].pc = "abort" BY Zenon DEF DecideAbort, At, Working
<1>3. r = AbortRequest(t) BY Zenon
<1> HIDE DEF r
<1>4. Sendable(t, r) /\ r.id = <<t, "abort">> /\ r.op = "prepare" /\ r.slot = t
  BY <1>2, <1>3, AbortSent, Zenon
<1>6. r \in Request BY <1>4, Zenon DEF Sendable
<1>7. CASE CanPrepare(r) /\ Served(r) /\ Go(t, "aborted")
  <2>1. Moved(t) /\ drv'[t].pc = "aborted" BY <1>1, <1>7, GoMoves, Zenon DEF Pc
  <2>2. Bound(t, "abort")' BY <1>1, <1>4, <1>6, <1>7, RecordBound, Zenon DEF Served, Step
  <2>3. DriverOK(t)' BY <2>1, <2>2, Zenon DEF DriverOK
  <2> QED BY <1>2, <1>4, <1>7, <2>1, <2>3, CallServed, Zenon
<1>8. CASE Served(r) /\ Go(t, "abortReread")
  <2>1. Moved(t) /\ drv'[t].pc = "abortReread" BY <1>1, <1>8, GoMoves, Zenon DEF Pc
  <2> QED BY <1>2, <1>4, <1>8, <2>1, Unburdened, CallServed, Zenon
<1>9. CASE Lost("decide", {r}) /\ Go(t, "abortReread")
  <2>1. Moved(t) /\ drv'[t].pc = "abortReread" BY <1>1, <1>9, GoMoves, Zenon DEF Pc
  <2> QED BY <1>2, <1>4, <1>9, <2>1, Unburdened, CallLost, Zenon
<1> QED BY <1>7, <1>8, <1>9, Zenon DEF DecideAbort, r

LEMMA PersistAbortKeeps ==
  ASSUME IInv, NEW t \in Txns, PersistAbort(t)
  PROVE  Kept
<1> DEFINE r == Finalize(t, AbortRequest(t).id, "zero", "Aborted", TRUE)
<1>1. TypeOK BY Zenon DEF IInv
<1>2. ~fault /\ Working(t) /\ drv[t].pc = "aborted" BY Zenon DEF PersistAbort, At, Working
<1>3. r = PersistAbortRequest(t) BY Zenon DEF PersistAbortRequest, Finalize
<1> HIDE DEF r
<1>4. Sendable(t, r) /\ r.op = "finalize" /\ r.slot = t /\ r.write = "Aborted" /\ r.commit
  BY <1>2, <1>3, PersistAbortSent, Zenon
<1>6. r \in Request BY <1>4, Zenon DEF Sendable
<1>7. CASE Served(r) /\ StartWave(t, "discard")
  <2>1. Moved(t) /\ drv'[t].pc = "discard" BY <1>1, <1>7, StartWaveMoves, Zenon DEF Pc
  <2>2. ~fault' => obj'[t].value = "Aborted"
    BY <1>1, <1>4, <1>6, <1>7, RecordDecided, Zenon DEF Served, Decision
  <2>3. ~fault' => DriverOK(t)' BY <2>1, <2>2, Zenon DEF DriverOK, Refuted
  <2> QED BY <1>2, <1>4, <1>7, <2>1, <2>3, CallServed, Zenon
<1>8. CASE Lost("decide", {r}) /\ Go(t, "abortReread")
  <2>1. Moved(t) /\ drv'[t].pc = "abortReread" BY <1>1, <1>8, GoMoves, Zenon DEF Pc
  <2> QED BY <1>2, <1>4, <1>8, <2>1, Unburdened, CallLost, Zenon
<1> QED BY <1>7, <1>8, Zenon DEF PersistAbort, r

LEMMA DiscardKeyKeeps ==
  ASSUME IInv, NEW t \in Txns, DiscardKey(t)
  PROVE  Kept
<1>1. TypeOK /\ Core /\ DriverOK(t) BY Zenon DEF IInv, Core, DiscardKey, At
<1>2. ~fault /\ Working(t) /\ drv[t].pc = "discard" BY Zenon DEF DiscardKey, At, Working
<1>3. Refuted(t) BY <1>1, <1>2, Zenon DEF DriverOK
<1>4. drv \in [Txns -> Driver] BY <1>1, Zenon DEF TypeOK, Driver
<1>5. CASE Read /\ Report(t)
  <2>1. Moved(t) /\ drv'[t].pc \in {"recover", "done"} BY <1>1, <1>5, ReportMoves, Zenon
  <2> QED BY <1>2, <1>5, <2>1, Unburdened, CallRead, Zenon
<1>6. ASSUME NEW k \in drv[t].prepared,
             LET r == Finalize(k, Data(t), "own", t, FALSE)
             IN  \/ Served(r) /\ drv' = [drv EXCEPT ![t].prepared = @ \ {k}]
                 \/ Lost("discard", {r}) /\ UNCHANGED drv
      PROVE  Kept
  <2> DEFINE r == Finalize(k, Data(t), "own", t, FALSE)
  <2>2. r = DiscardRequest(t, k) BY Zenon DEF DiscardRequest, Finalize
  <2> HIDE DEF r
  <2>4. Sendable(t, r) BY <1>2, <2>2, DiscardSent, Zenon
  <2>5. Advance /\ drv'[t].pc = "discard" => DriverOK(t)' BY <1>3, Lasting, Zenon DEF DriverOK
  <2>6. CASE Served(r) /\ drv' = [drv EXCEPT ![t].prepared = @ \ {k}]
    <3>1. [drv[t] EXCEPT !.prepared = @ \ {k}] \in Driver BY <1>4, Zenon DEF Driver
    <3>2. drv' = [drv EXCEPT ![t] = [drv[t] EXCEPT !.prepared = @ \ {k}]] BY <2>6, <1>4, Zenon
    <3>3. /\ drv'[t] = [drv[t] EXCEPT !.prepared = @ \ {k}]
          /\ drv' \in [Txns -> Driver] /\ \A u \in Txns \ {t} : drv'[u] = drv[u]
      BY <1>4, <3>1, <3>2, Zenon
    <3>4. drv'[t].pc = "discard" BY <1>2, <1>4, <3>3 DEF Driver
    <3>5. Moved(t) BY <3>3, <3>4, Zenon DEF Moved
    <3> QED BY <1>2, <2>4, <2>5, <2>6, <3>4, <3>5, CallServed, Zenon
  <2>7. CASE Lost("discard", {r}) /\ UNCHANGED drv
    <3>1. Moved(t) /\ drv'[t].pc = "discard" BY <1>2, <1>4, <2>7, Zenon DEF Moved
    <3> QED BY <1>2, <2>4, <2>5, <2>7, <3>1, CallLost, Zenon
  <2> QED BY <1>6, <2>6, <2>7, Zenon DEF r
<1> QED BY <1>5, <1>6, Zenon DEF DiscardKey

LEMMA CrashKeeps ==
  ASSUME IInv, NEW t \in Txns, Crash(t)
  PROVE  Kept
<1>1. TypeOK BY Zenon DEF IInv
<1>2. ~fault /\ drv[t].pc \notin {"done", "crashed"} BY Zenon DEF Crash
<1>3. UNCHANGED <<conf, storeVars, seen, late, res, fenced>> BY Zenon DEF Crash
<1>4. Moved(t) /\ drv'[t].pc = "crashed" BY <1>1, GoMoves, Zenon DEF Crash, Pc
<1>5. faults' \in 0..MaxFaults BY <1>1, TxnClusterAssumption DEF Crash, TypeOK
<1>6. seen' \in [Txns -> [Keys -> Object]] BY <1>1, <1>3, Zenon DEF TypeOK
<1> QED BY <1>2, <1>3, <1>4, <1>5, <1>6, Unburdened, StoreStays, Zenon

-----------------------------------------------------------------------------
(* Steps of others than drivers. *)

\* The drivers stay, and no request is added.
Aside == UNCHANGED <<conf, drv, seen, faults>> /\ late' \subseteq late

\* The tasks and the fences after a step.
TasksTyped ==
    /\ res' \in [Slots -> SUBSET Task] /\ fenced' \subseteq Id
    /\ \A s \in Slots : \A w, v \in res'[s] : w = v
    /\ \A id \in fenced' : id \in fenced \/ Dead(id[1])

LEMMA AsideFacts ==
  ASSUME IInv, ~fault, Aside
  PROVE  /\ DeadStay
         /\ \A t \in Txns : drv[t].pc # "idle" => drv'[t].pc # "idle"
         /\ \A r \in late' : r \in late /\ drv'[r.id[1]].pc # "idle"
BY Zenon DEF Aside, DeadStay, Dead, IInv, Core

\* The server applies a sound request.
LEMMA ServerStep ==
  ASSUME IInv, ~fault, Aside, NEW r \in Request, Sound(r), drv[r.id[1]].pc # "idle", Execute(r), TasksTyped,
         \A s \in Slots : \A w \in res'[s] : w \in res[s] \/ TaskOK(s, w) \/ (~fault' => TaskOK(s, w)')
  PROVE  Kept
<1>1. TypeOK /\ Core /\ StoreOK /\ Atomic /\ ReservedKeyFrozen BY Zenon DEF IInv, Core
<1>2. /\ StoreTypeOK' /\ ReservedKeyFrozen' /\ Atomic' /\ DecisionsLast
      /\ ~fault' => StoreOK' /\ Advance /\ OnlyNew(r.id)
  BY <1>1, ExecuteInv, Zenon
<1>3. TypeOK' BY <1>1, <1>2, Zenon DEF TypeOK, Aside, TasksTyped
<1>4. ASSUME ~fault' PROVE Core'
  <2>1. StoreOK' /\ Advance /\ OnlyNew(r.id) BY <1>2, <1>4, Zenon
  <2>2. /\ DeadStay
        /\ \A u \in Txns : drv[u].pc # "idle" => drv'[u].pc # "idle"
        /\ \A q \in late' : q \in late /\ drv'[q.id[1]].pc # "idle"
    BY AsideFacts, Zenon
  <2>3. \A s \in Slots : \A i \in intent'[s] :
           i.id \in Id /\ ((\E j \in intent[s] : j.id = i.id /\ j.age = i.age) \/ IntentOK(i)')
    BY <1>2, <2>1, <2>2, NewIntents, Zenon DEF Aside
  <2>4. \A s \in Slots : \A w \in res'[s] : w \in res[s] \/ TaskOK(s, w)'
    BY <1>4, <2>1, <2>2, TaskLasts, Zenon DEF TasksTyped
  <2> QED BY <1>1, <2>1, <2>2, <2>3, <2>4, CoreLasts, Zenon DEF Aside, TasksTyped
<1> QED BY <1>2, <1>3, <1>4, Zenon DEF IInv, Kept

\* Nothing happens to the store.
LEMMA QuietStep ==
  ASSUME IInv, ~fault, Aside, UNCHANGED storeVars, TasksTyped,
         \A s \in Slots : \A w \in res'[s] : w \in res[s] \/ TaskOK(s, w)
  PROVE  Kept
<1>1. TypeOK /\ Core /\ StoreOK /\ Atomic /\ ReservedKeyFrozen BY Zenon DEF IInv, Core
<1>2. UNCHANGED <<obj, intent, fault, applied, discarded>> BY Zenon DEF storeVars
<1>3. StoreOK' /\ Advance BY <1>1, <1>2, StutterKeeps, Zenon
<1>4. TypeOK' BY <1>1, <1>2, Zenon DEF TypeOK, StoreTypeOK, Aside, TasksTyped
<1>5. Atomic' /\ ReservedKeyFrozen' /\ DecisionsLast
  BY <1>1, <1>2, Zenon DEF Atomic, ReservedKeyFrozen, DecisionsLast
<1>6. /\ DeadStay
      /\ \A u \in Txns : drv[u].pc # "idle" => drv'[u].pc # "idle"
      /\ \A q \in late' : q \in late /\ drv'[q.id[1]].pc # "idle"
  BY AsideFacts, Zenon
<1>7. \A s \in Slots : \A i \in intent'[s] : i.id \in Id /\ \E j \in intent[s] : j.id = i.id /\ j.age = i.age
  <2>1. \A s \in Slots : \A i \in intent[s] : i.id \in Id
    BY <1>1 DEF TypeOK, StoreTypeOK, Intent
  <2> QED BY <1>2, <2>1, Zenon
<1>8. \A s \in Slots : \A w \in res'[s] : w \in res[s] \/ TaskOK(s, w)'
  BY <1>3, <1>6, TaskLasts, Zenon DEF TasksTyped
<1>9. Core' BY <1>1, <1>3, <1>6, <1>7, <1>8, CoreLasts DEF Aside, TasksTyped
<1> QED BY <1>4, <1>5, <1>9, Zenon DEF IInv, Kept

\* The tasks stay.
LEMMA SameTasks ==
  ASSUME IInv, ~fault, UNCHANGED <<res, fenced>>
  PROVE  TasksTyped
BY Zenon DEF TasksTyped, IInv, TypeOK, Core

LEMMA DeliverKeeps ==
  ASSUME IInv, NEW r \in late, Deliver(r)
  PROVE  Kept
<1>1. ~fault /\ Aside /\ UNCHANGED <<res, fenced>> /\ Execute(r) BY Zenon DEF Deliver, Aside
<1>2. r \in Request /\ Sound(r) /\ drv[r.id[1]].pc # "idle"
  BY <1>1, Zenon DEF IInv, TypeOK, Core
<1>3. TasksTyped BY <1>1, SameTasks, Zenon
<1> QED BY <1>1, <1>2, <1>3, ServerStep, Zenon

LEMMA DropKeeps ==
  ASSUME IInv, NEW r \in late, Drop(r)
  PROVE  Kept
<1>1. ~fault /\ Aside /\ UNCHANGED <<res, fenced>> /\ UNCHANGED storeVars
  BY Zenon DEF Drop, Aside
<1>2. TasksTyped BY <1>1, SameTasks, Zenon
<1> QED BY <1>1, <1>2, QuietStep, Zenon

-----------------------------------------------------------------------------
(* The resolver. *)

\* One task is put, or none.
LEMMA OneTask ==
  ASSUME IInv, ~fault, NEW s \in Slots, res' \in [Slots -> SUBSET Task],
         \A z \in Slots : z # s => res'[z] = res[z], \A w, v \in res'[s] : w = v,
         fenced' \subseteq Id, \A id \in fenced' : id \in fenced \/ Dead(id[1])
  PROVE  TasksTyped /\ \A z \in Slots : \A w \in res'[z] : w \in res[z] \/ z = s
<1>1. \A z \in Slots : \A w, v \in res[z] : w = v BY Zenon DEF IInv, Core
<1> QED BY <1>1, Zenon DEF TasksTyped

LEMMA SameFences ==
  ASSUME IInv, UNCHANGED fenced
  PROVE  fenced' \subseteq Id /\ \A id \in fenced' : id \in fenced \/ Dead(id[1])
BY Zenon DEF IInv, TypeOK

\* The task of a slot.
LEMMA TaskFacts ==
  ASSUME IInv, ~fault, NEW s \in Slots, NEW w \in res[s]
  PROVE  /\ w \in Task /\ w.intent \in Intent /\ TaskOK(s, w)
         /\ w.intent.id \in Id /\ w.intent.id[1] \in Txns /\ w.intent.id[2] \in Step
<1>1. w \in Task /\ TaskOK(s, w) BY Zenon DEF IInv, TypeOK, Core
<1>2. w.intent \in Intent BY <1>1, Zenon DEF Task
<1>3. w.intent.id \in Id BY <1>2, Zenon DEF Intent
<1> QED BY <1>1, <1>2, <1>3, IdParts, Zenon

\* The task with another program counter.
LEMMA TaskMoves ==
  ASSUME NEW w \in Task, NEW pc \in {"read", "fence", "fenced", "apply", "discard"}
  PROVE  LET v == [w EXCEPT !.pc = pc] IN v \in Task /\ v.pc = pc /\ v.intent = w.intent
BY Zenon DEF Task

\* The requests of a resolver.
FencedRequest(t) == Finalize(t, <<t, "fence">>, "zero", "Fenced", TRUE)
ConvergeRequest(s, w) == Finalize(s, w.intent.id, w.intent.digest, w.intent.write, w.pc = "apply")

\* A fence of a dead driver is sound.
LEMMA FenceSound ==
  ASSUME NEW t, Dead(t), NEW r, r.id[1] = t, r.id[2] = "fence", r.slot = t, r.digest = "zero",
         \/ r.op = "prepare" /\ r.expect = {0}
         \/ r.op = "finalize" /\ r.commit /\ r.write = "Fenced" /\ obj[t].value \in {"gone", "Fenced"}
  PROVE  Sound(r) /\ RequestCarries(r)
<1>1. r.id[2] \notin {"data", "commit", "abort"} BY Zenon
<1>2. RequestCarries(r) /\ Home(r.slot, r.id, r.digest) BY <1>1, Zenon DEF RequestCarries, Home
<1>3. CASE r.op = "prepare" /\ r.expect = {0}
  <2>1. r.op # "finalize" BY <1>3, Zenon
  <2> QED BY <1>1, <1>2, <1>3, <2>1, Zenon DEF Sound
<1>4. CASE r.op = "finalize" /\ r.commit /\ r.write = "Fenced" /\ obj[t].value \in {"gone", "Fenced"}
  <2>1. r.op # "prepare" BY <1>4, Zenon
  <2>2. DecisionOf(r.id[2]) = "Fenced" BY <1>1, Zenon DEF DecisionOf
  <2> QED BY <1>1, <1>2, <1>4, <2>1, <2>2, Zenon DEF Sound
<1> QED BY <1>2, <1>3, <1>4, Zenon

LEMMA FenceSent ==
  ASSUME NEW t \in Txns, Dead(t), NEW r, r = FenceRequest(t)
  PROVE  /\ r \in Request /\ Sound(r) /\ RequestCarries(r)
         /\ r.id = <<t, "fence">> /\ r.op = "prepare" /\ r.slot = t /\ r.expect = {0}
<1>1. r.id = <<t, "fence">> /\ r.op = "prepare" /\ r.slot = t /\ r.digest = "zero" /\ r.expect = {0}
  BY Zenon DEF FenceRequest, Prepare
<1>2. r \in Request BY DEF FenceRequest, Prepare, Request, Slots, Id, Step, Value, Decision
<1>3. r.id[1] = t /\ r.id[2] = "fence" BY <1>1
<1>4. Sound(r) /\ RequestCarries(r) BY <1>1, <1>3, FenceSound, Zenon
<1> QED BY <1>1, <1>2, <1>4, Zenon

LEMMA FencedSent ==
  ASSUME NEW t \in Txns, Dead(t), obj[t].value \in {"gone", "Fenced"}, NEW r, r = FencedRequest(t)
  PROVE  /\ r \in Request /\ Sound(r) /\ RequestCarries(r)
         /\ r.id = <<t, "fence">> /\ r.op = "finalize" /\ r.slot = t /\ r.write = "Fenced" /\ r.commit
<1>1. /\ r.id = <<t, "fence">> /\ r.op = "finalize" /\ r.slot = t /\ r.digest = "zero"
      /\ r.write = "Fenced" /\ r.commit
  BY Zenon DEF FencedRequest, Finalize
<1>2. r \in Request
  BY Zenon DEF FencedRequest, Finalize, Request, Slots, Id, Step, Value, Decision
<1>3. r.id[1] = t /\ r.id[2] = "fence" BY <1>1
<1>4. Sound(r) /\ RequestCarries(r) BY <1>1, <1>3, FenceSound, Zenon
<1> QED BY <1>1, <1>2, <1>4, Zenon

LEMMA ConvergeSent ==
  ASSUME IInv, ~fault, NEW s \in Slots, NEW w \in res[s], w.pc \in {"apply", "discard"},
         NEW r, r = ConvergeRequest(s, w)
  PROVE  /\ r \in Request /\ Sound(r) /\ r.id = w.intent.id /\ r.op = "finalize" /\ r.slot = s
         /\ r.write = w.intent.write /\ (r.commit => r.id[2] = "data")
         /\ drv[r.id[1]].pc # "idle"
<1> DEFINE i == w.intent
<1>1. w \in Task /\ i \in Intent /\ TaskOK(s, w) /\ i.id \in Id BY TaskFacts, Zenon
<1>2. /\ r.id = i.id /\ r.op = "finalize" /\ r.slot = s /\ r.digest = i.digest /\ r.write = i.write
      /\ r.commit = (w.pc = "apply")
  BY Zenon DEF ConvergeRequest, Finalize
<1>3. r \in Request BY <1>1, Zenon DEF ConvergeRequest, Finalize, Request, Intent
<1>4. Sound(r) BY <1>1, <1>2, Zenon DEF TaskOK, Sound
<1>5. drv[r.id[1]].pc # "idle" /\ (r.commit => r.id[2] = "data") BY <1>1, <1>2, Zenon DEF TaskOK
<1> QED BY <1>2, <1>3, <1>4, <1>5, Zenon

LEMMA ListIntentKeeps ==
  ASSUME IInv, NEW s \in Slots, ListIntent(s)
  PROVE  Kept
<1> DEFINE S == {[intent |-> i, pc |-> "read"] : i \in intent[s]}
<1>1. ~fault /\ Aside /\ UNCHANGED fenced /\ UNCHANGED storeVars /\ res' = [res EXCEPT ![s] = S]
  BY Zenon DEF ListIntent, Aside
<1>2. Core /\ StoreOK /\ StoreTypeOK BY <1>1, Zenon DEF IInv, Core, TypeOK
<1>3. S \in SUBSET Task
  <2>1. \A i \in intent[s] : i \in Intent BY <1>2, Zenon DEF StoreTypeOK
  <2>2. \A i \in intent[s] : [intent |-> i, pc |-> "read"] \in Task BY <2>1, Zenon DEF Task
  <2> QED BY <2>2, Zenon
<1>4. \A w, v \in S : w = v BY <1>2, Zenon DEF StoreOK
<1>5. TasksTyped /\ \A z \in Slots : \A w \in res'[z] : w \in res[z] \/ (z = s /\ w \in S)
  <2> HIDE DEF S
  <2>2. res \in [Slots -> SUBSET Task] BY Zenon DEF IInv, TypeOK
  <2>3. res' \in [Slots -> SUBSET Task] /\ res'[s] = S /\ \A z \in Slots : z # s => res'[z] = res[z]
    BY <1>1, <1>3, <2>2, Zenon
  <2>1. fenced' \subseteq Id /\ \A id \in fenced' : id \in fenced \/ Dead(id[1])
    BY <1>1, SameFences, Zenon
  <2> QED BY <1>1, <1>4, <2>1, <2>3, OneTask
<1>6. ASSUME NEW w \in S PROVE TaskOK(s, w)
  <2>1. PICK i \in intent[s] : w = [intent |-> i, pc |-> "read"] BY <1>6, Zenon
  <2>2. w.intent = i /\ w.pc = "read" BY <2>1, Zenon
  <2>3. Home(s, i.id, i.digest) /\ IntentOK(i) BY <1>2, Zenon DEF StoreOK, Core
  <2> QED BY <2>2, <2>3, Zenon DEF TaskOK, IntentOK
<1> QED BY <1>1, <1>5, <1>6, QuietStep, Zenon

\* A task ends.
LEMMA EndTasks ==
  ASSUME IInv, ~fault, NEW s \in Slots, EndTask(s),
         fenced' \subseteq Id, \A id \in fenced' : id \in fenced \/ Dead(id[1])
  PROVE  TasksTyped /\ \A z \in Slots : \A w \in res'[z] : w \in res[z]
<1>1. res \in [Slots -> SUBSET Task] BY Zenon DEF IInv, TypeOK
<1>2. res' \in [Slots -> SUBSET Task] /\ res'[s] = {} /\ \A z \in Slots : z # s => res'[z] = res[z]
  BY <1>1, Zenon DEF EndTask
<1> QED BY <1>2, OneTask, Zenon

LEMMA EndKeeps ==
  ASSUME IInv, ~fault, NEW s \in Slots, EndTask(s), Aside, UNCHANGED <<storeVars, fenced>>
  PROVE  Kept
<1>1. UNCHANGED storeVars /\ UNCHANGED fenced BY Zenon
<1>2. fenced' \subseteq Id /\ \A id \in fenced' : id \in fenced \/ Dead(id[1])
  BY <1>1, SameFences, Zenon
<1>3. TasksTyped /\ \A z \in Slots : \A w \in res'[z] : w \in res[z] BY <1>2, EndTasks, Zenon
<1> QED BY <1>1, <1>3, QuietStep, Zenon

\* A task goes on.
LEMMA ProceedTasks ==
  ASSUME IInv, ~fault, NEW s \in Slots, NEW w \in res[s],
         NEW pc \in {"read", "fence", "fenced", "apply", "discard"}, Proceed(s, w, pc),
         fenced' \subseteq Id, \A id \in fenced' : id \in fenced \/ Dead(id[1])
  PROVE  /\ TasksTyped
         /\ \A z \in Slots : \A v \in res'[z] : v \in res[z] \/ (z = s /\ v = [w EXCEPT !.pc = pc])
<1>1. w \in Task BY TaskFacts, Zenon
<1>2. [w EXCEPT !.pc = pc] \in Task BY <1>1, TaskMoves, Zenon
<1>3. res \in [Slots -> SUBSET Task] BY Zenon DEF IInv, TypeOK
<1>4. /\ res' \in [Slots -> SUBSET Task] /\ res'[s] = {[w EXCEPT !.pc = pc]}
      /\ \A z \in Slots : z # s => res'[z] = res[z]
  BY <1>2, <1>3, Zenon DEF Proceed
<1> QED BY <1>4, OneTask, Zenon

\* What the record says is what the task goes by, if the record is not stale.
LEMMA ReadRecordKeeps ==
  ASSUME IInv, NEW s \in Slots, NEW record, ReadRecord(s, record),
         \A w \in Tasks(s, "read") : record \in {"gone", RecordOf(w.intent.id)}
  PROVE  Kept
<1>1. ~fault /\ Aside /\ UNCHANGED <<storeVars, fenced>> BY Zenon DEF ReadRecord, Aside
<1>2. PICK w \in Tasks(s, "read") :
         IF Verdict(record, w.intent.age) = "wait" THEN EndTask(s)
         ELSE Proceed(s, w, Verdict(record, w.intent.age))
  BY Zenon DEF ReadRecord
<1> DEFINE verdict == Verdict(record, w.intent.age)
           t == w.intent.id[1]
           v == [w EXCEPT !.pc = verdict]
<1>3. w \in res[s] BY <1>2, Zenon DEF Tasks
<1>4. /\ w \in Task /\ TaskOK(s, w) /\ w.intent.id \in Id /\ t \in Txns /\ w.intent.age \in 0..2
  BY <1>1, <1>3, TaskFacts, Zenon DEF Intent
<1>5. record \in {"gone", RecordOf(w.intent.id)} BY <1>2, Zenon
<1>6. CASE verdict = "wait" BY <1>1, <1>2, <1>6, EndKeeps, Zenon
<1>7. CASE verdict # "wait"
  <2>1. verdict \in {"apply", "discard", "fence"} BY <1>7, Zenon DEF Verdict
  <2>2. Proceed(s, w, verdict) BY <1>2, <1>7, Zenon
  <2>3. /\ TasksTyped
        /\ \A z \in Slots : \A x \in res'[z] : x \in res[z] \/ (z = s /\ x = v)
    BY <1>1, <1>3, <2>1, <2>2, ProceedTasks, SameFences
  <2>4. v.pc = verdict /\ v.intent = w.intent BY <1>4, <2>1, TaskMoves
  <2>5. verdict = "fence" => w.intent.age = 2 BY Zenon DEF Verdict
  <2>6. verdict = "apply" => record = "Committed" BY Zenon DEF Verdict
  <2>7. verdict = "discard" => record \in {"Aborted", "Fenced"} BY Zenon DEF Verdict
  <2>8. verdict = "apply" => w.intent.id[2] = "data" /\ Committed(t)
    BY <1>5, <2>6, Zenon DEF RecordOf, Committed
  <2>9. verdict = "discard" => IF w.intent.id[2] = "data" THEN Refuted(t) ELSE w.intent.id \in fenced
    BY <1>5, <2>7, Zenon DEF RecordOf, Refuted
  <2>10. w.intent.id \in fenced => Dead(t) BY <1>1, Zenon DEF IInv, Core
  <2>11. TaskOK(s, v) BY <1>4, <2>1, <2>4, <2>5, <2>8, <2>9, <2>10, Zenon DEF TaskOK
  <2> QED BY <1>1, <2>3, <2>11, QuietStep, Zenon
<1> QED BY <1>6, <1>7, Zenon

LEMMA FenceKeeps ==
  ASSUME IInv, NEW s \in Slots, Fence(s)
  PROVE  Kept
<1>1. ~fault /\ Aside BY Zenon DEF Fence, Aside
<1>2. PICK w \in Tasks(s, "fence") :
         IF w.intent.id[2] # "data"
         THEN fenced' = fenced \cup {w.intent.id} /\ Proceed(s, w, "discard") /\ UNCHANGED storeVars
         ELSE /\ Execute(FenceRequest(w.intent.id[1])) /\ UNCHANGED fenced
              /\ IF CanPrepare(FenceRequest(w.intent.id[1])) THEN Proceed(s, w, "fenced") ELSE EndTask(s)
  BY Zenon DEF Fence
<1>t. PICK t : t = w.intent.id[1] BY Zenon
<1>3. w \in res[s] /\ w.pc = "fence" BY <1>2, Zenon DEF Tasks
<1>4. w \in Task /\ TaskOK(s, w) /\ w.intent.id \in Id /\ t \in Txns
  BY <1>1, <1>3, <1>t, TaskFacts, Zenon
<1>5. w.intent.age = 2 /\ Dead(t) BY <1>3, <1>4, <1>t, Zenon DEF TaskOK
<1>6. CASE w.intent.id[2] # "data"
  <2>1. fenced' = fenced \cup {w.intent.id} /\ Proceed(s, w, "discard") /\ UNCHANGED storeVars
    BY <1>2, <1>6, Zenon
  <2>2. fenced' \subseteq Id /\ \A id \in fenced' : id \in fenced \/ Dead(id[1])
    BY <1>4, <1>5, <1>t, <2>1, Zenon DEF IInv, TypeOK
  <2> DEFINE v == [w EXCEPT !.pc = "discard"]
  <2>3. TasksTyped /\ \A z \in Slots : \A x \in res'[z] : x \in res[z] \/ (z = s /\ x = v)
    BY <1>1, <1>3, <2>1, <2>2, ProceedTasks, Zenon
  <2>4. v.pc = "discard" /\ v.intent = w.intent BY <1>4, TaskMoves, Zenon
  <2>5. TaskOK(s, v) BY <1>4, <1>5, <1>6, <1>t, <2>4, Zenon DEF TaskOK
  <2> QED BY <1>1, <2>1, <2>3, <2>5, QuietStep, Zenon
<1>7. CASE w.intent.id[2] = "data"
  <2>r. PICK r : r = FenceRequest(t) BY Zenon
  <2>1. /\ r \in Request /\ Sound(r) /\ r.id[1] = t /\ r.slot = t /\ r.expect = {0}
    BY <1>4, <1>5, <2>r, FenceSent
  <2>4. drv[t].pc # "idle" BY <1>5, Zenon DEF Dead
  <2>5. Execute(r) /\ UNCHANGED fenced BY <1>2, <1>7, <1>t, <2>r, Zenon
  <2>6. fenced' \subseteq Id /\ \A id \in fenced' : id \in fenced \/ Dead(id[1])
    BY <2>5, SameFences, Zenon
  <2>7. CASE CanPrepare(r)
    <3> DEFINE v == [w EXCEPT !.pc = "fenced"]
    <3>1. Proceed(s, w, "fenced") BY <1>2, <1>7, <1>t, <2>7, <2>r, Zenon
    <3>2. TasksTyped /\ \A z \in Slots : \A x \in res'[z] : x \in res[z] \/ (z = s /\ x = v)
      BY <1>1, <1>3, <2>6, <3>1, ProceedTasks, Zenon
    <3>3. v.pc = "fenced" /\ v.intent = w.intent BY <1>4, TaskMoves, Zenon
    <3>4. obj[t].version = 0 BY <2>1, <2>7, Zenon DEF CanPrepare, ExpectationHolds
    <3>5. obj[t].value = "gone" BY <1>1, <1>4, <3>4, Zenon DEF IInv, Core, StoreOK
    <3>6. TaskOK(s, v) BY <1>4, <1>5, <1>7, <1>t, <3>3, <3>5, Zenon DEF TaskOK
    <3> QED BY <1>1, <2>1, <2>4, <2>5, <3>2, <3>6, ServerStep, Zenon
  <2>8. CASE ~CanPrepare(r)
    <3>1. EndTask(s) BY <1>2, <1>7, <1>t, <2>8, <2>r, Zenon
    <3>2. TasksTyped /\ \A z \in Slots : \A x \in res'[z] : x \in res[z]
      BY <1>1, <2>6, <3>1, EndTasks, Zenon
    <3> QED BY <1>1, <2>1, <2>4, <2>5, <3>2, ServerStep, Zenon
  <2> QED BY <2>7, <2>8, Zenon
<1> QED BY <1>6, <1>7, Zenon

LEMMA PersistFenceKeeps ==
  ASSUME IInv, NEW s \in Slots, PersistFence(s)
  PROVE  Kept
<1>1. ~fault /\ Aside /\ UNCHANGED fenced BY Zenon DEF PersistFence, Aside
<1>2. PICK w \in Tasks(s, "fenced") :
         /\ Execute(Finalize(w.intent.id[1], <<w.intent.id[1], "fence">>, "zero", "Fenced", TRUE))
         /\ Proceed(s, w, "discard")
  BY Zenon DEF PersistFence
<1>t. PICK t : t = w.intent.id[1] BY Zenon
<1>3. w \in res[s] /\ w.pc = "fenced" BY <1>2, Zenon DEF Tasks
<1>4. w \in Task /\ TaskOK(s, w) /\ t \in Txns BY <1>1, <1>3, <1>t, TaskFacts, Zenon
<1>5. Dead(t) /\ w.intent.id[2] = "data" /\ obj[t].value \in {"gone", "Fenced"}
  BY <1>3, <1>4, <1>t, Zenon DEF TaskOK
<1> DEFINE v == [w EXCEPT !.pc = "discard"]
<1>r. PICK r : r = FencedRequest(t) BY Zenon
<1>6. /\ r \in Request /\ Sound(r) /\ r.id[1] = t /\ r.op = "finalize" /\ r.slot = t
      /\ r.write = "Fenced" /\ r.commit
  BY <1>4, <1>5, <1>r, FencedSent
<1>8. Execute(r) BY <1>2, <1>t, <1>r, Zenon DEF FencedRequest
<1>10. drv[t].pc # "idle" BY <1>5, Zenon DEF Dead
<1>11. fenced' \subseteq Id /\ \A id \in fenced' : id \in fenced \/ Dead(id[1])
  BY <1>1, SameFences, Zenon
<1>12. TasksTyped /\ \A z \in Slots : \A x \in res'[z] : x \in res[z] \/ (z = s /\ x = v)
  BY <1>1, <1>2, <1>3, <1>11, ProceedTasks, Zenon
<1>13. v.pc = "discard" /\ v.intent = w.intent BY <1>4, TaskMoves, Zenon
<1>14. ASSUME ~fault' PROVE TaskOK(s, v)'
  <2>1. obj'[t].value = "Fenced"
    BY <1>4, <1>6, <1>8, <1>14, RecordDecided, Zenon DEF IInv, Decision
  <2>2. Refuted(t)' BY <2>1, Zenon DEF Refuted
  <2>3. Dead(t)' /\ drv'[t].pc # "idle"
    BY <1>1, <1>4, <1>5, <1>10, AsideFacts, Zenon DEF DeadStay
  <2> QED BY <1>4, <1>5, <1>13, <1>t, <2>2, <2>3, Zenon DEF TaskOK, Home
<1> QED BY <1>1, <1>6, <1>8, <1>10, <1>12, <1>14, ServerStep, Zenon

LEMMA ConvergeKeeps ==
  ASSUME IInv, NEW s \in Slots, Converge(s)
  PROVE  Kept
<1>1. ~fault /\ Aside /\ UNCHANGED fenced /\ EndTask(s) BY Zenon DEF Converge, Aside
<1>2. PICK w \in Tasks(s, "apply") \cup Tasks(s, "discard") :
         Execute(Finalize(s, w.intent.id, w.intent.digest, w.intent.write, w.pc = "apply"))
  BY Zenon DEF Converge
<1>3. w \in res[s] /\ w.pc \in {"apply", "discard"} BY <1>2, Zenon DEF Tasks
<1>r. PICK r : r = ConvergeRequest(s, w) BY Zenon
<1>6. r \in Request /\ Sound(r) /\ drv[r.id[1]].pc # "idle"
  BY <1>1, <1>3, <1>r, ConvergeSent, SMTT(30)
<1>7. Execute(r) BY <1>2, <1>r, Zenon DEF ConvergeRequest
<1>10. fenced' \subseteq Id /\ \A id \in fenced' : id \in fenced \/ Dead(id[1])
  BY <1>1, SameFences, Zenon
<1>11. TasksTyped /\ \A z \in Slots : \A x \in res'[z] : x \in res[z]
  BY <1>1, <1>10, EndTasks, Zenon
<1> QED BY <1>1, <1>6, <1>7, <1>11, ServerStep, Zenon

LEMMA AbandonKeeps ==
  ASSUME IInv, NEW s \in Slots, Abandon(s)
  PROVE  Kept
BY EndKeeps, Zenon DEF Abandon, Aside

-----------------------------------------------------------------------------
(* Time, and other clients. *)

\* The store after a step that keeps the records and the ids of the reservations.
LEMMA AlikeKeeps ==
  ASSUME StoreOK, UNCHANGED <<applied, discarded>>,
         \A t \in Txns : obj'[t] = obj[t],
         \A s \in Slots : \A i, j \in intent'[s] : i = j,
         \A s \in Slots : \A i \in intent'[s] : \E j \in intent[s] : j.id = i.id /\ j.digest = i.digest,
         \A s \in Slots : \A j \in intent[s] : \E i \in intent'[s] : i.id = j.id
  PROVE  StoreOK' /\ Advance
<1>1. \A s \in Slots : \A id : (\E i \in intent'[s] : i.id = id) <=> (\E i \in intent[s] : i.id = id)
  OBVIOUS
<1>2. \A t \in Txns : \A k \in Keys : CoveredKey(t, k)' = CoveredKey(t, k)
  BY <1>1 DEF CoveredKey, Reserves, Slots
<1>3. \A t \in Txns : Committed(t)' = Committed(t) /\ Refuted(t)' = Refuted(t)
  BY Zenon DEF Committed, Refuted
<1>4. \A t \in Txns : Secured(t)' = Secured(t)
  <2>1. \A t \in Txns : WriteSet(t) \subseteq Keys BY TxnClusterAssumption DEF WriteSet
  <2> QED BY <1>2, <1>3, <2>1, SMTT(30) DEF Secured
<1>5. \A t \in Txns : \A step : Bound(t, step)' = Bound(t, step)
  <2> SUFFICES ASSUME NEW t \in Txns, NEW step PROVE Bound(t, step)' = Bound(t, step) BY Zenon
  <2>1. t \in Slots BY Zenon DEF Slots
  <2>2. (\E i \in intent'[t] : i.id = <<t, step>>) <=> (\E i \in intent[t] : i.id = <<t, step>>)
    <3> DEFINE before(id) == \E i \in intent[t] : i.id = id
               after(id) == \E i \in intent'[t] : i.id = id
    <3>1. \A id : after(id) <=> before(id) BY Zenon, <1>1, <2>1
    <3>2. after(<<t, step>>) <=> before(<<t, step>>)
      <4> HIDE DEF before, after
      <4> QED BY Zenon, <3>1
    <3> QED BY Zenon, <3>2
  <2>3. obj'[t] = obj[t] BY Zenon
  <2> QED BY Zenon, <2>2, <2>3 DEF Bound
<1>6. \A t \in Txns : intent'[t] # {} => intent[t] # {}
  BY Zenon DEF Slots
<1>7. \A s \in Slots : \A i \in intent'[s] : Home(s, i.id, i.digest)'
  BY DEF StoreOK, Home
<1>8. StoreOK'
  BY <1>3, <1>4, <1>6, <1>7 DEF StoreOK
<1>9. Advance
  <2>1. \A t \in Txns : obj[t].value \in Decision => obj'[t].value = obj[t].value BY Zenon
  <2>2. \A t \in Txns : Dead(t) /\ obj[t].value \in {"gone", "Fenced"} => obj'[t].value \in {"gone", "Fenced"}
    BY Zenon
  <2>3. \A t \in Txns : \A step \in {"commit", "abort"} : ~Dead(t) /\ Bound(t, step) => Bound(t, step)'
    BY Zenon, <1>5
  <2>4. \A t \in Txns : \A k \in Keys : CoveredKey(t, k) => CoveredKey(t, k)' \/ Refuted(t)'
    BY Zenon, <1>2
  <2> QED BY Zenon, <2>1, <2>2, <2>3, <2>4 DEF Advance
<1> QED BY <1>8, <1>9, Zenon

\* Such a step in the whole.
LEMMA AlikeStep ==
  ASSUME IInv, ~fault, UNCHANGED <<conf, drv, seen, late, faults, res, fenced, fault, applied, discarded>>,
         StoreTypeOK', ReservedKeyFrozen',
         \A t \in Txns : obj'[t] = obj[t],
         \A s \in Slots : \A i, j \in intent'[s] : i = j,
         \A s \in Slots : \A i \in intent'[s] : \E j \in intent[s] : j.id = i.id /\ j.digest = i.digest,
         \A s \in Slots : \A j \in intent[s] : \E i \in intent'[s] : i.id = j.id,
         \A s \in Slots : \A i \in intent'[s] : (\E j \in intent[s] : j.id = i.id /\ j.age = i.age) \/ IntentOK(i)'
  PROVE  Kept
<1>1. TypeOK /\ Core /\ StoreOK /\ Atomic BY Zenon DEF IInv, Core
<1>2. StoreOK' /\ Advance BY <1>1, AlikeKeeps, Zenon
<1>3. TypeOK' BY <1>1, Zenon DEF TypeOK
<1>4. Atomic' BY <1>1, Zenon DEF Atomic
<1>5. DecisionsLast BY Zenon DEF DecisionsLast
<1>6. Aside BY Zenon DEF Aside
<1>7. /\ DeadStay
      /\ \A u \in Txns : drv[u].pc # "idle" => drv'[u].pc # "idle"
      /\ \A q \in late' : q \in late /\ drv'[q.id[1]].pc # "idle"
  BY <1>6, AsideFacts, Zenon
<1>8. \A s \in Slots : \A i \in intent'[s] : i.id \in Id BY SMTT(30) DEF StoreTypeOK, Intent
<1>9. \A s \in Slots : \A w, v \in res'[s] : w = v BY <1>1, SMTT(30) DEF Core
<1>10. Core' BY <1>1, <1>2, <1>7, <1>8, <1>9, CoreLasts, Zenon
<1> QED BY <1>3, <1>4, <1>5, <1>10, Zenon DEF IInv, Kept

\* A reservation only gets old when nobody acts for it any more.
LEMMA AgeKeeps ==
  ASSUME IInv, NEW s \in Slots, Age(s)
  PROVE  Kept
<1>1. ~fault /\ UNCHANGED <<conf, drv, seen, late, faults, res, fenced>> BY Zenon DEF Age
<1>2. TypeOK /\ Core /\ StoreOK /\ StoreTypeOK /\ ReservedKeyFrozen
  BY <1>1, Zenon DEF IInv, Core, TypeOK
<1>3. PICK i \in intent[s] : i.age < 2 /\ intent' = [intent EXCEPT ![s] = {[i EXCEPT !.age = @ + 1]}]
  BY Zenon DEF Age, Grow
<1>4. UNCHANGED <<obj, fault, applied, discarded>> BY Zenon DEF Age, Grow
<1>5. i \in Intent BY <1>2, Zenon DEF StoreTypeOK
<1>6. PICK n : n = [i EXCEPT !.age = @ + 1] BY Zenon
<1>7. n \in Intent /\ n.id = i.id /\ n.digest = i.digest /\ n.observed = i.observed /\ n.age = i.age + 1
  <2>1. i.age + 1 \in 0..2 BY <1>3, <1>5 DEF Intent
  <2> QED BY <1>5, <1>6, <2>1, Zenon DEF Intent
<1>8. intent' = [intent EXCEPT ![s] = {n}] BY <1>3, <1>6, Zenon
<1>9. intent'[s] = {n} /\ \A z \in Slots : z # s => intent'[z] = intent[z]
  BY <1>2, <1>8, Zenon DEF StoreTypeOK
<1>10. StoreTypeOK' BY <1>2, <1>4, <1>7, <1>8, Zenon DEF StoreTypeOK
<1>11. ReservedKeyFrozen' BY <1>2, <1>4, <1>7, <1>9, Zenon DEF ReservedKeyFrozen
<1>12. IntentOK(n)'
  <2> DEFINE t == i.id[1]
  <2>1. IntentOK(i) /\ t \in Txns /\ i.id \in Id BY <1>2, <1>5, IdParts, Zenon DEF Core, Intent
  <2>2. n.age = 2 => Dead(t)
    <3> SUFFICES ASSUME n.age = 2 PROVE Dead(t)
      BY Zenon
    <3>1. i.age = 1 BY <1>3, <1>5, <1>7 DEF Intent
    <3>2. conf.age <= 1 /\ conf.age \in 0..2
      BY <1>2, TxnClusterAssumption, Zenon DEF Core, TypeOK
    <3>3. ~Attended(i) BY <3>1, <3>2 DEF Age
    <3>4. CASE i.id[2] = "fence" BY <2>1, <3>4, Zenon DEF IntentOK
    <3>5. CASE i.id[2] # "fence"
      <4>1. ~Running(t) BY <3>3, <3>5, Zenon DEF Attended
      <4>2. drv[t].pc # "idle" BY <2>1, Zenon DEF IntentOK
      <4> QED BY <4>1, <4>2, Zenon DEF Running, Dead
    <3> QED BY <3>4, <3>5, Zenon
  <2>3. Dead(t)' = Dead(t) BY <1>1, Zenon DEF Dead
  <2>4. Secured(t)' = Secured(t)
    <3>1. \A k \in Keys : Reserves(t, k)' = Reserves(t, k)
      BY <1>2, <1>7, <1>9, SMTT(30) DEF Reserves, StoreOK, Slots
    <3>2. WriteSet(t) \subseteq Keys BY <2>1, TxnClusterAssumption DEF WriteSet
    <3> QED BY <1>4, <3>1, <3>2, Zenon DEF Secured, Refuted, CoveredKey
  <2> QED BY <1>1, <1>7, <2>1, <2>2, <2>3, <2>4, Zenon DEF IntentOK
<1>13. \A z \in Slots : \A x, y \in intent'[z] : x = y
  <2>1. \A z \in Slots : \A x, y \in intent[z] : x = y BY <1>2, Zenon DEF StoreOK
  <2> QED BY <1>9, <2>1, SMTT(30)
<1>14. \A z \in Slots : \A x \in intent'[z] : \E j \in intent[z] : j.id = x.id /\ j.digest = x.digest
  BY <1>7, <1>9, Zenon
<1>15. \A z \in Slots : \A j \in intent[z] : \E x \in intent'[z] : x.id = j.id
  <2>1. \A z \in Slots : \A x, y \in intent[z] : x = y BY <1>2, Zenon DEF StoreOK
  <2>2. \A j \in intent[s] : j.id = n.id BY <1>7, <2>1, Zenon
  <2> QED BY <1>9, <2>2, Zenon
<1>16. \A z \in Slots : \A x \in intent'[z] :
         (\E j \in intent[z] : j.id = x.id /\ j.age = x.age) \/ IntentOK(x)'
  BY Zenon, <1>9, <1>12
<1> QED BY <1>1, <1>4, <1>10, <1>11, <1>13, <1>14, <1>15, <1>16, AlikeStep, Zenon

\* A record key is no key of other clients.
LEMMA OtherClientKeeps ==
  ASSUME IInv, NEW k \in Keys, OtherClient(k)
  PROVE  Kept
<1>1. ~fault /\ UNCHANGED <<conf, drv, seen, late, faults, res, fenced>>
  BY Zenon DEF OtherClient
<1>2. PICK write \in {"local", "gone"} : LocalWrite(k, write) BY Zenon DEF OtherClient
<1>3. UNCHANGED <<intent, fault, applied, discarded>> /\ intent[k] = {}
  BY <1>2, Zenon DEF LocalWrite, Unreserved
<1>4. TypeOK /\ StoreTypeOK /\ StoreOK /\ ReservedKeyFrozen
  BY <1>1, Zenon DEF IInv, Core, TypeOK
<1>5. k \in Slots /\ \A t \in Txns : t # k /\ t \in Slots BY TxnStoreAssumption, Zenon DEF Slots
<1>6. obj' = [obj EXCEPT ![k] = Written(k, write)] BY <1>2, Zenon DEF LocalWrite
<1>7. Written(k, write) \in Object
  BY <1>2, <1>4, <1>5 DEF Written, Object, Gone, Value, StoreTypeOK
<1>8. StoreTypeOK' BY <1>3, <1>4, <1>5, <1>6, <1>7, Zenon DEF StoreTypeOK
<1>9. ReservedKeyFrozen' BY <1>3, <1>4, <1>5, <1>6, Zenon DEF ReservedKeyFrozen, StoreTypeOK
<1>10. \A t \in Txns : obj'[t] = obj[t] BY <1>4, <1>5, <1>6, Zenon DEF StoreTypeOK
<1>11. \A s \in Slots : \A i, j \in intent'[s] : i = j BY <1>3, <1>4, Zenon DEF StoreOK
<1> QED BY <1>1, <1>3, <1>8, <1>9, <1>10, <1>11, AlikeStep, Zenon

-----------------------------------------------------------------------------
(* The invariant. *)

LEMMA InitInv ==
  ASSUME TimelyDrivers, Init
  PROVE  IInv
<1>1. StoreTypeOK
  <2>1. Gone \in Object BY Zenon DEF Gone, Object, Value
  <2> QED BY <2>1, Zenon DEF Init, StoreInit, StoreTypeOK
<1>2. TypeOK
  <2>1. Idle \in Driver BY TxnClusterAssumption DEF Idle, Driver, Pc, Outcome
  <2>2. Gone \in Object BY Zenon DEF Gone, Object, Value
  <2> QED BY <1>1, <2>1, <2>2, TxnClusterAssumption DEF Init, TypeOK, Driver
<1>3. Atomic /\ ReservedKeyFrozen BY Zenon DEF Init, StoreInit, Atomic, ReservedKeyFrozen
<1>4. StoreOK
  <2>1. \A t \in Txns : obj[t] = Gone /\ intent[t] = {} BY Zenon DEF Init, StoreInit, Slots
  <2>2. \A t \in Txns : ~Committed(t) BY <2>1 DEF Committed, Gone
  <2>3. \A t \in Txns : obj[t].version = 0 /\ obj[t].value = "gone"
    <3>1. Gone.version = 0 /\ Gone.value = "gone" BY Zenon DEF Gone
    <3> QED BY Zenon, <2>1, <3>1
  <2> QED BY <2>1, <2>2, <2>3 DEF Init, StoreInit, StoreOK
<1>5. \A t \in Txns : DriverOK(t) BY Zenon DEF Init, Idle, DriverOK
<1>6. Core BY <1>4, <1>5, Zenon DEF Init, StoreInit, Core, TimelyDrivers
<1> QED BY <1>2, <1>3, <1>6, Zenon DEF IInv

LEMMA NextKeeps ==
  ASSUME IInv, [Next]_vars
  PROVE  Kept
<1>1. ASSUME NEW t \in Txns, Drive(t) PROVE Kept
  BY <1>1, BeginKeeps, RecoverKeeps, PrepareKeyKeeps, DecideCommitKeeps, PersistCommitKeeps,
     RereadKeeps,
     VerifyKeeps, FinalizeKeyKeeps, DecideAbortKeeps, PersistAbortKeeps, AbortRereadKeeps, DiscardKeyKeeps, Zenon
     DEF Drive
<1>2. ASSUME NEW t \in Txns, Crash(t) PROVE Kept
  BY <1>2, CrashKeeps, Zenon
<1>3. ASSUME NEW r \in late, Deliver(r) \/ Drop(r) PROVE Kept
  BY <1>3, DeliverKeeps, DropKeeps, Zenon
<1>4. ASSUME NEW s \in Slots, ReadLatest(s) PROVE Kept
  <2>1. PICK w \in Tasks(s, "read") : ReadRecord(s, RecordOf(w.intent.id))
    BY <1>4, Zenon DEF ReadLatest
  <2>2. ~fault BY <2>1, Zenon DEF ReadRecord
  <2>3. \A v \in Tasks(s, "read") : v = w BY <2>2, Zenon DEF Tasks, IInv, Core
  <2> QED BY <2>1, <2>3, ReadRecordKeeps, Zenon
<1>5. ASSUME NEW s \in Slots, ReadStale(s) PROVE Kept
  BY <1>5, ReadRecordKeeps, Zenon DEF ReadStale
<1>6. ASSUME NEW s \in Slots, ListIntent(s) \/ Resolve(s) \/ ReadStale(s) \/ Abandon(s) \/ Age(s) PROVE Kept
  BY <1>4, <1>5, <1>6, ListIntentKeeps, FenceKeeps, PersistFenceKeeps, ConvergeKeeps,
     AbandonKeeps, AgeKeeps, Zenon
     DEF Resolve
<1>7. ASSUME NEW k \in Keys, OtherClient(k) PROVE Kept
  BY <1>7, OtherClientKeeps, Zenon
<1>8. CASE UNCHANGED vars
  <2>1. CASE ~fault
    <3>1. Aside /\ UNCHANGED storeVars /\ UNCHANGED <<res, fenced>>
      BY <1>8, Zenon DEF vars, Aside, storeVars
    <3>2. TasksTyped BY <2>1, <3>1, SameTasks, Zenon
    <3> QED BY <2>1, <3>1, <3>2, QuietStep, Zenon
  <2>2. CASE fault
    <3>1. TypeOK' BY <1>8, Zenon DEF vars, IInv, TypeOK, StoreTypeOK
    <3>2. Atomic' /\ ReservedKeyFrozen' /\ fault' /\ DecisionsLast
      BY <1>8, <2>2, Zenon DEF vars, IInv, Atomic, ReservedKeyFrozen, DecisionsLast
    <3> QED BY <3>1, <3>2, Zenon DEF Kept, IInv
  <2> QED BY <2>1, <2>2, Zenon
<1> QED BY <1>1, <1>2, <1>3, <1>6, <1>7, <1>8, Zenon DEF Next

\* The invariant holds in every state.
THEOREM Invariance == ASSUME TimelyDrivers PROVE Spec => []IInv
<1>1. Init => IInv BY InitInv, Zenon
<1>2. IInv /\ [Next]_vars => IInv' BY NextKeeps, Zenon DEF Kept
<1> QED BY <1>1, <1>2, PTL DEF Spec

\* The state of the cluster is well typed.
THEOREM TypeCorrect == ASSUME TimelyDrivers PROVE Spec => []TypeOK
<1>1. IInv => TypeOK BY Zenon DEF IInv
<1> QED BY <1>1, Invariance, PTL

\* A cross-tablet batch (atomic_batch) is all or nothing: however its driver, its
\* late requests and the resolvers interleave, fail and crash, no transaction has
\* one of its writes applied and another discarded.
THEOREM AtomicHolds == ASSUME TimelyDrivers PROVE Spec => []Atomic
<1>1. IInv => Atomic BY Zenon DEF IInv
<1> QED BY <1>1, Invariance, PTL

\* While a key is reserved by a prepare, no entry changes its object.
THEOREM ReservedKeyFrozenHolds == ASSUME TimelyDrivers PROVE Spec => []ReservedKeyFrozen
<1>1. IInv => ReservedKeyFrozen BY Zenon DEF IInv
<1> QED BY <1>1, Invariance, PTL

\* When the record says Committed, each key of the batch is still reserved for it
\* or has its write, so that re-drives and resolvers can finish it.
THEOREM CommitCoversReservationsHolds == ASSUME TimelyDrivers PROVE Spec => []CommitCoversReservations
<1>1. IInv => CommitCoversReservations
  <2> SUFFICES ASSUME IInv, NEW t \in Txns, ~fault, obj[t].value = "Committed", NEW k \in WriteSet(t)
               PROVE  applied[t][k] > 0 \/ Reserves(t, k)
    BY Zenon DEF CommitCoversReservations
  <2>1. Committed(t) /\ StoreOK BY Zenon DEF Committed, IInv, Core
  <2>2. Secured(t) /\ ~Refuted(t) BY <2>1, Zenon DEF StoreOK, Committed, Refuted
  <2> QED BY <2>2, Zenon DEF Secured, CoveredKey
<1> QED BY <1>1, Invariance, PTL

\* A decision record is written once: neither a driver that comes late, nor a
\* re-drive, nor the fence of a resolver replaces a decision by another.
THEOREM DecisionStableHolds == ASSUME TimelyDrivers PROVE Spec => DecisionStable
<1>1. IInv /\ [Next]_vars =>
        [\A t \in Txns : obj[t].value \in Decision =>
            (obj'[t].value = "Committed") = (obj[t].value = "Committed") /\ obj'[t].value \in Decision]_vars
  <2>1. IInv /\ [Next]_vars => DecisionsLast BY NextKeeps, Zenon DEF Kept
  <2> QED BY <2>1, Zenon DEF DecisionsLast
<1> QED BY <1>1, Invariance, PTL DEF Spec, DecisionStable
=============================================================================
