-------------------------- MODULE TxnEngineProofs ---------------------------
(***************************************************************************)
(* Proofs about TxnEngine for every set of transactions and keys, every    *)
(* write set and any number of crashes and overloaded calls.               *)
(***************************************************************************)
EXTENDS TxnEngine, TLAPS

\* No decision record is ever there to be read: the finalize of a decision deletes
\* what its prepare carried (RecordWrite).
NothingDecided == \A t \in Txns : obj[t].value = "gone"

\* A reservation of a write carries the digest of its write set.
OwnDigests == \A s \in Slots : \A i \in intent[s] : i.id[2] = "data" => i.digest = "own"

\* A slot holds one reservation at most.
OneReservation == \A s \in Slots : \A i, j \in intent[s] : i = j

\* Every key of the batch has its write or is reserved for it.
Kept(t) == \A k \in Keyset(t) : applied[t][k] > 0 \/ ReservedFor(t, k)

Untouched(t) == \A k \in Keys : applied[t][k] = 0

\* The keys before the i-th one, in a wave of prepares and in a wave of finalizes.
PreparedBefore(t, i) == \A j \in 1..Len(Writes[t]) : j < i => ReservedFor(t, Writes[t][j])
WrittenBefore(t, i) == \A j \in 1..Len(Writes[t]) : j < i => applied[t][Writes[t][j]] > 0

\* What a batch has done by the place it is at: it has written nothing before it
\* finalizes, given up nothing before it discards, and reserved every key before it
\* decides to commit; and what it reports is what it has written.
DriverOK(t) ==
    /\ drv[t].i \in 1..Len(Writes[t])
    /\ drv[t].pc \notin {"finalize", "done", "crashed"} => Untouched(t)
    /\ drv[t].pc \notin {"discard", "done", "crashed"} => discarded[t] = {}
    /\ drv[t].pc = "prepare" => PreparedBefore(t, drv[t].i)
    /\ drv[t].pc \in {"decide", "decided", "finalize"} => Kept(t)
    /\ Untouched(t) \/ Kept(t)
    /\ drv[t].pc = "finalize" => WrittenBefore(t, drv[t].i)
    /\ drv[t].outcome = "committed" => drv[t].pc = "done" /\ \A k \in Keyset(t) : applied[t][k] > 0
    /\ drv[t].pc = "done" /\ drv[t].outcome \in {"conflict", "aborted"} => Untouched(t)

\* The resolver, which finds no record, never applies, and what it discards is
\* discarded under the digest of a fence.
TaskOK(w) == w.pc # "apply" /\ w.digest = "zero"

\* The inductive invariant.
IInv ==
    /\ TypeOK
    /\ Atomic
    /\ ReservedKeyFrozen
    /\ NothingDecided
    /\ OwnDigests /\ OneReservation
    /\ \A t \in Txns : DriverOK(t)
    /\ \A w \in task : TaskOK(w)

\* What every step has to keep of the store.
StoreKept == StoreTypeOK' /\ ReservedKeyFrozen' /\ NothingDecided' /\ OwnDigests' /\ OneReservation'

\* The reservations of a batch stay.
HoldsKept(t) == \A k \in Keys : ReservedFor(t, k) => ReservedFor(t, k)'

\* A step that does nothing to any batch but, perhaps, reserve for it.
StoreQuiet ==
    /\ StoreKept /\ UNCHANGED <<applied, discarded>>
    /\ \A u \in Txns : HoldsKept(u)

-----------------------------------------------------------------------------
(* The store. *)

\* An id is a pair.
LEMMA IdParts ==
  ASSUME NEW id \in Id
  PROVE  id[1] \in Txns /\ id[2] \in Step
BY DEF Id

\* Keys and record keys are slots, and no key is a record key.
LEMMA SlotKinds ==
  /\ \A k \in Keys : k \in Slots /\ k \notin Txns
  /\ \A t \in Txns : t \in Slots
BY TxnStoreAssumption DEF Slots

\* The keys of a batch.
LEMMA BatchKeys ==
  ASSUME NEW t \in Txns
  PROVE  /\ Writes[t] \in Seq(Keys) /\ Len(Writes[t]) \in Nat /\ 1 \in 1..Len(Writes[t])
         /\ \A j \in 1..Len(Writes[t]) : Writes[t][j] \in Keys
         /\ Keyset(t) = {Writes[t][j] : j \in 1..Len(Writes[t])} /\ Keyset(t) \subseteq Keys
<1>1. Writes[t] \in Seq(Keys) /\ Writes[t] # <<>> BY TxnEngineAssumption
<1>2. Len(Writes[t]) \in Nat /\ 1 \in 1..Len(Writes[t]) /\ DOMAIN Writes[t] = 1..Len(Writes[t])
  BY <1>1
<1>3. \A j \in 1..Len(Writes[t]) : Writes[t][j] \in Keys BY <1>1
<1> QED BY <1>1, <1>2, <1>3 DEF Keyset

\* A call that fails changes nothing.
LEMMA StoreStays ==
  ASSUME IInv, UNCHANGED storeVars
  PROVE  StoreQuiet
<1>1. UNCHANGED <<obj, intent, fault, applied, discarded>> BY DEF storeVars
<1>2. StoreKept
  BY <1>1 DEF IInv, TypeOK, StoreKept, StoreTypeOK, ReservedKeyFrozen, NothingDecided, OwnDigests,
             OneReservation
<1> QED BY <1>1, <1>2 DEF StoreQuiet, HoldsKept, ReservedFor

LEMMA FailsKept ==
  ASSUME IInv, NEW r, Fails(r)
  PROVE  StoreQuiet /\ faults' \in Nat
<1>1. UNCHANGED storeVars /\ faults' \in {faults, faults + 1} BY DEF Fails, Overloaded
<1> QED BY <1>1, StoreStays DEF IInv, TypeOK

\* A prepare that is accepted reserves.
LEMMA PrepareKept ==
  ASSUME IInv, NEW r \in Request, r.op = "prepare", r.id[2] = "data" => r.digest = "own", Succeeds(r)
  PROVE  /\ StoreQuiet /\ faults' \in Nat
         /\ \E i \in intent'[r.slot] : i.id = r.id
<1>1. StoreTypeOK /\ ReservedKeyFrozen /\ NothingDecided /\ OwnDigests BY DEF IInv, TypeOK
<1>2. r.slot \in Slots /\ r.id \in Id /\ r.write \in Value /\ r.digest \in {"own", "zero"}
  BY DEF Request
<1>3. CanPrepare(r) /\ UNCHANGED faults BY DEF Succeeds, Accepts
<1> DEFINE n == [id |-> r.id, digest |-> r.digest, write |-> r.write, age |-> 0,
                 observed |-> obj[r.slot].version]
<1>4. intent' = [intent EXCEPT ![r.slot] = {n}] /\ UNCHANGED <<obj, fault, applied, discarded>>
  BY <1>3 DEF Succeeds, Execute, ApplyPrepare
<1>5. n \in Intent BY <1>1, <1>2 DEF Intent, StoreTypeOK, Object
<1>6. n.id = r.id /\ n.digest = r.digest /\ n.observed = obj[r.slot].version OBVIOUS
<1> HIDE DEF n
<1>7. intent'[r.slot] = {n} /\ \A s \in Slots : s # r.slot => intent'[s] = intent[s]
  BY <1>1, <1>2, <1>4 DEF StoreTypeOK
<1>8. StoreTypeOK' BY <1>1, <1>4, <1>5, Zenon DEF StoreTypeOK
<1>9. ReservedKeyFrozen' BY <1>1, <1>4, <1>6, <1>7 DEF ReservedKeyFrozen
<1>10. NothingDecided' BY <1>1, <1>4 DEF NothingDecided
<1>11. OwnDigests' BY <1>1, <1>6, <1>7 DEF OwnDigests
<1>12. ASSUME NEW u \in Txns PROVE HoldsKept(u)
  <2> SUFFICES ASSUME NEW k \in Keys, NEW i \in intent[k], i.id = Data(u)
               PROVE  \E j \in intent'[k] : j.id = Data(u)
    BY DEF HoldsKept, ReservedFor
  <2>1. CASE k = r.slot
    <3>1. i.id = r.id BY <1>3, <2>1 DEF CanPrepare, Foreign
    <3> QED BY <1>6, <1>7, <2>1, <3>1
  <2>2. CASE k # r.slot BY <1>7, <2>2, SlotKinds
  <2> QED BY <2>1, <2>2
<1>13. OneReservation' BY <1>7 DEF IInv, OneReservation
<1>14. faults' \in Nat BY <1>3 DEF IInv, TypeOK
<1> QED
  BY <1>4, <1>6, <1>7, <1>8, <1>9, <1>10, <1>11, <1>12, <1>13, <1>14 DEF StoreKept, StoreQuiet

\* A finalize that is accepted releases its slot.  The history of a batch changes only
\* through a finalize of its own, and its reservations go only that way: the digest of a
\* record step never matches one.
LEMMA FinalizeKept ==
  ASSUME IInv, NEW r \in Request, r.op = "finalize", Succeeds(r),
         r.commit => r.slot \in Keys \/ r.write = "gone",
         r.id[2] = "data" => r.slot \in Keys \/ (~r.commit /\ r.digest = "zero")
  PROVE  /\ StoreKept /\ faults' \in Nat
         /\ r.id[2] # "data" \/ ~r.commit => applied' = applied
         /\ r.id[2] = "data" /\ r.commit => applied' = [applied EXCEPT ![r.id[1]][r.slot] = @ + 1]
         /\ r.id[2] # "data" \/ r.commit \/ r.digest = "zero" => discarded' = discarded
         /\ \A u \in Txns : u # r.id[1] => applied'[u] = applied[u] /\ discarded'[u] = discarded[u]
         /\ \A u \in Txns : u # r.id[1] \/ r.id[2] # "data" \/ r.digest = "zero" => HoldsKept(u)
         /\ \A s \in Slots : s # r.slot => intent'[s] = intent[s]
<1>1. StoreTypeOK /\ ReservedKeyFrozen /\ NothingDecided /\ OwnDigests BY DEF IInv, TypeOK
<1>2. r.slot \in Slots /\ r.id[1] \in Txns /\ r.id[2] \in Step /\ r.write \in Value
  BY IdParts DEF Request
<1>3. ApplyFinalize(r) /\ ~Foreign(r) /\ UNCHANGED faults BY DEF Succeeds, Accepts, Execute
<1>4. intent' = [intent EXCEPT ![r.slot] = {}] /\ fault' = fault BY <1>1, <1>3 DEF ApplyFinalize, StoreTypeOK
<1>5. intent'[r.slot] = {} /\ \A s \in Slots : s # r.slot => intent'[s] = intent[s]
  BY <1>1, <1>2, <1>4 DEF StoreTypeOK
<1>6. obj' = obj \/ (r.commit /\ obj' = [obj EXCEPT ![r.slot] = Written(r.slot, r.write)])
  BY <1>3 DEF ApplyFinalize
<1>7. Written(r.slot, r.write) \in Object /\ (r.write = "gone" => Written(r.slot, r.write).value = "gone")
  BY <1>1, <1>2 DEF Written, Object, Gone, Value, StoreTypeOK
<1>8. obj' \in [Slots -> Object] /\ \A s \in Slots : s # r.slot => obj'[s] = obj[s]
  BY <1>1, <1>2, <1>6, <1>7 DEF StoreTypeOK
<1>9. /\ r.id[2] # "data" \/ ~r.commit => applied' = applied
      /\ r.id[2] = "data" /\ r.commit => applied' = [applied EXCEPT ![r.id[1]][r.slot] = @ + 1]
  BY <1>3 DEF ApplyFinalize
<1>10. applied' \in [Txns -> [Keys -> Nat]] /\ \A u \in Txns : u # r.id[1] => applied'[u] = applied[u]
  <2>1. applied \in [Txns -> [Keys -> Nat]] BY <1>1 DEF StoreTypeOK
  <2>2. r.id[2] = "data" /\ r.commit => r.slot \in Keys OBVIOUS
  <2>3. r.slot \in Keys => [applied[r.id[1]] EXCEPT ![r.slot] = @ + 1] \in [Keys -> Nat]
    BY <1>2, <2>1
  <2> QED BY <1>2, <1>9, <2>1, <2>2, <2>3
<1>11. \/ discarded' = discarded
       \/ /\ r.id[2] = "data" /\ ~r.commit /\ intent[r.slot] # {}
          /\ discarded' = [discarded EXCEPT ![r.id[1]] = @ \cup {r.slot}]
  BY <1>3 DEF ApplyFinalize
<1>12. \A i \in intent[r.slot] : i.id = r.id /\ i.digest = r.digest BY <1>3 DEF Foreign
<1>13. r.id[2] = "data" /\ intent[r.slot] # {} => r.digest # "zero"
  BY <1>1, <1>2, <1>12 DEF OwnDigests
<1>14. discarded' \in [Txns -> SUBSET Keys] /\ \A u \in Txns : u # r.id[1] => discarded'[u] = discarded[u]
  <2>1. discarded \in [Txns -> SUBSET Keys] BY <1>1 DEF StoreTypeOK
  <2>2. CASE discarded' = discarded BY <2>1, <2>2
  <2>3. CASE /\ r.id[2] = "data" /\ ~r.commit /\ intent[r.slot] # {}
             /\ discarded' = [discarded EXCEPT ![r.id[1]] = @ \cup {r.slot}]
    <3>1. r.slot \in Keys BY <1>13, <2>3
    <3>2. discarded[r.id[1]] \cup {r.slot} \in SUBSET Keys BY <1>2, <2>1, <3>1
    <3> QED BY <1>2, <2>1, <2>3, <3>2
  <2> QED BY <1>11, <2>2, <2>3
<1>15. intent' \in [Slots -> SUBSET Intent] BY <1>1, <1>2, <1>4 DEF StoreTypeOK
<1>16. StoreTypeOK' BY <1>1, <1>4, <1>8, <1>10, <1>14, <1>15 DEF StoreTypeOK
<1>17. ReservedKeyFrozen' BY <1>1, <1>5, <1>8 DEF ReservedKeyFrozen
<1>18. OwnDigests' BY <1>1, <1>5 DEF OwnDigests
<1>19. NothingDecided'
  <2> SUFFICES ASSUME NEW t \in Txns PROVE obj'[t].value = "gone"
    BY DEF NothingDecided
  <2>1. obj[t].value = "gone" /\ t \in Slots /\ t \notin Keys
    BY <1>1, SlotKinds DEF NothingDecided
  <2>2. CASE t # r.slot BY <1>8, <2>1, <2>2
  <2>3. CASE t = r.slot
    <3>1. CASE obj' = obj BY <2>1, <3>1
    <3>2. CASE r.commit /\ obj' = [obj EXCEPT ![r.slot] = Written(r.slot, r.write)]
      <4>1. r.write = "gone" BY <2>1, <2>3, <3>2
      <4>2. obj'[r.slot] = Written(r.slot, r.write) BY <1>1, <1>2, <3>2 DEF StoreTypeOK
      <4> QED BY <1>7, <2>3, <4>1, <4>2
    <3> QED BY <1>6, <3>1, <3>2
  <2> QED BY <2>2, <2>3
<1>20. StoreKept /\ faults' \in Nat
  <2>1. OneReservation' BY <1>5 DEF IInv, OneReservation
  <2> QED BY <1>3, <1>16, <1>17, <1>18, <1>19, <2>1 DEF StoreKept, IInv, TypeOK
<1>21. r.id[2] # "data" \/ r.commit \/ r.digest = "zero" => discarded' = discarded
  BY <1>11, <1>13
<1>22. ASSUME NEW u \in Txns, u # r.id[1] \/ r.id[2] # "data" \/ r.digest = "zero"
       PROVE  HoldsKept(u)
  <2> SUFFICES ASSUME NEW k \in Keys, NEW i \in intent[k], i.id = Data(u)
               PROVE  k # r.slot
    BY <1>5, SlotKinds DEF HoldsKept, ReservedFor
  <2>1. i.id[1] = u /\ i.id[2] = "data" BY DEF Data
  <2>2. CASE r.id[2] = "data" /\ r.digest = "zero" BY <1>13, <2>2
  <2>3. CASE u # r.id[1] \/ r.id[2] # "data" BY <1>12, <2>1, <2>3
  <2> QED BY <1>22, <2>2, <2>3
<1> QED BY <1>5, <1>9, <1>10, <1>14, <1>20, <1>21, <1>22

-----------------------------------------------------------------------------
(* The requests. *)

LEMMA DecideKept ==
  ASSUME IInv, NEW t \in Txns, NEW decision \in Decision, Succeeds(DecideRequest(t, decision))
  PROVE  StoreQuiet /\ faults' \in Nat
<1> DEFINE r == DecideRequest(t, decision)
<1>1. Salt(decision) \in Step /\ Salt(decision) # "data" BY DEF Salt, Step, Decision
<1>2. t \in Slots /\ <<t, Salt(decision)>> \in Id BY <1>1, SlotKinds DEF Id
<1>3. r \in Request /\ r.op = "prepare" /\ r.id[2] # "data"
  BY <1>1, <1>2 DEF DecideRequest, Prepare, Request, Value, Decision
<1> HIDE DEF r
<1>4. Succeeds(r) BY DEF r
<1> QED BY <1>3, <1>4, PrepareKept

LEMMA PersistKept ==
  ASSUME IInv, NEW t \in Txns, NEW decision \in Decision, Succeeds(PersistRequest(t, decision))
  PROVE  StoreQuiet /\ faults' \in Nat
<1> DEFINE r == PersistRequest(t, decision)
<1>1. Salt(decision) \in Step /\ Salt(decision) # "data" BY DEF Salt, Step, Decision
<1>2. t \in Slots /\ <<t, Salt(decision)>> \in Id BY <1>1, SlotKinds DEF Id
<1>3. r \in Request /\ r.op = "finalize" /\ r.id[2] # "data" /\ r.write = "gone"
  BY <1>1, <1>2 DEF PersistRequest, RecordWrite, Finalize, Request, Value, Decision
<1> HIDE DEF r
<1>4. Succeeds(r) BY DEF r
<1>5. /\ StoreKept /\ faults' \in Nat /\ UNCHANGED <<applied, discarded>>
      /\ \A u \in Txns : HoldsKept(u)
  BY <1>3, <1>4, FinalizeKept
<1> QED BY <1>5 DEF StoreQuiet

\* What finalize_all and abort_prepared send for one key.
WriteRequest(t, k) == Finalize(k, Data(t), "own", t, TRUE)
GiveUpRequest(t, k) == Finalize(k, Data(t), "own", t, FALSE)

LEMMA WriteKept ==
  ASSUME IInv, NEW t \in Txns, NEW k \in Keys, Succeeds(WriteRequest(t, k))
  PROVE  /\ StoreKept /\ faults' \in Nat /\ discarded' = discarded
         /\ \A u \in Txns : u # t => applied'[u] = applied[u] /\ HoldsKept(u)
         /\ applied'[t][k] > 0
         /\ \A x \in Keys : x # k => applied'[t][x] = applied[t][x] /\ intent'[x] = intent[x]
<1> DEFINE r == WriteRequest(t, k)
<1>1. k \in Slots /\ Data(t) \in Id BY SlotKinds DEF Id, Data, Step
<1>2. /\ r \in Request /\ r.op = "finalize" /\ r.id[1] = t /\ r.id[2] = "data" /\ r.slot = k
      /\ r.commit = TRUE
  BY <1>1 DEF WriteRequest, Finalize, Request, Value, Data
<1> HIDE DEF r
<1>3. Succeeds(r) BY DEF r
<1>4. /\ StoreKept /\ faults' \in Nat /\ discarded' = discarded
      /\ \A u \in Txns : u # t => applied'[u] = applied[u] /\ HoldsKept(u)
      /\ applied' = [applied EXCEPT ![t][k] = @ + 1]
      /\ \A s \in Slots : s # k => intent'[s] = intent[s]
  <2>1. r \in Request /\ r.op = "finalize" BY <1>2
  <2>2. r.slot \in Keys BY <1>2
  <2> QED BY <1>2, <1>3, <2>1, <2>2, FinalizeKept
<1>5. applied \in [Txns -> [Keys -> Nat]] BY DEF IInv, TypeOK, StoreTypeOK
<1>6. applied'[t][k] > 0 /\ \A x \in Keys : x # k => applied'[t][x] = applied[t][x]
  BY <1>4, <1>5
<1> QED BY <1>4, <1>6, SlotKinds

LEMMA GiveUpKept ==
  ASSUME IInv, NEW t \in Txns, NEW k \in Keys, Succeeds(GiveUpRequest(t, k))
  PROVE  /\ StoreKept /\ faults' \in Nat /\ applied' = applied
         /\ \A u \in Txns : u # t => discarded'[u] = discarded[u] /\ HoldsKept(u)
<1> DEFINE r == GiveUpRequest(t, k)
<1>1. k \in Slots /\ Data(t) \in Id BY SlotKinds DEF Id, Data, Step
<1>2. r \in Request /\ r.op = "finalize" /\ r.id[1] = t /\ r.slot = k /\ r.commit = FALSE
  BY <1>1 DEF GiveUpRequest, Finalize, Request, Value, Data
<1> HIDE DEF r
<1>3. Succeeds(r) BY DEF r
<1>4. /\ StoreKept /\ faults' \in Nat
      /\ r.id[2] # "data" \/ ~r.commit => applied' = applied
      /\ \A u \in Txns : u # r.id[1] => discarded'[u] = discarded[u] /\ HoldsKept(u)
  <2>1. r \in Request /\ r.op = "finalize" BY <1>2
  <2>2. r.slot \in Keys BY <1>2
  <2> QED BY <1>3, <2>1, <2>2, FinalizeKept
<1> QED BY <1>2, <1>4

\* What the resolver discards, it discards under the zero digest.
LEMMA ConvergeKept ==
  ASSUME IInv, NEW w \in task, w.pc = "discard",
         Succeeds(Finalize(w.slot, w.intent.id, w.digest, w.intent.write, w.pc = "apply"))
  PROVE  StoreQuiet /\ faults' \in Nat
<1> DEFINE r == Finalize(w.slot, w.intent.id, w.digest, w.intent.write, w.pc = "apply")
<1>1. w.slot \in Slots /\ w.intent.id \in Id /\ w.intent.write \in Value /\ w.digest = "zero"
  BY DEF IInv, TypeOK, Task, Intent, TaskOK
<1>2. /\ r.op = "finalize" /\ r.slot = w.slot /\ r.id = w.intent.id /\ r.digest = w.digest
      /\ r.write = w.intent.write /\ ~r.commit
  BY Zenon DEF Finalize
<1>3. r \in Request BY <1>1 DEF Finalize, Request
<1> HIDE DEF r
<1>4. Succeeds(r) BY DEF r
<1>5. /\ StoreKept /\ faults' \in Nat /\ UNCHANGED <<applied, discarded>>
      /\ \A u \in Txns : HoldsKept(u)
  BY <1>1, <1>2, <1>3, <1>4, FinalizeKept
<1> QED BY <1>5 DEF StoreQuiet

-----------------------------------------------------------------------------
(* The drivers. *)

Outcomes == {"none", "committed", "conflict", "aborted", "failed"}
Drivers == [pc : Pc, i : Nat, prepared : SUBSET Keys, outcome : Outcomes]

LEMMA DriverTypes ==
  ASSUME IInv
  PROVE  drv \in [Txns -> Drivers]
BY DEF IInv, TypeOK, Drivers, Outcomes

\* The driver of t, and no other, goes to pc, to the i-th key and to the outcome.
Moves(t, pc, i, outcome) ==
    /\ drv' \in [Txns -> Drivers] /\ \A u \in Txns : u # t => drv'[u] = drv[u]
    /\ drv'[t].pc = pc /\ drv'[t].i = i /\ drv'[t].outcome = outcome

LEMMA DriverMoves ==
  ASSUME IInv, NEW t \in Txns, NEW d \in Drivers, drv' = [drv EXCEPT ![t] = d]
  PROVE  Moves(t, d.pc, d.i, d.outcome)
<1>1. drv \in [Txns -> Drivers] BY DriverTypes
<1> QED BY <1>1 DEF Moves

\* A wave has a first key, and the driver is at one.
LEMMA WaveKey ==
  ASSUME IInv, NEW t \in Txns
  PROVE  /\ drv[t].i \in 1..Len(Writes[t]) /\ 1 \in 1..Len(Writes[t]) /\ Len(Writes[t]) \in Nat
         /\ Key(t) \in Keys /\ drv[t] \in Drivers
<1>1. drv[t].i \in 1..Len(Writes[t]) BY DEF IInv, DriverOK
<1> QED BY <1>1, BatchKeys, DriverTypes DEF Key

LEMMA GoMoves ==
  ASSUME IInv, NEW t \in Txns, NEW pc \in Pc, Go(t, pc)
  PROVE  Moves(t, pc, drv[t].i, drv[t].outcome)
<1> DEFINE d == [drv[t] EXCEPT !.pc = pc]
<1>1. drv[t] \in Drivers BY WaveKey
<1>2. d \in Drivers /\ d.pc = pc /\ d.i = drv[t].i /\ d.outcome = drv[t].outcome
  BY <1>1 DEF Drivers
<1>3. drv' = [drv EXCEPT ![t] = d] BY DEF Go
<1> HIDE DEF d
<1> QED BY <1>2, <1>3, DriverMoves

LEMMA StartWaveMoves ==
  ASSUME IInv, NEW t \in Txns, NEW pc \in Pc, StartWave(t, pc)
  PROVE  Moves(t, pc, 1, drv[t].outcome)
<1> DEFINE d == [drv[t] EXCEPT !.pc = pc, !.i = 1]
<1>1. drv[t] \in Drivers BY WaveKey
<1>2. d \in Drivers /\ d.pc = pc /\ d.i = 1 /\ d.outcome = drv[t].outcome
  BY <1>1 DEF Drivers
<1>3. drv' = [drv EXCEPT ![t] = d] BY Zenon DEF StartWave
<1> HIDE DEF d
<1> QED BY <1>2, <1>3, DriverMoves

LEMMA EndMoves ==
  ASSUME IInv, NEW t \in Txns, NEW outcome \in Outcomes
  PROVE  /\ StartAbort(t, outcome) => Moves(t, "abort", drv[t].i, outcome)
         /\ Finish(t, outcome) => Moves(t, "done", drv[t].i, outcome)
<1> DEFINE d(pc) == [drv[t] EXCEPT !.pc = pc, !.outcome = outcome]
<1>1. drv[t] \in Drivers BY WaveKey
<1>2. ASSUME NEW pc \in {"abort", "done"}
      PROVE  d(pc) \in Drivers /\ d(pc).pc = pc /\ d(pc).i = drv[t].i /\ d(pc).outcome = outcome
  BY <1>1 DEF Drivers, Pc
<1>3. StartAbort(t, outcome) => drv' = [drv EXCEPT ![t] = d("abort")] BY Zenon DEF StartAbort
<1>4. Finish(t, outcome) => drv' = [drv EXCEPT ![t] = d("done")] BY Zenon DEF Finish
<1> HIDE DEF d
<1>5. StartAbort(t, outcome) => Moves(t, d("abort").pc, d("abort").i, d("abort").outcome)
  BY <1>2, <1>3, DriverMoves
<1>6. Finish(t, outcome) => Moves(t, d("done").pc, d("done").i, d("done").outcome)
  BY <1>2, <1>4, DriverMoves
<1> QED BY <1>2, <1>5, <1>6

\* Nothing that happens elsewhere disturbs a batch.
LEMMA BatchKept ==
  ASSUME NEW t \in Txns, DriverOK(t), drv'[t] = drv[t], applied'[t] = applied[t],
         discarded'[t] = discarded[t], HoldsKept(t)
  PROVE  DriverOK(t)'
<1>1. Untouched(t)' = Untouched(t) /\ \A i : WrittenBefore(t, i)' = WrittenBefore(t, i)
  BY DEF Untouched, WrittenBefore
<1>2. Kept(t) => Kept(t)' BY BatchKeys DEF Kept, Keyset, HoldsKept
<1>3. PreparedBefore(t, drv[t].i) => PreparedBefore(t, drv[t].i)'
  BY BatchKeys DEF PreparedBefore, HoldsKept
<1> QED BY <1>1, <1>2, <1>3 DEF DriverOK, Keyset

\* A step of the driver of t keeps the invariant when it leaves t in order.
LEMMA DriverStep ==
  ASSUME IInv, NEW t \in Txns, StoreKept, faults' \in Nat, UNCHANGED <<listed, task>>,
         drv' \in [Txns -> Drivers], \A u \in Txns : u # t => drv'[u] = drv[u],
         \A u \in Txns : u # t => applied'[u] = applied[u] /\ discarded'[u] = discarded[u] /\ HoldsKept(u),
         DriverOK(t)', Untouched(t)' \/ discarded'[t] = {}
  PROVE  IInv'
<1>1. TypeOK' BY DEF IInv, TypeOK, StoreKept, Drivers, Outcomes
<1>2. Atomic'
  <2> SUFFICES ASSUME NEW u \in Txns, NEW k \in Keys, applied'[u][k] > 0 PROVE discarded'[u] = {}
    BY DEF Atomic
  <2>1. CASE u = t BY <2>1 DEF Untouched
  <2>2. CASE u # t
    <3>1. applied[u][k] > 0 /\ discarded'[u] = discarded[u] BY <2>2
    <3> QED BY <3>1 DEF IInv, Atomic
  <2> QED BY <2>1, <2>2
<1>3. ASSUME NEW u \in Txns PROVE DriverOK(u)'
  <2>1. CASE u = t BY <2>1
  <2>2. CASE u # t
    <3>1. DriverOK(u) BY DEF IInv
    <3> QED BY <2>2, <3>1, BatchKept
  <2> QED BY <2>1, <2>2
<1>4. \A w \in task' : TaskOK(w) BY DEF IInv
<1> QED BY <1>1, <1>2, <1>3, <1>4 DEF IInv, StoreKept, TaskOK

\* Where a step that does nothing to the history of batches may take the driver of t.
Fits(t, pc, i, outcome) ==
    /\ pc # "crashed" /\ i \in 1..Len(Writes[t])
    /\ pc \notin {"finalize", "done"} => drv[t].pc \notin {"finalize", "done", "crashed"}
    /\ pc \notin {"discard", "done"} => drv[t].pc \notin {"discard", "done", "crashed"}
    /\ pc = "prepare" => PreparedBefore(t, i)'
    /\ pc \in {"decide", "decided", "finalize"} => Kept(t)'
    /\ pc = "finalize" => i = 1
    /\ outcome # "committed"
    /\ pc = "done" /\ outcome \in {"conflict", "aborted"}
          => drv[t].pc \notin {"finalize", "done", "crashed"}

LEMMA QuietStep ==
  ASSUME IInv, NEW t \in Txns, NEW pc, NEW i, NEW outcome, Moves(t, pc, i, outcome),
         StoreQuiet, faults' \in Nat, UNCHANGED <<listed, task>>, Fits(t, pc, i, outcome)
  PROVE  IInv'
<1>1. DriverOK(t) /\ Atomic BY DEF IInv
<1>2. /\ StoreKept /\ UNCHANGED <<applied, discarded>>
      /\ \A u \in Txns : HoldsKept(u)
  BY DEF StoreQuiet
<1>3. Untouched(t)' = Untouched(t) BY <1>2 DEF Untouched
<1>4. Kept(t) => Kept(t)' BY <1>2, BatchKeys DEF Kept, Keyset, HoldsKept
<1>5. WrittenBefore(t, 1)' BY BatchKeys DEF WrittenBefore
<1>6. drv'[t].pc = pc /\ drv'[t].i = i /\ drv'[t].outcome = outcome BY DEF Moves
<1>7. /\ pc \notin {"finalize", "done", "crashed"} => Untouched(t)'
      /\ pc \notin {"discard", "done", "crashed"} => discarded'[t] = {}
  BY <1>1, <1>2, <1>3 DEF DriverOK, Fits
<1>8. Untouched(t)' \/ Kept(t)' BY <1>1, <1>3, <1>4 DEF DriverOK
<1>9. pc = "done" /\ outcome \in {"conflict", "aborted"} => Untouched(t)'
  BY <1>1, <1>3 DEF DriverOK, Fits
<1>10. DriverOK(t)' BY <1>5, <1>6, <1>7, <1>8, <1>9 DEF DriverOK, Fits
<1>11. Untouched(t)' \/ discarded'[t] = {}
  <2>1. applied \in [Txns -> [Keys -> Nat]] BY DEF IInv, TypeOK, StoreTypeOK
  <2>2. (\A k \in Keys : applied[t][k] = 0) \/ \E k \in Keys : applied[t][k] > 0 BY <2>1
  <2> QED BY <1>1, <1>2, <1>3, <2>2 DEF Atomic, Untouched
<1>12. drv' \in [Txns -> Drivers] /\ \A u \in Txns : u # t => drv'[u] = drv[u] BY DEF Moves
<1> QED BY <1>2, <1>10, <1>11, <1>12, DriverStep

\* A record is only read.
LEMMA ReadKept ==
  ASSUME IInv, Read
  PROVE  StoreQuiet /\ faults' \in Nat /\ UNCHANGED <<listed, task>>
<1>1. UNCHANGED <<storeVars, listed, task, faults>> BY DEF Read
<1> QED BY <1>1, StoreStays DEF IInv, TypeOK

-----------------------------------------------------------------------------
(* The actions of a driver. *)

LEMMA BeginKeeps == ASSUME IInv, NEW t \in Txns, Begin(t) PROVE IInv'
<1>1. obj[t].value = "gone" BY DEF IInv, NothingDecided
<1>2. drv[t].pc = "idle" /\ Read /\ StartWave(t, "prepare") BY <1>1 DEF Begin, At
<1>3. Moves(t, "prepare", 1, drv[t].outcome) BY <1>2, StartWaveMoves DEF Pc
<1>4. drv[t].outcome # "committed" BY <1>2 DEF IInv, DriverOK
<1>5. PreparedBefore(t, 1)' BY BatchKeys DEF PreparedBefore
<1>6. Fits(t, "prepare", 1, drv[t].outcome) BY <1>2, <1>4, <1>5, WaveKey DEF Fits
<1> QED BY <1>2, <1>3, <1>6, ReadKept, QuietStep

LEMMA PrepareKeyKeeps == ASSUME IInv, NEW t \in Txns, PrepareKey(t) PROVE IInv'
<1>1. drv[t].pc = "prepare" /\ UNCHANGED <<listed, task>> BY DEF PrepareKey, At
<1>2. /\ drv[t].i \in 1..Len(Writes[t]) /\ 1 \in 1..Len(Writes[t]) /\ Len(Writes[t]) \in Nat
      /\ Key(t) \in Keys /\ drv[t] \in Drivers
  BY WaveKey
<1>3. PICK k \in Keys, n \in 1..Len(Writes[t]) : k = Key(t) /\ n = drv[t].i /\ k = Writes[t][n]
  BY <1>2 DEF Key
<1>4. PICK pc \in {"decide", "prepare"}, i \in 1..Len(Writes[t]) :
        /\ pc = IF Last(t) THEN "decide" ELSE "prepare"
        /\ i = IF Last(t) THEN 1 ELSE drv[t].i + 1
  BY <1>2 DEF Last
<1>5. (pc = "decide" => n = Len(Writes[t])) /\ (pc = "prepare" => i = n + 1)
  BY <1>3, <1>4 DEF Last
<1> DEFINE r == Prepare(k, Data(t), "own", t, {})
<1>6. k \in Slots /\ Data(t) \in Id BY SlotKinds DEF Data, Id, Step
<1>7. r \in Request /\ r.op = "prepare" /\ r.digest = "own" /\ r.slot = k /\ r.id = Data(t)
  BY <1>6 DEF Prepare, Request, Value
<1>8. \/ Succeeds(r) /\ drv' = [drv EXCEPT ![t].prepared = @ \cup {k}, ![t].pc = pc, ![t].i = i]
      \/ Fails(r) /\ \E o \in {"failed", "conflict"} : StartAbort(t, o)
  BY <1>3, <1>4, Zenon DEF PrepareKey
<1>9. drv[t].outcome # "committed" /\ PreparedBefore(t, n) BY <1>1, <1>3 DEF IInv, DriverOK
<1> HIDE DEF r
<1>10. CASE Fails(r) /\ \E o \in {"failed", "conflict"} : StartAbort(t, o)
  <2>1. PICK o \in {"failed", "conflict"} : StartAbort(t, o) BY <1>10
  <2>2. StoreQuiet /\ faults' \in Nat BY <1>10, FailsKept
  <2>3. Moves(t, "abort", drv[t].i, o) BY <2>1, EndMoves DEF Outcomes
  <2>4. Fits(t, "abort", drv[t].i, o) BY <1>1, <1>2 DEF Fits
  <2> QED BY <1>1, <2>2, <2>3, <2>4, QuietStep
<1>11. CASE Succeeds(r) /\ drv' = [drv EXCEPT ![t].prepared = @ \cup {k}, ![t].pc = pc, ![t].i = i]
  <2> DEFINE d == [drv[t] EXCEPT !.prepared = drv[t].prepared \cup {k}, !.pc = pc, !.i = i]
  <2>1. StoreQuiet /\ faults' \in Nat /\ \E x \in intent'[r.slot] : x.id = r.id
    BY <1>7, <1>11, PrepareKept
  <2>2. drv' = [drv EXCEPT ![t] = d] BY <1>11, Zenon
  <2>3. pc \in Pc /\ i \in Nat BY <1>2 DEF Pc
  <2>4. d \in Drivers /\ d.pc = pc /\ d.i = i /\ d.outcome = drv[t].outcome
    BY <1>2, <2>3 DEF Drivers
  <2> HIDE DEF d
  <2>5. Moves(t, pc, i, drv[t].outcome) BY <2>2, <2>4, DriverMoves
  <2>6. ReservedFor(t, k)' /\ HoldsKept(t)
    BY <1>7, <2>1 DEF StoreQuiet, ReservedFor, Data
  <2>7. ASSUME NEW j \in 1..Len(Writes[t]), j <= n PROVE ReservedFor(t, Writes[t][j])'
    <3>1. Writes[t][j] \in Keys BY BatchKeys
    <3>2. CASE j = n BY <1>3, <2>6, <3>2
    <3>3. CASE j < n BY <1>9, <2>6, <3>1, <3>3 DEF PreparedBefore, HoldsKept
    <3> QED BY <2>7, <3>2, <3>3
  <2>8. pc = "prepare" => PreparedBefore(t, i)' BY <1>5, <2>7 DEF PreparedBefore
  <2>9. pc = "decide" => Kept(t)'
    <3> SUFFICES ASSUME pc = "decide", NEW x \in Keyset(t) PROVE ReservedFor(t, x)'
      BY DEF Kept, Keyset
    <3>1. PICK j \in 1..Len(Writes[t]) : x = Writes[t][j] BY BatchKeys
    <3> QED BY <1>2, <1>5, <2>7, <3>1
  <2>10. Fits(t, pc, i, drv[t].outcome) BY <1>1, <1>9, <2>8, <2>9 DEF Fits
  <2> QED BY <1>1, <2>1, <2>5, <2>10, QuietStep
<1> QED BY <1>8, <1>10, <1>11

\* A call that only moves the driver of t on.
LEMMA GoKeeps ==
  ASSUME IInv, NEW t \in Txns, NEW pc \in {"decided", "reread", "aborted", "abortReread", "discard"},
         Go(t, pc), StoreQuiet, faults' \in Nat, UNCHANGED <<listed, task>>,
         drv[t].pc \in {"decide", "decided", "abort", "aborted"},
         pc = "decided" => drv[t].pc = "decide"
  PROVE  IInv'
<1>1. Moves(t, pc, drv[t].i, drv[t].outcome) BY GoMoves DEF Pc
<1>2. drv[t].outcome # "committed" /\ (pc = "decided" => Kept(t)) BY DEF IInv, DriverOK
<1>3. pc = "decided" => Kept(t)'
  BY <1>2, BatchKeys DEF Kept, Keyset, StoreQuiet, HoldsKept
<1>4. Fits(t, pc, drv[t].i, drv[t].outcome) BY <1>2, <1>3, WaveKey DEF Fits
<1> QED BY <1>1, <1>4, QuietStep

LEMMA DecideKeeps ==
  ASSUME IInv, NEW t \in Txns, DecideCommit(t) \/ DecideAbort(t)
  PROVE  IInv'
<1>1. UNCHANGED <<listed, task>> BY DEF DecideCommit, DecideAbort
<1>2. ASSUME NEW decision \in Decision, NEW r, r = DecideRequest(t, decision), Succeeds(r) \/ Fails(r)
      PROVE  StoreQuiet /\ faults' \in Nat
  BY <1>2, DecideKept, FailsKept
<1>3. CASE DecideCommit(t)
  <2> DEFINE r == DecideRequest(t, "Committed")
  <2>1. drv[t].pc = "decide" /\ (Succeeds(r) \/ Fails(r)) BY <1>3 DEF DecideCommit, At
  <2>2. PICK pc \in {"decided", "reread"} : Go(t, pc) BY <1>3 DEF DecideCommit
  <2>3. StoreQuiet /\ faults' \in Nat BY <1>2, <2>1 DEF Decision
  <2> QED BY <1>1, <2>1, <2>2, <2>3, GoKeeps
<1>4. CASE DecideAbort(t)
  <2> DEFINE r == DecideRequest(t, "Aborted")
  <2>1. drv[t].pc = "abort" /\ (Succeeds(r) \/ Fails(r)) BY <1>4 DEF DecideAbort, At
  <2>2. PICK pc \in {"aborted", "abortReread"} : Go(t, pc) BY <1>4 DEF DecideAbort
  <2>3. StoreQuiet /\ faults' \in Nat BY <1>2, <2>1 DEF Decision
  <2> QED BY <1>1, <2>1, <2>2, <2>3, GoKeeps
<1> QED BY <1>3, <1>4

LEMMA PersistKeeps ==
  ASSUME IInv, NEW t \in Txns, PersistCommit(t) \/ PersistAbort(t)
  PROVE  IInv'
<1>1. UNCHANGED <<listed, task>> BY DEF PersistCommit, PersistAbort
<1>2. ASSUME NEW decision \in Decision, NEW r, r = PersistRequest(t, decision), Succeeds(r) \/ Fails(r)
      PROVE  StoreQuiet /\ faults' \in Nat
  BY <1>2, PersistKept, FailsKept
<1>3. CASE PersistCommit(t)
  <2> DEFINE r == PersistRequest(t, "Committed")
  <2>1. /\ drv[t].pc = "decided" /\ (Succeeds(r) \/ Fails(r))
        /\ StartWave(t, "finalize") \/ Go(t, "reread")
    BY <1>3 DEF PersistCommit, At
  <2>2. StoreQuiet /\ faults' \in Nat BY <1>2, <2>1 DEF Decision
  <2>3. CASE Go(t, "reread") BY <1>1, <2>1, <2>2, <2>3, GoKeeps
  <2>4. CASE StartWave(t, "finalize")
    <3>1. Moves(t, "finalize", 1, drv[t].outcome) BY <2>4, StartWaveMoves DEF Pc
    <3>2. drv[t].outcome # "committed" /\ Kept(t) BY <2>1 DEF IInv, DriverOK
    <3>3. Kept(t)' BY <2>2, <3>2, BatchKeys DEF Kept, Keyset, StoreQuiet, HoldsKept
    <3>4. Fits(t, "finalize", 1, drv[t].outcome) BY <2>1, <3>2, <3>3, WaveKey DEF Fits
    <3> QED BY <1>1, <2>2, <3>1, <3>4, QuietStep
  <2> QED BY <2>1, <2>3, <2>4
<1>4. CASE PersistAbort(t)
  <2> DEFINE r == PersistRequest(t, "Aborted")
  <2>1. drv[t].pc = "aborted" /\ (Succeeds(r) \/ Fails(r)) BY <1>4 DEF PersistAbort, At
  <2>2. PICK pc \in {"discard", "abortReread"} : Go(t, pc) BY <1>4 DEF PersistAbort
  <2>3. StoreQuiet /\ faults' \in Nat BY <1>2, <2>1 DEF Decision
  <2> QED BY <1>1, <2>1, <2>2, <2>3, GoKeeps
<1> QED BY <1>3, <1>4

LEMMA RereadKeeps ==
  ASSUME IInv, NEW t \in Txns, Reread(t) \/ AbortReread(t)
  PROVE  IInv'
<1>1. obj[t].value = "gone" BY DEF IInv, NothingDecided
<1>2. CASE Reread(t)
  <2>1. drv[t].pc = "reread" /\ Read /\ StartAbort(t, "aborted") BY <1>1, <1>2 DEF Reread, At
  <2>2. Moves(t, "abort", drv[t].i, "aborted") BY <2>1, EndMoves DEF Outcomes
  <2>3. Fits(t, "abort", drv[t].i, "aborted") BY <2>1, WaveKey DEF Fits
  <2> QED BY <2>1, <2>2, <2>3, ReadKept, QuietStep
<1>3. CASE AbortReread(t)
  <2>1. drv[t].pc = "abortReread" /\ Read /\ Finish(t, drv[t].outcome)
    BY <1>1, <1>3 DEF AbortReread, At
  <2>2. drv[t].outcome \in Outcomes BY WaveKey DEF Drivers
  <2>3. Moves(t, "done", drv[t].i, drv[t].outcome) BY <2>1, <2>2, EndMoves
  <2>4. drv[t].outcome # "committed" BY <2>1 DEF IInv, DriverOK
  <2>5. Fits(t, "done", drv[t].i, drv[t].outcome) BY <2>1, <2>4, WaveKey DEF Fits
  <2> QED BY <2>1, <2>3, <2>5, ReadKept, QuietStep
<1> QED BY <1>2, <1>3

\* Nothing is given up of a batch that finalizes, and a key loses its reservation only
\* to its write.
LEMMA FinalizeKeyKeeps == ASSUME IInv, NEW t \in Txns, FinalizeKey(t) PROVE IInv'
<1>1. drv[t].pc = "finalize" /\ UNCHANGED <<listed, task>> BY DEF FinalizeKey, At
<1>2. /\ drv[t].i \in 1..Len(Writes[t]) /\ Len(Writes[t]) \in Nat
      /\ Key(t) \in Keys /\ drv[t] \in Drivers
  BY WaveKey
<1>3. PICK k \in Keys, n \in 1..Len(Writes[t]) : k = Key(t) /\ n = drv[t].i /\ k = Writes[t][n]
  BY <1>2 DEF Key
<1>4. \/ /\ Succeeds(WriteRequest(t, k))
         /\ IF Last(t) THEN Finish(t, "committed") ELSE drv' = [drv EXCEPT ![t].i = @ + 1]
      \/ Fails(WriteRequest(t, k)) /\ Finish(t, "failed")
  BY <1>3, Zenon DEF FinalizeKey, WriteRequest
<1>5. /\ discarded[t] = {} /\ Kept(t) /\ WrittenBefore(t, n) /\ drv[t].outcome # "committed"
  BY <1>1, <1>3 DEF IInv, DriverOK
<1>6. CASE Fails(WriteRequest(t, k)) /\ Finish(t, "failed")
  <2>1. StoreQuiet /\ faults' \in Nat BY <1>6, FailsKept
  <2>2. Moves(t, "done", drv[t].i, "failed") BY <1>6, EndMoves DEF Outcomes
  <2>3. Fits(t, "done", drv[t].i, "failed") BY <1>2 DEF Fits
  <2> QED BY <1>1, <2>1, <2>2, <2>3, QuietStep
<1>7. CASE /\ Succeeds(WriteRequest(t, k))
           /\ IF Last(t) THEN Finish(t, "committed") ELSE drv' = [drv EXCEPT ![t].i = @ + 1]
  <2>1. /\ StoreKept /\ faults' \in Nat /\ discarded' = discarded
        /\ \A u \in Txns : u # t => applied'[u] = applied[u] /\ HoldsKept(u)
        /\ applied'[t][k] > 0
        /\ \A x \in Keys : x # k => applied'[t][x] = applied[t][x] /\ intent'[x] = intent[x]
    BY <1>7, WriteKept
  <2>2. discarded'[t] = {} BY <1>5, <2>1
  <2>3. ASSUME NEW j \in 1..Len(Writes[t]), j <= n PROVE applied'[t][Writes[t][j]] > 0
    <3>1. Writes[t][j] \in Keys BY BatchKeys
    <3>2. CASE Writes[t][j] = k BY <2>1, <3>2
    <3>3. CASE Writes[t][j] # k
      <4>1. j < n BY <1>3, <2>3, <3>3
      <4> QED BY <1>5, <2>1, <3>1, <3>3, <4>1 DEF WrittenBefore
    <3> QED BY <3>2, <3>3
  <2>4. Kept(t)'
    <3> SUFFICES ASSUME NEW x \in Keyset(t) PROVE applied'[t][x] > 0 \/ ReservedFor(t, x)'
      BY DEF Kept, Keyset
    <3>1. x \in Keys BY BatchKeys
    <3>2. applied[t][x] > 0 \/ ReservedFor(t, x) BY <1>5 DEF Kept
    <3> QED BY <2>1, <3>1, <3>2 DEF ReservedFor
  <2>5. \A u \in Txns : u # t => applied'[u] = applied[u] /\ discarded'[u] = discarded[u] /\ HoldsKept(u)
    BY <2>1
  <2>6. CASE Last(t)
    <3>1. Moves(t, "done", drv[t].i, "committed") BY <1>7, <2>6, EndMoves DEF Outcomes
    <3>2. \A x \in Keyset(t) : applied'[t][x] > 0
      <4> SUFFICES ASSUME NEW x \in Keyset(t) PROVE applied'[t][x] > 0
        OBVIOUS
      <4>1. PICK j \in 1..Len(Writes[t]) : x = Writes[t][j] BY BatchKeys
      <4> QED BY <1>2, <1>3, <2>3, <2>6, <4>1 DEF Last
    <3>3. drv'[t].pc = "done" /\ drv'[t].i = n /\ drv'[t].outcome = "committed"
      BY <1>3, <3>1 DEF Moves
    <3>4. DriverOK(t)' BY <2>4, <3>2, <3>3 DEF DriverOK, Keyset
    <3> QED BY <1>1, <2>1, <2>2, <2>5, <3>1, <3>4, DriverStep DEF Moves
  <2>7. CASE ~Last(t)
    <3> DEFINE d == [drv[t] EXCEPT !.i = drv[t].i + 1]
    <3>1. drv' = [drv EXCEPT ![t] = d] BY <1>7, <2>7
    <3>2. n + 1 \in 1..Len(Writes[t]) /\ drv[t].i + 1 \in Nat BY <1>2, <1>3, <2>7 DEF Last
    <3>3. d \in Drivers /\ d.pc = "finalize" /\ d.i = n + 1 /\ d.outcome = drv[t].outcome
      BY <1>1, <1>2, <1>3, <3>2 DEF Drivers
    <3> HIDE DEF d
    <3>4. Moves(t, "finalize", n + 1, drv[t].outcome) BY <3>1, <3>3, DriverMoves
    <3>5. drv'[t].pc = "finalize" /\ drv'[t].i = n + 1 /\ drv'[t].outcome # "committed"
      BY <1>5, <3>4 DEF Moves
    <3>6. WrittenBefore(t, n + 1)' BY <2>3 DEF WrittenBefore
    <3>7. DriverOK(t)' BY <2>2, <2>4, <3>2, <3>5, <3>6 DEF DriverOK
    <3> QED BY <1>1, <2>1, <2>2, <2>5, <3>4, <3>7, DriverStep DEF Moves
  <2> QED BY <2>6, <2>7
<1> QED BY <1>4, <1>6, <1>7

\* Nothing was written of a batch that discards.
LEMMA DiscardKeyKeeps == ASSUME IInv, NEW t \in Txns, DiscardKey(t) PROVE IInv'
<1>1. drv[t].pc = "discard" /\ drv[t] \in Drivers BY WaveKey DEF DiscardKey, At
<1>2. Untouched(t) /\ drv[t].outcome # "committed" BY <1>1 DEF IInv, DriverOK
<1>3. CASE Finish(t, drv[t].outcome) /\ Read
  <2>1. drv[t].outcome \in Outcomes BY <1>1 DEF Drivers
  <2>2. Moves(t, "done", drv[t].i, drv[t].outcome) BY <1>3, <2>1, EndMoves
  <2>3. Fits(t, "done", drv[t].i, drv[t].outcome) BY <1>1, <1>2, WaveKey DEF Fits
  <2> QED BY <1>3, <2>2, <2>3, ReadKept, QuietStep
<1>4. ASSUME NEW k \in drv[t].prepared, Succeeds(GiveUpRequest(t, k)) \/ Fails(GiveUpRequest(t, k)),
             drv' = [drv EXCEPT ![t].prepared = @ \ {k}], UNCHANGED <<listed, task>>
      PROVE  IInv'
  <2> DEFINE d == [drv[t] EXCEPT !.prepared = drv[t].prepared \ {k}]
  <2>1. k \in Keys BY <1>1 DEF Drivers
  <2>2. /\ StoreKept /\ faults' \in Nat /\ applied' = applied
        /\ \A u \in Txns : u # t => discarded'[u] = discarded[u] /\ HoldsKept(u)
    BY <1>4, <2>1, GiveUpKept, FailsKept DEF StoreQuiet
  <2>3. drv' = [drv EXCEPT ![t] = d] BY <1>4
  <2>4. d \in Drivers /\ d.pc = "discard" /\ d.i = drv[t].i /\ d.outcome = drv[t].outcome
    BY <1>1 DEF Drivers
  <2> HIDE DEF d
  <2>5. Moves(t, "discard", drv[t].i, drv[t].outcome) BY <2>3, <2>4, DriverMoves
  <2>6. drv'[t].pc = "discard" /\ drv'[t].i \in 1..Len(Writes[t]) /\ drv'[t].outcome # "committed"
    BY <1>2, <2>5, WaveKey DEF Moves
  <2>7. Untouched(t)' BY <1>2, <2>2 DEF Untouched
  <2>8. DriverOK(t)' BY <2>6, <2>7 DEF DriverOK
  <2>9. \A u \in Txns : u # t => applied'[u] = applied[u] /\ discarded'[u] = discarded[u] /\ HoldsKept(u)
    BY <2>2
  <2> QED BY <1>4, <2>2, <2>5, <2>7, <2>8, <2>9, DriverStep DEF Moves
<1> QED BY <1>3, <1>4, Zenon DEF DiscardKey, GiveUpRequest

-----------------------------------------------------------------------------
(* The resolver, crashes, time and other clients. *)

LEMMA ResolverStep ==
  ASSUME IInv, StoreQuiet, faults' \in Nat, UNCHANGED drv,
         listed' \subseteq Visit, task' \subseteq Task, \A w \in task' : TaskOK(w)
  PROVE  IInv'
<1>1. StoreKept /\ UNCHANGED <<applied, discarded>> /\ \A u \in Txns : HoldsKept(u) BY DEF StoreQuiet
<1>2. TypeOK' BY <1>1 DEF IInv, TypeOK, StoreKept
<1>3. Atomic' BY <1>1 DEF IInv, Atomic
<1>4. ASSUME NEW u \in Txns PROVE DriverOK(u)'
  <2>1. DriverOK(u) BY DEF IInv
  <2> QED BY <1>1, <2>1, BatchKept
<1> QED BY <1>1, <1>2, <1>3, <1>4 DEF IInv, StoreKept, TaskOK

LEMMA ListKeeps == ASSUME IInv, List PROVE IInv'
<1>1. UNCHANGED <<storeVars, drv, task, faults>> BY DEF List
<1>2. listed' \subseteq Visit
  <2> SUFFICES ASSUME NEW v \in listed' PROVE v \in Visit
    OBVIOUS
  <2>1. PICK s \in Slots : v \in {[slot |-> s, intent |-> i] : i \in {j \in intent[s] : j.age >= 1}}
    BY DEF List
  <2>2. PICK i \in intent[s] : v = [slot |-> s, intent |-> i] BY <2>1
  <2>3. i \in Intent BY DEF IInv, TypeOK, StoreTypeOK
  <2> QED BY <2>2, <2>3 DEF Visit
<1>3. task' \subseteq Task /\ (\A w \in task' : TaskOK(w)) /\ faults' \in Nat
  BY <1>1 DEF IInv, TypeOK
<1> QED BY <1>1, <1>2, <1>3, StoreStays, ResolverStep

\* Without a record there is nothing to do but to fence.
LEMMA ReadRecordKeeps == ASSUME IInv, ReadRecord PROVE IInv'
<1>1. PICK v \in listed : task' = Plan(v) /\ listed' = listed \ {v} BY DEF ReadRecord
<1>2. UNCHANGED <<storeVars, drv, faults>> BY DEF ReadRecord
<1>3. v \in Visit /\ listed' \subseteq Visit /\ faults' \in Nat BY <1>1, <1>2 DEF IInv, TypeOK
<1>4. v.slot \in Slots /\ v.intent \in Intent /\ v.intent.id \in Id BY <1>3 DEF Visit, Intent
<1>5. RecordOf(v.intent.id) = "gone"
  <2>1. v.intent.id[1] \in Txns BY <1>4, IdParts
  <2> QED BY <2>1 DEF RecordOf, IInv, NothingDecided
<1>6. \A w \in Plan(v) : w = [slot |-> v.slot, intent |-> v.intent, pc |-> "fence", digest |-> "zero"]
  BY <1>5 DEF Plan
<1>7. task' \subseteq Task /\ \A w \in task' : TaskOK(w) BY <1>1, <1>4, <1>6 DEF Task, TaskOK
<1> QED BY <1>2, <1>3, <1>7, StoreStays, ResolverStep

\* The next place of a task.
LEMMA TaskMoves ==
  ASSUME IInv, NEW w \in task, NEW pc \in {"fenced", "discard"}
  PROVE  [w EXCEPT !.pc = pc] \in Task /\ TaskOK([w EXCEPT !.pc = pc])
<1>1. w \in Task /\ TaskOK(w) BY DEF IInv, TypeOK
<1> QED BY <1>1 DEF Task, TaskOK

LEMMA FenceKeeps == ASSUME IInv, Fence PROVE IInv'
<1>1. UNCHANGED <<drv, listed>> /\ listed' \subseteq Visit BY DEF Fence, IInv, TypeOK
<1>2. PICK w \in task :
        /\ \/ UNCHANGED <<storeVars, faults>>
           \/ Overloaded
           \/ Succeeds(DecideRequest(w.intent.id[1], "Fenced"))
           \/ Fails(DecideRequest(w.intent.id[1], "Fenced"))
        /\ task' \in {{[w EXCEPT !.pc = "discard"]}, {[w EXCEPT !.pc = "fenced"]}, {}}
  BY DEF Fence
<1>3. w.intent.id[1] \in Txns
  <2>1. w.intent.id \in Id BY DEF IInv, TypeOK, Task, Intent
  <2> QED BY <2>1, IdParts
<1>4. task' \subseteq Task /\ \A x \in task' : TaskOK(x) BY <1>2, TaskMoves, Zenon
<1>5. StoreQuiet /\ faults' \in Nat
  <2>1. CASE UNCHANGED <<storeVars, faults>> BY <2>1, StoreStays DEF IInv, TypeOK
  <2>2. CASE Overloaded BY <2>2, StoreStays DEF Overloaded, IInv, TypeOK
  <2>3. CASE Succeeds(DecideRequest(w.intent.id[1], "Fenced")) BY <1>3, <2>3, DecideKept DEF Decision
  <2>4. CASE Fails(DecideRequest(w.intent.id[1], "Fenced")) BY <2>4, FailsKept
  <2> QED BY <1>2, <2>1, <2>2, <2>3, <2>4
<1> QED BY <1>1, <1>4, <1>5, ResolverStep

LEMMA PersistFenceKeeps == ASSUME IInv, PersistFence PROVE IInv'
<1>1. UNCHANGED <<drv, listed>> /\ listed' \subseteq Visit BY DEF PersistFence, IInv, TypeOK
<1>2. PICK w \in task :
        /\ \/ Succeeds(PersistRequest(w.intent.id[1], "Fenced"))
           \/ Fails(PersistRequest(w.intent.id[1], "Fenced"))
        /\ task' \in {{[w EXCEPT !.pc = "discard"]}, {}}
  BY DEF PersistFence
<1>3. w.intent.id[1] \in Txns
  <2>1. w.intent.id \in Id BY DEF IInv, TypeOK, Task, Intent
  <2> QED BY <2>1, IdParts
<1>4. task' \subseteq Task /\ \A x \in task' : TaskOK(x) BY <1>2, TaskMoves, Zenon
<1>5. StoreQuiet /\ faults' \in Nat BY <1>2, <1>3, PersistKept, FailsKept DEF Decision
<1> QED BY <1>1, <1>4, <1>5, ResolverStep

LEMMA ConvergeKeeps == ASSUME IInv, Converge PROVE IInv'
<1>1. UNCHANGED <<drv, listed>> /\ task' = {} /\ listed' \subseteq Visit BY DEF Converge, IInv, TypeOK
<1>2. PICK w \in task :
        /\ w.pc \in {"apply", "discard"}
        /\ \/ Succeeds(Finalize(w.slot, w.intent.id, w.digest, w.intent.write, w.pc = "apply"))
           \/ Fails(Finalize(w.slot, w.intent.id, w.digest, w.intent.write, w.pc = "apply"))
  BY DEF Converge
<1>3. w.pc = "discard" BY <1>2 DEF IInv, TaskOK
<1>4. StoreQuiet /\ faults' \in Nat BY <1>2, <1>3, ConvergeKept, FailsKept
<1> QED BY <1>1, <1>4, ResolverStep

\* A crash leaves a batch where its driver was.
LEMMA CrashKeeps == ASSUME IInv, Crash PROVE IInv'
<1>1. /\ drv' = [t \in Txns |-> IF drv[t].pc \in {"idle", "done"} THEN drv[t]
                                ELSE [drv[t] EXCEPT !.pc = "crashed"]]
      /\ faults' = faults + 1 /\ listed' = {} /\ task' = {} /\ UNCHANGED storeVars
  BY DEF Crash
<1>2. StoreKept /\ UNCHANGED <<applied, discarded>> /\ \A u \in Txns : HoldsKept(u)
  BY <1>1, StoreStays DEF StoreQuiet
<1>3. ASSUME NEW t \in Txns
      PROVE  /\ drv'[t] \in Drivers
             /\ \/ drv'[t] = drv[t]
                \/ /\ drv'[t].pc = "crashed" /\ drv[t].pc # "done"
                   /\ drv'[t].i = drv[t].i /\ drv'[t].outcome = drv[t].outcome
  <2>1. drv[t] \in Drivers BY WaveKey
  <2> QED BY <1>1, <2>1 DEF Drivers, Pc
<1>4. TypeOK'
  <2>1. drv' \in [Txns -> Drivers] BY <1>1, <1>3
  <2>2. faults' \in Nat BY <1>1 DEF IInv, TypeOK
  <2> QED BY <1>1, <1>2, <2>1, <2>2 DEF StoreKept, TypeOK, Drivers, Outcomes
<1>5. Atomic' BY <1>2 DEF IInv, Atomic
<1>6. ASSUME NEW t \in Txns PROVE DriverOK(t)'
  <2>1. DriverOK(t) BY DEF IInv
  <2>2. CASE drv'[t] = drv[t] BY <1>2, <2>1, <2>2, BatchKept
  <2>3. CASE /\ drv'[t].pc = "crashed" /\ drv[t].pc # "done"
             /\ drv'[t].i = drv[t].i /\ drv'[t].outcome = drv[t].outcome
    <3>1. Untouched(t) => Untouched(t)' BY <1>2 DEF Untouched
    <3>2. Kept(t) => Kept(t)' BY <1>2, BatchKeys DEF Kept, Keyset, HoldsKept
    <3> QED BY <2>1, <2>3, <3>1, <3>2 DEF DriverOK
  <2> QED BY <1>3, <2>2, <2>3
<1>7. (\A w \in task : TaskOK(w))' BY <1>1
<1> QED BY <1>2, <1>4, <1>5, <1>6, <1>7 DEF IInv, StoreKept

\* Growing older changes nothing of a reservation but its age.
LEMMA AgeKeeps == ASSUME IInv, NEW s \in Slots, Age(s) PROVE IInv'
<1>1. UNCHANGED <<drv, listed, task, faults, obj, fault, applied, discarded>> BY DEF Age, Grow
<1>2. PICK i \in intent[s] : i.age < 2 /\ intent' = [intent EXCEPT ![s] = {[i EXCEPT !.age = @ + 1]}]
  BY Zenon DEF Age, Grow
<1> DEFINE n == [i EXCEPT !.age = @ + 1]
<1>3. StoreTypeOK /\ ReservedKeyFrozen /\ NothingDecided /\ OwnDigests BY DEF IInv, TypeOK
<1>4. i \in Intent BY <1>3 DEF StoreTypeOK
<1>5. n \in Intent /\ n.id = i.id /\ n.digest = i.digest /\ n.observed = i.observed
  BY <1>2, <1>4 DEF Intent
<1> HIDE DEF n
<1>6. intent'[s] = {n} /\ \A x \in Slots : x # s => intent'[x] = intent[x]
  BY <1>2, <1>3 DEF n, StoreTypeOK
<1>7. intent' \in [Slots -> SUBSET Intent] BY <1>2, <1>3, <1>5 DEF n, StoreTypeOK
<1>8. StoreTypeOK' BY <1>1, <1>3, <1>6, <1>7 DEF StoreTypeOK
<1>9. ReservedKeyFrozen' /\ OwnDigests'
  BY <1>1, <1>3, <1>5, <1>6 DEF ReservedKeyFrozen, OwnDigests
<1>10. NothingDecided' BY <1>1, <1>3 DEF NothingDecided
<1>11. OneReservation' BY <1>6 DEF IInv, OneReservation
<1>12. ASSUME NEW u \in Txns PROVE HoldsKept(u)
  <2> SUFFICES ASSUME NEW k \in Keys, NEW j \in intent[k], j.id = Data(u)
               PROVE  \E x \in intent'[k] : x.id = Data(u)
    BY DEF HoldsKept, ReservedFor
  <2>1. CASE k = s
    <3>1. j = i BY <1>2, <2>1 DEF IInv, OneReservation
    <3> QED BY <1>5, <1>6, <2>1, <3>1
  <2>2. CASE k # s BY <1>6, <2>2, SlotKinds
  <2> QED BY <2>1, <2>2
<1>13. StoreQuiet BY <1>1, <1>8, <1>9, <1>10, <1>11, <1>12 DEF StoreKept, StoreQuiet
<1>14. listed' \subseteq Visit /\ task' \subseteq Task /\ (\A w \in task' : TaskOK(w)) /\ faults' \in Nat
  BY <1>1 DEF IInv, TypeOK
<1> QED BY <1>1, <1>13, <1>14, ResolverStep

\* Other clients write keys, never records, and only where nothing is reserved.
LEMMA OtherClientKeeps == ASSUME IInv, NEW k \in Keys, OtherClient(k) PROVE IInv'
<1>1. UNCHANGED <<drv, listed, task, faults, intent, fault, applied, discarded>>
  BY DEF OtherClient, LocalWrite
<1>2. intent[k] = {} /\ obj' = [obj EXCEPT ![k] = Written(k, "local")]
  BY DEF OtherClient, LocalWrite, Unreserved
<1>3. StoreTypeOK /\ ReservedKeyFrozen /\ NothingDecided /\ OwnDigests /\ OneReservation
  BY DEF IInv, TypeOK
<1>4. k \in Slots /\ k \notin Txns BY SlotKinds
<1>5. Written(k, "local") \in Object BY <1>3, <1>4 DEF Written, Object, Gone, Value, StoreTypeOK
<1>6. obj' \in [Slots -> Object] /\ \A s \in Slots : s # k => obj'[s] = obj[s]
  BY <1>2, <1>3, <1>4, <1>5 DEF StoreTypeOK
<1>7. StoreTypeOK' BY <1>1, <1>3, <1>6 DEF StoreTypeOK
<1>8. ReservedKeyFrozen' BY <1>1, <1>2, <1>3, <1>6 DEF ReservedKeyFrozen
<1>9. NothingDecided' BY <1>3, <1>4, <1>6, SlotKinds DEF NothingDecided
<1>10. OwnDigests' /\ OneReservation' BY <1>1, <1>3 DEF OwnDigests, OneReservation
<1>11. \A u \in Txns : HoldsKept(u) BY <1>1 DEF HoldsKept, ReservedFor
<1>12. StoreQuiet BY <1>1, <1>7, <1>8, <1>9, <1>10, <1>11 DEF StoreKept, StoreQuiet
<1>13. listed' \subseteq Visit /\ task' \subseteq Task /\ (\A w \in task' : TaskOK(w)) /\ faults' \in Nat
  BY <1>1 DEF IInv, TypeOK
<1> QED BY <1>1, <1>12, <1>13, ResolverStep

-----------------------------------------------------------------------------
(* The theorems. *)

LEMMA InitIInv == Init => IInv
<1> SUFFICES ASSUME Init PROVE IInv
  OBVIOUS
<1>1. /\ obj = [s \in Slots |-> Gone] /\ intent = [s \in Slots |-> {}] /\ fault = FALSE
      /\ applied = [t \in Txns |-> [k \in Keys |-> 0]] /\ discarded = [t \in Txns |-> {}]
      /\ drv = [t \in Txns |-> Idle] /\ listed = {} /\ task = {} /\ faults = 0
  BY DEF Init, StoreInit
<1>2. Gone \in Object /\ Gone.value = "gone" BY DEF Gone, Object, Value
<1>3. StoreTypeOK BY <1>1, <1>2, Zenon DEF StoreTypeOK
<1>4. Idle \in Drivers /\ Idle.pc = "idle" /\ Idle.i = 1 /\ Idle.outcome = "none"
  BY DEF Idle, Drivers, Pc, Outcomes
<1>5. TypeOK BY <1>1, <1>3, <1>4 DEF TypeOK, Drivers, Outcomes
<1>6. Atomic /\ ReservedKeyFrozen /\ OwnDigests /\ OneReservation
  BY <1>1 DEF Atomic, ReservedKeyFrozen, OwnDigests, OneReservation
<1>7. NothingDecided BY <1>1, <1>2, SlotKinds DEF NothingDecided
<1>8. ASSUME NEW t \in Txns PROVE DriverOK(t)
  <2>1. 1 \in 1..Len(Writes[t]) BY BatchKeys
  <2>2. Untouched(t) /\ discarded[t] = {} /\ drv[t] = Idle BY <1>1 DEF Untouched
  <2> QED BY <1>4, <2>1, <2>2 DEF DriverOK
<1> QED BY <1>1, <1>5, <1>6, <1>7, <1>8 DEF IInv

LEMMA NextIInv == IInv /\ [Next]_vars => IInv'
<1> SUFFICES ASSUME IInv, [Next]_vars PROVE IInv'
  OBVIOUS
<1>1. ASSUME NEW t \in Txns, Drive(t) PROVE IInv'
  BY <1>1, BeginKeeps, PrepareKeyKeeps, DecideKeeps, PersistKeeps, RereadKeeps, FinalizeKeyKeeps,
     DiscardKeyKeeps
  DEF Drive
<1>2. CASE Resolve
  BY <1>2, ListKeeps, ReadRecordKeeps, FenceKeeps, PersistFenceKeeps, ConvergeKeeps DEF Resolve
<1>3. CASE Crash BY <1>3, CrashKeeps
<1>4. ASSUME NEW s \in Slots, Age(s) PROVE IInv' BY <1>4, AgeKeeps
<1>5. ASSUME NEW k \in Keys, OtherClient(k) PROVE IInv' BY <1>5, OtherClientKeeps
<1>6. CASE UNCHANGED vars
  <2>1. UNCHANGED <<storeVars, drv, listed, task, faults>> BY <1>6 DEF vars, storeVars
  <2>2. listed' \subseteq Visit /\ task' \subseteq Task /\ (\A w \in task' : TaskOK(w)) /\ faults' \in Nat
    BY <2>1 DEF IInv, TypeOK
  <2> QED BY <2>1, <2>2, StoreStays, ResolverStep
<1> QED BY <1>1, <1>2, <1>3, <1>4, <1>5, <1>6 DEF Next

LEMMA Invariance == Spec => []IInv
BY InitIInv, NextIInv, PTL DEF Spec

\* Every state of the engine's drivers, its resolver and the store is well-formed.
THEOREM TypeCorrect == Spec => []TypeOK
<1>1. IInv => TypeOK BY DEF IInv
<1> QED BY <1>1, Invariance, PTL

\* Whatever crashes, whichever calls fail and whoever races, no batch of the engine
\* (atomic_batch) has a write applied on one key and discarded on another.
THEOREM AtomicHolds == Spec => []Atomic
<1>1. IInv => Atomic BY DEF IInv
<1> QED BY <1>1, Invariance, PTL

\* Once a write of a batch is applied, every other key of the batch has its write or is
\* still reserved for it (finalize_all, resolve_transactions): a resolver that has found
\* no record cannot take the reservation away, and nobody else writes the key.
THEOREM KeptUntilAppliedHolds == Spec => []KeptUntilApplied
<1>1. IInv => KeptUntilApplied
  <2> SUFFICES ASSUME IInv, NEW t \in Txns, NEW k \in Keys, applied[t][k] > 0,
                      NEW x \in Keyset(t)
               PROVE  applied[t][x] > 0 \/ ReservedFor(t, x)
    BY DEF KeptUntilApplied
  <2>1. DriverOK(t) BY DEF IInv
  <2>2. applied[t][k] \in Nat BY DEF IInv, TypeOK, StoreTypeOK
  <2> QED BY <2>1, <2>2 DEF DriverOK, Untouched, Kept
<1> QED BY <1>1, Invariance, PTL

\* What atomic_batch returns is what happened to the batch.
THEOREM ReportIsTruthHolds == Spec => []ReportIsTruth
<1>1. IInv => ReportIsTruth BY DEF IInv, ReportIsTruth, DriverOK, Untouched
<1> QED BY <1>1, Invariance, PTL

\* A key reserved for a batch keeps the version its prepare saw until it is released.
THEOREM ReservedKeyFrozenHolds == Spec => []ReservedKeyFrozen
<1>1. IInv => ReservedKeyFrozen BY DEF IInv
<1> QED BY <1>1, Invariance, PTL

\* No decision of the engine ever becomes a record a resolver can read, since finalizing
\* the decision deletes it (decide_record_raw): a resolver never learns that a batch has
\* committed.
THEOREM NothingDecidedHolds == Spec => []NothingDecided
<1>1. IInv => NothingDecided BY DEF IInv
<1> QED BY <1>1, Invariance, PTL
=============================================================================
