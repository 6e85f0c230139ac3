--------------------------- MODULE TxnReportProofs --------------------------
(***************************************************************************)
(* Proofs about TxnCluster, third part: what a caller is told.  A driver   *)
(* that reports a commit or an abort reports what its record says and will *)
(* say for ever, although answers are lost, requests arrive late and the   *)
(* resolver acts in the driver's place; and a transaction that writes a    *)
(* key it has read finds the key as it read it.                            *)
(***************************************************************************)
EXTENDS TxnProofs

-----------------------------------------------------------------------------
(* What the caller is told. *)

Aborting == {"abort", "aborted", "abortReread", "discard"}
Negative == {"conflict", "aborted"}

\* The commit record of t may still be written.
Coming(t) == drv[t].pc = "decided" \/ \E r \in late : r.id = <<t, "commit">> /\ r.op = "finalize"

\* If t has not committed, it never will.
Settled(t) == Refuted(t) \/ ~Coming(t)

\* What a driver knows: the keys it has finalized, the record it has persisted, and
\* that its commit is not on the way when it aborts for good.
Told(t) ==
    LET d == drv[t]
    IN  /\ d.pc = "finalize" => \A j \in 1..(d.i - 1) : applied[t][Writes[t][j]] > 0
        /\ d.pc = "verify" => Committed(t)
        /\ d.pc \in Aborting => d.outcome # "committed"
        /\ d.pc \in Aborting /\ d.outcome \in Negative => Committed(t) \/ Settled(t)
        /\ d.pc = "done" /\ d.outcome \in Negative => ~Committed(t) /\ Settled(t)
        /\ d.pc = "done" /\ d.outcome = "committed" => \A k \in WriteSet(t) : applied[t][k] > 0

\* What a reservation and a resolver task of a batch carry.
IntentCarries(s, i) ==
    i.id[2] = "data" =>
        /\ i.write # "gone" /\ s \in WriteSet(i.id[1])
        /\ i.id[1] \in conf.guarded => i.observed = seen[i.id[1]][s].version
TaskCarries(s, w) == w.intent.id[2] = "data" => w.intent.write # "gone" /\ s \in WriteSet(w.intent.id[1])

Evidence ==
    /\ \A s \in Slots : \A i \in intent[s] : IntentCarries(s, i)
    /\ \A r \in late : RequestCarries(r)
    /\ \A s \in Slots : \A w \in res[s] : TaskCarries(s, w)

\* The invariant about reports, on top of IInv.
RInv == ReportIsTruth /\ (~fault => Evidence /\ \A t \in Txns : Told(t))

\* What every step does to the data: nothing applied is undone, only a commit on
\* its way is written, new reservations carry the evidence, versions grow, and a
\* guarded write goes to the version that was read.
Onward ==
    /\ \A u \in Txns : \A k \in Keys : applied[u][k] > 0 => applied'[u][k] > 0
    /\ \A u \in Txns : Committed(u)' => Committed(u) \/ Coming(u)
    /\ \A s \in Slots : \A i \in intent'[s] : IntentCarries(s, i)
    /\ ~conf.deletes => \A k \in Keys : obj'[k] = obj[k] \/ obj'[k].version > obj[k].version
    /\ \A u \in conf.guarded : \A k \in Keys :
          applied[u][k] = 0 /\ applied'[u][k] > 0 =>
              drv[u].pc # "idle" /\ obj[k].version = seen[u][k].version

\* What a caller has read stays, and is read from the objects as they are.
SeenKept ==
    \A u \in Txns : drv'[u].pc # "idle" =>
        \/ drv[u].pc # "idle" /\ seen'[u] = seen[u]
        \/ \A k \in Keys : seen'[u][k] = obj'[k]

Reported == RInv' /\ Onward /\ conf' = conf /\ SeenKept

\* A commit covers its keys by reservations of its own.
LEMMA CommitReserves ==
  ASSUME IInv, ~fault, NEW t \in Txns, Secured(t), ~Refuted(t), NEW k \in WriteSet(t), applied[t][k] = 0
  PROVE  \E i \in intent[k] : i.id = <<t, "data">> /\ i.digest = "own" /\ \A j \in intent[k] : j = i
<1>1. k \in Keys /\ k \in Slots BY TxnClusterAssumption DEF WriteSet, Slots
<1>2. Reserves(t, k) BY DEF Secured, CoveredKey
<1>3. PICK i \in intent[k] : i.id = <<t, "data">> BY <1>2, Zenon DEF Reserves, Data
<1>4. Home(k, i.id, i.digest) /\ \A j \in intent[k] : j = i
  BY <1>1, Zenon DEF IInv, Core, StoreOK
<1>5. i.digest = "own" BY <1>3, <1>4 DEF Home
<1> QED BY <1>3, <1>4, <1>5, Zenon

\* The finalize of a batch's key.
LEMMA DataOnward ==
  ASSUME IInv, ~fault, Evidence, NEW r \in Request, Sound(r), RequestCarries(r), Execute(r),
         r.op = "finalize", r.id[2] = "data", r.commit, ~Foreign(r)
  PROVE  Onward
<1> DEFINE t == r.id[1]
           s == r.slot
<1>1. /\ t \in Txns /\ s \in Keys /\ s \in Slots /\ r.id = <<t, "data">> /\ r.write # "gone"
      /\ s \in WriteSet(t) /\ Committed(t)
  BY IdParts, Zenon DEF Request, Sound, Home, Slots, RequestCarries
<1>2. StoreTypeOK /\ StoreOK /\ ReservedKeyFrozen BY Zenon DEF IInv, TypeOK, Core
<1>3. Secured(t) /\ ~Refuted(t) BY <1>1, <1>2, Zenon DEF StoreOK, Committed, Refuted
<1>4. /\ intent' = [intent EXCEPT ![s] = {}]
      /\ obj' = [obj EXCEPT ![s] = [version |-> obj[s].version + 1, value |-> r.write]]
      /\ applied' = [applied EXCEPT ![t][s] = @ + 1]
  BY <1>1, Zenon DEF Execute, ApplyFinalize, Written
<1>5. /\ \A z \in Slots : intent'[z] \subseteq intent[z]
      /\ \A z \in Slots : z # s => obj'[z] = obj[z]
      /\ obj'[s].version = obj[s].version + 1 /\ obj[s].version \in Nat
  BY <1>1, <1>2, <1>4, Zenon DEF StoreTypeOK, Object
<1>6. /\ \A u \in Txns : \A k \in Keys : (u # t \/ k # s) => applied'[u][k] = applied[u][k]
      /\ \A u \in Txns : \A k \in Keys : applied[u][k] \in Nat
      /\ applied'[t][s] = applied[t][s] + 1
  BY <1>1, <1>2, <1>4, Zenon DEF StoreTypeOK
<1>7. \A u \in Txns : \A k \in Keys : applied[u][k] > 0 => applied'[u][k] > 0 BY <1>1, <1>6
<1>8. \A u \in Txns : Committed(u)' => Committed(u) \/ Coming(u)
  BY <1>1, <1>5, TxnStoreAssumption, Zenon DEF Committed, Slots
<1>9. \A z \in Slots : \A i \in intent'[z] : IntentCarries(z, i) BY <1>5, Zenon DEF Evidence
<1>10. \A k \in Keys : obj'[k] = obj[k] \/ obj'[k].version > obj[k].version BY <1>5 DEF Slots
<1>11. ASSUME NEW u \in conf.guarded, NEW k \in Keys, applied[u][k] = 0, applied'[u][k] > 0
       PROVE  drv[u].pc # "idle" /\ obj[k].version = seen[u][k].version
  <2>1. u \in Txns BY TxnClusterAssumption, Zenon DEF IInv, TypeOK
  <2>2. u = t /\ k = s BY <1>6, <1>11, <2>1
  <2>3. PICK i \in intent[s] : i.id = <<t, "data">> BY <1>1, <1>3, <1>11, <2>2, CommitReserves
  <2>4. IntentCarries(s, i) /\ obj[s].version = i.observed
    BY <1>1, <1>2, Zenon DEF Evidence, ReservedKeyFrozen
  <2>5. IntentOK(i) BY <1>1, Zenon DEF IInv, Core
  <2> QED BY <2>2, <2>3, <2>4, <2>5 DEF IntentCarries, IntentOK
<1> QED BY <1>7, <1>8, <1>9, <1>10, <1>11, Zenon DEF Onward

\* A step that leaves the keys and what is applied alone.
LEMMA KeysOnward ==
  ASSUME Evidence, applied' = applied, \A k \in Keys : obj'[k] = obj[k],
         \A u \in Txns : Committed(u)' => Committed(u) \/ Coming(u),
         \A s \in Slots : \A i \in intent'[s] : i \in intent[s] \/ IntentCarries(s, i)
  PROVE  Onward
BY DEF Onward, Evidence

\* Any other entry.
LEMMA ExecuteOnward ==
  ASSUME IInv, ~fault, Evidence, NEW r \in Request, Sound(r), RequestCarries(r), Execute(r),
         r.id[2] = "commit" /\ r.op = "finalize" /\ r.commit => Coming(r.id[1])
  PROVE  Onward
<1> DEFINE t == r.id[1]
           s == r.slot
<1>1. t \in Txns /\ s \in Slots /\ r.id = <<t, r.id[2]>> /\ Home(s, r.id, r.digest)
  BY IdParts, Zenon DEF Request, Sound
<1>2. StoreTypeOK BY Zenon DEF IInv, TypeOK
<1>3. CASE r.op = "finalize" /\ ~(r.id[2] = "data" /\ r.commit /\ ~Foreign(r))
  <2>1. applied' = applied /\ intent' = [intent EXCEPT ![s] = {}]
    BY <1>3, Zenon DEF Execute, ApplyFinalize
  <2>2. \A z \in Slots : \A i \in intent'[z] : i \in intent[z]
    BY <1>1, <1>2, <2>1, Zenon DEF StoreTypeOK
  <2>3. CASE ~(r.commit /\ ~Foreign(r))
    <3>1. obj' = obj BY <1>3, <2>3, Zenon DEF Execute, ApplyFinalize
    <3> QED BY <2>1, <2>2, <3>1, KeysOnward, Zenon DEF Committed
  <2>4. CASE r.commit /\ ~Foreign(r)
    <3>1. s = t /\ r.write = DecisionOf(r.id[2]) BY <1>3, <1>1, <2>4, Zenon DEF Home, Sound
    <3>2. obj' = [obj EXCEPT ![s] = Written(s, r.write)]
      BY <1>3, <2>4, Zenon DEF Execute, ApplyFinalize
    <3>3. \A z \in Slots : z # t => obj'[z] = obj[z]
      BY <1>1, <1>2, <3>1, <3>2, Zenon DEF StoreTypeOK
    <3>4. obj'[t].value = r.write
      BY <1>1, <1>2, <3>1, <3>2, Zenon DEF StoreTypeOK, Written, DecisionOf
    <3>5. \A k \in Keys : obj'[k] = obj[k] BY <1>1, <3>3, TxnStoreAssumption, Zenon DEF Slots
    <3>6. Committed(t)' => Coming(t) BY <1>3, <2>4, <3>1, <3>4, Zenon DEF Committed, DecisionOf
    <3>7. \A u \in Txns : Committed(u)' => Committed(u) \/ Coming(u)
      BY <3>3, <3>6, Zenon DEF Committed, Slots
    <3> QED BY <2>1, <2>2, <3>5, <3>7, KeysOnward, Zenon
  <2> QED BY <2>3, <2>4, Zenon
<1>4. CASE r.op = "finalize" /\ r.id[2] = "data" /\ r.commit /\ ~Foreign(r)
  BY <1>4, DataOnward, Zenon
<1>5. CASE r.op = "prepare" /\ CanPrepare(r)
  <2> DEFINE n == [id |-> r.id, digest |-> r.digest, write |-> r.write, age |-> 0, observed |-> obj[s].version]
  <2>1. UNCHANGED <<obj, applied>> /\ intent' = [intent EXCEPT ![s] = {n}]
    BY <1>5, Zenon DEF Execute, ApplyPrepare
  <2>2. n.id = r.id /\ n.write = r.write /\ n.observed = obj[s].version BY Zenon
  <2> HIDE DEF n
  <2>3. IntentCarries(s, n)
    <3> SUFFICES ASSUME r.id[2] = "data" PROVE IntentCarries(s, n)
      BY <2>2, Zenon DEF IntentCarries
    <3>1. r.write # "gone" /\ s \in WriteSet(t) /\ r.expect = Expect(t, s)
      BY <1>5, Zenon DEF RequestCarries
    <3>2. r.expect \subseteq {obj[s].version} BY <1>5, Zenon DEF CanPrepare, ExpectationHolds
    <3>3. t \in conf.guarded => obj[s].version = seen[t][s].version
      BY <3>1, <3>2, Zenon DEF Expect
    <3> QED BY <2>2, <3>1, <3>3, Zenon DEF IntentCarries
  <2>4. \A z \in Slots : \A i \in intent'[z] : i \in intent[z] \/ IntentCarries(z, i)
    BY <1>1, <1>2, <2>1, <2>3, Zenon DEF StoreTypeOK
  <2> QED BY <2>1, <2>4, KeysOnward, Zenon DEF Committed
<1>6. CASE r.op = "prepare" /\ ~CanPrepare(r)
  <2>1. UNCHANGED <<obj, intent, applied>> BY <1>6, Zenon DEF Execute, storeVars
  <2> QED BY <2>1, KeysOnward, Zenon DEF Committed
<1> QED BY <1>3, <1>4, <1>5, <1>6, Zenon DEF Request

LEMMA StillOnward ==
  ASSUME Evidence, UNCHANGED <<obj, intent, applied>>
  PROVE  Onward
BY KeysOnward, Zenon DEF Committed

\* The driver of u is not about to commit by a request of this step.
NoNewCommit(u) == \A r \in late' : r.id = <<u, "commit">> /\ r.op = "finalize" => r \in late

\* What is settled stays so.
LEMMA SettledLasts ==
  ASSUME Onward, DecisionsLast, NEW u \in Txns, drv'[u].pc # "decided", NoNewCommit(u)
  PROVE  /\ Committed(u) \/ Settled(u) => (Committed(u) \/ Settled(u))'
         /\ ~Committed(u) /\ Settled(u) => (~Committed(u) /\ Settled(u))'
<1>1. Committed(u) => Committed(u)' BY Zenon DEF DecisionsLast, Committed, Decision
<1>2. Refuted(u) => Refuted(u)' /\ ~Committed(u)'
  BY Zenon DEF DecisionsLast, Committed, Refuted, Decision
<1>3. Committed(u)' => Committed(u) \/ Coming(u) BY Zenon DEF Onward
<1>4. ~Coming(u) => ~Coming(u)' BY Zenon DEF Coming, NoNewCommit
<1> QED BY <1>1, <1>2, <1>3, <1>4, Zenon DEF Settled

\* A driver that does not move knows what it knew.
LEMMA ToldLasts ==
  ASSUME TypeOK, Onward, DecisionsLast, NEW u \in Txns, Told(u), drv'[u] = drv[u], NoNewCommit(u),
         drv[u].pc = "finalize" => drv[u].i \in 1..Len(Writes[u])
  PROVE  Told(u)'
<1>1. CASE drv[u].pc = "decided" BY <1>1, Zenon DEF Told, Aborting
<1>2. CASE drv[u].pc # "decided"
  <2>1. /\ Committed(u) \/ Settled(u) => (Committed(u) \/ Settled(u))'
        /\ ~Committed(u) /\ Settled(u) => (~Committed(u) /\ Settled(u))'
    BY <1>2, SettledLasts, Zenon
  <2>2. Committed(u) => Committed(u)' BY Zenon DEF DecisionsLast, Committed, Decision
  <2>3. \A k \in Keys : applied[u][k] > 0 => applied'[u][k] > 0 BY Zenon DEF Onward
  <2>4. WriteSet(u) \subseteq Keys BY TxnClusterAssumption DEF WriteSet
  <2>5. drv[u].pc = "finalize" => \A j \in 1..(drv[u].i - 1) : Writes[u][j] \in Keys
    BY TxnClusterAssumption, FirstOfWave DEF TypeOK
  <2> QED BY <2>1, <2>2, <2>3, <2>4, <2>5, Zenon DEF Told
<1> QED BY <1>1, <1>2, Zenon

\* A driver that has nothing to know.
LEMMA QuietTold ==
  ASSUME NEW t, drv'[t].pc \notin {"finalize", "verify"},
         drv'[t].pc \in Aborting \cup {"done"} => drv'[t].outcome \notin Negative \cup {"committed"}
  PROVE  Told(t)'
BY Zenon DEF Told

\* A driver on its way to an abort.
LEMMA AbortTold ==
  ASSUME Onward, DecisionsLast, NEW t \in Txns, NoNewCommit(t),
         drv'[t].pc \in Aborting, drv'[t].outcome # "committed",
         drv'[t].outcome \in Negative => Committed(t) \/ Settled(t)
  PROVE  Told(t)'
<1>1. drv'[t].pc \notin {"decided", "finalize", "verify", "done"} BY Zenon DEF Aborting
<1>2. drv'[t].outcome \in Negative => (Committed(t) \/ Settled(t))' BY <1>1, SettledLasts, Zenon
<1> QED BY <1>1, <1>2, Zenon DEF Told

\* A driver that ends without a commit.
LEMMA DoneTold ==
  ASSUME Onward, DecisionsLast, NEW t \in Txns, NoNewCommit(t),
         drv'[t].pc = "done", drv'[t].outcome # "committed",
         drv'[t].outcome \in Negative => ~Committed(t) /\ Settled(t)
  PROVE  Told(t)'
<1>1. drv'[t].outcome \in Negative => (~Committed(t) /\ Settled(t))' BY SettledLasts, Zenon
<1> QED BY <1>1, Zenon DEF Told, Aborting

\* A report is the truth when the drivers that have ended know it.
LEMMA TruthFromTold ==
  ASSUME TypeOK', \A u \in Txns : drv'[u].pc = "done" => Told(u)',
         \A u \in Txns : \A k \in Keys : applied'[u][k] > 0 => Committed(u)'
  PROVE  ReportIsTruth'
<1> SUFFICES ASSUME NEW u \in Txns, drv'[u].pc = "done"
             PROVE  /\ drv'[u].outcome = "committed" => \A k \in WriteSet(u) : applied'[u][k] > 0
                    /\ drv'[u].outcome \in {"conflict", "aborted"} =>
                          obj'[u].value # "Committed" /\ \A k \in Keys : applied'[u][k] = 0
  BY Zenon DEF ReportIsTruth
<1>1. \A k \in Keys : applied'[u][k] \in Nat BY DEF TypeOK, StoreTypeOK
<1>2. Told(u)' BY Zenon
<1>3. drv'[u].outcome = "committed" => \A k \in WriteSet(u) : applied'[u][k] > 0
  BY <1>2, Zenon DEF Told
<1>4. drv'[u].outcome \in {"conflict", "aborted"} => ~Committed(u)'
  BY <1>2, Zenon DEF Told, Negative
<1>5. drv'[u].outcome \in {"conflict", "aborted"} => \A k \in Keys : applied'[u][k] = 0
  BY <1>1, <1>4
<1> QED BY <1>3, <1>4, <1>5, Zenon DEF Committed

\* The evidence after a step.
LEMMA EvidenceLasts ==
  ASSUME UNCHANGED <<conf, seen>>, Onward, \A r \in late' : RequestCarries(r),
         \A s \in Slots : \A w \in res'[s] : TaskCarries(s, w)
  PROVE  Evidence'
<1>1. \A s, i : IntentCarries(s, i)' = IntentCarries(s, i) BY Zenon DEF IntentCarries
<1>2. \A r : RequestCarries(r)' = RequestCarries(r) BY Zenon DEF RequestCarries, Expect
<1>3. \A s, w : TaskCarries(s, w)' = TaskCarries(s, w) BY Zenon DEF TaskCarries
<1> QED BY <1>1, <1>2, <1>3, Zenon DEF Evidence, Onward

\* What is applied is committed, before a fault and after it.
LEMMA AppliedCommitted ==
  ASSUME IInv, ~fault, IInv', fault' => UNCHANGED <<obj, applied>>
  PROVE  \A u \in Txns : \A k \in Keys : applied'[u][k] > 0 => Committed(u)'
<1>1. CASE ~fault' BY <1>1, Zenon DEF IInv, Core, StoreOK
<1>2. CASE fault' BY <1>2, Zenon DEF IInv, Core, StoreOK, Committed
<1> QED BY <1>1, <1>2, Zenon

\* The step of a driver, by what it knows afterwards.
LEMMA DriverReports ==
  ASSUME IInv, RInv, ~fault, Kept, NEW t \in Txns, Working(t), Moved(t), Onward,
         UNCHANGED <<conf, seen, res>>, \A r \in late' : r \in late \/ Sendable(t, r),
         fault' => UNCHANGED <<obj, applied>>,
         ~fault' \/ drv'[t].pc = "done" => Told(t)'
  PROVE  Reported
<1>1. TypeOK /\ Core /\ Evidence /\ IInv' /\ TypeOK' /\ DecisionsLast
  BY Zenon DEF IInv, RInv, Kept
<1>2. ASSUME NEW u \in Txns, u # t PROVE Told(u)'
  <2>1. Told(u) /\ drv'[u] = drv[u] BY <1>2, Zenon DEF RInv, Moved
  <2>2. NoNewCommit(u) BY <1>2 DEF NoNewCommit, Sendable
  <2>3. drv[u].pc = "finalize" => drv[u].i \in 1..Len(Writes[u])
    BY <1>1, Zenon DEF Core, DriverOK
  <2> QED BY <1>1, <2>1, <2>2, <2>3, ToldLasts, Zenon
<1>3. \A u \in Txns : \A k \in Keys : applied'[u][k] > 0 => Committed(u)'
  BY <1>1, AppliedCommitted, Zenon
<1>4. \A u \in Txns : drv'[u].pc = "done" => Told(u)' BY <1>2, Zenon
<1>5. ReportIsTruth' BY <1>1, <1>3, <1>4, TruthFromTold, Zenon
<1>6. \A r \in late' : RequestCarries(r) BY <1>1, Zenon DEF Evidence, Sendable
<1>7. \A s \in Slots : \A w \in res'[s] : TaskCarries(s, w) BY <1>1, Zenon DEF Evidence
<1>8. Evidence' BY <1>6, <1>7, EvidenceLasts, Zenon
<1>9. ~fault' => \A u \in Txns : Told(u)' BY <1>2, Zenon
<1>10. RInv' BY <1>5, <1>8, <1>9, Zenon DEF RInv
<1>11. SeenKept BY Zenon DEF SeenKept, Moved, Working
<1> QED BY <1>10, <1>11, Zenon DEF Reported

\* The call is served.
LEMMA ServedReports ==
  ASSUME IInv, RInv, ~fault, Kept, NEW t \in Txns, Working(t), Moved(t), NEW r, Sendable(t, r), Served(r),
         Onward /\ DecisionsLast /\ NoNewCommit(t) /\ (~fault' \/ drv'[t].pc = "done") => Told(t)'
  PROVE  Reported
<1>1. r \in Request /\ Sound(r) /\ RequestCarries(r) /\ Execute(r) /\ Evidence
  BY Zenon DEF Sendable, Served, RInv
<1>2. r.id[2] = "commit" /\ r.op = "finalize" => Coming(r.id[1]) BY Zenon DEF Sendable, Coming
<1>3. Onward BY <1>1, <1>2, ExecuteOnward, Zenon
<1>4. fault' => UNCHANGED <<obj, applied>> BY <1>1, FaultChangesNothing, Zenon
<1>5. UNCHANGED <<conf, seen, res>> /\ late' = late BY Zenon DEF Served
<1>6. NoNewCommit(t) /\ DecisionsLast BY <1>5, Zenon DEF NoNewCommit, Kept
<1> QED BY <1>3, <1>4, <1>5, <1>6, DriverReports, Zenon

\* The call is a read, or lost.
LEMMA StillReports ==
  ASSUME IInv, RInv, ~fault, Kept, NEW t \in Txns, Working(t), Moved(t),
         UNCHANGED <<conf, storeVars, seen, res>>, \A r \in late' : r \in late \/ Sendable(t, r),
         Onward /\ DecisionsLast /\ (drv[t].pc # "decided" => NoNewCommit(t)) => Told(t)'
  PROVE  Reported
<1>1. UNCHANGED <<obj, intent, fault, applied>> BY Zenon DEF storeVars
<1>2. Onward BY <1>1, StillOnward, Zenon DEF RInv
<1>3. drv[t].pc # "decided" => NoNewCommit(t) BY DEF NoNewCommit, Sendable
<1>4. UNCHANGED <<conf, seen, res>> BY Zenon
<1> QED BY <1>1, <1>2, <1>3, <1>4, DriverReports, Zenon DEF Kept

LEMMA ReadReports ==
  ASSUME IInv, RInv, ~fault, Kept, NEW t \in Txns, Working(t), drv[t].pc # "decided", Moved(t),
         Read \/ \E call : Lost(call, {}),
         Onward /\ DecisionsLast /\ NoNewCommit(t) => Told(t)'
  PROVE  Reported
<1>1. UNCHANGED <<conf, storeVars, seen, res>> /\ \A r \in late' : r \in late
  BY Zenon DEF Read, Lost
<1> QED BY <1>1, StillReports, Zenon

LEMMA LostReports ==
  ASSUME IInv, RInv, ~fault, Kept, NEW t \in Txns, Working(t), Moved(t), NEW r, Sendable(t, r),
         NEW call, Lost(call, {r}),
         Onward /\ DecisionsLast /\ (drv[t].pc # "decided" => NoNewCommit(t)) => Told(t)'
  PROVE  Reported
<1>1. UNCHANGED <<conf, storeVars, seen, res>> /\ \A q \in late' : q \in late \/ Sendable(t, q)
  BY Zenon DEF Lost
<1> QED BY <1>1, StillReports, Zenon

-----------------------------------------------------------------------------
(* Each action of a driver reports the truth. *)

\* A re-drive, and the end of the re-drives.
LEMMA RedrivenReports ==
  ASSUME IInv, RInv, ~fault, Kept, NEW t \in Txns, Working(t), drv[t].pc # "decided", Redriven(t),
         Read \/ \E call : Lost(call, {})
  PROVE  Reported
<1>1. /\ Moved(t) /\ drv'[t].pc \in {"recover", "done"}
      /\ drv'[t].pc = "done" => drv'[t].outcome = "unavailable"
  BY RedrivenMoves, Zenon DEF IInv
<1>2. Told(t)' BY <1>1, QuietTold, Zenon DEF Aborting, Negative
<1> QED BY <1>1, <1>2, ReadReports, Zenon

\* A wave begins: nothing is finalized yet.
LEMMA WaveReports ==
  ASSUME IInv, RInv, ~fault, Kept, NEW t \in Txns, Working(t), drv[t].pc # "decided", Read,
         NEW pc \in {"finalize", "prepare"}, StartWave(t, pc)
  PROVE  Reported
<1>1. Moved(t) /\ drv'[t].pc = pc /\ drv'[t].i = 1 BY StartWaveMoves, Zenon DEF IInv, Pc
<1>2. Told(t)' BY <1>1 DEF Told, Aborting
<1> QED BY <1>1, <1>2, ReadReports, Zenon

LEMMA RecoverReports ==
  ASSUME IInv, RInv, Kept, NEW t \in Txns, Recover(t)
  PROVE  Reported
<1>1. ~fault /\ Working(t) /\ drv[t].pc = "recover" BY Zenon DEF Recover, At, Working
<1>2. CASE Lost("read", {}) /\ Redriven(t) BY <1>1, <1>2, RedrivenReports, Zenon
<1>3. ASSUME Read, NEW outcome \in Negative, Refuted(t), Finish(t, outcome) PROVE Reported
  <2>1. Moved(t) /\ drv'[t].pc = "done" /\ drv'[t].outcome = outcome
    BY <1>3, FinishMoves, Zenon DEF IInv, Outcome, Negative
  <2>2. ~Committed(t) /\ Settled(t) /\ outcome # "committed"
    BY <1>3, Zenon DEF Refuted, Committed, Settled, Negative
  <2>3. ASSUME Onward, DecisionsLast, NoNewCommit(t) PROVE Told(t)'
    BY <2>1, <2>2, <2>3, DoneTold, Zenon
  <2> QED BY <1>1, <1>3, <2>1, <2>3, ReadReports, Zenon
<1>4. CASE Read /\ StartWave(t, "finalize") BY <1>1, <1>4, WaveReports, Zenon
<1>5. CASE Read /\ StartWave(t, "prepare") BY <1>1, <1>5, WaveReports, Zenon
<1>6. CASE Read /\ obj[t].value = "Aborted" /\ Finish(t, "aborted")
  BY <1>3, <1>6, Zenon DEF Refuted, Negative
<1>7. CASE Read /\ obj[t].value = "Fenced" /\ Finish(t, "conflict")
  BY <1>3, <1>7, Zenon DEF Refuted, Negative
<1> QED BY <1>2, <1>4, <1>5, <1>6, <1>7, Zenon DEF Recover

\* A conflict is only reported when no commit of the transaction is on its way: a
\* commit has its reservations, and they do not conflict with its own prepares.
LEMMA ConflictSettled ==
  ASSUME IInv, RInv, ~fault, NEW t \in Txns, drv[t].pc = "prepare", NEW k \in WriteSet(t), k \in Slots,
         NEW r, r.id = <<t, "data">>, r.digest = "own", r.slot = k, r.expect = Expect(t, k), ~CanPrepare(r)
  PROVE  Committed(t) \/ Settled(t)
<1> SUFFICES ASSUME ~Committed(t), ~Refuted(t), Coming(t) PROVE FALSE
  BY Zenon DEF Settled
<1>1. PICK q \in late : q.id = <<t, "commit">> /\ q.op = "finalize" BY Zenon DEF Coming
<1>2. Sound(q) BY Zenon DEF IInv, Core
<1>3. Secured(t) BY <1>1, <1>2 DEF Sound
<1>4. k \in Keys BY TxnClusterAssumption DEF WriteSet
<1>5. applied[t][k] = 0
  <2>1. StoreTypeOK /\ StoreOK BY Zenon DEF IInv, TypeOK, Core
  <2>2. applied[t][k] \in Nat BY <1>4, <2>1, Zenon DEF StoreTypeOK
  <2>3. ~(applied[t][k] > 0) BY <1>4, <2>1, Zenon DEF StoreOK
  <2> QED BY <2>2, <2>3
<1>6. PICK i \in intent[k] : i.id = <<t, "data">> /\ i.digest = "own" /\ \A j \in intent[k] : j = i
  BY <1>3, <1>5, CommitReserves, Zenon
<1>7. ~Foreign(r) BY <1>6, Zenon DEF Foreign
<1>8. IntentCarries(k, i) /\ obj[k].version = i.observed
  BY Zenon DEF RInv, Evidence, IInv, ReservedKeyFrozen
<1>9. r.expect \subseteq {obj[k].version} BY <1>6, <1>8 DEF IntentCarries, Expect
<1> QED BY <1>7, <1>9, Zenon DEF CanPrepare, ExpectationHolds

LEMMA PrepareKeyReports ==
  ASSUME IInv, RInv, Kept, NEW t \in Txns, PrepareKey(t)
  PROVE  Reported
<1>1. ~fault /\ Working(t) /\ drv[t].pc = "prepare" /\ TypeOK
  BY Zenon DEF PrepareKey, At, Working, IInv
<1>k. PICK k : k = Key(t) BY Zenon
<1>r. PICK r : r = Prepare(k, Data(t), "own", t, Expect(t, k)) BY Zenon
<1>2. /\ Sendable(t, r) /\ k \in Keys /\ k \in Slots /\ k \in WriteSet(t)
      /\ r.id = <<t, "data">> /\ r.slot = k /\ r.digest = "own" /\ r.expect = Expect(t, k)
  BY <1>1, <1>k, <1>r, PrepareSent
<1>3. CASE Served(r) /\ drv' = [drv EXCEPT ![t].prepared = @ \cup {k},
                                           ![t].pc = IF Last(t) THEN "decide" ELSE "prepare",
                                           ![t].i = IF Last(t) THEN 1 ELSE @ + 1]
  <2>1. drv \in [Txns -> Driver] /\ drv' \in [Txns -> Driver]
    BY <1>1, Zenon DEF Kept, IInv, TypeOK, Driver
  <2> DEFINE d == [drv[t] EXCEPT !.prepared = @ \cup {k},
                                 !.pc = IF Last(t) THEN "decide" ELSE "prepare",
                                 !.i = IF Last(t) THEN 1 ELSE @ + 1]
  <2>2. drv' = [drv EXCEPT ![t] = d] BY <1>3, <2>1, Zenon
  <2>3. d.pc = IF Last(t) THEN "decide" ELSE "prepare" BY <2>1, Zenon DEF Driver
  <2> HIDE DEF d
  <2>4. drv'[t].pc \in {"decide", "prepare"} /\ Moved(t) BY <2>1, <2>2, <2>3, Zenon DEF Moved
  <2>5. Told(t)' BY <2>4, QuietTold, Zenon DEF Aborting
  <2> QED BY <1>1, <1>2, <1>3, <2>4, <2>5, ServedReports, Zenon
<1>4. CASE ~CanPrepare(r) /\ Served(r) /\ StartAbort(t, "conflict")
  <2>1. Moved(t) /\ drv'[t].pc = "abort" /\ drv'[t].outcome = "conflict"
    BY <1>1, <1>4, StartAbortMoves, Zenon DEF Outcome
  <2>2. Committed(t) \/ Settled(t) BY <1>1, <1>2, <1>4, ConflictSettled, Zenon
  <2>3. ASSUME Onward, DecisionsLast, NoNewCommit(t) PROVE Told(t)'
    BY <2>1, <2>2, <2>3, AbortTold, Zenon DEF Aborting
  <2> QED BY <1>1, <1>2, <1>4, <2>1, <2>3, ServedReports, Zenon
<1>5. CASE Lost("prepare", {r}) /\ StartAbort(t, "redrive")
  <2>1. Moved(t) /\ drv'[t].pc = "abort" /\ drv'[t].outcome = "redrive"
    BY <1>1, <1>5, StartAbortMoves, Zenon DEF Outcome
  <2>2. Told(t)' BY <2>1, QuietTold, Zenon DEF Negative
  <2> QED BY <1>1, <1>2, <1>5, <2>1, <2>2, LostReports, Zenon
<1> QED BY <1>3, <1>4, <1>5, <1>k, <1>r, Zenon DEF PrepareKey

LEMMA DecideCommitReports ==
  ASSUME IInv, RInv, Kept, NEW t \in Txns, DecideCommit(t)
  PROVE  Reported
<1>1. ~fault /\ Working(t) /\ drv[t].pc = "decide" /\ TypeOK
  BY Zenon DEF DecideCommit, At, Working, IInv
<1>r. PICK r : r = CommitRequest(t) BY Zenon
<1>2. Sendable(t, r) BY <1>1, <1>r, CommitSent, Zenon
<1>3. PICK pc \in {"decided", "reread"} : Go(t, pc) /\ (Served(r) \/ Lost("decide", {r}))
  BY <1>r, Zenon DEF DecideCommit
<1>4. Moved(t) /\ drv'[t].pc = pc BY <1>1, <1>3, GoMoves, Zenon DEF Pc
<1>5. Told(t)' BY <1>4, QuietTold, Zenon DEF Aborting
<1> QED BY <1>1, <1>2, <1>3, <1>4, <1>5, ServedReports, LostReports, Zenon

LEMMA PersistCommitReports ==
  ASSUME IInv, RInv, Kept, NEW t \in Txns, PersistCommit(t)
  PROVE  Reported
<1>1. ~fault /\ Working(t) /\ drv[t].pc = "decided" /\ TypeOK
  BY Zenon DEF PersistCommit, At, Working, IInv
<1>r. PICK r : r = PersistRequest(t) BY Zenon
<1>2. Sendable(t, r) /\ r.op = "finalize" /\ r.slot = t /\ r.write = "Committed" /\ r.commit
  BY <1>1, <1>r, PersistSent, Zenon
<1>3. CASE Served(r) /\ Go(t, "verify")
  <2>1. Moved(t) /\ drv'[t].pc = "verify" BY <1>1, <1>3, GoMoves, Zenon DEF Pc
  <2>2. ASSUME ~fault' PROVE Committed(t)'
    <3>1. r \in Request /\ Execute(r) BY <1>2, <1>3, Zenon DEF Sendable, Served
    <3> QED BY <1>1, <1>2, <2>2, <3>1, RecordDecided, Zenon DEF Committed, Decision
  <2>3. ~fault' \/ drv'[t].pc = "done" => Told(t)' BY <2>1, <2>2, Zenon DEF Told, Aborting
  <2> QED BY <1>1, <1>2, <1>3, <2>1, <2>3, ServedReports, Zenon
<1>4. CASE Lost("decide", {r}) /\ Go(t, "reread")
  <2>1. Moved(t) /\ drv'[t].pc = "reread" BY <1>1, <1>4, GoMoves, Zenon DEF Pc
  <2>2. Told(t)' BY <2>1, QuietTold, Zenon DEF Aborting
  <2> QED BY <1>1, <1>2, <1>4, <2>1, <2>2, LostReports, Zenon
<1>5. (Served(r) /\ Go(t, "verify")) \/ (Lost("decide", {r}) /\ Go(t, "reread"))
  BY <1>r, Zenon DEF PersistCommit, PersistRequest, Finalize
<1> QED BY <1>3, <1>4, <1>5, Zenon

LEMMA RereadReportsTruth ==
  ASSUME IInv, RInv, Kept, NEW t \in Txns, Reread(t)
  PROVE  Reported
<1>1. ~fault /\ Working(t) /\ drv[t].pc = "reread" /\ TypeOK
  BY Zenon DEF Reread, At, Working, IInv
<1>2. CASE Lost("read", {}) /\ Redriven(t) BY <1>1, <1>2, RedrivenReports, Zenon
<1>3. CASE Read /\ StartWave(t, "finalize") BY <1>1, <1>3, WaveReports, Zenon
<1>4. CASE Read /\ StartAbort(t, "redrive")
  <2>1. Moved(t) /\ drv'[t].pc = "abort" /\ drv'[t].outcome = "redrive"
    BY <1>1, <1>4, StartAbortMoves, Zenon DEF Outcome
  <2>2. Told(t)' BY <2>1, QuietTold, Zenon DEF Negative
  <2> QED BY <1>1, <1>4, <2>1, <2>2, ReadReports, Zenon
<1> QED BY <1>2, <1>3, <1>4, Zenon DEF Reread, RereadDecision

\* The record that was persisted is there.
LEMMA VerifyReports ==
  ASSUME IInv, RInv, Kept, NEW t \in Txns, Verify(t)
  PROVE  Reported
<1>1. ~fault /\ Working(t) /\ drv[t].pc = "verify" BY Zenon DEF Verify, At, Working
<1>2. obj[t].value = "Committed" BY <1>1, Zenon DEF RInv, Told, Committed
<1>3. CASE Lost("read", {}) /\ Redriven(t) BY <1>1, <1>3, RedrivenReports, Zenon
<1>4. CASE Read /\ StartWave(t, "finalize") BY <1>1, <1>4, WaveReports, Zenon
<1> QED BY <1>2, <1>3, <1>4, Zenon DEF Verify

\* After the finalize of a committed key its write is there, whether this entry or
\* an earlier one applied it, and whether or not the tablet stops at it.
LEMMA FinalizeApplies ==
  ASSUME IInv, ~fault, NEW t \in Txns, Committed(t), NEW k \in WriteSet(t), NEW r,
         r.id = <<t, "data">>, r.digest = "own", r.slot = k, r.op = "finalize", r.commit = TRUE, Execute(r)
  PROVE  applied'[t][k] > 0
<1>1. k \in Keys BY TxnClusterAssumption DEF WriteSet
<1>2. applied \in [Txns -> [Keys -> Nat]] BY Zenon DEF IInv, TypeOK, StoreTypeOK
<1>3. CASE ~Foreign(r)
  <2>1. applied' = [applied EXCEPT ![t][k] = @ + 1] BY <1>3 DEF Execute, ApplyFinalize
  <2> QED BY <1>1, <1>2, <2>1
<1>4. CASE Foreign(r)
  <2>1. applied' = applied BY <1>4, Zenon DEF Execute, ApplyFinalize
  <2>2. Secured(t) /\ ~Refuted(t) BY Zenon DEF IInv, Core, StoreOK, Committed, Refuted
  <2>3. applied[t][k] # 0
    <3> SUFFICES ASSUME applied[t][k] = 0 PROVE FALSE
      BY Zenon
    <3>1. PICK i \in intent[k] : i.id = <<t, "data">> /\ i.digest = "own" /\ \A j \in intent[k] : j = i
      BY <2>2, CommitReserves, Zenon
    <3> QED BY <1>4, <3>1, Zenon DEF Foreign
  <2>4. applied[t][k] \in Nat BY <1>1, <1>2, Zenon
  <2> QED BY <2>1, <2>3, <2>4
<1> QED BY <1>3, <1>4, Zenon

LEMMA FinalizeKeyReports ==
  ASSUME IInv, RInv, Kept, NEW t \in Txns, FinalizeKey(t)
  PROVE  Reported
<1>1. /\ ~fault /\ Working(t) /\ drv[t].pc = "finalize" /\ TypeOK /\ Committed(t)
      /\ drv \in [Txns -> Driver] /\ drv' \in [Txns -> Driver]
  BY Zenon DEF FinalizeKey, At, Working, IInv, Core, DriverOK, TypeOK, Driver, Kept
<1>k. PICK k : k = Key(t) BY Zenon
<1>r. PICK r : r = FinalizeRequest(t, k) BY Zenon
<1>2. /\ Sendable(t, r) /\ k \in WriteSet(t) /\ r.id = <<t, "data">> /\ r.op = "finalize"
      /\ r.slot = k /\ r.digest = "own" /\ r.commit = TRUE
  <2>1. r.commit = TRUE BY <1>r, Zenon DEF FinalizeRequest, Finalize
  <2> QED BY <1>1, <1>k, <1>r, <2>1, FinalizeSent
<1>3. /\ drv[t].i \in 1..Len(Writes[t]) /\ Len(Writes[t]) \in Nat /\ drv[t].i \in Nat
  BY <1>1, WavePosition, Zenon
<1>4. CASE Lost("finalize", {r}) /\ Redriven(t)
  <2>1. /\ Moved(t) /\ drv'[t].pc \in {"recover", "done"}
        /\ drv'[t].pc = "done" => drv'[t].outcome = "unavailable"
    BY <1>1, <1>4, RedrivenMoves, Zenon
  <2>2. Told(t)' BY <2>1, QuietTold, Zenon DEF Aborting, Negative
  <2> QED BY <1>1, <1>2, <1>4, <2>1, <2>2, LostReports, Zenon
<1>5. ASSUME Served(r), Onward PROVE \A j \in 1..drv[t].i : applied'[t][Writes[t][j]] > 0
  <2>1. applied'[t][k] > 0 BY <1>1, <1>2, <1>5, FinalizeApplies, Zenon DEF Served
  <2>2. \A j \in 1..(drv[t].i - 1) : applied[t][Writes[t][j]] > 0 BY <1>1, Zenon DEF RInv, Told
  <2>3. \A j \in 1..(drv[t].i - 1) : Writes[t][j] \in Keys BY <1>3, TxnClusterAssumption
  <2>4. \A j \in 1..(drv[t].i - 1) : applied'[t][Writes[t][j]] > 0
    BY <1>5, <2>2, <2>3, Zenon DEF Onward
  <2> QED BY <1>3, <1>k, <2>1, <2>4 DEF Key
<1>6. CASE Served(r) /\ Last(t) /\ Finish(t, "committed")
  <2>1. Moved(t) /\ drv'[t].pc = "done" /\ drv'[t].outcome = "committed"
    BY <1>1, <1>6, FinishMoves, Zenon DEF Outcome
  <2>2. ASSUME Onward PROVE Told(t)'
    <3>1. \A j \in 1..Len(Writes[t]) : applied'[t][Writes[t][j]] > 0
      BY <1>5, <1>6, <2>2, Zenon DEF Last
    <3>2. DOMAIN Writes[t] = 1..Len(Writes[t]) BY TxnClusterAssumption
    <3>3. \A x \in WriteSet(t) : applied'[t][x] > 0 BY <3>1, <3>2, Zenon DEF WriteSet
    <3> QED BY <2>1, <3>3, Zenon DEF Told, Aborting, Negative
  <2> QED BY <1>1, <1>2, <1>6, <2>1, <2>2, ServedReports, Zenon
<1>7. CASE Served(r) /\ ~Last(t) /\ drv' = [drv EXCEPT ![t].i = @ + 1]
  <2>1. drv'[t].i = drv[t].i + 1 /\ drv'[t].pc = "finalize" BY <1>1, <1>7, Zenon DEF Driver
  <2>2. Moved(t) BY <1>1, <1>7, <2>1, Zenon DEF Moved
  <2>3. ASSUME Onward PROVE Told(t)'
    <3>1. \A j \in 1..(drv'[t].i - 1) : applied'[t][Writes[t][j]] > 0
      BY <1>3, <1>5, <1>7, <2>1, <2>3
    <3> QED BY <2>1, <3>1, Zenon DEF Told, Aborting
  <2> QED BY <1>1, <1>2, <1>7, <2>2, <2>3, ServedReports, Zenon
<1>8. \/ Served(r) /\ IF Last(t) THEN Finish(t, "committed") ELSE drv' = [drv EXCEPT ![t].i = @ + 1]
      \/ Lost("finalize", {r}) /\ Redriven(t)
  BY <1>k, <1>r, Zenon DEF FinalizeKey, FinalizeRequest, Finalize
<1> QED BY <1>4, <1>6, <1>7, <1>8, Zenon

\* An abort goes on with what it was started for.
LEMMA GoOnAborting ==
  ASSUME RInv, ~fault, NEW t \in Txns, drv[t].pc \in Aborting, drv'[t].pc \in Aborting,
         drv'[t].outcome = drv[t].outcome, Onward, DecisionsLast, NoNewCommit(t)
  PROVE  Told(t)'
<1>1. /\ drv[t].outcome # "committed"
      /\ drv[t].outcome \in Negative => Committed(t) \/ Settled(t)
  BY Zenon DEF RInv, Told
<1> QED BY <1>1, AbortTold, Zenon

LEMMA DecideAbortReports ==
  ASSUME IInv, RInv, Kept, NEW t \in Txns, DecideAbort(t)
  PROVE  Reported
<1>1. ~fault /\ Working(t) /\ drv[t].pc = "abort" /\ TypeOK
  BY Zenon DEF DecideAbort, At, Working, IInv
<1>r. PICK r : r = AbortRequest(t) BY Zenon
<1>2. Sendable(t, r) BY <1>1, <1>r, AbortSent, Zenon
<1>3. PICK pc \in {"aborted", "abortReread"} : Go(t, pc) /\ (Served(r) \/ Lost("decide", {r}))
  BY <1>r, Zenon DEF DecideAbort
<1>4. Moved(t) /\ drv'[t].pc = pc /\ drv'[t].outcome = drv[t].outcome
  BY <1>1, <1>3, GoMoves, Zenon DEF Pc
<1>5. ASSUME Onward, DecisionsLast, NoNewCommit(t) PROVE Told(t)'
  BY <1>1, <1>4, <1>5, GoOnAborting, Zenon DEF Aborting
<1> QED BY <1>1, <1>2, <1>3, <1>4, <1>5, ServedReports, LostReports, Zenon

LEMMA PersistAbortReports ==
  ASSUME IInv, RInv, Kept, NEW t \in Txns, PersistAbort(t)
  PROVE  Reported
<1>1. ~fault /\ Working(t) /\ drv[t].pc = "aborted" /\ TypeOK
  BY Zenon DEF PersistAbort, At, Working, IInv
<1>r. PICK r : r = PersistAbortRequest(t) BY Zenon
<1>2. Sendable(t, r) BY <1>1, <1>r, PersistAbortSent, Zenon
<1>3. (Served(r) /\ StartWave(t, "discard")) \/ (Lost("decide", {r}) /\ Go(t, "abortReread"))
  BY <1>r, Zenon DEF PersistAbort, PersistAbortRequest, Finalize
<1>4. Moved(t) /\ drv'[t].pc \in {"discard", "abortReread"} /\ drv'[t].outcome = drv[t].outcome
  BY <1>1, <1>3, GoMoves, StartWaveMoves, Zenon DEF Pc
<1>5. ASSUME Onward, DecisionsLast, NoNewCommit(t) PROVE Told(t)'
  BY <1>1, <1>4, <1>5, GoOnAborting, Zenon DEF Aborting
<1> QED BY <1>1, <1>2, <1>3, <1>4, <1>5, ServedReports, LostReports, Zenon

\* The end of an abort that is settled.
LEMMA ReportReports ==
  ASSUME IInv, RInv, ~fault, Kept, NEW t \in Txns, drv[t].pc \in Aborting, Report(t), Read,
         ~Committed(t), drv[t].outcome \in Negative => Settled(t)
  PROVE  Reported
<1>1. /\ Moved(t) /\ drv'[t].pc \in {"recover", "done"}
      /\ drv'[t].pc = "done" => drv'[t].outcome \in {"unavailable", drv[t].outcome}
  BY ReportMoves, Zenon DEF IInv
<1>2. Working(t) /\ drv[t].pc # "decided" BY Zenon DEF Working, Aborting
<1>3. drv[t].outcome # "committed" BY Zenon DEF RInv, Told
<1>4. ASSUME Onward, DecisionsLast, NoNewCommit(t) PROVE Told(t)'
  <2>1. CASE drv'[t].pc = "recover" BY <2>1, QuietTold, Zenon DEF Aborting
  <2>2. CASE drv'[t].pc = "done" /\ drv'[t].outcome = "unavailable"
    BY <2>2, QuietTold, Zenon DEF Aborting, Negative
  <2>3. CASE drv'[t].pc = "done" /\ drv'[t].outcome = drv[t].outcome
    BY <1>3, <1>4, <2>3, DoneTold, Zenon
  <2> QED BY <1>1, <2>1, <2>2, <2>3, Zenon
<1> QED BY <1>1, <1>2, <1>4, ReadReports, Zenon

LEMMA AbortRereadReports ==
  ASSUME IInv, RInv, Kept, NEW t \in Txns, AbortReread(t)
  PROVE  Reported
<1>1. ~fault /\ Working(t) /\ drv[t].pc = "abortReread" BY Zenon DEF AbortReread, At, Working
<1>2. CASE Lost("read", {}) /\ Redriven(t) BY <1>1, <1>2, RedrivenReports, Zenon
<1>3. CASE Read /\ StartWave(t, "finalize") BY <1>1, <1>3, WaveReports, Zenon
<1>4. CASE Read /\ ~Committed(t) /\ Report(t)
  <2>1. drv[t].pc \in Aborting BY <1>1, Zenon DEF Aborting
  <2>2. drv[t].outcome \in Negative => Settled(t) BY <1>1, <1>4, <2>1, Zenon DEF RInv, Told
  <2> QED BY <1>1, <1>4, <2>1, <2>2, ReportReports, Zenon
<1> QED BY <1>2, <1>3, <1>4, Zenon DEF AbortReread, Committed

LEMMA DiscardKeyReports ==
  ASSUME IInv, RInv, Kept, NEW t \in Txns, DiscardKey(t)
  PROVE  Reported
<1>1. /\ ~fault /\ Working(t) /\ drv[t].pc = "discard" /\ drv[t].pc \in Aborting /\ Refuted(t)
      /\ drv \in [Txns -> Driver] /\ drv' \in [Txns -> Driver]
  BY Zenon DEF DiscardKey, At, Working, IInv, Core, DriverOK, TypeOK, Driver, Kept, Aborting
<1>2. ~Committed(t) /\ Settled(t) BY <1>1, Zenon DEF Committed, Refuted, Settled
<1>3. CASE Report(t) /\ Read BY <1>1, <1>2, <1>3, ReportReports, Zenon
<1>4. ASSUME NEW k \in drv[t].prepared, NEW r, r = DiscardRequest(t, k),
             \/ Served(r) /\ drv' = [drv EXCEPT ![t].prepared = @ \ {k}]
             \/ Lost("discard", {r}) /\ UNCHANGED drv
      PROVE  Reported
  <2>1. Sendable(t, r) BY <1>1, <1>4, DiscardSent, Zenon
  <2>2. drv'[t].pc = "discard" /\ drv'[t].outcome = drv[t].outcome /\ \A u \in Txns \ {t} : drv'[u] = drv[u]
    BY <1>1, <1>4 DEF Driver
  <2>3. Moved(t) BY <1>1, <2>2, Zenon DEF Moved
  <2>4. ASSUME Onward, DecisionsLast, NoNewCommit(t) PROVE Told(t)'
    BY <1>1, <2>2, <2>4, GoOnAborting, Zenon DEF Aborting
  <2> QED BY <1>1, <1>4, <2>1, <2>3, <2>4, ServedReports, LostReports, Zenon
<1>5. \/ Report(t) /\ Read
      \/ \E k \in drv[t].prepared :
            LET r == DiscardRequest(t, k)
            IN  \/ Served(r) /\ drv' = [drv EXCEPT ![t].prepared = @ \ {k}]
                \/ Lost("discard", {r}) /\ UNCHANGED drv
  BY Zenon DEF DiscardKey, DiscardRequest
<1> QED BY <1>3, <1>4, <1>5, Zenon

LEMMA CrashReports ==
  ASSUME IInv, RInv, Kept, NEW t \in Txns, Crash(t)
  PROVE  Reported
<1>1. ~fault /\ Working(t) /\ TypeOK /\ Go(t, "crashed") BY Zenon DEF Crash, Working, IInv
<1>2. UNCHANGED <<conf, storeVars, seen, res>> /\ \A r \in late' : r \in late BY Zenon DEF Crash
<1>3. Moved(t) /\ drv'[t].pc = "crashed" BY <1>1, GoMoves, Zenon DEF Pc
<1>4. Told(t)' BY <1>3, QuietTold, Zenon DEF Aborting
<1> QED BY <1>1, <1>2, <1>3, <1>4, StillReports, Zenon

\* A caller reads the objects as they are.
LEMMA BeginReports ==
  ASSUME IInv, RInv, Kept, NEW t \in Txns, Begin(t)
  PROVE  Reported
<1>1. /\ ~fault /\ drv[t].pc = "idle" /\ TypeOK /\ Core /\ Evidence /\ Go(t, "recover") /\ DecisionsLast
      /\ IInv' /\ TypeOK'
  BY Zenon DEF Begin, At, IInv, RInv, Kept
<1>2. UNCHANGED <<conf, obj, intent, fault, applied, late, res>> BY Zenon DEF Begin, storeVars
<1>3. Moved(t) /\ drv'[t].pc = "recover" BY <1>1, GoMoves, Zenon DEF Pc
<1>4. Onward BY <1>1, <1>2, StillOnward, Zenon
<1>5. ASSUME NEW u \in Txns PROVE Told(u)'
  <2>1. CASE u = t BY <1>3, <2>1, QuietTold, Zenon DEF Aborting
  <2>2. CASE u # t
    <3>1. Told(u) /\ drv'[u] = drv[u] BY <1>1, <1>3, <2>2, Zenon DEF RInv, Moved
    <3>2. NoNewCommit(u) BY <1>2, Zenon DEF NoNewCommit
    <3>3. drv[u].pc = "finalize" => drv[u].i \in 1..Len(Writes[u])
      BY <1>1, Zenon DEF Core, DriverOK
    <3> QED BY <1>1, <1>4, <3>1, <3>2, <3>3, ToldLasts, Zenon
  <2> QED BY <2>1, <2>2, Zenon
<1>6. \A u \in Txns : \A k \in Keys : applied'[u][k] > 0 => Committed(u)'
  BY <1>1, <1>2, AppliedCommitted, Zenon
<1>7. ReportIsTruth' BY <1>1, <1>5, <1>6, TruthFromTold, Zenon
<1>8. /\ seen'[t] = [k \in Keys |-> obj[k]]
      /\ \A u \in Txns \ {t} : seen'[u] = seen[u]
  BY <1>1, Zenon DEF Begin, TypeOK
<1>9. \A s \in Slots : \A i \in intent'[s] : IntentCarries(s, i)'
  <2> SUFFICES ASSUME NEW s \in Slots, NEW i \in intent[s] PROVE IntentCarries(s, i)'
    BY <1>2, Zenon
  <2>1. i.id[1] \in Txns /\ i.id[1] # t
    <3>1. i.id \in Id BY <1>1 DEF TypeOK, StoreTypeOK, Intent
    <3>2. IntentOK(i) BY <1>1, Zenon DEF Core
    <3> QED BY <1>1, <3>1, <3>2, IdParts, Zenon DEF IntentOK
  <2> QED BY <1>1, <1>2, <1>8, <2>1 DEF Evidence, IntentCarries
<1>10. \A r \in late' : RequestCarries(r)'
  <2> SUFFICES ASSUME NEW r \in late PROVE RequestCarries(r)'
    BY <1>2, Zenon
  <2>1. r.id[1] \in Txns /\ r.id[1] # t
    <3>1. r.id \in Id BY <1>1, Zenon DEF TypeOK, Request
    <3> QED BY <1>1, <3>1, IdParts, Zenon DEF Core
  <2> QED BY <1>1, <1>2, <1>8, <2>1 DEF Evidence, RequestCarries, Expect
<1>11. Evidence' BY <1>1, <1>2, <1>9, <1>10, Zenon DEF Evidence, TaskCarries
<1>12. RInv' BY <1>5, <1>7, <1>11, Zenon DEF RInv
<1>13. SeenKept
  <2>1. \A k \in Keys : seen'[t][k] = obj'[k] BY <1>2, <1>8, Zenon
  <2>2. \A u \in Txns \ {t} : seen'[u] = seen[u] /\ drv'[u] = drv[u]
    BY <1>3, <1>8, Zenon DEF Moved
  <2> QED BY <2>1, <2>2, Zenon DEF SeenKept
<1> QED BY <1>2, <1>4, <1>12, <1>13, Zenon DEF Reported

-----------------------------------------------------------------------------
(* The steps of others. *)

LEMMA AsideReports ==
  ASSUME IInv, RInv, ~fault, Kept, Aside, Onward, fault' => UNCHANGED <<obj, applied>>,
         \A s \in Slots : \A w \in res'[s] : TaskCarries(s, w)
  PROVE  Reported
<1>1. /\ TypeOK /\ Core /\ Evidence /\ DecisionsLast /\ IInv' /\ TypeOK'
      /\ UNCHANGED <<conf, drv, seen>> /\ late' \subseteq late
  BY Zenon DEF IInv, RInv, Kept, Aside
<1>2. ASSUME NEW u \in Txns PROVE Told(u)'
  <2>1. Told(u) /\ drv'[u] = drv[u] BY <1>1, Zenon DEF RInv
  <2>2. NoNewCommit(u) BY <1>1, Zenon DEF NoNewCommit
  <2>3. drv[u].pc = "finalize" => drv[u].i \in 1..Len(Writes[u])
    BY <1>1, Zenon DEF Core, DriverOK
  <2> QED BY <1>1, <2>1, <2>2, <2>3, ToldLasts, Zenon
<1>3. \A u \in Txns : \A k \in Keys : applied'[u][k] > 0 => Committed(u)'
  BY <1>1, AppliedCommitted, Zenon
<1>4. ReportIsTruth' BY <1>1, <1>2, <1>3, TruthFromTold, Zenon
<1>5. \A r \in late' : RequestCarries(r) BY <1>1, Zenon DEF Evidence
<1>6. Evidence' BY <1>1, <1>5, EvidenceLasts, Zenon
<1>7. RInv' BY <1>2, <1>4, <1>6, Zenon DEF RInv
<1>8. SeenKept BY <1>1, Zenon DEF SeenKept
<1> QED BY <1>1, <1>7, <1>8, Zenon DEF Reported

\* The server applies a request.
LEMMA ServerReports ==
  ASSUME IInv, RInv, ~fault, Kept, Aside, NEW r \in Request, Sound(r), RequestCarries(r), Execute(r),
         r.id[2] = "commit" /\ r.op = "finalize" /\ r.commit => Coming(r.id[1]),
         \A s \in Slots : \A w \in res'[s] : TaskCarries(s, w)
  PROVE  Reported
<1>1. Evidence BY Zenon DEF RInv
<1>2. Onward BY <1>1, ExecuteOnward, Zenon
<1>3. fault' => UNCHANGED <<obj, applied>> BY FaultChangesNothing, Zenon
<1> QED BY <1>2, <1>3, AsideReports, Zenon

\* Nothing happens to the store.
LEMMA QuietReports ==
  ASSUME IInv, RInv, ~fault, Kept, Aside, UNCHANGED storeVars,
         \A s \in Slots : \A w \in res'[s] : TaskCarries(s, w)
  PROVE  Reported
<1>1. UNCHANGED <<obj, intent, applied>> BY Zenon DEF storeVars
<1>2. Onward BY <1>1, StillOnward, Zenon DEF RInv
<1> QED BY <1>1, <1>2, AsideReports, Zenon

LEMMA SameTasksCarry ==
  ASSUME RInv, ~fault, UNCHANGED res
  PROVE  \A s \in Slots : \A w \in res'[s] : TaskCarries(s, w)
BY Zenon DEF RInv, Evidence

LEMMA DeliverReports ==
  ASSUME IInv, RInv, Kept, NEW r \in late, Deliver(r)
  PROVE  Reported
<1>1. ~fault /\ Aside /\ UNCHANGED res /\ Execute(r) BY Zenon DEF Deliver, Aside
<1>2. r \in Request /\ Sound(r) /\ RequestCarries(r)
  BY <1>1, Zenon DEF IInv, TypeOK, Core, RInv, Evidence
<1>3. r.id = <<r.id[1], r.id[2]>> BY <1>2, IdParts, Zenon DEF Request
<1>4. r.id[2] = "commit" /\ r.op = "finalize" => Coming(r.id[1]) BY <1>3, Zenon DEF Coming
<1>5. \A s \in Slots : \A w \in res'[s] : TaskCarries(s, w) BY <1>1, SameTasksCarry, Zenon
<1> QED BY <1>1, <1>2, <1>4, <1>5, ServerReports, Zenon

LEMMA DropReports ==
  ASSUME IInv, RInv, Kept, NEW r \in late, Drop(r)
  PROVE  Reported
<1>1. ~fault /\ Aside /\ UNCHANGED res /\ UNCHANGED storeVars BY Zenon DEF Drop, Aside
<1>2. \A s \in Slots : \A w \in res'[s] : TaskCarries(s, w) BY <1>1, SameTasksCarry, Zenon
<1> QED BY <1>1, <1>2, QuietReports, Zenon

\* The tasks after a step of one of them.
LEMMA EndCarries ==
  ASSUME IInv, RInv, ~fault, NEW s \in Slots, EndTask(s)
  PROVE  \A z \in Slots : \A v \in res'[z] : TaskCarries(z, v)
<1>1. res \in [Slots -> SUBSET Task] BY Zenon DEF IInv, TypeOK
<1>2. \A z \in Slots : res'[z] \subseteq res[z] BY <1>1, Zenon DEF EndTask
<1> QED BY <1>2, Zenon DEF RInv, Evidence

LEMMA ProceedCarries ==
  ASSUME IInv, RInv, ~fault, NEW s \in Slots, NEW w \in res[s],
         NEW pc \in {"read", "fence", "fenced", "apply", "discard"}, Proceed(s, w, pc)
  PROVE  \A z \in Slots : \A v \in res'[z] : TaskCarries(z, v)
<1>1. res \in [Slots -> SUBSET Task] /\ w \in Task BY Zenon DEF IInv, TypeOK
<1> DEFINE n == [w EXCEPT !.pc = pc]
<1>2. n.intent = w.intent BY <1>1, TaskMoves, Zenon
<1>3. res' = [res EXCEPT ![s] = {n}] BY Zenon DEF Proceed
<1> HIDE DEF n
<1>4. TaskCarries(s, w) BY Zenon DEF RInv, Evidence
<1>5. TaskCarries(s, n) BY <1>2, <1>4, Zenon DEF TaskCarries
<1>6. \A z \in Slots : \A v \in res'[z] : v \in res[z] \/ (z = s /\ v = n) BY <1>1, <1>3, Zenon
<1> QED BY <1>5, <1>6, Zenon DEF RInv, Evidence

LEMMA ListIntentReports ==
  ASSUME IInv, RInv, Kept, NEW s \in Slots, ListIntent(s)
  PROVE  Reported
<1>1. ~fault /\ Aside /\ UNCHANGED storeVars BY Zenon DEF ListIntent, Aside
<1>2. res' = [res EXCEPT ![s] = {[intent |-> i, pc |-> "read"] : i \in intent[s]}]
  BY Zenon DEF ListIntent
<1>3. res \in [Slots -> SUBSET Task] BY Zenon DEF IInv, TypeOK
<1>4. \A z \in Slots : \A v \in res'[z] : v \in res[z] \/ (z = s /\ \E i \in intent[s] : v.intent = i)
  BY <1>2, <1>3
<1>5. \A i \in intent[s] : IntentCarries(s, i) BY <1>1, Zenon DEF RInv, Evidence
<1>6. \A z \in Slots : \A v \in res'[z] : TaskCarries(z, v)
  BY <1>1, <1>4, <1>5 DEF RInv, Evidence, TaskCarries, IntentCarries
<1> QED BY <1>1, <1>6, QuietReports, Zenon

LEMMA ReadRecordReports ==
  ASSUME IInv, RInv, Kept, NEW s \in Slots, NEW record, ReadRecord(s, record)
  PROVE  Reported
<1>1. ~fault /\ Aside /\ UNCHANGED storeVars BY Zenon DEF ReadRecord, Aside
<1>2. PICK w \in Tasks(s, "read") :
         IF Verdict(record, w.intent.age) = "wait" THEN EndTask(s)
         ELSE Proceed(s, w, Verdict(record, w.intent.age))
  BY Zenon DEF ReadRecord
<1>3. w \in res[s] BY <1>2, Zenon DEF Tasks
<1>4. PICK verdict : verdict = Verdict(record, w.intent.age) BY Zenon
<1>5. verdict \in {"apply", "discard", "fence", "wait"} BY <1>4, Zenon DEF Verdict
<1>6. EndTask(s) \/ (verdict # "wait" /\ Proceed(s, w, verdict)) BY <1>2, <1>4, Zenon
<1>7. \A z \in Slots : \A v \in res'[z] : TaskCarries(z, v)
  BY <1>1, <1>3, <1>5, <1>6, EndCarries, ProceedCarries, Zenon
<1> QED BY <1>1, <1>7, QuietReports, Zenon

LEMMA FenceReports ==
  ASSUME IInv, RInv, Kept, NEW s \in Slots, Fence(s)
  PROVE  Reported
<1>1. ~fault /\ Aside BY Zenon DEF Fence, Aside
<1>2. PICK w \in Tasks(s, "fence") :
         IF w.intent.id[2] # "data"
         THEN fenced' = fenced \cup {w.intent.id} /\ Proceed(s, w, "discard") /\ UNCHANGED storeVars
         ELSE /\ Execute(FenceRequest(w.intent.id[1])) /\ UNCHANGED fenced
              /\ IF CanPrepare(FenceRequest(w.intent.id[1])) THEN Proceed(s, w, "fenced") ELSE EndTask(s)
  BY Zenon DEF Fence
<1>t. PICK t : t = w.intent.id[1] BY Zenon
<1>r. PICK r : r = FenceRequest(t) BY Zenon
<1>3. w \in res[s] /\ w.pc = "fence" BY <1>2, Zenon DEF Tasks
<1>4. t \in Txns /\ Dead(t) BY <1>1, <1>3, <1>t, TaskFacts, Zenon DEF TaskOK
<1>5. EndTask(s) \/ \E pc \in {"fenced", "discard"} : Proceed(s, w, pc) BY <1>2, Zenon
<1>6. \A z \in Slots : \A v \in res'[z] : TaskCarries(z, v)
  BY <1>1, <1>3, <1>5, EndCarries, ProceedCarries, Zenon
<1>7. UNCHANGED storeVars \/ Execute(r) BY <1>2, <1>t, <1>r, Zenon
<1>8. r \in Request /\ Sound(r) /\ RequestCarries(r) /\ r.id[2] = "fence"
  BY <1>4, <1>r, FenceSent
<1> QED BY <1>1, <1>6, <1>7, <1>8, QuietReports, ServerReports, Zenon

LEMMA PersistFenceReports ==
  ASSUME IInv, RInv, Kept, NEW s \in Slots, PersistFence(s)
  PROVE  Reported
<1>1. ~fault /\ Aside BY Zenon DEF PersistFence, Aside
<1>2. PICK w \in Tasks(s, "fenced") :
         /\ Execute(Finalize(w.intent.id[1], <<w.intent.id[1], "fence">>, "zero", "Fenced", TRUE))
         /\ Proceed(s, w, "discard")
  BY Zenon DEF PersistFence
<1>t. PICK t : t = w.intent.id[1] BY Zenon
<1>r. PICK r : r = FencedRequest(t) BY Zenon
<1>3. w \in res[s] /\ w.pc = "fenced" BY <1>2, Zenon DEF Tasks
<1>4. t \in Txns /\ Dead(t) /\ obj[t].value \in {"gone", "Fenced"}
  BY <1>1, <1>3, <1>t, TaskFacts, Zenon DEF TaskOK
<1>5. \A z \in Slots : \A v \in res'[z] : TaskCarries(z, v)
  BY <1>1, <1>2, <1>3, ProceedCarries, Zenon
<1>6. Execute(r) BY <1>2, <1>t, <1>r, Zenon DEF FencedRequest
<1>7. r \in Request /\ Sound(r) /\ RequestCarries(r) /\ r.id[2] = "fence"
  BY <1>4, <1>r, FencedSent
<1> QED BY <1>1, <1>5, <1>6, <1>7, ServerReports, Zenon

LEMMA ConvergeReports ==
  ASSUME IInv, RInv, Kept, NEW s \in Slots, Converge(s)
  PROVE  Reported
<1>1. ~fault /\ Aside /\ EndTask(s) BY Zenon DEF Converge, Aside
<1>2. PICK w \in Tasks(s, "apply") \cup Tasks(s, "discard") :
         Execute(Finalize(s, w.intent.id, w.intent.digest, w.intent.write, w.pc = "apply"))
  BY Zenon DEF Converge
<1>3. w \in res[s] /\ w.pc \in {"apply", "discard"} BY <1>2, Zenon DEF Tasks
<1>r. PICK r : r = ConvergeRequest(s, w) BY Zenon
<1>4. /\ r \in Request /\ Sound(r) /\ r.id = w.intent.id /\ r.op = "finalize" /\ r.slot = s
      /\ r.write = w.intent.write /\ (r.commit => r.id[2] = "data")
  BY <1>1, <1>3, <1>r, ConvergeSent, SMTT(30)
<1>5. Execute(r) BY <1>2, <1>r, Zenon DEF ConvergeRequest
<1>6. TaskCarries(s, w) BY <1>1, <1>3, Zenon DEF RInv, Evidence
<1>7. RequestCarries(r) BY <1>4, <1>6, Zenon DEF RequestCarries, TaskCarries
<1>8. \A z \in Slots : \A v \in res'[z] : TaskCarries(z, v) BY <1>1, EndCarries, Zenon
<1>9. r.id[2] = "commit" /\ r.op = "finalize" /\ r.commit => Coming(r.id[1]) BY <1>4, Zenon
<1> QED BY <1>1, <1>4, <1>5, <1>7, <1>8, <1>9, ServerReports, Zenon

LEMMA AbandonReports ==
  ASSUME IInv, RInv, Kept, NEW s \in Slots, Abandon(s)
  PROVE  Reported
<1>1. ~fault /\ Aside /\ EndTask(s) /\ UNCHANGED storeVars BY Zenon DEF Abandon, Aside
<1>2. \A z \in Slots : \A v \in res'[z] : TaskCarries(z, v) BY <1>1, EndCarries, Zenon
<1> QED BY <1>1, <1>2, QuietReports, Zenon

LEMMA AgeReports ==
  ASSUME IInv, RInv, Kept, NEW s \in Slots, Age(s)
  PROVE  Reported
<1>1. ~fault /\ Aside /\ UNCHANGED res /\ UNCHANGED <<obj, applied>>
  BY Zenon DEF Age, Aside, Grow
<1>2. PICK i \in intent[s] : intent' = [intent EXCEPT ![s] = {[i EXCEPT !.age = @ + 1]}]
  BY Zenon DEF Age, Grow
<1>3. StoreTypeOK /\ Evidence BY <1>1, Zenon DEF IInv, TypeOK, RInv
<1>4. i \in Intent BY <1>3, Zenon DEF StoreTypeOK
<1>5. PICK n : n = [i EXCEPT !.age = @ + 1] BY Zenon
<1>6. n.id = i.id /\ n.write = i.write /\ n.observed = i.observed
  BY <1>4, <1>5, Zenon DEF Intent
<1>7. IntentCarries(s, i) BY <1>3, Zenon DEF Evidence
<1>8. IntentCarries(s, n) BY <1>6, <1>7, Zenon DEF IntentCarries
<1>9. intent'[s] = {n} /\ \A z \in Slots : z # s => intent'[z] = intent[z]
  BY <1>2, <1>3, <1>5, Zenon DEF StoreTypeOK
<1>10. Onward BY <1>1, <1>3, <1>8, <1>9, KeysOnward, Zenon DEF Committed
<1>11. \A z \in Slots : \A w \in res'[z] : TaskCarries(z, w) BY <1>1, SameTasksCarry, Zenon
<1> QED BY <1>1, <1>10, <1>11, AsideReports, Zenon

LEMMA OtherClientReports ==
  ASSUME IInv, RInv, Kept, NEW k \in Keys, OtherClient(k)
  PROVE  Reported
<1>1. ~fault /\ Aside /\ UNCHANGED res BY Zenon DEF OtherClient, Aside
<1>2. PICK write \in {"local", "gone"} : LocalWrite(k, write) /\ (write = "gone" => conf.deletes)
  BY Zenon DEF OtherClient
<1>3. UNCHANGED <<intent, fault, applied>> /\ obj' = [obj EXCEPT ![k] = Written(k, write)]
  BY <1>2, Zenon DEF LocalWrite
<1>4. StoreTypeOK /\ Evidence BY <1>1, Zenon DEF IInv, TypeOK, RInv
<1>5. k \in Slots /\ \A t \in Txns : t # k /\ t \in Slots BY TxnStoreAssumption, Zenon DEF Slots
<1>6. obj'[k] = Written(k, write) /\ \A z \in Slots : z # k => obj'[z] = obj[z]
  BY <1>3, <1>4, <1>5, Zenon DEF StoreTypeOK
<1>7. ~conf.deletes => obj'[k].version > obj[k].version
  <2> SUFFICES ASSUME ~conf.deletes PROVE obj'[k].version > obj[k].version
    BY Zenon
  <2>1. write # "gone" BY <1>2, Zenon
  <2>2. obj'[k].version = obj[k].version + 1 BY <1>6, <2>1 DEF Written
  <2>3. obj[k].version \in Nat BY <1>4, <1>5, Zenon DEF StoreTypeOK, Object
  <2> QED BY <2>2, <2>3
<1>8. ~conf.deletes => \A x \in Keys : obj'[x] = obj[x] \/ obj'[x].version > obj[x].version
  BY <1>6, <1>7, Zenon DEF Slots
<1>9. \A u \in Txns : Committed(u)' => Committed(u) BY <1>5, <1>6, Zenon DEF Committed
<1>10. \A s \in Slots : \A i \in intent'[s] : IntentCarries(s, i)
  BY <1>3, <1>4, Zenon DEF Evidence
<1>11. /\ \A u \in Txns : \A x \in Keys : applied[u][x] > 0 => applied'[u][x] > 0
       /\ \A u \in conf.guarded : \A x \in Keys : ~(applied[u][x] = 0 /\ applied'[u][x] > 0)
  BY <1>3
<1>12. Onward BY <1>8, <1>9, <1>10, <1>11, Zenon DEF Onward
<1>13. \A z \in Slots : \A w \in res'[z] : TaskCarries(z, w) BY <1>1, SameTasksCarry, Zenon
<1>14. ~fault' BY <1>1, <1>3, Zenon
<1> QED BY <1>1, <1>12, <1>13, <1>14, AsideReports, Zenon

-----------------------------------------------------------------------------
(* The theorems about reports. *)

LEMMA InitReports ==
  ASSUME Init
  PROVE  RInv
<1>1. \A t \in Txns : drv[t].pc = "idle" BY Zenon DEF Init, Idle
<1>2. ReportIsTruth /\ \A t \in Txns : Told(t) BY <1>1, Zenon DEF ReportIsTruth, Told, Aborting
<1>3. Evidence BY Zenon DEF Init, StoreInit, Evidence
<1> QED BY <1>2, <1>3, Zenon DEF RInv

LEMMA NextReports ==
  ASSUME IInv, RInv, Next
  PROVE  Reported
<1>1. Kept BY NextKeeps, Zenon
<1>2. ASSUME NEW t \in Txns, Drive(t) PROVE Reported
  BY <1>1, <1>2, BeginReports, RecoverReports, PrepareKeyReports, DecideCommitReports,
     PersistCommitReports,
     RereadReportsTruth, VerifyReports, FinalizeKeyReports, DecideAbortReports, PersistAbortReports,
     AbortRereadReports, DiscardKeyReports, Zenon
     DEF Drive
<1>3. ASSUME NEW t \in Txns, Crash(t) PROVE Reported BY <1>1, <1>3, CrashReports, Zenon
<1>4. ASSUME NEW r \in late, Deliver(r) \/ Drop(r) PROVE Reported
  BY <1>1, <1>4, DeliverReports, DropReports, Zenon
<1>5. ASSUME NEW s \in Slots, ReadLatest(s) \/ ReadStale(s) PROVE Reported
  BY <1>1, <1>5, ReadRecordReports, Zenon DEF ReadLatest, ReadStale
<1>6. ASSUME NEW s \in Slots, ListIntent(s) \/ Resolve(s) \/ ReadStale(s) \/ Abandon(s) \/ Age(s)
      PROVE  Reported
  BY <1>1, <1>5, <1>6, ListIntentReports, FenceReports, PersistFenceReports, ConvergeReports,
     AbandonReports,
     AgeReports, Zenon
     DEF Resolve
<1>7. ASSUME NEW k \in Keys, OtherClient(k) PROVE Reported
  BY <1>1, <1>7, OtherClientReports, Zenon
<1> QED BY <1>2, <1>3, <1>4, <1>6, <1>7, Zenon DEF Next

LEMMA RInvKept ==
  ASSUME IInv, RInv, [Next]_vars
  PROVE  RInv'
<1>1. CASE Next BY <1>1, NextReports, Zenon DEF Reported
<1>2. CASE UNCHANGED vars
  <2>1. UNCHANGED <<obj, intent, fault, applied, conf, drv, seen, late, res>>
    BY <1>2, Zenon DEF vars
  <2>2. ReportIsTruth' BY <2>1, Zenon DEF RInv, ReportIsTruth
  <2>3. Evidence' = Evidence
    BY <2>1, Zenon DEF Evidence, IntentCarries, RequestCarries, TaskCarries, Expect
  <2>4. \A t \in Txns : Told(t)' = Told(t) BY <2>1 DEF Told, Committed, Settled, Refuted, Coming
  <2> QED BY <2>1, <2>2, <2>3, <2>4, Zenon DEF RInv
<1> QED BY <1>1, <1>2, Zenon

THEOREM ReportInvariance == ASSUME TimelyDrivers PROVE Spec => [](IInv /\ RInv)
<1>1. Init => IInv /\ RInv BY InitInv, InitReports, Zenon
<1>2. IInv /\ RInv /\ [Next]_vars => (IInv /\ RInv)' BY NextKeeps, RInvKept, Zenon DEF Kept
<1> QED BY <1>1, <1>2, PTL DEF Spec

\* What the caller of atomic_batch is told is what happened: a commit it is told of
\* is applied to every key, and after a conflict or an abort nothing ever is, whatever
\* is still in flight.
THEOREM ReportIsTruthHolds == ASSUME TimelyDrivers PROVE Spec => []ReportIsTruth
<1>1. RInv => ReportIsTruth BY Zenon DEF RInv
<1> QED BY <1>1, ReportInvariance, PTL

\* No other client deletes keys.
NoDeletes == \A c \in Configs : ~c.deletes

\* The objects that a caller read are still there, or have newer versions.
Fresh ==
    \A t \in Txns : \A k \in Keys : drv[t].pc # "idle" =>
        /\ obj[k].version >= seen[t][k].version
        /\ obj[k].version = seen[t][k].version => obj[k] = seen[t][k]

LEMMA FreshKept ==
  ASSUME NoDeletes, IInv, RInv, Fresh, [Next]_vars
  PROVE  Fresh'
<1>1. CASE UNCHANGED vars BY <1>1, Zenon DEF vars, Fresh
<1>2. CASE Next
  <2>1. Onward /\ SeenKept /\ IInv' BY <1>2, NextReports, NextKeeps, Zenon DEF Reported, Kept
  <2>2. ~conf.deletes BY Zenon DEF NoDeletes, IInv, TypeOK
  <2>3. \A k \in Keys : obj'[k] = obj[k] \/ obj'[k].version > obj[k].version
    BY <2>1, <2>2, Zenon DEF Onward
  <2> SUFFICES ASSUME NEW t \in Txns, NEW k \in Keys, drv'[t].pc # "idle"
               PROVE  /\ obj'[k].version >= seen'[t][k].version
                      /\ obj'[k].version = seen'[t][k].version => obj'[k] = seen'[t][k]
    BY Zenon DEF Fresh
  <2>4. obj[k].version \in Nat /\ obj'[k].version \in Nat /\ seen[t][k].version \in Nat
    <3>1. obj[k] \in Object /\ obj'[k] \in Object /\ seen[t][k] \in Object
      BY <2>1 DEF IInv, TypeOK, StoreTypeOK, Slots
    <3> QED BY <3>1, Zenon DEF Object
  <2>5. CASE drv[t].pc # "idle" /\ seen'[t] = seen[t]
    <3>1. /\ obj[k].version >= seen[t][k].version
          /\ obj[k].version = seen[t][k].version => obj[k] = seen[t][k]
      BY <2>5, Zenon DEF Fresh
    <3>2. CASE obj'[k] = obj[k] BY <2>5, <3>1, <3>2, Zenon
    <3>3. CASE obj'[k].version > obj[k].version
      <4>1. obj'[k].version > seen'[t][k].version BY <2>4, <2>5, <3>1, <3>3
      <4> QED BY <2>4, <2>5, <4>1
    <3> QED BY <2>3, <3>2, <3>3, Zenon
  <2>6. CASE \A x \in Keys : seen'[t][x] = obj'[x] BY <2>4, <2>6
  <2> QED BY <2>1, <2>5, <2>6, Zenon DEF SeenKept
<1> QED BY <1>1, <1>2, Zenon

LEMMA OneIsPositive == \A x : x = 1 => x > 0 OBVIOUS

\* A guarded write of a batch (its Version expectations) is applied to the very
\* object that its caller read, by whichever of the driver, a late request and a
\* resolver applies it, as long as other clients do not delete keys.
THEOREM GuardedWriteSeesReadHolds == ASSUME TimelyDrivers, NoDeletes PROVE Spec => GuardedWriteSeesRead
<1>1. Init => Fresh BY DEF Init, Idle, Fresh
<1>2. IInv /\ RInv /\ Fresh /\ [Next]_vars => Fresh' BY FreshKept, Zenon
<1>3. IInv /\ RInv /\ Fresh /\ [Next]_vars =>
        [\A t \in conf.guarded, k \in Keys :
            applied[t][k] = 0 /\ applied'[t][k] = 1 => obj[k] = seen[t][k]]_vars
  <2> SUFFICES ASSUME IInv, RInv, Fresh, Next, NEW t \in conf.guarded, NEW k \in Keys,
                      applied[t][k] = 0, applied'[t][k] = 1
               PROVE  obj[k] = seen[t][k]
    BY Zenon
  <2>1. Onward BY NextReports, Zenon DEF Reported
  <2>2. \A u \in conf.guarded : \A x \in Keys : applied[u][x] = 0 /\ applied'[u][x] > 0 =>
          drv[u].pc # "idle" /\ obj[x].version = seen[u][x].version
    BY <2>1, Zenon DEF Onward
  <2>3. applied'[t][k] > 0 BY Zenon, OneIsPositive
  <2>4. drv[t].pc # "idle" /\ obj[k].version = seen[t][k].version BY Zenon, <2>2, <2>3
  <2>5. t \in Txns BY TxnClusterAssumption, Zenon DEF IInv, TypeOK
  <2> QED BY <2>4, <2>5, Zenon DEF Fresh
<1> QED BY <1>1, <1>2, <1>3, ReportInvariance, PTL DEF Spec, GuardedWriteSeesRead
=============================================================================
