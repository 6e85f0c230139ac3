----------------------------- MODULE TxnEngine ------------------------------
(***************************************************************************)
(* Atomic batches of the embedded engine (kivi-engine/src/engine.rs):      *)
(* atomic_batch of a LocalClient and resolve_transactions of the engine,   *)
(* over the tablets of module TxnStore.                                    *)
(*                                                                         *)
(* The tablets are durable ones (commit.rs).  Calls are synchronous and    *)
(* are not lost, but a call fails without effect when the queue of the     *)
(* worker is full, or when the tablet refuses the entry.  A crash of the   *)
(* process ends every driver and the resolver at once, and the tablets     *)
(* come back with their reservations.                                      *)
(*                                                                         *)
(* Left out: the single-tablet path (one entry), the OCC attempts (a new   *)
(* attempt is another member of Txns) and the failure of a read, which     *)
(* reads as an absent record.                                              *)
(***************************************************************************)
EXTENDS TxnStore, Sequences

CONSTANTS
    Writes,      \* transaction -> the keys it writes, in request order
    MaxFaults,   \* bound on process crashes and overloaded calls
    DriverBound  \* the age a reservation may reach while its driver runs

ASSUME TxnEngineAssumption ==
    /\ Writes \in [Txns -> Seq(Keys)] /\ \A t \in Txns : Writes[t] # <<>>
    /\ DriverBound \in 0..2 /\ MaxFaults \in Nat

VARIABLES
    drv,       \* transaction -> its driver
    listed,    \* reservations the current resolver pass has yet to visit
    task,      \* the one it is at
    faults     \* process crashes and overloaded calls so far (bound)

vars == <<obj, intent, fault, applied, discarded, drv, listed, task, faults>>

Pc == {"idle", "prepare", "decide", "decided", "reread", "finalize", "abort", "aborted",
       "abortReread", "discard", "done", "crashed"}
Idle == [pc |-> "idle", i |-> 1, prepared |-> {}, outcome |-> "none"]

Data(t) == <<t, "data">>
Key(t) == Writes[t][drv[t].i]
Last(t) == drv[t].i = Len(Writes[t])
At(t, pc) == drv[t].pc = pc
Go(t, pc) == drv' = [drv EXCEPT ![t].pc = pc]
StartWave(t, pc) == drv' = [drv EXCEPT ![t].pc = pc, ![t].i = 1]
StartAbort(t, outcome) == drv' = [drv EXCEPT ![t].pc = "abort", ![t].outcome = outcome]
Finish(t, outcome) == drv' = [drv EXCEPT ![t].pc = "done", ![t].outcome = outcome]

Read == UNCHANGED <<storeVars, listed, task, faults>>

-----------------------------------------------------------------------------
(* A call on a durable tablet *)

\* A finalize is tried on a scratch copy of the tablet before it is logged: one
\* that would diverge there is an error of its request alone.
Accepts(r) == IF r.op = "prepare" THEN CanPrepare(r) ELSE ~Foreign(r)

Succeeds(r) == Accepts(r) /\ Execute(r) /\ UNCHANGED faults

\* The queue of the worker is full.
Overloaded == faults < MaxFaults /\ faults' = faults + 1 /\ UNCHANGED storeVars

\* Mutant: a diverging finalize is tried on the live tablet, which has dropped the
\* reservation by the time it diverges.
FailsLive(r) ==
    IF Accepts(r) THEN Overloaded
    ELSE /\ intent' = IF r.op = "finalize" THEN [intent EXCEPT ![r.slot] = {}] ELSE intent
         /\ UNCHANGED <<obj, fault, applied, discarded, faults>>

\* The call returns an error, and changes nothing.
Fails(r) == IF Accepts(r) THEN Overloaded ELSE UNCHANGED <<storeVars, faults>>

-----------------------------------------------------------------------------
(* decide_record_raw *)

Salt(decision) ==
    CASE decision = "Committed" -> "commit" [] decision = "Aborted" -> "abort" [] OTHER -> "fence"

\* The prepare carries the record, guarded on absence.
DecideRequest(t, decision) == Prepare(t, <<t, Salt(decision)>>, "zero", decision, {0})

\* The write in the finalize of a decision: a Delete, whatever was prepared.
RecordWrite(decision) == "gone"

PersistRequest(t, decision) ==
    Finalize(t, <<t, Salt(decision)>>, "zero", RecordWrite(decision), TRUE)

-----------------------------------------------------------------------------
(* batch_attempt *)

\* Recovery first: the record is read before anything is prepared.
Begin(t) ==
    /\ At(t, "idle")
    /\ CASE obj[t].value = "Committed" -> StartWave(t, "finalize")
         [] obj[t].value = "Aborted"   -> Finish(t, "aborted")
         [] obj[t].value = "Fenced"    -> Finish(t, "conflict")
         [] OTHER                      -> StartWave(t, "prepare")
    /\ Read

PrepareKey(t) ==
    LET r == Prepare(Key(t), Data(t), "own", t, {})
    IN  /\ At(t, "prepare")
        /\ \/ /\ Succeeds(r)
              /\ drv' = [drv EXCEPT ![t].prepared = @ \cup {Key(t)},
                                    ![t].pc = IF Last(t) THEN "decide" ELSE "prepare",
                                    ![t].i = IF Last(t) THEN 1 ELSE @ + 1]
           \/ Fails(r) /\ StartAbort(t, IF Accepts(r) THEN "failed" ELSE "conflict")
        /\ UNCHANGED <<listed, task>>

DecideCommit(t) ==
    LET r == DecideRequest(t, "Committed")
    IN  /\ At(t, "decide")
        /\ \/ Succeeds(r) /\ Go(t, "decided")
           \/ Fails(r) /\ Go(t, "reread")
        /\ UNCHANGED <<listed, task>>

\* A finalize that applies its write is taken for a durable decision.
PersistCommit(t) ==
    LET r == PersistRequest(t, "Committed")
    IN  /\ At(t, "decided")
        /\ \/ Succeeds(r) /\ StartWave(t, "finalize")
           \/ Fails(r) /\ Go(t, "reread")
        /\ UNCHANGED <<listed, task>>

\* A record under another digest is nobody's of this batch: it is left as it is.
Reread(t) ==
    /\ At(t, "reread")
    /\ CASE obj[t].value = "Committed" -> StartWave(t, "finalize")
         [] obj[t].value = "Fenced"    -> Finish(t, "conflict")
         [] OTHER                      -> StartAbort(t, "aborted")
    /\ Read

\* Mutant: errors are ignored, as they are when keys are discarded.
FinalizeKeyIgnoring(t) ==
    LET r == Finalize(Key(t), Data(t), "own", t, TRUE)
    IN  /\ At(t, "finalize")
        /\ Succeeds(r) \/ Fails(r)
        /\ IF Last(t) THEN Finish(t, "committed") ELSE drv' = [drv EXCEPT ![t].i = @ + 1]
        /\ UNCHANGED <<listed, task>>

\* finalize_all, one key: the first error ends the batch.
FinalizeKey(t) ==
    LET r == Finalize(Key(t), Data(t), "own", t, TRUE)
    IN  /\ At(t, "finalize")
        /\ \/ /\ Succeeds(r)
              /\ IF Last(t) THEN Finish(t, "committed") ELSE drv' = [drv EXCEPT ![t].i = @ + 1]
           \/ Fails(r) /\ Finish(t, "failed")
        /\ UNCHANGED <<listed, task>>

-----------------------------------------------------------------------------
(* abort_prepared *)

DecideAbort(t) ==
    LET r == DecideRequest(t, "Aborted")
    IN  /\ At(t, "abort")
        /\ \/ Succeeds(r) /\ Go(t, "aborted")
           \/ Fails(r) /\ Go(t, "abortReread")
        /\ UNCHANGED <<listed, task>>

PersistAbort(t) ==
    LET r == PersistRequest(t, "Aborted")
    IN  /\ At(t, "aborted")
        /\ \/ Succeeds(r) /\ Go(t, "discard")
           \/ Fails(r) /\ Go(t, "abortReread")
        /\ UNCHANGED <<listed, task>>

AbortReread(t) ==
    /\ At(t, "abortReread")
    /\ IF obj[t].value = "Committed" THEN StartWave(t, "finalize") ELSE Finish(t, drv[t].outcome)
    /\ Read

\* An error leaves the reservation and is ignored.
DiscardKey(t) ==
    /\ At(t, "discard")
    /\ \/ drv[t].prepared = {} /\ Finish(t, drv[t].outcome) /\ Read
       \/ \E k \in drv[t].prepared :
             LET r == Finalize(k, Data(t), "own", t, FALSE)
             IN  /\ Succeeds(r) \/ Fails(r)
                 /\ drv' = [drv EXCEPT ![t].prepared = @ \ {k}]
                 /\ UNCHANGED <<listed, task>>

-----------------------------------------------------------------------------
(* resolve_transactions: one pass visits the reservations it listed. *)

Visit == [slot : Slots, intent : Intent]
Task == [slot : Slots, intent : Intent, pc : {"fence", "fenced", "apply", "discard"},
         digest : {"own", "zero"}]

\* Ages are those at the listing; a reservation within the grace is passed over
\* whatever the record says.
List ==
    /\ listed = {} /\ task = {}
    /\ listed' = UNION {{[slot |-> s, intent |-> i] : i \in {j \in intent[s] : j.age >= 1}} : s \in Slots}
    /\ UNCHANGED <<storeVars, drv, task, faults>>

\* Decide ids have no record of their own.
RecordOf(id) == IF id[2] = "data" THEN obj[id[1]].value ELSE "gone"

\* Mutant: an undecided batch is aborted after the grace, without a fence.
PlanUnilateral(v) ==
    IF v.intent.age = 0 THEN {}
    ELSE {[slot |-> v.slot, intent |-> v.intent, pc |-> "discard", digest |-> v.intent.digest]}

\* What the record and the age call for, and the digest the finalize will carry.
Plan(v) ==
    LET record == RecordOf(v.intent.id)
        step(pc, digest) == {[slot |-> v.slot, intent |-> v.intent, pc |-> pc, digest |-> digest]}
    IN  CASE record = "Committed" /\ v.intent.age >= 1 -> step("apply", "own")
          [] record = "Aborted" /\ v.intent.age >= 1   -> step("discard", "own")
          [] record = "Fenced" /\ v.intent.age >= 1    -> step("discard", "zero")
          [] record = "gone" /\ v.intent.age = 2       -> step("fence", "zero")
          [] OTHER                                    -> {}

ReadRecord ==
    /\ task = {}
    /\ \E v \in listed : task' = Plan(v) /\ listed' = listed \ {v}
    /\ UNCHANGED <<storeVars, drv, faults>>

\* The fence of a decide id is on a key nobody else uses.
Fence ==
    /\ \E w \in task :
          LET r == DecideRequest(w.intent.id[1], "Fenced")
          IN  /\ w.pc = "fence"
              /\ IF w.intent.id[2] # "data"
                 THEN \/ task' = {[w EXCEPT !.pc = "discard"]} /\ UNCHANGED <<storeVars, faults>>
                      \/ task' = {} /\ Overloaded
                 ELSE \/ task' = {[w EXCEPT !.pc = "fenced"]} /\ Succeeds(r)
                      \/ task' = {} /\ Fails(r)
    /\ UNCHANGED <<drv, listed>>

PersistFence ==
    /\ \E w \in task :
          LET r == PersistRequest(w.intent.id[1], "Fenced")
          IN  /\ w.pc = "fenced"
              /\ \/ task' = {[w EXCEPT !.pc = "discard"]} /\ Succeeds(r)
                 \/ task' = {} /\ Fails(r)
    /\ UNCHANGED <<drv, listed>>

\* An error leaves the reservation to the next pass.
Converge ==
    /\ \E w \in task :
          LET r == Finalize(w.slot, w.intent.id, w.digest, w.intent.write, w.pc = "apply")
          IN  /\ w.pc \in {"apply", "discard"}
              /\ Succeeds(r) \/ Fails(r)
    /\ task' = {}
    /\ UNCHANGED <<drv, listed>>

-----------------------------------------------------------------------------
\* The process dies: batches that had begun are never driven again.
Crash ==
    /\ faults < MaxFaults
    /\ faults' = faults + 1
    /\ drv' = [t \in Txns |-> IF drv[t].pc \in {"idle", "done"} THEN drv[t]
                              ELSE [drv[t] EXCEPT !.pc = "crashed"]]
    /\ listed' = {} /\ task' = {}
    /\ UNCHANGED storeVars

\* Does anything still act for the reservation?
Attended(i) ==
    IF i.id[2] = "fence" THEN \E w \in task : w.pc = "fenced" /\ w.intent.id[1] = i.id[1]
    ELSE drv[i.id[1]].pc \notin {"done", "crashed"}

Age(s) ==
    /\ \A i \in intent[s] : Attended(i) => i.age < DriverBound
    /\ Grow(s)
    /\ UNCHANGED <<drv, listed, task, faults>>

OtherClient(k) == LocalWrite(k, "local") /\ UNCHANGED <<drv, listed, task, faults>>

Init ==
    /\ StoreInit
    /\ drv = [t \in Txns |-> Idle]
    /\ listed = {} /\ task = {} /\ faults = 0

Drive(t) ==
    \/ Begin(t) \/ PrepareKey(t) \/ DecideCommit(t) \/ PersistCommit(t) \/ Reread(t)
    \/ FinalizeKey(t) \/ DecideAbort(t) \/ PersistAbort(t) \/ AbortReread(t) \/ DiscardKey(t)

Resolve == List \/ ReadRecord \/ Fence \/ PersistFence \/ Converge

Next ==
    \/ \E t \in Txns : Drive(t)
    \/ Resolve \/ Crash
    \/ \E s \in Slots : Age(s)
    \/ \E k \in Keys : OtherClient(k)

Spec == Init /\ [][Next]_vars

\* A batch that was started is driven on, passes follow each other, and time passes.
FairSpec ==
    /\ Spec
    /\ \A t \in Txns : WF_vars(Drive(t))
    /\ WF_vars(Resolve)
    /\ \A s \in Slots : WF_vars(Age(s))

-----------------------------------------------------------------------------
(* Properties. *)

\* Type invariant.
TypeOK ==
    /\ StoreTypeOK
    /\ drv \in [Txns -> [pc : Pc, i : Nat, prepared : SUBSET Keys,
                         outcome : {"none", "committed", "conflict", "aborted", "failed"}]]
    /\ listed \subseteq Visit /\ task \subseteq Task /\ faults \in Nat

Keyset(t) == {Writes[t][i] : i \in DOMAIN Writes[t]}
ReservedFor(t, k) == \E r \in intent[k] : r.id = Data(t)

\* Once a write of a batch is applied, each other key of it has its write too or is
\* still reserved for it, whoever crashed, whichever call failed and whatever the
\* resolver tried meanwhile: no other client gets at a key in between (finalize_all,
\* resolve_transactions).
KeptUntilApplied ==
    \A t \in Txns : (\E k \in Keys : applied[t][k] > 0) =>
        \A k \in Keyset(t) : applied[t][k] > 0 \/ ReservedFor(t, k)

\* What atomic_batch returns is what happened: a batch reported as committed has all
\* its writes applied, one reported as a conflict or as aborted has none.
ReportIsTruth ==
    \A t \in Txns : drv[t].pc = "done" =>
        /\ drv[t].outcome = "committed" => \A k \in Keyset(t) : applied[t][k] > 0
        /\ drv[t].outcome \in {"conflict", "aborted"} => \A k \in Keys : applied[t][k] = 0

\* All writes commit or none does (atomic_batch): once a write of a batch is applied,
\* in time all of them are.
AllOrNothing ==
    \A t \in Txns :
        (\E k \in Keys : applied[t][k] > 0) ~> (\A k \in Keyset(t) : applied[t][k] > 0)
=============================================================================
