----------------------------- MODULE TxnCluster -----------------------------
(***************************************************************************)
(* A cross-tablet transaction in the cluster: the client's two-phase       *)
(* commit driver (kivi-client/src/ordered.rs) and the resolver of a server *)
(* (kivi-server/src/control.rs) over the tablets of module TxnStore.       *)
(*                                                                         *)
(* A driver call is one round trip: the entry is applied and the answer    *)
(* read, or the call ends in an ambiguous error and the request is left in *)
(* `late', to be applied at some later time or never.  Retries inside one  *)
(* call carry one identity and are deduplicated, so a request is applied   *)
(* at most once.  A re-drive issues new requests.                          *)
(*                                                                         *)
(* Left out: routing and its drift checks, the OCC attempts of             *)
(* atomic_batch (a new attempt is another member of Txns), and the Begun   *)
(* record with its version-guarded abort: no driver writes one.            *)
(***************************************************************************)
EXTENDS TxnStore, Sequences

CONSTANTS
    Writes,       \* transaction -> the keys it writes, in request order
    MaxFaults,    \* bound on ambiguous calls and driver crashes
    MaxRedrives,  \* MAX_BATCH_REDRIVES
    Configs       \* the surroundings a behaviour may take place in, records of
                  \*   guarded   transactions whose writes carry Version expectations
                  \*   faults    driver calls that may end ambiguously, and "crash"
                  \*   age       the age a reservation may reach while its driver runs
                  \*   versions  bound on the versions that other clients create
                  \*   deletes   do other clients delete keys

ASSUME TxnClusterAssumption ==
    /\ Writes \in [Txns -> Seq(Keys)] /\ \A t \in Txns : Writes[t] # <<>>
    /\ MaxRedrives \in Nat /\ MaxFaults \in Nat
    /\ Configs \subseteq
          [guarded : SUBSET Txns, age : 0..2, versions : 0..MaxVersion, deletes : BOOLEAN,
           faults : SUBSET {"read", "prepare", "decide", "finalize", "discard", "crash"}]

VARIABLES
    conf,     \* the member of Configs, which does not change
    drv,      \* transaction -> its driver
    seen,     \* history: transaction -> versions and writers the caller read
    late,     \* requests whose callers gave up on them
    faults,   \* ambiguous calls and driver crashes so far (bound)
    res,      \* slot -> the resolver task of the node that leads its tablet
    fenced    \* decide ids with an Aborted record of their own

vars == <<obj, intent, fault, applied, discarded, conf, drv, seen, late, faults, res, fenced>>

Pc == {"idle", "recover", "prepare", "decide", "decided", "reread", "verify", "abort",
       "aborted", "abortReread", "discard", "finalize", "done", "crashed"}
Outcome == {"none", "committed", "conflict", "aborted", "redrive", "unavailable"}

\* i is the position in the current wave, prepared the reservations made in it,
\* outcome what an abort reports.
Idle == [pc |-> "idle", i |-> 1, prepared |-> {}, outcome |-> "none", redrives |-> 0]

Data(t) == <<t, "data">>
Key(t) == Writes[t][drv[t].i]
Last(t) == drv[t].i = Len(Writes[t])
At(t, pc) == ~fault /\ drv[t].pc = pc
Go(t, pc) == drv' = [drv EXCEPT ![t].pc = pc]
Running(t) == drv[t].pc \notin {"idle", "done", "crashed"} \/ \E r \in late : r.id[1] = t

Expect(t, k) == IF t \in conf.guarded THEN {seen[t][k].version} ELSE {}

-----------------------------------------------------------------------------
(* Calls of a driver. *)

\* The call's request is applied and its answer read.
Served(r) == Execute(r) /\ UNCHANGED <<conf, seen, late, faults, res, fenced>>

\* A read of the decision record: nothing changes.
Read == UNCHANGED <<conf, storeVars, seen, late, faults, res, fenced>>

\* The call is lost: its requests, if it has one, may still be applied.
Lost(call, requests) ==
    /\ call \in conf.faults /\ faults < MaxFaults
    /\ faults' = faults + 1
    /\ late' = late \cup requests
    /\ UNCHANGED <<conf, storeVars, seen, res, fenced>>

\* Mutant: the number of re-drives is not bounded.
RedrivenOn(t) ==
    drv' = [drv EXCEPT ![t] = [Idle EXCEPT !.pc = "recover", !.redrives = drv[t].redrives + 1]]

\* The end of a batch_attempt with Redrive, inside redrive().
Redriven(t) ==
    drv' = [drv EXCEPT ![t] =
               IF @.redrives < MaxRedrives
               THEN [Idle EXCEPT !.pc = "recover", !.redrives = drv[t].redrives + 1]
               ELSE [@ EXCEPT !.pc = "done", !.outcome = "unavailable"]]

Finish(t, outcome) == drv' = [drv EXCEPT ![t].pc = "done", ![t].outcome = outcome]

\* The end of abort_or_commit with Aborted: the outcome the abort was started for.
Report(t) ==
    IF drv[t].outcome = "redrive" THEN Redriven(t) ELSE Finish(t, drv[t].outcome)

StartAbort(t, outcome) == drv' = [drv EXCEPT ![t].pc = "abort", ![t].outcome = outcome]

StartWave(t, pc) == drv' = [drv EXCEPT ![t].pc = pc, ![t].i = 1]

-----------------------------------------------------------------------------
(* drive_2pc *)

\* The caller reads the keys it will guard and submits the batch.
Begin(t) ==
    /\ At(t, "idle")
    /\ seen' = [seen EXCEPT ![t] = [k \in Keys |-> obj[k]]]
    /\ Go(t, "recover")
    /\ UNCHANGED <<conf, storeVars, late, faults, res, fenced>>

\* Recovery first: a decision already there is followed.
Recover(t) ==
    /\ At(t, "recover")
    /\ \/ /\ CASE obj[t].value = "Committed" -> StartWave(t, "finalize")
               [] obj[t].value = "Aborted"   -> Finish(t, "aborted")
               [] obj[t].value = "Fenced"    -> Finish(t, "conflict")
               [] OTHER                      -> StartWave(t, "prepare")
          /\ Read
       \/ Lost("read", {}) /\ Redriven(t)

\* prepare_wave, one key.
PrepareKey(t) ==
    LET r == Prepare(Key(t), Data(t), "own", t, Expect(t, Key(t)))
    IN  /\ At(t, "prepare")
        /\ \/ /\ CanPrepare(r) /\ Served(r)
              /\ drv' = [drv EXCEPT ![t].prepared = @ \cup {Key(t)},
                                    ![t].pc = IF Last(t) THEN "decide" ELSE "prepare",
                                    ![t].i = IF Last(t) THEN 1 ELSE @ + 1]
           \/ ~CanPrepare(r) /\ Served(r) /\ StartAbort(t, "conflict")
           \/ Lost("prepare", {r}) /\ StartAbort(t, "redrive")

\* decide_record with salt 0: reserve the record key, absence-guarded.
CommitRequest(t) == Prepare(t, <<t, "commit">>, "zero", "Committed", {0})

DecideCommit(t) ==
    LET r == CommitRequest(t)
    IN  /\ At(t, "decide")
        /\ \/ CanPrepare(r) /\ Served(r) /\ Go(t, "decided")
           \/ ~CanPrepare(r) /\ Served(r) /\ Go(t, "reread")
           \/ Lost("decide", {r}) /\ Go(t, "reread")

\* decide_record: persist the decision.
PersistCommit(t) ==
    LET r == Finalize(t, <<t, "commit">>, "zero", "Committed", TRUE)
    IN  /\ At(t, "decided")
        /\ \/ Served(r) /\ Go(t, "verify")
           \/ Lost("decide", {r}) /\ Go(t, "reread")

\* Mutant: an undecided record is taken for an abort without the record saying so.
RereadAborts(t) ==
    IF obj[t].value = "Committed" THEN StartWave(t, "finalize") ELSE StartWave(t, "discard")

\* Mutant: a decide without an answer is reported as a conflict.
RereadReports(t) == Finish(t, "conflict")

\* A decide that failed may have committed: look before aborting.
RereadDecision(t) ==
    IF obj[t].value = "Committed" THEN StartWave(t, "finalize") ELSE StartAbort(t, "redrive")

Reread(t) ==
    /\ At(t, "reread")
    /\ \/ RereadDecision(t) /\ Read
       \/ Lost("read", {}) /\ Redriven(t)

\* The durable decision is verified before anything is finalized.
Verify(t) ==
    /\ At(t, "verify")
    /\ \/ /\ IF obj[t].value = "Committed" THEN StartWave(t, "finalize") ELSE StartAbort(t, "conflict")
          /\ Read
       \/ Lost("read", {}) /\ Redriven(t)

\* Mutant: the wave carries its decision to the first key only.
FinalizeKeyFirst(t) ==
    /\ At(t, "finalize") /\ Served(Finalize(Key(t), Data(t), "own", t, drv[t].i = 1))
    /\ IF Last(t) THEN Finish(t, "committed") ELSE drv' = [drv EXCEPT ![t].i = @ + 1]

\* finalize_all and finalize_all_recovery, one key.
FinalizeKey(t) ==
    LET r == Finalize(Key(t), Data(t), "own", t, TRUE)
    IN  /\ At(t, "finalize")
        /\ \/ /\ Served(r)
              /\ IF Last(t) THEN Finish(t, "committed") ELSE drv' = [drv EXCEPT ![t].i = @ + 1]
           \/ Lost("finalize", {r}) /\ Redriven(t)

-----------------------------------------------------------------------------
(* abort_prepared *)

\* decide_record with salt 1.
AbortRequest(t) == Prepare(t, <<t, "abort">>, "zero", "Aborted", {0})

DecideAbort(t) ==
    LET r == AbortRequest(t)
    IN  /\ At(t, "abort")
        /\ \/ CanPrepare(r) /\ Served(r) /\ Go(t, "aborted")
           \/ ~CanPrepare(r) /\ Served(r) /\ Go(t, "abortReread")
           \/ Lost("decide", {r}) /\ Go(t, "abortReread")

PersistAbort(t) ==
    LET r == Finalize(t, AbortRequest(t).id, "zero", "Aborted", TRUE)
    IN  /\ At(t, "aborted")
        /\ \/ Served(r) /\ StartWave(t, "discard")
           \/ Lost("decide", {r}) /\ Go(t, "abortReread")

\* The decide race was lost, or its answer: Committed is followed, anything else
\* ends the attempt and leaves the reservations to the resolver.
AbortReread(t) ==
    /\ At(t, "abortReread")
    /\ \/ /\ IF obj[t].value = "Committed" THEN StartWave(t, "finalize") ELSE Report(t)
          /\ Read
       \/ Lost("read", {}) /\ Redriven(t)

\* finalize_abort_durable, one prepared key; a lost call is repeated.
DiscardKey(t) ==
    /\ At(t, "discard")
    /\ \/ drv[t].prepared = {} /\ Report(t) /\ Read
       \/ \E k \in drv[t].prepared :
             LET r == Finalize(k, Data(t), "own", t, FALSE)
             IN  \/ Served(r) /\ drv' = [drv EXCEPT ![t].prepared = @ \ {k}]
                 \/ Lost("discard", {r}) /\ UNCHANGED drv

\* A driver dies with its process, at any point.
Crash(t) ==
    /\ ~fault /\ drv[t].pc \notin {"idle", "done", "crashed"}
    /\ "crash" \in conf.faults /\ faults < MaxFaults
    /\ faults' = faults + 1
    /\ Go(t, "crashed")
    /\ UNCHANGED <<conf, storeVars, seen, late, res, fenced>>

\* A request whose caller gave up is applied after all, or is gone for good.
Deliver(r) ==
    /\ ~fault /\ Execute(r)
    /\ late' = late \ {r}
    /\ UNCHANGED <<conf, drv, seen, faults, res, fenced>>

Drop(r) ==
    /\ ~fault /\ late' = late \ {r}
    /\ UNCHANGED <<conf, storeVars, drv, seen, faults, res, fenced>>

-----------------------------------------------------------------------------
(* resolve_transactions.  Every node resolves the tablets it leads, so each *)
(* slot has one task at a time, and tasks of different slots interleave.    *)

Task == [intent : Intent, pc : {"read", "fence", "fenced", "apply", "discard"}]

Tasks(s, pc) == {w \in res[s] : w.pc = pc}
Proceed(s, w, pc) == res' = [res EXCEPT ![s] = {[w EXCEPT !.pc = pc]}]
EndTask(s) == res' = [res EXCEPT ![s] = {}]

\* A pass lists the reservations of the local replica.
ListIntent(s) ==
    /\ ~fault /\ res[s] = {} /\ intent[s] # {}
    /\ res' = [res EXCEPT ![s] = {[intent |-> i, pc |-> "read"] : i \in intent[s]}]
    /\ UNCHANGED <<conf, storeVars, drv, seen, late, faults, fenced>>

\* The record of an id.  The one of a decide id is written by resolvers only.
RecordOf(id) ==
    IF id[2] = "data" THEN obj[id[1]].value ELSE IF id \in fenced THEN "Fenced" ELSE "gone"

\* Mutant: a transaction without a record is waited for.
VerdictPatient(record, age) ==
    CASE record = "Committed" /\ age >= 1             -> "apply"
      [] record \in {"Aborted", "Fenced"} /\ age >= 1 -> "discard"
      [] OTHER                                        -> "wait"

\* resolve_one_intent: what the record and the age of the reservation call for.
Verdict(record, age) ==
    CASE record = "Committed" /\ age >= 1             -> "apply"
      [] record \in {"Aborted", "Fenced"} /\ age >= 1 -> "discard"
      [] record = "gone" /\ age = 2                   -> "fence"
      [] OTHER                                        -> "wait"

\* read_txn_record: the leader's record, or what the local replica has of it.
ReadRecord(s, record) ==
    /\ ~fault
    /\ \E w \in Tasks(s, "read") :
          LET verdict == Verdict(record, w.intent.age)
          IN  IF verdict = "wait" THEN EndTask(s) ELSE Proceed(s, w, verdict)
    /\ UNCHANGED <<conf, storeVars, drv, seen, late, faults, fenced>>

ReadLatest(s) == \E w \in Tasks(s, "read") : ReadRecord(s, RecordOf(w.intent.id))
ReadStale(s) == ReadRecord(s, "gone")

\* Mutant: the fence does not expect the record to be absent.
FenceRequestBlind(t) == Prepare(t, <<t, "fence">>, "zero", "Fenced", {})

\* The fence is a decision under salt 2.
FenceRequest(t) == Prepare(t, <<t, "fence">>, "zero", "Fenced", {0})

\* cas_abort_absent_record, first half.  On the record of a decide id nobody
\* competes, and both halves are one step.
Fence(s) ==
    /\ ~fault
    /\ \E w \in Tasks(s, "fence") :
          LET t == w.intent.id[1]
          IN  IF w.intent.id[2] # "data"
              THEN /\ fenced' = fenced \cup {w.intent.id}
                   /\ Proceed(s, w, "discard") /\ UNCHANGED storeVars
              ELSE /\ Execute(FenceRequest(t)) /\ UNCHANGED fenced
                   /\ IF CanPrepare(FenceRequest(t)) THEN Proceed(s, w, "fenced") ELSE EndTask(s)
    /\ UNCHANGED <<conf, drv, seen, late, faults>>

\* cas_abort_absent_record, second half.
PersistFence(s) ==
    /\ ~fault
    /\ \E w \in Tasks(s, "fenced") :
          LET t == w.intent.id[1]
          IN  /\ Execute(Finalize(t, <<t, "fence">>, "zero", "Fenced", TRUE))
              /\ Proceed(s, w, "discard")
    /\ UNCHANGED <<conf, drv, seen, late, faults, fenced>>

\* The finalize of the reservation, with the write it carries.
Converge(s) ==
    /\ ~fault
    /\ \E w \in Tasks(s, "apply") \cup Tasks(s, "discard") :
          Execute(Finalize(s, w.intent.id, w.intent.digest, w.intent.write, w.pc = "apply"))
    /\ EndTask(s)
    /\ UNCHANGED <<conf, drv, seen, late, faults, fenced>>

\* A proposal fails or the node stops: the next pass starts over.
Abandon(s) ==
    /\ ~fault /\ res[s] # {} /\ EndTask(s)
    /\ UNCHANGED <<conf, storeVars, drv, seen, late, faults, fenced>>

-----------------------------------------------------------------------------
\* Does anything still act for the reservation?
Attended(i) ==
    IF i.id[2] = "fence" THEN \E s \in Slots : \E w \in Tasks(s, "fenced") : w.intent.id[1] = i.id[1]
    ELSE Running(i.id[1])

Age(s) ==
    /\ ~fault /\ \A i \in intent[s] : Attended(i) => i.age < conf.age
    /\ Grow(s)
    /\ UNCHANGED <<conf, drv, seen, late, faults, res, fenced>>

OtherClient(k) ==
    /\ ~fault
    /\ \/ obj[k].version < conf.versions /\ LocalWrite(k, "local")
       \/ conf.deletes /\ obj[k] # Gone /\ LocalWrite(k, "gone")
    /\ UNCHANGED <<conf, drv, seen, late, faults, res, fenced>>

Init ==
    /\ StoreInit /\ conf \in Configs
    /\ drv = [t \in Txns |-> Idle]
    /\ seen = [t \in Txns |-> [k \in Keys |-> Gone]]
    /\ late = {} /\ faults = 0 /\ fenced = {}
    /\ res = [s \in Slots |-> {}]

Drive(t) ==
    \/ Begin(t) \/ Recover(t) \/ PrepareKey(t) \/ DecideCommit(t) \/ PersistCommit(t)
    \/ Reread(t) \/ Verify(t) \/ FinalizeKey(t) \/ DecideAbort(t) \/ PersistAbort(t)
    \/ AbortReread(t) \/ DiscardKey(t)

Resolve(s) == ReadLatest(s) \/ Fence(s) \/ PersistFence(s) \/ Converge(s)

Next ==
    \/ \E t \in Txns : Drive(t) \/ Crash(t)
    \/ \E r \in late : Deliver(r) \/ Drop(r)
    \/ \E s \in Slots : ListIntent(s) \/ Resolve(s) \/ ReadStale(s) \/ Abandon(s) \/ Age(s)
    \/ \E k \in Keys : OtherClient(k)

Spec == Init /\ [][Next]_vars

-----------------------------------------------------------------------------
(* Properties. *)

\* Type invariant.
TypeOK ==
    /\ StoreTypeOK /\ conf \in Configs
    /\ drv \in [Txns -> [pc : Pc, i : Nat, prepared : SUBSET Keys, outcome : Outcome, redrives : 0..MaxRedrives]]
    /\ seen \in [Txns -> [Keys -> Object]]
    /\ late \subseteq Request /\ faults \in 0..MaxFaults
    /\ res \in [Slots -> SUBSET Task]
    /\ fenced \subseteq Id

WriteSet(t) == {Writes[t][i] : i \in DOMAIN Writes[t]}
Reserves(t, k) == \E i \in intent[k] : i.id = Data(t)

\* A durable Commit can always be carried out: each key it covers is still
\* reserved for it, or has its write, unless a tablet has stopped on a fault.
CommitCoversReservations ==
    \A t \in Txns : ~fault /\ obj[t].value = "Committed" =>
        \A k \in WriteSet(t) : applied[t][k] > 0 \/ Reserves(t, k)

\* Decision records are write-once (TxnState::transition_to; the resolver's local
\* reads rely on it): a decision is never replaced by another.
DecisionStable ==
    [][\A t \in Txns : obj[t].value \in Decision =>
          (obj'[t].value = "Committed") = (obj[t].value = "Committed") /\ obj'[t].value \in Decision]_vars

\* What the caller is told is what happened: a commit that is reported is applied
\* everywhere, and after a reported conflict or abort nothing ever is.
ReportIsTruth ==
    \A t \in Txns : drv[t].pc = "done" =>
        /\ drv[t].outcome = "committed" => \A k \in WriteSet(t) : applied[t][k] > 0
        /\ drv[t].outcome \in {"conflict", "aborted"} =>
              obj[t].value # "Committed" /\ \A k \in Keys : applied[t][k] = 0

\* Exact version evidence makes a guarded write serializable: it is applied to the
\* object its caller read.
GuardedWriteSeesRead ==
    [][\A t \in conf.guarded, k \in Keys :
          applied[t][k] = 0 /\ applied'[t][k] = 1 => obj[k] = seen[t][k]]_vars

\* Reservations do not outlive their transactions: once nobody begins any more,
\* every key is released.
ReservationsEnd == <>[](\A s \in Slots : intent[s] = {})

\* The steps of a healthy cluster.
Healthy ==
    \/ \E t \in Txns : Drive(t)
    \/ \E r \in late : Deliver(r)
    \/ \E s \in Slots : ListIntent(s) \/ Resolve(s) \/ Age(s)

\* Drivers run on unless they crash, time passes, a request in flight arrives, the
\* reconciler loop comes to every reservation, and from some time on its passes
\* succeed and read the leader's record.
Fairness ==
    /\ \A t \in Txns : WF_vars(Drive(t))
    /\ \A s \in Slots : WF_vars(Age(s)) /\ WF_vars(ListIntent(s) \/ Resolve(s))
    /\ WF_vars(\E r \in late : Deliver(r))
    /\ <>[][Healthy]_vars

FairSpec == Spec /\ Fairness
=============================================================================
