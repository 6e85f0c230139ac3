----------------------------- MODULE NodeProofs -----------------------------
(***************************************************************************)
(* The parts of one node, for any number of keys, sessions, requests,      *)
(* segments, tablets, records, voters and messages.  First what the        *)
(* promise of DurableStore gives a client; Durable is model-checked to     *)
(* implement that specification, so a client of the node has it too.  Then *)
(* log reclamation: what plan_reclaim (crates/kivi-checkpoint/src/         *)
(* reclaim.rs) may delete, and what the recovery floor it writes may skip. *)
(* Then the roster leases: what the durations and the handlers guarantee   *)
(* for every choice of parameters.  Last group commit (crates/kivi-engine/ *)
(* src/commit.rs): the outcomes and commit positions that prepare_into_open*)
(* predicts over a batch are the ones that applying it gives.              *)
(***************************************************************************)
EXTENDS Checkpoint, CommitPipeline, DurableStore, RosterEngine, FiniteSetTheorems,
        WellFoundedInduction, TLAPS


(* Every outcome a client was ever told agrees with the history of its key *)
(* as it is now.                                                           *)
AnswersTrue == \A a \in acked : Truthful(a)

(* Two answers to one request are the same answer, however many times it   *)
(* was sent.                                                               *)
AnswersAgree == \A a, b \in acked : a.req = b.req => a.out = b.out

(* Two requests are never told the same version of the same key. *)
VersionsDistinct ==
  \A a, b \in acked :
    (KeyOf[a.req] = KeyOf[b.req] /\ a.out = b.out /\ a.out # 0) => a.req = b.req

(* A conditional request that was told it created its key wrote the first  *)
(* version.                                                                *)
CreatesAreFirst == \A a \in acked : (a.req \in Conditional /\ a.out # 0) => a.out = 1

Inv ==
  /\ \A k \in Keys : History(k, store[k])
  /\ acked \subseteq Reply
  /\ AnswersTrue

(* A rejected conditional request stays rejected: no later history of the  *)
(* key contains it, because it could only be the first write.              *)
LEMMA TruthSurvivesCommit ==
  ASSUME Inv, Commit, NEW a \in acked
  PROVE  Truthful(a)'
<1> DEFINE k == KeyOf[a.req]
           h == store[k]
           g == store'[k]
<1>1. a \in Reply /\ Truthful(a)
  BY Zenon DEF Inv, AnswersTrue
<1>2. a.req \in Requests /\ a.out \in Nat /\ k \in Keys
  BY <1>1, RequestAssumption, Zenon DEF Reply
<1>3. History(k, h) /\ History(k, g) /\ Extends(h, g)
  BY <1>2, Zenon DEF Inv, Commit
<1>4. Len(h) \in Nat /\ Len(g) \in Nat /\ Len(h) <= Len(g)
  BY <1>3 DEF History, Extends
<1>5. CASE a.out = 0
  <2>1. a.req \in Conditional /\ h # <<>> /\ \A i \in 1..Len(h) : h[i] # a.req
    BY <1>1, <1>5, Zenon DEF Truthful
  <2>2. 1 \in 1..Len(h)
    BY <2>1, <1>3, <1>4 DEF History
  <2>3. 1 \in 1..Len(g) /\ g[1] # a.req
    BY <2>1, <2>2, <1>3, <1>4 DEF Extends
  <2>4. g # <<>>
    BY <2>3
  <2>5. ASSUME NEW i \in 1..Len(g) PROVE g[i] # a.req
    BY <2>1, <2>3, <1>3, Zenon DEF History
  <2>6. QED
    BY <1>5, <2>1, <2>4, <2>5, Zenon DEF Truthful
<1>6. CASE a.out # 0
  <2>1. a.out \in 1..Len(h) /\ h[a.out] = a.req
    BY <1>1, <1>6, Zenon DEF Truthful
  <2>2. a.out \in 1..Len(g) /\ g[a.out] = a.req
    BY <2>1, <1>2, <1>3, <1>4 DEF Extends
  <2>3. QED
    BY <1>6, <2>2, Zenon DEF Truthful
<1>7. QED
  BY <1>5, <1>6, Zenon

LEMMA InitInv == Init => Inv
<1> SUFFICES ASSUME Init PROVE Inv
  BY Zenon
<1>1. ASSUME NEW k \in Keys PROVE History(k, store[k])
  <2>1. store[k] = <<>>
    BY Zenon DEF Init
  <2>2. QED
    BY <2>1 DEF History
<1>2. QED
  BY <1>1, Zenon DEF Init, Inv, AnswersTrue

LEMMA NextInv == Inv /\ [Next]_vars => Inv'
<1> SUFFICES ASSUME Inv, [Next]_vars PROVE Inv'
  BY Zenon
<1>1. CASE Answer
  <2>1. \A k \in Keys : History(k, store[k])'
    BY <1>1 DEF Answer, Inv, History
  <2>2. (acked \subseteq Reply)'
    BY <1>1, Zenon DEF Answer, Inv, Reply
  <2>3. ASSUME NEW a \in acked' PROVE Truthful(a)'
    BY <1>1, Zenon DEF Answer, Inv, AnswersTrue, Truthful
  <2>4. QED
    BY <2>1, <2>2, <2>3, Zenon DEF Inv, AnswersTrue
<1>2. CASE Commit
  <2>1. \A k \in Keys : History(k, store[k])'
    BY <1>2, Zenon DEF Commit, History
  <2>2. (acked \subseteq Reply)'
    BY <1>2, Zenon DEF Commit, Inv, Reply
  <2>3. ASSUME NEW a \in acked' PROVE Truthful(a)'
    BY <1>2, TruthSurvivesCommit, Zenon DEF Commit
  <2>4. QED
    BY <2>1, <2>2, <2>3, Zenon DEF Inv, AnswersTrue
<1>3. CASE UNCHANGED vars
  BY <1>3 DEF vars, Inv, AnswersTrue, Truthful, History, Reply
<1>4. QED
  BY <1>1, <1>2, <1>3, Zenon DEF Next

(* Nothing acknowledged is ever lost or contradicted: the head of          *)
(* commit.rs, "durability-before-acknowledgement".                         *)
THEOREM NothingIsForgotten == Spec => []AnswersTrue
<1>1. Inv => AnswersTrue
  BY Zenon DEF Inv
<1>2. QED
  BY <1>1, InitInv, NextInv, PTL DEF Spec

(* What Inv says of the answers to a client. *)
LEMMA InvAnswers == Inv => AnswersAgree /\ VersionsDistinct /\ CreatesAreFirst
<1> SUFFICES ASSUME Inv PROVE AnswersAgree /\ VersionsDistinct /\ CreatesAreFirst
  BY Zenon
<1>0. ASSUME NEW a \in acked
      PROVE /\ a.req \in Requests /\ a.out \in Nat /\ KeyOf[a.req] \in Keys
            /\ Truthful(a) /\ History(KeyOf[a.req], store[KeyOf[a.req]])
  BY RequestAssumption, Zenon DEF Inv, AnswersTrue, Reply
<1>1. ASSUME NEW a \in acked, NEW b \in acked, a.req = b.req PROVE a.out = b.out
  BY <1>0, <1>1 DEF Truthful, History
<1>2. ASSUME NEW a \in acked, NEW b \in acked,
             KeyOf[a.req] = KeyOf[b.req], a.out = b.out, a.out # 0
      PROVE  a.req = b.req
  BY <1>0, <1>2, Zenon DEF Truthful
<1>3. ASSUME NEW a \in acked, a.req \in Conditional, a.out # 0 PROVE a.out = 1
  BY <1>0, <1>3, Zenon DEF Truthful, History
<1>4. QED
  BY <1>1, <1>2, <1>3, Zenon DEF AnswersAgree, VersionsDistinct, CreatesAreFirst

(* A retried request executes once: all its answers are the same, no other *)
(* request shares its version, and a request that creates a key wrote its  *)
(* first version (tablet.rs, "never execute again").                       *)
THEOREM RetriesAreHarmless == Spec => [](AnswersAgree /\ VersionsDistinct /\ CreatesAreFirst)
BY InitInv, NextInv, InvAnswers, PTL DEF Spec

-----------------------------------------------------------------------------
(* Reclamation. *)

(* The least of a nonempty set of numbers. *)
LEMMA MinNat ==
  ASSUME NEW S, S \subseteq Nat, S # {}
  PROVE  Min(S) \in S /\ \A y \in S : Min(S) <= y
<1> DEFINE R == OpToRel(<, Nat)
<1>1. PICK x \in S : \A y \in S : <<y, x>> \notin R
  BY NatLessThanWellFounded, WFMin, Zenon
<1>2. \A y \in S : ~(y < x)
  BY <1>1, Zenon DEF OpToRel
<1>3. \A y \in S : x <= y
  BY <1>2
<1>4. QED
  BY <1>3, Zenon DEF Min

(* The segments at which a plan stops. *)
Stops(sealed, active, floors) ==
  {n \in DOMAIN sealed : n = active.segment \/ ~SegmentCovered(sealed[n], floors)}

(* A plan that never stops reclaims every listed segment. *)
LEMMA PlanWithoutStop ==
  ASSUME NEW sealed, NEW active, NEW floors,
         NEW plan, plan = PlanReclaim(sealed, active, floors),
         Stops(sealed, active, floors) = {}
  PROVE  /\ plan.obsolete = DOMAIN sealed
         /\ plan.floor.segment = Max({active.segment, 1})
BY Zenon DEF PlanReclaim, Stops

(* A plan reclaims the segments below its first stop. *)
LEMMA PlanWithStop ==
  ASSUME NEW sealed, NEW active, NEW floors, DOMAIN sealed \subseteq Nat,
         NEW plan, plan = PlanReclaim(sealed, active, floors),
         Stops(sealed, active, floors) # {}
  PROVE  /\ plan.floor.segment \in Stops(sealed, active, floors)
         /\ \A n \in Stops(sealed, active, floors) : plan.floor.segment <= n
         /\ \A n : n \in plan.obsolete <=> n \in DOMAIN sealed /\ n < plan.floor.segment
<1> DEFINE stops == Stops(sealed, active, floors)
<1>1. stops \subseteq Nat
  BY Zenon DEF Stops
<1>2. Min(stops) \in stops /\ \A y \in stops : Min(stops) <= y
  BY <1>1, MinNat, Zenon
<1>3. QED
  BY <1>2, Zenon DEF PlanReclaim, Stops

(* Nothing is deleted that a checkpoint does not hold: every record of a   *)
(* segment that plan_reclaim calls obsolete is at or below the floor of    *)
(* its tablet.                                                             *)
THEOREM ObsoleteIsCovered ==
  ASSUME NEW sealed, NEW active, NEW floors, DOMAIN sealed \subseteq Nat,
         NEW n \in PlanReclaim(sealed, active, floors).obsolete
  PROVE  n \in DOMAIN sealed /\ SegmentCovered(sealed[n], floors)
<1> DEFINE plan == PlanReclaim(sealed, active, floors)
<1>0. n \in plan.obsolete /\ plan = PlanReclaim(sealed, active, floors)
  BY Zenon
<1> HIDE DEF plan
<1>1. CASE Stops(sealed, active, floors) = {}
  <2>1. plan.obsolete = DOMAIN sealed /\ plan.floor.segment = Max({active.segment, 1})
    BY <1>0, <1>1, PlanWithoutStop
  <2>2. QED
    BY <1>0, <1>1, <2>1, Zenon DEF Stops
<1>2. CASE Stops(sealed, active, floors) # {}
  <2>1. /\ plan.floor.segment \in Stops(sealed, active, floors)
        /\ \A m \in Stops(sealed, active, floors) : plan.floor.segment <= m
        /\ n \in DOMAIN sealed /\ n < plan.floor.segment
    BY <1>0, <1>2, PlanWithStop, Zenon
  <2>2. plan.floor.segment \in Nat /\ n \in Nat
    BY <1>0, <2>1, Zenon DEF Stops
  <2>3. n \notin Stops(sealed, active, floors)
    BY <2>1, <2>2
  <2>4. QED
    BY <1>0, <2>1, <2>3, Zenon DEF Stops
<1>3. QED
  BY <1>1, <1>2, Zenon

(* The floor skips nothing that is still needed, provided the lane did not *)
(* rotate between the floor snapshot and the listing (reclaim_wal takes    *)
(* them in two steps): every segment below the floor was listed and is     *)
(* covered, so that a recovery from the floor reads every record past the  *)
(* cuts.  The premise that no segment lies above the snapshot's is what    *)
(* the reclaim race breaks.                                                *)
THEOREM FloorSkipsOnlyCovered ==
  ASSUME NEW present, present \subseteq Nat,
         NEW sealed, NEW active, NEW floors,
         active.segment \in Nat \ {0},
         DOMAIN sealed = present \ {active.segment},
         \A n \in present : n <= active.segment,
         NEW n \in present, n < PlanReclaim(sealed, active, floors).floor.segment
  PROVE  n \in DOMAIN sealed /\ SegmentCovered(sealed[n], floors)
<1> DEFINE plan == PlanReclaim(sealed, active, floors)
<1>0. /\ plan = PlanReclaim(sealed, active, floors)
      /\ n < plan.floor.segment /\ DOMAIN sealed \subseteq Nat
  BY Zenon
<1> HIDE DEF plan
<1>1. CASE Stops(sealed, active, floors) = {}
  <2>1. Max({active.segment, 1}) = active.segment
    <3>1. ASSUME NEW x \in {active.segment, 1}, \A y \in {active.segment, 1} : x >= y
          PROVE  x = active.segment
      BY <3>1
    <3>2. \A y \in {active.segment, 1} : active.segment >= y
      OBVIOUS
    <3>3. QED
      BY <3>1, <3>2, Zenon DEF Max
  <2>2. plan.obsolete = DOMAIN sealed /\ plan.floor.segment = Max({active.segment, 1})
    BY <1>0, <1>1, Zenon DEF PlanReclaim, Stops
  <2>3. n # active.segment
    BY <1>0, <2>1, <2>2
  <2>4. n \in plan.obsolete
    BY <2>2, <2>3, Zenon
  <2>5. QED
    BY <1>0, <2>4, ObsoleteIsCovered, Zenon
<1>2. CASE Stops(sealed, active, floors) # {}
  <2>1. /\ plan.floor.segment \in Stops(sealed, active, floors)
        /\ \A m : m \in plan.obsolete <=> m \in DOMAIN sealed /\ m < plan.floor.segment
    BY <1>0, <1>2, PlanWithStop, Zenon
  <2>2. plan.floor.segment \in present
    BY <1>0, <2>1, Zenon DEF Stops
  <2>3. n # active.segment
    BY <1>0, <2>2
  <2>4. n \in plan.obsolete
    BY <1>0, <2>1, <2>3, Zenon
  <2>5. QED
    BY <1>0, <2>4, ObsoleteIsCovered, Zenon
<1>3. QED
  BY <1>1, <1>2, Zenon

(* A recovery from a checkpoint at or above the floors misses nothing: it  *)
(* would not replay any record of a segment that was deleted.              *)
THEOREM DeletedIsNeverReplayed ==
  ASSUME NEW sealed, NEW active, NEW floors, DOMAIN sealed \subseteq Nat,
         NEW n \in PlanReclaim(sealed, active, floors).obsolete,
         NEW r \in sealed[n].recs, r.commit \in Nat,
         NEW cut \in Nat,
         \A f \in floors[r.tablet] : f \in Nat /\ f <= cut
  PROVE  ~(r.commit > cut)
<1>1. SegmentCovered(sealed[n], floors)
  BY ObsoleteIsCovered, Zenon
<1>2. PICK f \in floors[r.tablet] : r.commit <= f
  BY <1>1, Zenon DEF SegmentCovered
<1>3. QED
  BY <1>2

-----------------------------------------------------------------------------
(* Roster leases. *)

(* Rounding up: the ceiling of a quotient, times the divisor. *)
LEMMA CeilingCovers ==
  ASSUME NEW a \in Nat, NEW q \in Nat, q > 0
  PROVE  /\ (a + (q - 1)) \div q \in Nat
         /\ ((a + (q - 1)) \div q) * q >= a
<1> DEFINE n == a + (q - 1)
<1>1. n \in Nat
  OBVIOUS
<1>2. n \div q \in Nat /\ n = (q * (n \div q)) + (n % q) /\ (n % q) \in 0..(q - 1)
  BY <1>1, SMT
<1> HIDE DEF n
<1>3. (n \div q) * q = n - (n % q)
  BY <1>1, <1>2, SMT
<1>4. (n \div q) * q >= n - (q - 1)
  BY <1>1, <1>2, <1>3, SMT
<1>5. n - (q - 1) = a
  BY DEF n
<1> QED
  BY <1>2, <1>4, <1>5, Zenon DEF n

(* A drift that validate accepts is below one. *)
LEMMA DriftBelowOne ==
  MaxDrift \in Nat /\ DriftDenominator \in Nat /\ MaxDrift < DriftDenominator
<1>1. MaxDrift \in 0..TrustedDrift
  BY ParamsValid DEF Validate
<1>2. TrustedDrift \in Nat
  BY DEF TrustedDrift
<1>3. TrustedDrift > 0
  BY DEF TrustedDrift
<1> QED
  BY <1>1, <1>2, <1>3 DEF DriftDenominator

(* What allowance returns is large enough for the drift it is for. *)
LEMMA AllowanceCovers ==
  ASSUME NEW d \in Nat
  PROVE  /\ Allowance(d) \in Nat
         /\ Allowance(d) * (DriftDenominator - MaxDrift) >= d * MaxDrift
<1> DEFINE q == DriftDenominator - MaxDrift
<1>1. MaxDrift \in Nat /\ q \in Nat /\ q > 0
  BY DriftBelowOne
<1>2. d * MaxDrift \in Nat
  BY <1>1
<1> HIDE DEF q
<1>3. /\ (d * MaxDrift + (q - 1)) \div q \in Nat
      /\ ((d * MaxDrift + (q - 1)) \div q) * q >= d * MaxDrift
  BY <1>1, <1>2, CeilingCovers, Zenon
<1> QED
  BY <1>3, Zenon DEF Allowance, q

(* Containment of a hold in an exclusion, of any nominal duration.  A span *)
(* counted on a clock that runs slow by MaxDrift parts of DriftDenominator *)
(* takes span / (1 - drift) of real time, on one that runs fast            *)
(* span / (1 + drift); cross-multiplied, a grantee's duration minus        *)
(* allowance on a slow clock ends no later than the grantor's duration     *)
(* plus allowance on a fast clock.  This is what allowance and expand      *)
(* promise.                                                                *)
THEOREM HoldInsideExclusion ==
  ASSUME NEW d \in Nat
  PROVE  Shrink(d) * (DriftDenominator + MaxDrift) <= Expand(d) * (DriftDenominator - MaxDrift)
<1> DEFINE A == Allowance(d)
           D == DriftDenominator
           p == MaxDrift
<1>1. p \in Nat /\ D \in Nat /\ p < D
  BY DriftBelowOne, Zenon
<1>2. A \in Nat /\ A * (D - p) >= d * p
  BY AllowanceCovers, Zenon
<1>3. Shrink(d) = d - A /\ Expand(d) = d + A
  BY Zenon DEF Shrink, Expand
<1> HIDE DEF A, D, p
<1>4. A * D >= A * (D - p)
  BY <1>1, <1>2, SMT
<1>5. (d + A) * (D - p) - (d - A) * (D + p) = 2 * (A * D) - 2 * (d * p)
  BY <1>1, <1>2, SMT
<1>6. A * D >= d * p
  BY <1>1, <1>2, <1>4, SMT
<1>7. (d - A) * (D + p) <= (d + A) * (D - p)
  BY <1>1, <1>2, <1>5, <1>6, SMT
<1> QED
  BY <1>3, <1>7, Zenon DEF D, p

(* The restart fence: a lease hold that began, on a slow clock, a whole    *)
(* guard window of that clock after the grantor died still ends within the *)
(* quarantine that the grantor's successor counts on a fast one.           *)
THEOREM QuarantineCoversForgottenGrants ==
  (Shrink(GuardDuration) + Shrink(LeaseDuration)) * (DriftDenominator + MaxDrift)
    <= Quarantine * (DriftDenominator - MaxDrift)
<1> DEFINE f == DriftDenominator + MaxDrift
           s == DriftDenominator - MaxDrift
<1>1. f \in Int /\ s \in Int
  BY DriftBelowOne
<1>2. \A d \in Nat : Shrink(d) \in Int /\ Expand(d) \in Int
  BY AllowanceCovers DEF Shrink, Expand
<1>3. GuardDuration \in Nat /\ LeaseDuration \in Nat
  BY ParamsValid, Zenon DEF Validate
<1>4. /\ Shrink(GuardDuration) * f <= Expand(GuardDuration) * s
      /\ Shrink(LeaseDuration) * f <= Expand(LeaseDuration) * s
  BY <1>3, HoldInsideExclusion, Zenon
<1> HIDE DEF f, s
<1>5. /\ Shrink(GuardDuration) \in Int /\ Expand(GuardDuration) \in Int
      /\ Shrink(LeaseDuration) \in Int /\ Expand(LeaseDuration) \in Int
  BY <1>2, <1>3, Zenon
<1>6. (Shrink(GuardDuration) + Shrink(LeaseDuration)) * f
        = Shrink(GuardDuration) * f + Shrink(LeaseDuration) * f
  BY <1>1, <1>5, SMT
<1>7. (Expand(LeaseDuration) + Expand(GuardDuration)) * s
        = Expand(LeaseDuration) * s + Expand(GuardDuration) * s
  BY <1>1, <1>5, SMT
<1>8. (Shrink(GuardDuration) + Shrink(LeaseDuration)) * f
        <= (Expand(LeaseDuration) + Expand(GuardDuration)) * s
  BY <1>1, <1>4, <1>5, <1>6, <1>7, SMT
<1> QED
  BY <1>8, Zenon DEF Quarantine, f, s

-----------------------------------------------------------------------------
(* Coverage: what may end an exclusion *)

(* What the lemmas need of an engine: the shape of the leases it grants.   *)
Grantor(e) ==
  /\ "grantor" \in DOMAIN e
  /\ e.grantor \in [DOMAIN e.grantor -> GrantorLeases]
  /\ DOMAIN e.grantor \subseteq Nodes

(* Every engine of the right type is one. *)
LEMMA EngineIsGrantor ==
  ASSUME NEW terms, NEW e, IsEngine(e, terms)
  PROVE  Grantor(e)
  BY Zenon DEF IsEngine, Grantor

(* open_guard leaves a lease alone that excludes. *)
LEMMA OpenGuardKeepsCoverage ==
  ASSUME NEW e, Grantor(e), NEW p \in Nodes, NEW roster, NEW accepted
  PROVE  CoveredGrantees(e) \subseteq CoveredGrantees(OpenGuard(e, p, roster, accepted).engine)
<1> DEFINE r == OpenGuard(e, p, roster, accepted)
           held == p \in DOMAIN e.grantor
<1>1. CASE held /\ e.grantor[p].phase \in {"Renewing", "Revoking"}
  <2>1. r.engine = e
    BY <1>1, Zenon DEF OpenGuard, Result
  <2> QED
    BY <2>1, Zenon
<1>2. CASE ~(held /\ e.grantor[p].phase \in {"Renewing", "Revoking"})
  <2>1. \E lease : r.engine = [e EXCEPT !.grantor = With(@, p, lease)]
    BY <1>2, Zenon DEF OpenGuard, Result
  <2>2. PICK lease : r.engine = [e EXCEPT !.grantor = With(@, p, lease)]
    BY <2>1, Zenon
  <2>3. r.engine.grantor = With(e.grantor, p, lease)
    BY <2>2, Zenon DEF Grantor
  <2> QED
    BY <1>2, <2>3, Zenon DEF CoveredGrantees, With
<1> QED
  BY <1>1, <1>2, Zenon

(* grant_for *)
LEMMA GrantForKeepsCoverage ==
  ASSUME NEW e, Grantor(e), NEW roster, NEW accepted
  PROVE  CoveredGrantees(e) \subseteq CoveredGrantees(GrantFor(e, roster, accepted).engine)
<1> DEFINE Current(p) == /\ p \in DOMAIN e.grantor
                         /\ e.grantor[p].term = roster.term
                         /\ e.grantor[p].phase \in {"Guarding", "Renewing", "Revoking"}
           peers == {p \in Nodes : ~Current(p)}
           one == [p \in peers |-> OpenGuard(e, p, roster, accepted)]
           kept == (DOMAIN e.grantor \ peers) \cup {p \in peers : p \in DOMAIN one[p].engine.grantor}
           g == [p \in kept |-> IF p \in peers THEN one[p].engine.grantor[p] ELSE e.grantor[p]]
<1>1. CASE Quarantined(e)
  BY <1>1, Zenon DEF GrantFor, Result
<1>2. CASE ~Quarantined(e)
  <2>1. GrantFor(e, roster, accepted).engine = [e EXCEPT !.grantor = g]
    BY <1>2, Zenon DEF GrantFor, ForPeers, Result
  <2>2. GrantFor(e, roster, accepted).engine.grantor = g
    BY <2>1, Zenon DEF Grantor
  <2>3. ASSUME NEW p \in CoveredGrantees(e)
        PROVE  p \in kept /\ g[p].phase \in {"Renewing", "Revoking"} /\ g[p].exclusion > 0
    <3>1. CASE p \in peers
      BY <2>3, <3>1, OpenGuardKeepsCoverage, Zenon DEF CoveredGrantees
    <3>2. CASE p \notin peers
      BY <2>3, <3>2, Zenon DEF CoveredGrantees
    <3> QED
      BY <3>1, <3>2, Zenon
  <2> HIDE DEF g, kept
  <2>4. DOMAIN g = kept
    BY Zenon DEF g
  <2> QED
    BY <2>2, <2>3, <2>4, Zenon DEF CoveredGrantees
<1> QED
  BY <1>1, <1>2, Zenon

(* announce *)
LEMMA AnnounceKeepsCoverage ==
  ASSUME NEW e, Grantor(e), NEW accepted
  PROVE  CoveredGrantees(e) \subseteq CoveredGrantees(Announce(e, accepted).engine)
<1> DEFINE roster == [term |-> e.term, leader |-> e.local]
           e1 == [e EXCEPT !.accepted = Max({@, accepted}), !.known = @ \cup {roster}]
           one == [p \in Nodes |-> OpenGuard(e1, p, roster, accepted)]
           kept == (DOMAIN e1.grantor \ Nodes) \cup {p \in Nodes : p \in DOMAIN one[p].engine.grantor}
           g == [p \in kept |-> IF p \in Nodes THEN one[p].engine.grantor[p] ELSE e1.grantor[p]]
<1>1. Grantor(e1) /\ e1.grantor = e.grantor
  BY Zenon DEF Grantor
<1>2. Announce(e, accepted).engine = [e1 EXCEPT !.grantor = g]
  BY Zenon DEF Announce, ForPeers, Result
<1> HIDE DEF e1
<1>3. Announce(e, accepted).engine.grantor = g
  BY <1>1, <1>2, Zenon DEF Grantor
<1>4. CoveredGrantees(e) = CoveredGrantees(e1) /\ CoveredGrantees(e) \subseteq Nodes
  BY <1>1, Zenon DEF CoveredGrantees, Grantor
<1>5. ASSUME NEW p \in CoveredGrantees(e)
      PROVE  p \in kept /\ g[p].phase \in {"Renewing", "Revoking"} /\ g[p].exclusion > 0
  <2>1. p \in Nodes /\ p \in CoveredGrantees(e1)
    BY <1>4, Zenon
  <2>2. p \in CoveredGrantees(one[p].engine)
    BY <1>1, <2>1, OpenGuardKeepsCoverage, Zenon
  <2> QED
    BY <2>1, <2>2, Zenon DEF CoveredGrantees
<1> HIDE DEF g, kept
<1>6. DOMAIN g = kept
  BY Zenon DEF g
<1> QED
  BY <1>3, <1>5, <1>6, Zenon DEF CoveredGrantees

(* revoke_peer and revoke_stale_grants: a lease that is revoked excludes   *)
(* for a whole lease more.                                                 *)
LEMMA RevokedExcludes ==
  ASSUME NEW lease \in GrantorLeases
  PROVE  Revoked(lease).phase = "Revoking" /\ Revoked(lease).exclusion > 0
<1>1. Expand(LeaseDuration) > 0
  BY ParamsValid, AllowanceCovers DEF Validate, Expand
<1> QED
  BY <1>1, Zenon DEF Revoked, GrantorLeases

(* revoke_peer *)
LEMMA RevokePeerKeepsCoverage ==
  ASSUME NEW e, Grantor(e), NEW p
  PROVE  CoveredGrantees(e) \subseteq CoveredGrantees(RevokePeer(e, p).engine)
<1>1. CASE p \notin DOMAIN e.grantor \/ e.grantor[p].phase # "Renewing"
  BY <1>1, Zenon DEF RevokePeer, Result
<1>2. CASE p \in DOMAIN e.grantor /\ e.grantor[p].phase = "Renewing"
  <2>1. RevokePeer(e, p).engine.grantor = [e.grantor EXCEPT ![p] = Revoked(e.grantor[p])]
    BY <1>2, Zenon DEF RevokePeer, Result, Grantor
  <2>2. Revoked(e.grantor[p]).phase = "Revoking" /\ Revoked(e.grantor[p]).exclusion > 0
    BY <1>2, RevokedExcludes, Zenon DEF Grantor
  <2> QED
    BY <2>1, <2>2, Zenon DEF CoveredGrantees, Grantor
<1> QED
  BY <1>1, <1>2, Zenon

(* reconcile *)
LEMMA ReconcileKeepsCoverage ==
  ASSUME NEW e, Grantor(e), NEW term
  PROVE  CoveredGrantees(e) \subseteq CoveredGrantees(Reconcile(e, term).engine)
<1> DEFINE Stale(f, p) ==
             LET lease == f.grantor[p] IN
             IF lease.term >= term THEN Result(f, NoMessages)
             ELSE IF lease.phase = "Guarding"
             THEN Result([f EXCEPT !.grantor[p].phase = "Idle"], NoMessages)
             ELSE IF lease.phase = "Renewing"
             THEN Result([f EXCEPT !.grantor[p] = Revoked(lease)],
                         To(p, Message("Revoke", Revoked(lease))))
             ELSE Result(f, NoMessages)
           peers == DOMAIN e.grantor
           one == [p \in peers |-> Stale(e, p)]
           kept == (DOMAIN e.grantor \ peers) \cup {p \in peers : p \in DOMAIN one[p].engine.grantor}
           g == [p \in kept |-> IF p \in peers THEN one[p].engine.grantor[p] ELSE e.grantor[p]]
<1>1. CASE term = e.term
  BY <1>1, Zenon DEF Reconcile, Result
<1>2. CASE term # e.term
  <2>1. Reconcile(e, term).engine = [[e EXCEPT !.grantor = g] EXCEPT !.term = term]
    BY <1>2, Zenon DEF Reconcile, ForPeers, Result
  <2>2. Reconcile(e, term).engine.grantor = g
    <3> HIDE DEF g
    <3> QED
      BY <2>1, Zenon DEF Grantor
  <2>3. ASSUME NEW p \in CoveredGrantees(e)
        PROVE  p \in kept /\ g[p].phase \in {"Renewing", "Revoking"} /\ g[p].exclusion > 0
    <3>1. p \in peers /\ one[p] = Stale(e, p) /\ e.grantor[p] \in GrantorLeases
      BY <2>3, Zenon DEF CoveredGrantees, Grantor
    <3>2. /\ p \in DOMAIN Stale(e, p).engine.grantor
          /\ \/ Stale(e, p).engine.grantor[p] = e.grantor[p]
             \/ Stale(e, p).engine.grantor[p] = Revoked(e.grantor[p])
      BY <2>3, <3>1, Zenon DEF CoveredGrantees, Grantor, Result
    <3>3. p \in CoveredGrantees(Stale(e, p).engine)
      BY <2>3, <3>1, <3>2, RevokedExcludes, Zenon DEF CoveredGrantees
    <3> HIDE DEF Stale
    <3> QED
      BY <3>1, <3>2, <3>3, Zenon DEF CoveredGrantees
  <2> HIDE DEF g, kept
  <2>4. DOMAIN g = kept
    BY Zenon DEF g
  <2> QED
    BY <2>2, <2>3, <2>4, Zenon DEF CoveredGrantees
<1> QED
  BY <1>1, <1>2, Zenon

(* tick, for one lease *)
LEMMA TickGrantorKeepsCoverage ==
  ASSUME NEW e, Grantor(e), NEW p \in CoveredGrantees(e)
  PROVE  p \in CoveredGrantees(TickGrantor(e, p).engine)
<1> DEFINE lease == e.grantor[p]
           renewed == [lease EXCEPT !.seq = @ + 1, !.unacked = @ + 1, !.due = RenewInterval,
                                    !.exclusion = Expand(LeaseDuration)]
<1>1. /\ p \in DOMAIN e.grantor /\ lease \in GrantorLeases
      /\ lease.phase \in {"Renewing", "Revoking"} /\ lease.exclusion > 0
  BY Zenon DEF CoveredGrantees, Grantor
<1>2. Expand(LeaseDuration) > 0
  BY ParamsValid, AllowanceCovers DEF Validate, Expand
<1>3. renewed.phase = lease.phase /\ renewed.exclusion > 0
  BY <1>1, <1>2, Zenon DEF GrantorLeases
<1>4. \/ TickGrantor(e, p).engine = e
      \/ TickGrantor(e, p).engine = [e EXCEPT !.grantor[p] = renewed]
  <2>1. lease.exclusion # 0
    BY <1>1 DEF GrantorLeases
  <2>2. CASE lease.phase = "Renewing"
    BY <2>1, <2>2, Zenon DEF TickGrantor, Result
  <2>3. CASE lease.phase = "Revoking"
    BY <2>1, <2>3, Zenon DEF TickGrantor, Result
  <2> QED
    BY <1>1, <2>2, <2>3, Zenon
<1> HIDE DEF renewed
<1>5. CASE TickGrantor(e, p).engine = [e EXCEPT !.grantor[p] = renewed]
  <2>1. TickGrantor(e, p).engine.grantor = [e.grantor EXCEPT ![p] = renewed]
    BY <1>5, Zenon DEF Grantor
  <2> QED
    BY <1>1, <1>3, <2>1, Zenon DEF CoveredGrantees
<1> QED
  BY <1>4, <1>5, Zenon

(* tick *)
LEMMA EngineTickKeepsCoverage ==
  ASSUME NEW e, Grantor(e), NEW accepted, NEW committed
  PROVE  CoveredGrantees(e) \subseteq CoveredGrantees(EngineTick(e, accepted, committed).engine)
<1> DEFINE e1 == [e EXCEPT !.accepted = Max({@, accepted}), !.committed = Max({@, committed})]
           peers == DOMAIN e1.grantor
           one == [p \in peers |-> TickGrantor(e1, p)]
           kept == (DOMAIN e1.grantor \ peers) \cup {p \in peers : p \in DOMAIN one[p].engine.grantor}
           g == [p \in kept |-> IF p \in peers THEN one[p].engine.grantor[p] ELSE e1.grantor[p]]
<1>1. Grantor(e1) /\ e1.grantor = e.grantor
  BY Zenon DEF Grantor
<1>2. \E h : EngineTick(e, accepted, committed).engine
               = [[e1 EXCEPT !.grantor = g] EXCEPT !.grantee = h]
  BY Zenon DEF EngineTick, ForPeers, Result
<1> HIDE DEF e1
<1>3. EngineTick(e, accepted, committed).engine.grantor = g
  <2> HIDE DEF g
  <2> QED
    BY <1>1, <1>2, Zenon DEF Grantor
<1>4. ASSUME NEW p \in CoveredGrantees(e)
      PROVE  p \in kept /\ g[p].phase \in {"Renewing", "Revoking"} /\ g[p].exclusion > 0
  <2>1. p \in peers /\ p \in CoveredGrantees(e1)
    BY <1>1, Zenon DEF CoveredGrantees
  <2>2. p \in CoveredGrantees(one[p].engine)
    BY <1>1, <2>1, TickGrantorKeepsCoverage, Zenon
  <2> QED
    BY <2>1, <2>2, Zenon DEF CoveredGrantees
<1> HIDE DEF g, kept
<1>5. DOMAIN g = kept
  BY Zenon DEF g
<1> QED
  BY <1>3, <1>4, <1>5, Zenon DEF CoveredGrantees

(* on_guard: the grantee's side of it grants no less than before. *)
LEMMA OnGuardKeepsCoverage ==
  ASSUME NEW e, Grantor(e), NEW from, NEW m
  PROVE  CoveredGrantees(e) \subseteq CoveredGrantees(OnGuard(e, from, m).engine)
<1>1. \/ OnGuard(e, from, m).engine = e
      \/ \E h, k : LET e1 == [e EXCEPT !.grantee = h, !.known = k]
                   IN  OnGuard(e, from, m).engine = GrantFor(e1, m.roster, e1.accepted).engine
  BY Zenon DEF OnGuard, AndThen, Result
<1>2. ASSUME NEW h, NEW k, NEW e1, e1 = [e EXCEPT !.grantee = h, !.known = k]
      PROVE  CoveredGrantees(e) \subseteq CoveredGrantees(GrantFor(e1, m.roster, e1.accepted).engine)
  <2>1. Grantor(e1) /\ e1.grantor = e.grantor
    BY <1>2, Zenon DEF Grantor
  <2>2. CoveredGrantees(e1) = CoveredGrantees(e)
    BY <2>1, Zenon DEF CoveredGrantees
  <2> QED
    BY <2>1, <2>2, GrantForKeepsCoverage, Zenon
<1> QED
  BY <1>1, <1>2, Zenon

(* on_guard_reply: the first renewal opens an exclusion and closes none. *)
LEMMA OnGuardReplyKeepsCoverage ==
  ASSUME NEW e, Grantor(e), NEW from, NEW m
  PROVE  CoveredGrantees(e) \subseteq CoveredGrantees(OnGuardReply(e, from, m).engine)
<1>1. CASE OnGuardReply(e, from, m).engine = e
  BY <1>1, Zenon
<1>2. CASE OnGuardReply(e, from, m).engine # e
  <2>1. from \in DOMAIN e.grantor /\ e.grantor[from].phase = "Guarding"
    BY <1>2, Zenon DEF OnGuardReply, Result
  <2>2. \E live : OnGuardReply(e, from, m).engine = [e EXCEPT !.grantor[from] = live]
    BY <1>2, Zenon DEF OnGuardReply, Result
  <2>3. PICK live : OnGuardReply(e, from, m).engine = [e EXCEPT !.grantor[from] = live]
    BY <2>2, Zenon
  <2>4. OnGuardReply(e, from, m).engine.grantor = [e.grantor EXCEPT ![from] = live]
    BY <2>3, Zenon DEF Grantor
  <2> QED
    BY <2>1, <2>4, Zenon DEF CoveredGrantees
<1> QED
  BY <1>1, <1>2, Zenon

(* on_renew_reply touches only the count of renewals without an answer. *)
LEMMA OnRenewReplyKeepsCoverage ==
  ASSUME NEW e, Grantor(e), NEW from, NEW m
  PROVE  CoveredGrantees(e) \subseteq CoveredGrantees(OnRenewReply(e, from, m).engine)
<1>1. \/ OnRenewReply(e, from, m).engine = e
      \/ /\ from \in DOMAIN e.grantor
         /\ OnRenewReply(e, from, m).engine = [e EXCEPT !.grantor[from].unacked = 0]
  BY Zenon DEF OnRenewReply, Result
<1>2. CASE /\ from \in DOMAIN e.grantor
           /\ OnRenewReply(e, from, m).engine = [e EXCEPT !.grantor[from].unacked = 0]
  <2>1. OnRenewReply(e, from, m).engine.grantor
          = [e.grantor EXCEPT ![from] = [e.grantor[from] EXCEPT !.unacked = 0]]
    BY <1>2, Zenon DEF Grantor
  <2>2. e.grantor[from] \in GrantorLeases
    BY <1>2, Zenon DEF Grantor
  <2> QED
    BY <2>1, <2>2 DEF CoveredGrantees, GrantorLeases
<1> QED
  BY <1>1, <1>2, Zenon

(* on_renew and on_revoke change leases held, not leases granted. *)
LEMMA GranteeHandlersKeepCoverage ==
  ASSUME NEW e, Grantor(e), NEW from, NEW m
  PROVE  /\ CoveredGrantees(e) \subseteq CoveredGrantees(OnRenew(e, from, m).engine)
         /\ CoveredGrantees(e) \subseteq CoveredGrantees(OnRevoke(e, from, m).engine)
<1>1. ASSUME NEW h PROVE CoveredGrantees([e EXCEPT !.grantee = h]) = CoveredGrantees(e)
  BY Zenon DEF CoveredGrantees, Grantor
<1>2. \/ OnRenew(e, from, m).engine = e
      \/ \E h : OnRenew(e, from, m).engine = [e EXCEPT !.grantee = h]
  BY Zenon DEF OnRenew, Result
<1>3. \/ OnRevoke(e, from, m).engine = e
      \/ \E h : OnRevoke(e, from, m).engine = [e EXCEPT !.grantee = h]
  BY Zenon DEF OnRevoke, Result
<1> QED
  BY <1>1, <1>2, <1>3, Zenon

(* on_revoke_reply ends at most the exclusion of the node that sent it,    *)
(* and only one that is being revoked, by the Revoke it answers.           *)
LEMMA OnRevokeReplyEndsRevoked ==
  ASSUME NEW e, Grantor(e), NEW from, NEW m,
         NEW p \in CoveredGrantees(e), p \notin CoveredGrantees(OnRevokeReply(e, from, m).engine)
  PROVE  p = from /\ e.grantor[p].phase = "Revoking" /\ Echoes(m, e.grantor[p])
<1>1. /\ from \in DOMAIN e.grantor /\ e.grantor[from].phase = "Revoking"
      /\ Echoes(m, e.grantor[from])
      /\ OnRevokeReply(e, from, m).engine = [e EXCEPT !.grantor = Without(@, from)]
  BY Zenon DEF OnRevokeReply, Result
<1>2. OnRevokeReply(e, from, m).engine.grantor = Without(e.grantor, from)
  BY <1>1, Zenon DEF Grantor
<1>3. p = from
  BY <1>2, Zenon DEF CoveredGrantees, Without
<1> QED
  BY <1>1, <1>3, Zenon

MessageTypes == {"Guard", "GuardReply", "Renew", "RenewReply", "Revoke", "RevokeReply"}

(* No message takes a grantee out of the set that a write has to wait for, *)
(* whatever its content, its order and its age, but the answer of that     *)
(* grantee to the very Revoke that is open (receive of roster.rs).  Any    *)
(* engine and any message are meant, not only those of some behaviour.     *)
THEOREM CoverageEndsOnlyByReply ==
  ASSUME NEW terms, NEW e, IsEngine(e, terms), NEW from, NEW m, m.type \in MessageTypes,
         NEW p \in CoveredGrantees(e), p \notin CoveredGrantees(Receive(e, from, m).engine)
  PROVE  /\ m.type = "RevokeReply" /\ p = from
         /\ e.grantor[p].phase = "Revoking" /\ Echoes(m, e.grantor[p])
<1>1. Grantor(e)
  BY EngineIsGrantor, Zenon
<1>2. m.type # "Guard"
  BY <1>1, OnGuardKeepsCoverage, Zenon DEF Receive
<1>3. m.type # "GuardReply"
  BY <1>1, OnGuardReplyKeepsCoverage, Zenon DEF Receive
<1>4. m.type # "Renew" /\ m.type # "Revoke"
  BY <1>1, GranteeHandlersKeepCoverage, Zenon DEF Receive
<1>5. m.type # "RenewReply"
  BY <1>1, OnRenewReplyKeepsCoverage, Zenon DEF Receive
<1>6. m.type = "RevokeReply"
  BY <1>2, <1>3, <1>4, <1>5, Zenon DEF MessageTypes
<1>7. Receive(e, from, m) = OnRevokeReply(e, from, m)
  BY <1>6, Zenon DEF Receive
<1> QED
  BY <1>1, <1>6, <1>7, OnRevokeReplyEndsRevoked

(* Nor does a step of the driver: reconciling a new term, ticking,         *)
(* granting, announcing and revoking all keep every exclusion that has     *)
(* time left (lease_drive and the end of coverage_gate).  With the theorem *)
(* above, an exclusion ends by its deadline or by its grantee's word.      *)
THEOREM DriverKeepsCoverage ==
  ASSUME NEW terms, NEW e, IsEngine(e, terms), NEW term, NEW roster, NEW accepted,
         NEW committed, NEW p,
         NEW f \in {Reconcile(e, term).engine, EngineTick(e, accepted, committed).engine,
                    GrantFor(e, roster, accepted).engine, Announce(e, accepted).engine,
                    RevokePeer(e, p).engine}
  PROVE  CoveredGrantees(e) \subseteq CoveredGrantees(f)
  BY EngineIsGrantor, ReconcileKeepsCoverage, EngineTickKeepsCoverage, GrantForKeepsCoverage,
     AnnounceKeepsCoverage, RevokePeerKeepsCoverage

-----------------------------------------------------------------------------
(* Group commit. *)

(* How many of the first n items of a batch are of tablet t, and how many  *)
(* of them write key k.                                                    *)
Numbered(b, t, n) == Cardinality({j \in 1..n : b[j].tablet = t})
Wrote(b, k, n) == Cardinality({j \in 1..n : KeyOf[b[j].req] = k /\ b[j].out # 0})

Entry == [req : Requests, ack : Nat]
Item == [tablet : Tablets, commit : Nat, req : Requests, ack : Nat, out : Nat]

(* The part of a live tablet that the assertions of commit_persisted read. *)
WellFormed(l, t) ==
  /\ l = [next |-> l.next, applied |-> l.applied, store |-> l.store, dedup |-> l.dedup,
          tracking |-> l.tracking, dirty |-> l.dirty]
  /\ l.next \in Nat /\ l.applied \in Nat
  /\ l.store \in [KeysOf(t) -> Seq(Requests)]

(* The items of a batch continue the commits of the tablets, and each has  *)
(* the outcome that it gives after those before it.                        *)
Chained(b, tabs) ==
  /\ b \in Seq(Item)
  /\ \A i \in 1..Len(b) :
       /\ b[i].tablet = TabletOfReq(b[i].req)
       /\ b[i].commit = tabs[b[i].tablet].applied + Numbered(b, b[i].tablet, i)
       /\ b[i].out # 0 =>
            b[i].out = Len(tabs[b[i].tablet].store[KeyOf[b[i].req]])
                         + Wrote(b, KeyOf[b[i].req], i - 1) + 1
  /\ \A t \in Tablets : tabs[t].next = tabs[t].applied + Numbered(b, t, Len(b))

(* The records that a worker is made of. *)
WorkerShape(w) ==
  /\ w = [co |-> w.co, live |-> w.live, acked |-> w.acked, panic |-> w.panic]
  /\ w.co = [queue |-> w.co.queue, open |-> w.co.open, inflight |-> w.co.inflight, proof |-> w.co.proof]
  /\ w.co.queue \in Seq(Entry)
  /\ w.live = [t \in Tablets |-> w.live[t]]
  /\ \A t \in Tablets : WellFormed(w.live[t], t)

(* What the worker keeps true of its coordinator and its tablets: there is *)
(* one batch of unapplied items, open or on the lane, and it is chained.   *)
Prepared(w) ==
  /\ WorkerShape(w)
  /\ w.co.proof = "none" => w.co.inflight = <<>> /\ Chained(w.co.open, w.live)
  /\ w.co.proof # "none" => w.co.open = <<>> /\ Chained(w.co.inflight, w.live)

(* A nonempty set of numbers has a least one. *)
LEMMA LeastNat ==
  ASSUME NEW S, S \subseteq Nat, S # {}
  PROVE  \E x \in S : \A y \in S : x <= y
BY MinNat, Zenon

(* One more item: the count grows by one if it is counted. *)
LEMMA CountStep ==
  ASSUME NEW n \in Nat, NEW S \in SUBSET (1..n)
  PROVE  Cardinality(S) \in Nat /\ Cardinality(S \cup {n + 1}) = Cardinality(S) + 1
<1>1. IsFiniteSet(1..n) BY FS_Interval
<1>2. IsFiniteSet(S) BY <1>1, FS_Subset, Zenon
<1>3. Cardinality(S) \in Nat BY <1>2, FS_CardinalityType, Zenon
<1>4. n + 1 \notin S OBVIOUS
<1>5. Cardinality(S \cup {n + 1}) = Cardinality(S) + 1 BY <1>2, <1>4, FS_AddElement, Zenon
<1> QED BY <1>3, <1>5, Zenon

(* Numbered, item by item. *)
LEMMA NumberedStep ==
  ASSUME NEW b, NEW t, NEW n \in Nat
  PROVE  /\ Numbered(b, t, n) \in Nat /\ Numbered(b, t, 0) = 0
         /\ b[n + 1].tablet = t => Numbered(b, t, n + 1) = Numbered(b, t, n) + 1
         /\ b[n + 1].tablet # t => Numbered(b, t, n + 1) = Numbered(b, t, n)
<1> DEFINE S == {j \in 1..n : b[j].tablet = t}
           T == {j \in 1..(n + 1) : b[j].tablet = t}
<1>1. S \in SUBSET (1..n) BY Zenon
<1>2. b[n + 1].tablet = t => T = S \cup {n + 1} OBVIOUS
<1>3. b[n + 1].tablet # t => T = S OBVIOUS
<1>4. {j \in 1..0 : b[j].tablet = t} = {} OBVIOUS
<1>5. Numbered(b, t, n) = Cardinality(S) /\ Numbered(b, t, n + 1) = Cardinality(T)
  BY Zenon DEF Numbered
<1>6. Numbered(b, t, 0) = 0 BY <1>4, FS_EmptySet, Zenon DEF Numbered
<1> HIDE DEF S, T
<1>7. Cardinality(S) \in Nat /\ Cardinality(S \cup {n + 1}) = Cardinality(S) + 1
  BY <1>1, CountStep, Zenon
<1> QED BY <1>2, <1>3, <1>5, <1>6, <1>7, Zenon

(* The same for the items that write a key. *)
LEMMA WroteStep ==
  ASSUME NEW b, NEW k, NEW n \in Nat
  PROVE  /\ Wrote(b, k, n) \in Nat /\ Wrote(b, k, 0) = 0
         /\ KeyOf[b[n + 1].req] = k /\ b[n + 1].out # 0 => Wrote(b, k, n + 1) = Wrote(b, k, n) + 1
         /\ KeyOf[b[n + 1].req] # k \/ b[n + 1].out = 0 => Wrote(b, k, n + 1) = Wrote(b, k, n)
<1> DEFINE S == {j \in 1..n : KeyOf[b[j].req] = k /\ b[j].out # 0}
           T == {j \in 1..(n + 1) : KeyOf[b[j].req] = k /\ b[j].out # 0}
<1>1. S \in SUBSET (1..n) BY Zenon
<1>2. KeyOf[b[n + 1].req] = k /\ b[n + 1].out # 0 => T = S \cup {n + 1} OBVIOUS
<1>3. KeyOf[b[n + 1].req] # k \/ b[n + 1].out = 0 => T = S OBVIOUS
<1>4. {j \in 1..0 : KeyOf[b[j].req] = k /\ b[j].out # 0} = {} OBVIOUS
<1>5. Wrote(b, k, n) = Cardinality(S) /\ Wrote(b, k, n + 1) = Cardinality(T) BY Zenon DEF Wrote
<1>6. Wrote(b, k, 0) = 0 BY <1>4, FS_EmptySet, Zenon DEF Wrote
<1> HIDE DEF S, T
<1>7. Cardinality(S) \in Nat /\ Cardinality(S \cup {n + 1}) = Cardinality(S) + 1
  BY <1>1, CountStep, Zenon
<1> QED BY <1>2, <1>3, <1>5, <1>6, <1>7, Zenon

(* The first items of a longer batch are counted as before. *)
LEMMA CountsOfPrefix ==
  ASSUME NEW b, NEW c, NEW n \in Nat, \A j \in 1..n : c[j] = b[j]
  PROVE  /\ \A t : Numbered(c, t, n) = Numbered(b, t, n)
         /\ \A k : Wrote(c, k, n) = Wrote(b, k, n)
<1>1. \A t : {j \in 1..n : c[j].tablet = t} = {j \in 1..n : b[j].tablet = t} BY Zenon
<1>2. \A k : {j \in 1..n : KeyOf[c[j].req] = k /\ c[j].out # 0}
               = {j \in 1..n : KeyOf[b[j].req] = k /\ b[j].out # 0}
  BY Zenon
<1> QED BY <1>1, <1>2, Zenon DEF Numbered, Wrote

-----------------------------------------------------------------------------
(* Applying a batch. *)

(* f lists the tablets after 0, 1, ..., n items. *)
Applying(live, b, n, f) ==
  f = [m \in 0..n |-> IF m = 0 THEN [live |-> live, ok |-> TRUE] ELSE ApplyItem(f[m - 1], b[m])]

(* There is such a list: the recursion of ApplyProven is well defined. *)
LEMMA ApplyingExists ==
  ASSUME NEW live, NEW b, NEW n \in Nat
  PROVE  \E f : Applying(live, b, n, f)
<1> DEFINE Bad == {m \in Nat : ~\E f : Applying(live, b, m, f)}
<1> SUFFICES ASSUME Bad # {} PROVE FALSE
  BY Zenon
<1>1. PICK x \in Bad : \A y \in Bad : x <= y BY LeastNat, Zenon
<1>2. CASE x = 0
  <2>1. Applying(live, b, 0, [m \in 0..0 |-> [live |-> live, ok |-> TRUE]]) BY DEF Applying
  <2> QED BY <1>1, <1>2, <2>1, Zenon
<1>3. CASE x # 0
  <2>1. x - 1 \in Nat /\ x - 1 \notin Bad BY <1>1, <1>3
  <2>2. PICK f : Applying(live, b, x - 1, f) BY <2>1, Zenon
  <2> DEFINE g == [m \in 0..x |-> IF m = x THEN ApplyItem(f[x - 1], b[x]) ELSE f[m]]
             start == [live |-> live, ok |-> TRUE]
  <2>3. \A m \in 0..(x - 1) : g[m] = f[m] BY <2>1
  <2>4. \A m \in 0..(x - 1) : f[m] = IF m = 0 THEN start ELSE ApplyItem(f[m - 1], b[m])
    BY <2>2, Zenon DEF Applying
  <2> HIDE DEF start
  <2>5. ASSUME NEW m \in 0..x PROVE g[m] = IF m = 0 THEN start ELSE ApplyItem(g[m - 1], b[m])
    <3>1. CASE m = x
      <4>1. g[m] = ApplyItem(f[x - 1], b[x]) /\ m # 0 BY <1>3, <3>1, Zenon
      <4>2. g[m - 1] = f[x - 1] BY <2>1, <2>3, <3>1
      <4> QED BY <3>1, <4>1, <4>2, Zenon
    <3>2. CASE m # x
      <4>1. m \in 0..(x - 1) BY <3>2
      <4>2. m # 0 => g[m - 1] = f[m - 1] BY <2>3, <4>1
      <4> QED BY <2>3, <2>4, <4>1, <4>2, Zenon
    <3> QED BY <3>1, <3>2, Zenon
  <2>6. g = [m \in 0..x |-> g[m]] BY Zenon
  <2> HIDE DEF g
  <2>7. Applying(live, b, x, g) BY <2>5, <2>6, Zenon DEF Applying, start
  <2> QED BY <1>1, <2>7, Zenon
<1> QED BY <1>2, <1>3, Zenon

(* What ApplyProven computes. *)
LEMMA ApplyProvenIs ==
  ASSUME NEW w, NEW b, b = w.co.inflight, Len(b) \in Nat
  PROVE  \E f : /\ Applying(w.live, b, Len(b), f)
                /\ ApplyProven(w) = [co |-> LaneFree(w.co), live |-> f[Len(b)].live,
                                     acked |-> w.acked \cup Replies(b),
                                     panic |-> w.panic \/ ~f[Len(b)].ok]
<1> DEFINE c == CHOOSE f : Applying(w.live, b, Len(b), f)
<1>1. Applying(w.live, b, Len(b), c) BY ApplyingExists, Zenon
<1>2. ApplyProven(w) = [co |-> LaneFree(w.co), live |-> c[Len(b)].live,
                        acked |-> w.acked \cup Replies(b), panic |-> w.panic \/ ~c[Len(b)].ok]
  BY DEF ApplyProven, Applying
<1> QED BY <1>1, <1>2, Zenon

(* One item applied to its tablet. *)
LEMMA ApplyOne ==
  ASSUME NEW t \in Tablets, NEW l, WellFormed(l, t), NEW rec \in Item, KeyOf[rec.req] \in KeysOf(t)
  PROVE  /\ WellFormed(Apply(l, rec), t)
         /\ Apply(l, rec).applied = rec.commit /\ Apply(l, rec).next = l.next
         /\ \A k \in KeysOf(t) :
              Len(Apply(l, rec).store[k])
                = IF k = KeyOf[rec.req] /\ rec.out # 0 THEN Len(l.store[k]) + 1 ELSE Len(l.store[k])
<1> DEFINE key == KeyOf[rec.req]
           S == IF rec.out = 0 THEN l.store ELSE [l.store EXCEPT ![key] = Append(@, rec.req)]
           a == Apply(l, rec)
<1>1. /\ a = [next |-> a.next, applied |-> a.applied, store |-> a.store, dedup |-> a.dedup,
              tracking |-> a.tracking, dirty |-> a.dirty]
      /\ a.next = l.next /\ a.applied = rec.commit /\ a.store = S
  BY Zenon DEF Apply
<1>2. key \in KeysOf(t) /\ rec.req \in Requests /\ rec.commit \in Nat BY Zenon DEF Item
<1>3. l.store \in [KeysOf(t) -> Seq(Requests)] /\ l.next \in Nat BY Zenon DEF WellFormed
<1> HIDE DEF key, a
<1>4. S \in [KeysOf(t) -> Seq(Requests)] BY <1>2, <1>3
<1>5. \A k \in KeysOf(t) : Len(S[k]) = IF k = key /\ rec.out # 0 THEN Len(l.store[k]) + 1 ELSE Len(l.store[k])
  BY <1>2, <1>3
<1> HIDE DEF S
<1>6. WellFormed(a, t) BY <1>1, <1>2, <1>3, <1>4, Zenon DEF WellFormed
<1> QED BY <1>1, <1>5, <1>6, Zenon DEF key, a

(* The tablets after the first n items of batch b, from tablets tabs. *)
Reached(b, tabs, a, n) ==
  /\ a = [live |-> a.live, ok |-> TRUE]
  /\ a.live = [t \in Tablets |-> a.live[t]]
  /\ \A t \in Tablets : /\ WellFormed(a.live[t], t)
                        /\ a.live[t].next = tabs[t].next
                        /\ a.live[t].applied = tabs[t].applied + Numbered(b, t, n)
  /\ \A k \in Keys : Len(a.live[TabletOf[k]].store[k])
                       = Len(tabs[TabletOf[k]].store[k]) + Wrote(b, k, n)

(* The next item of a chained batch applies. *)
LEMMA ItemApplies ==
  ASSUME NEW b, NEW tabs, NEW a, NEW n \in Nat, n < Len(b), Chained(b, tabs), Reached(b, tabs, a, n),
         \A t \in Tablets : WellFormed(tabs[t], t)
  PROVE  Reached(b, tabs, ApplyItem(a, b[n + 1]), n + 1)
<1> DEFINE rec == b[n + 1]
           tab == rec.tablet
           key == KeyOf[rec.req]
           l == a.live[tab]
           g == ApplyItem(a, rec)
<1>1. n + 1 \in 1..Len(b) /\ Len(b) \in Nat BY DEF Chained
<1>2. rec \in Item BY <1>1 DEF Chained
<1>3. tab \in Tablets /\ rec.req \in Requests /\ rec.out \in Nat /\ rec.commit \in Nat
  BY <1>2, Zenon DEF Item
<1>4. key \in Keys /\ tab = TabletOf[key]
  BY <1>1, <1>3, RequestAssumption, Zenon DEF Chained, TabletOfReq
<1>5. key \in KeysOf(tab) BY <1>4, Zenon DEF KeysOf
<1>6. /\ rec.commit = tabs[tab].applied + Numbered(b, tab, n + 1)
      /\ rec.out # 0 => rec.out = Len(tabs[tab].store[key]) + Wrote(b, key, n) + 1
  BY <1>1 DEF Chained
<1>7. WellFormed(l, tab) /\ l.applied = tabs[tab].applied + Numbered(b, tab, n)
  BY <1>3, Zenon DEF Reached
<1>8. Len(l.store[key]) = Len(tabs[tab].store[key]) + Wrote(b, key, n)
  BY <1>4, Zenon DEF Reached
<1>9. \A t : /\ Numbered(b, t, n) \in Nat
             /\ t = tab => Numbered(b, t, n + 1) = Numbered(b, t, n) + 1
             /\ t # tab => Numbered(b, t, n + 1) = Numbered(b, t, n)
  BY NumberedStep, Zenon
<1>10. \A k : /\ Wrote(b, k, n) \in Nat
              /\ k = key /\ rec.out # 0 => Wrote(b, k, n + 1) = Wrote(b, k, n) + 1
              /\ k # key \/ rec.out = 0 => Wrote(b, k, n + 1) = Wrote(b, k, n)
  BY WroteStep, Zenon
<1> HIDE DEF rec, tab, key, l
<1>11. tabs[tab].applied \in Nat /\ l.applied \in Nat BY <1>3, <1>7, Zenon DEF WellFormed
<1>12. rec.commit = l.applied + 1
  <2>1. \A i, j \in Nat : i + (j + 1) = (i + j) + 1 OBVIOUS
  <2>2. rec.commit = tabs[tab].applied + (Numbered(b, tab, n) + 1) BY <1>6, <1>9, Zenon
  <2> QED BY <1>7, <1>9, <1>11, <2>1, <2>2, Zenon
<1>13. rec.out # 0 => rec.out = Len(l.store[key]) + 1 BY <1>6, <1>8, Zenon
<1>14. Applies(l, rec) BY <1>12, <1>13, Zenon DEF Applies, key
<1>15. a.ok /\ a.live = [t \in Tablets |-> a.live[t]] BY DEF Reached
<1>16. g = [live |-> [a.live EXCEPT ![tab] = Apply(l, rec)], ok |-> TRUE]
  BY <1>14, <1>15, Zenon DEF ApplyItem, tab, l
<1> HIDE DEF g
<1>17. g.live = [t \in Tablets |-> IF t = tab THEN Apply(l, rec) ELSE a.live[t]]
  BY <1>15, <1>16, Zenon
<1>18. /\ WellFormed(Apply(l, rec), tab)
       /\ Apply(l, rec).applied = rec.commit /\ Apply(l, rec).next = l.next
       /\ \A k \in KeysOf(tab) :
            Len(Apply(l, rec).store[k])
              = IF k = key /\ rec.out # 0 THEN Len(l.store[k]) + 1 ELSE Len(l.store[k])
  BY <1>2, <1>3, <1>5, <1>7, ApplyOne, Zenon DEF key
<1>19. ASSUME NEW t \in Tablets
       PROVE  /\ WellFormed(g.live[t], t)
              /\ g.live[t].next = tabs[t].next
              /\ g.live[t].applied = tabs[t].applied + Numbered(b, t, n + 1)
  <2>1. WellFormed(a.live[t], t) /\ a.live[t].next = tabs[t].next
        /\ a.live[t].applied = tabs[t].applied + Numbered(b, t, n)
    BY Zenon DEF Reached
  <2>2. CASE t = tab BY <1>6, <1>17, <1>18, <2>1, <2>2, Zenon DEF l
  <2>3. CASE t # tab BY <1>9, <1>17, <2>1, <2>3, Zenon
  <2> QED BY <2>2, <2>3, Zenon
<1>20. ASSUME NEW k \in Keys
       PROVE  Len(g.live[TabletOf[k]].store[k]) = Len(tabs[TabletOf[k]].store[k]) + Wrote(b, k, n + 1)
  <2>1. TabletOf[k] \in Tablets BY TabletAssumption, Zenon
  <2>2. Len(a.live[TabletOf[k]].store[k]) = Len(tabs[TabletOf[k]].store[k]) + Wrote(b, k, n)
    BY Zenon DEF Reached
  <2>3. Len(tabs[TabletOf[k]].store[k]) \in Nat
    <3>1. k \in KeysOf(TabletOf[k]) BY Zenon DEF KeysOf
    <3>2. tabs[TabletOf[k]].store \in [KeysOf(TabletOf[k]) -> Seq(Requests)]
      BY <2>1, Zenon DEF WellFormed
    <3>3. tabs[TabletOf[k]].store[k] \in Seq(Requests) BY <3>1, <3>2, Zenon
    <3> QED BY <3>3
  <2>4. CASE TabletOf[k] # tab
    <3>1. k # key BY <1>4, <2>4, Zenon
    <3> QED BY <1>10, <1>17, <2>1, <2>2, <2>4, <3>1, Zenon
  <2>5. CASE TabletOf[k] = tab
    <3>1. k \in KeysOf(tab) BY <2>5, Zenon DEF KeysOf
    <3>2. g.live[TabletOf[k]] = Apply(l, rec) BY <1>17, <2>1, <2>5, Zenon
    <3>3. a.live[TabletOf[k]] = l BY <2>5, Zenon DEF l
    <3>4. CASE k = key /\ rec.out # 0
      <4>1. Len(Apply(l, rec).store[k]) = Len(l.store[k]) + 1 BY <1>18, <3>1, <3>4, Zenon
      <4>2. Wrote(b, k, n + 1) = Wrote(b, k, n) + 1 /\ Wrote(b, k, n) \in Nat
        BY <1>10, <3>4, Zenon
      <4>3. Len(l.store[k]) = Len(tabs[TabletOf[k]].store[k]) + Wrote(b, k, n)
        BY <2>2, <3>3, Zenon
      <4>4. PICK x \in Nat, y \in Nat :
              x = Len(tabs[TabletOf[k]].store[k]) /\ y = Wrote(b, k, n)
        BY <2>3, <4>2, Zenon
      <4>5. Len(Apply(l, rec).store[k]) = (x + y) + 1 BY <4>1, <4>3, <4>4, Zenon
      <4>6. Wrote(b, k, n + 1) = y + 1 BY <4>2, <4>4, Zenon
      <4>7. Len(Apply(l, rec).store[k]) = x + (y + 1) BY ONLY <4>5, x \in Nat, y \in Nat
      <4> QED BY <3>2, <4>4, <4>6, <4>7, Zenon
    <3>5. CASE ~(k = key /\ rec.out # 0) BY <1>10, <1>18, <2>2, <3>1, <3>2, <3>3, <3>5, Zenon
    <3> QED BY <3>4, <3>5, Zenon
  <2> QED BY <2>4, <2>5, Zenon
<1> QED BY <1>16, <1>17, <1>19, <1>20, Zenon DEF Reached, g, rec

(* Every item of a chained batch applies. *)
LEMMA BatchApplies ==
  ASSUME NEW b, NEW tabs, NEW f, Chained(b, tabs), Applying(tabs, b, Len(b), f),
         tabs = [t \in Tablets |-> tabs[t]], \A t \in Tablets : WellFormed(tabs[t], t)
  PROVE  Reached(b, tabs, f[Len(b)], Len(b))
<1> DEFINE Bad == {m \in 0..Len(b) : ~Reached(b, tabs, f[m], m)}
<1>1. Len(b) \in Nat BY DEF Chained
<1> SUFFICES ASSUME Bad # {} PROVE FALSE
  BY <1>1
<1>0. Bad \subseteq Nat BY <1>1
<1>2. PICK x \in Bad : \A y \in Bad : x <= y BY <1>0, LeastNat, Zenon
<1>3. \A m \in 0..Len(b) : f[m] = IF m = 0 THEN [live |-> tabs, ok |-> TRUE] ELSE ApplyItem(f[m - 1], b[m])
  BY Zenon DEF Applying
<1>4. x # 0
  <2> SUFFICES ASSUME x = 0 PROVE FALSE BY Zenon
  <2>1. f[0] = [live |-> tabs, ok |-> TRUE] BY <1>1, <1>3, Zenon
  <2>2. \A t : Numbered(b, t, 0) = 0 BY NumberedStep, Zenon
  <2>3. \A k : Wrote(b, k, 0) = 0 BY WroteStep, Zenon
  <2>4. \A t \in Tablets : tabs[t].applied \in Nat BY Zenon DEF WellFormed
  <2>5. \A k \in Keys : Len(tabs[TabletOf[k]].store[k]) \in Nat
    <3> SUFFICES ASSUME NEW k \in Keys PROVE Len(tabs[TabletOf[k]].store[k]) \in Nat BY Zenon
    <3>1. k \in KeysOf(TabletOf[k]) /\ TabletOf[k] \in Tablets
      BY TabletAssumption, Zenon DEF KeysOf
    <3>2. tabs[TabletOf[k]].store \in [KeysOf(TabletOf[k]) -> Seq(Requests)]
      BY <3>1, Zenon DEF WellFormed
    <3>3. tabs[TabletOf[k]].store[k] \in Seq(Requests) BY <3>1, <3>2, Zenon
    <3> QED BY <3>3
  <2>6. \A t \in Tablets : tabs[t].applied = tabs[t].applied + Numbered(b, t, 0) BY <2>2, <2>4
  <2>7. \A k \in Keys : Len(tabs[TabletOf[k]].store[k])
                           = Len(tabs[TabletOf[k]].store[k]) + Wrote(b, k, 0)
    <3>1. \A z \in Nat : z = z + 0 OBVIOUS
    <3> QED BY <2>3, <2>5, <3>1, Zenon
  <2>8. f[0].live = tabs /\ f[0] = [live |-> f[0].live, ok |-> TRUE] BY <2>1
  <2>9. Reached(b, tabs, f[0], 0) BY <2>6, <2>7, <2>8, Zenon DEF Reached
  <2> QED BY <1>1, <1>2, <2>9, Zenon
<1>5. x - 1 \in Nat /\ x - 1 < Len(b) /\ x - 1 \notin Bad /\ x - 1 \in 0..Len(b)
  BY <1>1, <1>2, <1>4
<1>6. Reached(b, tabs, f[x - 1], x - 1) BY <1>5, Zenon
<1>7. f[x] = ApplyItem(f[x - 1], b[x]) BY <1>2, <1>3, <1>4, Zenon
<1>8. PICK n \in Nat : x = n + 1 /\ n = x - 1 BY <1>5, <1>2
<1>9. Reached(b, tabs, ApplyItem(f[n], b[n + 1]), n + 1) BY <1>5, <1>6, <1>8, ItemApplies, Zenon
<1> QED BY <1>2, <1>7, <1>8, <1>9, Zenon

(* No batch: the tablets have applied every commit they numbered. *)
LEMMA NothingUnapplied ==
  ASSUME NEW tabs, \A t \in Tablets : tabs[t].applied \in Nat /\ tabs[t].next = tabs[t].applied
  PROVE  Chained(<<>>, tabs)
<1>1. \A t : Numbered(<<>>, t, 0) = 0 BY NumberedStep, Zenon
<1>2. Len(<<>>) = 0 /\ <<>> \in Seq(Item) OBVIOUS
<1>3. \A t \in Tablets : tabs[t].next = tabs[t].applied + Numbered(<<>>, t, Len(<<>>))
  BY <1>1, <1>2
<1>4. \A i \in 1..Len(<<>>) : FALSE BY <1>2
<1> QED BY <1>2, <1>3, <1>4, Zenon DEF Chained

(* The coordinator is free once its batch has left the lane. *)
LEMMA FreeLane ==
  ASSUME NEW w, WorkerShape(w), w.co.open = <<>>
  PROVE  /\ LaneFree(w.co) = [queue |-> w.co.queue, open |-> <<>>, inflight |-> <<>>, proof |-> "none"]
         /\ w.co.queue \in Seq(Entry)
BY Zenon DEF WorkerShape, LaneFree

(* apply_completion on proof: the batch is applied, and no assertion fails. *)
LEMMA ProvenIsApplied ==
  ASSUME NEW w, Prepared(w), w.co.proof # "none"
  PROVE  Prepared(ApplyProven(w)) /\ (ApplyProven(w).panic <=> w.panic)
<1> DEFINE b == w.co.inflight
           r == ApplyProven(w)
<1>1. Chained(b, w.live) /\ WorkerShape(w) /\ w.co.open = <<>> BY Zenon DEF Prepared
<1>2. Len(b) \in Nat
  <2>1. b \in Seq(Item) BY <1>1, Zenon DEF Chained
  <2> HIDE DEF b
  <2> QED BY <2>1
<1>3. PICK f : /\ Applying(w.live, b, Len(b), f)
               /\ r = [co |-> LaneFree(w.co), live |-> f[Len(b)].live, acked |-> w.acked \cup Replies(b),
                       panic |-> w.panic \/ ~f[Len(b)].ok]
  BY <1>2, ApplyProvenIs, Zenon
<1> HIDE DEF r, b
<1>4. w.live = [t \in Tablets |-> w.live[t]] /\ \A t \in Tablets : WellFormed(w.live[t], t)
  BY <1>1, Zenon DEF WorkerShape
<1>5. Reached(b, w.live, f[Len(b)], Len(b)) BY <1>1, <1>3, <1>4, BatchApplies, Zenon
<1>6. f[Len(b)].ok BY <1>5 DEF Reached
<1>7. /\ r.co = LaneFree(w.co) /\ r.live = f[Len(b)].live
      /\ r = [co |-> r.co, live |-> r.live, acked |-> r.acked, panic |-> r.panic]
      /\ r.panic <=> w.panic
  BY <1>3, <1>6, Zenon
<1>8. /\ r.live = [t \in Tablets |-> r.live[t]]
      /\ \A t \in Tablets : /\ WellFormed(r.live[t], t)
                            /\ r.live[t].next = w.live[t].next
                            /\ r.live[t].applied = w.live[t].applied + Numbered(b, t, Len(b))
  BY <1>5, <1>7, Zenon DEF Reached
<1>9. \A t \in Tablets : w.live[t].next = w.live[t].applied + Numbered(b, t, Len(b))
  BY <1>1, Zenon DEF Chained
<1>10. \A t \in Tablets : r.live[t].applied \in Nat /\ r.live[t].next = r.live[t].applied
  BY <1>8, <1>9, Zenon DEF WellFormed
<1>11. Chained(<<>>, r.live) BY <1>10, NothingUnapplied, Zenon
<1>12. r.co = [queue |-> w.co.queue, open |-> <<>>, inflight |-> <<>>, proof |-> "none"]
       /\ w.co.queue \in Seq(Entry)
  BY <1>1, <1>7, FreeLane, Zenon
<1>13. WorkerShape(r) BY <1>7, <1>8, <1>12 DEF WorkerShape
<1>14. Prepared(r) BY <1>11, <1>12, <1>13 DEF Prepared
<1> QED BY <1>7, <1>14, Zenon DEF r

(* commit_base is the position the tablet has applied. *)
LEMMA BaseIsApplied ==
  ASSUME NEW b, NEW tabs, Chained(b, tabs), NEW t \in Touched(b), \A u \in Tablets : tabs[u].applied \in Nat
  PROVE  CommitBase(b, t) = tabs[t].applied
<1> DEFINE own == {i \in DOMAIN b : b[i].tablet = t}
           x == CHOOSE i \in own : \A j \in own : i <= j
<1>1. b \in Seq(Item) BY Zenon DEF Chained
<1>2. DOMAIN b = 1..Len(b) /\ Len(b) \in Nat BY <1>1
<1>3. own \subseteq Nat /\ own # {} BY <1>2 DEF Touched
<1>4. \E i \in own : \A j \in own : i <= j BY <1>3, LeastNat, Zenon
<1>5. x \in own /\ \A j \in own : x <= j BY <1>4, Zenon
<1>6. CommitBase(b, t) = b[x].commit - 1 BY Zenon DEF CommitBase
<1> HIDE DEF x
<1>7. x \in 1..Len(b) /\ b[x].tablet = t BY <1>2, <1>5, Zenon
<1>8. {j \in 1..x : b[j].tablet = t} = {x}
  <2>1. ASSUME NEW j \in 1..x, b[j].tablet = t PROVE j = x
    <3>1. j \in own BY <1>2, <1>7, <2>1
    <3>2. x <= j BY <1>5, <3>1, Zenon
    <3> QED BY <1>7, <3>2
  <2>2. x \in 1..x BY <1>7
  <2> QED BY <1>7, <2>1, <2>2, Zenon
<1>9. Numbered(b, t, x) = 1 BY <1>8, FS_Singleton, Zenon DEF Numbered
<1>10. b[x].commit = tabs[t].applied + 1 BY <1>7, <1>9, Zenon DEF Chained
<1>11. t \in Tablets
  <2>1. b[x] \in Item BY <1>1, <1>7
  <2> QED BY <1>7, <2>1, Zenon DEF Item
<1> QED BY <1>6, <1>10, <1>11

(* A tablet without an item in the batch has no number to give back. *)
LEMMA NoneOfTablet ==
  ASSUME NEW b \in Seq(Item), NEW t, t \notin Touched(b)
  PROVE  Numbered(b, t, Len(b)) = 0
<1>1. DOMAIN b = 1..Len(b) OBVIOUS
<1>2. {j \in 1..Len(b) : b[j].tablet = t} = {} BY <1>1, Zenon DEF Touched
<1> QED BY <1>2, FS_EmptySet, Zenon DEF Numbered

(* apply_completion on a storage error: the numbers of the batch are taken *)
(* back, and the tablets are as before it.                                 *)
LEMMA FailedIsRewound ==
  ASSUME NEW w, Prepared(w), w.co.proof # "none"
  PROVE  Prepared(RewindFailed(w)) /\ RewindFailed(w).panic = w.panic
<1> DEFINE b == w.co.inflight
           r == RewindFailed(w)
           back(t) == IF t \in Touched(b) THEN [w.live[t] EXCEPT !.next = CommitBase(b, t)] ELSE w.live[t]
<1>1. Chained(b, w.live) /\ WorkerShape(w) /\ w.co.open = <<>> BY Zenon DEF Prepared
<1>2. r = [co |-> LaneFree(w.co), acked |-> w.acked, panic |-> w.panic, live |-> [t \in Tablets |-> back(t)]]
  BY Zenon DEF RewindFailed
<1>3. b \in Seq(Item) BY <1>1, Zenon DEF Chained
<1>4. /\ \A t \in Tablets : WellFormed(w.live[t], t) /\ w.live[t].applied \in Nat
      /\ \A t \in Tablets : w.live[t].next = w.live[t].applied + Numbered(b, t, Len(b))
  BY <1>1, Zenon DEF WorkerShape, WellFormed, Chained
<1> HIDE DEF b, r
<1>5. ASSUME NEW t \in Tablets
      PROVE  WellFormed(back(t), t) /\ back(t).applied \in Nat /\ back(t).next = back(t).applied
  <2>1. CASE t \in Touched(b)
    <3>1. CommitBase(b, t) = w.live[t].applied BY <1>1, <1>4, <2>1, BaseIsApplied, Zenon
    <3>2. back(t) = [w.live[t] EXCEPT !.next = w.live[t].applied] BY <2>1, <3>1, Zenon
    <3> HIDE DEF back
    <3> QED BY <1>4, <3>2, Zenon DEF WellFormed
  <2>2. CASE t \notin Touched(b)
    <3>1. Numbered(b, t, Len(b)) = 0 BY <1>3, <2>2, NoneOfTablet, Zenon
    <3>2. back(t) = w.live[t] BY <2>2, Zenon
    <3> HIDE DEF back
    <3> QED BY <1>4, <3>1, <3>2
  <2> QED BY <2>1, <2>2, Zenon
<1> HIDE DEF back
<1>6. /\ r.live = [t \in Tablets |-> back(t)] /\ r.co = LaneFree(w.co) /\ r.panic = w.panic
      /\ r = [co |-> r.co, live |-> r.live, acked |-> r.acked, panic |-> r.panic]
  BY <1>2, Zenon
<1>7. \A t \in Tablets : r.live[t] = back(t) BY <1>6, Zenon
<1>8. Chained(<<>>, r.live) BY <1>5, <1>7, NothingUnapplied, Zenon
<1>9. r.co = [queue |-> w.co.queue, open |-> <<>>, inflight |-> <<>>, proof |-> "none"]
      /\ w.co.queue \in Seq(Entry)
  BY <1>1, <1>6, FreeLane, Zenon
<1>10. r.live = [t \in Tablets |-> r.live[t]] /\ \A t \in Tablets : WellFormed(r.live[t], t)
  BY <1>5, <1>6, <1>7, Zenon
<1>11. WorkerShape(r) BY <1>6, <1>9, <1>10 DEF WorkerShape
<1>12. Prepared(r) BY <1>8, <1>9, <1>11 DEF Prepared
<1> QED BY <1>6, <1>12, Zenon DEF r

(* Item rec is numbered and predicted as prepare_into_open does, and after *)
(* are the tablets with its number.                                        *)
Joins(b, tabs, rec, after) ==
  /\ rec \in Item
  /\ rec.tablet = TabletOfReq(rec.req)
  /\ rec.commit = tabs[rec.tablet].next + 1
  /\ rec.out # 0 => rec.out = Len(tabs[rec.tablet].store[KeyOf[rec.req]])
                                + Wrote(b, KeyOf[rec.req], Len(b)) + 1
  /\ \A t \in Tablets : /\ tabs[t].applied \in Nat
                        /\ after[t].applied = tabs[t].applied /\ after[t].store = tabs[t].store
                        /\ t = rec.tablet => after[t].next = tabs[t].next + 1
                        /\ t # rec.tablet => after[t].next = tabs[t].next

(* One more item keeps the batch chained. *)
LEMMA ChainedLonger ==
  ASSUME NEW b, NEW tabs, NEW after, NEW rec, Chained(b, tabs), Joins(b, tabs, rec, after)
  PROVE  Chained(Append(b, rec), after)
<1> DEFINE c == Append(b, rec)
           n == Len(b)
<1>0. /\ rec \in Item /\ rec.tablet = TabletOfReq(rec.req)
      /\ rec.commit = tabs[rec.tablet].next + 1
      /\ rec.out # 0 => rec.out = Len(tabs[rec.tablet].store[KeyOf[rec.req]])
                                    + Wrote(b, KeyOf[rec.req], Len(b)) + 1
      /\ \A t \in Tablets : /\ tabs[t].applied \in Nat
                            /\ after[t].applied = tabs[t].applied /\ after[t].store = tabs[t].store
                            /\ t = rec.tablet => after[t].next = tabs[t].next + 1
                            /\ t # rec.tablet => after[t].next = tabs[t].next
  BY Zenon DEF Joins
<1>1. b \in Seq(Item) BY Zenon DEF Chained
<1>2. n \in Nat /\ c \in Seq(Item) /\ Len(c) = n + 1 /\ c[n + 1] = rec /\ \A j \in 1..n : c[j] = b[j]
  BY <1>0, <1>1
<1>3. /\ rec.tablet \in Tablets
      /\ \A j \in 1..n : b[j].tablet \in Tablets
  <2>1. \A j \in 1..n : b[j] \in Item BY <1>1
  <2> QED BY <1>0, <2>1, Zenon DEF Item
<1> HIDE DEF c, n
<1>4. ASSUME NEW i \in 1..n
      PROVE  /\ \A t : Numbered(c, t, i) = Numbered(b, t, i)
             /\ \A k : Wrote(c, k, i - 1) = Wrote(b, k, i - 1)
  <2>1. i \in Nat /\ i - 1 \in Nat BY <1>2
  <2>2. \A j \in 1..i : c[j] = b[j] BY <1>2
  <2>3. \A j \in 1..(i - 1) : c[j] = b[j] BY <1>2, <2>1
  <2>4. \A t : Numbered(c, t, i) = Numbered(b, t, i) BY <2>1, <2>2, CountsOfPrefix, Zenon
  <2>5. PICK m \in Nat : m = i - 1 BY <2>1, Zenon
  <2>6. \A j \in 1..m : c[j] = b[j] BY <2>3, <2>5, Zenon
  <2>7. \A k : Wrote(c, k, m) = Wrote(b, k, m) BY <2>6, CountsOfPrefix, Zenon
  <2> QED BY <2>4, <2>5, <2>7, Zenon
<1>5. /\ \A t : Numbered(c, t, n) = Numbered(b, t, n) /\ Numbered(c, t, n) \in Nat
      /\ \A k : Wrote(c, k, n) = Wrote(b, k, n)
  <2>1. \A t : Numbered(c, t, n) \in Nat BY <1>2, NumberedStep, Zenon
  <2>2. /\ \A t : Numbered(c, t, n) = Numbered(b, t, n)
        /\ \A k : Wrote(c, k, n) = Wrote(b, k, n)
    BY <1>2, CountsOfPrefix, Zenon
  <2> QED BY <2>1, <2>2, Zenon
<1>6. \A t : /\ t = rec.tablet => Numbered(c, t, n + 1) = Numbered(c, t, n) + 1
             /\ t # rec.tablet => Numbered(c, t, n + 1) = Numbered(c, t, n)
  BY <1>2, NumberedStep, Zenon
<1>7. \A t \in Tablets : tabs[t].next = tabs[t].applied + Numbered(b, t, n)
  BY Zenon DEF Chained, n
<1>8. ASSUME NEW t \in Tablets PROVE after[t].next = after[t].applied + Numbered(c, t, n + 1)
  <2>1. after[t].applied = tabs[t].applied /\ tabs[t].applied \in Nat BY <1>0, Zenon
  <2>2. tabs[t].next = tabs[t].applied + Numbered(c, t, n) /\ Numbered(c, t, n) \in Nat
    BY <1>5, <1>7, Zenon
  <2>3. CASE t = rec.tablet
    <3>1. after[t].next = tabs[t].next + 1 BY <1>0, <2>3, Zenon
    <3>2. Numbered(c, t, n + 1) = Numbered(c, t, n) + 1 BY <1>6, <2>3, Zenon
    <3> QED BY <2>1, <2>2, <3>1, <3>2
  <2>4. CASE t # rec.tablet
    <3>1. after[t].next = tabs[t].next BY <1>0, <2>4, Zenon
    <3>2. Numbered(c, t, n + 1) = Numbered(c, t, n) BY <1>6, <2>4, Zenon
    <3> QED BY <2>1, <2>2, <3>1, <3>2, Zenon
  <2> QED BY <2>3, <2>4, Zenon
<1>9. ASSUME NEW i \in 1..(n + 1)
      PROVE  /\ c[i].tablet = TabletOfReq(c[i].req)
             /\ c[i].commit = after[c[i].tablet].applied + Numbered(c, c[i].tablet, i)
             /\ c[i].out # 0 =>
                  c[i].out = Len(after[c[i].tablet].store[KeyOf[c[i].req]])
                               + Wrote(c, KeyOf[c[i].req], i - 1) + 1
  <2>1. CASE i \in 1..n
    <3>1. c[i] = b[i] /\ b[i].tablet \in Tablets BY <1>2, <1>3, <2>1, Zenon
    <3>2. /\ after[b[i].tablet].applied = tabs[b[i].tablet].applied
          /\ after[b[i].tablet].store = tabs[b[i].tablet].store
      BY <1>0, <3>1, Zenon
    <3>3. /\ b[i].tablet = TabletOfReq(b[i].req)
          /\ b[i].commit = tabs[b[i].tablet].applied + Numbered(b, b[i].tablet, i)
          /\ b[i].out # 0 =>
               b[i].out = Len(tabs[b[i].tablet].store[KeyOf[b[i].req]])
                            + Wrote(b, KeyOf[b[i].req], i - 1) + 1
      BY <2>1, Zenon DEF Chained, n
    <3>4. /\ Numbered(c, b[i].tablet, i) = Numbered(b, b[i].tablet, i)
          /\ Wrote(c, KeyOf[b[i].req], i - 1) = Wrote(b, KeyOf[b[i].req], i - 1)
      BY <1>4, <2>1, Zenon
    <3> QED BY <3>1, <3>2, <3>3, <3>4, Zenon
  <2>2. CASE i = n + 1
    <3>1. c[i] = rec /\ i - 1 = n BY <1>2, <2>2
    <3>2. after[rec.tablet].applied = tabs[rec.tablet].applied /\ after[rec.tablet].store = tabs[rec.tablet].store
      BY <1>0, <1>3, Zenon
    <3>3. after[rec.tablet].next = after[rec.tablet].applied + Numbered(c, rec.tablet, n + 1)
      BY <1>3, <1>8, Zenon
    <3>4. after[rec.tablet].next = tabs[rec.tablet].next + 1 BY <1>0, <1>3, Zenon
    <3>5. rec.commit = after[rec.tablet].applied + Numbered(c, rec.tablet, n + 1)
      BY <1>0, <3>3, <3>4, Zenon
    <3>6. Wrote(c, KeyOf[rec.req], n) = Wrote(b, KeyOf[rec.req], n) BY <1>5, Zenon
    <3> QED BY <1>0, <2>2, <3>1, <3>2, <3>5, <3>6, Zenon DEF n
  <2> QED BY <1>2, <2>1, <2>2
<1>10. Len(c) = n + 1 /\ c \in Seq(Item) BY <1>2, Zenon
<1> QED BY <1>8, <1>9, <1>10, Zenon DEF Chained, c

(* A tablet numbers a commit. *)
LEMMA NextOfTablet ==
  ASSUME NEW t, NEW l, WellFormed(l, t), NEW x \in Nat
  PROVE  /\ WellFormed([l EXCEPT !.next = x], t) /\ [l EXCEPT !.next = x].next = x
         /\ [l EXCEPT !.next = x].applied = l.applied /\ [l EXCEPT !.next = x].store = l.store
BY DEF WellFormed

(* The dirty bands of a tablet do not matter. *)
LEMMA DirtyOfTablet ==
  ASSUME NEW t, NEW l, WellFormed(l, t), NEW B
  PROVE  /\ WellFormed([l EXCEPT !.dirty = B], t) /\ [l EXCEPT !.dirty = B].next = l.next
         /\ [l EXCEPT !.dirty = B].applied = l.applied /\ [l EXCEPT !.dirty = B].store = l.store
BY DEF WellFormed

(* The same for tracking. *)
LEMMA TrackingOfTablet ==
  ASSUME NEW t, NEW l, WellFormed(l, t), NEW B
  PROVE  /\ WellFormed([l EXCEPT !.tracking = B], t) /\ [l EXCEPT !.tracking = B].next = l.next
         /\ [l EXCEPT !.tracking = B].applied = l.applied /\ [l EXCEPT !.tracking = B].store = l.store
BY DEF WellFormed

(* prepare_into_open *)
LEMMA EntryJoins ==
  ASSUME NEW w, Prepared(w), w.co.proof = "none", NEW e \in Entry
  PROVE  /\ Prepared(PrepareIntoOpen(w, e))
         /\ PrepareIntoOpen(w, e).co.proof = "none" /\ PrepareIntoOpen(w, e).panic = w.panic
<1> DEFINE k == KeyOf[e.req]
           t == TabletOf[k]
           b == w.co.open
           v == OverlayVersion(w.live, b, k)
           rec == [tablet |-> t, commit |-> w.live[t].next + 1, req |-> e.req, ack |-> e.ack,
                   out |-> OutcomeOn(e.req, v)]
           r == PrepareIntoOpen(w, e)
           up == [w.live[t] EXCEPT !.next = @ + 1]
<1>1. WorkerShape(w) /\ Chained(b, w.live) /\ w.co.inflight = <<>> BY Zenon DEF Prepared
<1>2. e.req \in Requests /\ e.ack \in Nat BY Zenon DEF Entry
<1>3. k \in Keys /\ t \in Tablets /\ k \in KeysOf(t)
  BY <1>2, RequestAssumption, TabletAssumption, Zenon DEF KeysOf
<1>4. b \in Seq(Item) BY <1>1, Zenon DEF Chained
<1>5. r = [co |-> [w.co EXCEPT !.open = Append(@, rec)], live |-> [w.live EXCEPT ![t] = up],
           acked |-> w.acked, panic |-> w.panic]
  BY Zenon DEF PrepareIntoOpen, TabletOfReq
<1>k. k = KeyOf[e.req] /\ t = TabletOf[k] BY Zenon
<1> HIDE DEF k, t
<1>6. WellFormed(w.live[t], t) /\ w.live[t].next \in Nat
  BY <1>1, <1>3, Zenon DEF WorkerShape, WellFormed
<1>7. /\ v = Len(w.live[t].store[k]) + Wrote(b, k, Len(b))
      /\ Len(w.live[t].store[k]) \in Nat /\ Wrote(b, k, Len(b)) \in Nat
  <2>1. DOMAIN b = 1..Len(b) /\ Len(b) \in Nat BY <1>4
  <2>2. v = Len(w.live[t].store[k]) + Wrote(b, k, Len(b))
    BY <1>k, <2>1, Zenon DEF OverlayVersion, Wrote
  <2>3. Wrote(b, k, Len(b)) \in Nat BY <2>1, WroteStep, Zenon
  <2>4. w.live[t].store[k] \in Seq(Requests) BY <1>3, <1>6, Zenon DEF WellFormed
  <2>5. Len(w.live[t].store[k]) \in Nat BY <2>4
  <2> QED BY <2>2, <2>3, <2>5, Zenon
<1>8. /\ OutcomeOn(e.req, v) \in Nat
      /\ OutcomeOn(e.req, v) # 0 => OutcomeOn(e.req, v) = v + 1
  <2>1. \A x, y \in Nat : x + y \in Nat OBVIOUS
  <2>2. v \in Nat BY <1>7, <2>1, Zenon
  <2> HIDE DEF v
  <2> QED BY <2>2 DEF OutcomeOn
<1> HIDE DEF v
<1>9. rec \in Item BY <1>2, <1>3, <1>6, <1>8 DEF Item
<1>10. /\ rec.tablet = t /\ rec.req = e.req /\ rec.commit = w.live[t].next + 1
       /\ rec.out # 0 => rec.out = Len(w.live[t].store[k]) + Wrote(b, k, Len(b)) + 1
  BY <1>7, <1>8, Zenon
<1> HIDE DEF rec, b, r
<1>11. /\ WellFormed(up, t) /\ up.next = w.live[t].next + 1
       /\ up.applied = w.live[t].applied /\ up.store = w.live[t].store
  <2>1. w.live[t].next + 1 \in Nat BY <1>6
  <2> QED BY <1>6, <2>1, NextOfTablet, Zenon
<1>13. w.live = [u \in Tablets |-> w.live[u]] BY <1>1, Zenon DEF WorkerShape
<1>14. r.live = [w.live EXCEPT ![t] = up] /\ r.co = [w.co EXCEPT !.open = Append(@, rec)]
       /\ r = [co |-> r.co, live |-> r.live, acked |-> r.acked, panic |-> r.panic] /\ r.panic = w.panic
  <2> HIDE DEF up
  <2> QED BY <1>5, Zenon
<1> HIDE DEF up
<1>15. r.live = [u \in Tablets |-> IF u = t THEN up ELSE w.live[u]] BY <1>3, <1>13, <1>14, Zenon
<1>16. r.live = [u \in Tablets |-> r.live[u]] /\ \A u \in Tablets : WellFormed(r.live[u], u)
  BY <1>1, <1>11, <1>15, Zenon DEF WorkerShape
<1>17. r.co = [queue |-> w.co.queue, open |-> Append(b, rec), inflight |-> w.co.inflight,
               proof |-> w.co.proof]
       /\ w.co.queue \in Seq(Entry)
  BY <1>1, <1>14, Zenon DEF WorkerShape, b
<1>18. WorkerShape(r) BY <1>14, <1>16, <1>17, Zenon DEF WorkerShape
<1>19. ASSUME NEW u \in Tablets
       PROVE  /\ r.live[u].applied = w.live[u].applied /\ r.live[u].store = w.live[u].store
              /\ u = rec.tablet => r.live[u].next = w.live[u].next + 1
              /\ u # rec.tablet => r.live[u].next = w.live[u].next
  <2>1. CASE u = t BY <1>10, <1>11, <1>15, <2>1, Zenon
  <2>2. CASE u # t BY <1>10, <1>15, <2>2, Zenon
  <2> QED BY <2>1, <2>2, Zenon
<1>20. \A u \in Tablets : w.live[u].applied \in Nat BY <1>1, Zenon DEF WorkerShape, WellFormed
<1>21. rec.tablet = TabletOfReq(rec.req) /\ KeyOf[rec.req] = k
  BY <1>k, <1>10, Zenon DEF TabletOfReq
<1>22. Chained(Append(b, rec), r.live)
  <2>1. /\ rec.commit = w.live[rec.tablet].next + 1
        /\ rec.out # 0 => rec.out = Len(w.live[rec.tablet].store[KeyOf[rec.req]])
                                     + Wrote(b, KeyOf[rec.req], Len(b)) + 1
    BY <1>10, <1>21, Zenon
  <2>2. Joins(b, w.live, rec, r.live) BY <1>9, <1>19, <1>20, <1>21, <2>1, Zenon DEF Joins
  <2> QED BY <1>1, <2>2, ChainedLonger, Zenon
<1>23. Prepared(r) BY <1>1, <1>17, <1>18, <1>22 DEF Prepared
<1> QED BY <1>14, <1>17, <1>23, Zenon DEF r

-----------------------------------------------------------------------------
(* Passing over the queue. *)

(* What answer_fast_paths leaves of the queue after an entry. *)
KeepEntry(w, kept, e) ==
  IF CheckIdentity(w.live[TabletOfReq(e.req)], e) = "Admit" THEN Append(kept, e) ELSE kept

Keeping(w, n, f) ==
  f = [m \in 0..n |-> IF m = 0 THEN <<>> ELSE KeepEntry(w, f[m - 1], w.co.queue[m])]

Turning(w, age, n, f) ==
  f = [m \in 0..n |-> IF m = 0 THEN [w EXCEPT !.co.queue = <<>>]
                      ELSE PrepareEntry(f[m - 1], w.co.queue[m], age)]

(* f lists what is left of the queue after 0, 1, ..., n entries. *)
LEMMA KeepingExists ==
  ASSUME NEW w, NEW n \in Nat
  PROVE  \E f : Keeping(w, n, f)
<1> DEFINE Bad == {m \in Nat : ~\E f : Keeping(w, m, f)}
<1> SUFFICES ASSUME Bad # {} PROVE FALSE
  BY Zenon
<1>1. PICK x \in Bad : \A y \in Bad : x <= y BY LeastNat, Zenon
<1>2. CASE x = 0
  <2>1. Keeping(w, 0, [m \in 0..0 |-> <<>>]) BY DEF Keeping
  <2> QED BY <1>1, <1>2, <2>1, Zenon
<1>3. CASE x # 0
  <2>1. x - 1 \in Nat /\ x - 1 \notin Bad BY <1>1, <1>3
  <2>2. PICK f : Keeping(w, x - 1, f) BY <2>1, Zenon
  <2> DEFINE g == [m \in 0..x |-> IF m = x THEN KeepEntry(w, f[x - 1], w.co.queue[x]) ELSE f[m]]
             start == <<>>
  <2>3. \A m \in 0..(x - 1) : g[m] = f[m] BY <2>1
  <2>4. \A m \in 0..(x - 1) : f[m] = IF m = 0 THEN start ELSE KeepEntry(w, f[m - 1], w.co.queue[m])
    BY <2>2, Zenon DEF Keeping
  <2> HIDE DEF start
  <2>5. ASSUME NEW m \in 0..x PROVE g[m] = IF m = 0 THEN start ELSE KeepEntry(w, g[m - 1], w.co.queue[m])
    <3>1. CASE m = x
      <4>1. g[m] = KeepEntry(w, f[x - 1], w.co.queue[x]) /\ m # 0 BY <1>3, <3>1, Zenon
      <4>2. g[m - 1] = f[x - 1] BY <2>1, <2>3, <3>1
      <4> QED BY <3>1, <4>1, <4>2, Zenon
    <3>2. CASE m # x
      <4>1. m \in 0..(x - 1) BY <3>2
      <4>2. m # 0 => g[m - 1] = f[m - 1] BY <2>3, <4>1
      <4> QED BY <2>3, <2>4, <4>1, <4>2, Zenon
    <3> QED BY <3>1, <3>2, Zenon
  <2>6. g = [m \in 0..x |-> g[m]] BY Zenon
  <2> HIDE DEF g
  <2>7. Keeping(w, x, g) BY <2>5, <2>6, Zenon DEF Keeping, start
  <2> QED BY <1>1, <2>7, Zenon
<1> QED BY <1>2, <1>3, Zenon

(* f lists the workers after 0, 1, ..., n turns of prepare_mutations. *)
LEMMA TurningExists ==
  ASSUME NEW w, NEW age, NEW n \in Nat
  PROVE  \E f : Turning(w, age, n, f)
<1> DEFINE Bad == {m \in Nat : ~\E f : Turning(w, age, m, f)}
<1> SUFFICES ASSUME Bad # {} PROVE FALSE
  BY Zenon
<1>1. PICK x \in Bad : \A y \in Bad : x <= y BY LeastNat, Zenon
<1>2. CASE x = 0
  <2>1. Turning(w, age, 0, [m \in 0..0 |-> [w EXCEPT !.co.queue = <<>>]]) BY DEF Turning
  <2> QED BY <1>1, <1>2, <2>1, Zenon
<1>3. CASE x # 0
  <2>1. x - 1 \in Nat /\ x - 1 \notin Bad BY <1>1, <1>3
  <2>2. PICK f : Turning(w, age, x - 1, f) BY <2>1, Zenon
  <2> DEFINE g == [m \in 0..x |-> IF m = x THEN PrepareEntry(f[x - 1], w.co.queue[x], age) ELSE f[m]]
             start == [w EXCEPT !.co.queue = <<>>]
  <2>3. \A m \in 0..(x - 1) : g[m] = f[m] BY <2>1
  <2>4. \A m \in 0..(x - 1) : f[m] = IF m = 0 THEN start ELSE PrepareEntry(f[m - 1], w.co.queue[m], age)
    BY <2>2, Zenon DEF Turning
  <2> HIDE DEF start
  <2>5. ASSUME NEW m \in 0..x PROVE g[m] = IF m = 0 THEN start ELSE PrepareEntry(g[m - 1], w.co.queue[m], age)
    <3>1. CASE m = x
      <4>1. g[m] = PrepareEntry(f[x - 1], w.co.queue[x], age) /\ m # 0 BY <1>3, <3>1, Zenon
      <4>2. g[m - 1] = f[x - 1] BY <2>1, <2>3, <3>1
      <4> QED BY <3>1, <4>1, <4>2, Zenon
    <3>2. CASE m # x
      <4>1. m \in 0..(x - 1) BY <3>2
      <4>2. m # 0 => g[m - 1] = f[m - 1] BY <2>3, <4>1
      <4> QED BY <2>3, <2>4, <4>1, <4>2, Zenon
    <3> QED BY <3>1, <3>2, Zenon
  <2>6. g = [m \in 0..x |-> g[m]] BY Zenon
  <2> HIDE DEF g
  <2>7. Turning(w, age, x, g) BY <2>5, <2>6, Zenon DEF Turning, start
  <2> QED BY <1>1, <2>7, Zenon
<1> QED BY <1>2, <1>3, Zenon

(* answer_fast_paths answers and drops queued entries, and nothing else. *)
LEMMA FastPathsKeep ==
  ASSUME NEW w, Prepared(w)
  PROVE  /\ Prepared(AnswerFastPaths(w))
         /\ AnswerFastPaths(w).panic = w.panic /\ AnswerFastPaths(w).co.proof = w.co.proof
<1> DEFINE q == w.co.queue
           c == CHOOSE f : Keeping(w, Len(q), f)
           r == AnswerFastPaths(w)
<1>1. WorkerShape(w) BY Zenon DEF Prepared
<1>2. q \in Seq(Entry) BY <1>1, Zenon DEF WorkerShape
<1>3. Len(q) \in Nat BY <1>2
<1>4. Keeping(w, Len(q), c) BY <1>3, KeepingExists, Zenon
<1>5. r.co = [w.co EXCEPT !.queue = c[Len(q)]] /\ r.live = w.live /\ r.panic = w.panic
      /\ r = [co |-> r.co, live |-> r.live, acked |-> r.acked, panic |-> r.panic]
  BY DEF AnswerFastPaths, Keeping, KeepEntry
<1> HIDE DEF r, c
<1>6. c[Len(q)] \in Seq(Entry)
  <2> DEFINE Bad == {m \in 0..Len(q) : c[m] \notin Seq(Entry)}
  <2> SUFFICES ASSUME Bad # {} PROVE FALSE
    BY <1>3
  <2>1. PICK x \in Bad : \A y \in Bad : x <= y
    <3>1. Bad \subseteq Nat BY <1>3
    <3> QED BY <3>1, LeastNat, Zenon
  <2>2. c[x] = IF x = 0 THEN <<>> ELSE KeepEntry(w, c[x - 1], q[x])
    BY <1>4, <2>1, Zenon DEF Keeping
  <2>3. CASE x = 0
    <3>1. <<>> \in Seq(Entry) OBVIOUS
    <3> QED BY <2>1, <2>2, <2>3, <3>1, Zenon
  <2>4. CASE x # 0
    <3>1. x - 1 \in 0..Len(q) /\ x - 1 \notin Bad /\ x \in 1..Len(q) BY <1>3, <2>1, <2>4
    <3>2. c[x - 1] \in Seq(Entry) /\ q[x] \in Entry BY <1>2, <3>1
    <3>3. KeepEntry(w, c[x - 1], q[x]) \in Seq(Entry) BY <3>2 DEF KeepEntry
    <3> QED BY <2>1, <2>2, <2>4, <3>3, Zenon
  <2> QED BY <2>3, <2>4, Zenon
<1>7. r.co = [queue |-> c[Len(q)], open |-> w.co.open, inflight |-> w.co.inflight, proof |-> w.co.proof]
  <2> HIDE DEF q
  <2>1. w.co = [queue |-> w.co.queue, open |-> w.co.open, inflight |-> w.co.inflight, proof |-> w.co.proof]
    BY <1>1, Zenon DEF WorkerShape
  <2> QED BY <1>5, <2>1, Zenon
<1>8. WorkerShape(r)
  <2>1. /\ r.co.queue \in Seq(Entry)
        /\ r.co = [queue |-> r.co.queue, open |-> r.co.open, inflight |-> r.co.inflight, proof |-> r.co.proof]
    BY <1>6, <1>7
  <2> QED BY <1>1, <1>5, <2>1, Zenon DEF WorkerShape
<1>9. Prepared(r)
  <2>1. r.co.open = w.co.open /\ r.co.inflight = w.co.inflight /\ r.co.proof = w.co.proof
    BY <1>7
  <2> QED BY <1>5, <1>8, <2>1, Zenon DEF Prepared
<1> QED BY <1>5, <1>7, <1>9, Zenon DEF r

(* Another queue for the same batch. *)
LEMMA OtherQueue ==
  ASSUME NEW w, Prepared(w), NEW q \in Seq(Entry)
  PROVE  LET r == [w EXCEPT !.co.queue = q]
         IN  Prepared(r) /\ r.co.queue = q /\ r.co.proof = w.co.proof /\ r.panic = w.panic
<1> DEFINE r == [w EXCEPT !.co.queue = q]
           co == [w.co EXCEPT !.queue = q]
<1>1. WorkerShape(w) BY Zenon DEF Prepared
<1>2. w = [co |-> w.co, live |-> w.live, acked |-> w.acked, panic |-> w.panic]
  BY <1>1, Zenon DEF WorkerShape
<1>3. w.co = [queue |-> w.co.queue, open |-> w.co.open, inflight |-> w.co.inflight, proof |-> w.co.proof]
  BY <1>1, Zenon DEF WorkerShape
<1>4. co = [queue |-> q, open |-> w.co.open, inflight |-> w.co.inflight, proof |-> w.co.proof]
  BY <1>3
<1>5. r = [w EXCEPT !.co = co] BY Zenon
<1> HIDE DEF r, co
<1>6. r = [co |-> co, live |-> w.live, acked |-> w.acked, panic |-> w.panic]
  BY <1>2, <1>5, Zenon
<1>7. /\ r = [co |-> r.co, live |-> r.live, acked |-> r.acked, panic |-> r.panic]
      /\ r.co = co /\ r.live = w.live /\ r.panic = w.panic
  BY <1>6, Zenon
<1>8. /\ r.co = [queue |-> r.co.queue, open |-> r.co.open, inflight |-> r.co.inflight, proof |-> r.co.proof]
      /\ r.co.queue = q /\ r.co.open = w.co.open /\ r.co.inflight = w.co.inflight
      /\ r.co.proof = w.co.proof
  BY <1>4, <1>7
<1>9. WorkerShape(r) BY <1>1, <1>7, <1>8, Zenon DEF WorkerShape
<1>10. Prepared(r) BY <1>7, <1>8, <1>9, Zenon DEF Prepared
<1> QED BY <1>7, <1>8, <1>10, Zenon DEF r

(* One turn of prepare_mutations. *)
LEMMA EntryTurn ==
  ASSUME NEW w, Prepared(w), w.co.proof = "none", NEW e \in Entry, NEW age
  PROVE  LET r == PrepareEntry(w, e, age)
         IN  Prepared(r) /\ r.co.proof = "none" /\ r.panic = w.panic
<1>1. Append(w.co.queue, e) \in Seq(Entry)
  <2>1. w.co.queue \in Seq(Entry) BY Zenon DEF Prepared, WorkerShape
  <2> QED BY <2>1
<1>2. LET r == [w EXCEPT !.co.queue = Append(@, e)]
      IN  Prepared(r) /\ r.co.proof = "none" /\ r.panic = w.panic
  BY <1>1, OtherQueue, Zenon
<1>3. LET r == PrepareIntoOpen(w, e) IN Prepared(r) /\ r.co.proof = "none" /\ r.panic = w.panic
  BY EntryJoins, Zenon
<1>4. \/ PrepareEntry(w, e, age) = [w EXCEPT !.co.queue = Append(@, e)]
      \/ PrepareEntry(w, e, age) = w
      \/ PrepareEntry(w, e, age) = PrepareIntoOpen(w, e)
  BY Zenon DEF PrepareEntry
<1> QED BY <1>2, <1>3, <1>4, Zenon

(* prepare_mutations over the whole queue. *)
LEMMA QueueTurn ==
  ASSUME NEW w, Prepared(w), w.co.proof = "none", NEW age
  PROVE  LET r == PrepareQueue(w, age)
         IN  Prepared(r) /\ r.co.proof = "none" /\ r.panic = w.panic
<1> DEFINE q == w.co.queue
           c == CHOOSE f : Turning(w, age, Len(q), f)
           Good(r) == Prepared(r) /\ r.co.proof = "none" /\ r.panic = w.panic
<1>2. q \in Seq(Entry) BY Zenon DEF Prepared, WorkerShape
<1>3. Len(q) \in Nat BY <1>2
<1>4. Turning(w, age, Len(q), c) BY <1>3, TurningExists, Zenon
<1>5. PrepareQueue(w, age) = c[Len(q)] BY Zenon DEF PrepareQueue, Turning
<1> HIDE DEF c, Good
<1>6. Good(c[Len(q)])
  <2> DEFINE Bad == {m \in 0..Len(q) : ~Good(c[m])}
  <2> SUFFICES ASSUME Bad # {} PROVE FALSE
    BY <1>3
  <2>1. PICK x \in Bad : \A y \in Bad : x <= y
    <3>1. Bad \subseteq Nat BY <1>3
    <3> QED BY <3>1, LeastNat, Zenon
  <2>2. c[x] = IF x = 0 THEN [w EXCEPT !.co.queue = <<>>] ELSE PrepareEntry(c[x - 1], q[x], age)
    BY <1>4, <2>1, Zenon DEF Turning
  <2>3. CASE x = 0
    <3>1. <<>> \in Seq(Entry) OBVIOUS
    <3>2. Good([w EXCEPT !.co.queue = <<>>]) BY <3>1, OtherQueue, Zenon DEF Good
    <3>3. c[x] = [w EXCEPT !.co.queue = <<>>] BY <2>2, <2>3, Zenon
    <3> QED BY <2>1, <3>2, <3>3, Zenon
  <2>4. CASE x # 0
    <3>1. x - 1 \in 0..Len(q) /\ x - 1 \notin Bad /\ x \in 1..Len(q) BY <1>3, <2>1, <2>4
    <3>2. q[x] \in Entry BY <1>2, <3>1
    <3>3. Good(c[x - 1]) BY <3>1, Zenon
    <3>4. Good(PrepareEntry(c[x - 1], q[x], age)) BY <3>2, <3>3, EntryTurn, Zenon DEF Good
    <3>5. c[x] = PrepareEntry(c[x - 1], q[x], age) BY <2>2, <2>4, Zenon
    <3> QED BY <2>1, <3>4, <3>5, Zenon
  <2> QED BY <2>3, <2>4, Zenon
<1> QED BY <1>5, <1>6, Zenon DEF Good

(* seal_open *)
LEMMA SealMoves ==
  ASSUME NEW w, Prepared(w), w.co.proof = "none"
  PROVE  Prepared(SealOpen(w)) /\ SealOpen(w).panic = w.panic
<1> DEFINE r == SealOpen(w)
           co == [queue |-> w.co.queue, open |-> <<>>, inflight |-> w.co.open, proof |-> "pending"]
<1>1. WorkerShape(w) /\ Chained(w.co.open, w.live) BY Zenon DEF Prepared
<1>2. w = [co |-> w.co, live |-> w.live, acked |-> w.acked, panic |-> w.panic]
  BY <1>1, Zenon DEF WorkerShape
<1>3. r = [w EXCEPT !.co = co] BY Zenon DEF SealOpen
<1> HIDE DEF r, co
<1>4. r = [co |-> co, live |-> w.live, acked |-> w.acked, panic |-> w.panic]
  BY <1>2, <1>3, Zenon
<1>5. /\ r = [co |-> r.co, live |-> r.live, acked |-> r.acked, panic |-> r.panic]
      /\ r.co = co /\ r.live = w.live /\ r.panic = w.panic
  BY <1>4, Zenon
<1>6. /\ r.co = [queue |-> r.co.queue, open |-> r.co.open, inflight |-> r.co.inflight, proof |-> r.co.proof]
      /\ r.co.queue = w.co.queue /\ r.co.open = <<>> /\ r.co.inflight = w.co.open
      /\ r.co.proof = "pending" /\ r.co.proof # "none"
  BY <1>5 DEF co
<1>7. WorkerShape(r) BY <1>1, <1>5, <1>6, Zenon DEF WorkerShape
<1>8. Prepared(r) BY <1>1, <1>5, <1>6, <1>7, Zenon DEF Prepared
<1> QED BY <1>5, <1>8, Zenon DEF r

(* Group commit keeps its predictions: whatever the lane answers for the   *)
(* batch it holds (a proof, a storage error, nothing yet), one pass of     *)
(* poll over a worker whose unapplied items continue its tablets leaves    *)
(* one batch of which that is true again, and none of the assertions of    *)
(* commit_persisted fails on the way: commits apply in order, and every    *)
(* mutation has the outcome that prepare_into_open predicted over the      *)
(* overlay of the items before it.                                         *)
THEOREM PollKeepsPredictions ==
  ASSUME NEW w, Prepared(w), NEW age
  PROVE  Prepared(PollOnce(w, age)) /\ (PollOnce(w, age).panic <=> w.panic)
<1> DEFINE d == DrainCompletions(w)
           a == AnswerFastPaths(d)
           p == PrepareQueue(a, age)
<1>1. Prepared(d) /\ (d.panic <=> w.panic)
  <2>1. CASE w.co.proof = "ok"
    <3>1. d = ApplyProven(w) /\ w.co.proof # "none" BY <2>1, Zenon DEF DrainCompletions
    <3> QED BY <3>1, ProvenIsApplied, Zenon
  <2>2. CASE w.co.proof = "err"
    <3>1. d = RewindFailed(w) /\ w.co.proof # "none" BY <2>2, Zenon DEF DrainCompletions
    <3> QED BY <3>1, FailedIsRewound, Zenon
  <2>3. CASE w.co.proof \notin {"ok", "err"}
    <3>1. d = w BY <2>3, Zenon DEF DrainCompletions
    <3> QED BY <3>1, Zenon
  <2> QED BY <2>1, <2>2, <2>3, Zenon
<1> HIDE DEF d
<1>2. Prepared(a) /\ (a.panic <=> w.panic) BY <1>1, FastPathsKeep, Zenon
<1>3. PollOnce(w, age) = IF a.co.proof = "none" THEN PrepareMutations(a, age) ELSE a
  BY Zenon DEF PollOnce, d
<1> HIDE DEF a
<1>4. CASE a.co.proof = "none"
  <2>1. Prepared(p) /\ p.co.proof = "none" /\ p.panic = a.panic BY <1>2, <1>4, QueueTurn, Zenon
  <2>2. PollOnce(w, age) = p \/ PollOnce(w, age) = SealOpen(p)
    BY <1>3, <1>4, Zenon DEF PrepareMutations
  <2> HIDE DEF p
  <2>3. Prepared(SealOpen(p)) /\ SealOpen(p).panic = a.panic BY <2>1, SealMoves, Zenon
  <2> QED BY <1>2, <2>1, <2>2, <2>3, Zenon
<1>5. CASE a.co.proof # "none" BY <1>2, <1>3, <1>5, Zenon
<1> QED BY <1>4, <1>5, Zenon

(* The other steps of a running worker keep a prepared worker prepared:    *)
(* admit appends an entry to the queue, the lane thread posts the proof or *)
(* the error of the batch it holds, and capture_view clears the dirty set  *)
(* of a tablet.                                                            *)
THEOREM OtherStepsKeepPredictions ==
  ASSUME NEW w, Prepared(w)
  PROVE  /\ \A e \in Entry : Prepared([w EXCEPT !.co.queue = Append(@, e)])
         /\ w.co.proof = "pending" => \A x \in {"ok", "err"} : Prepared([w EXCEPT !.co.proof = x])
         /\ \A t \in Tablets : Prepared([w EXCEPT !.live[t] = Captured(@)])
<1>0. WorkerShape(w) BY Zenon DEF Prepared
<1>1. w = [co |-> w.co, live |-> w.live, acked |-> w.acked, panic |-> w.panic]
  BY <1>0, Zenon DEF WorkerShape
<1>2. w.co = [queue |-> w.co.queue, open |-> w.co.open, inflight |-> w.co.inflight, proof |-> w.co.proof]
  BY <1>0, Zenon DEF WorkerShape
<1>3. w.co.queue \in Seq(Entry) /\ w.live = [t \in Tablets |-> w.live[t]]
      /\ \A t \in Tablets : WellFormed(w.live[t], t)
  BY <1>0, Zenon DEF WorkerShape
<1>4. ASSUME NEW e \in Entry PROVE Prepared([w EXCEPT !.co.queue = Append(@, e)])
  <2>1. Append(w.co.queue, e) \in Seq(Entry) BY <1>3
  <2> QED BY <2>1, OtherQueue, Zenon
<1>5. ASSUME w.co.proof = "pending", NEW x \in {"ok", "err"} PROVE Prepared([w EXCEPT !.co.proof = x])
  <2> DEFINE r == [w EXCEPT !.co.proof = x]
             co == [w.co EXCEPT !.proof = x]
  <2>1. co = [queue |-> w.co.queue, open |-> w.co.open, inflight |-> w.co.inflight, proof |-> x]
    BY <1>2
  <2>2. r = [w EXCEPT !.co = co] BY Zenon
  <2> HIDE DEF r, co
  <2>3. r = [co |-> co, live |-> w.live, acked |-> w.acked, panic |-> w.panic]
    BY <1>1, <2>2, Zenon
  <2>4. /\ r = [co |-> r.co, live |-> r.live, acked |-> r.acked, panic |-> r.panic]
        /\ r.co = co /\ r.live = w.live
    BY <2>3, Zenon
  <2>5. /\ r.co = [queue |-> r.co.queue, open |-> r.co.open, inflight |-> r.co.inflight, proof |-> r.co.proof]
        /\ r.co.queue = w.co.queue /\ r.co.open = w.co.open /\ r.co.inflight = w.co.inflight
        /\ r.co.proof = x /\ x # "none" /\ w.co.proof # "none"
    BY <1>5, <2>1, <2>4
  <2>6. WorkerShape(r) BY <1>3, <2>4, <2>5, Zenon DEF WorkerShape
  <2>7. Prepared(r) BY <2>4, <2>5, <2>6, Zenon DEF Prepared
  <2> QED BY <2>7, Zenon DEF r
<1>6. ASSUME NEW t \in Tablets PROVE Prepared([w EXCEPT !.live[t] = Captured(@)])
  <2> DEFINE r == [w EXCEPT !.live[t] = Captured(@)]
             l == Captured(w.live[t])
             tabs == [w.live EXCEPT ![t] = l]
  <2>1. /\ WellFormed(l, t) /\ l.next = w.live[t].next /\ l.applied = w.live[t].applied
        /\ l.store = w.live[t].store
    <3>1. WellFormed(w.live[t], t) BY <1>3, Zenon
    <3>2. LET d == [w.live[t] EXCEPT !.dirty = {}]
          IN  /\ WellFormed(d, t) /\ d.next = w.live[t].next
              /\ d.applied = w.live[t].applied /\ d.store = w.live[t].store
      BY ONLY <3>1, DirtyOfTablet
    <3>3. l = [w.live[t] EXCEPT !.dirty = {}] BY Zenon DEF Captured
    <3> HIDE DEF l
    <3> QED BY <3>2, <3>3, Zenon
  <2>2. r = [w EXCEPT !.live = tabs] BY Zenon
  <2> HIDE DEF r, l
  <2>3. tabs = [u \in Tablets |-> IF u = t THEN l ELSE w.live[u]] BY <1>3, Zenon
  <2> HIDE DEF tabs
  <2>4. r = [co |-> w.co, live |-> tabs, acked |-> w.acked, panic |-> w.panic]
    BY <1>1, <2>2, Zenon
  <2>5. /\ r = [co |-> r.co, live |-> r.live, acked |-> r.acked, panic |-> r.panic]
        /\ r.co = w.co /\ r.live = tabs
    BY <2>4, Zenon
  <2>6. \A u \in Tablets : /\ tabs[u].next = w.live[u].next /\ tabs[u].applied = w.live[u].applied
                           /\ tabs[u].store = w.live[u].store
    BY <2>1, <2>3, Zenon
  <2>7. tabs = [u \in Tablets |-> tabs[u]] /\ \A u \in Tablets : WellFormed(tabs[u], u)
    BY <1>3, <2>1, <2>3, Zenon
  <2>8. WorkerShape(r) BY <1>2, <1>3, <2>5, <2>7, Zenon DEF WorkerShape
  <2>9. ASSUME NEW b, Chained(b, w.live) PROVE Chained(b, tabs)
    <3>1. b \in Seq(Item) BY <2>9, Zenon DEF Chained
    <3>2. \A i \in 1..Len(b) : b[i].tablet \in Tablets
      <4>1. \A i \in 1..Len(b) : b[i] \in Item BY <3>1
      <4> QED BY <4>1, Zenon DEF Item
    <3> QED BY <2>6, <2>9, <3>2, Zenon DEF Chained
  <2>10. Prepared(r) BY <2>5, <2>8, <2>9, Zenon DEF Prepared
  <2> QED BY <2>10, Zenon DEF r
<1> QED BY <1>4, <1>5, <1>6, Zenon

(* A worker with no batch is prepared, on tablets that have applied every  *)
(* commit they numbered.                                                   *)
LEMMA StartsPrepared ==
  ASSUME NEW tabs, tabs = [t \in Tablets |-> tabs[t]], NEW told, NEW failed,
         \A t \in Tablets : WellFormed(tabs[t], t) /\ tabs[t].next = tabs[t].applied
  PROVE  Prepared([co |-> IdleCoordinator, live |-> tabs, acked |-> told, panic |-> failed])
<1> DEFINE r == [co |-> IdleCoordinator, live |-> tabs, acked |-> told, panic |-> failed]
<1>1. /\ r = [co |-> r.co, live |-> r.live, acked |-> r.acked, panic |-> r.panic]
      /\ r.co = IdleCoordinator /\ r.live = tabs
  BY Zenon
<1> HIDE DEF r
<1>2. /\ r.co = [queue |-> r.co.queue, open |-> r.co.open, inflight |-> r.co.inflight, proof |-> r.co.proof]
      /\ r.co.queue \in Seq(Entry) /\ r.co.open = <<>> /\ r.co.inflight = <<>> /\ r.co.proof = "none"
  BY <1>1 DEF IdleCoordinator
<1>3. \A t \in Tablets : tabs[t].applied \in Nat /\ tabs[t].next = tabs[t].applied
  BY Zenon DEF WellFormed
<1>4. Chained(<<>>, tabs) BY <1>3, NothingUnapplied, Zenon
<1>5. WorkerShape(r) BY <1>1, <1>2, Zenon DEF WorkerShape
<1>6. Prepared(r) BY <1>1, <1>2, <1>4, <1>5, Zenon DEF Prepared
<1> QED BY <1>6, Zenon DEF r

(* from_descriptor and enable_band_tracking make such tablets. *)
LEMMA FreshTabletsAreWellFormed ==
  ASSUME NEW t \in Tablets
  PROVE  LET l == EnableBandTracking(FreshTablet(t)) IN WellFormed(l, t) /\ l.next = l.applied
<1> DEFINE l == FreshTablet(t)
<1>1. l.store = [k \in KeysOf(t) |-> <<>>] /\ l.next = 0 /\ l.applied = 0
  BY Zenon DEF FreshTablet
<1>2. l = [next |-> l.next, applied |-> l.applied, store |-> l.store, dedup |-> l.dedup,
           tracking |-> l.tracking, dirty |-> l.dirty]
  BY Zenon DEF FreshTablet
<1> HIDE DEF l
<1>3. l.store \in [KeysOf(t) -> Seq(Requests)] BY <1>1
<1>4. WellFormed(l, t) BY <1>1, <1>2, <1>3 DEF WellFormed
<1>5. PICK m : m = [l EXCEPT !.tracking = TRUE] BY Zenon
<1>6. WellFormed(m, t) /\ m.next = m.applied
  <2>1. LET d == [l EXCEPT !.tracking = TRUE]
        IN  WellFormed(d, t) /\ d.next = l.next /\ d.applied = l.applied
    BY ONLY <1>4, TrackingOfTablet, Zenon
  <2> QED BY <1>1, <1>5, <2>1, Zenon
<1>7. WellFormed([m EXCEPT !.dirty = {}], t) /\ [m EXCEPT !.dirty = {}].next = [m EXCEPT !.dirty = {}].applied
  BY <1>6, DirtyOfTablet, Zenon
<1>8. EnableBandTracking(l) = [m EXCEPT !.dirty = {}] BY <1>5, Zenon DEF EnableBandTracking
<1> QED BY <1>7, <1>8, Zenon DEF l

(* So the chain that the theorems above keep is there when a new node      *)
(* starts.                                                                 *)
LEMMA FreshNodeIsPrepared ==
  ASSUME NEW told, NEW failed
  PROVE  Prepared([co |-> IdleCoordinator,
                   live |-> [t \in Tablets |-> EnableBandTracking(FreshTablet(t))],
                   acked |-> told, panic |-> failed])
<1> DEFINE tabs == [t \in Tablets |-> EnableBandTracking(FreshTablet(t))]
<1>1. \A t \in Tablets : tabs[t] = EnableBandTracking(FreshTablet(t))
  BY Zenon
<1>2. tabs = [t \in Tablets |-> tabs[t]] BY Zenon
<1> HIDE DEF tabs
<1>3. \A t \in Tablets : WellFormed(tabs[t], t) /\ tabs[t].next = tabs[t].applied
  BY <1>1, FreshTabletsAreWellFormed, Zenon
<1>4. Prepared([co |-> IdleCoordinator, live |-> tabs, acked |-> told, panic |-> failed])
  BY <1>2, <1>3, StartsPrepared, Zenon
<1> QED BY <1>4, Zenon DEF tabs
=============================================================================
