---------------------------- MODULE LeaseTiming ----------------------------
(***************************************************************************)
(* LeaseParams of crates/kivi-types/src/roster.rs: the durations of roster *)
(* leases and what is added to and taken from them for clocks whose rates  *)
(* differ.  All times are in one unit, the microsecond of the code; the    *)
(* saturation of Duration at 2^64 microseconds is left out.                *)
(***************************************************************************)
EXTENDS Naturals

CONSTANTS LeaseDuration,    \* lease_duration
          GuardDuration,    \* guard_duration
          RenewInterval,    \* renew_interval
          MaxDrift          \* max_drift_ppm

(* MAX_DRIFT_PPM, and DRIFT_PPM_DENOMINATOR, 1000000. *)
TrustedDrift == 100000
DriftDenominator == 10 * TrustedDrift

(* allowance: ceil(duration * drift / (1 - drift)). *)
Allowance(duration) ==
  LET rate == DriftDenominator - MaxDrift
  IN  (duration * MaxDrift + (rate - 1)) \div rate

(* validate *)
Validate ==
  /\ LeaseDuration \in Nat \ {0} /\ GuardDuration \in Nat \ {0} /\ RenewInterval \in Nat \ {0}
  /\ MaxDrift \in 0..TrustedDrift
  /\ RenewInterval + 2 * Allowance(LeaseDuration) < LeaseDuration

ASSUME ParamsValid == Validate

(* expand: how long a grantor counts, on its own clock. *)
Expand(duration) == duration + Allowance(duration)

(* How long a grantee counts, on its own clock. *)
Shrink(duration) == duration - Allowance(duration)

(* Mutant: the window of a forgotten guard, without the lease behind it. *)
QuarantineOfGuard == Expand(GuardDuration)

(* quarantine: how long a restarted node neither grants nor holds. *)
Quarantine == Expand(LeaseDuration) + Expand(GuardDuration)
=============================================================================
