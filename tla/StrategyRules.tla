---------------------------- MODULE StrategyRules ----------------------------
(***************************************************************************)
(* The decisions that ver9/state.py, ver9/risk.py and ver9/registry.py     *)
(* take about ONE strategy, as operators on the two records that exist for *)
(* it: the health entry of the runtime state file and the entry of the     *)
(* strategy registry.  Nothing here is a step; RuntimeStore says when each *)
(* result reaches a file, TradingDaemon says who asks for it.              *)
(*                                                                         *)
(* Scores are kept in hundredths (0.65 is 65), so that the arithmetic of   *)
(* the decay is exact.  The streaks and timestamps of a health entry that  *)
(* no code reads back (approved_streak, failure_streak, inactive_cycles,   *)
(* events, reasons) are left out.                                          *)
(***************************************************************************)
EXTENDS Integers

CONSTANTS
  RecoveryThreshold,        \* approvals from quarantined to probationary
  ActiveRecoveryThreshold,  \* approvals from probationary to active
  DecayPerInactiveCycle,    \* in hundredths
  DecayRecoveryPerCycle,    \* in hundredths
  RetirementThreshold,      \* in hundredths
  NoEntry,                  \* no health entry yet
  Unregistered              \* no registry entry yet

ASSUME ThresholdAssumption ==
  /\ RecoveryThreshold \in Nat \ {0}
  /\ ActiveRecoveryThreshold \in Nat \ {0}
  /\ DecayPerInactiveCycle \in 1 .. 100
  /\ DecayRecoveryPerCycle \in 0 .. 100
  /\ RetirementThreshold \in 1 .. 100

HealthStatuses == {"active", "quarantined", "probationary", "retired"}

RegistryStatuses ==
  HealthStatuses \cup {"candidate", "validated", "deployable"}

(* A health entry.  "recovery" is recovery_streak. *)
HealthEntries ==
  [status : HealthStatuses, recovery : Nat, decay : 0 .. 100, retired : BOOLEAN]

(* What _health_entry creates for a strategy it has not seen. *)
DefaultEntry ==
  [status |-> "active", recovery |-> 0, decay |-> 0, retired |-> FALSE]

HealthEntry(health, s) == IF health[s] = NoEntry THEN DefaultEntry ELSE health[s]

-----------------------------------------------------------------------------
(* The transitions of a health entry. *)

(* Faulty: the streak survives. *)
QuarantinedKeepingStreak(e) == [e EXCEPT !.status = "quarantined"]

Quarantined(e) == [e EXCEPT !.status = "quarantined", !.recovery = 0]

(* The approvals still to come decide the status; any other status only    *)
(* loses its retired flag, the status "retired" itself is kept.            *)
Needed(status) ==
  IF status = "quarantined" THEN RecoveryThreshold ELSE ActiveRecoveryThreshold

(* Faulty: the target lifecycle.py names. *)
PromotedToValidated(status) ==
  IF status = "quarantined" THEN "validated" ELSE "active"

Promoted(status) == IF status = "quarantined" THEN "probationary" ELSE "active"

UnderRecovery(e) == e.status \in {"quarantined", "probationary"}

CompletesRecovery(e) == UnderRecovery(e) /\ e.recovery + 1 >= Needed(e.status)

Recovered(e) ==
  [e EXCEPT
     !.retired  = FALSE,
     !.recovery = IF UnderRecovery(e) /\ ~CompletesRecovery(e) THEN @ + 1 ELSE 0,
     !.status   = IF CompletesRecovery(e) THEN Promoted(@) ELSE @]

RetiredEntry(e) ==
  [e EXCEPT !.status = "retired", !.retired = TRUE,
            !.decay = IF @ >= RetirementThreshold THEN @ ELSE RetirementThreshold]

(* Faulty: the decay score is not kept above zero. *)
RefreshedUnclamped(e) == [e EXCEPT !.decay = @ - DecayRecoveryPerCycle]

(* One cycle of apply_rolling_decay for a strategy in the portfolio ... *)
Refreshed(e) ==
  LET decay   == IF e.decay >= DecayRecoveryPerCycle
                 THEN e.decay - DecayRecoveryPerCycle ELSE 0
      retired == e.retired /\ 5 * decay >= 4 * RetirementThreshold
  IN [e EXCEPT !.decay = decay, !.retired = retired,
               !.status = IF @ = "retired" /\ ~retired THEN "active" ELSE @]

(* ... and for one outside of it. *)
DecayedScore(e) ==
  IF e.decay + DecayPerInactiveCycle <= 100
  THEN e.decay + DecayPerInactiveCycle ELSE 100

RetiresByDecay(e) == DecayedScore(e) >= RetirementThreshold /\ ~e.retired

Decayed(e) ==
  [e EXCEPT !.decay   = DecayedScore(e),
            !.status  = IF RetiresByDecay(e) THEN "retired" ELSE @,
            !.retired = @ \/ RetiresByDecay(e)]

(* The two drift verdicts that are written back ("ok" is not). *)
DriftVerdicts == {"quarantine", "throttle"}

Drifted(e, verdict) ==
  [e EXCEPT !.status =
     IF verdict = "quarantine" THEN "quarantined" ELSE "probationary"]

-----------------------------------------------------------------------------
(* The registry entry of a strategy: its lifecycle status, the fraction of *)
(* capital drift leaves it (tenths), validation_passed, and whether it has *)
(* the REQUIRED_FIELDS that list_candidates insists on.                    *)

RegistryEntries ==
  [status : RegistryStatuses, multiplier : {0, 5, 10}, passed : BOOLEAN,
   tradeable : BOOLEAN]

ASSUME AbsenceAssumption ==
  NoEntry \notin HealthEntries /\ Unregistered \notin RegistryEntries

(* What auto_promote makes of a generated row, whose status is always      *)
(* "candidate".  Only "validated" requires validation_passed: the score    *)
(* alone admits to the two higher rungs.                                   *)
Promotions ==
  {p \in [status : {"candidate", "validated", "probationary", "deployable"},
          passed : BOOLEAN] : p.status = "validated" => p.passed}

(* {**current, **record}: fields the caller does not name survive. *)
Current(entry) ==
  IF entry = Unregistered
  THEN [status |-> "candidate", multiplier |-> 10, passed |-> TRUE, tradeable |-> FALSE]
  ELSE entry

UpsertStatus(entry, status) == [Current(entry) EXCEPT !.status = status]

(* Faulty: the status is left to the state file. *)
UpsertDriftMultiplierOnly(entry, verdict, status) ==
  [Current(entry) EXCEPT !.multiplier = IF verdict = "quarantine" THEN 0 ELSE 5]

UpsertDrift(entry, verdict, status) ==
  [Current(entry) EXCEPT !.status = status,
                         !.multiplier = IF verdict = "quarantine" THEN 0 ELSE 5]

(* Faulty: a fresh row replaces the entry. *)
UpsertCandidateAfresh(entry, promotion) ==
  [status |-> promotion.status, multiplier |-> 10, passed |-> promotion.passed,
   tradeable |-> TRUE]

UpsertCandidate(entry, promotion) ==
  [Current(entry) EXCEPT !.status = promotion.status,
                         !.passed = promotion.passed, !.tradeable = TRUE]
=============================================================================
