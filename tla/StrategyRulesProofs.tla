-------------------------- MODULE StrategyRulesProofs --------------------------
(***************************************************************************)
(* What the decisions of StrategyRules return, for every threshold: the    *)
(* lemmas the proofs about RuntimeStore and TradingDaemon cite.            *)
(***************************************************************************)
EXTENDS StrategyRules, TLAPS

(* The entry a new strategy gets is a health entry. *)
LEMMA DefaultEntryType == DefaultEntry \in HealthEntries
  BY DEF DefaultEntry, HealthEntries, HealthStatuses

(* _health_entry always answers with an entry. *)
LEMMA HealthEntryType ==
  ASSUME NEW S, NEW health \in [S -> HealthEntries \cup {NoEntry}], NEW s \in S
  PROVE  HealthEntry(health, s) \in HealthEntries
  BY DefaultEntryType DEF HealthEntry

(* quarantine_strategy leaves a health entry, quarantined and without streak. *)
LEMMA QuarantinedType ==
  ASSUME NEW e \in HealthEntries
  PROVE  /\ Quarantined(e) \in HealthEntries
         /\ Quarantined(e).status = "quarantined"
  BY DEF Quarantined, HealthEntries, HealthStatuses

(* recover_strategy leaves a health entry, whatever it was given. *)
LEMMA RecoveredType ==
  ASSUME NEW e \in HealthEntries
  PROVE  Recovered(e) \in HealthEntries
  <1>1. e.recovery \in Nat /\ e.status \in HealthStatuses /\ e.decay \in 0 .. 100
    BY DEF HealthEntries
  <1>2. Promoted(e.status) \in HealthStatuses
    BY DEF Promoted, HealthStatuses
  <1> DEFINE streak == IF UnderRecovery(e) /\ ~CompletesRecovery(e)
                       THEN e.recovery + 1 ELSE 0
             status == IF CompletesRecovery(e) THEN Promoted(e.status) ELSE e.status
  <1>3. streak \in Nat /\ status \in HealthStatuses
    BY <1>1, <1>2
  <1>4. Recovered(e) = [e EXCEPT !.retired = FALSE, !.recovery = streak,
                                 !.status = status]
    BY DEF Recovered, HealthEntries
  <1> HIDE DEF streak, status
  <1> QED
    BY <1>3, <1>4 DEF HealthEntries

(* A recovered strategy is quarantined only if it was and still lacks      *)
(* approvals, and retired only if it was.                                  *)
LEMMA RecoveredStatus ==
  ASSUME NEW e \in HealthEntries
  PROVE  Recovered(e).status =
           IF CompletesRecovery(e) THEN Promoted(e.status) ELSE e.status
  BY DEF Recovered, HealthEntries

(* retire_strategy leaves a health entry, retired. *)
LEMMA RetiredEntryType ==
  ASSUME NEW e \in HealthEntries
  PROVE  RetiredEntry(e) \in HealthEntries
  <1> DEFINE decay == IF e.decay >= RetirementThreshold THEN e.decay
                      ELSE RetirementThreshold
  <1>1. decay \in 0 .. 100
    BY ThresholdAssumption DEF HealthEntries
  <1>2. RetiredEntry(e) = [e EXCEPT !.status = "retired", !.retired = TRUE,
                                    !.decay = decay]
    BY DEF RetiredEntry, HealthEntries
  <1> HIDE DEF decay
  <1> QED
    BY <1>1, <1>2 DEF HealthEntries, HealthStatuses

(* apply_rolling_decay keeps the decay score of an active strategy between *)
(* 0 and 1 ...                                                             *)
LEMMA RefreshedType ==
  ASSUME NEW e \in HealthEntries
  PROVE  Refreshed(e) \in HealthEntries
  <1> DEFINE decay   == IF e.decay >= DecayRecoveryPerCycle
                        THEN e.decay - DecayRecoveryPerCycle ELSE 0
             retired == e.retired /\ 5 * decay >= 4 * RetirementThreshold
             status  == IF e.status = "retired" /\ ~retired THEN "active" ELSE e.status
  <1>1. decay \in 0 .. 100
    BY ThresholdAssumption DEF HealthEntries
  <1>2. retired \in BOOLEAN
    BY DEF HealthEntries
  <1>3. status \in HealthStatuses
    BY DEF HealthEntries, HealthStatuses
  <1>4. Refreshed(e) = [e EXCEPT !.decay = decay, !.retired = retired, !.status = status]
    BY DEF Refreshed, HealthEntries
  <1> HIDE DEF decay, retired, status
  <1> QED
    BY <1>1, <1>2, <1>3, <1>4 DEF HealthEntries

(* ... and of an inactive one. *)
LEMMA DecayedType ==
  ASSUME NEW e \in HealthEntries
  PROVE  Decayed(e) \in HealthEntries
  <1> DEFINE decay   == DecayedScore(e)
             status  == IF RetiresByDecay(e) THEN "retired" ELSE e.status
             retired == e.retired \/ RetiresByDecay(e)
  <1>1. decay \in 0 .. 100
    BY ThresholdAssumption DEF HealthEntries, DecayedScore
  <1>2. retired \in BOOLEAN
    BY DEF HealthEntries, RetiresByDecay
  <1>3. status \in HealthStatuses
    BY DEF HealthEntries, HealthStatuses
  <1>4. Decayed(e) = [e EXCEPT !.decay = decay, !.status = status, !.retired = retired]
    BY DEF Decayed, HealthEntries
  <1> HIDE DEF decay, retired, status
  <1> QED
    BY <1>1, <1>2, <1>3, <1>4 DEF HealthEntries

(* _sync_drift_state leaves a health entry. *)
LEMMA DriftedType ==
  ASSUME NEW e \in HealthEntries, NEW verdict \in DriftVerdicts
  PROVE  Drifted(e, verdict) \in HealthEntries
  BY DEF Drifted, HealthEntries, HealthStatuses

(* The entry an upsert starts from. *)
LEMMA CurrentType ==
  ASSUME NEW entry \in RegistryEntries \cup {Unregistered}
  PROVE  Current(entry) \in RegistryEntries
  BY DEF Current, RegistryEntries, RegistryStatuses, HealthStatuses

(* The upserts of state.py leave a registry entry with the status they     *)
(* name, and its multiplier alone.                                         *)
LEMMA UpsertStatusType ==
  ASSUME NEW entry \in RegistryEntries \cup {Unregistered},
         NEW status \in RegistryStatuses
  PROVE  /\ UpsertStatus(entry, status) \in RegistryEntries
         /\ UpsertStatus(entry, status).status = status
         /\ UpsertStatus(entry, status).multiplier = Current(entry).multiplier
  <1>1. Current(entry) \in RegistryEntries
    BY CurrentType
  <1> QED
    BY <1>1 DEF UpsertStatus, RegistryEntries

(* The upsert of risk.py. *)
LEMMA UpsertDriftType ==
  ASSUME NEW entry \in RegistryEntries \cup {Unregistered},
         NEW verdict \in DriftVerdicts, NEW status \in RegistryStatuses
  PROVE  /\ UpsertDrift(entry, verdict, status) \in RegistryEntries
         /\ UpsertDrift(entry, verdict, status).status = status
         /\ verdict = "quarantine" =>
              UpsertDrift(entry, verdict, status).multiplier = 0
  <1> DEFINE multiplier == IF verdict = "quarantine" THEN 0 ELSE 5
  <1>1. Current(entry) \in RegistryEntries
    BY CurrentType
  <1>2. multiplier \in {0, 5, 10}
    OBVIOUS
  <1>3. UpsertDrift(entry, verdict, status) =
          [Current(entry) EXCEPT !.status = status, !.multiplier = multiplier]
    BY DEF UpsertDrift
  <1> HIDE DEF multiplier
  <1>4. UpsertDrift(entry, verdict, status) \in RegistryEntries
    BY <1>1, <1>2, <1>3 DEF RegistryEntries
  <1>5. /\ UpsertDrift(entry, verdict, status).status = status
        /\ UpsertDrift(entry, verdict, status).multiplier = multiplier
    BY <1>1, <1>3 DEF RegistryEntries
  <1> QED
    BY <1>4, <1>5 DEF multiplier

(* The upsert of main.py and distributed.py: a capital multiplier of zero  *)
(* survives it.                                                            *)
LEMMA UpsertCandidateType ==
  ASSUME NEW entry \in RegistryEntries \cup {Unregistered}, NEW p \in Promotions
  PROVE  /\ UpsertCandidate(entry, p) \in RegistryEntries
         /\ UpsertCandidate(entry, p).multiplier = Current(entry).multiplier
  <1>1. p.status \in RegistryStatuses /\ p.passed \in BOOLEAN
    BY DEF Promotions, RegistryStatuses, HealthStatuses
  <1>2. Current(entry) \in RegistryEntries
    BY CurrentType
  <1> QED
    BY <1>1, <1>2 DEF UpsertCandidate, RegistryEntries
=============================================================================
