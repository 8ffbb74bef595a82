-------------------------- MODULE TradingDaemonProofs --------------------------
(***************************************************************************)
(* Theorems about TradingDaemon, for every set of strategies, every set of *)
(* commands that run beside the daemon, every threshold and every          *)
(* environment.                                                            *)
(***************************************************************************)
EXTENDS TradingDaemon, StrategyRulesProofs

(* Before a basket is executed, and once its cycle is recorded, there are  *)
(* no verdicts; none is pending outside of the phase that writes them.     *)
NoVerdictsYet ==
  /\ phase \notin {"verdicts", "cycle"} => DOMAIN verdicts = {}
  /\ phase # "verdicts" => pending = {}

Verdict(t) == t.call # Nothing /\ t.call.kind \in {"quarantine", "recover"}

Kind(t, k) == t.call # Nothing /\ t.call.kind = k

(* The strategy of a verdict has an entry in the copy.                     *)
OnEntry(t) == (Verdict(t) \/ Kind(t, "drift")) /\ t.copy[t.call.s] \in HealthEntries

(* What a task holds at each of its labels. *)
WellFormed(t) ==
  /\ t.label = "idle" => t = Resting
  /\ t.label # "idle" => t.call \in Calls
  /\ t.label \in {"decay", "decaySave"} => Kind(t, "cycle")
  /\ t.label \in {"sync", "upsert"} =>
       \/ Kind(t, "evolve")
       \/ t.copy \in Healths /\ (Kind(t, "cycle") \/ OnEntry(t))
  /\ t.label = "upsert" => t.draft \in Registries
  /\ t.label = "save" => Kind(t, "cycle") \/ Kind(t, "record") \/ OnEntry(t)
  /\ t.label \in {"decay", "decaySave", "save"} => t.copy \in Healths
  /\ t.label = "append" => Kind(t, "drift")

DaemonShape ==
  LET t == work[Daemon] IN
  /\ t.label # "idle" => Verdict(t) \/ Kind(t, "cycle") \/ Kind(t, "record")
  /\ Verdict(t) =>
       /\ phase = "verdicts" /\ t.call.s \in pending
       /\ t.call.kind = "recover" => verdicts[t.call.s] = "accepted"
       /\ t.call.kind = "quarantine" =>
            t.copy[t.call.s].status = "quarantined" /\ t.copy[t.call.s].recovery = 0
  /\ Kind(t, "cycle") => phase = "cycle"
  /\ Kind(t, "record") => phase \in Records
  /\ t.label \in {"sync", "upsert"} /\ Kind(t, "cycle") => decayed \in Healths
  /\ t.label = "decaySave" => decayed \in Healths
  /\ t.label \notin {"sync", "upsert"} \/ ~Kind(t, "cycle") => retiring = {}

CommandShape(c) ==
  LET t == work[c] IN
  t.label # "idle" => Kind(t, "evolve") \/ Kind(t, "drift") \/ Kind(t, "record")

Shape ==
  /\ \A a \in Actors : WellFormed(work[a])
  /\ DaemonShape
  /\ \A c \in Commands : CommandShape(c)

Typed == TypeOK /\ NoVerdictsYet /\ Shape

(* What the step of a leaves of the tasks of the others, D being what it   *)
(* has written to.                                                         *)
Others(a, D) ==
  \A b \in Actors \ {a} :
    work'[b] = IF Idle(b) THEN work[b] ELSE [work[b] EXCEPT !.behind = @ \cup D]

(* A step moves the task of the actor a to t, and writes to D. *)
Moves(a, t, D) ==
  /\ work' \in [Actors -> Tasks]
  /\ work'[a] = t
  /\ Others(a, D)

-----------------------------------------------------------------------------
(* Tasks. *)

LEMMA CallType ==
  ASSUME NEW c \in Calls
  PROVE  /\ c.kind \in {"cycle", "record", "quarantine", "recover", "drift", "evolve"}
         /\ c.kind \notin {"cycle", "record"} => c.s \in Strategies
         /\ c.kind = "drift" => c.verdict \in DriftVerdicts
         /\ c.kind = "evolve" => c.promotion \in Promotions
  BY DEF Calls

LEMMA TaskType ==
  ASSUME NEW t \in Tasks
  PROVE  /\ t.label \in Labels /\ t.call \in Calls \cup {Nothing}
         /\ t.copy \in Healths \cup {Nothing} /\ t.draft \in Registries \cup {Nothing}
         /\ t.behind \subseteq Strategies
         /\ \A D : D \subseteq Strategies =>
              [t EXCEPT !.behind = @ \cup D] \in Tasks
         /\ \A l \in Labels :
              /\ [t EXCEPT !.label = l] \in Tasks
              /\ [t EXCEPT !.label = l, !.draft = Nothing] \in Tasks
              /\ \A r \in Registries : [t EXCEPT !.label = l, !.draft = r] \in Tasks
  BY DEF Tasks

LEMMA RestingType == Resting \in Tasks
  BY DEF Resting, Tasks, Labels

(* A step of a that writes nothing, or does so through Overtaken.          *)
LEMMA MovesAlone ==
  ASSUME work \in [Actors -> Tasks], NEW a \in Actors, NEW t \in Tasks,
         work' = [work EXCEPT ![a] = t]
  PROVE  Moves(a, t, {})
  <1>1. ASSUME NEW b \in Actors \ {a}
        PROVE  work'[b] = work[b] /\ [work[b] EXCEPT !.behind = @ \cup {}] = work[b]
    BY DEF Tasks
  <1> QED
    BY <1>1 DEF Moves, Others

LEMMA MovesOvertaking ==
  ASSUME work \in [Actors -> Tasks], NEW a \in Actors, NEW t \in Tasks,
         NEW D \in SUBSET Strategies, Overtaken(a, t, D)
  PROVE  Moves(a, t, D)
  <1>1. work' = [b \in Actors |-> IF b = a THEN t
                                 ELSE IF Idle(b) THEN work[b]
                                 ELSE [work[b] EXCEPT !.behind = @ \cup D]]
    BY DEF Overtaken
  <1>2. \A b \in Actors : [work[b] EXCEPT !.behind = @ \cup D] \in Tasks
    BY TaskType
  <1> QED
    BY <1>1, <1>2 DEF Moves, Others

LEMMA MovedOthers ==
  ASSUME work \in [Actors -> Tasks], NEW a \in Actors, NEW t, NEW D \in SUBSET Strategies,
         Moves(a, t, D), NEW b \in Actors \ {a}
  PROVE  /\ work'[b].label = work[b].label /\ work'[b].call = work[b].call
         /\ work'[b].copy = work[b].copy /\ work'[b].draft = work[b].draft
         /\ Idle(b) => work'[b] = work[b]
         /\ ~Idle(b) => work'[b].behind = work[b].behind \cup D
  BY DEF Moves, Others, Tasks

(* Nobody's step breaks the task of another. *)
LEMMA MovedShape ==
  ASSUME Typed, NEW a \in Actors, NEW t, NEW D \in SUBSET Strategies,
         Moves(a, t, D), NEW b \in Actors \ {a}
  PROVE  /\ WellFormed(work'[b])
         /\ b \in Commands => CommandShape(b)'
  <1>1. /\ work'[b].label = work[b].label /\ work'[b].call = work[b].call
        /\ work'[b].copy = work[b].copy /\ work'[b].draft = work[b].draft
        /\ work[b].label = "idle" => work'[b] = work[b]
    BY MovedOthers DEF Typed, TypeOK, Idle
  <1>2. WellFormed(work[b]) /\ (b \in Commands => CommandShape(b))
    BY DEF Typed, Shape
  <1> QED
    BY <1>1, <1>2 DEF WellFormed, CommandShape, Kind, Verdict, OnEntry

LEMMA DaemonIsNoCommand == Daemon \in Actors /\ \A c \in Commands : c \in Actors /\ c # Daemon
  BY DaemonAssumption DEF Actors

(* A command's step breaks no task if it leaves its own in order.          *)
LEMMA CommandMovesShape ==
  ASSUME Typed, NEW c \in Commands, NEW t \in Tasks, NEW D \in SUBSET Strategies,
         Moves(c, t, D), WellFormed(t),
         t.label # "idle" => Kind(t, "evolve") \/ Kind(t, "drift") \/ Kind(t, "record"),
         UNCHANGED <<phase, verdicts, pending, decayed, retiring>>
  PROVE  Shape'
  <1>1. c \in Actors /\ Daemon \in Actors \ {c}
    BY DaemonIsNoCommand
  <1>2. /\ work'[Daemon].label = work[Daemon].label
        /\ work'[Daemon].call = work[Daemon].call
        /\ work'[Daemon].copy = work[Daemon].copy
    BY <1>1, MovedOthers DEF Typed, TypeOK
  <1>3. DaemonShape'
    BY <1>2 DEF Typed, Shape, DaemonShape, Verdict, Kind
  <1>4. \A b \in Actors \ {c} : WellFormed(work'[b]) /\ (b \in Commands => CommandShape(b)')
    BY <1>1, MovedShape
  <1>5. work'[c] = t
    BY DEF Moves
  <1>6. WellFormed(work'[c]) /\ CommandShape(c)'
    BY <1>5 DEF CommandShape
  <1> QED
    BY <1>3, <1>4, <1>6, DaemonIsNoCommand DEF Shape

(* Nor does the daemon's, nor one that leaves every task alone.            *)
LEMMA DaemonMovesShape ==
  ASSUME Typed, NEW t \in Tasks, NEW D \in SUBSET Strategies,
         Moves(Daemon, t, D), WellFormed(t), DaemonShape'
  PROVE  Shape'
  <1>1. \A b \in Actors \ {Daemon} :
          WellFormed(work'[b]) /\ (b \in Commands => CommandShape(b)')
    BY DaemonIsNoCommand, MovedShape
  <1>2. WellFormed(work'[Daemon])
    BY DEF Moves
  <1> QED
    BY <1>1, <1>2, DaemonIsNoCommand DEF Shape

LEMMA QuietShape ==
  ASSUME Typed, UNCHANGED <<work, decayed, retiring>>,
         UNCHANGED <<phase, verdicts, pending>> \/ Idle(Daemon)
  PROVE  Shape'
  <1>1. WellFormed(work[Daemon]) /\ DaemonShape
    BY DaemonIsNoCommand DEF Typed, Shape
  <1>2. CASE Idle(Daemon)
    <2>1. work[Daemon] = Resting
      BY <1>1, <1>2 DEF WellFormed, Idle
    <2> QED
      BY <1>1, <2>1 DEF Typed, Shape, DaemonShape, CommandShape, Verdict, Kind, Resting
  <1>3. CASE UNCHANGED <<phase, verdicts, pending>>
    BY <1>3 DEF Typed, Shape, DaemonShape, CommandShape
  <1> QED
    BY <1>2, <1>3

(* The daemon is at rest in every phase that has no call on the files.     *)
LEMMA DaemonRests ==
  ASSUME Typed, phase \notin Records \cup {"verdicts"}
  PROVE  Idle(Daemon) /\ work[Daemon] = Resting /\ retiring = {}
  BY DaemonIsNoCommand DEF Typed, Shape, DaemonShape, WellFormed, Idle, Records, Kind

-----------------------------------------------------------------------------
(* The files. *)

(* list_candidates lists registered strategies only. *)
LEMMA ListedType ==
  ASSUME NEW rung
  PROVE  /\ Listed(rung) \subseteq Strategies
         /\ \A s \in Listed(rung) : registry[s] # Unregistered /\ registry[s].status = rung
  BY DEF Listed

(* The optimizer allocates only what it was given. *)
LEMMA BasketType ==
  ASSUME NEW basket \in Baskets
  PROVE  basket \subseteq DOMAIN rows
  <1> DEFINE eligible == {s \in DOMAIN rows : rows[s].passed}
             least    == IF Cardinality(DOMAIN rows) < 2 THEN 1 ELSE 2
             baskets  == {b \in SUBSET eligible :
                            Cardinality(b) >= least /\ Cardinality(b) <= MaxPositions}
  <1>1. Baskets = IF baskets = {} THEN {{}} ELSE baskets
    BY DEF Baskets
  <1>2. basket = {} \/ basket \in SUBSET eligible
    BY <1>1
  <1> QED
    BY <1>2

(* The entry each verdict is computed from. *)
LEMMA VerdictEntries ==
  ASSUME health \in Healths, NEW s \in Strategies
  PROVE  /\ HealthEntry(health, s) \in HealthEntries
         /\ Recovered(HealthEntry(health, s)) \in HealthEntries
         /\ Quarantined(HealthEntry(health, s)) \in HealthEntries
         /\ Quarantined(HealthEntry(health, s)).status = "quarantined"
         /\ Quarantined(HealthEntry(health, s)).recovery = 0
         /\ \A v \in DriftVerdicts : Drifted(HealthEntry(health, s), v) \in HealthEntries
  <1>1. HealthEntry(health, s) \in HealthEntries
    BY HealthEntryType DEF Healths
  <1>2. Quarantined(HealthEntry(health, s)).recovery = 0
    BY <1>1 DEF Quarantined, HealthEntries
  <1> QED
    BY <1>1, <1>2, RecoveredType, QuarantinedType, DriftedType

(* The copy a verdict starts from: one entry is changed. *)
LEMMA ChangedType ==
  ASSUME health \in Healths, NEW c \in Calls, c.kind \in {"quarantine", "recover", "drift"}
  PROVE  /\ c.s \in Strategies /\ NewEntry(c) \in HealthEntries
         /\ Changed(c) \in Healths /\ Changed(c)[c.s] = NewEntry(c)
         /\ \A r \in Strategies \ {c.s} : Changed(c)[r] = health[r]
         /\ c.kind = "quarantine" =>
              NewEntry(c).status = "quarantined" /\ NewEntry(c).recovery = 0
  <1>1. c.s \in Strategies /\ (c.kind = "drift" => c.verdict \in DriftVerdicts)
    BY CallType
  <1>2. /\ NewEntry(c) \in HealthEntries
        /\ c.kind = "quarantine" =>
             NewEntry(c).status = "quarantined" /\ NewEntry(c).recovery = 0
    BY <1>1, VerdictEntries DEF NewEntry
  <1> QED
    BY <1>1, <1>2 DEF Changed, Healths

(* What a task that is about to upsert the registry holds.                 *)
LEMMA UpsertingTask ==
  ASSUME Typed, NEW a \in Actors, work[a].label \in {"sync", "upsert"}
  PROVE  /\ work[a] \in Tasks /\ work[a].call \in Calls /\ work[a].call # Nothing
         /\ work[a].call.kind \in {"cycle", "quarantine", "recover", "drift", "evolve"}
         /\ work[a].call.kind # "evolve" => work[a].copy \in Healths
         /\ work[a].call.kind \in {"quarantine", "recover", "drift"} =>
              work[a].copy[work[a].call.s] \in HealthEntries
         /\ work[a].call.kind # "cycle" => work[a].call.s \in Strategies
         /\ work[a].label = "upsert" => work[a].draft \in Registries
  <1>1. WellFormed(work[a]) /\ work[a] \in Tasks
    BY DEF Typed, TypeOK, Shape
  <1>2. work[a].call \in Calls
    BY <1>1 DEF WellFormed
  <1>3. work[a].call # Nothing
    BY <1>1 DEF WellFormed, Kind, OnEntry, Verdict
  <1> QED
    BY <1>1, <1>2, <1>3, CallType DEF WellFormed, Kind, OnEntry, Verdict

(* upsert_candidate writes back the registry it loaded, with one entry     *)
(* changed, whose capital multiplier only a drift verdict touches.         *)
LEMMA SaveRegistryEffect ==
  ASSUME Typed, NEW a \in Actors, NEW s \in Strategies, SaveRegistry(a, s)
  PROVE  /\ registry' \in Registries /\ registry'[s] \in RegistryEntries
         /\ \A r \in Strategies \ {s} : registry'[r] = work[a].draft[r]
         /\ work[a].call.kind \in {"quarantine", "recover", "drift"} =>
              registry'[s].status = work[a].copy[s].status
         /\ work[a].call.kind = "cycle" => registry'[s].status = "retired"
         /\ work[a].call.kind # "drift" =>
              registry'[s].multiplier = Current(work[a].draft[s]).multiplier
         /\ work[a].call.kind = "drift" /\ work[a].call.verdict = "quarantine" =>
              registry'[s].multiplier = 0
         /\ work[a].call.kind # "cycle" => s = work[a].call.s
         /\ work[a].call.kind = "cycle" => s \in retiring
         /\ work[a].call.kind # "record"
  <1> DEFINE c     == work[a].call
             entry == work[a].draft[s]
             new   == Merged(a, s)
  <1>1. /\ c \in Calls /\ c.kind \in {"cycle", "quarantine", "recover", "drift", "evolve"}
        /\ c.kind \in {"quarantine", "recover", "drift"} =>
             work[a].copy[c.s] \in HealthEntries
        /\ work[a].draft \in Registries
    BY UpsertingTask DEF SaveRegistry
  <1>2. s \in Targets(a) /\ registry' = [work[a].draft EXCEPT ![s] = new]
    BY DEF SaveRegistry
  <1>3. /\ c.kind # "cycle" => s = c.s
        /\ c.kind = "cycle" => s \in retiring
    BY <1>1, <1>2 DEF Targets
  <1>4. entry \in RegistryEntries \cup {Unregistered}
    BY <1>1 DEF Registries
  <1>5. c.kind \in {"quarantine", "recover", "drift"} =>
          work[a].copy[s].status \in RegistryStatuses
    BY <1>1, <1>3 DEF HealthEntries, RegistryStatuses
  <1>6. CASE c.kind = "evolve"
    <2>1. c.promotion \in Promotions /\ new = UpsertCandidate(entry, c.promotion)
      BY <1>1, <1>6, CallType DEF Merged
    <2>2. new \in RegistryEntries /\ new.multiplier = Current(entry).multiplier
      BY <1>4, <2>1, UpsertCandidateType
    <2> HIDE DEF new
    <2>3. registry' \in Registries /\ registry'[s] = new
            /\ \A r \in Strategies \ {s} : registry'[r] = work[a].draft[r]
      BY <1>1, <1>2, <2>2 DEF Registries
    <2> QED
      BY <1>3, <1>6, <2>2, <2>3
  <1>7. CASE c.kind = "drift"
    <2> DEFINE status == work[a].copy[s].status
    <2>1. c.verdict \in DriftVerdicts /\ new = UpsertDrift(entry, c.verdict, status)
      BY <1>1, <1>7, CallType DEF Merged
    <2>b. status \in RegistryStatuses
      BY <1>5, <1>7
    <2> HIDE DEF entry, status
    <2>2. /\ new \in RegistryEntries /\ new.status = status
          /\ c.verdict = "quarantine" => new.multiplier = 0
      <3> HIDE DEF c, new
      <3> QED
        BY <1>4, <2>1, <2>b, UpsertDriftType
    <2> USE DEF status
    <2> HIDE DEF new
    <2>3. registry' \in Registries /\ registry'[s] = new
            /\ \A r \in Strategies \ {s} : registry'[r] = work[a].draft[r]
      BY <1>1, <1>2, <2>2 DEF Registries
    <2> QED
      BY <1>3, <1>7, <2>2, <2>3
  <1>8. CASE c.kind \in {"cycle", "quarantine", "recover"}
    <2> DEFINE status == IF c.kind = "cycle" THEN "retired" ELSE work[a].copy[s].status
    <2>1. status \in RegistryStatuses /\ new = UpsertStatus(entry, status)
      BY <1>5, <1>8 DEF Merged, RegistryStatuses, HealthStatuses
    <2>2. /\ new \in RegistryEntries /\ new.status = status
          /\ new.multiplier = Current(entry).multiplier
      BY <1>4, <2>1, UpsertStatusType
    <2> HIDE DEF new
    <2>3. registry' \in Registries /\ registry'[s] = new
            /\ \A r \in Strategies \ {s} : registry'[r] = work[a].draft[r]
      BY <1>1, <1>2, <2>2 DEF Registries
    <2> QED
      BY <1>3, <1>8, <2>2, <2>3
  <1> QED
    BY <1>1, <1>6, <1>7, <1>8

(* What SaveRegistry does to the tasks. *)
LEMMA SyncedType ==
  ASSUME Typed, NEW a \in Actors, NEW s \in Strategies,
         work[a].label \in {"sync", "upsert"}, s \in Targets(a)
  PROVE  /\ Synced(a, s) \in Tasks /\ WellFormed(Synced(a, s))
         /\ work[a].call.kind = "evolve" => Synced(a, s) = Resting
         /\ work[a].call.kind # "evolve" =>
              /\ Synced(a, s).call = work[a].call /\ Synced(a, s).copy = work[a].copy
              /\ Synced(a, s).behind = work[a].behind
              /\ Synced(a, s).label = AfterSync(a, s)
         /\ AfterSync(a, s) \in {"idle", "append", "decaySave", "sync", "save"}
         /\ work[a].call.kind = "cycle" =>
              AfterSync(a, s) = IF retiring = {s} THEN "decaySave" ELSE "sync"
         /\ work[a].call.kind = "drift" => AfterSync(a, s) = "append"
         /\ work[a].call.kind \in {"quarantine", "recover"} => AfterSync(a, s) = "save"
  <1> DEFINE l == AfterSync(a, s)
             t == [work[a] EXCEPT !.label = l, !.draft = Nothing]
  <1>1. /\ work[a] \in Tasks /\ work[a].call \in Calls /\ work[a].call # Nothing
        /\ work[a].call.kind \in {"cycle", "quarantine", "recover", "drift", "evolve"}
        /\ work[a].call.kind # "evolve" => work[a].copy \in Healths
        /\ work[a].call.kind \in {"quarantine", "recover", "drift"} =>
             work[a].copy[work[a].call.s] \in HealthEntries
    BY UpsertingTask
  <1>2. /\ l \in {"idle", "append", "decaySave", "sync", "save"}
        /\ work[a].call.kind = "cycle" =>
             l = IF retiring = {s} THEN "decaySave" ELSE "sync"
        /\ work[a].call.kind = "drift" => l = "append"
        /\ work[a].call.kind \in {"quarantine", "recover"} => l = "save"
    BY <1>1 DEF AfterSync
  <1>3. Synced(a, s) = IF work[a].call.kind = "evolve" THEN Resting ELSE t
    BY DEF Synced
  <1> HIDE DEF l
  <1>4. l \in Labels
    BY <1>2 DEF Labels
  <1>5. t \in Tasks /\ t.label = l /\ t.call = work[a].call /\ t.copy = work[a].copy
          /\ t.behind = work[a].behind
    BY <1>1, <1>4 DEF Tasks
  <1> HIDE DEF t
  <1>6. CASE work[a].call.kind = "evolve"
    <2>1. WellFormed(Resting)
      BY DEF WellFormed, Resting
    <2> QED
      BY <1>2, <1>3, <1>6, <2>1, RestingType DEF l
  <1>7. CASE work[a].call.kind # "evolve"
    <2>1. l # "idle"
      BY <1>1, <1>2, <1>7
    <2>2. WellFormed(t)
      BY <1>1, <1>2, <1>5, <1>7, <2>1 DEF WellFormed, Kind, OnEntry, Verdict
    <2> QED
      BY <1>2, <1>3, <1>5, <1>7, <2>2 DEF l
  <1> QED
    BY <1>6, <1>7

(* ... and to the files and the history. *)
LEMMA SaveRegistryMoves ==
  ASSUME Typed, NEW a \in Actors, NEW s \in Strategies, SaveRegistry(a, s)
  PROVE  \E D \in SUBSET Strategies :
           /\ Moves(a, Synced(a, s), D)
           /\ s \in D /\ \A r \in Strategies \ D : registry'[r] = registry[r]
           /\ a # Daemon /\ DOMAIN rows # {} => D \subseteq touched'
           /\ touched \subseteq touched' /\ touched' \subseteq Strategies
           /\ a = Daemon => touched' = touched
  <1> DEFINE D == Differences(registry, registry') \cup {s}
  <1>1. work[a].label = "upsert" /\ s \in Targets(a) /\ Written(a, Synced(a, s), D)
    BY DEF SaveRegistry
  <1>2. Synced(a, s) \in Tasks /\ D \in SUBSET Strategies
    BY <1>1, SyncedType DEF Differences
  <1>3. Moves(a, Synced(a, s), D)
    BY <1>1, <1>2, MovesOvertaking DEF Written, Typed, TypeOK
  <1>4. \A r \in Strategies \ D : registry'[r] = registry[r]
    BY DEF Differences
  <1> HIDE DEF D
  <1>5. touched' = IF a = Daemon \/ DOMAIN rows = {} THEN touched ELSE touched \cup D
    BY <1>1 DEF Written
  <1>6. s \in D
    BY DEF D
  <1> QED
    BY <1>2, <1>3, <1>4, <1>5, <1>6 DEF Typed, TypeOK

(* What a task that is about to save the state file holds. *)
LEMMA SavingTask ==
  ASSUME Typed, NEW a \in Actors, work[a].label = "save"
  PROVE  /\ work[a] \in Tasks /\ work[a].call \in Calls /\ work[a].call # Nothing
         /\ work[a].copy \in Healths
         /\ work[a].call.kind \in {"cycle", "record", "quarantine", "recover", "drift"}
         /\ work[a].call.kind \in {"quarantine", "recover", "drift"} =>
              work[a].call.s \in Strategies /\ work[a].copy[work[a].call.s] \in HealthEntries
  <1>1. WellFormed(work[a]) /\ work[a] \in Tasks
    BY DEF Typed, TypeOK, Shape
  <1>2. work[a].call \in Calls /\ work[a].call # Nothing
    BY <1>1 DEF WellFormed, Kind, OnEntry, Verdict
  <1> QED
    BY <1>1, <1>2, CallType DEF WellFormed, Kind, OnEntry, Verdict

(* save_state overwrites every entry with the copy's. *)
LEMMA SaveStateMoves ==
  ASSUME Typed, NEW a \in Actors, NEW t \in Tasks, SaveState(a, t)
  PROVE  /\ health' = work[a].copy /\ health' \in Healths
         /\ \E D \in SUBSET Strategies :
              /\ Moves(a, t, D)
              /\ work[a].call.kind \in {"quarantine", "recover", "drift"} =>
                   work[a].call.s \in D
              /\ \A r \in Strategies \ D : health'[r] = health[r]
              /\ a # Daemon /\ DOMAIN rows # {} => D \subseteq touched'
              /\ touched \subseteq touched' /\ touched' \subseteq Strategies
              /\ a = Daemon => touched' = touched
  <1> DEFINE D == Differences(health, work[a].copy)
                    \cup (IF work[a].call.kind \in {"cycle", "record"} THEN {}
                         ELSE {work[a].call.s})
  <1>1. /\ work[a].label = "save" /\ health' = work[a].copy
        /\ Written(a, t, D)
    BY DEF SaveState
  <1>2. /\ work[a].copy \in Healths
        /\ work[a].call.kind \in {"cycle", "record", "quarantine", "recover", "drift"}
        /\ work[a].call.kind \in {"quarantine", "recover", "drift"} =>
             work[a].call.s \in Strategies
    BY <1>1, SavingTask
  <1>3. /\ D \in SUBSET Strategies
        /\ work[a].call.kind \in {"quarantine", "recover", "drift"} => work[a].call.s \in D
        /\ \A r \in Strategies \ D : health'[r] = health[r]
    BY <1>1, <1>2 DEF Differences
  <1> HIDE DEF D
  <1>4. Moves(a, t, D)
    BY <1>1, <1>3, MovesOvertaking DEF Written, Typed, TypeOK
  <1>5. touched' = IF a = Daemon \/ DOMAIN rows = {} THEN touched ELSE touched \cup D
    BY <1>1 DEF Written
  <1> QED
    BY <1>1, <1>2, <1>3, <1>4, <1>5 DEF Typed, TypeOK

(* A call begins with a task of its own. *)
LEMMA BeginMoves ==
  ASSUME Typed, NEW a \in Actors, NEW c \in Calls, NEW l \in Labels,
         NEW copy \in Healths \cup {Nothing}, Begin(a, c, l, copy)
  PROVE  /\ Idle(a) /\ Moves(a, work'[a], {}) /\ work'[a] \in Tasks
         /\ work'[a].label = l /\ work'[a].call = c /\ work'[a].copy = copy
         /\ work'[a].draft = Nothing /\ work'[a].behind = {}
  <1> DEFINE t == [Resting EXCEPT !.label = l, !.call = c, !.copy = copy]
  <1>1. /\ t \in Tasks /\ t.label = l /\ t.call = c /\ t.copy = copy
        /\ t.draft = Nothing /\ t.behind = {}
    BY DEF Resting, Tasks
  <1>2. Idle(a) /\ work' = [work EXCEPT ![a] = t]
    BY DEF Begin
  <1> HIDE DEF t
  <1>3. Moves(a, t, {}) /\ work'[a] = t
    BY <1>1, <1>2, MovesAlone DEF Typed, TypeOK
  <1> QED
    BY <1>1, <1>2, <1>3

(* A call that reads the registry or goes on to its next step. *)
LEMMA LoadRegistryMoves ==
  ASSUME Typed, NEW a \in Actors, LoadRegistry(a)
  PROVE  /\ Moves(a, work'[a], {}) /\ work'[a] \in Tasks
         /\ work[a].label = "sync" /\ work'[a].label = "upsert"
         /\ work'[a].draft = registry
         /\ work'[a].call = work[a].call /\ work'[a].copy = work[a].copy
         /\ work'[a].behind = work[a].behind
  <1> DEFINE t == [work[a] EXCEPT !.label = "upsert", !.draft = registry]
  <1>1. work[a] \in Tasks /\ registry \in Registries
    BY DEF Typed, TypeOK
  <1>2. /\ t \in Tasks /\ t.label = "upsert" /\ t.draft = registry
        /\ t.call = work[a].call /\ t.copy = work[a].copy /\ t.behind = work[a].behind
    BY <1>1 DEF Tasks, Labels
  <1>3. work[a].label = "sync" /\ work' = [work EXCEPT ![a] = t]
    BY <1>1 DEF LoadRegistry
  <1> HIDE DEF t
  <1>4. Moves(a, t, {}) /\ work'[a] = t
    BY <1>2, <1>3, MovesAlone DEF Typed, TypeOK
  <1> QED
    BY <1>2, <1>3, <1>4

LEMMA RelabelMoves ==
  ASSUME Typed, NEW a \in Actors, NEW l \in Labels,
         work' = [work EXCEPT ![a].label = l]
  PROVE  /\ Moves(a, work'[a], {}) /\ work'[a] \in Tasks
         /\ work'[a].label = l /\ work'[a].draft = work[a].draft
         /\ work'[a].call = work[a].call /\ work'[a].copy = work[a].copy
         /\ work'[a].behind = work[a].behind
  <1> DEFINE t == [work[a] EXCEPT !.label = l]
  <1>1. work[a] \in Tasks
    BY DEF Typed, TypeOK
  <1>2. /\ t \in Tasks /\ t.label = l /\ t.draft = work[a].draft
        /\ t.call = work[a].call /\ t.copy = work[a].copy /\ t.behind = work[a].behind
    BY <1>1 DEF Tasks
  <1>3. work' = [work EXCEPT ![a] = t]
    OBVIOUS
  <1> HIDE DEF t
  <1>4. Moves(a, t, {}) /\ work'[a] = t
    BY <1>2, <1>3, MovesAlone DEF Typed, TypeOK
  <1> QED
    BY <1>2, <1>4

-----------------------------------------------------------------------------
(* Type correctness. *)

LEMMA EmptyFunction == DOMAIN <<>> = {} /\ \A S : <<>> \in [DOMAIN <<>> -> S]
  <1>1. <<>> = [x \in {} |-> x]
    OBVIOUS
  <1> QED
    BY <1>1

LEMMA InitTyped == Init => Typed
  <1> SUFFICES ASSUME Init PROVE Typed
    OBVIOUS
  <1> PICK start \in [Strategies -> InitialPairs] :
        /\ health   = [s \in Strategies |-> start[s][1]]
        /\ registry = [s \in Strategies |-> start[s][2]]
    BY DEF Init
  <1>1. \A s \in Strategies : /\ start[s][1] \in HealthEntries \cup {NoEntry}
                              /\ start[s][2] \in RegistryEntries \cup {Unregistered}
    BY DaemonAssumption
  <1>2. health \in Healths /\ registry \in Registries
    BY <1>1 DEF Healths, Registries
  <1>3. ASSUME NEW s \in Strategies, HealthEntry(health, s).status = "quarantined"
        PROVE  HealthEntry(health, s).recovery \in 0 .. RecoveryThreshold
    <2>1. HealthEntry(health, s) = health[s] /\ health[s] # NoEntry
      BY <1>3 DEF HealthEntry, DefaultEntry
    <2>2. health[s] = start[s][1]
      OBVIOUS
    <2>3. health[s].recovery < RecoveryThreshold
      BY <1>3, <2>1, <2>2, InitialAssumption
    <2>4. health[s].recovery \in Nat
      BY <1>2, <2>1 DEF HealthEntries, Healths
    <2> QED
      BY <2>1, <2>3, <2>4, ThresholdAssumption
  <1>4. approvals \in [Strategies -> 0 .. RecoveryThreshold]
    BY <1>3, ThresholdAssumption DEF Init
  <1>5. /\ DOMAIN rows = {} /\ rows \in [DOMAIN rows -> RegistryEntries]
        /\ DOMAIN verdicts = {} /\ verdicts \in [DOMAIN verdicts -> VerdictKinds]
    BY EmptyFunction DEF Init
  <1>6. /\ phase = "stopped" /\ running = FALSE /\ pending = {}
        /\ work = [a \in Actors |-> Resting] /\ decayed = Nothing /\ retiring = {}
        /\ touched = {} /\ cut = {} /\ cutAtScan = {}
        /\ unsynced = {} /\ apart = {} /\ diverted = {}
        /\ commandCalls = 0 /\ syncFailures = 0 /\ kills = 0
    BY DEF Init
  <1>7. work \in [Actors -> Tasks]
    BY <1>6, RestingType
  <1>8. \A a \in Actors : work[a] = Resting
    BY <1>6
  <1>9. Shape
    BY <1>6, <1>8, DaemonIsNoCommand
    DEF Shape, WellFormed, DaemonShape, CommandShape, Verdict, Kind, Resting
  <1> QED
    BY <1>2, <1>4, <1>5, <1>6, <1>7, <1>9 DEF Typed, TypeOK, NoVerdictsYet, Phases

(* The steps that move no task. *)
LEMMA QuietTyped ==
  ASSUME Typed,
         \/ \E forever \in BOOLEAN : Start(forever)
         \/ Scan \/ Execute \/ Wake \/ LastCycle \/ Stop
  PROVE  Typed'
  <1>1. UNCHANGED <<work, decayed, retiring>>
          /\ (UNCHANGED <<phase, verdicts, pending>> \/ phase \notin Records \cup {"verdicts"})
    BY DEF Start, Scan, Execute, Wake, LastCycle, Stop, decaying, cycle, Records, Ladder
  <1>2. Shape'
    BY <1>1, QuietShape, DaemonRests
  <1>3. TypeOK' /\ NoVerdictsYet'
    <2> USE DEF Typed, TypeOK, NoVerdictsYet, Phases, Ladder, files, cycle, decaying,
                bounds, past
    <2>1. CASE \E forever \in BOOLEAN : Start(forever)
      BY <2>1 DEF Start
    <2>2. CASE Scan
      <3>1. CASE Listed(phase) = {}
        BY <2>2, <3>1 DEF Scan, NextRung, Records
      <3>2. CASE Listed(phase) # {}
        <4>1. /\ rows' = [s \in Listed(phase) |-> registry[s]]
              /\ phase' = "allocate" /\ touched' = {} /\ cutAtScan' = cut
              /\ UNCHANGED <<files, running, verdicts, pending, work, decaying, bounds, past>>
              /\ DOMAIN verdicts = {} /\ pending = {}
          BY <2>2, <3>2 DEF Scan
        <4>2. /\ DOMAIN rows' \subseteq Strategies
              /\ rows' \in [DOMAIN rows' -> RegistryEntries]
          BY <4>1, ListedType DEF Registries
        <4> QED
          BY <4>1, <4>2
      <3> QED
        BY <3>1, <3>2
    <2>3. CASE Execute
      <3> PICK basket \in Baskets :
            /\ verdicts' \in [basket -> VerdictKinds]
            /\ pending' = basket
            /\ phase' = IF basket = {} THEN "cycle" ELSE "verdicts"
        BY <2>3 DEF Execute, VerdictKinds
      <3>1. basket \subseteq DOMAIN rows
        BY BasketType
      <3> QED
        BY <2>3, <3>1 DEF Execute, Records
    <2>4. CASE Wake
      BY <2>4 DEF Wake
    <2>5. CASE LastCycle
      BY <2>5 DEF LastCycle
    <2>6. CASE Stop
      BY <2>6 DEF Stop
    <2> QED
      BY <2>1, <2>2, <2>3, <2>4, <2>5, <2>6
  <1> QED
    BY <1>2, <1>3 DEF Typed

(* A verdict begins: recover_strategy or quarantine_strategy. *)
LEMMA BeginVerdictMoves ==
  ASSUME Typed, NEW s \in Strategies, BeginVerdict(s)
  PROVE  \E c \in Calls :
           /\ c.s = s /\ c.kind = IF Approved(s) THEN "recover" ELSE "quarantine"
           /\ Moves(Daemon, work'[Daemon], {}) /\ work'[Daemon] \in Tasks
           /\ work'[Daemon].label = "sync" /\ work'[Daemon].call = c
           /\ work'[Daemon].copy = Changed(c) /\ work'[Daemon].behind = {}
           /\ Idle(Daemon) /\ phase = "verdicts" /\ s \in pending
  <1> DEFINE c == [kind |-> IF Approved(s) THEN "recover" ELSE "quarantine", s |-> s]
  <1>1. /\ c \in Calls /\ c.s = s /\ c.kind = IF Approved(s) THEN "recover" ELSE "quarantine"
    BY DEF Calls
  <1>2. /\ Begin(Daemon, c, "sync", Changed(c)) /\ phase = "verdicts" /\ s \in pending
    BY DEF BeginVerdict
  <1> HIDE DEF c
  <1>3. Changed(c) \in Healths /\ "sync" \in Labels /\ Daemon \in Actors
    BY <1>1, ChangedType, DaemonIsNoCommand DEF Typed, TypeOK, Labels
  <1> QED
    BY <1>1, <1>2, <1>3, BeginMoves

LEMMA BeginVerdictTyped ==
  ASSUME Typed, NEW s \in Strategies, BeginVerdict(s)
  PROVE  Typed'
  <1> PICK c \in Calls :
        /\ c.s = s /\ c.kind = IF Approved(s) THEN "recover" ELSE "quarantine"
        /\ Moves(Daemon, work'[Daemon], {}) /\ work'[Daemon] \in Tasks
        /\ work'[Daemon].label = "sync" /\ work'[Daemon].call = c
        /\ work'[Daemon].copy = Changed(c) /\ work'[Daemon].behind = {}
        /\ Idle(Daemon) /\ phase = "verdicts" /\ s \in pending
    BY BeginVerdictMoves
  <1>1. UNCHANGED <<files, phase, running, cycle, decaying, bounds, touched, cutAtScan, past>>
    BY DEF BeginVerdict
  <1>2. /\ Changed(c) \in Healths /\ Changed(c)[s] \in HealthEntries
        /\ c.kind = "quarantine" =>
             Changed(c)[s].status = "quarantined" /\ Changed(c)[s].recovery = 0
    BY ChangedType DEF Typed, TypeOK
  <1>3. c # Nothing /\ c.kind \in {"quarantine", "recover"}
          /\ (c.kind = "recover" => verdicts[s] = "accepted")
    BY DaemonAssumption DEF Approved
  <1>4. WellFormed(work'[Daemon])
    BY <1>2, <1>3 DEF WellFormed, Verdict, OnEntry
  <1>5. retiring = {}
    BY DEF Typed, Shape, DaemonShape, Idle
  <1>6. DaemonShape'
    BY <1>1, <1>2, <1>3, <1>5 DEF DaemonShape, Verdict, Kind, cycle, decaying
  <1>7. Shape'
    BY <1>4, <1>6, DaemonMovesShape
  <1> QED
    BY <1>1, <1>7 DEF Typed, TypeOK, NoVerdictsYet, Moves, files, cycle, decaying, bounds, past

LEMMA LoadRegistryTyped ==
  ASSUME Typed, NEW a \in Actors, LoadRegistry(a)
  PROVE  Typed'
  <1>1. /\ Moves(a, work'[a], {}) /\ work'[a] \in Tasks
        /\ work[a].label = "sync" /\ work'[a].label = "upsert"
        /\ work'[a].draft = registry
        /\ work'[a].call = work[a].call /\ work'[a].copy = work[a].copy
    BY LoadRegistryMoves
  <1>2. UNCHANGED <<files, phase, running, cycle, decaying, bounds, touched, cutAtScan, past>>
    BY DEF LoadRegistry
  <1>3. WellFormed(work'[a])
    BY <1>1 DEF Typed, TypeOK, Shape, WellFormed, Kind, OnEntry, Verdict
  <1>4. Shape'
    <2>1. CASE a = Daemon
      <3>1. DaemonShape'
        BY <1>1, <1>2, <2>1 DEF Typed, Shape, DaemonShape, Verdict, Kind, cycle, decaying
      <3> QED
        BY <1>1, <1>3, <2>1, <3>1, DaemonMovesShape
    <2>2. CASE a \in Commands
      <3>1. Kind(work'[a], "evolve") \/ Kind(work'[a], "drift") \/ Kind(work'[a], "record")
        BY <1>1, <2>2 DEF Typed, Shape, CommandShape, Kind
      <3> QED
        BY <1>1, <1>2, <1>3, <2>2, <3>1, CommandMovesShape DEF cycle, decaying
    <2> QED
      BY <2>1, <2>2 DEF Actors
  <1> QED
    BY <1>1, <1>2, <1>4 DEF Typed, TypeOK, NoVerdictsYet, Moves, files, cycle, decaying, bounds, past

(* The daemon's task once the registry has been told, or not.              *)
LEMMA SyncedDaemonShape ==
  ASSUME Typed, NEW s \in Strategies,
         work[Daemon].label \in {"sync", "upsert"}, s \in Targets(Daemon),
         work'[Daemon] = Synced(Daemon, s), retiring' = retiring \ {s},
         UNCHANGED <<phase, verdicts, pending, decayed>>
  PROVE  DaemonShape'
  <1> DEFINE a == Daemon
  <1>2. /\ work[a].call.kind # "evolve" =>
             /\ Synced(a, s).call = work[a].call /\ Synced(a, s).copy = work[a].copy
             /\ Synced(a, s).label = AfterSync(a, s)
        /\ work[a].call.kind = "cycle" =>
             AfterSync(a, s) = IF retiring = {s} THEN "decaySave" ELSE "sync"
        /\ work[a].call.kind \in {"quarantine", "recover"} => AfterSync(a, s) = "save"
    BY SyncedType, DaemonIsNoCommand
  <1>5. Verdict(work[a]) \/ Kind(work[a], "cycle")
    BY UpsertingTask, DaemonIsNoCommand DEF Typed, Shape, DaemonShape, Verdict, Kind
  <1>6. DaemonShape
    BY DEF Typed, Shape
  <1>7. CASE Kind(work[a], "cycle")
    BY <1>2, <1>6, <1>7 DEF DaemonShape, Verdict, Kind
  <1>8. CASE Verdict(work[a])
    BY <1>2, <1>6, <1>8 DEF DaemonShape, Verdict, Kind
  <1> QED
    BY <1>5, <1>7, <1>8

LEMMA SaveRegistryTyped ==
  ASSUME Typed, NEW a \in Actors, NEW s \in Strategies, SaveRegistry(a, s)
  PROVE  Typed'
  <1>1. work[a].label = "upsert" /\ s \in Targets(a)
    BY DEF SaveRegistry
  <1> PICK D \in SUBSET Strategies :
        /\ Moves(a, Synced(a, s), D)
        /\ touched' \subseteq Strategies
    BY SaveRegistryMoves
  <1>2. /\ Synced(a, s) \in Tasks /\ WellFormed(Synced(a, s))
        /\ work[a].call.kind = "evolve" => Synced(a, s) = Resting
        /\ work[a].call.kind # "evolve" =>
             /\ Synced(a, s).call = work[a].call /\ Synced(a, s).copy = work[a].copy
             /\ Synced(a, s).label = AfterSync(a, s)
        /\ work[a].call.kind = "cycle" =>
             AfterSync(a, s) = IF retiring = {s} THEN "decaySave" ELSE "sync"
        /\ work[a].call.kind \in {"quarantine", "recover"} => AfterSync(a, s) = "save"
    BY <1>1, SyncedType
  <1>3. /\ UNCHANGED <<health, phase, running, cycle, decayed, bounds, cutAtScan, diverted,
                       approvals>>
        /\ retiring' = IF a = Daemon THEN retiring \ {s} ELSE retiring
    BY DEF SaveRegistry
  <1>4. registry' \in Registries
    BY SaveRegistryEffect
  <1>5. unsynced' \subseteq Strategies /\ apart' \subseteq Strategies /\ cut' \subseteq Strategies
    <2>1. /\ unsynced \subseteq Strategies /\ apart \subseteq Strategies
          /\ cut \subseteq Strategies /\ work[a].behind \subseteq Strategies
      BY TaskType DEF Typed, TypeOK
    <2>2. /\ unsynced' \subseteq unsynced
          /\ apart' \subseteq apart \cup work[a].behind \cup {s}
          /\ cut' \subseteq cut \cup {s}
      BY DEF SaveRegistry
    <2> QED
      BY <2>1, <2>2
  <1>6. work'[a] = Synced(a, s)
    BY DEF Moves
  <1>7. Shape'
    <2>1. CASE a = Daemon
      <3>1. DaemonShape'
        BY <1>1, <1>3, <1>6, <2>1, SyncedDaemonShape DEF cycle
      <3> QED
        BY <1>2, <2>1, <3>1, DaemonMovesShape
    <2>2. CASE a \in Commands
      <3>1. a # Daemon
        BY <2>2, DaemonIsNoCommand
      <3>2. Synced(a, s).label # "idle" =>
              \/ Kind(Synced(a, s), "evolve") \/ Kind(Synced(a, s), "drift")
              \/ Kind(Synced(a, s), "record")
        BY <1>1, <1>2, <2>2 DEF Typed, Shape, CommandShape, Kind, Resting
      <3> QED
        BY <1>2, <1>3, <2>2, <3>1, <3>2, CommandMovesShape DEF cycle
    <2> QED
      BY <2>1, <2>2 DEF Actors
  <1> QED
    BY <1>3, <1>4, <1>5, <1>7 DEF Typed, TypeOK, NoVerdictsYet, Moves, cycle, bounds

LEMMA SyncFailsTyped ==
  ASSUME Typed, NEW s \in Strategies, SyncFails(s)
  PROVE  /\ Typed' /\ Moves(Daemon, Synced(Daemon, s), {})
         /\ work[Daemon].label \in {"sync", "upsert"} /\ s \in Targets(Daemon)
  <1>1. /\ work[Daemon].label \in {"sync", "upsert"} /\ s \in Targets(Daemon)
        /\ work' = [work EXCEPT ![Daemon] = Synced(Daemon, s)]
        /\ retiring' = retiring \ {s} /\ unsynced' = unsynced \cup {s}
        /\ apart' \subseteq apart \cup {s} /\ syncFailures' = syncFailures + 1
        /\ UNCHANGED <<files, phase, running, cycle, decayed, commandCalls, kills, touched,
                       cutAtScan, diverted, cut, approvals>>
    BY DEF SyncFails
  <1> DEFINE a == Daemon
  <1>2. /\ Synced(a, s) \in Tasks /\ WellFormed(Synced(a, s))
    BY <1>1, SyncedType, DaemonIsNoCommand
  <1>3. Moves(Daemon, Synced(Daemon, s), {})
    BY <1>1, <1>2, MovesAlone, DaemonIsNoCommand DEF Typed, TypeOK
  <1>4. work'[a] = Synced(a, s)
    BY <1>3 DEF Moves
  <1>7. DaemonShape'
    BY <1>1, <1>4, SyncedDaemonShape DEF cycle
  <1>8. Shape'
    BY <1>2, <1>3, <1>7, DaemonMovesShape
  <1>9. Typed'
    BY <1>1, <1>3, <1>8 DEF Typed, TypeOK, NoVerdictsYet, Moves, files, cycle
  <1> QED
    BY <1>1, <1>3, <1>9

LEMMA SaveVerdictTyped ==
  ASSUME Typed, SaveVerdict
  PROVE  Typed'
  <1> DEFINE c    == work[Daemon].call
             lost == work[Daemon].behind
  <1>1. /\ c # Nothing /\ c.kind \in {"quarantine", "recover"}
        /\ SaveState(Daemon, Resting) /\ work[Daemon].label = "save"
        /\ pending' = pending \ {c.s}
        /\ phase' = IF pending = {c.s} THEN "cycle" ELSE "verdicts"
        /\ UNCHANGED <<registry, running, rows, verdicts, decaying, bounds, cutAtScan,
                       unsynced, cut>>
    BY DEF SaveVerdict, SaveState
  <1>2. c.s \in Strategies /\ lost \subseteq Strategies
    BY <1>1, SavingTask, DaemonIsNoCommand, TaskType
  <1>3. /\ apart' \subseteq apart \cup lost \cup {c.s}
        /\ diverted' \subseteq diverted \cup lost
        /\ \/ approvals' = [approvals EXCEPT ![c.s] = Capped(approvals[c.s] + 1)]
           \/ approvals' = [approvals EXCEPT ![c.s] = 0]
    BY <1>1 DEF SaveVerdict
  <1> PICK D \in SUBSET Strategies : Moves(Daemon, Resting, D) /\ touched' \subseteq Strategies
    BY <1>1, SaveStateMoves, RestingType, DaemonIsNoCommand
  <1>4. health' \in Healths
    BY <1>1, SaveStateMoves, RestingType, DaemonIsNoCommand
  <1>5. approvals' \in [Strategies -> 0 .. RecoveryThreshold]
    <2>1. approvals \in [Strategies -> 0 .. RecoveryThreshold]
      BY DEF Typed, TypeOK
    <2>2. 0 \in 0 .. RecoveryThreshold /\ Capped(approvals[c.s] + 1) \in 0 .. RecoveryThreshold
      BY <1>2, <2>1, ThresholdAssumption DEF Capped
    <2> QED
      BY <1>2, <1>3, <2>1, <2>2
  <1>6. phase = "verdicts" /\ retiring = {}
    BY <1>1 DEF Typed, Shape, DaemonShape, Verdict, Kind
  <1>7. Shape'
    <2>1. WellFormed(Resting)
      BY DEF WellFormed, Resting
    <2>2. work'[Daemon] = Resting /\ retiring' = {}
      BY <1>1, <1>6 DEF Moves, decaying
    <2>3. DaemonShape'
      BY <2>2 DEF DaemonShape, Verdict, Kind, Resting
    <2> QED
      BY <2>1, <2>3, RestingType, DaemonMovesShape
  <1>8. NoVerdictsYet'
    BY <1>1, <1>6 DEF NoVerdictsYet, Typed
  <1>9. apart' \subseteq Strategies /\ diverted' \subseteq Strategies
    BY <1>2, <1>3 DEF Typed, TypeOK
  <1> HIDE DEF c, lost
  <1>10. TypeOK'
    BY <1>1, <1>4, <1>5, <1>9 DEF Typed, TypeOK, Moves, decaying, bounds, Phases, Records
  <1> QED
    BY <1>7, <1>8, <1>10 DEF Typed

(* The record of a cycle: append_cycle, append_execution, append_risk_event. *)
LEMMA BeginRecordMoves ==
  ASSUME Typed, BeginRecord
  PROVE  /\ Moves(Daemon, work'[Daemon], {}) /\ work'[Daemon] \in Tasks /\ Idle(Daemon)
         /\ work'[Daemon].label = IF phase = "cycle" THEN "decay" ELSE "save"
         /\ IF phase = "cycle" THEN Kind(work'[Daemon], "cycle")
                               ELSE Kind(work'[Daemon], "record")
         /\ work'[Daemon].call \in Calls
         /\ work'[Daemon].copy = health /\ work'[Daemon].behind = {}
         /\ phase \in Records
         /\ UNCHANGED <<files, phase, running, cycle, decaying, bounds, touched, cutAtScan,
                        past>>
  <1> DEFINE c == [kind |-> IF phase = "cycle" THEN "cycle" ELSE "record"]
             l == IF phase = "cycle" THEN "decay" ELSE "save"
  <1>1. c \in Calls /\ c.kind = IF phase = "cycle" THEN "cycle" ELSE "record"
    BY DEF Calls
  <1>2. l \in Labels /\ health \in Healths /\ Daemon \in Actors
    BY DaemonIsNoCommand DEF Labels, Typed, TypeOK
  <1>3. Begin(Daemon, c, l, health)
    BY DEF BeginRecord
  <1>4. /\ phase \in Records
        /\ UNCHANGED <<files, phase, running, cycle, decaying, bounds, touched, cutAtScan,
                       past>>
    BY DEF BeginRecord
  <1> HIDE DEF c
  <1>5. c # Nothing
    BY <1>1, DaemonAssumption
  <1> QED
    BY <1>1, <1>2, <1>3, <1>4, <1>5, BeginMoves DEF Kind

LEMMA BeginRecordTyped ==
  ASSUME Typed, BeginRecord
  PROVE  Typed'
  <1>1. /\ Moves(Daemon, work'[Daemon], {}) /\ work'[Daemon] \in Tasks /\ Idle(Daemon)
        /\ work'[Daemon].label = IF phase = "cycle" THEN "decay" ELSE "save"
        /\ IF phase = "cycle" THEN Kind(work'[Daemon], "cycle")
                              ELSE Kind(work'[Daemon], "record")
        /\ work'[Daemon].copy = health /\ phase \in Records
        /\ work'[Daemon].call \in Calls
    BY BeginRecordMoves
  <1>2. UNCHANGED <<files, phase, running, cycle, decaying, bounds, touched, cutAtScan, past>>
    BY BeginRecordMoves
  <1>3. WellFormed(work'[Daemon])
    BY <1>1 DEF WellFormed, Typed, TypeOK
  <1>4. retiring = {}
    BY <1>1 DEF Typed, Shape, DaemonShape, Idle
  <1>5. DaemonShape'
    BY <1>1, <1>2, <1>4 DEF DaemonShape, Verdict, Kind, decaying
  <1>6. Shape'
    BY <1>1, <1>3, <1>5, DaemonMovesShape
  <1> QED
    BY <1>1, <1>2, <1>6 DEF Typed, TypeOK, NoVerdictsYet, Moves, files, cycle, decaying,
                            bounds, past

(* One strategy's share of apply_rolling_decay. *)
LEMMA WithDecayType ==
  ASSUME health \in Healths, NEW active
  PROVE  /\ WithDecay(active) \in Healths
         /\ \A r \in Strategies :
              WithDecay(active)[r] =
                IF health[r] = NoEntry THEN NoEntry
                ELSE IF r \in active THEN Refreshed(health[r]) ELSE Decayed(health[r])
         /\ RetiredByDecay(active) \subseteq Strategies
  <1>1. \A r \in Strategies : health[r] # NoEntry =>
          Refreshed(health[r]) \in HealthEntries /\ Decayed(health[r]) \in HealthEntries
    BY RefreshedType, DecayedType DEF Healths
  <1> QED
    BY <1>1 DEF WithDecay, Known, RetiredByDecay, Healths

LEMMA ApplyRollingDecayMoves ==
  ASSUME Typed, ApplyRollingDecay
  PROVE  /\ Moves(Daemon, work'[Daemon], {}) /\ work'[Daemon] \in Tasks
         /\ work[Daemon].label = "decay" /\ work[Daemon].call \in Calls
         /\ work'[Daemon].label \in {"sync", "decaySave", "save"}
         /\ work'[Daemon].label # "save" => decayed' = WithDecay(DOMAIN verdicts)
         /\ work'[Daemon].label # "sync" => retiring' = {}
         /\ retiring' = RetiredByDecay(DOMAIN verdicts)
         /\ Kind(work'[Daemon], "cycle") /\ phase = "cycle"
         /\ work'[Daemon].call = work[Daemon].call
         /\ work'[Daemon].copy = work[Daemon].copy /\ work[Daemon].copy \in Healths
         /\ work'[Daemon].behind = work[Daemon].behind
         /\ decayed' \in Healths \cup {Nothing}
         /\ UNCHANGED <<files, phase, running, cycle, bounds, touched, cutAtScan, past>>
  <1> DEFINE active  == DOMAIN verdicts
             retired == RetiredByDecay(active)
             saved   == Known \cap active # {} \/ retired # {}
             l == IF retired # {} THEN "sync" ELSE IF saved THEN "decaySave" ELSE "save"
  <1>1. /\ work[Daemon].label = "decay"
        /\ decayed' = IF saved THEN WithDecay(active) ELSE Nothing
        /\ retiring' = retired
        /\ work' = [work EXCEPT ![Daemon].label = l]
        /\ UNCHANGED <<files, phase, running, cycle, bounds, touched, cutAtScan, past>>
    BY DEF ApplyRollingDecay
  <1>2. /\ l \in {"sync", "decaySave", "save"}
        /\ l # "save" => saved
        /\ l # "sync" => retired = {}
    OBVIOUS
  <1> HIDE DEF l, saved
  <1>3. l \in Labels /\ Daemon \in Actors
    BY <1>2, DaemonIsNoCommand DEF Labels
  <1>4. /\ Moves(Daemon, work'[Daemon], {}) /\ work'[Daemon] \in Tasks
        /\ work'[Daemon].label = l /\ work'[Daemon].call = work[Daemon].call
        /\ work'[Daemon].copy = work[Daemon].copy
        /\ work'[Daemon].behind = work[Daemon].behind
    BY <1>1, <1>3, RelabelMoves
  <1>5. Kind(work[Daemon], "cycle") /\ work[Daemon].copy \in Healths
          /\ work[Daemon].call \in Calls
    BY <1>1, <1>3 DEF Typed, Shape, WellFormed
  <1>6. phase = "cycle" /\ Kind(work'[Daemon], "cycle")
    BY <1>4, <1>5 DEF Typed, Shape, DaemonShape, Kind
  <1>7. WithDecay(active) \in Healths
    BY WithDecayType DEF Typed, TypeOK
  <1> QED
    BY <1>1, <1>2, <1>4, <1>5, <1>6, <1>7

LEMMA ApplyRollingDecayTyped ==
  ASSUME Typed, ApplyRollingDecay
  PROVE  Typed'
  <1>1. /\ Moves(Daemon, work'[Daemon], {}) /\ work'[Daemon] \in Tasks
        /\ work[Daemon].label = "decay" /\ work[Daemon].call \in Calls
        /\ work'[Daemon].label \in {"sync", "decaySave", "save"}
        /\ work'[Daemon].label # "save" => decayed' = WithDecay(DOMAIN verdicts)
        /\ work'[Daemon].label # "sync" => retiring' = {}
        /\ retiring' = RetiredByDecay(DOMAIN verdicts)
        /\ Kind(work'[Daemon], "cycle") /\ phase = "cycle"
        /\ work'[Daemon].call = work[Daemon].call
        /\ work'[Daemon].copy = work[Daemon].copy /\ work[Daemon].copy \in Healths
        /\ decayed' \in Healths \cup {Nothing}
        /\ UNCHANGED <<files, phase, running, cycle, bounds, touched, cutAtScan, past>>
    BY ApplyRollingDecayMoves
  <1>2. WellFormed(work'[Daemon])
    BY <1>1 DEF WellFormed
  <1>3. WithDecay(DOMAIN verdicts) \in Healths /\ retiring' \subseteq Strategies
    BY <1>1, WithDecayType DEF Typed, TypeOK
  <1>4. DaemonShape'
    BY <1>1, <1>3 DEF DaemonShape, Verdict, Kind
  <1>5. Shape'
    BY <1>1, <1>2, <1>4, DaemonMovesShape
  <1> QED
    BY <1>1, <1>3, <1>5 DEF Typed, TypeOK, NoVerdictsYet, Moves, files, cycle, bounds, past

LEMMA SaveDecayMoves ==
  ASSUME Typed, SaveDecay
  PROVE  /\ work'[Daemon] \in Tasks
         /\ work[Daemon].label = "decaySave" /\ work'[Daemon].label = "save"
         /\ Kind(work[Daemon], "cycle") /\ work[Daemon].call \in Calls
         /\ work'[Daemon].call = work[Daemon].call
         /\ work'[Daemon].copy = work[Daemon].copy /\ work[Daemon].copy \in Healths
         /\ work'[Daemon].behind = work[Daemon].behind /\ work[Daemon].behind \subseteq Strategies
         /\ health' = decayed /\ decayed \in Healths /\ retiring = {}
         /\ \E D \in SUBSET Strategies :
              /\ Moves(Daemon, work'[Daemon], D)
              /\ \A r \in Strategies \ D : health'[r] = health[r]
         /\ touched' = touched
  <1> DEFINE D == Differences(health, decayed)
             t == [work[Daemon] EXCEPT !.label = "save"]
  <1>1. /\ work[Daemon].label = "decaySave" /\ health' = decayed /\ Written(Daemon, t, D)
    BY DEF SaveDecay
  <1>2. /\ Daemon \in Actors /\ WellFormed(work[Daemon]) /\ DaemonShape
        /\ work[Daemon] \in Tasks
    BY DaemonIsNoCommand DEF Typed, TypeOK, Shape
  <1>3. /\ Kind(work[Daemon], "cycle") /\ work[Daemon].call \in Calls
        /\ work[Daemon].copy \in Healths /\ decayed \in Healths /\ retiring = {}
    BY <1>1, <1>2 DEF WellFormed, DaemonShape
  <1>4. /\ t \in Tasks /\ t.label = "save" /\ t.call = work[Daemon].call
        /\ t.copy = work[Daemon].copy /\ t.behind = work[Daemon].behind
        /\ work[Daemon].behind \subseteq Strategies
    BY <1>2 DEF Tasks, Labels
  <1>5. D \in SUBSET Strategies /\ \A r \in Strategies \ D : health'[r] = health[r]
    BY <1>1 DEF Differences
  <1> HIDE DEF D, t
  <1>6. Moves(Daemon, t, D)
    BY <1>1, <1>2, <1>4, <1>5, MovesOvertaking DEF Written, Typed, TypeOK
  <1>7. work'[Daemon] = t
    BY <1>6 DEF Moves
  <1>8. touched' = touched
    BY <1>1 DEF Written
  <1> QED
    BY <1>1, <1>3, <1>4, <1>5, <1>6, <1>7, <1>8

LEMMA SaveDecayTyped ==
  ASSUME Typed, SaveDecay
  PROVE  Typed'
  <1>1. /\ work'[Daemon] \in Tasks
        /\ work[Daemon].label = "decaySave" /\ work'[Daemon].label = "save"
        /\ Kind(work[Daemon], "cycle") /\ work[Daemon].call \in Calls
        /\ work'[Daemon].call = work[Daemon].call
        /\ work'[Daemon].copy = work[Daemon].copy /\ work[Daemon].copy \in Healths
        /\ work[Daemon].behind \subseteq Strategies
        /\ health' = decayed /\ decayed \in Healths /\ retiring = {}
        /\ touched' = touched
    BY SaveDecayMoves
  <1> PICK D \in SUBSET Strategies : Moves(Daemon, work'[Daemon], D)
    BY SaveDecayMoves
  <1>2. /\ decayed' = Nothing /\ apart' = apart \cup work[Daemon].behind
        /\ diverted' = diverted \cup work[Daemon].behind
        /\ UNCHANGED <<registry, phase, running, cycle, retiring, bounds, cutAtScan, unsynced,
                       cut, approvals>>
    BY DEF SaveDecay
  <1>3. WellFormed(work'[Daemon])
    BY <1>1 DEF WellFormed, Kind
  <1>4. DaemonShape'
    BY <1>1, <1>2 DEF Typed, Shape, DaemonShape, Verdict, Kind, cycle
  <1>5. Shape'
    BY <1>1, <1>3, <1>4, DaemonMovesShape
  <1> QED
    BY <1>1, <1>2, <1>5 DEF Typed, TypeOK, NoVerdictsYet, Moves, cycle, bounds

LEMMA SaveRecordMoves ==
  ASSUME Typed, SaveRecord
  PROVE  /\ work[Daemon].label = "save" /\ phase \in Records
         /\ Kind(work[Daemon], "cycle") \/ Kind(work[Daemon], "record")
         /\ work[Daemon].behind \subseteq Strategies
         /\ health' = work[Daemon].copy /\ health' \in Healths
         /\ retiring = {} /\ UNCHANGED decaying
         /\ \E D \in SUBSET Strategies :
              /\ Moves(Daemon, Resting, D)
              /\ \A r \in Strategies \ D : health'[r] = health[r]
  <1> DEFINE D == Differences(health, health')
  <1>1. /\ work[Daemon].label = "save" /\ phase \in Records /\ health' = work[Daemon].copy
        /\ Overtaken(Daemon, Resting, D) /\ UNCHANGED decaying
    BY DEF SaveRecord
  <1>2. /\ Daemon \in Actors /\ WellFormed(work[Daemon]) /\ DaemonShape
        /\ work[Daemon] \in Tasks
    BY DaemonIsNoCommand DEF Typed, TypeOK, Shape
  <1>3. /\ Kind(work[Daemon], "cycle") \/ Kind(work[Daemon], "record")
        /\ work[Daemon].copy \in Healths /\ retiring = {}
    BY <1>1, <1>2 DEF WellFormed, DaemonShape, Records
  <1>4. D \in SUBSET Strategies /\ \A r \in Strategies \ D : health'[r] = health[r]
    BY DEF Differences
  <1> HIDE DEF D
  <1>5. Moves(Daemon, Resting, D)
    BY <1>1, <1>2, <1>4, RestingType, MovesOvertaking DEF Typed, TypeOK
  <1>6. work[Daemon].behind \subseteq Strategies
    BY <1>2, TaskType
  <1> QED
    BY <1>1, <1>3, <1>4, <1>5, <1>6

LEMMA SaveRecordTyped ==
  ASSUME Typed, SaveRecord
  PROVE  Typed'
  <1>1. /\ phase \in Records /\ work[Daemon].behind \subseteq Strategies
        /\ health' \in Healths /\ retiring = {} /\ UNCHANGED decaying
    BY SaveRecordMoves
  <1> PICK D \in SUBSET Strategies : Moves(Daemon, Resting, D)
    BY SaveRecordMoves
  <1>2. /\ apart' = apart \cup work[Daemon].behind
        /\ diverted' = diverted \cup work[Daemon].behind
        /\ rows' = <<>> /\ verdicts' = <<>> /\ pending' = {}
        /\ touched' = {} /\ cutAtScan' = {} /\ phase' = NextRecord(phase)
        /\ UNCHANGED <<registry, running, bounds, unsynced, cut, approvals>>
    BY DEF SaveRecord, ForgetCycle
  <1>3. phase' \in Phases
    BY <1>1, <1>2 DEF NextRecord, Records, Phases
  <1>4. work'[Daemon] = Resting /\ WellFormed(Resting)
    BY DEF Moves, WellFormed, Resting
  <1>5. DaemonShape'
    BY <1>1, <1>4 DEF DaemonShape, Verdict, Kind, Resting, decaying
  <1>6. Shape'
    BY <1>4, <1>5, RestingType, DaemonMovesShape
  <1>7. NoVerdictsYet'
    BY <1>2, EmptyFunction DEF NoVerdictsYet
  <1>8. TypeOK'
    BY <1>1, <1>2, <1>3, EmptyFunction DEF Typed, TypeOK, Moves, decaying, bounds
  <1> QED
    BY <1>6, <1>7, <1>8 DEF Typed

(* The daemon or a command is killed: its task is gone. *)
LEMMA KilledMoves ==
  ASSUME Typed, NEW a \in Actors, Killed(a)
  PROVE  Moves(a, Resting, {}) /\ kills' \in Nat
  <1>1. work' = [work EXCEPT ![a] = Resting] /\ kills' = kills + 1
    BY DEF Killed
  <1>2. Moves(a, Resting, {})
    BY <1>1, RestingType, MovesAlone DEF Typed, TypeOK
  <1> QED
    BY <1>1, <1>2 DEF Typed, TypeOK

LEMMA CrashTyped ==
  ASSUME Typed, Crash
  PROVE  Typed' /\ Moves(Daemon, Resting, {})
  <1>1. Moves(Daemon, Resting, {}) /\ kills' \in Nat
    BY KilledMoves, DaemonIsNoCommand DEF Crash
  <1>2. /\ phase' = "stopped" /\ running' = FALSE
        /\ rows' = <<>> /\ verdicts' = <<>> /\ pending' = {}
        /\ touched' = {} /\ cutAtScan' = {}
        /\ decayed' = Nothing /\ retiring' = {}
        /\ UNCHANGED <<files, commandCalls, syncFailures, past>>
    BY DEF Crash, ForgetCycle
  <1>3. work'[Daemon] = Resting /\ WellFormed(Resting)
    BY <1>1 DEF Moves, WellFormed, Resting
  <1>4. DaemonShape'
    BY <1>2, <1>3 DEF DaemonShape, Verdict, Kind, Resting
  <1>5. Shape'
    BY <1>1, <1>3, <1>4, RestingType, DaemonMovesShape
  <1>6. TypeOK' /\ NoVerdictsYet'
    BY <1>1, <1>2, EmptyFunction DEF Typed, TypeOK, NoVerdictsYet, Moves, files, past, Phases
  <1> QED
    BY <1>1, <1>5, <1>6 DEF Typed

LEMMA CommandEndsTyped ==
  ASSUME Typed, NEW c \in Commands, CommandEnds(c)
  PROVE  Typed' /\ Moves(c, Resting, {})
  <1>1. Moves(c, Resting, {}) /\ kills' \in Nat
    BY KilledMoves, DaemonIsNoCommand DEF CommandEnds
  <1>2. UNCHANGED <<files, phase, running, cycle, decaying, commandCalls, syncFailures,
                    touched, cutAtScan, past>>
    BY DEF CommandEnds
  <1>3. WellFormed(Resting) /\ Resting.label = "idle"
    BY DEF WellFormed, Resting
  <1>4. Shape'
    BY <1>1, <1>2, <1>3, RestingType, CommandMovesShape DEF cycle, decaying
  <1> QED
    BY <1>1, <1>2, <1>4 DEF Typed, TypeOK, NoVerdictsYet, Moves, files, cycle, decaying, past

(* A command begins a call. *)
LEMMA BeginCommandTyped ==
  ASSUME Typed, NEW c \in Commands, NEW call \in Calls, NEW l \in {"sync", "save"},
         NEW copy \in Healths \cup {Nothing},
         call.kind \in {"evolve", "drift", "record"},
         call.kind = "evolve" => l = "sync",
         call.kind # "evolve" => l = "save" /\ copy \in Healths,
         call.kind = "drift" => copy[call.s] \in HealthEntries,
         BeginCommand(c, call, l, copy)
  PROVE  /\ Typed'
         /\ Moves(c, work'[c], {}) /\ work'[c].label = l /\ work'[c].call = call
         /\ work'[c].copy = copy /\ work'[c].behind = {}
         /\ UNCHANGED <<files, phase, running, cycle, decaying, syncFailures, kills, touched,
                        cutAtScan, past>>
  <1>1. /\ Begin(c, call, l, copy) /\ commandCalls' = commandCalls + 1
        /\ UNCHANGED <<files, phase, running, cycle, decaying, syncFailures, kills, touched,
                       cutAtScan, past>>
    BY DEF BeginCommand
  <1>2. l \in Labels /\ c \in Actors
    BY DaemonIsNoCommand DEF Labels
  <1>3. /\ Moves(c, work'[c], {}) /\ work'[c] \in Tasks
        /\ work'[c].label = l /\ work'[c].call = call /\ work'[c].copy = copy
        /\ work'[c].draft = Nothing /\ work'[c].behind = {}
    BY <1>1, <1>2, BeginMoves
  <1>4. call # Nothing
    BY DaemonAssumption
  <1>5. WellFormed(work'[c])
    BY <1>3, <1>4 DEF WellFormed, Kind, OnEntry, Verdict
  <1>6. Kind(work'[c], "evolve") \/ Kind(work'[c], "drift") \/ Kind(work'[c], "record")
    BY <1>3, <1>4 DEF Kind
  <1>7. Shape'
    BY <1>1, <1>3, <1>5, <1>6, CommandMovesShape DEF cycle, decaying
  <1>8. Typed'
    BY <1>1, <1>3, <1>7 DEF Typed, TypeOK, NoVerdictsYet, Moves, files, cycle, decaying, past
  <1> QED
    BY <1>1, <1>3, <1>8

LEMMA EvolveTyped ==
  ASSUME Typed, NEW c \in Commands, NEW s \in Strategies, NEW p \in Generated,
         Evolve(c, s, p)
  PROVE  /\ Typed' /\ Moves(c, work'[c], {})
         /\ work'[c].label = "sync" /\ Kind(work'[c], "evolve")
         /\ UNCHANGED <<files, phase, running, cycle, decaying, touched, cutAtScan, past>>
  <1> DEFINE call == [kind |-> "evolve", s |-> s, promotion |-> p]
  <1>1. call \in Calls /\ call.kind = "evolve"
    BY DaemonAssumption DEF Calls
  <1>2. BeginCommand(c, call, "sync", Nothing)
    BY DEF Evolve
  <1>3. call # Nothing
    BY <1>1, DaemonAssumption
  <1> HIDE DEF call
  <1> QED
    BY <1>1, <1>2, <1>3, BeginCommandTyped DEF Kind

LEMMA DriftTyped ==
  ASSUME Typed, NEW c \in Commands, NEW s \in Strategies, NEW v \in DriftVerdicts,
         Drift(c, s, v)
  PROVE  /\ Typed' /\ Moves(c, work'[c], {})
         /\ work'[c].label = "save" /\ Kind(work'[c], "drift")
         /\ work'[c].call \in Calls /\ work'[c].call.s = s
         /\ work'[c].copy = Changed(work'[c].call) /\ work'[c].behind = {}
         /\ UNCHANGED <<files, phase, running, cycle, decaying, touched, cutAtScan, past>>
  <1> DEFINE call == [kind |-> "drift", s |-> s, verdict |-> v]
  <1>1. call \in Calls /\ call.kind = "drift" /\ call.s = s
    BY DEF Calls
  <1>2. BeginCommand(c, call, "save", Changed(call))
    BY DEF Drift
  <1>3. call # Nothing
    BY <1>1, DaemonAssumption
  <1>4. Changed(call) \in Healths /\ Changed(call)[call.s] \in HealthEntries
    BY <1>1, ChangedType DEF Typed, TypeOK
  <1> HIDE DEF call
  <1> QED
    BY <1>1, <1>2, <1>3, <1>4, BeginCommandTyped DEF Kind

LEMMA CommandExecutesTyped ==
  ASSUME Typed, NEW c \in Commands, CommandExecutes(c)
  PROVE  /\ Typed' /\ Moves(c, work'[c], {})
         /\ work'[c].label = "save" /\ Kind(work'[c], "record")
         /\ work'[c].copy = health /\ work'[c].behind = {}
         /\ UNCHANGED <<files, phase, running, cycle, decaying, touched, cutAtScan, past>>
  <1> DEFINE call == [kind |-> "record"]
  <1>1. call \in Calls /\ call.kind = "record"
    BY DEF Calls
  <1>2. BeginCommand(c, call, "save", health)
    BY DEF CommandExecutes
  <1>3. call # Nothing /\ health \in Healths
    BY <1>1, DaemonAssumption DEF Typed, TypeOK
  <1> HIDE DEF call
  <1> QED
    BY <1>1, <1>2, <1>3, BeginCommandTyped DEF Kind

(* risk.py saves the state file, and then tells the registry. *)
LEMMA SaveDriftMoves ==
  ASSUME Typed, NEW c \in Commands, SaveDrift(c)
  PROVE  /\ work[c].label = "save" /\ Kind(work[c], "drift") /\ work[c].call \in Calls
         /\ work[c].call.s \in Strategies /\ work[c].behind \subseteq Strategies
         /\ work[c].copy[work[c].call.s] \in HealthEntries
         /\ health' = work[c].copy /\ health' \in Healths
         /\ work'[c] \in Tasks /\ work'[c].label = "sync"
         /\ work'[c].call = work[c].call /\ work'[c].copy = work[c].copy
         /\ \E D \in SUBSET Strategies :
              /\ Moves(c, work'[c], D) /\ work[c].call.s \in D
              /\ \A r \in Strategies \ D : health'[r] = health[r]
              /\ DOMAIN rows # {} => D \subseteq touched'
              /\ touched \subseteq touched' /\ touched' \subseteq Strategies
  <1> DEFINE t == [work[c] EXCEPT !.label = "sync"]
  <1>1. /\ work[c].call # Nothing /\ work[c].call.kind = "drift"
        /\ SaveState(c, t) /\ work[c].label = "save"
    BY DEF SaveDrift, SaveState
  <1>2. c \in Actors /\ c # Daemon
    BY DaemonIsNoCommand
  <1>3. /\ work[c] \in Tasks /\ work[c].call \in Calls /\ work[c].call.s \in Strategies
        /\ work[c].copy[work[c].call.s] \in HealthEntries
    BY <1>1, <1>2, SavingTask
  <1>4. /\ t \in Tasks /\ t.label = "sync" /\ t.call = work[c].call
        /\ t.copy = work[c].copy /\ work[c].behind \subseteq Strategies
    BY <1>3 DEF Tasks, Labels
  <1> HIDE DEF t
  <1> PICK D \in SUBSET Strategies :
        /\ Moves(c, t, D) /\ work[c].call.s \in D
        /\ \A r \in Strategies \ D : health'[r] = health[r]
        /\ DOMAIN rows # {} => D \subseteq touched'
        /\ touched \subseteq touched' /\ touched' \subseteq Strategies
    BY <1>1, <1>2, <1>4, SaveStateMoves
  <1>5. health' = work[c].copy /\ health' \in Healths
    BY <1>1, <1>2, <1>4, SaveStateMoves
  <1>6. work'[c] = t
    BY DEF Moves
  <1> QED
    BY <1>1, <1>3, <1>4, <1>5, <1>6 DEF Kind

LEMMA SaveDriftTyped ==
  ASSUME Typed, NEW c \in Commands, SaveDrift(c)
  PROVE  Typed'
  <1>1. /\ Kind(work[c], "drift") /\ work[c].call \in Calls
        /\ work[c].call.s \in Strategies /\ work[c].behind \subseteq Strategies
        /\ work[c].copy[work[c].call.s] \in HealthEntries
        /\ health' = work[c].copy /\ health' \in Healths
        /\ work'[c] \in Tasks /\ work'[c].label = "sync"
        /\ work'[c].call = work[c].call /\ work'[c].copy = work[c].copy
    BY SaveDriftMoves
  <1> PICK D \in SUBSET Strategies : Moves(c, work'[c], D) /\ touched' \subseteq Strategies
    BY SaveDriftMoves
  <1>2. /\ apart' = apart \cup work[c].behind \cup {work[c].call.s}
        /\ diverted' = diverted \cup work[c].behind \cup {work[c].call.s}
        /\ UNCHANGED <<registry, phase, running, cycle, decaying, bounds, cutAtScan, unsynced,
                       cut, approvals>>
    BY DEF SaveDrift
  <1>3. WellFormed(work'[c]) /\ Kind(work'[c], "drift")
    BY <1>1 DEF WellFormed, Kind, OnEntry, Verdict
  <1>4. Shape'
    BY <1>1, <1>2, <1>3, CommandMovesShape DEF cycle, decaying
  <1> QED
    BY <1>1, <1>2, <1>4 DEF Typed, TypeOK, NoVerdictsYet, Moves, cycle, decaying, bounds

LEMMA AppendRiskEventMoves ==
  ASSUME Typed, NEW c \in Commands, AppendRiskEvent(c)
  PROVE  /\ Moves(c, work'[c], {}) /\ work'[c] \in Tasks /\ work'[c].call \in Calls
         /\ work'[c].label = "save" /\ Kind(work'[c], "record")
         /\ work'[c].copy = health /\ work'[c].behind = {}
         /\ UNCHANGED <<files, phase, running, cycle, decaying, bounds, touched, cutAtScan,
                        past>>
  <1> DEFINE call == [kind |-> "record"]
             t    == [Resting EXCEPT !.label = "save", !.call = call, !.copy = health]
  <1>1. call \in Calls /\ call.kind = "record" /\ health \in Healths /\ c \in Actors
    BY DaemonIsNoCommand DEF Calls, Typed, TypeOK
  <1>2. call # Nothing
    BY <1>1, DaemonAssumption
  <1>3. work' = [work EXCEPT ![c] = t]
    BY DEF AppendRiskEvent
  <1> HIDE DEF call
  <1>4. /\ t \in Tasks /\ t.label = "save" /\ t.call = call /\ t.copy = health /\ t.behind = {}
    BY <1>1 DEF Resting, Tasks, Labels
  <1> HIDE DEF t
  <1>5. Moves(c, t, {}) /\ work'[c] = t
    BY <1>1, <1>3, <1>4, MovesAlone DEF Typed, TypeOK
  <1>6. UNCHANGED <<files, phase, running, cycle, decaying, bounds, touched, cutAtScan, past>>
    BY DEF AppendRiskEvent
  <1> QED
    BY <1>1, <1>2, <1>4, <1>5, <1>6 DEF Kind

LEMMA AppendRiskEventTyped ==
  ASSUME Typed, NEW c \in Commands, AppendRiskEvent(c)
  PROVE  Typed'
  <1>1. /\ Moves(c, work'[c], {}) /\ work'[c] \in Tasks /\ work'[c].call \in Calls
        /\ work'[c].label = "save" /\ Kind(work'[c], "record") /\ work'[c].copy = health
        /\ UNCHANGED <<files, phase, running, cycle, decaying, bounds, touched, cutAtScan,
                       past>>
    BY AppendRiskEventMoves
  <1>2. WellFormed(work'[c])
    BY <1>1 DEF WellFormed, Kind, Typed, TypeOK
  <1>3. Shape'
    BY <1>1, <1>2, CommandMovesShape DEF cycle, decaying
  <1> QED
    BY <1>1, <1>3 DEF Typed, TypeOK, NoVerdictsYet, Moves, files, cycle, decaying, bounds, past

LEMMA CommandRecordsMoves ==
  ASSUME Typed, NEW c \in Commands, CommandRecords(c)
  PROVE  /\ work[c].label = "save" /\ Kind(work[c], "record")
         /\ work[c].behind \subseteq Strategies
         /\ health' = work[c].copy /\ health' \in Healths
         /\ \E D \in SUBSET Strategies :
              /\ Moves(c, Resting, D)
              /\ \A r \in Strategies \ D : health'[r] = health[r]
              /\ DOMAIN rows # {} => D \subseteq touched'
              /\ touched \subseteq touched' /\ touched' \subseteq Strategies
  <1>1. /\ work[c].call # Nothing /\ work[c].call.kind = "record"
        /\ SaveState(c, Resting) /\ work[c].label = "save"
    BY DEF CommandRecords, SaveState
  <1>2. c \in Actors /\ c # Daemon
    BY DaemonIsNoCommand
  <1>3. work[c] \in Tasks
    BY <1>1, <1>2, SavingTask
  <1>4. work[c].behind \subseteq Strategies
    BY <1>3 DEF Tasks
  <1>5. /\ health' = work[c].copy /\ health' \in Healths
        /\ \E D \in SUBSET Strategies :
             /\ Moves(c, Resting, D)
             /\ \A r \in Strategies \ D : health'[r] = health[r]
             /\ DOMAIN rows # {} => D \subseteq touched'
             /\ touched \subseteq touched' /\ touched' \subseteq Strategies
    BY <1>1, <1>2, RestingType, SaveStateMoves
  <1> QED
    BY <1>1, <1>4, <1>5 DEF Kind

LEMMA CommandRecordsTyped ==
  ASSUME Typed, NEW c \in Commands, CommandRecords(c)
  PROVE  Typed'
  <1>1. health' \in Healths /\ work[c].behind \subseteq Strategies
    BY CommandRecordsMoves
  <1> PICK D \in SUBSET Strategies : Moves(c, Resting, D) /\ touched' \subseteq Strategies
    BY CommandRecordsMoves
  <1>2. /\ apart' = apart \cup work[c].behind /\ diverted' = diverted \cup work[c].behind
        /\ UNCHANGED <<registry, phase, running, cycle, decaying, bounds, cutAtScan, unsynced,
                       cut, approvals>>
    BY DEF CommandRecords
  <1>3. WellFormed(Resting) /\ Resting.label = "idle"
    BY DEF WellFormed, Resting
  <1>4. Shape'
    BY <1>2, <1>3, RestingType, CommandMovesShape DEF cycle, decaying
  <1> QED
    BY <1>1, <1>2, <1>4 DEF Typed, TypeOK, NoVerdictsYet, Moves, cycle, decaying, bounds

LEMMA NextTyped == Typed /\ [Next]_vars => Typed'
  <1> SUFFICES ASSUME Typed, [Next]_vars PROVE Typed'
    OBVIOUS
  <1>1. CASE UNCHANGED vars
    <2>1. Shape'
      BY <1>1, QuietShape DEF vars, cycle, decaying
    <2> QED
      BY <1>1, <2>1 DEF vars, Typed, TypeOK, NoVerdictsYet, files, cycle, decaying, bounds, past
  <1>2. CASE Next
    BY <1>2, QuietTyped, BeginVerdictTyped, LoadRegistryTyped, SaveRegistryTyped,
       SyncFailsTyped, SaveVerdictTyped, BeginRecordTyped, ApplyRollingDecayTyped,
       SaveDecayTyped, SaveRecordTyped, CrashTyped, CommandEndsTyped, EvolveTyped, DriftTyped,
       CommandExecutesTyped, SaveDriftTyped, AppendRiskEventTyped, CommandRecordsTyped,
       DaemonIsNoCommand
    DEF Next, DaemonStep, CommandStep
  <1> QED
    BY <1>1, <1>2

(* Whatever the environment does, the files, the copies in memory and the  *)
(* rows of a cycle are ones the code can produce, and the verdicts still   *)
(* to be written are those of the basket.                                  *)
THEOREM TypeCorrect == Spec => []TypeOK
  <1>1. Spec => []Typed
    BY InitTyped, NextTyped, PTL DEF Spec
  <1>2. Typed => TypeOK
    BY DEF Typed
  <1> QED
    BY <1>1, <1>2, PTL

-----------------------------------------------------------------------------
(* What a call holds in memory is still what the files say, except for the *)
(* strategies others have written to since it was loaded ("behind") and    *)
(* for what the call itself has changed.  Every other invariant rests on   *)
(* this one: a save writes back what is already there, but for the one     *)
(* strategy it is for and the strategies it is behind on.                  *)

FreshDraft(t) ==
  t.label = "upsert" => \A r \in Strategies \ t.behind : t.draft[r] = registry[r]

FreshCopy(t) ==
  /\ Verdict(t) \/ (Kind(t, "drift") /\ t.label = "save") =>
       \A r \in Strategies \ t.behind :
         t.copy[r] = IF r = t.call.s THEN NewEntry(t.call) ELSE health[r]
  /\ \/ Kind(t, "drift") /\ t.label \in {"sync", "upsert"}
     \/ Kind(t, "record")
     \/ Kind(t, "cycle") /\ t.label # "save"
     => \A r \in Strategies \ t.behind : t.copy[r] = health[r]

(* What apply_rolling_decay makes of the entry of r. *)
AfterDecay(r) ==
  IF health[r] = NoEntry THEN NoEntry
  ELSE IF r \in DOMAIN verdicts THEN Refreshed(health[r]) ELSE Decayed(health[r])

FreshDecay ==
  work[Daemon].label \in {"sync", "upsert", "decaySave"} /\ Kind(work[Daemon], "cycle") =>
    \A r \in Strategies \ work[Daemon].behind : decayed[r] = AfterDecay(r)

FreshVerdicts == phase = "verdicts" => work[Daemon].behind \subseteq touched

Fresh ==
  /\ \A a \in Actors : FreshDraft(work[a]) /\ FreshCopy(work[a])
  /\ FreshDecay
  /\ FreshVerdicts

(* A task at rest holds nothing. *)
LEMMA RestingFresh == FreshDraft(Resting) /\ FreshCopy(Resting)
  BY DEF FreshDraft, FreshCopy, Resting, Verdict, Kind

(* The step of another leaves a fresh task fresh. *)
LEMMA MovedFresh ==
  ASSUME Typed, Fresh, NEW a \in Actors, NEW t, NEW D \in SUBSET Strategies,
         Moves(a, t, D),
         \A r \in Strategies \ D : health'[r] = health[r] /\ registry'[r] = registry[r],
         NEW b \in Actors \ {a}
  PROVE  FreshDraft(work[b])' /\ FreshCopy(work[b])'
  <1>1. /\ work'[b].label = work[b].label /\ work'[b].call = work[b].call
        /\ work'[b].copy = work[b].copy /\ work'[b].draft = work[b].draft
        /\ Idle(b) => work'[b] = work[b]
        /\ ~Idle(b) => work'[b].behind = work[b].behind \cup D
    BY MovedOthers DEF Typed, TypeOK
  <1>2. FreshDraft(work[b]) /\ FreshCopy(work[b]) /\ WellFormed(work[b])
    BY DEF Fresh, Typed, Shape
  <1>3. CASE Idle(b)
    <2>1. work'[b] = Resting
      BY <1>1, <1>2, <1>3 DEF Idle, WellFormed
    <2> QED
      BY <2>1 DEF FreshDraft, FreshCopy, Resting, Verdict, Kind
  <1>4. CASE ~Idle(b)
    <2>1. \A r \in Strategies \ work'[b].behind :
            /\ r \in Strategies \ work[b].behind
            /\ health'[r] = health[r] /\ registry'[r] = registry[r]
      BY <1>1, <1>4
    <2>2. work[b].call.s \in Strategies \ work'[b].behind =>
            NewEntry(work[b].call)' = NewEntry(work[b].call)
      BY <1>1, <2>1 DEF NewEntry, HealthEntry
    <2>3. FreshDraft(work[b])'
      BY <1>1, <1>2, <2>1 DEF FreshDraft
    <2>4. FreshCopy(work[b])'
      BY <1>1, <1>2, <2>1, <2>2 DEF FreshCopy, Verdict, Kind, NewEntry
    <2> QED
      BY <2>3, <2>4
  <1> QED
    BY <1>3, <1>4

LEMMA DaemonFresh ==
  ASSUME Typed, Fresh, NEW t, NEW D \in SUBSET Strategies, Moves(Daemon, t, D),
         \A r \in Strategies \ D : health'[r] = health[r] /\ registry'[r] = registry[r],
         FreshDraft(work[Daemon])', FreshCopy(work[Daemon])', FreshDecay', FreshVerdicts'
  PROVE  Fresh'
  <1>1. \A b \in Actors \ {Daemon} : FreshDraft(work[b])' /\ FreshCopy(work[b])'
    BY MovedFresh, DaemonIsNoCommand
  <1> QED
    BY <1>1 DEF Fresh

LEMMA CommandFresh ==
  ASSUME Typed, Fresh, NEW c \in Commands, NEW t, NEW D \in SUBSET Strategies,
         Moves(c, t, D),
         \A r \in Strategies \ D : health'[r] = health[r] /\ registry'[r] = registry[r],
         FreshDraft(work[c])', FreshCopy(work[c])',
         UNCHANGED <<phase, rows, verdicts, pending, decayed>>,
         touched \subseteq touched', DOMAIN rows # {} => D \subseteq touched'
  PROVE  Fresh'
  <1>1. c \in Actors /\ Daemon \in Actors \ {c}
    BY DaemonIsNoCommand
  <1>2. \A b \in Actors \ {c} : FreshDraft(work[b])' /\ FreshCopy(work[b])'
    BY <1>1, MovedFresh
  <1>3. /\ work'[Daemon].label = work[Daemon].label
        /\ work'[Daemon].call = work[Daemon].call
        /\ Idle(Daemon) => work'[Daemon] = work[Daemon]
        /\ ~Idle(Daemon) => work'[Daemon].behind = work[Daemon].behind \cup D
    BY <1>1, MovedOthers DEF Typed, TypeOK
  <1>4. FreshDecay'
    <2>1. \A r \in Strategies \ D : AfterDecay(r)' = AfterDecay(r)
      BY DEF AfterDecay
    <2>2. SUFFICES ASSUME work[Daemon].label \in {"sync", "upsert", "decaySave"},
                          Kind(work[Daemon], "cycle"),
                          NEW r \in Strategies \ work'[Daemon].behind
                   PROVE  decayed[r] = AfterDecay(r)'
      BY <1>3 DEF FreshDecay, Kind
    <2>3. r \in Strategies \ work[Daemon].behind /\ r \notin D
      BY <1>3, <2>2 DEF Idle
    <2> QED
      BY <2>1, <2>2, <2>3 DEF Fresh, FreshDecay
  <1>5. FreshVerdicts'
    <2>1. CASE Idle(Daemon)
      BY <1>3, <2>1 DEF Fresh, FreshVerdicts
    <2>2. CASE ~Idle(Daemon) /\ phase = "verdicts"
      <3>1. pending # {}
        BY <2>2 DEF Typed, Shape, DaemonShape, Idle, Kind, Records
      <3>2. DOMAIN rows # {}
        BY <3>1 DEF Typed, TypeOK
      <3> QED
        BY <1>3, <2>2, <3>2 DEF Fresh, FreshVerdicts
    <2> QED
      BY <2>1, <2>2 DEF FreshVerdicts
  <1> QED
    BY <1>2, <1>4, <1>5 DEF Fresh

LEMMA InitFresh == Init => Fresh
  <1> SUFFICES ASSUME Init PROVE Fresh
    OBVIOUS
  <1>1. \A a \in Actors : work[a] = Resting
    BY DEF Init
  <1>2. Daemon \in Actors /\ phase = "stopped"
    BY DaemonIsNoCommand DEF Init
  <1>3. work[Daemon].label = "idle"
    BY <1>1, <1>2 DEF Resting
  <1> QED
    BY <1>1, <1>2, <1>3, RestingFresh DEF Fresh, FreshDecay, FreshVerdicts

LEMMA QuietFresh ==
  ASSUME Typed, Fresh, UNCHANGED <<files, work, decayed>>,
         UNCHANGED <<phase, verdicts, touched>> \/ Idle(Daemon)
  PROVE  Fresh'
  <1>1. ASSUME NEW a \in Actors
        PROVE  FreshDraft(work[a])' /\ FreshCopy(work[a])'
    <2>1. \A c : NewEntry(c)' = NewEntry(c)
      BY DEF NewEntry, files
    <2>2. FreshDraft(work[a])'
      BY DEF Fresh, FreshDraft, files
    <2>3. FreshCopy(work[a])'
      BY <2>1 DEF Fresh, FreshCopy, files
    <2> QED
      BY <2>2, <2>3
  <1>2. CASE Idle(Daemon)
    <2>1. work[Daemon].behind = {} /\ work[Daemon].label = "idle"
      BY <1>2, DaemonIsNoCommand DEF Idle, Typed, Shape, WellFormed, Resting
    <2> QED
      BY <1>1, <2>1 DEF Fresh, FreshDecay, FreshVerdicts
  <1>3. CASE UNCHANGED <<phase, verdicts, touched>>
    <2>1. FreshDecay'
      BY <1>3 DEF Fresh, FreshDecay, AfterDecay, files
    <2> QED
      BY <1>1, <1>3, <2>1 DEF Fresh, FreshVerdicts
  <1> QED
    BY <1>2, <1>3

LEMMA SyncedFresh ==
  ASSUME Typed, Fresh, NEW a \in Actors, NEW s \in Strategies,
         work[a].label \in {"sync", "upsert"}, s \in Targets(a),
         work'[a] = Synced(a, s), health' = health
  PROVE  FreshDraft(work[a])' /\ FreshCopy(work[a])'
  <1>1. /\ work[a].call.kind = "evolve" => Synced(a, s) = Resting
        /\ work[a].call.kind # "evolve" =>
             /\ Synced(a, s).call = work[a].call /\ Synced(a, s).copy = work[a].copy
             /\ Synced(a, s).behind = work[a].behind
             /\ Synced(a, s).label = AfterSync(a, s)
        /\ AfterSync(a, s) \in {"idle", "append", "decaySave", "sync", "save"}
        /\ work[a].call.kind = "drift" => AfterSync(a, s) = "append"
    BY SyncedType
  <1>2. FreshCopy(work[a])
    BY DEF Fresh
  <1>3. /\ work[a].call # Nothing
        /\ work[a].call.kind \in {"cycle", "quarantine", "recover", "drift", "evolve"}
    BY UpsertingTask
  <1>4. CASE work[a].call.kind = "evolve"
    BY <1>1, <1>4 DEF FreshDraft, FreshCopy, Resting, Verdict, Kind
  <1>5. CASE work[a].call.kind # "evolve"
    <2>1. FreshDraft(work[a])'
      BY <1>1, <1>5 DEF FreshDraft
    <2>3. FreshCopy(work[a])'
      BY <1>1, <1>2, <1>3, <1>5 DEF FreshCopy, Verdict, Kind, NewEntry
    <2> QED
      BY <2>1, <2>3
  <1> QED
    BY <1>4, <1>5

LEMMA NextFresh == Typed /\ Fresh /\ [Next]_vars => Fresh'
  <1> SUFFICES ASSUME Typed, Fresh, [Next]_vars PROVE Fresh'
    OBVIOUS
  <1>0. Daemon \in Actors /\ DaemonShape /\ WellFormed(work[Daemon])
    BY DaemonIsNoCommand DEF Typed, Shape
  <1>1. CASE \/ \E forever \in BOOLEAN : Start(forever)
             \/ Scan \/ Execute \/ Wake \/ LastCycle \/ Stop
             \/ UNCHANGED vars
    <2>1. UNCHANGED <<files, work, decayed>>
            /\ (UNCHANGED <<phase, verdicts, touched>>
                 \/ phase \notin Records \cup {"verdicts"})
      BY <1>1 DEF Start, Scan, Execute, Wake, LastCycle, Stop, vars, decaying, cycle,
                  Records, Ladder
    <2> QED
      BY <2>1, QuietFresh, DaemonRests
  <1>2. ASSUME NEW s \in Strategies, BeginVerdict(s)
        PROVE  Fresh'
    <2> PICK c \in Calls :
          /\ c.s = s /\ c.kind = IF Approved(s) THEN "recover" ELSE "quarantine"
          /\ Moves(Daemon, work'[Daemon], {})
          /\ work'[Daemon].label = "sync" /\ work'[Daemon].call = c
          /\ work'[Daemon].copy = Changed(c) /\ work'[Daemon].behind = {}
      BY <1>2, BeginVerdictMoves
    <2>1. UNCHANGED <<files, phase, cycle, decaying, touched>>
      BY <1>2 DEF BeginVerdict
    <2>2. /\ Changed(c)[c.s] = NewEntry(c)
          /\ \A r \in Strategies \ {c.s} : Changed(c)[r] = health[r]
      BY ChangedType DEF Typed, TypeOK
    <2>3. NewEntry(c)' = NewEntry(c)
      BY <2>1 DEF NewEntry, files
    <2>4. FreshDraft(work[Daemon])' /\ FreshCopy(work[Daemon])'
      BY <2>1, <2>2, <2>3 DEF FreshDraft, FreshCopy, Verdict, Kind, files
    <2>5. FreshDecay' /\ FreshVerdicts'
      BY DEF FreshDecay, FreshVerdicts, Kind
    <2> QED
      BY <2>1, <2>4, <2>5, DaemonFresh DEF files
  <1>3. ASSUME NEW a \in Actors, LoadRegistry(a)
        PROVE  Fresh'
    <2>1. /\ Moves(a, work'[a], {})
          /\ work[a].label = "sync" /\ work'[a].label = "upsert"
          /\ work'[a].draft = registry
          /\ work'[a].call = work[a].call /\ work'[a].copy = work[a].copy
          /\ work'[a].behind = work[a].behind
      BY <1>3, LoadRegistryMoves
    <2>2. UNCHANGED <<files, phase, cycle, decaying, touched>>
      BY <1>3 DEF LoadRegistry
    <2>3. FreshCopy(work[a])
      BY DEF Fresh
    <2>4. FreshDraft(work[a])' /\ FreshCopy(work[a])'
      BY <2>1, <2>2, <2>3 DEF FreshDraft, FreshCopy, Verdict, Kind, files, NewEntry
    <2>5. CASE a = Daemon
      <3>1. FreshDecay' /\ FreshVerdicts'
        BY <2>1, <2>2, <2>5 DEF Fresh, FreshDecay, FreshVerdicts, Kind, AfterDecay, files,
                                cycle, decaying
      <3> QED
        BY <2>1, <2>2, <2>4, <2>5, <3>1, DaemonFresh DEF files
    <2>6. CASE a \in Commands
      BY <2>1, <2>2, <2>4, <2>6, CommandFresh DEF files, cycle, decaying
    <2> QED
      BY <2>5, <2>6 DEF Actors
  <1>4. ASSUME NEW a \in Actors, NEW s \in Strategies, SaveRegistry(a, s)
        PROVE  Fresh'
    <2>1. /\ work[a].label = "upsert" /\ s \in Targets(a)
          /\ UNCHANGED <<health, phase, cycle, decayed>>
      BY <1>4 DEF SaveRegistry
    <2> PICK D \in SUBSET Strategies :
          /\ Moves(a, Synced(a, s), D)
          /\ \A r \in Strategies \ D : registry'[r] = registry[r]
          /\ a # Daemon /\ DOMAIN rows # {} => D \subseteq touched'
          /\ touched \subseteq touched'
      BY <1>4, SaveRegistryMoves
    <2>2. work'[a] = Synced(a, s)
      BY DEF Moves
    <2>3. FreshDraft(work[a])' /\ FreshCopy(work[a])'
      BY <2>1, <2>2, SyncedFresh
    <2>4. CASE a = Daemon
      <3>1. /\ work[a].call.kind # "evolve"
            /\ Synced(a, s).call = work[a].call
            /\ Synced(a, s).behind = work[a].behind
        BY <1>0, <2>1, <2>4, SyncedType, UpsertingTask DEF DaemonShape, Verdict, Kind
      <3>2. FreshDecay'
        BY <2>1, <2>2, <2>4, <3>1 DEF Fresh, FreshDecay, Kind, AfterDecay, cycle
      <3>3. FreshVerdicts'
        BY <2>1, <2>2, <2>4, <3>1 DEF Fresh, FreshVerdicts
      <3> QED
        BY <2>1, <2>3, <2>4, <3>2, <3>3, DaemonFresh
    <2>5. CASE a \in Commands
      <3>1. a # Daemon
        BY <2>5, DaemonIsNoCommand
      <3> QED
        BY <2>1, <2>3, <2>5, <3>1, CommandFresh DEF cycle
    <2> QED
      BY <2>4, <2>5 DEF Actors
  <1>5. ASSUME NEW s \in Strategies, SyncFails(s)
        PROVE  Fresh'
    <2>1. /\ Moves(Daemon, Synced(Daemon, s), {})
          /\ work[Daemon].label \in {"sync", "upsert"} /\ s \in Targets(Daemon)
      BY <1>5, SyncFailsTyped
    <2>2. UNCHANGED <<files, phase, cycle, decayed, touched>>
      BY <1>5 DEF SyncFails
    <2>3. work'[Daemon] = Synced(Daemon, s)
      BY <2>1 DEF Moves
    <2>4. FreshDraft(work[Daemon])' /\ FreshCopy(work[Daemon])'
      BY <1>0, <2>1, <2>2, <2>3, SyncedFresh DEF files
    <2>5. /\ work[Daemon].call.kind # "evolve"
          /\ Synced(Daemon, s).call = work[Daemon].call
          /\ Synced(Daemon, s).behind = work[Daemon].behind
      BY <1>0, <2>1, SyncedType, UpsertingTask DEF DaemonShape, Verdict, Kind
    <2>6. FreshDecay'
      BY <2>1, <2>2, <2>3, <2>5 DEF Fresh, FreshDecay, Kind, AfterDecay, cycle, files
    <2>7. FreshVerdicts'
      BY <2>2, <2>3, <2>5 DEF Fresh, FreshVerdicts
    <2> QED
      BY <2>1, <2>2, <2>4, <2>6, <2>7, DaemonFresh DEF files
  <1>6. CASE SaveVerdict
    <2>1. SaveState(Daemon, Resting) /\ registry' = registry
      BY <1>6 DEF SaveVerdict
    <2> PICK D \in SUBSET Strategies :
          /\ Moves(Daemon, Resting, D)
          /\ \A r \in Strategies \ D : health'[r] = health[r]
      BY <1>0, <2>1, RestingType, SaveStateMoves
    <2>2. work'[Daemon] = Resting
      BY DEF Moves
    <2>3. /\ FreshDraft(work[Daemon])' /\ FreshCopy(work[Daemon])'
          /\ FreshDecay' /\ FreshVerdicts'
      BY <2>2 DEF FreshDraft, FreshCopy, FreshDecay, FreshVerdicts, Resting, Verdict, Kind
    <2> QED
      BY <2>1, <2>3, DaemonFresh
  <1>7. CASE BeginRecord
    <2>1. /\ Moves(Daemon, work'[Daemon], {})
          /\ work'[Daemon].label = IF phase = "cycle" THEN "decay" ELSE "save"
          /\ IF phase = "cycle" THEN Kind(work'[Daemon], "cycle")
                                ELSE Kind(work'[Daemon], "record")
          /\ work'[Daemon].copy = health /\ work'[Daemon].behind = {}
          /\ UNCHANGED files
      BY <1>7, BeginRecordMoves
    <2>2. FreshDraft(work[Daemon])' /\ FreshCopy(work[Daemon])' /\ FreshDecay' /\ FreshVerdicts'
      BY <2>1 DEF FreshDraft, FreshCopy, FreshDecay, FreshVerdicts, Verdict, Kind, files
    <2> QED
      BY <2>1, <2>2, DaemonFresh DEF files
  <1>8. CASE ApplyRollingDecay
    <2>1. /\ Moves(Daemon, work'[Daemon], {})
          /\ work[Daemon].label = "decay"
          /\ work'[Daemon].label \in {"sync", "decaySave", "save"}
          /\ work'[Daemon].label # "save" => decayed' = WithDecay(DOMAIN verdicts)
          /\ Kind(work'[Daemon], "cycle") /\ phase = "cycle"
          /\ work'[Daemon].call = work[Daemon].call
          /\ work'[Daemon].copy = work[Daemon].copy
          /\ work'[Daemon].behind = work[Daemon].behind
          /\ UNCHANGED <<files, phase, cycle>>
      BY <1>8, ApplyRollingDecayMoves
    <2>2. \A r \in Strategies : WithDecay(DOMAIN verdicts)[r] = AfterDecay(r)
      BY WithDecayType DEF AfterDecay, Typed, TypeOK
    <2>3. FreshDraft(work[Daemon])' /\ FreshCopy(work[Daemon])'
      BY <1>0, <2>1 DEF Fresh, FreshDraft, FreshCopy, Verdict, Kind, files
    <2>4. FreshDecay' /\ FreshVerdicts'
      BY <2>1, <2>2 DEF FreshDecay, FreshVerdicts, AfterDecay, files, cycle
    <2> QED
      BY <2>1, <2>3, <2>4, DaemonFresh DEF files
  <1>9. CASE SaveDecay
    <2>1. /\ work'[Daemon].label = "save" /\ Kind(work[Daemon], "cycle")
          /\ work'[Daemon].call = work[Daemon].call
      BY <1>9, SaveDecayMoves
    <2> PICK D \in SUBSET Strategies :
          /\ Moves(Daemon, work'[Daemon], D)
          /\ \A r \in Strategies \ D : health'[r] = health[r]
      BY <1>9, SaveDecayMoves
    <2>2. registry' = registry /\ phase' = "cycle"
      BY <1>0, <1>9, <2>1 DEF SaveDecay, DaemonShape
    <2>3. FreshDraft(work[Daemon])' /\ FreshCopy(work[Daemon])' /\ FreshDecay' /\ FreshVerdicts'
      BY <2>1, <2>2 DEF FreshDraft, FreshCopy, FreshDecay, FreshVerdicts, Verdict, Kind
    <2> QED
      BY <2>2, <2>3, DaemonFresh
  <1>10. CASE SaveRecord
    <2> PICK D \in SUBSET Strategies :
          /\ Moves(Daemon, Resting, D)
          /\ \A r \in Strategies \ D : health'[r] = health[r]
      BY <1>10, SaveRecordMoves
    <2>1. registry' = registry
      BY <1>10 DEF SaveRecord
    <2>2. work'[Daemon] = Resting
      BY DEF Moves
    <2>3. /\ FreshDraft(work[Daemon])' /\ FreshCopy(work[Daemon])'
          /\ FreshDecay' /\ FreshVerdicts'
      BY <2>2 DEF FreshDraft, FreshCopy, FreshDecay, FreshVerdicts, Resting, Verdict, Kind
    <2> QED
      BY <2>1, <2>3, DaemonFresh
  <1>11. CASE Crash
    <2>1. Moves(Daemon, Resting, {}) /\ UNCHANGED files
      BY <1>11, CrashTyped DEF Crash
    <2>2. work'[Daemon] = Resting
      BY <2>1 DEF Moves
    <2>3. /\ FreshDraft(work[Daemon])' /\ FreshCopy(work[Daemon])'
          /\ FreshDecay' /\ FreshVerdicts'
      BY <2>2 DEF FreshDraft, FreshCopy, FreshDecay, FreshVerdicts, Resting, Verdict, Kind
    <2> QED
      BY <2>1, <2>3, DaemonFresh DEF files
  <1>12. ASSUME NEW c \in Commands, CommandEnds(c)
         PROVE  Fresh'
    <2>1. Moves(c, Resting, {}) /\ UNCHANGED <<files, phase, cycle, decaying, touched>>
      BY <1>12, CommandEndsTyped DEF CommandEnds
    <2>2. work'[c] = Resting
      BY <2>1 DEF Moves
    <2>3. FreshDraft(work[c])' /\ FreshCopy(work[c])'
      BY <2>2 DEF FreshDraft, FreshCopy, Resting, Verdict, Kind
    <2> QED
      BY <2>1, <2>3, CommandFresh DEF files, cycle, decaying
  <1>13. ASSUME NEW c \in Commands, NEW s \in Strategies, NEW p \in Generated,
                Evolve(c, s, p)
         PROVE  Fresh'
    <2>1. /\ Moves(c, work'[c], {})
          /\ work'[c].label = "sync" /\ Kind(work'[c], "evolve")
          /\ UNCHANGED <<files, phase, cycle, decaying, touched>>
      BY <1>13, EvolveTyped
    <2>2. FreshDraft(work[c])' /\ FreshCopy(work[c])'
      BY <2>1 DEF FreshDraft, FreshCopy, Verdict, Kind
    <2> QED
      BY <2>1, <2>2, CommandFresh DEF files, cycle, decaying
  <1>14. ASSUME NEW c \in Commands, NEW s \in Strategies, NEW v \in DriftVerdicts,
                Drift(c, s, v)
         PROVE  Fresh'
    <2> DEFINE call == work'[c].call
    <2>1. /\ Moves(c, work'[c], {})
          /\ work'[c].label = "save" /\ Kind(work'[c], "drift")
          /\ call \in Calls /\ call.s = s
          /\ work'[c].copy = Changed(call) /\ work'[c].behind = {}
          /\ UNCHANGED <<files, phase, cycle, decaying, touched>>
      BY <1>14, DriftTyped
    <2>2. /\ Changed(call)[call.s] = NewEntry(call)
          /\ \A r \in Strategies \ {call.s} : Changed(call)[r] = health[r]
      BY <2>1, ChangedType DEF Typed, TypeOK, Kind
    <2>3. FreshDraft(work[c])' /\ FreshCopy(work[c])'
      BY <2>1, <2>2 DEF FreshDraft, FreshCopy, Verdict, Kind, NewEntry, files
    <2> QED
      BY <2>1, <2>3, CommandFresh DEF files, cycle, decaying
  <1>15. ASSUME NEW c \in Commands, CommandExecutes(c) \/ AppendRiskEvent(c)
         PROVE  Fresh'
    <2>1. /\ Moves(c, work'[c], {})
          /\ work'[c].label = "save" /\ Kind(work'[c], "record")
          /\ work'[c].copy = health /\ work'[c].behind = {}
          /\ UNCHANGED <<files, phase, cycle, decaying, touched>>
      BY <1>15, CommandExecutesTyped, AppendRiskEventMoves
    <2>2. FreshDraft(work[c])' /\ FreshCopy(work[c])'
      BY <2>1 DEF FreshDraft, FreshCopy, Verdict, Kind, files
    <2> QED
      BY <2>1, <2>2, CommandFresh DEF files, cycle, decaying
  <1>16. ASSUME NEW c \in Commands, SaveDrift(c)
         PROVE  Fresh'
    <2>1. /\ Kind(work[c], "drift") /\ health' = work[c].copy
          /\ work'[c].label = "sync"
          /\ work'[c].call = work[c].call /\ work'[c].copy = work[c].copy
      BY <1>16, SaveDriftMoves
    <2> PICK D \in SUBSET Strategies :
          /\ Moves(c, work'[c], D)
          /\ \A r \in Strategies \ D : health'[r] = health[r]
          /\ DOMAIN rows # {} => D \subseteq touched'
          /\ touched \subseteq touched'
      BY <1>16, SaveDriftMoves
    <2>2. UNCHANGED <<registry, phase, cycle, decaying>>
      BY <1>16 DEF SaveDrift
    <2>3. FreshDraft(work[c])' /\ FreshCopy(work[c])'
      BY <2>1 DEF FreshDraft, FreshCopy, Verdict, Kind
    <2> QED
      BY <2>2, <2>3, CommandFresh DEF cycle, decaying
  <1>17. ASSUME NEW c \in Commands, CommandRecords(c)
         PROVE  Fresh'
    <2> PICK D \in SUBSET Strategies :
          /\ Moves(c, Resting, D)
          /\ \A r \in Strategies \ D : health'[r] = health[r]
          /\ DOMAIN rows # {} => D \subseteq touched'
          /\ touched \subseteq touched'
      BY <1>17, CommandRecordsMoves
    <2>1. UNCHANGED <<registry, phase, cycle, decaying>>
      BY <1>17 DEF CommandRecords
    <2>2. work'[c] = Resting
      BY DEF Moves
    <2>3. FreshDraft(work[c])' /\ FreshCopy(work[c])'
      BY <2>2 DEF FreshDraft, FreshCopy, Resting, Verdict, Kind
    <2> QED
      BY <2>1, <2>3, CommandFresh DEF cycle, decaying
  <1> QED
    BY <1>0, <1>1, <1>2, <1>3, <1>4, <1>5, <1>6, <1>7, <1>8, <1>9, <1>10, <1>11, <1>12,
       <1>13, <1>14, <1>15, <1>16, <1>17, DaemonIsNoCommand
    DEF Next, DaemonStep, CommandStep

LEMMA AlwaysFresh == Spec => [](Typed /\ Fresh)
  BY InitTyped, NextTyped, InitFresh, NextFresh, PTL DEF Spec

-----------------------------------------------------------------------------
(* The capital a drift quarantine takes away. *)

CutHasNoCapital ==
  /\ \A s \in cut : registry[s] \in RegistryEntries /\ registry[s].multiplier = 0
  /\ \A s \in cutAtScan \cap DOMAIN rows : rows[s].multiplier = 0
  /\ NoCapitalAfterDriftQuarantine

LEMMA NextCutHasNoCapital ==
  Typed /\ Fresh /\ CutHasNoCapital /\ [Next]_vars => CutHasNoCapital'
  <1> SUFFICES ASSUME Typed, Fresh, CutHasNoCapital, [Next]_vars PROVE CutHasNoCapital'
    OBVIOUS
  <1> USE DEF CutHasNoCapital, NoCapitalAfterDriftQuarantine
  <1>1. CASE Scan
    <2>1. DOMAIN verdicts = {}
      BY <1>1 DEF Scan, Typed, NoVerdictsYet, Ladder
    <2>2. verdicts' = verdicts /\ registry' = registry /\ cut' = cut
      BY <1>1 DEF Scan, files, past
    <2>3. CASE Listed(phase) = {}
      BY <1>1, <2>2, <2>3 DEF Scan
    <2>4. CASE Listed(phase) # {}
      <3>1. rows' = [s \in Listed(phase) |-> registry[s]] /\ cutAtScan' = cut
        BY <1>1, <2>4 DEF Scan
      <3> QED
        BY <2>1, <2>2, <3>1
    <2> QED
      BY <2>3, <2>4
  <1>2. CASE Execute
    <2> PICK basket \in Baskets :
          /\ verdicts' \in [basket -> {"accepted", "rejected", "missing"}]
          /\ \A s \in basket : verdicts'[s] \in Outcomes(s)
      BY <1>2 DEF Execute
    <2>1. basket \subseteq DOMAIN rows
      BY BasketType
    <2>2. \A s \in cutAtScan \cap DOMAIN verdicts' : verdicts'[s] = "missing"
      BY <2>1 DEF Outcomes
    <2> QED
      BY <1>2, <2>2 DEF Execute, files, past
  <1>3. ASSUME NEW a \in Actors, NEW s \in Strategies, SaveRegistry(a, s)
        PROVE  CutHasNoCapital'
    <2> DEFINE c    == work[a].call
               lost == work[a].behind
    <2>1. /\ registry'[s] \in RegistryEntries
          /\ \A r \in Strategies \ {s} : registry'[r] = work[a].draft[r]
          /\ c.kind # "drift" =>
               registry'[s].multiplier = Current(work[a].draft[s]).multiplier
          /\ c.kind = "drift" /\ c.verdict = "quarantine" => registry'[s].multiplier = 0
      BY <1>3, SaveRegistryEffect
    <2>2. /\ cut' = IF c.kind # "drift" THEN cut \ lost
                    ELSE IF c.verdict = "quarantine" THEN (cut \ lost) \cup {s}
                    ELSE cut \ (lost \cup {s})
          /\ UNCHANGED <<rows, verdicts, cutAtScan>> /\ work[a].label = "upsert"
      BY <1>3 DEF SaveRegistry, cycle
    <2>3. \A r \in Strategies \ lost : work[a].draft[r] = registry[r]
      BY <2>2 DEF Fresh, FreshDraft
    <2>4. cut \subseteq Strategies
      BY DEF Typed, TypeOK
    <2>5. ASSUME NEW r \in cut'
          PROVE  registry'[r] \in RegistryEntries /\ registry'[r].multiplier = 0
      <3>1. CASE r # s
        <4>1. r \in cut /\ r \in Strategies \ lost
          BY <2>2, <2>4, <2>5, <3>1
        <4>2. registry'[r] = registry[r]
          BY <2>1, <2>3, <3>1, <4>1
        <4> QED
          BY <4>1, <4>2
      <3>2. CASE r = s /\ c.kind # "drift"
        <4>1. s \in cut /\ s \in Strategies \ lost
          BY <2>2, <2>4, <2>5, <3>2
        <4>2. Current(work[a].draft[s]).multiplier = 0
          BY <2>3, <4>1, AbsenceAssumption DEF Current
        <4> QED
          BY <2>1, <3>2, <4>2
      <3>3. CASE r = s /\ c.kind = "drift"
        <4>1. c.verdict = "quarantine"
          BY <2>2, <2>5, <3>3
        <4> QED
          BY <2>1, <3>3, <4>1
      <3> QED
        BY <3>1, <3>2, <3>3
    <2> QED
      BY <2>2, <2>5
  <1>4. CASE SaveRecord \/ Crash
    <2>1. /\ rows' = <<>> /\ verdicts' = <<>> /\ cutAtScan' = {}
          /\ registry' = registry /\ cut' = cut
      BY <1>4 DEF SaveRecord, Crash, ForgetCycle, files, past
    <2> QED
      BY <2>1
  <1>5. CASE UNCHANGED <<registry, rows, verdicts, cut, cutAtScan>>
    BY <1>5
  <1>6. \/ Scan \/ Execute \/ SaveRecord \/ Crash
        \/ \E a \in Actors, s \in Strategies : SaveRegistry(a, s)
        \/ UNCHANGED <<registry, rows, verdicts, cut, cutAtScan>>
    BY DaemonIsNoCommand
    DEF Next, DaemonStep, CommandStep, Start, BeginVerdict, SyncFails, LoadRegistry,
        SaveVerdict, BeginRecord, ApplyRollingDecay, SaveDecay, Wake, LastCycle, Stop,
        CommandEnds, Evolve, Drift, CommandExecutes, BeginCommand, SaveDrift,
        AppendRiskEvent, CommandRecords, vars, files, cycle, past
  <1> QED
    BY <1>1, <1>2, <1>3, <1>4, <1>5, <1>6

(* A strategy cut off by a drift quarantine is sent no order by a cycle    *)
(* that reads the registry afterwards, whatever is evolved, recovered,     *)
(* saved beside it or killed, until drift itself throttles it or a copy of *)
(* the registry from before the verdict is saved over it: the zero         *)
(* multiplier survives every other upsert.                                 *)
THEOREM DriftQuarantineCutsCapital == Spec => []NoCapitalAfterDriftQuarantine
  <1>1. Init => CutHasNoCapital
    BY EmptyFunction DEF Init, CutHasNoCapital, NoCapitalAfterDriftQuarantine
  <1>2. Spec => []CutHasNoCapital
    BY <1>1, AlwaysFresh, NextCutHasNoCapital, PTL DEF Spec
  <1>3. CutHasNoCapital => NoCapitalAfterDriftQuarantine
    BY DEF CutHasNoCapital
  <1> QED
    BY <1>2, <1>3, PTL

-----------------------------------------------------------------------------
(* The commands: whatever one of them writes to, the calls of the others   *)
(* fall behind on and the rows of the cycle are touched.                   *)

LEMMA CommandStepEffect ==
  ASSUME Typed, NEW c \in Commands, CommandStep(c)
  PROVE  /\ UNCHANGED <<phase, running, cycle, decaying, cutAtScan, unsynced, approvals>>
         /\ diverted \subseteq diverted'
         /\ \E t \in Tasks, D \in SUBSET Strategies :
              /\ Moves(c, t, D)
              /\ \A r \in Strategies \ D : health'[r] = health[r] /\ registry'[r] = registry[r]
              /\ touched \subseteq touched' /\ (DOMAIN rows # {} => D \subseteq touched')
              /\ apart \subseteq apart' \cup D
  <1>0. c \in Actors /\ c # Daemon
    BY DaemonIsNoCommand
  <1>1. ASSUME NEW s \in Strategies, SaveRegistry(c, s)
        PROVE  /\ UNCHANGED <<phase, running, cycle, decaying, cutAtScan, unsynced, approvals>>
               /\ diverted \subseteq diverted'
               /\ \E t \in Tasks, D \in SUBSET Strategies :
                    /\ Moves(c, t, D)
                    /\ \A r \in Strategies \ D :
                         health'[r] = health[r] /\ registry'[r] = registry[r]
                    /\ touched \subseteq touched' /\ (DOMAIN rows # {} => D \subseteq touched')
                    /\ apart \subseteq apart' \cup D
    <2>1. /\ UNCHANGED <<health, phase, running, cycle, decaying, cutAtScan, unsynced,
                         approvals, diverted>>
          /\ work[c].label = "upsert" /\ s \in Targets(c)
          /\ apart \subseteq apart' \cup {s}
      BY <1>0, <1>1 DEF SaveRegistry, decaying
    <2>2. Synced(c, s) \in Tasks
      BY <1>0, <2>1, SyncedType
    <2>3. \E D \in SUBSET Strategies :
            /\ Moves(c, Synced(c, s), D) /\ s \in D
            /\ \A r \in Strategies \ D : registry'[r] = registry[r]
            /\ DOMAIN rows # {} => D \subseteq touched'
            /\ touched \subseteq touched'
      BY <1>0, <1>1, SaveRegistryMoves
    <2> QED
      BY <2>1, <2>2, <2>3
  <1>2. CASE SaveDrift(c)
    <2>1. UNCHANGED <<registry, phase, running, cycle, decaying, cutAtScan, unsynced, approvals>>
            /\ diverted \subseteq diverted' /\ apart \subseteq apart'
      BY <1>2 DEF SaveDrift
    <2> QED
      BY <1>2, <2>1, SaveDriftMoves
  <1>3. CASE CommandRecords(c)
    <2>1. UNCHANGED <<registry, phase, running, cycle, decaying, cutAtScan, unsynced, approvals>>
            /\ diverted \subseteq diverted' /\ apart \subseteq apart'
      BY <1>3 DEF CommandRecords
    <2> QED
      BY <1>3, <2>1, CommandRecordsMoves, RestingType
  <1>4. ASSUME \/ CommandEnds(c) \/ LoadRegistry(c) \/ AppendRiskEvent(c) \/ CommandExecutes(c)
               \/ \E s \in Strategies :
                    \/ \E p \in Generated : Evolve(c, s, p)
                    \/ \E v \in DriftVerdicts : Drift(c, s, v)
        PROVE  /\ UNCHANGED <<files, phase, running, cycle, decaying, touched, cutAtScan, past>>
               /\ \E t \in Tasks : Moves(c, t, {})
    <2>1. CASE CommandEnds(c)
      BY <2>1, CommandEndsTyped, RestingType DEF CommandEnds
    <2>2. CASE LoadRegistry(c)
      BY <1>0, <2>2, LoadRegistryMoves DEF LoadRegistry
    <2>3. CASE AppendRiskEvent(c)
      BY <2>3, AppendRiskEventMoves DEF AppendRiskEvent
    <2>4. CASE CommandExecutes(c)
      <3>1. work'[c] \in Tasks
        BY <1>0, <2>4, CommandExecutesTyped DEF Moves
      <3> QED
        BY <2>4, <3>1, CommandExecutesTyped
    <2>5. ASSUME NEW s \in Strategies, NEW p \in Generated, Evolve(c, s, p)
          PROVE  /\ UNCHANGED <<files, phase, running, cycle, decaying, touched, cutAtScan, past>>
                 /\ \E t \in Tasks : Moves(c, t, {})
      <3>1. work'[c] \in Tasks
        BY <1>0, <2>5, EvolveTyped DEF Moves
      <3> QED
        BY <2>5, <3>1, EvolveTyped
    <2>6. ASSUME NEW s \in Strategies, NEW v \in DriftVerdicts, Drift(c, s, v)
          PROVE  /\ UNCHANGED <<files, phase, running, cycle, decaying, touched, cutAtScan, past>>
                 /\ \E t \in Tasks : Moves(c, t, {})
      <3>1. work'[c] \in Tasks
        BY <1>0, <2>6, DriftTyped DEF Moves
      <3> QED
        BY <2>6, <3>1, DriftTyped
    <2> QED
      BY <1>4, <2>1, <2>2, <2>3, <2>4, <2>5, <2>6
  <1>5. CASE \/ CommandEnds(c) \/ LoadRegistry(c) \/ AppendRiskEvent(c) \/ CommandExecutes(c)
             \/ \E s \in Strategies :
                  \/ \E p \in Generated : Evolve(c, s, p)
                  \/ \E v \in DriftVerdicts : Drift(c, s, v)
    <2>1. /\ UNCHANGED <<files, phase, running, cycle, decaying, touched, cutAtScan, past>>
          /\ \E t \in Tasks : Moves(c, t, {})
      BY <1>4, <1>5
    <2>2. \A r \in Strategies : health'[r] = health[r] /\ registry'[r] = registry[r]
      BY <2>1 DEF files
    <2> QED
      BY <2>1, <2>2 DEF past
  <1> QED
    BY <1>1, <1>2, <1>3, <1>5 DEF CommandStep

-----------------------------------------------------------------------------
(* The verdicts of a cycle. *)

(* The registry has been told of the verdict about to be saved. *)
Told ==
  LET t == work[Daemon] IN
  Verdict(t) /\ t.label = "save" /\ t.call.s \notin t.behind \cup unsynced =>
    registry[t.call.s].status = t.copy[t.call.s].status

Stand ==
  phase = "verdicts" \/ (phase = "cycle" /\ Idle(Daemon)) =>
    \A s \in DOMAIN verdicts \ (pending \cup touched) :
      /\ verdicts[s] # "accepted" => health[s].status = "quarantined"
      /\ s \notin unsynced => registry[s].status = health[s].status

VerdictsWritten == Told /\ Stand

LEMMA CommandKeepsVerdicts ==
  ASSUME Typed, VerdictsWritten, NEW c \in Commands, CommandStep(c)
  PROVE  VerdictsWritten'
  <1>1. UNCHANGED <<phase, cycle, unsynced>>
    BY CommandStepEffect
  <1> PICK t \in Tasks, D \in SUBSET Strategies :
        /\ Moves(c, t, D)
        /\ \A r \in Strategies \ D : health'[r] = health[r] /\ registry'[r] = registry[r]
        /\ touched \subseteq touched' /\ (DOMAIN rows # {} => D \subseteq touched')
    BY CommandStepEffect
  <1>2. /\ c \in Actors /\ Daemon \in Actors \ {c} /\ WellFormed(work[Daemon])
        /\ DOMAIN verdicts \subseteq DOMAIN rows /\ DOMAIN rows \subseteq Strategies
        /\ pending \subseteq DOMAIN verdicts
    BY DaemonIsNoCommand DEF Typed, TypeOK, Shape
  <1>3. /\ work'[Daemon].label = work[Daemon].label
        /\ work'[Daemon].call = work[Daemon].call
        /\ work'[Daemon].copy = work[Daemon].copy
        /\ ~Idle(Daemon) => work'[Daemon].behind = work[Daemon].behind \cup D
    BY <1>2, MovedOthers DEF Typed, TypeOK
  <1>4. Told'
    <2>1. Verdict(work[Daemon]) => work[Daemon].call.s \in Strategies
      BY <1>2 DEF Typed, TypeOK, Shape, DaemonShape
    <2> QED
      BY <1>1, <1>3, <2>1 DEF VerdictsWritten, Told, Verdict, Idle
  <1>5. Stand'
    <2>1. \A s \in DOMAIN verdicts \ touched' :
            s \notin touched /\ health'[s] = health[s] /\ registry'[s] = registry[s]
      BY <1>2
    <2> QED
      BY <1>1, <1>3, <2>1 DEF VerdictsWritten, Stand, Idle, cycle
  <1> QED
    BY <1>4, <1>5 DEF VerdictsWritten

LEMMA InitVerdictsWritten == Init => VerdictsWritten
  <1> SUFFICES ASSUME Init PROVE VerdictsWritten
    OBVIOUS
  <1>1. work[Daemon] = Resting /\ phase = "stopped"
    BY DaemonIsNoCommand DEF Init
  <1> QED
    BY <1>1 DEF VerdictsWritten, Told, Stand, Verdict, Resting

LEMMA NextVerdictsWritten ==
  Typed /\ Fresh /\ VerdictsWritten /\ [Next]_vars => VerdictsWritten'
  <1> SUFFICES ASSUME Typed, Fresh, VerdictsWritten, [Next]_vars PROVE VerdictsWritten'
    OBVIOUS
  <1>0. /\ Daemon \in Actors /\ DaemonShape /\ WellFormed(work[Daemon])
        /\ DOMAIN verdicts \subseteq Strategies /\ pending \subseteq Strategies
    BY DaemonIsNoCommand DEF Typed, TypeOK, Shape
  <1>1. CASE \/ \E forever \in BOOLEAN : Start(forever)
             \/ Scan \/ Execute \/ Wake \/ LastCycle
    <2>1. /\ phase \notin Records \cup {"verdicts"} /\ work' = work
          /\ \/ phase' \notin {"verdicts", "cycle"}
             \/ pending' = DOMAIN verdicts'
             \/ verdicts' = verdicts
      <3>1. CASE Execute
        <4>1. PICK basket \in Baskets :
                verdicts' \in [basket -> {"accepted", "rejected", "missing"}] /\ pending' = basket
          BY <3>1 DEF Execute
        <4> QED
          BY <3>1, <4>1 DEF Execute, Records
      <3>2. CASE \/ \E forever \in BOOLEAN : Start(forever)
                 \/ Scan \/ Wake \/ LastCycle
        BY <3>2 DEF Start, Scan, Wake, LastCycle, Records, Ladder, cycle
      <3> QED
        BY <1>1, <3>1, <3>2
    <2>2. Told'
      BY <2>1, DaemonRests DEF Told, Verdict, Resting
    <2>3. Stand'
      BY <2>1 DEF Stand, Typed, NoVerdictsYet, Records
    <2> QED
      BY <2>2, <2>3 DEF VerdictsWritten
  <1>2. CASE Stop \/ UNCHANGED vars
    BY <1>2 DEF Stop, vars, files, cycle, past, VerdictsWritten, Told, Stand, Idle
  <1>3. ASSUME NEW s \in Strategies, BeginVerdict(s)
        PROVE  VerdictsWritten'
    <2>1. work'[Daemon].label = "sync"
      BY <1>3, BeginVerdictMoves
    <2>2. UNCHANGED <<files, phase, cycle, touched, unsynced>> /\ phase = "verdicts"
      BY <1>3 DEF BeginVerdict, past
    <2> QED
      BY <2>1, <2>2 DEF VerdictsWritten, Told, Stand, files, cycle
  <1>4. CASE LoadRegistry(Daemon)
    <2>1. work'[Daemon].label = "upsert" /\ work[Daemon].label = "sync"
      BY <1>0, <1>4, LoadRegistryMoves
    <2>2. UNCHANGED <<files, phase, cycle, touched, unsynced>>
      BY <1>4 DEF LoadRegistry, past
    <2> QED
      BY <2>1, <2>2 DEF VerdictsWritten, Told, Stand, files, cycle, Idle
  <1>5. ASSUME NEW s \in Strategies, SaveRegistry(Daemon, s)
        PROVE  VerdictsWritten'
    <2> DEFINE t == work[Daemon]
    <2>1. /\ t.label = "upsert" /\ s \in Targets(Daemon)
          /\ UNCHANGED <<health, phase, cycle>> /\ unsynced' = unsynced \ {s}
      BY <1>5 DEF SaveRegistry
    <2>2. work'[Daemon] = Synced(Daemon, s) /\ touched' = touched
      BY <1>0, <1>5, SaveRegistryMoves DEF Moves
    <2>3. /\ \A r \in Strategies \ {s} : registry'[r] = t.draft[r]
          /\ t.call.kind \in {"quarantine", "recover"} =>
               registry'[s].status = t.copy[s].status
          /\ t.call.kind # "cycle" => s = t.call.s
      BY <1>0, <1>5, SaveRegistryEffect
    <2>4. /\ t.call.kind # "evolve" =>
               /\ work'[Daemon].call = t.call /\ work'[Daemon].copy = t.copy
               /\ work'[Daemon].label = AfterSync(Daemon, s)
          /\ t.call.kind = "cycle" => AfterSync(Daemon, s) \in {"decaySave", "sync"}
          /\ t.call.kind \in {"quarantine", "recover"} => AfterSync(Daemon, s) = "save"
      BY <1>0, <2>1, <2>2, SyncedType
    <2>5. CASE Kind(t, "cycle")
      <3>1. phase = "cycle" /\ work'[Daemon].label \in {"decaySave", "sync"}
        BY <1>0, <2>4, <2>5 DEF DaemonShape, Kind
      <3> QED
        BY <2>1, <3>1 DEF VerdictsWritten, Told, Stand, Idle
    <2>6. CASE Verdict(t)
      <3>1. phase = "verdicts" /\ s \in pending
        BY <1>0, <2>3, <2>6 DEF DaemonShape, Verdict
      <3>2. \A r \in Strategies \ t.behind : t.draft[r] = registry[r]
        BY <1>0, <2>1 DEF Fresh, FreshDraft
      <3>3. t.behind \subseteq touched
        BY <3>1 DEF Fresh, FreshVerdicts
      <3>4. \A r \in DOMAIN verdicts \ (pending \cup touched) : registry'[r] = registry[r]
        BY <1>0, <2>3, <3>1, <3>2, <3>3
      <3>5. Stand'
        BY <2>1, <2>2, <3>1, <3>4 DEF VerdictsWritten, Stand, cycle
      <3>6. Told'
        BY <2>3, <2>4, <2>6 DEF Told, Verdict
      <3> QED
        BY <3>5, <3>6 DEF VerdictsWritten
    <2> QED
      BY <1>0, <2>1, <2>5, <2>6, UpsertingTask DEF DaemonShape, Verdict, Kind
  <1>6. ASSUME NEW s \in Strategies, SyncFails(s)
        PROVE  VerdictsWritten'
    <2> DEFINE t == work[Daemon]
    <2>1. /\ Moves(Daemon, Synced(Daemon, s), {})
          /\ t.label \in {"sync", "upsert"} /\ s \in Targets(Daemon)
      BY <1>6, SyncFailsTyped
    <2>2. UNCHANGED <<files, phase, cycle, touched>> /\ unsynced' = unsynced \cup {s}
      BY <1>6 DEF SyncFails
    <2>3. work'[Daemon] = Synced(Daemon, s)
      BY <2>1 DEF Moves
    <2>4. /\ t.call.kind # "evolve" =>
               /\ work'[Daemon].call = t.call
               /\ work'[Daemon].label = AfterSync(Daemon, s)
          /\ t.call.kind = "cycle" => AfterSync(Daemon, s) \in {"decaySave", "sync"}
      BY <1>0, <2>1, <2>3, SyncedType
    <2>5. CASE Kind(t, "cycle")
      <3>1. phase = "cycle" /\ work'[Daemon].label \in {"decaySave", "sync"}
        BY <1>0, <2>4, <2>5 DEF DaemonShape, Kind
      <3> QED
        BY <2>2, <3>1 DEF VerdictsWritten, Told, Stand, Idle
    <2>6. CASE Verdict(t)
      <3>1. s = t.call.s /\ phase = "verdicts"
        BY <1>0, <2>1, <2>6 DEF Targets, Verdict, DaemonShape
      <3>2. Told'
        BY <2>2, <2>4, <2>6, <3>1 DEF Told, Verdict
      <3>3. Stand'
        BY <2>2, <3>1 DEF VerdictsWritten, Stand, files, cycle
      <3> QED
        BY <3>2, <3>3 DEF VerdictsWritten
    <2> QED
      BY <1>0, <2>1, <2>5, <2>6, UpsertingTask DEF DaemonShape, Verdict, Kind
  <1>7. CASE SaveVerdict
    <2> DEFINE t == work[Daemon]
    <2>1. /\ SaveState(Daemon, Resting) /\ t.label = "save" /\ Verdict(t)
          /\ pending' = pending \ {t.call.s}
          /\ UNCHANGED <<registry, verdicts, unsynced>>
      BY <1>7 DEF SaveVerdict, SaveState, Verdict
    <2>2. /\ health' = t.copy /\ touched' = touched /\ work'[Daemon] = Resting
      BY <1>0, <2>1, RestingType, SaveStateMoves DEF Moves
    <2>3. /\ phase = "verdicts" /\ t.call.s \in pending
          /\ t.call.kind = "recover" => verdicts[t.call.s] = "accepted"
          /\ t.call.kind = "quarantine" => t.copy[t.call.s].status = "quarantined"
      BY <1>0, <2>1 DEF DaemonShape
    <2>4. \A r \in Strategies \ t.behind : r # t.call.s => t.copy[r] = health[r]
      BY <1>0, <2>1 DEF Fresh, FreshCopy
    <2>5. t.behind \subseteq touched
      BY <2>3 DEF Fresh, FreshVerdicts
    <2>6. ASSUME NEW s \in DOMAIN verdicts \ (pending' \cup touched)
          PROVE  /\ verdicts[s] # "accepted" => health'[s].status = "quarantined"
                 /\ s \notin unsynced => registry[s].status = health'[s].status
      <3>1. CASE s = t.call.s
        BY <2>1, <2>2, <2>3, <2>5, <2>6, <3>1 DEF VerdictsWritten, Told, Verdict
      <3>2. CASE s # t.call.s
        <4>1. s \notin pending /\ health'[s] = health[s]
          BY <1>0, <2>1, <2>2, <2>4, <2>5, <2>6, <3>2
        <4> QED
          BY <2>3, <2>6, <4>1 DEF VerdictsWritten, Stand
      <3> QED
        BY <3>1, <3>2
    <2>7. Stand'
      BY <2>1, <2>2, <2>6 DEF Stand
    <2>8. Told'
      BY <2>2 DEF Told, Verdict, Resting
    <2> QED
      BY <2>7, <2>8 DEF VerdictsWritten
  <1>8. CASE BeginRecord \/ ApplyRollingDecay \/ SaveDecay
    <2>1. /\ work'[Daemon].label # "idle" /\ ~Verdict(work'[Daemon])
          /\ phase' # "verdicts"
      <3>1. CASE BeginRecord
        BY <3>1, BeginRecordMoves DEF Verdict, Kind, Records
      <3>2. CASE ApplyRollingDecay
        BY <3>2, ApplyRollingDecayMoves DEF Verdict, Kind
      <3>3. CASE SaveDecay
        <4>1. phase = "cycle" /\ phase' = phase
          BY <1>0, <3>3, SaveDecayMoves DEF DaemonShape, SaveDecay
        <4> QED
          BY <3>3, <4>1, SaveDecayMoves DEF Verdict, Kind
      <3> QED
        BY <1>8, <3>1, <3>2, <3>3
    <2> QED
      BY <2>1 DEF VerdictsWritten, Told, Stand, Idle
  <1>9. CASE SaveRecord \/ Crash
    <2>1. verdicts' = <<>> /\ work'[Daemon] = Resting
      BY <1>9, SaveRecordMoves, CrashTyped DEF SaveRecord, Crash, ForgetCycle, Moves
    <2> QED
      BY <2>1, EmptyFunction DEF VerdictsWritten, Told, Stand, Verdict, Resting
  <1>10. CASE \E c \in Commands : CommandStep(c)
    BY <1>10, CommandKeepsVerdicts
  <1> QED
    BY <1>1, <1>2, <1>3, <1>4, <1>5, <1>6, <1>7, <1>8, <1>9, <1>10 DEF Next, DaemonStep

(* When a cycle is recorded, its verdicts stand: in the state file, and in *)
(* the registry unless an exception kept the verdict from it, for every    *)
(* strategy no command has written to since the scan, whatever commands    *)
(* write to the others between any two file operations of the daemon.      *)
THEOREM VerdictsStand == Spec => []CycleVerdictsStand
  <1>1. Spec => [](Typed /\ VerdictsWritten)
    BY InitVerdictsWritten, AlwaysFresh, NextVerdictsWritten, PTL DEF Spec
  <1>2. Typed /\ VerdictsWritten => CycleVerdictsStand
    BY DEF Typed, NoVerdictsYet, VerdictsWritten, Stand, CycleVerdictsStand
  <1> QED
    BY <1>1, <1>2, PTL

-----------------------------------------------------------------------------
(* The fills a release takes, as long as neither a drift verdict, which    *)
(* keeps an old streak, nor an outdated copy interferes.                   *)

Streak(e, r) ==
  e # NoEntry /\ e.status = "quarantined" =>
    e.recovery = approvals[r] /\ approvals[r] < RecoveryThreshold

(* append_cycle holds a copy from before the decay: what that copy says of *)
(* a streak stays true until it is saved, for whom it is not behind on.    *)
StreakIsEarned ==
  /\ \A r \in Strategies \ diverted : Streak(health[r], r)
  /\ Kind(work[Daemon], "cycle") =>
       \A r \in Strategies \ (diverted \cup work[Daemon].behind) :
         Streak(work[Daemon].copy[r], r)

(* Only a quarantined entry that lacks approvals stays quarantined.        *)
LEMMA RecoveredFromQuarantine ==
  ASSUME NEW e \in HealthEntries
  PROVE  /\ Recovered(e).status = "quarantined" =>
              /\ e.status = "quarantined"
              /\ e.recovery + 1 < RecoveryThreshold
              /\ Recovered(e).recovery = e.recovery + 1
         /\ e.status = "quarantined" /\ Recovered(e).status # "quarantined" =>
              e.recovery + 1 >= RecoveryThreshold
  <1>1. e.recovery \in Nat
    BY DEF HealthEntries
  <1>2. Recovered(e).status =
          IF CompletesRecovery(e) THEN Promoted(e.status) ELSE e.status
    BY RecoveredStatus
  <1>3. Recovered(e).recovery =
          IF UnderRecovery(e) /\ ~CompletesRecovery(e) THEN e.recovery + 1 ELSE 0
    BY DEF Recovered, HealthEntries
  <1>4. Promoted(e.status) # "quarantined"
    BY DEF Promoted
  <1> QED
    BY <1>1, <1>2, <1>3, <1>4, ThresholdAssumption
    DEF CompletesRecovery, UnderRecovery, Needed

(* apply_rolling_decay imposes no quarantine and touches no streak.        *)
LEMMA DecayKeepsStreak ==
  ASSUME Typed, NEW r \in Strategies, Streak(health[r], r)
  PROVE  Streak(AfterDecay(r), r)
  <1>1. CASE health[r] = NoEntry
    BY <1>1 DEF AfterDecay, Streak
  <1>2. CASE health[r] # NoEntry
    <2>1. health[r] \in HealthEntries
      BY <1>2 DEF Typed, TypeOK, Healths
    <2> DEFINE e == health[r]
    <2>2. /\ Refreshed(e).recovery = e.recovery
          /\ Refreshed(e).status = "quarantined" => e.status = "quarantined"
      BY <2>1 DEF Refreshed, HealthEntries
    <2>3. /\ Decayed(e).recovery = e.recovery
          /\ Decayed(e).status = "quarantined" => e.status = "quarantined"
      BY <2>1 DEF Decayed, HealthEntries
    <2> QED
      BY <1>2, <2>2, <2>3 DEF AfterDecay, Streak
  <1> QED
    BY <1>1, <1>2

LEMMA InitStreakIsEarned == Init => StreakIsEarned
  <1> SUFFICES ASSUME Init PROVE StreakIsEarned
    OBVIOUS
  <1> PICK start \in [Strategies -> InitialPairs] :
        health = [r \in Strategies |-> start[r][1]]
    BY DEF Init
  <1>1. ASSUME NEW s \in Strategies, health[s] # NoEntry, health[s].status = "quarantined"
        PROVE  health[s].recovery = approvals[s] /\ approvals[s] < RecoveryThreshold
    <2>1. HealthEntry(health, s) = health[s]
      BY <1>1 DEF HealthEntry
    <2>2. health[s].recovery < RecoveryThreshold
      BY <1>1, InitialAssumption
    <2>3. approvals[s] = health[s].recovery
      BY <1>1, <2>1 DEF Init
    <2> QED
      BY <2>2, <2>3
  <1>2. work[Daemon] = Resting
    BY DaemonIsNoCommand DEF Init
  <1> QED
    BY <1>1, <1>2 DEF StreakIsEarned, Streak, Kind, Resting

(* A command leaves every streak it does not divert as it was.             *)
LEMMA CommandKeepsStreaks ==
  ASSUME Typed, Fresh, StreakIsEarned, NEW c \in Commands, CommandStep(c)
  PROVE  StreakIsEarned'
  <1>1. approvals' = approvals /\ diverted \subseteq diverted'
    BY CommandStepEffect
  <1> PICK t \in Tasks, D \in SUBSET Strategies : Moves(c, t, D)
    BY CommandStepEffect
  <1>2. c \in Actors /\ Daemon \in Actors \ {c} /\ WellFormed(work[Daemon])
    BY DaemonIsNoCommand DEF Typed, TypeOK, Shape
  <1>3. /\ work'[Daemon].call = work[Daemon].call
        /\ work'[Daemon].copy = work[Daemon].copy
        /\ work[Daemon].behind \subseteq work'[Daemon].behind
    BY <1>2, MovedOthers DEF Typed, TypeOK
  <1>4. \A r \in Strategies \ diverted' : health'[r] = health[r]
    <2>1. CASE SaveDrift(c)
      <3>1. /\ work[c].label = "save" /\ Kind(work[c], "drift") /\ health' = work[c].copy
        BY <2>1, SaveDriftMoves
      <3>2. diverted' = diverted \cup work[c].behind \cup {work[c].call.s}
        BY <2>1 DEF SaveDrift
      <3>3. \A r \in Strategies \ work[c].behind :
              r # work[c].call.s => work[c].copy[r] = health[r]
        BY <1>2, <3>1 DEF Fresh, FreshCopy
      <3> QED
        BY <3>1, <3>2, <3>3
    <2>2. CASE CommandRecords(c)
      <3>1. Kind(work[c], "record") /\ health' = work[c].copy
        BY <2>2, CommandRecordsMoves
      <3>2. diverted' = diverted \cup work[c].behind
        BY <2>2 DEF CommandRecords
      <3>3. \A r \in Strategies \ work[c].behind : work[c].copy[r] = health[r]
        BY <1>2, <3>1 DEF Fresh, FreshCopy
      <3> QED
        BY <3>1, <3>2, <3>3
    <2>3. CASE ~SaveDrift(c) /\ ~CommandRecords(c)
      <3>1. health' = health
        BY <2>3 DEF CommandStep, SaveRegistry, LoadRegistry, AppendRiskEvent, CommandExecutes,
                    CommandEnds, Evolve, Drift, BeginCommand, files
      <3> QED
        BY <3>1
    <2> QED
      BY <2>1, <2>2, <2>3
  <1>5. \A r \in Strategies \ diverted' : Streak(health[r], r)' <=> Streak(health[r], r)
    BY <1>1, <1>4 DEF Streak
  <1>6. \A r : Streak(work[Daemon].copy[r], r)' <=> Streak(work[Daemon].copy[r], r)
    BY <1>1, <1>3 DEF Streak
  <1>7. Kind(work'[Daemon], "cycle") <=> Kind(work[Daemon], "cycle")
    BY <1>3 DEF Kind
  <1> QED
    BY <1>1, <1>3, <1>5, <1>6, <1>7 DEF StreakIsEarned

(* One verdict: what it does to the streak, and to the status. *)
LEMMA VerdictKeepsStreaks ==
  ASSUME Typed, Fresh, StreakIsEarned, SaveVerdict
  PROVE  /\ StreakIsEarned'
         /\ \A s \in Strategies \ diverted' :
              Releases(s) => approvals'[s] = RecoveryThreshold
  <1>0. Daemon \in Actors /\ DaemonShape
    BY DaemonIsNoCommand DEF Typed, Shape
  <1> DEFINE t    == work[Daemon]
             lost == t.behind
  <1>1. /\ SaveState(Daemon, Resting) /\ t.label = "save" /\ Verdict(t)
        /\ t.call # Nothing /\ t.call.kind \in {"quarantine", "recover"}
    BY DEF SaveVerdict, SaveState, Verdict
  <1> PICK s \in Strategies : s = work[Daemon].call.s
    BY <1>0, <1>1, SavingTask
  <1> DEFINE e == HealthEntry(health, s)
  <1>2. /\ health' = t.copy /\ health' \in Healths /\ work'[Daemon] = Resting
        /\ t.call \in Calls /\ t.copy[s] \in HealthEntries
    BY <1>0, <1>1, RestingType, SaveStateMoves, SavingTask DEF Moves
  <1>3. \A r \in Strategies \ lost :
          t.copy[r] = IF r = s THEN NewEntry(t.call) ELSE health[r]
    BY <1>0, <1>1 DEF Fresh, FreshCopy
  <1>4. e \in HealthEntries /\ e.recovery \in Nat
    BY <1>2, VerdictEntries DEF Typed, TypeOK, HealthEntries
  <1>5. approvals \in [Strategies -> 0 .. RecoveryThreshold]
    BY DEF Typed, TypeOK
  <1>6. HealthEntry(health', s) = t.copy[s] /\ health'[s] = t.copy[s] /\ health'[s] # NoEntry
    BY <1>2, AbsenceAssumption DEF HealthEntry
  <1>7. s \notin diverted /\ e.status = "quarantined" =>
          approvals[s] = e.recovery /\ approvals[s] < RecoveryThreshold
    BY <1>2 DEF StreakIsEarned, Streak, HealthEntry, DefaultEntry
  <1>8. ~Kind(work'[Daemon], "cycle")
    BY <1>2 DEF Kind, Resting
  <1>9. \A r : Releases(r) =>
          r = s /\ e.status = "quarantined" /\ t.copy[s].status # "quarantined"
    BY <1>6 DEF Releases
  <1>10. CASE t.call.kind = "recover"
    <2>1. /\ approvals' = [approvals EXCEPT ![s] = Capped(approvals[s] + 1)]
          /\ diverted' = diverted \cup lost
      BY <1>10 DEF SaveVerdict
    <2>2. \A r \in Strategies \ diverted' : r # s => Streak(health[r], r)'
      <3>1. \A r \in Strategies \ diverted' :
              r # s => /\ approvals'[r] = approvals[r] /\ health'[r] = health[r]
                       /\ Streak(health[r], r)
        BY <1>2, <1>3, <1>5, <2>1 DEF StreakIsEarned
      <3> QED
        BY <3>1 DEF Streak
    <2>3. CASE s \in diverted'
      BY <1>8, <1>9, <2>2, <2>3 DEF StreakIsEarned
    <2>4. CASE s \notin diverted'
      <3>1. t.copy[s] = Recovered(e)
        BY <1>2, <1>3, <1>10, <2>1, <2>4 DEF NewEntry
      <3>2. /\ Recovered(e).status = "quarantined" =>
                 /\ e.status = "quarantined"
                 /\ e.recovery + 1 < RecoveryThreshold
                 /\ Recovered(e).recovery = e.recovery + 1
            /\ e.status = "quarantined" /\ Recovered(e).status # "quarantined" =>
                 e.recovery + 1 >= RecoveryThreshold
        BY <1>4, RecoveredFromQuarantine
      <3>3. approvals'[s] = Capped(approvals[s] + 1) /\ approvals[s] \in Nat
        BY <1>2, <1>5, <2>1
      <3>4. s \notin diverted
        BY <2>1, <2>4
      <3>5. e.status = "quarantined" /\ Recovered(e).status # "quarantined" =>
              approvals'[s] = RecoveryThreshold
        <4> HIDE DEF e
        <4> QED
          BY <1>4, <1>7, <3>2, <3>3, <3>4, ThresholdAssumption DEF Capped
      <3>6. Streak(health[s], s)'
        <4>1. Recovered(e).status = "quarantined" =>
                Recovered(e).recovery = approvals'[s] /\ approvals'[s] < RecoveryThreshold
          <5> HIDE DEF e
          <5> QED
            BY <1>4, <1>7, <3>2, <3>3, <3>4, ThresholdAssumption DEF Capped
        <4> QED
          BY <1>6, <3>1, <4>1 DEF Streak
      <3> QED
        BY <1>8, <1>9, <2>2, <3>1, <3>5, <3>6 DEF StreakIsEarned
    <2> QED
      BY <2>3, <2>4
  <1>11. CASE t.call.kind = "quarantine"
    <2>1. /\ approvals' = [approvals EXCEPT ![s] = 0]
          /\ diverted' = (diverted \cup lost) \ {s}
      BY <1>11 DEF SaveVerdict
    <2>2. \A r \in Strategies \ diverted' : r # s => Streak(health[r], r)'
      <3>1. \A r \in Strategies \ diverted' :
              r # s => /\ approvals'[r] = approvals[r] /\ health'[r] = health[r]
                       /\ Streak(health[r], r)
        BY <1>2, <1>3, <1>5, <2>1 DEF StreakIsEarned
      <3> QED
        BY <3>1 DEF Streak
    <2>3. t.copy[s].status = "quarantined" /\ t.copy[s].recovery = 0
      BY <1>0, <1>1, <1>11 DEF DaemonShape
    <2>4. approvals'[s] = 0 /\ 0 < RecoveryThreshold
      BY <1>2, <1>5, <2>1, ThresholdAssumption
    <2>5. Streak(health[s], s)'
      BY <1>6, <2>3, <2>4 DEF Streak
    <2> QED
      BY <1>8, <1>9, <2>2, <2>3, <2>5 DEF StreakIsEarned
  <1> QED
    BY <1>1, <1>10, <1>11

LEMMA NextStreakIsEarned ==
  Typed /\ Fresh /\ StreakIsEarned /\ [Next]_vars => StreakIsEarned'
  <1> SUFFICES ASSUME Typed, Fresh, StreakIsEarned, [Next]_vars PROVE StreakIsEarned'
    OBVIOUS
  <1>0. Daemon \in Actors /\ WellFormed(work[Daemon])
    BY DaemonIsNoCommand DEF Typed, TypeOK, Shape
  <1>1. CASE SaveVerdict
    BY <1>1, VerdictKeepsStreaks
  <1>2. CASE \E c \in Commands : CommandStep(c)
    BY <1>2, CommandKeepsStreaks
  <1>3. CASE BeginRecord
    <2>1. /\ work'[Daemon].copy = health /\ work'[Daemon].behind = {}
          /\ UNCHANGED <<files, past>>
      BY <1>3, BeginRecordMoves
    <2> QED
      BY <2>1 DEF StreakIsEarned, Streak, files, past
  <1>4. CASE SaveDecay
    <2>1. /\ work[Daemon].label = "decaySave" /\ Kind(work[Daemon], "cycle")
          /\ work'[Daemon].call = work[Daemon].call /\ work'[Daemon].copy = work[Daemon].copy
          /\ work'[Daemon].behind = work[Daemon].behind /\ health' = decayed
      BY <1>4, SaveDecayMoves
    <2>2. approvals' = approvals /\ diverted' = diverted \cup work[Daemon].behind
      BY <1>4 DEF SaveDecay
    <2>3. \A r \in Strategies \ diverted' :
            /\ Streak(health[r], r) /\ health'[r] = AfterDecay(r)
      BY <2>1, <2>2 DEF StreakIsEarned, Fresh, FreshDecay
    <2>4. \A r \in Strategies \ diverted' : Streak(AfterDecay(r), r)
      BY <2>3, DecayKeepsStreak
    <2>5. \A r \in Strategies \ diverted' : Streak(health[r], r)'
      BY <2>2, <2>3, <2>4 DEF Streak
    <2>6. \A r \in Strategies \ (diverted' \cup work'[Daemon].behind) :
            Streak(work[Daemon].copy[r], r)'
      <3>1. \A r \in Strategies \ (diverted' \cup work'[Daemon].behind) :
              Streak(work[Daemon].copy[r], r)
        BY <2>1, <2>2 DEF StreakIsEarned
      <3> QED
        BY <2>1, <2>2, <3>1 DEF Streak
    <2> QED
      BY <2>5, <2>6 DEF StreakIsEarned
  <1>5. CASE SaveRecord
    <2>1. /\ Kind(work[Daemon], "cycle") \/ Kind(work[Daemon], "record")
          /\ health' = work[Daemon].copy /\ work[Daemon].label = "save"
      BY <1>5, SaveRecordMoves
    <2>2. work'[Daemon] = Resting
      BY <1>5, SaveRecordMoves DEF Moves
    <2>3. approvals' = approvals /\ diverted' = diverted \cup work[Daemon].behind
      BY <1>5 DEF SaveRecord
    <2>4. \A r \in Strategies \ diverted' : Streak(work[Daemon].copy[r], r)
      <3>1. CASE Kind(work[Daemon], "cycle")
        BY <2>3, <3>1 DEF StreakIsEarned
      <3>2. CASE Kind(work[Daemon], "record")
        <4>1. \A r \in Strategies \ work[Daemon].behind : work[Daemon].copy[r] = health[r]
          BY <1>0, <3>2 DEF Fresh, FreshCopy
        <4> QED
          BY <2>3, <4>1 DEF StreakIsEarned
      <3> QED
        BY <2>1, <3>1, <3>2
    <2>5. \A r \in Strategies \ diverted' : Streak(health[r], r)'
      BY <2>1, <2>3, <2>4 DEF Streak
    <2> QED
      BY <2>2, <2>5 DEF StreakIsEarned, Kind, Resting
  <1>6. CASE /\ UNCHANGED <<health, approvals, diverted>>
             /\ \/ ~Kind(work'[Daemon], "cycle")
                \/ /\ work'[Daemon].call = work[Daemon].call
                   /\ work'[Daemon].copy = work[Daemon].copy
                   /\ work'[Daemon].behind = work[Daemon].behind
    BY <1>6 DEF StreakIsEarned, Streak, Kind
  <1>7. CASE \/ \E forever \in BOOLEAN : Start(forever)
             \/ Scan \/ Execute \/ Wake \/ LastCycle \/ Stop
             \/ UNCHANGED vars
    <2>1. UNCHANGED <<health, approvals, diverted, work>>
      BY <1>7 DEF Start, Scan, Execute, Wake, LastCycle, Stop, vars, files, past
    <2> QED
      BY <1>6, <2>1
  <1>8. CASE \E s \in Strategies : BeginVerdict(s)
    <2>1. UNCHANGED <<health, approvals, diverted>>
      BY <1>8 DEF BeginVerdict, files, past
    <2>2. ~Kind(work'[Daemon], "cycle")
      BY <1>8, BeginVerdictMoves DEF Kind
    <2> QED
      BY <1>6, <2>1, <2>2
  <1>9. CASE LoadRegistry(Daemon)
    <2>1. UNCHANGED <<health, approvals, diverted>>
      BY <1>9 DEF LoadRegistry, files, past
    <2> QED
      BY <1>0, <1>6, <1>9, <2>1, LoadRegistryMoves
  <1>10. ASSUME NEW s \in Strategies, SaveRegistry(Daemon, s) \/ SyncFails(s)
         PROVE  StreakIsEarned'
    <2>1. UNCHANGED <<health, approvals, diverted>>
      BY <1>10 DEF SaveRegistry, SyncFails, files
    <2>2. work[Daemon].label \in {"sync", "upsert"} /\ s \in Targets(Daemon)
      BY <1>10 DEF SaveRegistry, SyncFails
    <2>3. work'[Daemon] = Synced(Daemon, s)
      BY <1>0, <1>10, SaveRegistryMoves, SyncFailsTyped DEF Moves
    <2>4. \/ work'[Daemon] = Resting
          \/ /\ work'[Daemon].call = work[Daemon].call
             /\ work'[Daemon].copy = work[Daemon].copy
             /\ work'[Daemon].behind = work[Daemon].behind
      BY <1>0, <2>2, <2>3, SyncedType
    <2> QED
      BY <1>6, <2>1, <2>4 DEF Kind, Resting
  <1>11. CASE ApplyRollingDecay
    <2>1. UNCHANGED <<health, approvals, diverted>>
      BY <1>11 DEF ApplyRollingDecay, files, past
    <2> QED
      BY <1>6, <1>11, <2>1, ApplyRollingDecayMoves
  <1>12. CASE Crash
    <2>1. UNCHANGED <<health, approvals, diverted>>
      BY <1>12 DEF Crash, files, past
    <2>2. work'[Daemon] = Resting
      BY <1>12, CrashTyped DEF Moves
    <2> QED
      BY <1>6, <2>1, <2>2 DEF Kind, Resting
  <1> QED
    BY <1>1, <1>2, <1>3, <1>4, <1>5, <1>7, <1>8, <1>9, <1>10, <1>11, <1>12
    DEF Next, DaemonStep

(* Unless a drift verdict or an outdated copy has come in between, the     *)
(* daemon lifts a quarantine only after RECOVERY_THRESHOLD approved fills  *)
(* since it was imposed, whatever is evolved, recorded, stopped or killed  *)
(* meanwhile.                                                              *)
THEOREM ReleaseIsEarned == Spec => FillsReleaseOnlyAfterThreshold
  <1>1. Typed /\ Fresh /\ StreakIsEarned /\ [Next]_vars =>
          [\A s \in Strategies \ diverted' :
             Releases(s) => approvals'[s] = RecoveryThreshold]_vars
    BY VerdictKeepsStreaks DEF Releases
  <1>2. Spec => [](Typed /\ Fresh /\ StreakIsEarned)
    BY AlwaysFresh, InitStreakIsEarned, NextStreakIsEarned, PTL DEF Spec
  <1> QED
    BY <1>1, <1>2, PTL DEF Spec, FillsReleaseOnlyAfterThreshold

-----------------------------------------------------------------------------
(* The candidates of a cycle: what is out of trading is off the ladder,    *)
(* unless only one half of a call has reached the files, or it has been    *)
(* evolved again.                                                          *)

Follows(e, r) == Out(e) => OffLadder(registry[r])

InStep ==
  /\ \A r \in Strategies \ apart : Follows(health[r], r)
  /\ Kind(work[Daemon], "cycle") =>
       \A r \in Strategies \ (apart \cup work[Daemon].behind) :
         /\ Follows(work[Daemon].copy[r], r)
         /\ work[Daemon].label \in {"sync", "upsert", "decaySave"} /\ r \notin retiring =>
              Follows(decayed[r], r)

(* The rows of a cycle are on the ladder as long as nobody touches them.   *)
RowsListed ==
  phase = "allocate" => \A s \in DOMAIN rows \ touched : ~OffLadder(registry[s])

RegistryFollows == InStep /\ RowsListed

LEMMA OutIsOff ==
  ASSUME NEW e, NEW entry, Out(e), entry.status = e.status
  PROVE  OffLadder(entry)
  BY DEF Out, OffLadder, Ladder

(* Decay takes out of trading only what it retires. *)
LEMMA DecayKeepsFollowing ==
  ASSUME Typed, NEW r \in Strategies, Follows(health[r], r),
         r \notin RetiredByDecay(DOMAIN verdicts)
  PROVE  Follows(AfterDecay(r), r)
  <1>1. CASE health[r] = NoEntry
    BY <1>1 DEF AfterDecay, Follows, Out
  <1>2. CASE health[r] # NoEntry
    <2> DEFINE e == health[r]
    <2>1. e \in HealthEntries
      BY <1>2 DEF Typed, TypeOK, Healths
    <2>2. CASE r \in DOMAIN verdicts
      <3>1. Out(Refreshed(e)) => Out(e)
        BY <1>2, <2>1 DEF Refreshed, HealthEntries, Out
      <3> QED
        BY <1>2, <2>2, <3>1 DEF AfterDecay, Follows
    <2>3. CASE r \notin DOMAIN verdicts
      <3>1. ~RetiresByDecay(e)
        BY <1>2, <2>3 DEF RetiredByDecay, Known
      <3>2. Out(Decayed(e)) => Out(e)
        BY <1>2, <2>1, <3>1 DEF Decayed, HealthEntries, Out
      <3> QED
        BY <1>2, <2>3, <3>2 DEF AfterDecay, Follows
    <2> QED
      BY <2>2, <2>3
  <1> QED
    BY <1>1, <1>2

LEMMA InitRegistryFollows == Init => RegistryFollows
  <1> SUFFICES ASSUME Init PROVE RegistryFollows
    OBVIOUS
  <1> PICK start \in [Strategies -> InitialPairs] :
        /\ health   = [s \in Strategies |-> start[s][1]]
        /\ registry = [s \in Strategies |-> start[s][2]]
    BY DEF Init
  <1>1. \A s \in Strategies : Follows(health[s], s)
    BY InitialAssumption DEF Follows
  <1>2. work[Daemon] = Resting /\ phase = "stopped"
    BY DaemonIsNoCommand DEF Init
  <1> QED
    BY <1>1, <1>2 DEF RegistryFollows, InStep, RowsListed, Kind, Resting

(* A command parts the two entries of a strategy only where the history    *)
(* says so, and brings them together again when a drift verdict ends.      *)
LEMMA CommandKeepsFollowing ==
  ASSUME Typed, Fresh, RegistryFollows, NEW c \in Commands, CommandStep(c)
  PROVE  RegistryFollows'
  <1>1. UNCHANGED <<phase, rows, decayed, retiring>>
    BY CommandStepEffect DEF cycle, decaying
  <1> PICK t \in Tasks, D \in SUBSET Strategies :
        /\ Moves(c, t, D)
        /\ \A r \in Strategies \ D : health'[r] = health[r] /\ registry'[r] = registry[r]
        /\ touched \subseteq touched' /\ (DOMAIN rows # {} => D \subseteq touched')
        /\ apart \subseteq apart' \cup D
    BY CommandStepEffect
  <1>2. c \in Actors /\ Daemon \in Actors \ {c} /\ WellFormed(work[Daemon])
    BY DaemonIsNoCommand DEF Typed, TypeOK, Shape
  <1>3. /\ work'[Daemon].call = work[Daemon].call
        /\ work'[Daemon].copy = work[Daemon].copy
        /\ work'[Daemon].label = work[Daemon].label
        /\ ~Idle(Daemon) => work'[Daemon].behind = work[Daemon].behind \cup D
    BY <1>2, MovedOthers DEF Typed, TypeOK
  <1>4. RowsListed'
    <2>1. DOMAIN rows \subseteq Strategies
      BY DEF Typed, TypeOK
    <2>2. \A s \in DOMAIN rows \ touched' : s \notin touched /\ registry'[s] = registry[s]
      BY <2>1
    <2> QED
      BY <1>1, <2>2 DEF RegistryFollows, RowsListed
  <1>5. ASSUME NEW r \in Strategies \ apart'
        PROVE  Follows(health[r], r)'
    <2>1. ASSUME NEW s \in Strategies, SaveRegistry(c, s)
          PROVE  Follows(health[r], r)'
      <3>1. /\ work[c].label = "upsert" /\ health' = health
            /\ apart' = IF work[c].call.kind = "drift" /\ s \notin work[c].behind
                        THEN (apart \cup work[c].behind) \ {s}
                        ELSE IF work[c].call.kind = "cycle" THEN apart \cup work[c].behind
                        ELSE apart \cup work[c].behind \cup {s}
        BY <2>1 DEF SaveRegistry
      <3>2. /\ \A q \in Strategies \ {s} : registry'[q] = work[c].draft[q]
            /\ work[c].call.kind = "drift" => registry'[s].status = work[c].copy[s].status
            /\ work[c].call.kind # "cycle" => s = work[c].call.s
        BY <1>2, <2>1, SaveRegistryEffect
      <3>3. \A q \in Strategies \ work[c].behind : work[c].draft[q] = registry[q]
        BY <1>2, <3>1 DEF Fresh, FreshDraft
      <3>4. CASE r # s
        <4>1. r \notin apart /\ r \notin work[c].behind
          BY <1>5, <3>1, <3>4
        <4>2. registry'[r] = registry[r] /\ health'[r] = health[r]
          BY <3>1, <3>2, <3>3, <3>4, <4>1
        <4> QED
          BY <4>1, <4>2 DEF RegistryFollows, InStep, Follows
      <3>5. CASE r = s
        <4>1. work[c].call.kind \in {"evolve", "drift", "record"} /\ work[c].call # Nothing
          BY <3>1 DEF Typed, Shape, CommandShape, Kind
        <4>2. work[c].call.kind = "drift" /\ s \notin work[c].behind
          BY <1>5, <3>1, <3>5, <4>1
        <4>3. work[c].copy[s] = health[s]
          BY <1>2, <3>1, <4>1, <4>2 DEF Fresh, FreshCopy, Kind
        <4>4. registry'[s].status = health'[s].status
          BY <3>1, <3>2, <4>2, <4>3
        <4> QED
          BY <3>5, <4>4, OutIsOff DEF Follows
      <3> QED
        BY <3>4, <3>5
    <2>2. CASE SaveDrift(c)
      <3>1. /\ work[c].label = "save" /\ Kind(work[c], "drift") /\ health' = work[c].copy
        BY <2>2, SaveDriftMoves
      <3>2. apart' = apart \cup work[c].behind \cup {work[c].call.s} /\ registry' = registry
        BY <2>2 DEF SaveDrift
      <3>3. \A q \in Strategies \ work[c].behind :
              q # work[c].call.s => work[c].copy[q] = health[q]
        BY <1>2, <3>1 DEF Fresh, FreshCopy
      <3> QED
        BY <1>5, <3>1, <3>2, <3>3 DEF RegistryFollows, InStep, Follows
    <2>3. CASE CommandRecords(c)
      <3>1. Kind(work[c], "record") /\ health' = work[c].copy
        BY <2>3, CommandRecordsMoves
      <3>2. apart' = apart \cup work[c].behind /\ registry' = registry
        BY <2>3 DEF CommandRecords
      <3>3. \A q \in Strategies \ work[c].behind : work[c].copy[q] = health[q]
        BY <1>2, <3>1 DEF Fresh, FreshCopy
      <3> QED
        BY <1>5, <3>1, <3>2, <3>3 DEF RegistryFollows, InStep, Follows
    <2>4. CASE /\ ~SaveDrift(c) /\ ~CommandRecords(c)
               /\ \A s \in Strategies : ~SaveRegistry(c, s)
      <3>1. UNCHANGED <<health, registry, apart>>
        BY <2>4 DEF CommandStep, LoadRegistry, AppendRiskEvent, CommandExecutes, CommandEnds,
                    Evolve, Drift, BeginCommand, files, past
      <3> QED
        BY <1>5, <3>1 DEF RegistryFollows, InStep, Follows
    <2> QED
      BY <2>1, <2>2, <2>3, <2>4
  <1>6. ASSUME Kind(work[Daemon], "cycle"),
               NEW r \in Strategies \ (apart' \cup work'[Daemon].behind)
        PROVE  /\ Follows(work[Daemon].copy[r], r)'
               /\ (work[Daemon].label \in {"sync", "upsert", "decaySave"} /\ r \notin retiring =>
                    Follows(decayed[r], r))'
    <2>1. ~Idle(Daemon)
      BY <1>2, <1>6 DEF Idle, WellFormed, Kind, Resting
    <2>2. r \notin D /\ r \notin apart /\ r \notin work[Daemon].behind
      BY <1>3, <1>6, <2>1
    <2>3. registry'[r] = registry[r]
      BY <2>2
    <2> QED
      BY <1>1, <1>3, <1>6, <2>2, <2>3 DEF RegistryFollows, InStep, Follows
  <1>7. Kind(work'[Daemon], "cycle") <=> Kind(work[Daemon], "cycle")
    BY <1>3 DEF Kind
  <1>8. InStep'
    BY <1>5, <1>6, <1>7 DEF InStep
  <1> QED
    BY <1>4, <1>8 DEF RegistryFollows

(* The daemon tells the registry, or fails to. *)
LEMMA SaveRegistryKeepsFollowing ==
  ASSUME Typed, Fresh, RegistryFollows, NEW s \in Strategies, SaveRegistry(Daemon, s)
  PROVE  InStep'
  <1> DEFINE t == work[Daemon]
  <1>0. Daemon \in Actors /\ DaemonShape
    BY DaemonIsNoCommand DEF Typed, Shape
  <1>1. /\ t.label = "upsert" /\ s \in Targets(Daemon)
        /\ UNCHANGED <<health, decayed>> /\ retiring' = retiring \ {s}
        /\ t.call.kind = "cycle" => apart' = apart \cup t.behind
        /\ t.call.kind \in {"quarantine", "recover"} => apart' = apart \cup t.behind \cup {s}
    BY DEF SaveRegistry
  <1>2. work'[Daemon] = Synced(Daemon, s)
    BY <1>0, SaveRegistryMoves DEF Moves
  <1>3. /\ \A r \in Strategies \ {s} : registry'[r] = t.draft[r]
        /\ t.call.kind = "cycle" => registry'[s].status = "retired"
    BY <1>0, SaveRegistryEffect
  <1>4. \A r \in Strategies \ t.behind : t.draft[r] = registry[r]
    BY <1>0, <1>1 DEF Fresh, FreshDraft
  <1>5. \A r \in Strategies \ t.behind : r # s => registry'[r] = registry[r]
    BY <1>3, <1>4
  <1>6. t.call.kind # "evolve" =>
          work'[Daemon].call = t.call /\ work'[Daemon].copy = t.copy
            /\ work'[Daemon].behind = t.behind
    BY <1>0, <1>1, <1>2, SyncedType
  <1>7. CASE Verdict(t)
    <2>1. ~Kind(work'[Daemon], "cycle")
      BY <1>6, <1>7 DEF Verdict, Kind
    <2>2. ASSUME NEW r \in Strategies \ apart'
          PROVE  Follows(health[r], r)'
      <3>1. r # s /\ r \notin t.behind /\ r \notin apart
        BY <1>1, <1>7, <2>2 DEF Verdict
      <3> QED
        BY <1>1, <1>5, <3>1 DEF RegistryFollows, InStep, Follows
    <2> QED
      BY <2>1, <2>2 DEF InStep
  <1>8. CASE Kind(t, "cycle")
    <2>1. OffLadder(registry'[s])
      BY <1>3, <1>8 DEF Kind, OffLadder, Ladder
    <2>2. work'[Daemon].copy = t.copy /\ work'[Daemon].behind = t.behind
            /\ apart' = apart \cup t.behind
      BY <1>1, <1>6, <1>8 DEF Kind
    <2>3. ASSUME NEW r \in Strategies \ apart'
          PROVE  /\ Follows(health[r], r)'
                 /\ Follows(work[Daemon].copy[r], r)'
                 /\ r \notin retiring' => Follows(decayed[r], r)'
      <3>1. r \notin t.behind /\ r \notin apart
        BY <2>2, <2>3
      <3>2. CASE r = s
        BY <2>1, <3>2 DEF Follows
      <3>3. CASE r # s
        <4>1. registry'[r] = registry[r] /\ (r \notin retiring' => r \notin retiring)
          BY <1>1, <1>5, <3>1, <3>3
        <4> QED
          BY <1>1, <1>8, <2>2, <3>1, <4>1 DEF RegistryFollows, InStep, Follows
      <3> QED
        BY <3>2, <3>3
    <2> QED
      BY <2>2, <2>3 DEF InStep
  <1> QED
    BY <1>0, <1>1, <1>7, <1>8, UpsertingTask DEF DaemonShape, Verdict, Kind

LEMMA SyncFailsKeepsFollowing ==
  ASSUME Typed, RegistryFollows, NEW s \in Strategies, SyncFails(s)
  PROVE  InStep'
  <1> DEFINE t == work[Daemon]
  <1>0. Daemon \in Actors /\ DaemonShape
    BY DaemonIsNoCommand DEF Typed, Shape
  <1>1. /\ t.label \in {"sync", "upsert"} /\ s \in Targets(Daemon)
        /\ work'[Daemon] = Synced(Daemon, s)
    BY SyncFailsTyped DEF Moves
  <1>2. /\ UNCHANGED <<files, decayed>> /\ retiring' = retiring \ {s}
        /\ apart' = IF t.call.kind = "cycle" THEN apart \cup {s} ELSE apart
    BY DEF SyncFails
  <1>3. t.call.kind # "evolve" =>
          work'[Daemon].call = t.call /\ work'[Daemon].copy = t.copy
            /\ work'[Daemon].behind = t.behind
    BY <1>0, <1>1, SyncedType
  <1>4. \A r \in Strategies \ apart' : Follows(health[r], r)'
    BY <1>2 DEF RegistryFollows, InStep, Follows, files
  <1>5. CASE Verdict(t)
    BY <1>3, <1>4, <1>5 DEF InStep, Verdict, Kind
  <1>6. CASE Kind(t, "cycle")
    <2>1. \A r \in Strategies \ (apart' \cup work'[Daemon].behind) :
            /\ r \notin apart /\ r \notin t.behind
            /\ r \notin retiring' => r \notin retiring
      BY <1>2, <1>3, <1>6 DEF Kind
    <2>2. work'[Daemon].copy = t.copy
      BY <1>3, <1>6 DEF Kind
    <2> QED
      BY <1>1, <1>2, <1>4, <1>6, <2>1, <2>2 DEF RegistryFollows, InStep, Follows, files
  <1> QED
    BY <1>0, <1>1, <1>5, <1>6, UpsertingTask DEF DaemonShape, Verdict, Kind

(* It saves a verdict the registry has been told of, or that is apart. *)
LEMMA SaveVerdictKeepsFollowing ==
  ASSUME Typed, Fresh, VerdictsWritten, RegistryFollows, SaveVerdict
  PROVE  InStep'
  <1>0. Daemon \in Actors
    BY DaemonIsNoCommand
  <1> DEFINE t == work[Daemon]
  <1>1. /\ SaveState(Daemon, Resting) /\ t.label = "save" /\ Verdict(t)
        /\ registry' = registry
        /\ apart' = IF t.call.s \in t.behind \cup unsynced
                    THEN apart \cup t.behind \cup {t.call.s}
                    ELSE (apart \cup t.behind) \ {t.call.s}
    BY DEF SaveVerdict, SaveState, Verdict
  <1>2. /\ health' = t.copy /\ work'[Daemon] = Resting
    BY <1>0, <1>1, RestingType, SaveStateMoves DEF Moves
  <1>3. \A r \in Strategies \ t.behind : r # t.call.s => t.copy[r] = health[r]
    BY <1>0, <1>1 DEF Fresh, FreshCopy
  <1>4. ASSUME NEW r \in Strategies \ apart'
        PROVE  Follows(health[r], r)'
    <2>1. CASE r = t.call.s
      <3>1. registry[r].status = t.copy[r].status
        BY <1>1, <1>4, <2>1 DEF VerdictsWritten, Told
      <3> QED
        BY <1>1, <1>2, <3>1, OutIsOff DEF Follows
    <2>2. CASE r # t.call.s
      <3>1. r \notin apart /\ r \notin t.behind
        BY <1>1, <1>4, <2>2
      <3>2. health'[r] = health[r]
        BY <1>2, <1>3, <2>2, <3>1
      <3> QED
        BY <1>1, <3>1, <3>2 DEF RegistryFollows, InStep, Follows
    <2> QED
      BY <2>1, <2>2
  <1> QED
    BY <1>2, <1>4 DEF InStep, Kind, Resting

(* It records a cycle. *)
LEMMA RecordKeepsFollowing ==
  ASSUME Typed, Fresh, RegistryFollows,
         BeginRecord \/ ApplyRollingDecay \/ SaveDecay \/ SaveRecord
  PROVE  InStep'
  <1>0. Daemon \in Actors /\ DaemonShape
    BY DaemonIsNoCommand DEF Typed, Shape
  <1>1. CASE BeginRecord
    <2>1. /\ work'[Daemon].copy = health /\ work'[Daemon].behind = {}
          /\ work'[Daemon].label \in {"decay", "save"}
          /\ UNCHANGED <<files, past>>
      BY <1>1, BeginRecordMoves
    <2> QED
      BY <2>1 DEF RegistryFollows, InStep, Follows, files, past
  <1>2. CASE ApplyRollingDecay
    <2>1. /\ work[Daemon].label = "decay"
          /\ work'[Daemon].label # "save" => decayed' = WithDecay(DOMAIN verdicts)
          /\ retiring' = RetiredByDecay(DOMAIN verdicts)
          /\ work'[Daemon].call = work[Daemon].call
          /\ work'[Daemon].copy = work[Daemon].copy
          /\ work'[Daemon].behind = work[Daemon].behind
          /\ UNCHANGED <<files, apart>>
      BY <1>2, ApplyRollingDecayMoves DEF past
    <2>2. ASSUME NEW r \in Strategies \ apart, r \notin retiring',
                 work'[Daemon].label # "save"
          PROVE  Follows(decayed[r], r)'
      <3>1. decayed'[r] = AfterDecay(r)
        BY <2>1, <2>2, WithDecayType DEF AfterDecay, Typed, TypeOK
      <3>2. Follows(AfterDecay(r), r)
        BY <2>1, <2>2, DecayKeepsFollowing DEF RegistryFollows, InStep
      <3> QED
        BY <2>1, <3>1, <3>2 DEF Follows, files
    <2>3. Kind(work'[Daemon], "cycle") => Kind(work[Daemon], "cycle")
      BY <2>1 DEF Kind
    <2> QED
      BY <2>1, <2>2, <2>3 DEF RegistryFollows, InStep, Follows, files
  <1>3. CASE SaveDecay
    <2>1. /\ work[Daemon].label = "decaySave" /\ work'[Daemon].label = "save"
          /\ Kind(work[Daemon], "cycle") /\ retiring = {}
          /\ work'[Daemon].copy = work[Daemon].copy
          /\ work'[Daemon].behind = work[Daemon].behind /\ health' = decayed
      BY <1>3, SaveDecayMoves
    <2>2. registry' = registry /\ apart' = apart \cup work[Daemon].behind
      BY <1>3 DEF SaveDecay
    <2>3. \A r \in Strategies \ apart' :
            Follows(work[Daemon].copy[r], r) /\ Follows(decayed[r], r)
      BY <2>1, <2>2 DEF RegistryFollows, InStep
    <2> QED
      BY <2>1, <2>2, <2>3 DEF InStep, Follows
  <1>4. CASE SaveRecord
    <2>1. /\ Kind(work[Daemon], "cycle") \/ Kind(work[Daemon], "record")
          /\ health' = work[Daemon].copy /\ work[Daemon].label = "save"
      BY <1>4, SaveRecordMoves
    <2>2. work'[Daemon] = Resting
      BY <1>4, SaveRecordMoves DEF Moves
    <2>3. registry' = registry /\ apart' = apart \cup work[Daemon].behind
      BY <1>4 DEF SaveRecord
    <2>4. \A r \in Strategies \ apart' : Follows(work[Daemon].copy[r], r)
      <3>1. CASE Kind(work[Daemon], "cycle")
        BY <2>3, <3>1 DEF RegistryFollows, InStep
      <3>2. CASE Kind(work[Daemon], "record")
        <4>1. \A r \in Strategies \ work[Daemon].behind : work[Daemon].copy[r] = health[r]
          BY <1>0, <3>2 DEF Fresh, FreshCopy
        <4> QED
          BY <2>3, <4>1 DEF RegistryFollows, InStep
      <3> QED
        BY <2>1, <3>1, <3>2
    <2> QED
      BY <2>1, <2>2, <2>3, <2>4 DEF InStep, Follows, Kind, Resting
  <1> QED
    BY <1>1, <1>2, <1>3, <1>4

LEMMA NextRegistryFollows ==
  Typed /\ Fresh /\ VerdictsWritten /\ RegistryFollows /\ [Next]_vars => RegistryFollows'
  <1> SUFFICES ASSUME Typed, Fresh, VerdictsWritten, RegistryFollows, [Next]_vars
               PROVE  RegistryFollows'
    OBVIOUS
  <1>0. Daemon \in Actors /\ DaemonShape
    BY DaemonIsNoCommand DEF Typed, Shape
  <1>1. CASE \E c \in Commands : CommandStep(c)
    BY <1>1, CommandKeepsFollowing
  <1>2. CASE Scan
    <2>1. UNCHANGED <<health, registry, apart, work, decayed, retiring>>
      BY <1>2 DEF Scan, files, decaying, past
    <2>2. InStep'
      BY <2>1 DEF RegistryFollows, InStep, Follows
    <2>3. RowsListed'
      <3>1. CASE Listed(phase) = {}
        BY <1>2, <3>1 DEF Scan, NextRung, Ladder, RowsListed
      <3>2. CASE Listed(phase) # {}
        <4>1. DOMAIN rows' = Listed(phase) /\ phase \in Ladder
          BY <1>2, <3>2 DEF Scan
        <4> QED
          BY <2>1, <4>1, ListedType DEF RowsListed, OffLadder
      <3> QED
        BY <3>1, <3>2
    <2> QED
      BY <2>2, <2>3 DEF RegistryFollows
  <1>3. CASE \/ \E s \in Strategies : SaveRegistry(Daemon, s) \/ SyncFails(s)
             \/ SaveVerdict \/ BeginRecord \/ ApplyRollingDecay \/ SaveDecay \/ SaveRecord
    <2>1. phase' # "allocate"
      <3>1. CASE \E s \in Strategies : SaveRegistry(Daemon, s) \/ SyncFails(s)
        <4>1. work[Daemon].label \in {"sync", "upsert"} /\ phase' = phase
          BY <3>1 DEF SaveRegistry, SyncFails
        <4> QED
          BY <1>0, <4>1 DEF DaemonShape, Records
      <3>2. CASE SaveVerdict
        BY <3>2 DEF SaveVerdict
      <3>3. CASE BeginRecord \/ ApplyRollingDecay
        BY <3>3, BeginRecordMoves, ApplyRollingDecayMoves DEF Records
      <3>4. CASE SaveDecay
        BY <1>0, <3>4, SaveDecayMoves DEF DaemonShape, SaveDecay
      <3>5. CASE SaveRecord
        BY <3>5 DEF SaveRecord, NextRecord, Records
      <3> QED
        BY <1>3, <3>1, <3>2, <3>3, <3>4, <3>5
    <2>2. InStep'
      BY <1>3, SaveRegistryKeepsFollowing, SyncFailsKeepsFollowing, SaveVerdictKeepsFollowing,
         RecordKeepsFollowing
    <2> QED
      BY <2>1, <2>2 DEF RegistryFollows, RowsListed
  <1>4. CASE \E s \in Strategies : BeginVerdict(s)
    <2>1. ~Kind(work'[Daemon], "cycle") /\ phase = "verdicts"
      BY <1>4, BeginVerdictMoves DEF Kind
    <2>2. UNCHANGED <<files, phase, apart>>
      BY <1>4 DEF BeginVerdict, past
    <2> QED
      BY <2>1, <2>2 DEF RegistryFollows, InStep, RowsListed, Follows, files
  <1>5. CASE LoadRegistry(Daemon)
    <2>1. /\ work[Daemon].label = "sync" /\ work'[Daemon].label = "upsert"
          /\ work'[Daemon].call = work[Daemon].call /\ work'[Daemon].copy = work[Daemon].copy
          /\ work'[Daemon].behind = work[Daemon].behind
      BY <1>0, <1>5, LoadRegistryMoves
    <2>2. UNCHANGED <<files, phase, rows, touched, apart, decayed, retiring>>
      BY <1>5 DEF LoadRegistry, cycle, decaying, past
    <2> QED
      BY <2>1, <2>2 DEF RegistryFollows, InStep, RowsListed, Follows, files, Kind
  <1>6. CASE Crash
    <2>1. UNCHANGED <<files, apart>> /\ phase' = "stopped"
      BY <1>6 DEF Crash, past
    <2>2. work'[Daemon] = Resting
      BY <1>6, CrashTyped DEF Moves
    <2> QED
      BY <2>1, <2>2 DEF RegistryFollows, InStep, RowsListed, Follows, files, Kind, Resting
  <1>7. CASE \/ \E forever \in BOOLEAN : Start(forever)
             \/ Execute \/ Wake \/ LastCycle \/ Stop \/ UNCHANGED vars
    <2>1. /\ UNCHANGED <<health, registry, apart, work, decayed, retiring>>
          /\ phase' # "allocate" \/ UNCHANGED <<phase, rows, touched>>
      BY <1>7 DEF Start, Execute, Wake, LastCycle, Stop, vars, files, cycle, decaying, past
    <2> QED
      BY <2>1 DEF RegistryFollows, InStep, RowsListed, Follows
  <1> QED
    BY <1>1, <1>2, <1>3, <1>4, <1>5, <1>6, <1>7 DEF Next, DaemonStep

(* No cycle starts from a strategy that is quarantined or retired, however *)
(* the calls of the daemon and of the commands interleave and wherever     *)
(* they are killed, unless it has been evolved again, one half only of a   *)
(* call on it has reached the files, or an outdated copy was saved over it.*)
THEOREM QuarantineEndsTrading == Spec => []QuarantinedIsNotACandidate
  <1>1. Spec => [](Typed /\ VerdictsWritten /\ RegistryFollows)
    BY AlwaysFresh, InitVerdictsWritten, NextVerdictsWritten, InitRegistryFollows,
       NextRegistryFollows, PTL DEF Spec
  <1>2. Typed /\ RegistryFollows => QuarantinedIsNotACandidate
    BY DEF Typed, TypeOK, RegistryFollows, InStep, RowsListed, Follows,
           QuarantinedIsNotACandidate
  <1> QED
    BY <1>1, <1>2, PTL
=============================================================================
