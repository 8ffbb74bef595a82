----------------------------- MODULE RuntimeStore -----------------------------
(***************************************************************************)
(* The persistence protocol of ver9/state.py, ver9/risk.py and             *)
(* ver9/registry.py: two JSON files, the runtime state and the registry,   *)
(* and the calls that read-modify-write them.                              *)
(*                                                                         *)
(* Processes are what runs side by side: the daemon, the commands of       *)
(* main.py, the worker threads of ver9/distributed.py.  REGISTRY_LOCK      *)
(* excludes only threads of one operating-system process, and state.py has *)
(* no lock, so between a load and its save another may run.  The state     *)
(* file is rewritten in place: write_text truncates it and fills it        *)
(* afterwards, and a process can die in between.  The registry is replaced *)
(* by a rename, which is one step.                                         *)
(***************************************************************************)
EXTENDS StrategyRules

CONSTANTS
  Strategies,
  Processes,
  Kinds,            \* Kinds[p]: the calls process p makes
  Threads,          \* those of Processes that are threads of one process
  Empty, Garbled,   \* what the state file is when it is not a JSON object
  Nothing,          \* no call, no copy in memory
  MaxCalls, MaxCrashes, MaxSyncFailures   \* bounds of the model

RecordKinds == {"cycle", "execution", "risk"}

CallKinds ==
  RecordKinds \cup {"quarantine", "recover", "retire", "drift", "evolve"}

ASSUME StoreAssumption ==
  /\ Kinds \in [Processes -> SUBSET CallKinds]
  /\ Threads \subseteq Processes
  /\ MaxCalls \in Nat /\ MaxCrashes \in Nat /\ MaxSyncFailures \in Nat

Contents ==
  [health  : [Strategies -> HealthEntries \cup {NoEntry}],
   listed  : [Strategies -> Nat],          \* quarantined_strategies
   records : [RecordKinds -> Nat]]         \* cycles, executions, risk_events

ASSUME FileAssumption ==
  /\ Empty \notin Contents /\ Garbled \notin Contents /\ Nothing \notin Contents
  /\ Empty # Garbled

Registries == [Strategies -> RegistryEntries \cup {Unregistered}]

Calls ==
  [kind : {"execution", "risk"}]
    \cup [kind : {"cycle"}, active : SUBSET Strategies]
    \cup [kind : {"quarantine", "recover", "retire"}, s : Strategies]
    \cup [kind : {"drift"}, s : Strategies, verdict : DriftVerdicts]
    \cup [kind : {"evolve"}, s : Strategies, promotion : Promotions]

VARIABLES
  stateFile,   \* state/ver9_runtime_state.json
  registry,    \* registry/ver9_registry.json
  pc,          \* where each process is in its call
  call,        \* the call it executes
  outer,       \* the copy of the state file the call loaded and changed
  inner,       \* the copy apply_rolling_decay loads inside append_cycle
  retiring,    \* strategies that copy retires, registry not yet told
  registryCopy,\* the registry as load_registry returned it to upsert_candidate
  calls, crashes, syncFailures,   \* counters for the bounds
  overlapped,  \* history: two calls on the state file were once in progress together
  torn,        \* history: the last write of the state file was killed, or two
               \* were in progress together
  returned,    \* history: appends whose save has completed, by kind
  outerSeen,   \* history: those that had when the copy in outer was loaded,
  innerSeen,   \* and when the one in inner was
  overwritten, \* history: appends that completed between the load and the save
               \* of a copy, so that the save put the file back before them
  approvals,   \* history: recover calls saved since the last quarantine; a
               \* strategy starts with the approvals of a released one
  told,        \* history: the registry as the upserts made, each on its own
               \* strategy, would leave it
  diverted,    \* history: strategies a drift verdict or a retirement has claimed
               \* since quarantine_strategy last saved
  raced        \* history: two upserts were once in progress without the lock

appends == <<returned, outerSeen, innerSeen, overwritten>>

history == <<overlapped, torn, appends, approvals, told, diverted, raced>>

vars == <<stateFile, registry, pc, call, outer, inner, retiring, registryCopy,
          calls, crashes, syncFailures, overlapped, torn, returned, outerSeen,
          innerSeen, overwritten, approvals, told, diverted, raced>>

local == <<call, outer, inner, retiring, registryCopy>>

Readable(file) == file # Empty /\ file # Garbled

Idle(p) == pc[p] = "idle"

AllIdle == \A p \in Processes : Idle(p)

UsesStateFile(p) == ~Idle(p) /\ call[p].kind # "evolve"

Writing(p) == pc[p] \in {"innerWrite", "outerWrite"}

Goto(p, label) == pc' = [pc EXCEPT ![p] = label]

-----------------------------------------------------------------------------
(* What each call does to the copy it has loaded. *)

NoRecords == [k \in RecordKinds |-> 0]

DefaultContents ==
  [health  |-> [s \in Strategies |-> NoEntry],
   listed  |-> [s \in Strategies |-> 0],
   records |-> NoRecords]

(* Faulty: only the last record is kept. *)
AppendReplacing(file, kind) == [file EXCEPT !.records[kind] = 1]

Append(file, kind) == [file EXCEPT !.records[kind] = @ + 1]

SetEntry(file, s, e) == [file EXCEPT !.health[s] = e]

(* Faulty: unlisted as soon as it is on probation. *)
ToProbation(e) == CompletesRecovery(e)

ToActive(e) == CompletesRecovery(e) /\ Promoted(e.status) = "active"

Changed(file, c) ==
  CASE c.kind \in RecordKinds -> Append(file, c.kind)
    [] c.kind = "quarantine" ->
         [SetEntry(file, c.s, Quarantined(HealthEntry(file.health, c.s)))
            EXCEPT !.listed[c.s] = @ + 1]
    [] c.kind = "recover" ->
         LET e == HealthEntry(file.health, c.s) IN
         [SetEntry(file, c.s, Recovered(e))
            EXCEPT !.listed[c.s] = IF ToActive(e) THEN 0 ELSE @]
    [] c.kind = "retire" ->
         SetEntry(file, c.s, RetiredEntry(HealthEntry(file.health, c.s)))
    [] c.kind = "drift" ->
         Append(SetEntry(file, c.s, Drifted(HealthEntry(file.health, c.s), c.verdict)),
                "risk")

Known(file) == {s \in Strategies : file.health[s] # NoEntry}

(* Faulty: decay retires without telling the registry. *)
RetiredUnannounced(file, active) == {}

RetiredByDecay(file, active) ==
  {s \in Known(file) \ active : RetiresByDecay(file.health[s])}

WithDecay(file, active) ==
  [file EXCEPT !.health = [s \in Strategies |->
     IF s \notin Known(file) THEN NoEntry
     ELSE IF s \in active THEN Refreshed(file.health[s])
     ELSE Decayed(file.health[s])]]

(* apply_rolling_decay saves only if a known strategy was active or one retired. *)
DecayIsSaved(file, active) ==
  Known(file) \cap active # {} \/ RetiredByDecay(file, active) # {}

-----------------------------------------------------------------------------
Init ==
  /\ stateFile = DefaultContents
  /\ registry \in [Strategies -> {Unregistered} \cup
                     [status : {"deployable"}, multiplier : {10},
                      passed : {TRUE}, tradeable : {TRUE}]]
  /\ pc = [p \in Processes |-> "idle"]
  /\ call = [p \in Processes |-> Nothing]
  /\ outer = [p \in Processes |-> Nothing]
  /\ inner = [p \in Processes |-> Nothing]
  /\ retiring = [p \in Processes |-> {}]
  /\ registryCopy = [p \in Processes |-> Nothing]
  /\ calls = 0 /\ crashes = 0 /\ syncFailures = 0
  /\ overlapped = FALSE
  /\ torn = FALSE
  /\ returned = NoRecords /\ overwritten = NoRecords
  /\ outerSeen = [p \in Processes |-> NoRecords]
  /\ innerSeen = [p \in Processes |-> NoRecords]
  /\ approvals = [s \in Strategies |-> RecoveryThreshold + ActiveRecoveryThreshold]
  /\ told = registry
  /\ diverted = {}
  /\ raced = FALSE

(* load_state and the changes the call makes in memory.  A state file that *)
(* is not JSON raises: the call fails before it has done anything.         *)
BeginCall(p, c) ==
  /\ Idle(p) /\ c.kind \in Kinds[p] /\ c.kind # "evolve"
  /\ calls < MaxCalls
  /\ Readable(stateFile)
  /\ calls' = calls + 1
  /\ call' = [call EXCEPT ![p] = c]
  /\ outer' = [outer EXCEPT ![p] = Changed(stateFile, c)]
  /\ outerSeen' = [outerSeen EXCEPT ![p] = returned]
  /\ Goto(p, CASE c.kind \in {"quarantine", "recover", "retire"} -> "sync"
               [] c.kind = "cycle" -> "decay"
               [] OTHER -> "outer")
  /\ overlapped' = (overlapped \/ \E q \in Processes : UsesStateFile(q))
  /\ diverted' = diverted \cup (IF c.kind \in {"drift", "retire"} THEN {c.s} ELSE {})
  /\ UNCHANGED <<stateFile, registry, inner, retiring, registryCopy, crashes,
                 syncFailures, torn, returned, innerSeen, overwritten, approvals,
                 told, raced>>

(* cmd_evolve and the distributed workers upsert each promoted row. *)
BeginEvolve(p, c) ==
  /\ Idle(p) /\ c.kind \in Kinds[p] /\ c.kind = "evolve"
  /\ calls < MaxCalls
  /\ calls' = calls + 1
  /\ call' = [call EXCEPT ![p] = c]
  /\ Goto(p, "sync")
  /\ UNCHANGED <<stateFile, registry, outer, inner, retiring, registryCopy,
                 crashes, syncFailures, history>>

(* append_cycle calls apply_rolling_decay, which loads a copy of its own. *)
ApplyRollingDecay(p) ==
  LET active == call[p].active
      retired == RetiredByDecay(stateFile, active)
  IN
  /\ pc[p] = "decay" /\ Readable(stateFile)
  /\ inner' = [inner EXCEPT ![p] =
       IF DecayIsSaved(stateFile, active) THEN WithDecay(stateFile, active) ELSE @]
  /\ innerSeen' = [innerSeen EXCEPT ![p] = returned]
  /\ retiring' = [retiring EXCEPT ![p] = retired]
  /\ Goto(p, IF retired # {} THEN "sync"
             ELSE IF DecayIsSaved(stateFile, active) THEN "inner" ELSE "outer")
  /\ diverted' = diverted \cup retired
  /\ UNCHANGED <<stateFile, registry, call, outer, registryCopy, calls, crashes,
                 syncFailures, overlapped, torn, returned, outerSeen, overwritten,
                 approvals, told, raced>>

-----------------------------------------------------------------------------
(* upsert_candidate: load the registry, merge, replace the file, and hold  *)
(* REGISTRY_LOCK meanwhile.                                                *)

(* Faulty: the registry is read before the lock is taken. *)
LockIgnored(p) == FALSE

LockHeld(p) == p \in Threads /\ \E q \in Threads : pc[q] = "upsert"

(* Another upsert is in progress that the lock does not keep apart from p. *)
Races(p) == \E q \in Processes : pc[q] = "upsert" /\ {p, q} \cap (Processes \ Threads) # {}

LoadRegistry(p) ==
  /\ pc[p] = "sync" /\ ~LockHeld(p)
  /\ registryCopy' = [registryCopy EXCEPT ![p] = registry]
  /\ Goto(p, "upsert")
  /\ raced' = (raced \/ Races(p))
  /\ UNCHANGED <<stateFile, registry, call, outer, inner, retiring, calls, crashes,
                 syncFailures, overlapped, torn, appends, approvals, told, diverted>>

(* The strategies whose registry entry the upsert in progress may be for.  *)
Targets(p) == IF call[p].kind = "cycle" THEN retiring[p] ELSE {call[p].s}

Merged(p, s) ==
  LET entry == registryCopy[p][s]
      c     == call[p]
  IN CASE c.kind = "evolve" -> UpsertCandidate(entry, c.promotion)
       [] c.kind = "drift"  -> UpsertDrift(entry, c.verdict, outer[p].health[s].status)
       [] c.kind = "cycle"  -> UpsertStatus(entry, "retired")
       [] OTHER             -> UpsertStatus(entry, outer[p].health[s].status)

(* Where the call goes on once the registry has been told of s, or not. *)
AfterSync(p, s) ==
  CASE call[p].kind = "evolve" -> "idle"
    [] call[p].kind = "drift"  -> "append"
    [] call[p].kind = "cycle"  -> IF retiring[p] = {s} THEN "inner" ELSE "sync"
    [] OTHER -> "outer"

ToldRegistry(p, s) == retiring' = [retiring EXCEPT ![p] = @ \ {s}]

SaveRegistry(p, s) ==
  /\ pc[p] = "upsert" /\ s \in Targets(p)
  /\ registry' = [registryCopy[p] EXCEPT ![s] = Merged(p, s)]
  /\ registryCopy' = [registryCopy EXCEPT ![p] = Nothing]
  /\ ToldRegistry(p, s)
  /\ Goto(p, AfterSync(p, s))
  /\ call' = [call EXCEPT ![p] = IF @.kind = "evolve" THEN Nothing ELSE @]
  /\ told' = [told EXCEPT ![s] = Merged(p, s)]
  /\ UNCHANGED <<stateFile, outer, inner, calls, crashes, syncFailures,
                 overlapped, torn, appends, approvals, diverted, raced>>

(* _sync_registry_status swallows every exception of upsert_candidate ... *)
SyncFails(p, s) ==
  /\ pc[p] \in {"sync", "upsert"} /\ call[p].kind \notin {"drift", "evolve"}
  /\ s \in Targets(p)
  /\ syncFailures < MaxSyncFailures
  /\ syncFailures' = syncFailures + 1
  /\ registryCopy' = [registryCopy EXCEPT ![p] = Nothing]
  /\ ToldRegistry(p, s)
  /\ Goto(p, AfterSync(p, s))
  /\ UNCHANGED <<stateFile, registry, call, outer, inner, calls, crashes,
                 history>>

-----------------------------------------------------------------------------
(* save_state: write_text opens for writing, which truncates, and then     *)
(* writes.  Onto an empty file the text is what was written; onto the text *)
(* another process wrote meanwhile, the longer of the two shows through.   *)

Truncate(p) ==
  /\ pc[p] \in {"inner", "outer"}
  /\ stateFile' = Empty
  /\ Goto(p, IF pc[p] = "inner" THEN "innerWrite" ELSE "outerWrite")
  /\ torn' = (torn \/ \E q \in Processes : Writing(q))
  /\ UNCHANGED <<registry, local, calls, crashes, syncFailures, overlapped,
                 appends, approvals, told, diverted, raced>>

WriteOutcomes(content) ==
  IF stateFile = Empty THEN {content} ELSE {content, Garbled}

(* Nothing is left of an earlier torn write once p has written alone. *)
StillTorn(p) ==
  torn /\ (stateFile # Empty \/ \E q \in Processes \ {p} : Writing(q))

(* Saving a copy puts the file back before every append that has returned  *)
(* since the copy was loaded.                                              *)
PutBack(seen) == [k \in RecordKinds |-> overwritten[k] + (returned[k] - seen[k])]

WriteDecay(p) ==
  /\ pc[p] = "innerWrite"
  /\ stateFile' \in WriteOutcomes(inner[p])
  /\ inner' = [inner EXCEPT ![p] = Nothing]
  /\ Goto(p, "outer")
  /\ torn' = StillTorn(p)
  /\ overwritten' = PutBack(innerSeen[p])
  /\ innerSeen' = [innerSeen EXCEPT ![p] = NoRecords]
  /\ UNCHANGED <<registry, call, outer, retiring, registryCopy, calls, crashes,
                 syncFailures, overlapped, returned, outerSeen, approvals, told,
                 diverted, raced>>

WriteState(p) ==
  LET c == call[p] IN
  /\ pc[p] = "outerWrite"
  /\ stateFile' \in WriteOutcomes(outer[p])
  /\ Goto(p, IF c.kind = "drift" THEN "sync" ELSE "idle")
  /\ outer' = [outer EXCEPT ![p] = IF c.kind = "drift" THEN @ ELSE Nothing]
  /\ call' = [call EXCEPT ![p] = IF c.kind = "drift" THEN @ ELSE Nothing]
  /\ returned' = [k \in RecordKinds |->
       IF k = c.kind \/ (k = "risk" /\ c.kind = "drift")
       THEN returned[k] + 1 ELSE returned[k]]
  /\ torn' = StillTorn(p)
  /\ overwritten' = PutBack(outerSeen[p])
  /\ outerSeen' = [outerSeen EXCEPT ![p] = IF c.kind = "drift" THEN @ ELSE NoRecords]
  /\ approvals' = [s \in Strategies |->
       IF c.kind = "quarantine" /\ s = c.s THEN 0
       ELSE IF c.kind = "recover" /\ s = c.s THEN approvals[s] + 1
       ELSE approvals[s]]
  /\ diverted' = diverted \ (IF c.kind = "quarantine" THEN {c.s} ELSE {})
  /\ UNCHANGED <<registry, inner, retiring, registryCopy, calls, crashes,
                 syncFailures, overlapped, innerSeen, told, raced>>

(* _sync_drift_state ends with append_risk_event: a second load and save. *)
AppendDriftEvent(p) ==
  /\ pc[p] = "append" /\ Readable(stateFile)
  /\ call' = [call EXCEPT ![p] = [kind |-> "risk"]]
  /\ outer' = [outer EXCEPT ![p] = Append(stateFile, "risk")]
  /\ outerSeen' = [outerSeen EXCEPT ![p] = returned]
  /\ Goto(p, "outer")
  /\ UNCHANGED <<stateFile, registry, inner, retiring, registryCopy, calls,
                 crashes, syncFailures, overlapped, torn, returned, innerSeen,
                 overwritten, approvals, told, diverted, raced>>

-----------------------------------------------------------------------------
Abandon(p) ==
  /\ Goto(p, "idle")
  /\ outer' = [outer EXCEPT ![p] = Nothing]
  /\ inner' = [inner EXCEPT ![p] = Nothing]
  /\ retiring' = [retiring EXCEPT ![p] = {}]
  /\ registryCopy' = [registryCopy EXCEPT ![p] = Nothing]
  /\ call' = [call EXCEPT ![p] = Nothing]
  /\ outerSeen' = [outerSeen EXCEPT ![p] = NoRecords]
  /\ innerSeen' = [innerSeen EXCEPT ![p] = NoRecords]
  /\ torn' = (torn \/ Writing(p))
  /\ UNCHANGED <<stateFile, registry, calls, overlapped, returned, overwritten,
                 approvals, told, diverted, raced>>

(* ... and the callers of upsert_candidate in risk.py and main.py do not. *)
UpsertFails(p) ==
  /\ pc[p] \in {"sync", "upsert"} /\ call[p].kind \in {"drift", "evolve"}
  /\ syncFailures < MaxSyncFailures
  /\ syncFailures' = syncFailures + 1
  /\ Abandon(p)
  /\ UNCHANGED crashes

(* json.loads raises in the middle of a call. *)
LoadFails(p) ==
  /\ pc[p] \in {"decay", "append"} /\ ~Readable(stateFile)
  /\ Abandon(p)
  /\ UNCHANGED <<crashes, syncFailures>>

(* The process is killed; what it had written to the files stays. *)
Crash(p) ==
  /\ ~Idle(p) /\ crashes < MaxCrashes
  /\ crashes' = crashes + 1
  /\ Abandon(p)
  /\ UNCHANGED syncFailures

Step(p) ==
  \/ \E c \in Calls : BeginCall(p, c) \/ BeginEvolve(p, c)
  \/ ApplyRollingDecay(p)
  \/ LoadRegistry(p)
  \/ \E s \in Strategies : SaveRegistry(p, s) \/ SyncFails(p, s)
  \/ UpsertFails(p)
  \/ Truncate(p) \/ WriteDecay(p) \/ WriteState(p)
  \/ AppendDriftEvent(p)
  \/ LoadFails(p) \/ Crash(p)

Next == \E p \in Processes : Step(p)

Spec == Init /\ [][Next]_vars
-----------------------------------------------------------------------------
(* Properties. *)

Labels == {"idle", "decay", "sync", "upsert", "inner", "innerWrite", "outer",
           "outerWrite", "append"}

(* The files, the copies in memory and the counters are what state.py and  *)
(* registry.py can put in them.                                            *)
TypeOK ==
  /\ stateFile \in Contents \cup {Empty, Garbled}
  /\ registry \in Registries
  /\ pc \in [Processes -> Labels]
  /\ call \in [Processes -> Calls \cup {Nothing}]
  /\ outer \in [Processes -> Contents \cup {Nothing}]
  /\ inner \in [Processes -> Contents \cup {Nothing}]
  /\ retiring \in [Processes -> SUBSET Strategies]
  /\ registryCopy \in [Processes -> Registries \cup {Nothing}]
  /\ calls \in Nat /\ crashes \in Nat /\ syncFailures \in Nat
  /\ overlapped \in BOOLEAN
  /\ torn \in BOOLEAN
  /\ returned \in [RecordKinds -> Nat] /\ overwritten \in [RecordKinds -> Nat]
  /\ outerSeen \in [Processes -> [RecordKinds -> Nat]]
  /\ innerSeen \in [Processes -> [RecordKinds -> Nat]]
  /\ approvals \in [Strategies -> Nat]
  /\ told \in Registries
  /\ diverted \subseteq Strategies /\ raced \in BOOLEAN

(* What the state file holds while no two calls on it have overlapped: one *)
(* process, or several that happen to take turns.                          *)
Serial == ~overlapped /\ Readable(stateFile)

(* Such a record is lost in two ways only.  A copy that was loaded before  *)
(* its append returned is saved after it, and each such save costs no more *)
(* than what returned in between: the outer copy of append_cycle, stale    *)
(* once apply_rolling_decay has saved its own, costs nothing, nor does a   *)
(* kill before a write or a failed upsert.  Or the last write of the file  *)
(* was killed after it had truncated it, or ran into another one: then the *)
(* file may hold nothing a load can read until the next save is whole, and *)
(* otherwise it is unreadable only while a process is writing it.          *)
AppendsLostOnlyByStaleOrTornSaves ==
  IF Readable(stateFile)
  THEN \A k \in RecordKinds : stateFile.records[k] + overwritten[k] >= returned[k]
  ELSE torn \/ \E p \in Processes : Writing(p)

(* A strategy is released only by the approvals state.py asks for, counted *)
(* since quarantine_strategy last saved: its streak is the number of saved *)
(* recover_strategy calls, across crashes, lost saves and the two rewrites *)
(* of the file that every cycle makes, unless a drift verdict or a         *)
(* retirement has claimed the strategy meanwhile.                          *)
ProbationIsEarned ==
  Serial =>
    \A s \in Known(stateFile) \ diverted :
      LET e == stateFile.health[s] IN
      CASE e.status = "quarantined"  -> approvals[s] = e.recovery
        [] e.status = "probationary" -> approvals[s] = RecoveryThreshold + e.recovery
        [] OTHER -> approvals[s] >= RecoveryThreshold + ActiveRecoveryThreshold

(* quarantined_strategies and the health entries agree: a strategy is      *)
(* listed from its quarantine until it is active again ("Recovery          *)
(* cleanup"), and a second quarantine before that loses no record.         *)
ListedWhileUnderRecovery ==
  Serial =>
    \A s \in Strategies \ diverted :
      (stateFile.listed[s] > 0) <=>
        (stateFile.health[s] # NoEntry /\ UnderRecovery(stateFile.health[s]))

(* quarantine_strategy and recover_strategy tell the registry before they  *)
(* save, so a crash leaves the registry, from which the daemon selects, at *)
(* most one call ahead of the health entry and never behind it.            *)
RegistryAtMostOneCallAhead ==
  Serial /\ syncFailures = 0 =>
    \A s \in Known(stateFile) \ diverted :
      /\ registry[s] # Unregistered
      /\ registry[s].status \in {stateFile.health[s].status, "quarantined",
                                Recovered(stateFile.health[s]).status}

(* Unless a call was cut short the two files agree whenever none is in     *)
(* progress, although each call updates them in steps of its own, in one   *)
(* order for quarantine_strategy and in the other for _sync_drift_state.   *)
(* The one exception: a decay that retires a strategy tells the registry,  *)
(* and append_cycle then overwrites what decay saved in the state file.    *)
AgreementAtRest ==
  Serial /\ AllIdle /\ crashes = 0 /\ syncFailures = 0 =>
    \A s \in Known(stateFile) :
      \/ registry[s].status = stateFile.health[s].status
      \/ registry[s].status = "retired" /\ RetiresByDecay(stateFile.health[s])

(* The registry and the health entries tell one story, within a call and   *)
(* after it.                                                               *)
RegistryFollowsHealth == RegistryAtMostOneCallAhead /\ AgreementAtRest

(* A strategy the state file calls retired is never selectable: retire_    *)
(* strategy and apply_rolling_decay tell the registry first, and a later   *)
(* quarantine is the only call that changes that status.                   *)
RetirementReachesRegistry ==
  Serial /\ syncFailures = 0 =>
    \A s \in Known(stateFile) :
      stateFile.health[s].status = "retired" =>
        registry[s] # Unregistered /\ registry[s].status \in {"retired", "quarantined"}

(* No upsert is lost, whoever writes the registry next and for whatever    *)
(* strategy, unless two were once in progress together that REGISTRY_LOCK  *)
(* does not keep apart: two commands started side by side.                 *)
OnlyRacesLoseUpserts == ~raced => registry = told

(* "Atomic state writes" (project_state_context_handoff.md:143): between   *)
(* calls the state file is a JSON object.                                  *)
AtomicStateWrites == AllIdle => Readable(stateFile)
=============================================================================
