---------------------------- MODULE TradingDaemon ----------------------------
(***************************************************************************)
(* The trading cycle of ver9/daemon.py and the commands of main.py that    *)
(* change the same two files beside it: evolve (registry upserts), risk    *)
(* (drift verdicts) and execute (a record).                                *)
(*                                                                         *)
(* A cycle walks down the ladder deployable, probationary, validated,      *)
(* reading the registry once per rung; allocates a basket from the first   *)
(* rung that has rows; executes it; then writes one verdict per allocation *)
(* and records the cycle.  Every load and every save of a file is a step   *)
(* of its own, the daemon and the commands take turns between any two of   *)
(* them and may die there, and every save writes a whole file: the copy    *)
(* loaded before, changed for one strategy.  What a kill WITHIN a save     *)
(* does to the state file is in RuntimeStore: no call gets past it.        *)
(***************************************************************************)
EXTENDS StrategyRules, FiniteSets

CONSTANTS
  Strategies,
  Daemon, Commands, \* the actors
  Nothing,          \* no call, no copy in memory
  MaxPositions,
  DrawdownLimit,    \* portfolio_quarantine_drawdown_pct, in tenths of a percent
  LossStreakLimit,  \* portfolio_loss_streak_limit
  InitialPairs,     \* <<health entry, registry entry>> a strategy may start with
  Environment,      \* which of EnvironmentEvents happen
  Generated,        \* what evolve makes of the rows it generates
  MaxCommandCalls, MaxSyncFailures, MaxKills   \* bounds of the model

EnvironmentEvents == {"evolve", "drift", "execute", "stop", "limit"}

Healths == [Strategies -> HealthEntries \cup {NoEntry}]

Registries == [Strategies -> RegistryEntries \cup {Unregistered}]

(* The calls on the two files. *)
Calls ==
  [kind : {"cycle", "record"}]
    \cup [kind : {"quarantine", "recover"}, s : Strategies]
    \cup [kind : {"drift"}, s : Strategies, verdict : DriftVerdicts]
    \cup [kind : {"evolve"}, s : Strategies, promotion : Promotions]

ASSUME DaemonAssumption ==
  /\ Daemon \notin Commands
  /\ Nothing \notin Healths /\ Nothing \notin Registries /\ Nothing \notin Calls
  /\ MaxPositions \in Nat \ {0}
  /\ DrawdownLimit \in Int /\ LossStreakLimit \in Nat
  /\ InitialPairs \subseteq
       (HealthEntries \cup {NoEntry}) \X (RegistryEntries \cup {Unregistered})
  /\ Environment \subseteq EnvironmentEvents /\ Generated \subseteq Promotions
  /\ MaxCommandCalls \in Nat /\ MaxSyncFailures \in Nat /\ MaxKills \in Nat

Ladder == {"deployable", "probationary", "validated"}

OffLadder(entry) == entry = Unregistered \/ entry.status \notin Ladder

Out(e) == e # NoEntry /\ e.status \in {"quarantined", "retired"}

(* What a strategy starts with is what the code leaves behind: a streak    *)
(* that does not yet release it, and a registry that follows the health    *)
(* entry when the entry takes the strategy out of trading.                 *)
ASSUME InitialAssumption ==
  \A pair \in InitialPairs :
    LET e == pair[1]  entry == pair[2] IN
    /\ e # NoEntry /\ e.status = "quarantined" => e.recovery < RecoveryThreshold
    /\ Out(e) => OffLadder(entry)

VARIABLES
  health,      \* strategy_health of the runtime state
  registry,    \* the entries of the registry
  phase,       \* where the daemon is in its cycle
  running,     \* self.running
  rows,        \* the registry rows this cycle allocates from
  verdicts,    \* acceptance history: what became of each allocation
  pending,     \* allocations whose verdict is not written yet
  work,        \* the call each actor executes
  decayed,     \* the copy apply_rolling_decay made inside append_cycle
  retiring,    \* strategies that copy retires, registry not yet told
  commandCalls, syncFailures, kills,   \* counters for the bounds
  touched,     \* history: strategies a command has written to since this cycle
               \* read its rows
  unsynced,    \* history: strategies whose last verdict or retirement the
               \* registry was not told
  apart,       \* history: strategies evolved, or whose two entries only one half
               \* of a call has reached, since a call on them was last completed
               \* undisturbed; or that an outdated copy was saved over
  diverted,    \* history: strategies with a drift verdict, or an outdated copy
               \* saved over them, since the daemon last quarantined them
  cut,         \* history: strategies whose last drift verdict to reach the
               \* registry is quarantine, unless an outdated copy undid it
  cutAtScan,   \* history: those of them when this cycle read the rung
  approvals    \* history: fills approved since the last quarantine (capped)

files == <<health, registry>>
cycle == <<rows, verdicts, pending>>
decaying == <<decayed, retiring>>
bounds == <<commandCalls, syncFailures, kills>>
past == <<unsynced, apart, diverted, cut, approvals>>
vars == <<files, phase, running, cycle, work, decaying, bounds, touched, cutAtScan,
          past>>

Actors == {Daemon} \cup Commands

Labels == {"idle", "decay", "sync", "upsert", "decaySave", "save", "append"}

(* "copy" is the state file as the call loaded and changed it, "draft" the *)
(* registry as upsert_candidate loaded it, "behind" (history) what others  *)
(* have written to since the call began.                                   *)
Tasks ==
  [label : Labels, call : Calls \cup {Nothing}, copy : Healths \cup {Nothing},
   draft : Registries \cup {Nothing}, behind : SUBSET Strategies]

Resting == [label |-> "idle", call |-> Nothing, copy |-> Nothing, draft |-> Nothing,
            behind |-> {}]

Idle(a) == work[a].label = "idle"

NextRung(rung) ==
  CASE rung = "deployable"   -> "probationary"
    [] rung = "probationary" -> "validated"
    [] rung = "validated"    -> "cycle"

(* list_candidates(status=rung) *)
Listed(rung) ==
  {s \in Strategies : /\ registry[s] # Unregistered
                      /\ registry[s].tradeable
                      /\ registry[s].status = rung}

-----------------------------------------------------------------------------
(* Allocation and execution. *)

(* Faulty: always two positions. *)
BasketsOfTwo ==
  LET baskets == {b \in SUBSET {s \in DOMAIN rows : rows[s].passed} :
                    Cardinality(b) \in 2 .. MaxPositions}
  IN IF baskets = {} THEN {{}} ELSE baskets

(* build_cycle asks for two positions unless fewer candidates exist, and   *)
(* the optimizer returns nothing rather than fewer than it was asked for.  *)
(* Which of the eligible rows it picks is a matter of scores.              *)
Baskets ==
  LET candidates == DOMAIN rows
      eligible   == {s \in candidates : rows[s].passed}
      least      == IF Cardinality(candidates) < 2 THEN 1 ELSE 2
      baskets    == {b \in SUBSET eligible :
                       Cardinality(b) >= least /\ Cardinality(b) <= MaxPositions}
  IN IF baskets = {} THEN {{}} ELSE baskets

(* No order is built for a weight of zero, which a multiplier of zero      *)
(* forces and a low score may lead to; the broker accepts or rejects each  *)
(* order it is sent.                                                       *)
Outcomes(s) ==
  IF rows[s].multiplier = 0 THEN {"missing"}
  ELSE {"accepted", "rejected", "missing"}

OrdersWith(outcome) == {s \in DOMAIN verdicts : verdicts[s] = outcome}

(* fill_rate >= hundredths / 100, of the orders the broker was sent *)
FillRateAtLeast(hundredths) ==
  LET filled == Cardinality(OrdersWith("accepted"))
      sent   == filled + Cardinality(OrdersWith("rejected"))
  IN sent > 0 /\ 100 * filled >= hundredths * sent

(* The figures build_cycle derives from the fill rate, and the breaker of  *)
(* evaluate_portfolio they are put to.                                     *)
PortfolioDrawdown ==
  IF FillRateAtLeast(85) THEN -15 ELSE IF FillRateAtLeast(50) THEN -45 ELSE -105

LossStreak ==
  IF FillRateAtLeast(85) THEN 0 ELSE IF FillRateAtLeast(50) THEN 1 ELSE 3

RiskApproved == PortfolioDrawdown > DrawdownLimit /\ LossStreak < LossStreakLimit

-----------------------------------------------------------------------------
(* One call on the files, of the daemon or a command. *)

Begin(a, c, label, copy) ==
  /\ Idle(a)
  /\ work' = [work EXCEPT ![a] =
       [Resting EXCEPT !.label = label, !.call = c, !.copy = copy]]

(* What the call makes of the health entry of its strategy. *)
NewEntry(c) ==
  LET e == HealthEntry(health, c.s) IN
  CASE c.kind = "quarantine" -> Quarantined(e)
    [] c.kind = "recover"    -> Recovered(e)
    [] c.kind = "drift"      -> Drifted(e, c.verdict)

Changed(c) == [health EXCEPT ![c.s] = NewEntry(c)]

(* The strategies whose registry entry the upsert in progress may be for.  *)
Targets(a) ==
  CASE work[a].call.kind = "cycle"  -> retiring
    [] work[a].call.kind = "record" -> {}
    [] OTHER -> {work[a].call.s}

(* a has written a file: the calls of the others fall behind ... *)
Overtaken(a, task, strategies) ==
  work' = [b \in Actors |->
    IF b = a THEN task
    ELSE IF Idle(b) THEN work[b]
    ELSE [work[b] EXCEPT !.behind = @ \cup strategies]]

(* ... and so do the rows the daemon has read. *)
Written(a, task, strategies) ==
  /\ Overtaken(a, task, strategies)
  /\ touched' = IF a = Daemon \/ DOMAIN rows = {} THEN touched
                ELSE touched \cup strategies

Differences(f, g) == {s \in Strategies : f[s] # g[s]}

LoadRegistry(a) ==
  /\ work[a].label = "sync"
  /\ work' = [work EXCEPT ![a].label = "upsert", ![a].draft = registry]
  /\ UNCHANGED <<files, phase, running, cycle, decaying, bounds, touched, cutAtScan, past>>

Merged(a, s) ==
  LET entry == work[a].draft[s]
      c     == work[a].call
  IN CASE c.kind = "evolve" -> UpsertCandidate(entry, c.promotion)
       [] c.kind = "drift"  -> UpsertDrift(entry, c.verdict, work[a].copy[s].status)
       [] c.kind = "cycle"  -> UpsertStatus(entry, "retired")
       [] OTHER             -> UpsertStatus(entry, work[a].copy[s].status)

(* Where the call goes on once the registry has been told of s, or not. *)
AfterSync(a, s) ==
  CASE work[a].call.kind = "evolve" -> "idle"
    [] work[a].call.kind = "drift"  -> "append"
    [] work[a].call.kind = "cycle"  -> IF retiring = {s} THEN "decaySave" ELSE "sync"
    [] OTHER -> "save"

Synced(a, s) ==
  IF work[a].call.kind = "evolve" THEN Resting
  ELSE [work[a] EXCEPT !.label = AfterSync(a, s), !.draft = Nothing]

(* upsert_candidate: the registry as loaded, with the entry of s merged. *)
SaveRegistry(a, s) ==
  LET c     == work[a].call
      after == [work[a].draft EXCEPT ![s] = Merged(a, s)]
      lost  == work[a].behind
  IN
  /\ work[a].label = "upsert" /\ s \in Targets(a)
  /\ registry' = after
  /\ Written(a, Synced(a, s), Differences(registry, after) \cup {s})
  /\ retiring' = IF a = Daemon THEN retiring \ {s} ELSE retiring
  /\ unsynced' = IF a = Daemon THEN unsynced \ {s} ELSE unsynced
  /\ apart' = IF c.kind = "drift" /\ s \notin lost THEN (apart \cup lost) \ {s}
              ELSE IF c.kind = "cycle" THEN apart \cup lost
              ELSE apart \cup lost \cup {s}
  /\ cut' = IF c.kind # "drift" THEN cut \ lost
            ELSE IF c.verdict = "quarantine" THEN (cut \ lost) \cup {s}
            ELSE cut \ (lost \cup {s})
  /\ UNCHANGED <<health, phase, running, cycle, decayed, bounds, cutAtScan, diverted,
                 approvals>>

(* _sync_registry_status swallows every exception of upsert_candidate. *)
SyncFails(s) ==
  /\ work[Daemon].label \in {"sync", "upsert"} /\ s \in Targets(Daemon)
  /\ syncFailures < MaxSyncFailures
  /\ syncFailures' = syncFailures + 1
  /\ work' = [work EXCEPT ![Daemon] = Synced(Daemon, s)]
  /\ retiring' = retiring \ {s}
  /\ unsynced' = unsynced \cup {s}
  /\ apart' = IF work[Daemon].call.kind = "cycle" THEN apart \cup {s} ELSE apart
  /\ UNCHANGED <<files, phase, running, cycle, decayed, commandCalls, kills, touched,
                 cutAtScan, diverted, cut, approvals>>

(* save_state: the whole of the copy. *)
SaveState(a, task) ==
  /\ work[a].label = "save"
  /\ health' = work[a].copy
  /\ Written(a, task, Differences(health, work[a].copy)
                        \cup (IF work[a].call.kind \in {"cycle", "record"} THEN {}
                             ELSE {work[a].call.s}))

-----------------------------------------------------------------------------
Init ==
  /\ \E start \in [Strategies -> InitialPairs] :
       /\ health   = [s \in Strategies |-> start[s][1]]
       /\ registry = [s \in Strategies |-> start[s][2]]
  /\ phase = "stopped" /\ running = FALSE
  /\ rows = <<>> /\ verdicts = <<>> /\ pending = {}
  /\ work = [a \in Actors |-> Resting]
  /\ decayed = Nothing /\ retiring = {}
  /\ commandCalls = 0 /\ syncFailures = 0 /\ kills = 0
  /\ touched = {} /\ cutAtScan = {}
  /\ unsynced = {} /\ apart = {} /\ diverted = {} /\ cut = {}
  /\ approvals = [s \in Strategies |->
                    IF HealthEntry(health, s).status = "quarantined"
                    THEN HealthEntry(health, s).recovery ELSE RecoveryThreshold]

(* run_forever, or run_once (daemon-once): a cycle with running unset. *)
Start(forever) ==
  /\ phase = "stopped"
  /\ phase' = "deployable" /\ running' = forever
  /\ UNCHANGED <<files, cycle, work, decaying, bounds, touched, cutAtScan, past>>

(* One rung of _eligible_candidates. *)
Scan ==
  /\ phase \in Ladder
  /\ IF Listed(phase) = {}
     THEN /\ phase' = NextRung(phase)
          /\ UNCHANGED <<rows, touched, cutAtScan>>
     ELSE /\ rows' = [s \in Listed(phase) |-> registry[s]]
          /\ phase' = "allocate"
          /\ touched' = {} /\ cutAtScan' = cut
  /\ UNCHANGED <<files, running, verdicts, pending, work, decaying, bounds, past>>

(* allocate and execute_allocations work on the rows read, not on the files. *)
Execute ==
  /\ phase = "allocate"
  /\ \E basket \in Baskets :
       \E v \in [basket -> {"accepted", "rejected", "missing"}] :
         /\ \A s \in basket : v[s] \in Outcomes(s)
         /\ verdicts' = v
         /\ pending' = basket
         /\ phase' = IF basket = {} THEN "cycle" ELSE "verdicts"
  /\ UNCHANGED <<files, running, rows, work, decaying, bounds, touched, cutAtScan, past>>

(* Faulty: an order that was never sent counts as filled. *)
ApprovedUnlessRejected(s) == RiskApproved /\ verdicts[s] # "rejected"

Approved(s) == RiskApproved /\ verdicts[s] = "accepted"

(* _build_transition_summary, one allocation at a time: recover_strategy   *)
(* or quarantine_strategy loads the state file and changes the copy.       *)
BeginVerdict(s) ==
  LET c == [kind |-> IF Approved(s) THEN "recover" ELSE "quarantine", s |-> s] IN
  /\ phase = "verdicts" /\ s \in pending
  /\ Begin(Daemon, c, "sync", Changed(c))
  /\ UNCHANGED <<files, phase, running, cycle, decaying, bounds, touched, cutAtScan, past>>

Capped(n) == IF n < RecoveryThreshold THEN n ELSE RecoveryThreshold

(* It has told the registry, or failed to, and saves the state file. *)
SaveVerdict ==
  LET c    == work[Daemon].call
      lost == work[Daemon].behind
  IN
  /\ c # Nothing /\ c.kind \in {"quarantine", "recover"}
  /\ SaveState(Daemon, Resting)
  /\ pending' = pending \ {c.s}
  /\ phase' = IF pending = {c.s} THEN "cycle" ELSE "verdicts"
  /\ apart' = IF c.s \in lost \cup unsynced THEN apart \cup lost \cup {c.s}
              ELSE (apart \cup lost) \ {c.s}
  /\ IF c.kind = "recover"
     THEN /\ approvals' = [approvals EXCEPT ![c.s] = Capped(@ + 1)]
          /\ diverted' = diverted \cup lost
     ELSE /\ approvals' = [approvals EXCEPT ![c.s] = 0]
          /\ diverted' = (diverted \cup lost) \ {c.s}
  /\ UNCHANGED <<registry, running, rows, verdicts, decaying, bounds, cutAtScan, unsynced,
                 cut>>

-----------------------------------------------------------------------------
(* _persist_cycle: append_cycle, append_execution, append_risk_event. *)

Known == {s \in Strategies : health[s] # NoEntry}

RetiredByDecay(active) == {s \in Known \ active : RetiresByDecay(health[s])}

WithDecay(active) ==
  [s \in Strategies |->
     IF s \notin Known THEN NoEntry
     ELSE IF s \in active THEN Refreshed(health[s]) ELSE Decayed(health[s])]

Records == {"cycle", "execution", "risk"}

BeginRecord ==
  /\ phase \in Records
  /\ Begin(Daemon, [kind |-> IF phase = "cycle" THEN "cycle" ELSE "record"],
           IF phase = "cycle" THEN "decay" ELSE "save", health)
  /\ UNCHANGED <<files, phase, running, cycle, decaying, bounds, touched, cutAtScan, past>>

(* append_cycle calls apply_rolling_decay, which loads a copy of its own   *)
(* and saves it if a known strategy was active or one is retired.          *)
ApplyRollingDecay ==
  LET active  == DOMAIN verdicts
      retired == RetiredByDecay(active)
      saved   == Known \cap active # {} \/ retired # {}
  IN
  /\ work[Daemon].label = "decay"
  /\ decayed' = IF saved THEN WithDecay(active) ELSE Nothing
  /\ retiring' = retired
  /\ work' = [work EXCEPT ![Daemon].label =
       IF retired # {} THEN "sync" ELSE IF saved THEN "decaySave" ELSE "save"]
  /\ UNCHANGED <<files, phase, running, cycle, bounds, touched, cutAtScan, past>>

SaveDecay ==
  /\ work[Daemon].label = "decaySave"
  /\ health' = decayed
  /\ Written(Daemon, [work[Daemon] EXCEPT !.label = "save"], Differences(health, decayed))
  /\ decayed' = Nothing
  /\ apart' = apart \cup work[Daemon].behind
  /\ diverted' = diverted \cup work[Daemon].behind
  /\ UNCHANGED <<registry, phase, running, cycle, retiring, bounds, cutAtScan, unsynced,
                 cut, approvals>>

NextRecord(record) ==
  CASE record = "cycle"     -> "execution"
    [] record = "execution" -> "risk"
    [] record = "risk"      -> "sleep"

ForgetCycle ==
  /\ rows' = <<>> /\ verdicts' = <<>> /\ pending' = {}
  /\ touched' = {} /\ cutAtScan' = {}

(* The copy saved is the one loaded first: append_cycle undoes the decay.  *)
(* The basket is not looked at again.                                      *)
SaveRecord ==
  /\ phase \in Records
  /\ work[Daemon].label = "save"
  /\ health' = work[Daemon].copy
  /\ Overtaken(Daemon, Resting, Differences(health, health'))
  /\ ForgetCycle
  /\ phase' = NextRecord(phase)
  /\ apart' = apart \cup work[Daemon].behind
  /\ diverted' = diverted \cup work[Daemon].behind
  /\ UNCHANGED <<registry, running, decaying, bounds, unsynced, cut, approvals>>

-----------------------------------------------------------------------------
(* Faulty: self.running is not read again. *)
WakeAlways ==
  /\ phase = "sleep"
  /\ phase' = "deployable"
  /\ UNCHANGED <<files, running, cycle, work, decaying, bounds, touched, cutAtScan, past>>

(* The end of the sleep: while self.running. *)
Wake ==
  /\ phase = "sleep"
  /\ phase' = IF running THEN "deployable" ELSE "stopped"
  /\ UNCHANGED <<files, running, cycle, work, decaying, bounds, touched, cutAtScan, past>>

(* max_cycles is reached: run_forever breaks out of its loop. *)
LastCycle ==
  /\ "limit" \in Environment
  /\ phase = "sleep" /\ running
  /\ phase' = "stopped" /\ running' = FALSE
  /\ UNCHANGED <<files, cycle, work, decaying, bounds, touched, cutAtScan, past>>

DaemonStep ==
  \/ Scan
  \/ Execute
  \/ \E s \in Strategies : BeginVerdict(s) \/ SaveRegistry(Daemon, s) \/ SyncFails(s)
  \/ LoadRegistry(Daemon)
  \/ SaveVerdict
  \/ BeginRecord
  \/ ApplyRollingDecay
  \/ SaveDecay
  \/ SaveRecord
  \/ Wake
  \/ LastCycle

-----------------------------------------------------------------------------
(* The others. *)

Stop ==
  /\ "stop" \in Environment
  /\ running /\ running' = FALSE
  /\ UNCHANGED <<files, phase, cycle, work, decaying, bounds, touched, cutAtScan, past>>

Killed(a) ==
  /\ kills < MaxKills /\ kills' = kills + 1
  /\ work' = [work EXCEPT ![a] = Resting]

Crash ==
  /\ phase # "stopped"
  /\ Killed(Daemon)
  /\ phase' = "stopped" /\ running' = FALSE
  /\ ForgetCycle
  /\ decayed' = Nothing /\ retiring' = {}
  /\ UNCHANGED <<files, commandCalls, syncFailures, past>>

(* A command is killed, or an exception ends it: nothing in risk.py and    *)
(* main.py catches one.                                                    *)
CommandEnds(c) ==
  /\ ~Idle(c)
  /\ Killed(c)
  /\ UNCHANGED <<files, phase, running, cycle, decaying, commandCalls, syncFailures,
                 touched, cutAtScan, past>>

BeginCommand(c, call, label, copy) ==
  /\ commandCalls < MaxCommandCalls /\ commandCalls' = commandCalls + 1
  /\ Begin(c, call, label, copy)
  /\ UNCHANGED <<files, phase, running, cycle, decaying, syncFailures, kills, touched,
                 cutAtScan, past>>

(* cmd_evolve upserts each row it has generated. *)
Evolve(c, s, promotion) ==
  /\ "evolve" \in Environment
  /\ BeginCommand(c, [kind |-> "evolve", s |-> s, promotion |-> promotion], "sync",
                  Nothing)

(* evaluate_drift with a verdict other than "ok": _sync_drift_state saves  *)
(* the state file first and tells the registry second.                     *)
Drift(c, s, verdict) ==
  LET call == [kind |-> "drift", s |-> s, verdict |-> verdict] IN
  /\ "drift" \in Environment
  /\ BeginCommand(c, call, "save", Changed(call))

SaveDrift(c) ==
  LET call == work[c].call IN
  /\ call # Nothing /\ call.kind = "drift"
  /\ SaveState(c, [work[c] EXCEPT !.label = "sync"])
  /\ apart' = apart \cup work[c].behind \cup {call.s}
  /\ diverted' = diverted \cup work[c].behind \cup {call.s}
  /\ UNCHANGED <<registry, phase, running, cycle, decaying, bounds, cutAtScan, unsynced,
                 cut, approvals>>

(* It ends with append_risk_event, a second load and save. *)
AppendRiskEvent(c) ==
  /\ work[c].label = "append"
  /\ work' = [work EXCEPT ![c] =
       [Resting EXCEPT !.label = "save", !.call = [kind |-> "record"], !.copy = health]]
  /\ UNCHANGED <<files, phase, running, cycle, decaying, bounds, touched, cutAtScan, past>>

(* cmd_execute: append_execution and nothing else. *)
CommandExecutes(c) ==
  /\ "execute" \in Environment
  /\ BeginCommand(c, [kind |-> "record"], "save", health)

CommandRecords(c) ==
  /\ work[c].call # Nothing /\ work[c].call.kind = "record"
  /\ SaveState(c, Resting)
  /\ apart' = apart \cup work[c].behind
  /\ diverted' = diverted \cup work[c].behind
  /\ UNCHANGED <<registry, phase, running, cycle, decaying, bounds, cutAtScan, unsynced,
                 cut, approvals>>

CommandStep(c) ==
  \/ \E s \in Strategies :
       \/ \E p \in Generated : Evolve(c, s, p)
       \/ \E v \in DriftVerdicts : Drift(c, s, v)
       \/ SaveRegistry(c, s)
  \/ LoadRegistry(c)
  \/ SaveDrift(c)
  \/ AppendRiskEvent(c)
  \/ CommandExecutes(c)
  \/ CommandRecords(c)
  \/ CommandEnds(c)

Next ==
  \/ \E forever \in BOOLEAN : Start(forever)
  \/ DaemonStep
  \/ Stop
  \/ Crash
  \/ \E c \in Commands : CommandStep(c)

Spec == Init /\ [][Next]_vars

(* run_forever is a loop that nothing in it blocks: once started, the      *)
(* daemon keeps taking its next step.  Nobody owes it a start, and the     *)
(* commands owe nobody anything.                                           *)
FairSpec == Spec /\ WF_vars(DaemonStep)

(* A supervised daemon: a daemon that has ended is started again. *)
SupervisedSpec == FairSpec /\ WF_vars(\E forever \in BOOLEAN : Start(forever))
-----------------------------------------------------------------------------
(* Properties. *)

Phases == Ladder \cup Records \cup {"stopped", "allocate", "verdicts", "sleep"}

VerdictKinds == {"accepted", "rejected", "missing"}

(* The entries, the copies, the rows and the verdicts of a cycle are ones  *)
(* the code can produce, and the verdicts to be written are those of the   *)
(* basket.                                                                 *)
TypeOK ==
  /\ health \in Healths
  /\ registry \in Registries
  /\ phase \in Phases
  /\ running \in BOOLEAN
  /\ DOMAIN rows \subseteq Strategies
  /\ rows \in [DOMAIN rows -> RegistryEntries]
  /\ DOMAIN verdicts \subseteq DOMAIN rows
  /\ verdicts \in [DOMAIN verdicts -> VerdictKinds]
  /\ pending \subseteq DOMAIN verdicts
  /\ work \in [Actors -> Tasks]
  /\ decayed \in Healths \cup {Nothing} /\ retiring \subseteq Strategies
  /\ commandCalls \in Nat /\ syncFailures \in Nat /\ kills \in Nat
  /\ touched \subseteq Strategies /\ unsynced \subseteq Strategies
  /\ apart \subseteq Strategies /\ diverted \subseteq Strategies
  /\ cut \subseteq Strategies /\ cutAtScan \subseteq Strategies
  /\ approvals \in [Strategies -> 0 .. RecoveryThreshold]

(* No order is sent for a strategy whose last drift verdict to reach the   *)
(* registry, when the cycle read it, was quarantine: evolving it again     *)
(* makes it deployable but leaves its capital multiplier at zero, and only *)
(* an outdated copy of the registry saved over it gives that back.         *)
NoCapitalAfterDriftQuarantine ==
  \A s \in cutAtScan \cap DOMAIN verdicts : verdicts[s] = "missing"

(* A strategy that is quarantined or retired when the cycle reads the      *)
(* registry, all the daemon looks at, is not among its candidates, whether *)
(* the daemon quarantined it (registry first), a drift verdict did (state  *)
(* file first) or decay retired it; unless it was evolved again since, a   *)
(* call on it has reached one of the two files only (it is under way, was  *)
(* cut short, or its synchronisation was swallowed), or an outdated copy   *)
(* was saved over it.                                                      *)
QuarantinedIsNotACandidate ==
  phase = "allocate" =>
    \A s \in DOMAIN rows \ (touched \cup apart) : ~Out(health[s])

(* When a cycle is recorded its verdicts stand: whatever was not filled is *)
(* quarantined in the state file, and the registry, unless a swallowed     *)
(* exception kept the verdict from it, has the status of the state file;   *)
(* for every strategy no command has written to since the scan, whatever   *)
(* they write to the others meanwhile.                                     *)
CycleVerdictsStand ==
  phase = "cycle" /\ Idle(Daemon) =>
    \A s \in DOMAIN verdicts \ touched :
      /\ verdicts[s] # "accepted" => health[s].status = "quarantined"
      /\ s \notin unsynced => registry[s].status = health[s].status

(* A release by the daemon: the save that ends a quarantine after a fill.  *)
Releases(s) ==
  /\ SaveVerdict /\ work[Daemon].call.s = s
  /\ HealthEntry(health, s).status = "quarantined"
  /\ HealthEntry(health', s).status # "quarantined"

(* The daemon lifts a quarantine of its own only after RECOVERY_THRESHOLD  *)
(* fills since it was imposed, whatever the other strategies do and        *)
(* whoever else saves the file, unless a drift verdict has come in between *)
(* or an outdated copy was saved over it.                                  *)
FillsReleaseOnlyAfterThreshold ==
  [][\A s \in Strategies \ diverted' :
       Releases(s) => approvals'[s] = RecoveryThreshold]_vars


(* A daemon told to stop ends its run, whatever the others do. *)
StopIsHonoured == ~running ~> phase = "stopped"

OnLadder(s) == \E rung \in Ladder : s \in Listed(rung)

(* A row the optimizer refuses keeps its rung, and with it the ladder, to  *)
(* itself: see LadderFallsBack.                                            *)
Blocked == \E s \in Strategies : OnLadder(s) /\ ~registry[s].passed

(* Once the others leave them alone, every candidate on a ladder that is   *)
(* not blocked is eventually decided: filled often enough to become        *)
(* active, or quarantined, and off the ladder either way; also after a     *)
(* synchronisation that was swallowed, since a later cycle decides again.  *)
LadderDrains == \A s \in Strategies : OnLadder(s) ~> ~OnLadder(s) \/ Blocked

(* "Selection fallback ladder": as long as some rung has a row that may be *)
(* allocated, some basket is executed.                                     *)
LadderFallsBack ==
  (\E s \in Strategies : OnLadder(s) /\ registry[s].passed)
    ~> (DOMAIN verdicts # {})
=============================================================================
