----------------------------- MODULE LiveRuntime -----------------------------
(***************************************************************************)
(* LiveRuntimeOrchestrator around the exchange's stream and the            *)
(* ReconciliationScheduler.  start() recovers and creates a task of each   *)
(* without awaiting anything; stop() awaits the exchange's stop, ends the  *)
(* scheduler and cancels every task it ever made, awaiting none of them.   *)
(***************************************************************************)
EXTENDS ExchangeStream, FiniteSets

CONSTANTS
  Facts,        \* an open order, a quantity of a symbol, a balance of an asset
  HaltScore     \* divergence_score that halts: 5 in the code

ASSUME LiveAssumption == HaltScore \in Nat \ {0}

VARIABLES
  phase,        \* where the orchestrator is: new, active, stopping, stopped, or
                \* failed when the exchange's stop raised
  starts,       \* calls of start()
  scheduling,   \* _running of the scheduler
  job,          \* where each task of the scheduler's start() is
  local,        \* the facts the runtime holds true
  venue,        \* the facts the exchange holds true
  snapshot,     \* the local state a cycle has fetched, then the facts it reports
  halted,       \* the halt handler was called
  late,         \* history: what still happened after stop() had returned
  doubled       \* history: start() was called while a task of an earlier one lived

scheduler == <<scheduling, job, snapshot, halted>>
orchestrator == <<phase, starts, doubled>>
world == <<local, venue>>
liveVars == <<streamVars, scheduler, orchestrator, world, late>>

LiveInit ==
  /\ StreamInit
  /\ phase = "new" /\ starts = 0 /\ doubled = FALSE
  /\ scheduling = FALSE /\ halted = FALSE
  /\ job = [r \in Runs |-> "none"]
  /\ snapshot = [r \in Runs |-> {}]
  /\ local = {} /\ venue = {} /\ late = {}

-----------------------------------------------------------------------------
(* The orchestrator. *)

Ended(r) == client[r] \in {"none", "done"} /\ job[r] \in {"none", "done"}

StartLive ==
  /\ phase # "stopping" /\ starts + 1 \in Runs
  /\ starts' = starts + 1
  /\ phase' = "active"
  /\ doubled' = (doubled \/ \E r \in Runs : ~Ended(r))
  /\ Goto(starts + 1, "ready")
  /\ job' = [job EXCEPT ![starts + 1] = "ready"]
  /\ UNCHANGED <<streaming, socket, latest, reader, heart, orphans, stale, cancelled,
                 scheduling, snapshot, halted, world, late>>

(* stop() up to its first await: the client's stop, which closes _socket.  *)
BeginStop ==
  /\ phase = "active"
  /\ phase' = "stopping"
  /\ streaming' = FALSE
  /\ UNCHANGED <<tasks, latest, orphans, stale, cancelled, scheduler, starts, doubled,
                 world, late>>

AfterClose == IF latest = 0 THEN socket ELSE [socket EXCEPT ![latest] = "closed"]

ReadersAfterClose == IF latest = 0 THEN reader ELSE Without(latest)

(* Faulty: the tasks are left to notice by themselves. *)
NoCancel ==
  /\ reader' = ReadersAfterClose
  /\ UNCHANGED <<cancelled, heart, job>>

(* The gathered loops of a task that is cancelled are cancelled with it.   *)
CancelTasks ==
  /\ cancelled' = [r \in Runs |-> client[r] \notin {"none", "done"}]
  /\ reader' = [r \in Runs |-> IF client[r] = "gather" THEN 0 ELSE ReadersAfterClose[r]]
  /\ heart' = [r \in Runs |-> client[r] # "gather" /\ heart[r]]
  /\ job' = [r \in Runs |-> IF job[r] = "none" THEN "none" ELSE "done"]

(* The connection is closed; the rest of stop() does not wait. *)
EndStop ==
  /\ phase = "stopping"
  /\ phase' = "stopped"
  /\ socket' = AfterClose
  /\ scheduling' = FALSE
  /\ CancelTasks
  /\ UNCHANGED <<streaming, client, latest, orphans, stale, snapshot, halted, starts,
                 doubled, world, late>>

(* The exchange's stop raises, or whoever awaits stop() gives up: the      *)
(* scheduler is not told and nothing is cancelled.                         *)
StopFails ==
  /\ phase = "stopping"
  /\ phase' = "failed"
  /\ UNCHANGED <<streamVars, scheduler, starts, doubled, world, late>>

Orchestrator == StartLive \/ BeginStop \/ EndStop \/ StopFails

-----------------------------------------------------------------------------
(* The scheduler: one cycle is fetch, fetch, compare, correct, halt. *)

Step(r, from, to) == job[r] = from /\ job' = [job EXCEPT ![r] = to]

Happens(what) == late' = late \cup (IF phase = "stopped" THEN {what} ELSE {})

BeginJob(r) ==
  /\ Step(r, "ready", "fetch-local")
  /\ scheduling' = TRUE
  /\ UNCHANGED <<snapshot, halted, late>>

FetchLocal(r) ==
  /\ Step(r, "fetch-local", "fetch-exchange")
  /\ snapshot' = [snapshot EXCEPT ![r] = local]
  /\ UNCHANGED <<scheduling, halted, late>>

(* Faulty: what the exchange has and the runtime has not. *)
DivergenceReversed(mine, theirs) == theirs \ mine

(* reconcile_orders, _positions, _balances: what the exchange has and the  *)
(* runtime does not know of is not compared.                               *)
Divergence(mine, theirs) == mine \ theirs

FetchExchange(r) ==
  LET found == Divergence(snapshot[r], venue) IN
  /\ Step(r, "fetch-exchange", IF found = {} THEN "sleep" ELSE "correct")
  /\ snapshot' = [snapshot EXCEPT ![r] = found]
  /\ IF found # {} THEN Happens("correction") ELSE UNCHANGED late
  /\ UNCHANGED <<scheduling, halted>>

Halts(r) == Cardinality(snapshot[r]) >= HaltScore

(* The correction handler returns: it has repaired what it was told, or not. *)
Corrected(r) ==
  /\ Step(r, "correct", IF Halts(r) THEN "halt" ELSE "sleep")
  /\ local' \in {local, local \ snapshot[r]}
  /\ UNCHANGED <<scheduling, snapshot, halted, venue, late>>

(* It raises: the cycle is over, the halt with it. *)
CorrectionFails(r) ==
  /\ Step(r, "correct", "sleep")
  /\ UNCHANGED <<scheduling, snapshot, halted, world, late>>

Halt(r) ==
  /\ Step(r, "halt", "sleep")
  /\ halted' = TRUE
  /\ UNCHANGED <<scheduling, snapshot, late>>

NextCycle(r) ==
  /\ Step(r, "sleep", IF scheduling THEN "fetch-local" ELSE "done")
  /\ UNCHANGED <<scheduling, snapshot, halted, late>>

(* The exchange changes, and the runtime hears of it. *)
VenueChanges(f) ==
  /\ venue' = (venue \ {f}) \cup ({f} \ venue)
  /\ UNCHANGED local

LocalLearns(f) ==
  /\ (f \in venue) # (f \in local)
  /\ local' = (local \ {f}) \cup ({f} \ local)
  /\ UNCHANGED venue

World == \E f \in Facts : VenueChanges(f) \/ LocalLearns(f)

Cycle(r) ==
  \/ (BeginJob(r) \/ FetchLocal(r) \/ FetchExchange(r) \/ Halt(r) \/ NextCycle(r))
       /\ UNCHANGED world
  \/ CorrectionFails(r)

Scheduler ==
  \/ \E r \in Runs : Cycle(r) \/ Corrected(r)
  \/ World /\ UNCHANGED <<scheduler, late>>

-----------------------------------------------------------------------------
StreamStep ==
  /\ \/ StreamNext /\ UNCHANGED late
     \/ \E r \in Runs : Message(r) /\ Happens("event")
  /\ UNCHANGED <<scheduler, orchestrator, world>>

LiveNext ==
  \/ Orchestrator
  \/ StreamStep
  \/ Scheduler /\ UNCHANGED <<streamVars, orchestrator>>

SchedulerFairness == \A r \in Runs : WF_<<scheduler, world>>(Cycle(r) \/ Corrected(r))

LiveSpec == LiveInit /\ [][LiveNext]_liveVars /\ StreamFairness /\ SchedulerFairness

-----------------------------------------------------------------------------
LiveTypeOK ==
  /\ StreamTypeOK
  /\ phase \in {"new", "active", "stopping", "stopped", "failed"}
  /\ starts \in Runs \cup {0} /\ doubled \in BOOLEAN
  /\ scheduling \in BOOLEAN /\ halted \in BOOLEAN
  /\ job \in [Runs -> {"none", "ready", "fetch-local", "fetch-exchange", "correct",
                        "halt", "sleep", "done"}]
  /\ local \subseteq Facts /\ venue \subseteq Facts
  /\ snapshot \in [Runs -> SUBSET Facts]
  /\ late \subseteq {"event", "correction"}

(* After stop() has returned no event is appended to the log and no        *)
(* correction is begun, whatever the stream and the scheduler were doing,  *)
(* unless start() was called twice: stop() closes one connection only.     *)
NothingAfterStop == late # {} => doubled

(* A runtime that was stopped comes to rest: every task, every reader and  *)
(* every heartbeat that outlived its reader ends.                          *)
AtRest ==
  /\ \A r \in Runs : Ended(r) /\ reader[r] = 0 /\ ~heart[r]
  /\ orphans = 0

StoppedComesToRest == phase = "stopped" ~> phase # "stopped" \/ AtRest

(* A stream that fails, goes stale, is closed by the peer or is refused is *)
(* read again, as long as nobody stops the runtime.  Two tasks of start()  *)
(* may for ever read each other's closed connection from _socket.          *)
StreamComesBack ==
  phase = "active" ~> phase # "active" \/ doubled \/ \E r \in Runs : reader[r] # 0

(* A divergence that stays reaches the halt handler, unless the correction *)
(* handler raises again and again.                                         *)
DivergenceHalts ==
  \/ ~<>[](phase = "active" /\ Cardinality(local \ venue) >= HaltScore)
  \/ <>halted
  \/ \E r \in Runs : []<><<CorrectionFails(r)>>_liveVars
=============================================================================
