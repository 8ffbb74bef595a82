--------------------------- MODULE ExchangeSession ---------------------------
(***************************************************************************)
(* ExchangeSessionManager of ver9/runtime/exchanges/session_manager.py as  *)
(* coroutines of one event loop: callers that await start(), stop() and    *)
(* force_reconnect(), and the monitor task each completed start() creates. *)
(* The connect and disconnect handlers belong to the caller; they may      *)
(* raise, and disconnect closes the connection opened last.                *)
(***************************************************************************)
EXTENDS Naturals, FiniteSets

CONSTANTS
  Callers,      \* who may be inside a call at the same time
  MaxSessionCalls   \* bound: calls of start, stop and force_reconnect

(* One monitor for each start() at most. *)
Monitors == 1 .. MaxSessionCalls

(* No caller is a monitor, or the 0 that stands for none. *)
ASSUME SessionAssumption ==
  MaxSessionCalls \in Nat /\ Callers \cap (Monitors \cup {0}) = {}

Coroutines == Callers \cup Monitors

VARIABLES
  health,       \* SessionHealth
  running,      \* self._running
  links,        \* connections of the exchange that are open
  silent,       \* last_message_ts is older than stale_after_seconds
  at,           \* where each coroutine waits
  monitor,      \* self._monitor_task, 0 before the first
  made,         \* monitors created
  sessionCalls, \* counter for MaxSessionCalls
  causes        \* history: what may open a second connection: a call that began
                \* while another waited (overlap), a disconnect that raised
                \* (stuck), a reconnection of a session not running (unasked);
                \* and a start whose connect raised

sessionState == <<health, running, links, silent, monitor, made>>
sessionVars == <<sessionState, at, sessionCalls, causes>>

SessionInit ==
  /\ health = "DISCONNECTED" /\ running = FALSE /\ links = 0 /\ silent = FALSE
  /\ at = [c \in Coroutines |-> "idle"]
  /\ monitor = 0 /\ made = 0
  /\ sessionCalls = 0 /\ causes = {}

Wait(c, place) == at' = [at EXCEPT ![c] = place]

Connecting == {"start-connect", "reconnect-connect"}
Disconnecting == {"stop-disconnect", "reconnect-disconnect"}
Busy(c) == at[c] \in Connecting \cup Disconnecting \cup {"backoff"}

(* Faulty: stop() leaves the monitor to find out. *)
MonitorStays == at

(* task.cancel() of the monitor, wherever it waits. *)
MonitorCancelled == IF monitor = 0 THEN at ELSE [at EXCEPT ![monitor] = "done"]

Overlap(others) == IF others = {} THEN {} ELSE {"overlap"}

(* The other coroutines that are inside a call. *)
Others(c) == {d \in Coroutines \ {c} : Busy(d)}

-----------------------------------------------------------------------------
(* The calls, up to their first await. *)

Enters(c) ==
  /\ c \in Callers /\ at[c] = "idle" /\ sessionCalls < MaxSessionCalls
  /\ sessionCalls' = sessionCalls + 1

(* A second start() returns at once. *)
StartSession(c) ==
  /\ Enters(c) /\ ~running
  /\ running' = TRUE /\ health' = "CONNECTING"
  /\ Wait(c, "start-connect")
  /\ causes' = causes \cup Overlap(Others(c))
  /\ UNCHANGED <<links, silent, monitor, made>>

(* A monitor that stop() cancels is no longer in the way. *)
StopSession(c) ==
  /\ Enters(c)
  /\ running' = FALSE
  /\ at' = [MonitorCancelled EXCEPT ![c] = "stop-disconnect"]
  /\ causes' = causes \cup Overlap(Others(c) \ {monitor})
  /\ UNCHANGED <<health, links, silent, monitor, made>>

BeginReconnect(c) ==
  /\ health' = "RECONNECTING"
  /\ Wait(c, "reconnect-disconnect")
  /\ causes' = causes \cup Overlap(Others(c)) \cup (IF running THEN {} ELSE {"unasked"})
  /\ UNCHANGED <<running, links, silent, monitor, made>>

(* force_reconnect() does not ask whether the session is running. *)
ForceReconnect(c) == Enters(c) /\ BeginReconnect(c)

-----------------------------------------------------------------------------
(* The handlers return. *)

Disconnected(c) ==
  /\ at[c] = "reconnect-disconnect"
  /\ links' = IF links = 0 THEN 0 ELSE links - 1
  /\ Wait(c, "backoff")
  /\ UNCHANGED <<health, running, silent, monitor, made, sessionCalls, causes>>

(* stop() is at its end. *)
Stopped(c) ==
  /\ at[c] = "stop-disconnect"
  /\ links' = IF links = 0 THEN 0 ELSE links - 1
  /\ health' = "DISCONNECTED"
  /\ Wait(c, "idle")
  /\ UNCHANGED <<running, silent, monitor, made, sessionCalls, causes>>

BackedOff(c) ==
  /\ at[c] = "backoff"
  /\ health' = "CONNECTING"
  /\ Wait(c, "reconnect-connect")
  /\ UNCHANGED <<running, links, silent, monitor, made, sessionCalls, causes>>

(* Where a coroutine is when its call is over. *)
Home(c) == IF c \in Callers THEN "idle" ELSE "watch"

(* _connect() ends; start() then creates the monitor. *)
SessionConnected(c) ==
  /\ at[c] \in Connecting
  /\ links' = links + 1 /\ health' = "ACTIVE" /\ silent' = FALSE
  /\ IF at[c] = "start-connect"
     THEN /\ at' = [at EXCEPT ![c] = "idle", ![made + 1] = "watch"]
          /\ monitor' = made + 1 /\ made' = made + 1
     ELSE Wait(c, Home(c)) /\ UNCHANGED <<monitor, made>>
  /\ UNCHANGED <<running, sessionCalls, causes>>

(* Faulty: what a handler raises ends the monitor. *)
HandlerEndsMonitor(c) ==
  /\ c \in Monitors /\ at[c] \in Connecting \cup Disconnecting
  /\ Wait(c, "done")
  /\ UNCHANGED <<sessionState, sessionCalls, causes>>

(* A handler raises: to the caller, or to the loop of the monitor, which   *)
(* notes it and looks again at once.                                       *)
HandlerRaises(c) ==
  /\ at[c] \in Connecting \cup Disconnecting
  /\ causes' = causes \cup (CASE at[c] \in Disconnecting      -> {"stuck"}
                               [] at[c] = "start-connect"     -> {"start"}
                               [] at[c] = "reconnect-connect" -> {})
  /\ Wait(c, Home(c))
  /\ health' = IF c \in Monitors THEN "RECONNECTING" ELSE health
  /\ UNCHANGED <<running, links, silent, monitor, made, sessionCalls>>

-----------------------------------------------------------------------------
(* The monitor and the stream. *)

(* _check_staleness: STALE lasts until force_reconnect sets the next. *)
Watch(m) ==
  /\ at[m] = "watch" /\ running /\ silent
  /\ BeginReconnect(m)
  /\ UNCHANGED sessionCalls

MonitorEnds(m) ==
  /\ at[m] = "watch" /\ ~running
  /\ Wait(m, "done")
  /\ UNCHANGED <<sessionState, sessionCalls, causes>>

(* register_message *)
MessageSeen ==
  /\ links > 0 /\ silent
  /\ silent' = FALSE
  /\ UNCHANGED <<health, running, links, monitor, made, at, sessionCalls, causes>>

Silence ==
  /\ ~silent /\ silent' = TRUE
  /\ UNCHANGED <<health, running, links, monitor, made, at, sessionCalls, causes>>

Resumes(c) ==
  \/ Disconnected(c)
  \/ Stopped(c)
  \/ BackedOff(c)
  \/ SessionConnected(c)
  \/ HandlerRaises(c)

SessionNext ==
  \/ \E c \in Callers : StartSession(c) \/ StopSession(c) \/ ForceReconnect(c)
  \/ \E c \in Coroutines : Resumes(c)
  \/ \E m \in Monitors : Watch(m) \/ MonitorEnds(m)
  \/ MessageSeen
  \/ Silence

(* The event loop resumes a monitor whose await is over, and what it asks  *)
(* of the handlers succeeds now and then.                                  *)
SessionFairness ==
  \A m \in Monitors :
    /\ WF_sessionVars(Resumes(m) \/ Watch(m))
    /\ SF_sessionVars(Disconnected(m))
    /\ SF_sessionVars(SessionConnected(m))

SessionSpec == SessionInit /\ [][SessionNext]_sessionVars /\ SessionFairness

-----------------------------------------------------------------------------
SessionTypeOK ==
  /\ health \in {"CONNECTING", "ACTIVE", "RECONNECTING", "DISCONNECTED"}
  /\ running \in BOOLEAN /\ silent \in BOOLEAN
  /\ links \in Nat
  /\ at \in [Coroutines -> {"idle", "watch", "done", "backoff"} \cup Connecting
                            \cup Disconnecting]
  /\ monitor \in Monitors \cup {0} /\ made \in Monitors \cup {0}
  /\ sessionCalls \in 0 .. MaxSessionCalls
  /\ causes \subseteq {"overlap", "stuck", "unasked", "start"}

Quiet == \A c \in Coroutines : ~Busy(c)

(* Between calls the health is the truth about the connection, and there   *)
(* is at most one: whatever stop() interrupts in the monitor and whichever *)
(* connect raises, unless calls overlapped, a disconnect raised, or a      *)
(* session that was not running was reconnected and then started.  Unless  *)
(* its start failed, a session that runs is watched.                       *)
SessionTellsTheTruth ==
  Quiet =>
    /\ causes \subseteq {"start"} => (health = "ACTIVE") = (links = 1) /\ links <= 1
    /\ causes = {} => running = (monitor # 0 /\ at[monitor] = "watch")

(* A session that runs and is watched does not stay silent and without a   *)
(* connection: the monitor reconnects it for as long as it takes.          *)
SilentSessionsReconnect ==
  running /\ silent /\ (\E m \in Monitors : at[m] = "watch")
    ~> ~running \/ ~silent
=============================================================================
