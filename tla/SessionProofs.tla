------------------------------ MODULE SessionProofs ------------------------------
(***************************************************************************)
(* Theorems about ExchangeSession, for any set of callers and any number   *)
(* of calls.  None of them needs fairness.                                 *)
(***************************************************************************)
EXTENDS ExchangeSession, FiniteSetTheorems, TLAPS

SessionPlaces == {"idle", "watch", "done", "backoff"} \cup Connecting \cup Disconnecting

LEMMA SessionPlacesAre ==
  SessionPlaces = {"idle", "watch", "done", "backoff", "start-connect", "reconnect-connect",
            "stop-disconnect", "reconnect-disconnect"}
  BY DEF SessionPlaces, Connecting, Disconnecting

(* Every start() under way has been counted, and so has every monitor one  *)
(* has left: the next monitor is always one of Monitors.                   *)
Starting == {c \in Coroutines : at[c] = "start-connect"}

StartsCounted == IsFiniteSet(Starting) /\ made + Cardinality(Starting) <= sessionCalls

SessionTyped == SessionTypeOK /\ StartsCounted

LEMMA InitSession == SessionInit => SessionTyped
  <1> SUFFICES ASSUME SessionInit PROVE SessionTyped
    OBVIOUS
  <1>1. Starting = {}
    BY DEF SessionInit, Starting
  <1>2. StartsCounted
    BY <1>1, FS_EmptySet DEF SessionInit, StartsCounted
  <1>3. at \in [Coroutines -> SessionPlaces] /\ sessionCalls \in 0 .. MaxSessionCalls
    BY SessionAssumption, SessionPlacesAre DEF SessionInit
  <1>4. SessionTypeOK
    BY <1>3 DEF SessionInit, SessionTypeOK, SessionPlaces
  <1> QED
    BY <1>2, <1>4 DEF SessionTyped

(* Fewer starts under way need no count. *)
LEMMA FewerStarting ==
  ASSUME SessionTyped, made' = made, sessionCalls' \in Nat, sessionCalls' >= sessionCalls,
         Starting' \subseteq Starting
  PROVE  StartsCounted'
  <1>1. /\ IsFiniteSet(Starting') /\ Cardinality(Starting') <= Cardinality(Starting)
        /\ Cardinality(Starting') \in Nat /\ Cardinality(Starting) \in Nat
    BY FS_Subset, FS_CardinalityType DEF SessionTyped, StartsCounted
  <1>2. made \in Nat /\ sessionCalls \in Nat
    BY SessionAssumption DEF SessionTyped, SessionTypeOK, Monitors
  <1> QED
    BY <1>1, <1>2 DEF SessionTyped, StartsCounted

(* A step that puts one coroutine elsewhere. *)
LEMMA WaitEffect ==
  ASSUME SessionTypeOK, NEW c \in Coroutines, NEW place \in SessionPlaces, Wait(c, place)
  PROVE  /\ at' \in [Coroutines -> SessionPlaces] /\ at'[c] = place
         /\ \A d \in Coroutines \ {c} : at'[d] = at[d]
         /\ place # "start-connect" => Starting' \subseteq Starting
  <1>1. at \in [Coroutines -> SessionPlaces]
    BY DEF SessionTypeOK, SessionPlaces
  <1> QED
    BY <1>1 DEF Wait, Starting

LEMMA HomeIsPlace == \A c \in Coroutines : Home(c) \in SessionPlaces \ {"start-connect"}
  BY SessionPlacesAre DEF Home

(* A coroutine that stop() puts to disconnect, the monitor cancelled. *)
LEMMA StopEffect ==
  ASSUME SessionTypeOK, NEW c \in Callers, StopSession(c)
  PROVE  /\ at' \in [Coroutines -> SessionPlaces] /\ at'[c] = "stop-disconnect"
         /\ \A d \in Coroutines \ {c, monitor} : at'[d] = at[d]
         /\ monitor # 0 => at'[monitor] = "done"
         /\ Starting' \subseteq Starting
  <1>1. c \in Coroutines /\ c \notin Monitors /\ at \in [Coroutines -> SessionPlaces]
    BY SessionAssumption DEF SessionTypeOK, SessionPlaces, Coroutines
  <1>2. monitor # 0 => monitor \in Monitors /\ monitor \in Coroutines /\ monitor # c
    BY <1>1 DEF SessionTypeOK, Coroutines
  <1>3. CASE monitor = 0
    <2>1. at' = [at EXCEPT ![c] = "stop-disconnect"]
      BY <1>3 DEF StopSession, MonitorCancelled
    <2> QED
      BY <1>1, <1>3, <2>1, SessionPlacesAre DEF Starting
  <1>4. CASE monitor # 0
    <2>1. at' = [at EXCEPT ![monitor] = "done", ![c] = "stop-disconnect"]
      BY <1>4 DEF StopSession, MonitorCancelled
    <2> QED
      BY <1>1, <1>2, <1>4, <2>1, SessionPlacesAre DEF Starting
  <1> QED
    BY <1>3, <1>4

(* A start() that has connected: it is over, and a new monitor watches. *)
LEMMA ConnectedEffect ==
  ASSUME SessionTyped, NEW c \in Coroutines, SessionConnected(c), at[c] = "start-connect"
  PROVE  /\ made + 1 \in Monitors /\ made' = made + 1 /\ monitor' = made + 1
         /\ at' \in [Coroutines -> SessionPlaces]
         /\ at'[made + 1] = "watch"
         /\ c # made + 1 => at'[c] = "idle"
         /\ \A d \in Coroutines \ {c, made + 1} : at'[d] = at[d]
         /\ StartsCounted'
  <1>1. /\ made' = made + 1 /\ monitor' = made + 1 /\ sessionCalls' = sessionCalls
        /\ at' = [at EXCEPT ![c] = "idle", ![made + 1] = "watch"]
    BY DEF SessionConnected
  <1>2. /\ made \in Nat /\ sessionCalls \in Nat /\ sessionCalls <= MaxSessionCalls
        /\ MaxSessionCalls \in Nat
    BY SessionAssumption DEF SessionTyped, SessionTypeOK, Monitors
  <1>3. /\ c \in Starting /\ IsFiniteSet(Starting) /\ Cardinality(Starting) \in Nat
        /\ IsFiniteSet(Starting \ {c})
        /\ Cardinality(Starting \ {c}) = Cardinality(Starting) - 1
        /\ Cardinality(Starting \ {c}) \in Nat
    BY FS_RemoveElement, FS_CardinalityType DEF SessionTyped, StartsCounted, Starting
  <1>4. made + 1 <= sessionCalls
    BY <1>2, <1>3 DEF SessionTyped, StartsCounted
  <1>5. made + 1 \in Monitors /\ made + 1 \in Coroutines
    BY <1>2, <1>4 DEF Monitors, Coroutines
  <1>6. at \in [Coroutines -> SessionPlaces]
    BY DEF SessionTyped, SessionTypeOK, SessionPlaces
  <1>7. /\ at' \in [Coroutines -> SessionPlaces] /\ at'[made + 1] = "watch"
        /\ c # made + 1 => at'[c] = "idle"
        /\ \A d \in Coroutines \ {c, made + 1} : at'[d] = at[d]
    BY <1>1, <1>5, <1>6, SessionPlacesAre
  <1>8. Starting' \subseteq Starting \ {c}
    BY <1>5, <1>7 DEF Starting
  <1>9. IsFiniteSet(Starting') /\ Cardinality(Starting') <= Cardinality(Starting) - 1
        /\ Cardinality(Starting') \in Nat
    BY <1>3, <1>8, FS_Subset, FS_CardinalityType
  <1>10. StartsCounted'
    BY <1>1, <1>2, <1>3, <1>9 DEF SessionTyped, StartsCounted
  <1> QED
    BY <1>1, <1>5, <1>7, <1>10

LEMMA NextSession == SessionTyped /\ [SessionNext]_sessionVars => SessionTyped'
  <1> SUFFICES ASSUME SessionTyped, [SessionNext]_sessionVars PROVE SessionTyped'
    OBVIOUS
  <1> USE DEF sessionState
  <1>0. /\ SessionTypeOK /\ StartsCounted /\ at \in [Coroutines -> SessionPlaces]
        /\ sessionCalls \in Nat /\ MaxSessionCalls \in Nat
        /\ Callers \subseteq Coroutines /\ Monitors \subseteq Coroutines
    BY SessionAssumption DEF SessionTyped, SessionTypeOK, SessionPlaces, Coroutines
  <1>1. ASSUME NEW c \in Callers, StartSession(c) PROVE SessionTyped'
    <2>1. c \in Coroutines /\ sessionCalls' = sessionCalls + 1 /\ made' = made
      BY <1>0, <1>1 DEF StartSession, Enters
    <2>2. /\ at' \in [Coroutines -> SessionPlaces] /\ at'[c] = "start-connect"
          /\ \A d \in Coroutines \ {c} : at'[d] = at[d]
      BY <1>0, <1>1, <2>1, WaitEffect, SessionPlacesAre DEF StartSession
    <2>3. Starting' = Starting \cup {c} /\ c \notin Starting
      BY <1>1, <2>1, <2>2 DEF Starting, StartSession, Enters
    <2>4. /\ IsFiniteSet(Starting') /\ Cardinality(Starting') = Cardinality(Starting) + 1
          /\ Cardinality(Starting) \in Nat
      BY <1>0, <2>3, FS_AddElement, FS_CardinalityType DEF StartsCounted
    <2>5. StartsCounted'
      <3>1. made \in Nat
        BY <1>0 DEF SessionTypeOK, Monitors
      <3> QED
        BY <1>0, <2>1, <2>4, <3>1 DEF StartsCounted
    <2>6. SessionTypeOK'
      BY <1>0, <1>1, <2>2
      DEF StartSession, Enters, SessionTypeOK, Overlap, SessionPlaces, Connecting, Disconnecting
    <2> QED
      BY <2>5, <2>6 DEF SessionTyped
  <1>2. ASSUME NEW c \in Callers, StopSession(c) PROVE SessionTyped'
    <2>1. at' \in [Coroutines -> SessionPlaces] /\ Starting' \subseteq Starting
      BY <1>0, <1>2, StopEffect
    <2>2. StartsCounted'
      BY <1>0, <1>2, <2>1, FewerStarting DEF StopSession, Enters
    <2>3. SessionTypeOK'
      <3>1. /\ running' = FALSE /\ sessionCalls' = sessionCalls + 1
            /\ sessionCalls < MaxSessionCalls
            /\ UNCHANGED <<health, links, silent, monitor, made>>
            /\ causes' \subseteq causes \cup {"overlap"}
        BY <1>2 DEF StopSession, Enters, Overlap
      <3>2. sessionCalls' \in 0 .. MaxSessionCalls
        BY <1>0, <3>1
      <3>3. causes' \subseteq {"overlap", "stuck", "unasked", "start"}
        BY <1>0, <3>1 DEF SessionTypeOK
      <3> QED
        BY <1>0, <2>1, <3>1, <3>2, <3>3 DEF SessionTypeOK, SessionPlaces
    <2> QED
      BY <2>2, <2>3 DEF SessionTyped
  <1>3. ASSUME NEW c \in Coroutines, BeginReconnect(c),
               sessionCalls' \in 0 .. MaxSessionCalls, sessionCalls' >= sessionCalls
        PROVE  SessionTyped'
    <2>1. at' \in [Coroutines -> SessionPlaces] /\ Starting' \subseteq Starting
      BY <1>0, <1>3, WaitEffect, SessionPlacesAre DEF BeginReconnect
    <2>2. StartsCounted'
      BY <1>0, <1>3, <2>1, FewerStarting DEF BeginReconnect
    <2>3. SessionTypeOK'
      BY <1>0, <1>3, <2>1 DEF BeginReconnect, SessionTypeOK, Overlap, SessionPlaces
    <2> QED
      BY <2>2, <2>3 DEF SessionTyped
  <1>4. ASSUME NEW c \in Callers, ForceReconnect(c) PROVE SessionTyped'
    BY <1>0, <1>3, <1>4 DEF ForceReconnect, Enters
  <1>5. ASSUME NEW c \in Coroutines,
               Disconnected(c) \/ Stopped(c) \/ BackedOff(c) \/ HandlerRaises(c)
        PROVE  SessionTyped'
    <2>1. PICK place \in SessionPlaces \ {"start-connect"} : Wait(c, place)
      BY <1>5, HomeIsPlace, SessionPlacesAre DEF Disconnected, Stopped, BackedOff, HandlerRaises
    <2>2. at' \in [Coroutines -> SessionPlaces] /\ Starting' \subseteq Starting
      BY <1>0, <2>1, WaitEffect
    <2>3. made' = made /\ sessionCalls' = sessionCalls
      BY <1>5 DEF Disconnected, Stopped, BackedOff, HandlerRaises
    <2>4. StartsCounted'
      BY <1>0, <2>2, <2>3, FewerStarting
    <2>5. SessionTypeOK'
      <3>1. /\ health' \in {"CONNECTING", "ACTIVE", "RECONNECTING", "DISCONNECTED"}
            /\ running' = running /\ silent' = silent /\ monitor' = monitor
        BY <1>0, <1>5 DEF Disconnected, Stopped, BackedOff, HandlerRaises, SessionTypeOK
      <3>2. links' \in Nat
        BY <1>0, <1>5 DEF Disconnected, Stopped, BackedOff, HandlerRaises, SessionTypeOK
      <3>3. causes' \subseteq {"overlap", "stuck", "unasked", "start"}
        <4>1. CASE HandlerRaises(c)
          BY <1>0, <4>1 DEF HandlerRaises, SessionTypeOK, Connecting, Disconnecting
        <4> QED
          BY <1>0, <1>5, <4>1 DEF Disconnected, Stopped, BackedOff, SessionTypeOK
      <3> QED
        BY <1>0, <2>2, <2>3, <3>1, <3>2, <3>3 DEF SessionTypeOK, SessionPlaces
    <2> QED
      BY <2>4, <2>5 DEF SessionTyped
  <1>6. ASSUME NEW c \in Coroutines, SessionConnected(c) PROVE SessionTyped'
    <2>1. /\ links' = links + 1 /\ health' = "ACTIVE" /\ silent' = FALSE
          /\ UNCHANGED <<running, sessionCalls, causes>>
      BY <1>6 DEF SessionConnected
    <2>2. CASE at[c] = "start-connect"
      <3>1. /\ made' \in Monitors /\ monitor' \in Monitors
            /\ at' \in [Coroutines -> SessionPlaces] /\ StartsCounted'
        BY <1>6, <2>2, ConnectedEffect
      <3>2. links' \in Nat
        BY <1>0, <2>1 DEF SessionTypeOK
      <3> QED
        BY <1>0, <2>1, <3>1, <3>2 DEF SessionTyped, SessionTypeOK, SessionPlaces
    <2>3. CASE at[c] # "start-connect"
      <3>1. Wait(c, Home(c)) /\ UNCHANGED <<monitor, made>>
        BY <1>6, <2>3 DEF SessionConnected
      <3>2. at' \in [Coroutines -> SessionPlaces] /\ Starting' \subseteq Starting
        BY <1>0, <3>1, WaitEffect, HomeIsPlace
      <3>3. StartsCounted'
        BY <1>0, <2>1, <3>1, <3>2, FewerStarting
      <3>4. links' \in Nat
        BY <1>0, <2>1 DEF SessionTypeOK
      <3> QED
        BY <1>0, <2>1, <3>1, <3>2, <3>3, <3>4 DEF SessionTyped, SessionTypeOK, SessionPlaces
    <2> QED
      BY <2>2, <2>3
  <1>7. ASSUME NEW m \in Monitors, Watch(m) PROVE SessionTyped'
    BY <1>0, <1>3, <1>7 DEF Watch, SessionTypeOK
  <1>8. ASSUME NEW m \in Monitors, MonitorEnds(m) PROVE SessionTyped'
    <2>1. at' \in [Coroutines -> SessionPlaces] /\ Starting' \subseteq Starting
      BY <1>0, <1>8, WaitEffect, SessionPlacesAre DEF MonitorEnds
    <2>2. StartsCounted'
      BY <1>0, <1>8, <2>1, FewerStarting DEF MonitorEnds
    <2> QED
      BY <1>0, <1>8, <2>1, <2>2 DEF MonitorEnds, SessionTyped, SessionTypeOK, SessionPlaces
  <1>9. CASE MessageSeen \/ Silence \/ UNCHANGED sessionVars
    <2>1. UNCHANGED <<health, running, links, monitor, made, at, sessionCalls, causes>>
          /\ silent' \in BOOLEAN
      BY <1>0, <1>9 DEF MessageSeen, Silence, sessionVars, SessionTypeOK
    <2> QED
      BY <1>0, <2>1 DEF SessionTyped, SessionTypeOK, StartsCounted, Starting
  <1> QED
    BY <1>1, <1>2, <1>4, <1>5, <1>6, <1>7, <1>8, <1>9 DEF SessionNext, Resumes

(* The session's state stays of its kind: in particular there is a monitor *)
(* for every start() that connects, however many callers call at once.     *)
THEOREM SessionTypeCorrect == SessionSpec => []SessionTypeOK
  <1>1. SessionTyped => SessionTypeOK
    BY DEF SessionTyped
  <1> QED
    BY <1>1, InitSession, NextSession, PTL DEF SessionSpec

-----------------------------------------------------------------------------
(* The strengthening of SessionTellsTheTruth.  As long as nothing worse    *)
(* has happened than a start that raised, at most one coroutine is inside  *)
(* a call, where it waits says what the session is like, and only the      *)
(* monitor made last is not at its end.                                    *)
Clear == causes \subseteq {"start"}

OneAtATime == \A c, d \in Coroutines : Busy(c) /\ Busy(d) => c = d

MonitorGone == monitor = 0 \/ at[monitor] = "done"

PlaceTells(c) ==
  /\ at[c] = "start-connect" =>
       c \in Callers /\ running /\ health = "CONNECTING" /\ links = 0 /\ MonitorGone
  /\ at[c] = "stop-disconnect" => c \in Callers /\ ~running /\ links <= 1
  /\ at[c] = "reconnect-disconnect" => running /\ health = "RECONNECTING" /\ links <= 1
  /\ at[c] = "backoff" => running /\ health = "RECONNECTING" /\ links = 0
  /\ at[c] = "reconnect-connect" => running /\ health = "CONNECTING" /\ links = 0

QuietTells ==
  Quiet => /\ (health = "ACTIVE") = (links = 1) /\ links <= 1
           /\ ~running => links = 0

OneWatcher ==
  /\ \A m \in Monitors \ {monitor} : at[m] \in {"idle", "done"}
  /\ ~running => MonitorGone
  /\ causes = {} /\ running /\ Starting = {} =>
       monitor # 0 /\ at[monitor] \notin {"idle", "done"}

SessionOrderly ==
  Clear => OneAtATime /\ (\A c \in Coroutines : PlaceTells(c)) /\ QuietTells /\ OneWatcher

LEMMA SessionInitOrderly == SessionInit => SessionOrderly
  BY DEF SessionInit, SessionOrderly, OneAtATime, PlaceTells, QuietTells, OneWatcher,
         MonitorGone, Busy, Connecting, Disconnecting, Coroutines

(* Where one coroutine is inside a call, no other is. *)
LEMMA OthersQuiet ==
  ASSUME OneAtATime, NEW c \in Coroutines, Busy(c), NEW d \in Coroutines \ {c}
  PROVE  ~Busy(d)
  BY DEF OneAtATime

(* If it is alone, only what its own place says is to be shown, and what   *)
(* the end of its call says.                                               *)
LEMMA AloneSuffices ==
  ASSUME NEW c \in Coroutines,
         \A d \in Coroutines \ {c} : at'[d] \in {"idle", "watch", "done"},
         at'[c] \in SessionPlaces, PlaceTells(c)',
         \/ at'[c] \notin {"idle", "watch", "done"}
         \/ (health' = "ACTIVE") = (links' = 1) /\ links' <= 1 /\ (~running' => links' = 0)
  PROVE  OneAtATime' /\ (\A d \in Coroutines : PlaceTells(d)') /\ QuietTells'
  <1>1. \A d \in Coroutines \ {c} : ~Busy(d)'
    BY DEF Busy, Connecting, Disconnecting
  <1>2. OneAtATime'
    BY <1>1 DEF OneAtATime
  <1>3. \A d \in Coroutines : PlaceTells(d)'
    BY DEF PlaceTells
  <1>4. QuietTells'
    <2>1. CASE Busy(c)'
      BY <2>1 DEF QuietTells, Quiet
    <2>2. CASE ~Busy(c)'
      <3>1. at'[c] \in {"idle", "watch", "done"}
        BY <2>2, SessionPlacesAre DEF Busy, Connecting, Disconnecting
      <3> QED
        BY <3>1 DEF QuietTells
    <2> QED
      BY <2>1, <2>2
  <1> QED
    BY <1>2, <1>3, <1>4

LEMMA SessionNextOrderly ==
  SessionTyped /\ SessionOrderly /\ [SessionNext]_sessionVars => SessionOrderly'
  <1> SUFFICES ASSUME SessionTyped, SessionOrderly, [SessionNext]_sessionVars, Clear'
               PROVE  /\ OneAtATime' /\ (\A c \in Coroutines : PlaceTells(c)')
                      /\ QuietTells' /\ OneWatcher'
    BY DEF SessionOrderly
  <1> USE DEF sessionState
  <1> DEFINE Goal == /\ OneAtATime' /\ (\A c \in Coroutines : PlaceTells(c)')
                     /\ QuietTells' /\ OneWatcher'
  <1>0. /\ SessionTypeOK /\ at \in [Coroutines -> SessionPlaces] /\ links \in Nat
        /\ monitor \in Monitors \cup {0}
        /\ Callers \subseteq Coroutines /\ Monitors \subseteq Coroutines
        /\ \A c \in Callers : c \notin Monitors /\ c # 0
        /\ 0 \notin Monitors
        /\ \A c \in Coroutines : c \in Callers \/ c \in Monitors
    <2>1. 0 \notin Monitors
      BY DEF Monitors
    <2> QED
      BY <2>1, SessionAssumption DEF SessionTyped, SessionTypeOK, SessionPlaces, Coroutines
  <1>1. /\ Clear /\ OneAtATime /\ (\A c \in Coroutines : PlaceTells(c))
        /\ QuietTells /\ OneWatcher
    <2>1. causes \subseteq causes'
      BY DEF SessionNext, StartSession, StopSession, ForceReconnect, BeginReconnect, Resumes,
             Disconnected, Stopped, BackedOff, SessionConnected, HandlerRaises, Watch,
             MonitorEnds, MessageSeen, Silence, sessionVars
    <2> QED
      BY <2>1 DEF Clear, SessionOrderly
  <1>2. \A c \in Coroutines : ~Busy(c) => at[c] \in {"idle", "watch", "done"}
    BY <1>0, SessionPlacesAre DEF Busy, Connecting, Disconnecting
  <1>3. ASSUME NEW c \in Callers, StartSession(c) PROVE Goal
    <2>1. Others(c) = {}
      BY <1>3 DEF StartSession, Overlap, Clear
    <2>2. at[c] = "idle" /\ ~running /\ c \in Coroutines
      BY <1>0, <1>3 DEF StartSession, Enters
    <2>3. Quiet
      BY <2>1, <2>2 DEF Quiet, Others, Busy, Connecting, Disconnecting
    <2>4. links = 0 /\ MonitorGone
      BY <1>1, <2>2, <2>3 DEF QuietTells, OneWatcher
    <2>5. /\ at'[c] = "start-connect" /\ \A d \in Coroutines \ {c} : at'[d] = at[d]
          /\ running' /\ health' = "CONNECTING" /\ UNCHANGED <<links, monitor>>
      BY <1>0, <1>3, <2>2, WaitEffect, SessionPlacesAre DEF StartSession
    <2>6. MonitorGone'
      BY <1>0, <2>4, <2>5 DEF MonitorGone
    <2>7. PlaceTells(c)'
      BY <1>3, <2>4, <2>5, <2>6 DEF PlaceTells
    <2>8. \A d \in Coroutines \ {c} : at'[d] \in {"idle", "watch", "done"}
      BY <1>2, <2>3, <2>5 DEF Quiet
    <2>9. OneAtATime' /\ (\A d \in Coroutines : PlaceTells(d)') /\ QuietTells'
      BY <2>2, <2>5, <2>7, <2>8, AloneSuffices, SessionPlacesAre
    <2>10. OneWatcher'
      BY <1>0, <1>1, <2>2, <2>5 DEF OneWatcher, Starting
    <2> QED
      BY <2>9, <2>10
  <1>4. ASSUME NEW c \in Callers, StopSession(c) PROVE Goal
    <2>1. Others(c) \ {monitor} = {}
      BY <1>4 DEF StopSession, Overlap, Clear
    <2>2. c \in Coroutines /\ at[c] = "idle"
      BY <1>0, <1>4 DEF StopSession, Enters
    <2>3. /\ at'[c] = "stop-disconnect"
          /\ \A d \in Coroutines \ {c, monitor} : at'[d] = at[d]
          /\ monitor # 0 => at'[monitor] = "done"
      BY <1>0, <1>4, StopEffect
    <2>4. ~running' /\ UNCHANGED <<links, monitor>>
      BY <1>4 DEF StopSession
    <2>5. \A d \in Coroutines \ {c} : at'[d] \in {"idle", "watch", "done"}
      <3>1. \A d \in Coroutines \ {c, monitor} : ~Busy(d)
        BY <2>1 DEF Others
      <3>2. \A d \in Coroutines \ {c, monitor} : at'[d] \in {"idle", "watch", "done"}
        BY <1>2, <2>3, <3>1
      <3>3. \A d \in Coroutines \ {c} : d = monitor => at'[d] \in {"idle", "watch", "done"}
        BY <1>0, <2>2, <2>3, <3>2
      <3> QED
        BY <3>2, <3>3
    <2>6. links <= 1
      <3>1. CASE Quiet
        BY <1>1, <3>1 DEF QuietTells
      <3>2. CASE ~Quiet
        <4>1. PICK d \in Coroutines : Busy(d)
          BY <3>2 DEF Quiet
        <4>2. d \notin Callers \/ d # c
          BY <2>2, <4>1 DEF Busy, Connecting, Disconnecting
        <4>3. PlaceTells(d)
          BY <1>1
        <4> QED
          BY <1>0, <4>1, <4>3 DEF PlaceTells, Busy, Connecting, Disconnecting
      <3> QED
        BY <3>1, <3>2
    <2>7. PlaceTells(c)'
      BY <1>4, <2>3, <2>4, <2>6 DEF PlaceTells
    <2>8. OneAtATime' /\ (\A d \in Coroutines : PlaceTells(d)') /\ QuietTells'
      BY <2>2, <2>3, <2>5, <2>7, AloneSuffices, SessionPlacesAre
    <2>9. OneWatcher'
      <3>1. \A m \in Monitors \ {monitor'} : at'[m] \in {"idle", "done"}
        BY <1>0, <1>1, <2>3, <2>4 DEF OneWatcher
      <3> QED
        BY <2>3, <2>4, <3>1 DEF OneWatcher, MonitorGone
    <2> QED
      BY <2>8, <2>9
  <1>5. ASSUME NEW c \in Coroutines, BeginReconnect(c), ~Busy(c), c \in Monitors => at[c] = "watch"
        PROVE  Goal
    <2>1. Others(c) = {} /\ running
      BY <1>5 DEF BeginReconnect, Overlap, Clear
    <2>2. Quiet
      BY <1>5, <2>1 DEF Quiet, Others
    <2>3. links <= 1
      BY <1>1, <2>2 DEF QuietTells
    <2>4. /\ at'[c] = "reconnect-disconnect" /\ \A d \in Coroutines \ {c} : at'[d] = at[d]
          /\ health' = "RECONNECTING" /\ UNCHANGED <<running, links, monitor>>
          /\ causes \subseteq causes'
      BY <1>0, <1>5, WaitEffect, SessionPlacesAre DEF BeginReconnect
    <2>5. PlaceTells(c)'
      BY <2>1, <2>3, <2>4 DEF PlaceTells
    <2>6. \A d \in Coroutines \ {c} : at'[d] \in {"idle", "watch", "done"}
      BY <1>2, <2>2, <2>4 DEF Quiet
    <2>7. OneAtATime' /\ (\A d \in Coroutines : PlaceTells(d)') /\ QuietTells'
      BY <2>4, <2>5, <2>6, AloneSuffices, SessionPlacesAre
    <2>8. c \in Monitors => c = monitor
      BY <1>0, <1>1, <1>5 DEF OneWatcher
    <2>9. Starting = {}
      BY <2>2 DEF Quiet, Starting, Busy, Connecting
    <2>10. OneWatcher'
      <3>1. \A m \in Monitors \ {monitor'} : at'[m] \in {"idle", "done"}
        BY <1>0, <1>1, <2>4, <2>8 DEF OneWatcher
      <3>2. causes' = {} => monitor' # 0 /\ at'[monitor'] \notin {"idle", "done"}
        BY <1>0, <1>1, <2>1, <2>4, <2>9 DEF OneWatcher
      <3> QED
        BY <2>1, <2>4, <3>1, <3>2 DEF OneWatcher
    <2> QED
      BY <2>7, <2>10
  <1>6. ASSUME NEW c \in Callers, ForceReconnect(c) PROVE Goal
    BY <1>0, <1>5, <1>6 DEF ForceReconnect, Enters, Busy, Connecting, Disconnecting
  <1>7. ASSUME NEW m \in Monitors, Watch(m) PROVE Goal
    BY <1>0, <1>5, <1>7 DEF Watch, Busy, Connecting, Disconnecting
  <1>8. ASSUME NEW c \in Coroutines, Resumes(c) PROVE Goal
    <2>0. Busy(c)
      BY <1>8 DEF Resumes, Disconnected, Stopped, BackedOff, SessionConnected, HandlerRaises,
                  Busy, Connecting, Disconnecting
    <2>1. \A d \in Coroutines \ {c} : ~Busy(d) /\ at[d] \in {"idle", "watch", "done"}
      BY <1>1, <1>2, <2>0, OthersQuiet
    <2>2. PlaceTells(c)
      BY <1>1
    <2>3. c \in Monitors => c = monitor
      BY <1>1, <2>0 DEF OneWatcher, Busy, Connecting, Disconnecting
    <2>4. ASSUME NEW place \in SessionPlaces \ {"start-connect"}, Wait(c, place), UNCHANGED monitor
          PROVE  /\ at'[c] = place /\ at' \in [Coroutines -> SessionPlaces]
                 /\ \A d \in Coroutines \ {c} :
                      at'[d] = at[d] /\ at'[d] \in {"idle", "watch", "done"}
                 /\ \A m \in Monitors \ {monitor'} : at'[m] \in {"idle", "done"}
      <3>1. at'[c] = place /\ \A d \in Coroutines \ {c} : at'[d] = at[d]
        BY <1>0, <2>4, WaitEffect
      <3>2. \A m \in Monitors \ {monitor'} : at'[m] \in {"idle", "done"}
        BY <1>0, <1>1, <2>3, <2>4, <3>1 DEF OneWatcher
      <3> QED
        BY <1>0, <2>1, <2>4, <3>1, <3>2, WaitEffect
    <2>5. CASE Disconnected(c) \/ BackedOff(c)
      <3>1. PICK place \in {"backoff", "reconnect-connect"} :
              /\ Wait(c, place) /\ UNCHANGED <<running, monitor, causes>>
              /\ place = "backoff" => /\ at[c] = "reconnect-disconnect"
                                      /\ links' = IF links = 0 THEN 0 ELSE links - 1
                                      /\ UNCHANGED health
              /\ place = "reconnect-connect" => /\ at[c] = "backoff" /\ UNCHANGED links
                                                /\ health' = "CONNECTING"
        BY <2>5 DEF Disconnected, BackedOff
      <3>2. running /\ links' = 0
        BY <1>0, <2>2, <3>1 DEF PlaceTells
      <3>3. place \in SessionPlaces \ {"start-connect"} /\ place \notin {"idle", "watch", "done"}
        BY SessionPlacesAre
      <3>4. at'[c] = place /\ PlaceTells(c)'
        BY <2>2, <2>4, <3>1, <3>2, <3>3 DEF PlaceTells
      <3>5. OneAtATime' /\ (\A d \in Coroutines : PlaceTells(d)') /\ QuietTells'
        BY <2>4, <3>1, <3>3, <3>4, AloneSuffices
      <3>6. Starting = {}
        BY <2>1, <3>1 DEF Starting
      <3>7. causes' = {} => monitor' # 0 /\ at'[monitor'] \notin {"idle", "done"}
        BY <1>0, <1>1, <2>4, <3>1, <3>2, <3>3, <3>6 DEF OneWatcher
      <3> QED
        BY <2>4, <3>1, <3>2, <3>3, <3>5, <3>7 DEF OneWatcher
    <2>6. CASE Stopped(c)
      <3>1. /\ at[c] = "stop-disconnect" /\ health' = "DISCONNECTED" /\ Wait(c, "idle")
            /\ links' = (IF links = 0 THEN 0 ELSE links - 1) /\ UNCHANGED <<running, monitor>>
        BY <2>6 DEF Stopped
      <3>2. ~running' /\ links' = 0 /\ c \in Callers
        BY <1>0, <2>2, <3>1 DEF PlaceTells
      <3>3. at'[c] = "idle" /\ PlaceTells(c)'
        BY <2>4, <3>1, SessionPlacesAre DEF PlaceTells
      <3>4. OneAtATime' /\ (\A d \in Coroutines : PlaceTells(d)') /\ QuietTells'
        BY <2>4, <3>1, <3>2, <3>3, AloneSuffices, SessionPlacesAre
      <3>5. MonitorGone'
        BY <1>0, <1>1, <2>4, <3>1, <3>2, SessionPlacesAre DEF OneWatcher, MonitorGone
      <3> QED
        BY <2>4, <3>1, <3>2, <3>4, <3>5, SessionPlacesAre DEF OneWatcher
    <2>7. CASE HandlerRaises(c)
      <3>1. /\ at[c] \in {"start-connect", "reconnect-connect"}
            /\ at[c] = "start-connect" => causes' # {}
            /\ Wait(c, Home(c)) /\ UNCHANGED <<running, links, monitor>>
            /\ health' = IF c \in Monitors THEN "RECONNECTING" ELSE health
            /\ causes \subseteq causes'
        BY <2>7 DEF HandlerRaises, Connecting, Disconnecting, Clear
      <3>2. running /\ links = 0 /\ health' # "ACTIVE"
        BY <2>2, <3>1 DEF PlaceTells
      <3>3. /\ at'[c] = Home(c) /\ Home(c) \in {"idle", "watch"}
            /\ Home(c) \in SessionPlaces \ {"start-connect"}
            /\ c \in Monitors => Home(c) = "watch"
        BY <1>0, <2>4, <3>1, HomeIsPlace DEF Home
      <3>4. PlaceTells(c)'
        BY <3>3 DEF PlaceTells
      <3>5. OneAtATime' /\ (\A d \in Coroutines : PlaceTells(d)') /\ QuietTells'
        BY <2>4, <3>1, <3>2, <3>3, <3>4, AloneSuffices
      <3>6. causes' = {} => monitor' # 0 /\ at'[monitor'] \notin {"idle", "done"}
        <4>1. at[c] # "start-connect" => Starting = {}
          BY <2>1 DEF Starting
        <4> QED
          BY <1>0, <1>1, <2>4, <3>1, <3>2, <3>3, <4>1 DEF OneWatcher
      <3> QED
        BY <2>4, <3>1, <3>2, <3>3, <3>5, <3>6 DEF OneWatcher
    <2>8. CASE SessionConnected(c) /\ at[c] = "start-connect"
      <3>1. /\ made + 1 \in Monitors /\ monitor' = made + 1 /\ at'[made + 1] = "watch"
            /\ at' \in [Coroutines -> SessionPlaces]
            /\ \A d \in Coroutines \ {c, made + 1} : at'[d] = at[d]
            /\ c # made + 1 => at'[c] = "idle"
        BY <2>8, ConnectedEffect
      <3>2. /\ c \in Callers /\ c # made + 1 /\ running' /\ MonitorGone
            /\ links' = 1 /\ health' = "ACTIVE"
        BY <1>0, <2>2, <2>8, <3>1 DEF PlaceTells, SessionConnected
      <3>3. at'[c] = "idle" /\ PlaceTells(c)'
        BY <3>1, <3>2 DEF PlaceTells
      <3>4. \A d \in Coroutines \ {c} : at'[d] \in {"idle", "watch", "done"}
        BY <2>1, <3>1
      <3>5. OneAtATime' /\ (\A d \in Coroutines : PlaceTells(d)') /\ QuietTells'
        BY <3>2, <3>3, <3>4, AloneSuffices, SessionPlacesAre
      <3>6. \A m \in Monitors \ {monitor'} : at'[m] \in {"idle", "done"}
        <4> SUFFICES ASSUME NEW m \in Monitors, m # made + 1
                     PROVE  at'[m] \in {"idle", "done"}
          BY <3>1
        <4>1. at'[m] = at[m]
          BY <1>0, <3>1, <3>2
        <4>2. m # monitor => at[m] \in {"idle", "done"}
          BY <1>1 DEF OneWatcher
        <4>3. m = monitor => at[m] = "done"
          BY <1>0, <3>2 DEF MonitorGone
        <4> QED
          BY <4>1, <4>2, <4>3
      <3>7. monitor' # 0
        BY <3>1 DEF Monitors
      <3> QED
        BY <3>1, <3>2, <3>5, <3>6, <3>7 DEF OneWatcher
    <2>9. CASE SessionConnected(c) /\ at[c] = "reconnect-connect"
      <3>1. /\ Wait(c, Home(c)) /\ UNCHANGED <<running, monitor, causes>>
            /\ links' = links + 1 /\ health' = "ACTIVE"
        BY <2>9 DEF SessionConnected
      <3>2. running /\ links' = 1
        BY <2>2, <2>9, <3>1 DEF PlaceTells
      <3>3. /\ at'[c] = Home(c) /\ Home(c) \in {"idle", "watch"}
            /\ Home(c) \in SessionPlaces \ {"start-connect"}
            /\ c \in Monitors => Home(c) = "watch"
        BY <1>0, <2>4, <3>1, HomeIsPlace DEF Home
      <3>4. PlaceTells(c)'
        BY <3>3 DEF PlaceTells
      <3>5. OneAtATime' /\ (\A d \in Coroutines : PlaceTells(d)') /\ QuietTells'
        BY <2>4, <3>1, <3>2, <3>3, <3>4, AloneSuffices
      <3>6. causes' = {} => monitor' # 0 /\ at'[monitor'] \notin {"idle", "done"}
        <4>1. Starting = {}
          BY <2>1, <2>9 DEF Starting
        <4> QED
          BY <1>0, <1>1, <2>4, <3>1, <3>2, <3>3, <4>1 DEF OneWatcher
      <3> QED
        BY <2>4, <3>1, <3>2, <3>3, <3>5, <3>6 DEF OneWatcher
    <2> QED
      BY <1>8, <2>5, <2>6, <2>7, <2>8, <2>9 DEF Resumes, SessionConnected, Connecting
  <1>9. ASSUME NEW m \in Monitors, MonitorEnds(m) PROVE Goal
    <2>1. m \in Coroutines /\ at[m] = "watch" /\ ~running
      BY <1>0, <1>9 DEF MonitorEnds
    <2>2. m = monitor
      BY <1>1, <2>1 DEF OneWatcher
    <2>3. m # 0
      BY DEF Monitors
    <2> QED
      BY <1>1, <2>1, <2>2, <2>3 DEF OneWatcher, MonitorGone
  <1>10. CASE MessageSeen \/ Silence \/ UNCHANGED sessionVars
    <2>1. UNCHANGED <<health, running, links, monitor, at, causes>>
      BY <1>10 DEF MessageSeen, Silence, sessionVars
    <2> QED
      BY <1>1, <2>1 DEF OneAtATime, PlaceTells, QuietTells, OneWatcher, MonitorGone, Starting,
                        Quiet, Busy
  <1> QED
    BY <1>3, <1>4, <1>6, <1>7, <1>8, <1>9, <1>10 DEF SessionNext

LEMMA OrderlySuffices == SessionTyped /\ SessionOrderly => SessionTellsTheTruth
  <1> SUFFICES ASSUME SessionTyped, SessionOrderly, Quiet
               PROVE  /\ causes \subseteq {"start"} =>
                           (health = "ACTIVE") = (links = 1) /\ links <= 1
                      /\ causes = {} => running = (monitor # 0 /\ at[monitor] = "watch")
    BY DEF SessionTellsTheTruth
  <1>1. causes \subseteq {"start"} => (health = "ACTIVE") = (links = 1) /\ links <= 1
    BY DEF SessionOrderly, Clear, QuietTells
  <1>2. ASSUME causes = {} PROVE running = (monitor # 0 /\ at[monitor] = "watch")
    <2>1. OneWatcher /\ Starting = {}
      BY <1>2 DEF SessionOrderly, Clear, Quiet, Starting, Busy, Connecting
    <2>2. monitor # 0 => monitor \in Coroutines
      BY DEF SessionTyped, SessionTypeOK, Coroutines
    <2>3. monitor # 0 => at[monitor] \in {"idle", "watch", "done"}
      BY <2>2, SessionPlacesAre
      DEF Quiet, Busy, Connecting, Disconnecting, SessionTyped, SessionTypeOK, SessionPlaces
    <2>4. running => monitor # 0 /\ at[monitor] = "watch"
      BY <1>2, <2>1, <2>3 DEF OneWatcher
    <2>5. ~running => ~(monitor # 0 /\ at[monitor] = "watch")
      BY <2>1 DEF OneWatcher, MonitorGone
    <2>6. running \in BOOLEAN
      BY DEF SessionTyped, SessionTypeOK
    <2> QED
      BY <2>4, <2>5, <2>6
  <1> QED
    BY <1>1, <1>2

(* Between calls the health is the truth about the connection and a session *)
(* that runs is watched, whatever stop() interrupts in the monitor and      *)
(* whichever connect raises, for as long as calls do not overlap, no        *)
(* disconnect raises and nobody reconnects a session that is not running.   *)
THEOREM SessionTruth == SessionSpec => []SessionTellsTheTruth
  BY InitSession, NextSession, SessionInitOrderly, SessionNextOrderly, OrderlySuffices, PTL DEF SessionSpec
=============================================================================
