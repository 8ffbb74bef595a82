---------------------------- MODULE ExchangeStream ----------------------------
(***************************************************************************)
(* The websocket client of ver9/runtime/exchanges under a                  *)
(* BinanceRuntimeSession, as the coroutines of one event loop: start() is  *)
(* a task that dials, authenticates, gathers a reader and a heartbeat,     *)
(* closes, sleeps and dials again.  gather does not end one of the two     *)
(* when the other raises: a heartbeat outlives its reader, a reader its    *)
(* heartbeat.  Several tasks of start() share _running and _socket.        *)
(***************************************************************************)
EXTENDS Naturals

CONSTANTS
  MaxStarts,    \* bound: calls of start()
  MaxOrphans    \* bound: heartbeats that outlive their reader

ASSUME StreamAssumption == MaxStarts \in Nat /\ MaxOrphans \in Nat

(* The tasks of start(), one for each call. *)
Runs == 1 .. MaxStarts

VARIABLES
  streaming,    \* _running of the client
  client,       \* where each task of start() is
  socket,       \* the connection each has opened
  latest,       \* the task whose connection _socket is, 0 before the first
  reader,       \* the connection its _reader_loop reads, 0 when that has ended
  heart,        \* the _heartbeat_loop gathered with it is alive
  orphans,      \* heartbeats whose gather has already raised
  stale,        \* _last_message_ts is older than stale_after_seconds
  cancelled     \* the task is cancelled and does not know it yet

tasks == <<client, socket, reader, heart>>
streamVars == <<streaming, tasks, latest, orphans, stale, cancelled>>

(* The readers left when connection c is closed. *)
Without(c) == [r \in Runs |-> IF reader[r] = c THEN 0 ELSE reader[r]]

Goto(r, place) == client' = [client EXCEPT ![r] = place]

(* The task is at one of its awaits and goes on from there. *)
At(r, place) == client[r] = place /\ ~cancelled[r]

StreamInit ==
  /\ streaming = FALSE /\ latest = 0 /\ orphans = 0 /\ stale = FALSE
  /\ client = [r \in Runs |-> "none"]
  /\ socket = [r \in Runs |-> "closed"]
  /\ reader = [r \in Runs |-> 0]
  /\ heart = [r \in Runs |-> FALSE]
  /\ cancelled = [r \in Runs |-> FALSE]

(* The first step of a task. *)
Begin(r) ==
  /\ At(r, "ready")
  /\ streaming' = TRUE
  /\ Goto(r, "dialing")
  /\ UNCHANGED <<socket, reader, heart, latest, orphans, stale, cancelled>>

Connected(r) ==
  /\ At(r, "dialing")
  /\ socket' = [socket EXCEPT ![r] = "open"]
  /\ latest' = r /\ stale' = FALSE
  /\ Goto(r, "auth")
  /\ UNCHANGED <<streaming, reader, heart, orphans, cancelled>>

Unreachable(r) ==
  /\ At(r, "dialing")
  /\ Goto(r, "sleeping")
  /\ UNCHANGED <<streaming, socket, reader, heart, latest, orphans, stale, cancelled>>

(* _authenticate sends the signed login; then the two loops are gathered.  *)
(* The reader takes _socket, which another task may have replaced.         *)
Authenticated(r) ==
  /\ At(r, "auth") /\ socket[r] = "open"
  /\ reader' = [reader EXCEPT ![r] = IF socket[latest] = "open" THEN latest ELSE 0]
  /\ heart' = [heart EXCEPT ![r] = TRUE]
  /\ Goto(r, "gather")
  /\ UNCHANGED <<streaming, socket, latest, orphans, stale, cancelled>>

AuthRefused(r) ==
  /\ At(r, "auth")
  /\ Goto(r, "closing")
  /\ UNCHANGED <<streaming, socket, reader, heart, latest, orphans, stale, cancelled>>

(* A message is read, normalized and handed on. *)
Message(r) ==
  /\ reader[r] # 0
  /\ stale' = FALSE
  /\ UNCHANGED <<streaming, tasks, latest, orphans, cancelled>>

(* The reader raises, gather with it; the heartbeat goes on by itself. *)
ReaderRaises(r) ==
  /\ Goto(r, "closing")
  /\ reader' = [reader EXCEPT ![r] = 0]
  /\ heart' = [heart EXCEPT ![r] = FALSE]
  /\ orphans' = orphans + (IF heart[r] THEN 1 ELSE 0)

(* No JSON, a handler that fails, a connection that is lost. *)
ReaderFails(r) ==
  /\ reader[r] # 0 /\ orphans < MaxOrphans
  /\ IF At(r, "gather") THEN ReaderRaises(r)
     ELSE reader' = [reader EXCEPT ![r] = 0] /\ UNCHANGED <<client, heart, orphans>>
  /\ UNCHANGED <<streaming, socket, latest, stale, cancelled>>

(* The peer closes in good order: the reader ends and raises nothing, and  *)
(* gather waits for the heartbeat.                                         *)
PeerCloses(r) ==
  /\ socket[r] # "closed"
  /\ socket' = [socket EXCEPT ![r] = "closed"]
  /\ reader' = Without(r)
  /\ UNCHANGED <<streaming, client, heart, latest, orphans, stale, cancelled>>

(* Nothing has been read for stale_after_seconds. *)
GoesStale ==
  /\ ~stale /\ stale' = TRUE
  /\ UNCHANGED <<streaming, tasks, latest, orphans, cancelled>>

(* Faulty: the heartbeat does not look at the age. *)
HeartbeatIgnoresAge(r) ==
  /\ heart[r] /\ ~streaming
  /\ heart' = [heart EXCEPT ![r] = FALSE]
  /\ UNCHANGED <<streaming, client, socket, reader, latest, orphans, stale, cancelled>>

(* The heartbeat returns when the client no longer runs, and raises on a   *)
(* stale stream: the connection is then closed under the reader.           *)
Heartbeat(r) ==
  /\ heart[r]
  /\ ~streaming \/ stale
  /\ heart' = [heart EXCEPT ![r] = FALSE]
  /\ IF streaming /\ At(r, "gather") THEN Goto(r, "closing") ELSE UNCHANGED client
  /\ UNCHANGED <<streaming, socket, reader, latest, orphans, stale, cancelled>>

(* Faulty: there need be none. *)
OrphanEndsAnyway ==
  /\ ~streaming \/ stale
  /\ orphans' = orphans - 1
  /\ UNCHANGED <<streaming, tasks, latest, stale, cancelled>>

(* It leaves its loop as any heartbeat does; nobody awaits it. *)
OrphanEnds ==
  /\ orphans > 0 /\ (~streaming \/ stale)
  /\ orphans' = orphans - 1
  /\ UNCHANGED <<streaming, tasks, latest, stale, cancelled>>

GatherReturns(r) ==
  /\ At(r, "gather") /\ reader[r] = 0 /\ ~heart[r]
  /\ Goto(r, "closing")
  /\ UNCHANGED <<streaming, socket, reader, heart, latest, orphans, stale, cancelled>>

(* The connection is closed on the way out of the async with block; a task *)
(* whose cancellation brought it here is at its end.                       *)
Closed(r) ==
  /\ At(r, "closing") \/ At(r, "leaving")
  /\ socket' = [socket EXCEPT ![r] = "closed"]
  /\ reader' = Without(r)
  /\ Goto(r, IF client[r] = "closing" THEN "sleeping" ELSE "done")
  /\ UNCHANGED <<streaming, heart, latest, orphans, stale, cancelled>>

Wakes(r) ==
  /\ At(r, "sleeping")
  /\ Goto(r, IF streaming THEN "dialing" ELSE "done")
  /\ UNCHANGED <<streaming, socket, reader, heart, latest, orphans, stale, cancelled>>

(* CancelledError is raised where the task waits.  In gather it has already *)
(* ended the two loops; within a closing handshake it leaves the connection *)
(* to the peer.                                                            *)
CancelLands(r) ==
  /\ cancelled[r]
  /\ cancelled' = [cancelled EXCEPT ![r] = FALSE]
  /\ Goto(r, IF client[r] \in {"auth", "gather"} THEN "leaving" ELSE "done")
  /\ UNCHANGED <<streaming, socket, reader, heart, latest, orphans, stale>>

(* What the task, its reader and its heartbeat do by themselves. *)
Coroutine(r) ==
  \/ Begin(r)
  \/ Unreachable(r) \/ AuthRefused(r)
  \/ Heartbeat(r)
  \/ GatherReturns(r)
  \/ Closed(r)
  \/ Wakes(r)
  \/ CancelLands(r)

(* All that happens to the client but the messages it hands on. *)
StreamNext ==
  \/ \E r \in Runs : \/ Coroutine(r)
                     \/ Connected(r) \/ Authenticated(r)
                     \/ ReaderFails(r) \/ PeerCloses(r)
  \/ GoesStale
  \/ OrphanEnds

(* The event loop resumes every coroutine that can go on, time passes, and *)
(* a peer answers a closing handshake.  The venue does not refuse for ever *)
(* to connect or to log in.                                                *)
StreamFairness ==
  /\ \A r \in Runs :
       /\ WF_streamVars(Coroutine(r) \/ Connected(r) \/ Authenticated(r))
       /\ SF_streamVars(Connected(r))
       /\ SF_streamVars(Authenticated(r))
       /\ WF_streamVars(client[r] = "done" /\ PeerCloses(r))
  /\ WF_streamVars(OrphanEnds)
  /\ WF_streamVars((\E r \in Runs : client[r] # "none") /\ (\A r \in Runs : reader[r] = 0)
                     /\ GoesStale)

Places ==
  {"none", "ready", "dialing", "auth", "gather", "closing", "leaving", "sleeping", "done"}

StreamTypeOK ==
  /\ streaming \in BOOLEAN /\ stale \in BOOLEAN
  /\ client \in [Runs -> Places]
  /\ socket \in [Runs -> {"open", "closed"}]
  /\ latest \in Runs \cup {0}
  /\ reader \in [Runs -> Runs \cup {0}] /\ heart \in [Runs -> BOOLEAN]
  /\ orphans \in 0 .. MaxOrphans
  /\ cancelled \in [Runs -> BOOLEAN]
=============================================================================
