------------------------------ MODULE LiveProofs ------------------------------
(***************************************************************************)
(* Theorems about the runtime that talks to the exchange: LiveRuntime and  *)
(* the ExchangeStream it extends, for any number of starts, orphans and    *)
(* facts, and the composition that MCLive checks.  None of them needs      *)
(* fairness.                                                               *)
(***************************************************************************)
EXTENDS MCLive, SessionProofs

LEMMA RunsAreNumbers == Runs \subseteq Nat /\ 0 \notin Runs
  BY DEF Runs

LEMMA InitTyped == LiveInit => LiveTypeOK
  <1> SUFFICES ASSUME LiveInit PROVE LiveTypeOK
    OBVIOUS
  <1>1. 0 \in 0 .. MaxOrphans
    BY StreamAssumption
  <1>2. StreamTypeOK
    BY <1>1 DEF LiveInit, StreamInit, StreamTypeOK, Places
  <1> QED
    BY <1>2 DEF LiveInit, LiveTypeOK

(* The stream. *)
LEMMA StreamNextTyped == StreamTypeOK /\ StreamNext => StreamTypeOK'
  <1> SUFFICES ASSUME StreamTypeOK, StreamNext PROVE StreamTypeOK'
    OBVIOUS
  <1> USE RunsAreNumbers DEF tasks, Places, StreamTypeOK, At
  <1>1. ASSUME NEW r \in Runs, NEW place \in Places, Goto(r, place)
        PROVE  client' \in [Runs -> Places]
    BY <1>1 DEF Goto
  <1>2. ASSUME NEW r \in Runs, Begin(r) \/ Unreachable(r) \/ AuthRefused(r) \/ GatherReturns(r)
                               \/ Wakes(r)
        PROVE  StreamTypeOK'
    BY <1>2 DEF Begin, Unreachable, AuthRefused, GatherReturns, Wakes, Goto
  <1>3. ASSUME NEW r \in Runs, Heartbeat(r) PROVE StreamTypeOK'
    BY <1>3 DEF Heartbeat, Goto
  <1>4. ASSUME NEW r \in Runs, Closed(r) PROVE StreamTypeOK'
    <2>1. /\ socket' = [socket EXCEPT ![r] = "closed"] /\ reader' = Without(r)
          /\ UNCHANGED <<streaming, heart, latest, orphans, stale, cancelled>>
      BY <1>4 DEF Closed
    <2>2. client' \in [Runs -> Places]
      BY <1>4 DEF Closed, Goto
    <2>3. reader' \in [Runs -> Runs \cup {0}]
      BY <2>1 DEF Without
    <2> QED
      BY <2>1, <2>2, <2>3
  <1>5. ASSUME NEW r \in Runs, CancelLands(r) PROVE StreamTypeOK'
    BY <1>5 DEF CancelLands, Goto
  <1>6. ASSUME NEW r \in Runs, Connected(r) PROVE StreamTypeOK'
    BY <1>6 DEF Connected, Goto
  <1>7. ASSUME NEW r \in Runs, Authenticated(r) PROVE StreamTypeOK'
    <2>1. reader' \in [Runs -> Runs \cup {0}]
      BY <1>7 DEF Authenticated
    <2> QED
      BY <1>7, <2>1 DEF Authenticated, Goto
  <1>8. ASSUME NEW r \in Runs, ReaderFails(r) PROVE StreamTypeOK'
    <2>1. orphans < MaxOrphans /\ UNCHANGED <<streaming, socket, latest, stale, cancelled>>
          /\ reader' = [reader EXCEPT ![r] = 0]
      BY <1>8 DEF ReaderFails, ReaderRaises
    <2>2. CASE ReaderRaises(r)
      <3>1. orphans' \in 0 .. MaxOrphans
        BY <2>1, <2>2, StreamAssumption DEF ReaderRaises
      <3> QED
        BY <2>1, <2>2, <3>1 DEF ReaderRaises, Goto
    <2>3. CASE UNCHANGED <<client, heart, orphans>>
      BY <2>1, <2>3
    <2> QED
      BY <1>8, <2>2, <2>3 DEF ReaderFails
  <1>9. ASSUME NEW r \in Runs, PeerCloses(r) PROVE StreamTypeOK'
    <2>1. reader' \in [Runs -> Runs \cup {0}]
      BY <1>9 DEF PeerCloses, Without
    <2> QED
      BY <1>9, <2>1 DEF PeerCloses
  <1>10. CASE GoesStale
    BY <1>10 DEF GoesStale
  <1>11. CASE OrphanEnds
    BY <1>11, StreamAssumption DEF OrphanEnds
  <1> QED
    BY <1>2, <1>3, <1>4, <1>5, <1>6, <1>7, <1>8, <1>9, <1>10, <1>11 DEF StreamNext, Coroutine

LEMMA StreamUnchanged == StreamTypeOK /\ UNCHANGED streamVars => StreamTypeOK'
  BY DEF StreamTypeOK, streamVars, tasks

(* stop() returned. *)
LEMMA EndStopTyped == LiveTypeOK /\ EndStop => LiveTypeOK'
  <1> SUFFICES ASSUME LiveTypeOK, EndStop PROVE LiveTypeOK'
    OBVIOUS
  <1>1. /\ phase' = "stopped" /\ scheduling' = FALSE
        /\ UNCHANGED <<streaming, client, latest, orphans, stale, snapshot, halted, starts,
                       doubled, local, venue, late>>
    BY DEF EndStop, world
  <1>2. socket' \in [Runs -> {"open", "closed"}]
    BY DEF EndStop, AfterClose, LiveTypeOK, StreamTypeOK
  <1>3. ReadersAfterClose \in [Runs -> Runs \cup {0}]
    BY DEF ReadersAfterClose, Without, LiveTypeOK, StreamTypeOK
  <1>4. /\ cancelled' \in [Runs -> BOOLEAN]
        /\ reader' \in [Runs -> Runs \cup {0}]
        /\ heart' \in [Runs -> BOOLEAN]
        /\ job' \in [Runs -> {"none", "done"}]
    BY <1>3 DEF EndStop, CancelTasks, LiveTypeOK, StreamTypeOK
  <1>5. StreamTypeOK'
    BY <1>1, <1>2, <1>4 DEF LiveTypeOK, StreamTypeOK
  <1> QED
    BY <1>1, <1>4, <1>5 DEF LiveTypeOK

LEMMA NextTyped == LiveTypeOK /\ [LiveNext]_liveVars => LiveTypeOK'
  <1> SUFFICES ASSUME LiveTypeOK, [LiveNext]_liveVars PROVE LiveTypeOK'
    OBVIOUS
  <1> USE DEF scheduler, orchestrator, world
  <1>1. CASE StartLive
    <2>1. StreamTypeOK'
      BY <1>1 DEF StartLive, LiveTypeOK, StreamTypeOK, Goto, Places
    <2> QED
      BY <1>1, <2>1 DEF StartLive, LiveTypeOK
  <1>2. CASE BeginStop
    <2>1. StreamTypeOK'
      BY <1>2 DEF BeginStop, LiveTypeOK, StreamTypeOK, tasks
    <2> QED
      BY <1>2, <2>1 DEF BeginStop, LiveTypeOK
  <1>3. CASE EndStop
    BY <1>3, EndStopTyped
  <1>4. CASE StopFails
    <2>1. StreamTypeOK'
      BY <1>4, StreamUnchanged DEF StopFails, LiveTypeOK
    <2> QED
      BY <1>4, <2>1 DEF StopFails, LiveTypeOK
  <1>5. CASE StreamStep
    <2>1. /\ StreamTypeOK' /\ late' \subseteq {"event", "correction"}
          /\ UNCHANGED <<scheduler, orchestrator, world>>
      <3>1. CASE StreamNext /\ UNCHANGED late
        BY <1>5, <3>1, StreamNextTyped DEF StreamStep, LiveTypeOK
      <3>2. CASE \E r \in Runs : Message(r) /\ Happens("event")
        BY <1>5, <3>2 DEF StreamStep, Message, Happens, LiveTypeOK, StreamTypeOK, tasks
      <3> QED
        BY <1>5, <3>1, <3>2 DEF StreamStep
    <2> QED
      BY <2>1 DEF LiveTypeOK
  <1>6. CASE Scheduler /\ UNCHANGED <<streamVars, orchestrator>>
    <2>1. StreamTypeOK' /\ UNCHANGED orchestrator
      BY <1>6, StreamUnchanged DEF LiveTypeOK
    <2>2. ASSUME NEW r \in Runs, Cycle(r) \/ Corrected(r) PROVE LiveTypeOK'
      <3>1. job' \in [Runs -> {"none", "ready", "fetch-local", "fetch-exchange", "correct",
                               "halt", "sleep", "done"}]
        BY <2>2 DEF Cycle, BeginJob, FetchLocal, FetchExchange, Halt, NextCycle, Corrected,
                    CorrectionFails, Step, LiveTypeOK
      <3>2. scheduling' \in BOOLEAN /\ halted' \in BOOLEAN
        BY <2>2 DEF Cycle, BeginJob, FetchLocal, FetchExchange, Halt, NextCycle, Corrected,
                    CorrectionFails, LiveTypeOK
      <3>3. snapshot' \in [Runs -> SUBSET Facts]
        BY <2>2 DEF Cycle, BeginJob, FetchLocal, FetchExchange, Halt, NextCycle, Corrected,
                    CorrectionFails, Divergence, LiveTypeOK
      <3>4. late' \subseteq {"event", "correction"}
        BY <2>2 DEF Cycle, BeginJob, FetchLocal, FetchExchange, Halt, NextCycle, Corrected,
                    CorrectionFails, Happens, LiveTypeOK
      <3>5. local' \subseteq Facts /\ venue' \subseteq Facts
        BY <2>2 DEF Cycle, Corrected, CorrectionFails, LiveTypeOK
      <3> QED
        BY <2>1, <3>1, <3>2, <3>3, <3>4, <3>5 DEF LiveTypeOK
    <2>3. CASE World /\ UNCHANGED <<scheduler, late>>
      BY <2>1, <2>3 DEF World, VenueChanges, LocalLearns, LiveTypeOK
    <2> QED
      BY <1>6, <2>2, <2>3 DEF Scheduler
  <1>7. CASE UNCHANGED liveVars
    <2>1. StreamTypeOK'
      BY <1>7, StreamUnchanged DEF liveVars, LiveTypeOK
    <2> QED
      BY <1>7, <2>1 DEF liveVars, LiveTypeOK
  <1> QED
    BY <1>1, <1>2, <1>3, <1>4, <1>5, <1>6, <1>7 DEF LiveNext, Orchestrator

(* The runtime, its stream and its scheduler stay of their kinds. *)
THEOREM LiveTypeCorrect == LiveSpec => []LiveTypeOK
  BY InitTyped, NextTyped, PTL DEF LiveSpec

-----------------------------------------------------------------------------
(* The strengthening of NothingAfterStop.  Unless start() was called while *)
(* a task of an earlier one lived, only the tasks of the last start() are  *)
(* alive ...                                                               *)
OneLiveRun == \A r \in Runs : r # starts => Ended(r)

(* ... a reader reads the connection stop() closes, and does not outlive   *)
(* the closing of its task ...                                             *)
ReadersKnown ==
  \A r \in Runs :
    /\ client[r] \in {"auth", "gather", "closing"} => latest = r
    /\ reader[r] # 0 => /\ reader[r] = r /\ latest = r
                        /\ client[r] \in {"gather", "closing"} /\ ~cancelled[r]

(* ... and once stop() has returned every task can only end.               *)
StoppedMeansEnding ==
  phase = "stopped" =>
    \A r \in Runs : /\ reader[r] = 0 /\ job[r] \in {"none", "done"}
                    /\ client[r] \in {"none", "done", "leaving"} \/ cancelled[r]

StopsOrderly == OneLiveRun /\ ReadersKnown /\ StoppedMeansEnding

LiveOrderly == ~doubled => late = {} /\ StopsOrderly

LEMMA InitOrderly == LiveInit => LiveOrderly
  BY DEF LiveInit, StreamInit, LiveOrderly, StopsOrderly, OneLiveRun, Ended, ReadersKnown,
         StoppedMeansEnding

(* A task that goes from one of its awaits to another, and opens no        *)
(* connection and no reader.                                               *)
LEMMA GotoKeepsOrder ==
  ASSUME LiveTypeOK, StopsOrderly, NEW r \in Runs, NEW from, NEW to,
         UNCHANGED <<phase, starts, job, latest, reader, cancelled>>,
         At(r, from), Goto(r, to), reader[r] = 0 \/ to \in {"gather", "closing"},
         from \notin {"none", "done", "leaving"} \/ to = "done",
         to \in {"auth", "gather", "closing"} => from \in {"auth", "gather", "closing"}
  PROVE  StopsOrderly'
  <1> USE DEF At, Goto, LiveTypeOK, StreamTypeOK
  <1>1. client'[r] = to /\ \A s \in Runs \ {r} : client'[s] = client[s]
    OBVIOUS
  <1>2. OneLiveRun'
    BY <1>1 DEF StopsOrderly, OneLiveRun, Ended
  <1>3. ReadersKnown'
    BY <1>1 DEF StopsOrderly, ReadersKnown
  <1>4. StoppedMeansEnding'
    BY <1>1 DEF StopsOrderly, StoppedMeansEnding
  <1> QED
    BY <1>2, <1>3, <1>4 DEF StopsOrderly

(* A step that only ends readers. *)
LEMMA ReadersEndInOrder ==
  ASSUME LiveTypeOK, StopsOrderly,
         UNCHANGED <<phase, starts, job, latest, client, cancelled>>,
         \A r \in Runs : reader'[r] \in {reader[r], 0}
  PROVE  StopsOrderly'
  <1>1. OneLiveRun'
    BY DEF StopsOrderly, OneLiveRun, Ended
  <1>2. ReadersKnown'
    BY DEF StopsOrderly, ReadersKnown
  <1>3. StoppedMeansEnding'
    BY DEF StopsOrderly, StoppedMeansEnding
  <1> QED
    BY <1>1, <1>2, <1>3 DEF StopsOrderly

(* The stream's own steps keep the order, whatever it is doing. *)
LEMMA StreamKeepsOrder ==
  ASSUME LiveTypeOK, StopsOrderly, StreamNext, UNCHANGED <<phase, starts, job>>
  PROVE  StopsOrderly'
  <1> USE DEF tasks
  <1>0. /\ client \in [Runs -> Places] /\ reader \in [Runs -> Runs \cup {0}]
        /\ cancelled \in [Runs -> BOOLEAN] /\ 0 \notin Runs
    BY RunsAreNumbers DEF LiveTypeOK, StreamTypeOK
  <1>1. ASSUME NEW r \in Runs, Begin(r) \/ Unreachable(r) \/ Wakes(r) PROVE StopsOrderly'
    <2>1. PICK from \in {"ready", "dialing", "sleeping"}, to \in {"dialing", "sleeping", "done"} :
            At(r, from) /\ Goto(r, to)
      BY <1>1 DEF Begin, Unreachable, Wakes
    <2>2. UNCHANGED <<latest, reader, cancelled>>
      BY <1>1 DEF Begin, Unreachable, Wakes
    <2>3. reader[r] = 0
      BY <2>1 DEF StopsOrderly, ReadersKnown, At
    <2> QED
      BY <2>1, <2>2, <2>3, GotoKeepsOrder
  <1>2. ASSUME NEW r \in Runs, AuthRefused(r) \/ GatherReturns(r) PROVE StopsOrderly'
    <2>1. PICK from \in {"auth", "gather"} : At(r, from) /\ Goto(r, "closing")
      BY <1>2 DEF AuthRefused, GatherReturns
    <2>2. UNCHANGED <<latest, reader, cancelled>>
      BY <1>2 DEF AuthRefused, GatherReturns
    <2> QED
      BY <2>1, <2>2, GotoKeepsOrder
  <1>3. ASSUME NEW r \in Runs, Heartbeat(r) PROVE StopsOrderly'
    <2>1. UNCHANGED <<latest, reader, cancelled>>
      BY <1>3 DEF Heartbeat
    <2>2. CASE At(r, "gather") /\ Goto(r, "closing")
      BY <2>1, <2>2, GotoKeepsOrder
    <2>3. CASE UNCHANGED client
      BY <2>1, <2>3, ReadersEndInOrder
    <2> QED
      BY <1>3, <2>2, <2>3 DEF Heartbeat
  <1>4. ASSUME NEW r \in Runs, Closed(r) PROVE StopsOrderly'
    <2>1. /\ UNCHANGED <<latest, cancelled>> /\ ~cancelled[r]
          /\ client[r] \in {"closing", "leaving"}
          /\ client'[r] = IF client[r] = "closing" THEN "sleeping" ELSE "done"
          /\ \A s \in Runs \ {r} : client'[s] = client[s]
          /\ \A s \in Runs : reader'[s] = IF reader[s] = r THEN 0 ELSE reader[s]
      BY <1>0, <1>4 DEF Closed, At, Goto, Without
    <2>2. reader'[r] = 0 /\ \A s \in Runs : reader'[s] \in {reader[s], 0}
      BY <2>1 DEF StopsOrderly, ReadersKnown
    <2>3. OneLiveRun'
      BY <2>1 DEF StopsOrderly, OneLiveRun, Ended
    <2>4. ReadersKnown'
      BY <2>1, <2>2 DEF StopsOrderly, ReadersKnown
    <2>5. StoppedMeansEnding'
      BY <2>1, <2>2 DEF StopsOrderly, StoppedMeansEnding
    <2> QED
      BY <2>3, <2>4, <2>5 DEF StopsOrderly
  <1>5. ASSUME NEW r \in Runs, CancelLands(r) PROVE StopsOrderly'
    <2>1. /\ cancelled[r] /\ UNCHANGED <<latest, reader>>
          /\ cancelled'[r] = FALSE /\ \A s \in Runs \ {r} : cancelled'[s] = cancelled[s]
          /\ client'[r] = IF client[r] \in {"auth", "gather"} THEN "leaving" ELSE "done"
          /\ \A s \in Runs \ {r} : client'[s] = client[s]
      BY <1>0, <1>5 DEF CancelLands, Goto
    <2>2. reader[r] = 0
      BY <2>1 DEF StopsOrderly, ReadersKnown
    <2>3. OneLiveRun'
      BY <2>1 DEF StopsOrderly, OneLiveRun, Ended
    <2>4. ReadersKnown'
      BY <2>1, <2>2 DEF StopsOrderly, ReadersKnown
    <2>5. StoppedMeansEnding'
      BY <2>1 DEF StopsOrderly, StoppedMeansEnding
    <2> QED
      BY <2>3, <2>4, <2>5 DEF StopsOrderly
  <1>6. ASSUME NEW r \in Runs, Connected(r) PROVE StopsOrderly'
    <2>1. /\ client[r] = "dialing" /\ ~cancelled[r] /\ latest' = r
          /\ client'[r] = "auth" /\ \A s \in Runs \ {r} : client'[s] = client[s]
          /\ UNCHANGED <<reader, cancelled>>
      BY <1>0, <1>6 DEF Connected, At, Goto
    <2>2. r = starts /\ \A s \in Runs \ {r} : client[s] \in {"none", "done"}
      BY <2>1 DEF StopsOrderly, OneLiveRun, Ended
    <2>3. \A s \in Runs : reader[s] = 0
      BY <2>1, <2>2 DEF StopsOrderly, ReadersKnown
    <2>4. OneLiveRun'
      BY <2>1, <2>2 DEF StopsOrderly, OneLiveRun, Ended
    <2>5. ReadersKnown'
      BY <2>1, <2>2, <2>3 DEF ReadersKnown
    <2>6. StoppedMeansEnding'
      BY <2>1 DEF StopsOrderly, StoppedMeansEnding
    <2> QED
      BY <2>4, <2>5, <2>6 DEF StopsOrderly
  <1>7. ASSUME NEW r \in Runs, Authenticated(r) PROVE StopsOrderly'
    <2>1. /\ client[r] = "auth" /\ ~cancelled[r] /\ UNCHANGED <<latest, cancelled>>
          /\ reader'[r] \in {latest, 0} /\ \A s \in Runs \ {r} : reader'[s] = reader[s]
          /\ client'[r] = "gather" /\ \A s \in Runs \ {r} : client'[s] = client[s]
      BY <1>0, <1>7 DEF Authenticated, At, Goto
    <2>2. latest = r
      BY <2>1 DEF StopsOrderly, ReadersKnown
    <2>3. OneLiveRun'
      BY <2>1 DEF StopsOrderly, OneLiveRun, Ended
    <2>4. ReadersKnown'
      BY <2>1, <2>2 DEF StopsOrderly, ReadersKnown
    <2>5. StoppedMeansEnding'
      BY <2>1 DEF StopsOrderly, StoppedMeansEnding
    <2> QED
      BY <2>3, <2>4, <2>5 DEF StopsOrderly
  <1>8. ASSUME NEW r \in Runs, ReaderFails(r) PROVE StopsOrderly'
    <2>1. /\ reader[r] # 0 /\ UNCHANGED <<latest, cancelled>>
          /\ reader'[r] = 0 /\ \A s \in Runs \ {r} : reader'[s] = reader[s]
      BY <1>0, <1>8 DEF ReaderFails, ReaderRaises
    <2>2. CASE At(r, "gather") /\ Goto(r, "closing")
      <3>1. /\ client[r] = "gather" /\ client'[r] = "closing"
            /\ \A s \in Runs \ {r} : client'[s] = client[s]
        BY <1>0, <2>2 DEF At, Goto
      <3>2. OneLiveRun'
        BY <3>1 DEF StopsOrderly, OneLiveRun, Ended
      <3>3. ReadersKnown'
        BY <2>1, <3>1 DEF StopsOrderly, ReadersKnown
      <3>4. StoppedMeansEnding'
        BY <2>1, <3>1 DEF StopsOrderly, StoppedMeansEnding
      <3> QED
        BY <3>2, <3>3, <3>4 DEF StopsOrderly
    <2>3. CASE UNCHANGED client
      BY <2>1, <2>3, ReadersEndInOrder
    <2> QED
      BY <1>8, <2>2, <2>3 DEF ReaderFails, ReaderRaises
  <1>9. ASSUME NEW r \in Runs, PeerCloses(r) PROVE StopsOrderly'
    <2>1. \A s \in Runs : reader'[s] \in {reader[s], 0}
      BY <1>9 DEF PeerCloses, Without
    <2> QED
      BY <1>9, <2>1, ReadersEndInOrder DEF PeerCloses
  <1>10. CASE GoesStale \/ OrphanEnds
    BY <1>10, ReadersEndInOrder DEF GoesStale, OrphanEnds
  <1> QED
    BY <1>1, <1>2, <1>3, <1>4, <1>5, <1>6, <1>7, <1>8, <1>9, <1>10 DEF StreamNext, Coroutine

(* stop() returns: the reader loses its connection, the tasks are told. *)
LEMMA EndStopKeepsOrder ==
  ASSUME LiveTypeOK, StopsOrderly, EndStop
  PROVE  StopsOrderly'
  <1>1. /\ client' = client /\ starts' = starts /\ latest' = latest
        /\ \A r \in Runs :
             /\ cancelled'[r] = (client[r] \notin {"none", "done"})
             /\ reader'[r] = IF client[r] = "gather" THEN 0 ELSE ReadersAfterClose[r]
             /\ job'[r] = IF job[r] = "none" THEN "none" ELSE "done"
    BY DEF EndStop, CancelTasks
  <1>2. \A r \in Runs : reader'[r] = 0
    <2> SUFFICES ASSUME NEW r \in Runs, reader[r] # 0, client[r] # "gather"
                 PROVE  ReadersAfterClose[r] = 0
      BY <1>1 DEF ReadersAfterClose, Without
    <2>1. reader[r] = latest /\ latest # 0
      BY RunsAreNumbers DEF StopsOrderly, ReadersKnown
    <2> QED
      BY <2>1 DEF ReadersAfterClose, Without
  <1>3. OneLiveRun'
    BY <1>1 DEF StopsOrderly, OneLiveRun, Ended
  <1>4. ReadersKnown'
    BY <1>1, <1>2 DEF StopsOrderly, ReadersKnown
  <1>5. StoppedMeansEnding'
    BY <1>1, <1>2 DEF StoppedMeansEnding
  <1> QED
    BY <1>3, <1>4, <1>5 DEF StopsOrderly

LEMMA NextOrderly == LiveTypeOK /\ LiveOrderly /\ [LiveNext]_liveVars => LiveOrderly'
  <1> SUFFICES ASSUME LiveTypeOK, LiveOrderly, [LiveNext]_liveVars, ~doubled'
               PROVE  late' = {} /\ StopsOrderly'
    BY DEF LiveOrderly
  <1> USE DEF scheduler, orchestrator, world
  <1>0. ~doubled /\ late = {} /\ StopsOrderly
    <2>1. doubled => doubled'
      BY DEF LiveNext, Orchestrator, StartLive, BeginStop, EndStop, StopFails, StreamStep, liveVars
    <2> QED
      BY <2>1 DEF LiveOrderly
  <1>1. CASE StartLive
    <2>1. /\ starts + 1 \in Runs /\ starts' = starts + 1 /\ phase' = "active"
          /\ \A r \in Runs : Ended(r)
          /\ client' = [client EXCEPT ![starts + 1] = "ready"]
          /\ job' = [job EXCEPT ![starts + 1] = "ready"]
          /\ UNCHANGED <<latest, reader, cancelled, late>>
      BY <1>1 DEF StartLive, Goto
    <2>2. \A r \in Runs : reader[r] = 0
      BY <1>0, <2>1 DEF Ended, StopsOrderly, ReadersKnown
    <2>3. \A r \in Runs \ {starts'} : client'[r] = client[r] /\ job'[r] = job[r]
      BY <2>1 DEF LiveTypeOK, StreamTypeOK
    <2>4. client'[starts'] = "ready"
      BY <2>1 DEF LiveTypeOK, StreamTypeOK
    <2>5. OneLiveRun'
      BY <2>1, <2>3 DEF OneLiveRun, Ended
    <2>6. ReadersKnown'
      BY <2>1, <2>2, <2>3, <2>4 DEF ReadersKnown, Ended
    <2>7. StoppedMeansEnding'
      BY <2>1 DEF StoppedMeansEnding
    <2> QED
      BY <1>0, <2>1, <2>5, <2>6, <2>7 DEF StopsOrderly
  <1>2. CASE BeginStop \/ StopFails
    <2>1. /\ phase' \in {"stopping", "failed"}
          /\ UNCHANGED <<client, reader, latest, cancelled, job, starts, late>>
      BY <1>2 DEF BeginStop, StopFails, tasks, streamVars
    <2> QED
      BY <1>0, <2>1 DEF StopsOrderly, OneLiveRun, Ended, ReadersKnown, StoppedMeansEnding
  <1>3. CASE EndStop
    BY <1>0, <1>3, EndStopKeepsOrder DEF EndStop
  <1>4. CASE StreamStep
    <2>1. CASE StreamNext /\ UNCHANGED late
      BY <1>0, <1>4, <2>1, StreamKeepsOrder DEF StreamStep
    <2>2. ASSUME NEW r \in Runs, Message(r), Happens("event") PROVE late' = {} /\ StopsOrderly'
      <3>1. reader[r] # 0 /\ UNCHANGED <<client, reader, latest, cancelled>>
        BY <2>2 DEF Message, tasks
      <3>2. phase # "stopped"
        BY <1>0, <3>1 DEF StopsOrderly, StoppedMeansEnding
      <3>3. late' = {}
        BY <1>0, <2>2, <3>2 DEF Happens
      <3>4. StopsOrderly'
        BY <1>0, <1>4, <3>1, ReadersEndInOrder DEF StreamStep
      <3> QED
        BY <3>3, <3>4
    <2> QED
      BY <1>4, <2>1, <2>2 DEF StreamStep
  <1>5. CASE Scheduler /\ UNCHANGED <<streamVars, orchestrator>>
    <2>0. UNCHANGED <<client, reader, latest, cancelled, phase, starts>>
      BY <1>5 DEF streamVars, tasks
    <2>1. ASSUME NEW r \in Runs, Cycle(r) \/ Corrected(r) PROVE late' = {} /\ StopsOrderly'
      <3>1. /\ job[r] \notin {"none", "done"}
            /\ \A s \in Runs \ {r} : job'[s] = job[s]
        BY <2>1 DEF Cycle, BeginJob, FetchLocal, FetchExchange, Halt, NextCycle, Corrected,
                    CorrectionFails, Step, LiveTypeOK
      <3>2. phase # "stopped" /\ r = starts
        BY <1>0, <3>1 DEF StopsOrderly, StoppedMeansEnding, OneLiveRun, Ended
      <3>3. late' = {}
        BY <1>0, <2>1, <3>2
        DEF Cycle, BeginJob, FetchLocal, FetchExchange, Halt, NextCycle, Corrected,
            CorrectionFails, Happens
      <3>4. OneLiveRun'
        BY <1>0, <2>0, <3>1, <3>2 DEF StopsOrderly, OneLiveRun, Ended
      <3>5. ReadersKnown'
        BY <1>0, <2>0 DEF StopsOrderly, ReadersKnown
      <3>6. StoppedMeansEnding'
        BY <2>0, <3>2 DEF StoppedMeansEnding
      <3> QED
        BY <3>3, <3>4, <3>5, <3>6 DEF StopsOrderly
    <2>2. CASE World /\ UNCHANGED <<scheduler, late>>
      BY <1>0, <2>0, <2>2, ReadersEndInOrder
    <2> QED
      BY <1>5, <2>1, <2>2 DEF Scheduler
  <1>6. CASE UNCHANGED liveVars
    BY <1>0, <1>6, ReadersEndInOrder DEF liveVars, streamVars, tasks
  <1> QED
    BY <1>1, <1>2, <1>3, <1>4, <1>5, <1>6 DEF LiveNext, Orchestrator

(* After stop() has returned no message is handed on and no correction is  *)
(* begun, whatever the stream and the scheduler were doing when it was     *)
(* called, unless start() had been called a second time.                   *)
THEOREM NothingLate == LiveSpec => []NothingAfterStop
  <1>1. LiveOrderly => NothingAfterStop
    BY DEF LiveOrderly, NothingAfterStop
  <1> QED
    BY <1>1, InitTyped, NextTyped, InitOrderly, NextOrderly, PTL DEF LiveSpec

-----------------------------------------------------------------------------
(* The composition. *)

(* Whichever of the parts a behaviour is of, and with the whole runtime    *)
(* started at most once, the runtime, its stream, its scheduler and the    *)
(* session stay of their kinds.                                            *)
THEOREM TypeCorrect == Spec => []TypeOK
  <1>1. Init => LiveTypeOK /\ SessionTyped
    BY InitTyped, InitSession DEF Init
  <1>2. LiveTypeOK /\ SessionTyped /\ [Next]_vars => LiveTypeOK' /\ SessionTyped'
    <2> SUFFICES ASSUME LiveTypeOK, SessionTyped, [Next]_vars
                 PROVE  LiveTypeOK' /\ SessionTyped'
      OBVIOUS
    <2>1. [LiveNext]_liveVars /\ [SessionNext]_sessionVars
      BY DEF Next, Whole, Stream, Session, LiveNext, vars
    <2> QED
      BY <2>1, NextTyped, NextSession
  <1>3. LiveTypeOK /\ SessionTyped => TypeOK
    BY DEF SessionTyped, TypeOK
  <1> QED
    BY <1>1, <1>2, <1>3, PTL DEF Spec
=============================================================================
