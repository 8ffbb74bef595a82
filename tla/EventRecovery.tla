---------------------------- MODULE EventRecovery ----------------------------
(***************************************************************************)
(* The event log, the checkpoint and recover() of ver9/runtime/recovery,   *)
(* under a live runtime that appends what the exchange sends, is killed    *)
(* and started again.                                                      *)
(*                                                                         *)
(* An event is stamped with the update id "u" of its payload or, without   *)
(* one, with the count of messages this process has read.  The log is a    *)
(* file of lines: a kill within a write leaves a line no replay can parse, *)
(* or one without its end, to which the next append is glued; of an event  *)
(* without its key replay raises KeyError.                                 *)
(***************************************************************************)
EXTENDS Naturals, Sequences, FiniteSets

CONSTANTS
  Orders, Fills,
  Assets,       \* what BALANCE_UPDATE and POSITION_UPDATED are about
  MaxEvents,    \* bound: messages the exchange sends
  MaxStarts     \* bound: starts of the runtime

ASSUME RecoveryAssumption == MaxEvents \in Nat /\ MaxStarts \in Nat

VARIABLES
  eventLog,     \* the lines of runtime_event_log.jsonl
  lineOpen,     \* the last line has no newline
  checkpoint,   \* what runtime_checkpoint.json holds
  sequence,     \* _sequence of the websocket client
  up,           \* the runtime is started
  starts,       \* counter for MaxStarts
  clock,        \* messages the exchange has sent
  sent,         \* the orders and fills it has told of
  truth,        \* history: the state the logged events lead to, as they came
  cuts          \* history: the writes a kill has cut, and "incomplete" events

durable == <<eventLog, lineOpen, checkpoint>>
recoveryVars == <<durable, sequence, up, starts, clock, sent, truth, cuts>>

(* What cannot be read back: replay raises on such a line. *)
Torn == [type |-> "torn"]
NoCheckpoint == [type |-> "none"]

(* The event types replay knows; the value of an update is its timestamp.  *)
EventKinds ==
  ({"ORDER_OPENED", "ORDER_CLOSED"} \X Orders) \cup ({"FILL_RECEIVED"} \X Fills)
    \cup ({"UPDATED"} \X Assets)

(* _normalize_event: payload "u", numbers far above any message count, or  *)
(* runtime_sequence.                                                       *)
EventOf(kind, venue) ==
  [type |-> kind[1], key |-> kind[2], timestamp |-> clock + 1,
   sequence |-> IF venue THEN MaxEvents + clock + 1 ELSE sequence + 1,
   venue |-> venue, life |-> starts]

EmptyState == [latest |-> [a \in Assets |-> 0], orders |-> {}, fills |-> {}]

(* _apply_event *)
Apply(state, e) ==
  CASE e.type = "ORDER_OPENED"  -> [state EXCEPT !.orders = @ \cup {e.key}]
    [] e.type = "ORDER_CLOSED"  -> [state EXCEPT !.orders = @ \ {e.key}]
    [] e.type = "FILL_RECEIVED" -> [state EXCEPT !.fills = @ \cup {e.key}]
    [] e.type = "UPDATED"       -> [state EXCEPT !.latest[e.key] = e.timestamp]

-----------------------------------------------------------------------------
(* What recover() makes of the two files. *)

LogReadable == \A i \in DOMAIN eventLog : eventLog[i] # Torn
Readable == LogReadable /\ checkpoint # Torn

Logged == {eventLog[i] : i \in DOMAIN eventLog}

(* sorted by (sequence, timestamp); no two events share a timestamp *)
Before(a, b) ==
  \/ a.sequence < b.sequence
  \/ a.sequence = b.sequence /\ a.timestamp < b.timestamp

(* The last of the sorted events among some of them. *)
LastOf(events) == CHOOSE e \in events : \A f \in events \ {e} : Before(f, e)

(* rebuild_from_events: of the events about one order or asset the last in *)
(* that order counts, of a fill any.                                       *)
Rebuilt ==
  LET About(types, k) == {e \in Logged : e.type \in types /\ e.key = k}
      Fate(o) == About({"ORDER_OPENED", "ORDER_CLOSED"}, o)
      Figures(a) == About({"UPDATED"}, a)
  IN [latest |-> [a \in Assets |->
                    IF Figures(a) = {} THEN 0 ELSE LastOf(Figures(a)).timestamp],
      orders |-> {o \in Orders : /\ Fate(o) # {}
                                 /\ LastOf(Fate(o)).type = "ORDER_OPENED"},
      fills  |-> {f \in Fills : About({"FILL_RECEIVED"}, f) # {}}]

(* Faulty: the checkpoint is put over what was rebuilt. *)
CheckpointLast ==
  LET base == IF checkpoint = NoCheckpoint THEN Rebuilt ELSE checkpoint
  IN [latest |-> base.latest, orders |-> base.orders \cup Rebuilt.orders,
      fills |-> base.fills \cup Rebuilt.fills]

(* recover(): dict.update of the checkpoint with what all events rebuild   *)
Recovered ==
  LET base == IF checkpoint = NoCheckpoint THEN EmptyState ELSE checkpoint
  IN [latest |-> [a \in Assets |-> IF Rebuilt.latest[a] # 0 THEN Rebuilt.latest[a]
                                   ELSE base.latest[a]],
      orders |-> base.orders \cup Rebuilt.orders,
      fills  |-> base.fills \cup Rebuilt.fills]

-----------------------------------------------------------------------------
RecoveryInit ==
  /\ eventLog = <<>> /\ lineOpen = FALSE /\ checkpoint = NoCheckpoint
  /\ sequence = 0 /\ up = FALSE /\ starts = 0
  /\ clock = 0 /\ sent = {} /\ truth = EmptyState /\ cuts = {}

(* start(): recover() raises on a file it cannot read, and of what it      *)
(* returns only the number of events is kept.                              *)
StartRuntime ==
  /\ ~up /\ starts < MaxStarts /\ Readable
  /\ up' = TRUE /\ sequence' = 0 /\ starts' = starts + 1
  /\ UNCHANGED <<durable, clock, sent, truth, cuts>>

Kill ==
  /\ up /\ up' = FALSE
  /\ UNCHANGED <<durable, sequence, starts, clock, sent, truth, cuts>>

(* What the exchange may send next: it opens an order before it closes it. *)
Sends(kind) ==
  /\ clock < MaxEvents
  /\ kind[1] = "UPDATED" \/ kind \notin sent
  /\ kind[1] = "ORDER_CLOSED" => <<"ORDER_OPENED", kind[2]>> \in sent

(* Faulty: the lines are written without their newline. *)
WriteUnended(line, ended) ==
  /\ eventLog' = IF lineOpen THEN [eventLog EXCEPT ![Len(eventLog)] = Torn]
                 ELSE Append(eventLog, line)
  /\ lineOpen' = TRUE

(* What append writes goes to the end of the file. *)
WriteLine(line, ended) ==
  /\ eventLog' = IF lineOpen THEN [eventLog EXCEPT ![Len(eventLog)] = Torn]
                 ELSE Append(eventLog, line)
  /\ lineOpen' = ~ended

(* A message is read, numbered, normalized, routed and appended without an *)
(* await that waits.                                                       *)
HandleEvent(kind, venue) ==
  /\ up /\ Sends(kind)
  /\ clock' = clock + 1 /\ sent' = sent \cup {kind}
  /\ sequence' = sequence + 1
  /\ WriteLine(EventOf(kind, venue), TRUE)
  /\ truth' = Apply(truth, EventOf(kind, venue))
  /\ UNCHANGED <<checkpoint, up, starts, cuts>>

(* A message of a type replay knows, without the order_id, fill_id, asset  *)
(* or symbol _apply_event asks for: nothing looks at it before append.     *)
HandleIncomplete ==
  /\ up /\ clock < MaxEvents
  /\ clock' = clock + 1 /\ sequence' = sequence + 1
  /\ WriteLine(Torn, TRUE)
  /\ cuts' = cuts \cup {"incomplete"}
  /\ UNCHANGED <<checkpoint, up, starts, sent, truth>>

(* Killed in append: all of the line but its newline, a part, or nothing   *)
(* has reached the file.                                                   *)
KillInAppend(kind, venue) ==
  /\ up /\ Sends(kind)
  /\ clock' = clock + 1 /\ sent' = sent \cup {kind}
  /\ up' = FALSE
  /\ cuts' = cuts \cup {"append"}
  /\ \/ WriteLine(EventOf(kind, venue), FALSE) /\ truth' = Apply(truth, EventOf(kind, venue))
     \/ WriteLine(Torn, FALSE) /\ UNCHANGED truth
     \/ UNCHANGED <<eventLog, lineOpen, truth>>
  /\ UNCHANGED <<checkpoint, sequence, starts>>

(* The owner of the store saves what recover() gives it. *)
SaveCheckpoint ==
  /\ Readable
  /\ checkpoint' = Recovered
  /\ UNCHANGED <<eventLog, lineOpen, sequence, up, starts, clock, sent, truth, cuts>>

(* The file is truncated before it is written. *)
KillInSave ==
  /\ up /\ Readable
  /\ checkpoint' = Torn /\ up' = FALSE
  /\ cuts' = cuts \cup {"save"}
  /\ UNCHANGED <<eventLog, lineOpen, sequence, starts, clock, sent, truth>>

RecoveryNext ==
  \/ StartRuntime
  \/ Kill
  \/ \E kind \in EventKinds, venue \in BOOLEAN :
       HandleEvent(kind, venue) \/ KillInAppend(kind, venue)
  \/ HandleIncomplete
  \/ SaveCheckpoint
  \/ KillInSave

RecoverySpec == RecoveryInit /\ [][RecoveryNext]_recoveryVars

-----------------------------------------------------------------------------
Events ==
  [type : {"ORDER_OPENED", "ORDER_CLOSED", "FILL_RECEIVED", "UPDATED"},
   key : Orders \cup Fills \cup Assets, timestamp : Nat \ {0}, sequence : Nat \ {0},
   venue : BOOLEAN, life : Nat]

States == [latest : [Assets -> Nat], orders : SUBSET Orders, fills : SUBSET Fills]

RecoveryTypeOK ==
  /\ eventLog \in Seq(Events \cup {Torn}) /\ lineOpen \in BOOLEAN
  /\ checkpoint \in States \cup {NoCheckpoint, Torn}
  /\ sequence \in Nat /\ up \in BOOLEAN /\ starts \in 0 .. MaxStarts
  /\ clock \in 0 .. MaxEvents /\ sent \subseteq EventKinds /\ truth \in States
  /\ cuts \subseteq {"append", "save", "incomplete"}

(* Whatever is killed when, whichever stamp orders the events and however  *)
(* old the checkpoint is, a recovery that succeeds forgets no fill and no  *)
(* open order of any event whose append returned (recover, rebuild).       *)
RecoveryForgetsNothing ==
  Readable => truth.orders \subseteq Recovered.orders /\ truth.fills = Recovered.fills

(* Stamps of one process or of the venue agree with the order of arrival.  *)
Misordered(a, b) ==
  /\ a.timestamp < b.timestamp
  /\ ~(a.venue /\ b.venue) /\ ~(a.life = b.life /\ a.venue = b.venue)

Disputed(types, k) ==
  \E a, b \in {e \in Logged : e.type \in types /\ e.key = k} : Misordered(a, b)

(* What recover() gets wrong has a name: an order it returns although it  *)
(* is closed was open when the checkpoint was taken, or its opening and    *)
(* closing were stamped by different counters (a restarted process, or the *)
(* venue and the process); an outdated figure was stamped by two counters. *)
RecoveryErrorsHaveACause ==
  Readable =>
    /\ \A o \in Recovered.orders \ truth.orders :
         \/ checkpoint # NoCheckpoint /\ o \in checkpoint.orders
         \/ Disputed({"ORDER_OPENED", "ORDER_CLOSED"}, o)
    /\ \A a \in Assets :
         Recovered.latest[a] # truth.latest[a] => Disputed({"UPDATED"}, a)

(* What a restart begins with is what happened, up to errors with a cause. *)
RecoveryIsExplained == RecoveryForgetsNothing /\ RecoveryErrorsHaveACause

(* A start fails only after a kill within a write or an event without its  *)
(* key, and a log once torn stays torn: no later append, checkpoint or     *)
(* restart repairs it.                                                     *)
BlockedRecoveryHasACause ==
  [][/\ ~LogReadable' => cuts' \cap {"append", "incomplete"} # {}
     /\ checkpoint' = Torn => "save" \in cuts'
     /\ ~LogReadable => ~LogReadable']_recoveryVars
=============================================================================
