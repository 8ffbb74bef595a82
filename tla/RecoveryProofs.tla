----------------------------- MODULE RecoveryProofs -----------------------------
(***************************************************************************)
(* Theorems about what outlives a process, EventRecovery and RegistryFile, *)
(* and about the composition that MCRecovery checks.  None of them needs   *)
(* fairness.                                                               *)
(***************************************************************************)
EXTENDS MCRecovery, SessionProofs, SequenceTheorems

-----------------------------------------------------------------------------
(* EventRecovery: its types, that only a cut write or an incomplete event  *)
(* blocks a recovery, and that a recovery forgets nothing and errs only with a cause.  The        *)
(* invariant is about the set of logged events, not about the lines: as    *)
(* long as the log can be read, an append adds one event to it and nothing *)
(* else changes it (WritesOneEvent).                                       *)

(* The logged events of some types about one order, asset or fill.         *)
About(types, k) == {e \in Logged : e.type \in types /\ e.key = k}

Fates == {"ORDER_OPENED", "ORDER_CLOSED"}

(* An event is stamped no later than now; the exchange has sent it; of the *)
(* stamps of the running process none exceeds its counter.                 *)
StampsSoFar ==
  \A e \in Logged :
    /\ e.timestamp <= clock /\ e.life <= starts
    /\ <<e.type, e.key>> \in sent
    /\ e.venue = TRUE => e.sequence = MaxEvents + e.timestamp
    /\ up /\ e.venue = FALSE /\ e.life = starts => e.sequence <= sequence

(* Two events never share a timestamp, and unless they are misordered the  *)
(* sequence tells which came first.                                        *)
StampsTellOrder ==
  \A a, b \in Logged :
    /\ a.timestamp = b.timestamp => a = b
    /\ a.timestamp < b.timestamp => a.sequence < b.sequence \/ Misordered(a, b)

OpenedBeforeClosed ==
  \A a, b \in Logged :
    a.type = "ORDER_OPENED" /\ b.type = "ORDER_CLOSED" /\ a.key = b.key
      => a.timestamp < b.timestamp

(* The sort of replay has a last event, whichever events it is given.      *)
HasLast(events) == \E e \in events : \A f \in events \ {e} : Before(f, e)
EveryPartHasALast == \A events \in SUBSET Logged : events # {} => HasLast(events)

(* What the logged events led to, in terms of the events.                  *)
TruthIsLogged ==
  /\ \A f \in Fills : f \in truth.fills <=> About({"FILL_RECEIVED"}, f) # {}
  /\ \A o \in Orders :
       o \in truth.orders <=> /\ About({"ORDER_OPENED"}, o) # {}
                              /\ About({"ORDER_CLOSED"}, o) = {}
  /\ \A a \in Assets :
       /\ truth.latest[a] = 0 => About({"UPDATED"}, a) = {}
       /\ truth.latest[a] # 0 =>
            \E e \in About({"UPDATED"}, a) : e.timestamp = truth.latest[a]
       /\ \A e \in About({"UPDATED"}, a) : e.timestamp <= truth.latest[a]

(* A checkpoint holds nothing that no logged event is about.               *)
CheckpointIsLogged ==
  checkpoint \in States =>
    /\ \A f \in checkpoint.fills : About({"FILL_RECEIVED"}, f) # {}
    /\ \A a \in Assets : checkpoint.latest[a] # 0 => About({"UPDATED"}, a) # {}

SentInOrder ==
  \A o \in Orders : <<"ORDER_CLOSED", o>> \in sent => <<"ORDER_OPENED", o>> \in sent

LogFaithful ==
  /\ StampsSoFar /\ StampsTellOrder /\ OpenedBeforeClosed /\ EveryPartHasALast
  /\ TruthIsLogged /\ CheckpointIsLogged

CutsExplain ==
  /\ lineOpen => eventLog # <<>>
  /\ lineOpen => "append" \in cuts
  /\ ~LogReadable => cuts \cap {"append", "incomplete"} # {}
  /\ checkpoint = Torn => "save" \in cuts

RecoveryInv ==
  /\ RecoveryTypeOK
  /\ SentInOrder
  /\ CutsExplain
  /\ LogReadable => LogFaithful

-----------------------------------------------------------------------------
(* The log, the event and the sort. *)

(* What the exchange sends: a type and what it is about.                   *)
LEMMA KindsTold ==
  ASSUME NEW kind \in EventKinds
  PROVE  /\ kind = <<kind[1], kind[2]>>
         /\ \/ kind[1] \in Fates /\ kind[2] \in Orders
            \/ kind[1] = "FILL_RECEIVED" /\ kind[2] \in Fills
            \/ kind[1] = "UPDATED" /\ kind[2] \in Assets
  BY DEF EventKinds, Fates

LEMMA EventTyped ==
  ASSUME RecoveryTypeOK, NEW kind \in EventKinds, NEW venue \in BOOLEAN
  PROVE  /\ EventOf(kind, venue) \in Events
         /\ EventOf(kind, venue).type = kind[1]
         /\ EventOf(kind, venue).key = kind[2]
         /\ EventOf(kind, venue).timestamp = clock + 1
         /\ EventOf(kind, venue).life = starts
         /\ EventOf(kind, venue).venue = venue
         /\ venue => EventOf(kind, venue).sequence = MaxEvents + clock + 1
         /\ ~venue => EventOf(kind, venue).sequence = sequence + 1
  BY KindsTold, RecoveryAssumption DEF EventOf, Events, RecoveryTypeOK, Fates

LEMMA EventsAreNotTorn == Torn \notin Events
  BY DEF Torn, Events

LEMMA StatesAreNotTorn == Torn \notin States /\ NoCheckpoint \notin States /\ Torn # NoCheckpoint
  <1>1. ASSUME NEW s \in States PROVE s # Torn /\ s # NoCheckpoint
    <2>1. "orders" \in DOMAIN s /\ "orders" \notin DOMAIN Torn
                                /\ "orders" \notin DOMAIN NoCheckpoint
      BY DEF States, Torn, NoCheckpoint
    <2> QED
      BY <2>1
  <1>2. Torn.type # NoCheckpoint.type
    BY DEF Torn, NoCheckpoint
  <1> QED
    BY <1>1, <1>2

LEMMA LoggedAreEvents ==
  ASSUME RecoveryTypeOK, LogReadable
  PROVE  Logged \subseteq Events
  BY DEF RecoveryTypeOK, LogReadable, Logged

(* Written to a line of its own, the line is one more; glued to a line     *)
(* without end, it makes that line torn for good.                          *)
LEMMA WritesOneEvent ==
  ASSUME RecoveryTypeOK, lineOpen => eventLog # <<>>,
         NEW line \in Events \cup {Torn}, NEW ended \in BOOLEAN,
         WriteLine(line, ended)
  PROVE  /\ eventLog' \in Seq(Events \cup {Torn}) /\ lineOpen' \in BOOLEAN
         /\ eventLog' # <<>>
         /\ LogReadable' => /\ LogReadable /\ line # Torn
                            /\ Logged' = Logged \cup {line}
         /\ ~LogReadable' => ~LogReadable \/ lineOpen \/ line = Torn
         /\ lineOpen' => ~ended
  <1> DEFINE Lines == Events \cup {Torn}
  <1>1. eventLog \in Seq(Lines) /\ lineOpen \in BOOLEAN
    BY DEF RecoveryTypeOK
  <1>2. lineOpen' \in BOOLEAN /\ (lineOpen' => ~ended)
    BY DEF WriteLine
  <1>3. CASE lineOpen
    <2>1. eventLog' = [eventLog EXCEPT ![Len(eventLog)] = Torn]
      BY <1>3 DEF WriteLine
    <2>2. Len(eventLog) \in DOMAIN eventLog
      BY <1>1, <1>3
    <2>3. eventLog' \in Seq(Lines) /\ ~LogReadable' /\ eventLog' # <<>>
      BY <1>1, <2>1, <2>2 DEF LogReadable
    <2> QED
      BY <1>2, <1>3, <2>3
  <1>4. CASE ~lineOpen
    <2>1. eventLog' = Append(eventLog, line)
      BY <1>4 DEF WriteLine
    <2>2. /\ eventLog' \in Seq(Lines) /\ eventLog' # <<>>
          /\ DOMAIN eventLog' = DOMAIN eventLog \cup {Len(eventLog) + 1}
          /\ \A i \in DOMAIN eventLog : eventLog'[i] = eventLog[i]
          /\ eventLog'[Len(eventLog) + 1] = line
      BY <1>1, <2>1
    <2>3. Logged' = Logged \cup {line}
      BY <2>2 DEF Logged
    <2>4. LogReadable' <=> LogReadable /\ line # Torn
      BY <2>2 DEF LogReadable
    <2> QED
      BY <1>2, <2>2, <2>3, <2>4
  <1> QED
    BY <1>3, <1>4

LEMMA LastIsLast ==
  ASSUME NEW events, HasLast(events)
  PROVE  /\ LastOf(events) \in events
         /\ \A f \in events \ {LastOf(events)} : Before(f, LastOf(events))
  BY DEF LastOf, HasLast

(* What recover() returns: of the logged events about an order or an asset *)
(* the last counts, and the checkpoint where there is none.                *)
LEMMA WhatIsRecovered ==
  ASSUME RecoveryTypeOK, Readable, EveryPartHasALast
  PROVE  LET checkpointed == checkpoint # NoCheckpoint
         IN /\ Recovered \in States
            /\ checkpointed => checkpoint \in States
            /\ \A f \in Fills : f \in Recovered.fills <=>
                 About({"FILL_RECEIVED"}, f) # {} \/ (checkpointed /\ f \in checkpoint.fills)
            /\ \A o \in Orders : o \in Recovered.orders <=>
                 \/ About(Fates, o) # {} /\ LastOf(About(Fates, o)).type = "ORDER_OPENED"
                 \/ checkpointed /\ o \in checkpoint.orders
            /\ \A a \in Assets : Recovered.latest[a] =
                 IF About({"UPDATED"}, a) # {} THEN LastOf(About({"UPDATED"}, a)).timestamp
                 ELSE IF checkpointed THEN checkpoint.latest[a] ELSE 0
  <1> DEFINE Figures(a) == About({"UPDATED"}, a)
  <1>1. Logged \subseteq Events
    BY LoggedAreEvents DEF Readable
  <1>2. /\ Rebuilt.latest = [a \in Assets |->
                               IF Figures(a) = {} THEN 0 ELSE LastOf(Figures(a)).timestamp]
        /\ Rebuilt.orders = {o \in Orders : /\ About(Fates, o) # {}
                                            /\ LastOf(About(Fates, o)).type = "ORDER_OPENED"}
        /\ Rebuilt.fills = {f \in Fills : About({"FILL_RECEIVED"}, f) # {}}
    BY Zenon DEF Rebuilt, About, Fates
  <1>3. ASSUME NEW a \in Assets, Figures(a) # {}
        PROVE  LastOf(Figures(a)).timestamp \in Nat \ {0}
    <2>1. HasLast(Figures(a))
      BY <1>3 DEF EveryPartHasALast, About
    <2>2. LastOf(Figures(a)) \in Events
      BY <1>1, <2>1, LastIsLast DEF About
    <2> QED
      BY <2>2 DEF Events
  <1>4. Rebuilt.latest \in [Assets -> Nat]
    BY <1>2, <1>3
  <1> DEFINE base == IF checkpoint = NoCheckpoint THEN EmptyState ELSE checkpoint
  <1>5. base \in States /\ (checkpoint # NoCheckpoint => checkpoint \in States)
    BY DEF RecoveryTypeOK, Readable, EmptyState, States
  <1>6. Recovered = [latest |-> [a \in Assets |-> IF Rebuilt.latest[a] # 0 THEN Rebuilt.latest[a]
                                                  ELSE base.latest[a]],
                     orders |-> base.orders \cup Rebuilt.orders,
                     fills  |-> base.fills \cup Rebuilt.fills]
    BY Zenon DEF Recovered
  <1> HIDE DEF base
  <1>7. Recovered \in States
    BY <1>2, <1>4, <1>5, <1>6 DEF States
  <1>8. /\ \A f \in Fills : f \in Recovered.fills <=>
             About({"FILL_RECEIVED"}, f) # {} \/ f \in base.fills
        /\ \A o \in Orders : o \in Recovered.orders <=>
             \/ About(Fates, o) # {} /\ LastOf(About(Fates, o)).type = "ORDER_OPENED"
             \/ o \in base.orders
    BY <1>2, <1>6
  <1>9. \A a \in Assets : Recovered.latest[a] =
          IF Figures(a) # {} THEN LastOf(Figures(a)).timestamp ELSE base.latest[a]
    BY <1>2, <1>3, <1>6
  <1> QED
    BY <1>5, <1>7, <1>8, <1>9 DEF base, EmptyState

-----------------------------------------------------------------------------
(* One more event in the log. *)

LEMMA OneMoreAbout ==
  ASSUME NEW e, Logged' = Logged \cup {e}, NEW types, NEW k
  PROVE  About(types, k)' = About(types, k)
                              \cup (IF e.type \in types /\ e.key = k THEN {e} ELSE {})
  BY DEF About

LEMMA OneMoreStamped ==
  ASSUME RecoveryInv, LogReadable,
         NEW kind \in EventKinds, NEW venue \in BOOLEAN, Sends(kind),
         Logged' = Logged \cup {EventOf(kind, venue)},
         clock' = clock + 1, sent' = sent \cup {kind}, starts' = starts,
         up, sequence' = sequence + 1 \/ ~up'
  PROVE  StampsSoFar' /\ StampsTellOrder' /\ OpenedBeforeClosed' /\ EveryPartHasALast'
  <1> DEFINE e == EventOf(kind, venue)
  <1>1. /\ e \in Events /\ e.type = kind[1] /\ e.key = kind[2] /\ e.timestamp = clock + 1
        /\ e.life = starts /\ e.venue = venue
        /\ venue => e.sequence = MaxEvents + clock + 1
        /\ ~venue => e.sequence = sequence + 1
    BY EventTyped DEF RecoveryInv
  <1> HIDE DEF e
  <1>2. Logged \subseteq Events /\ clock \in Nat /\ sequence \in Nat /\ starts \in Nat
                                /\ MaxEvents \in Nat /\ up \in BOOLEAN
    BY LoggedAreEvents, RecoveryAssumption DEF RecoveryInv, RecoveryTypeOK
  <1>3. StampsSoFar /\ StampsTellOrder /\ OpenedBeforeClosed /\ EveryPartHasALast
    BY DEF RecoveryInv, LogFaithful
  <1> DEFINE Stamped(x) == /\ x.timestamp \in Nat /\ x.sequence \in Nat /\ x.life \in Nat
                           /\ x.venue \in BOOLEAN
  <1>4. \A x \in Logged : Stamped(x) /\ x.timestamp < e.timestamp
    <2>1. \A x \in Events : Stamped(x)
      BY DEF Events
    <2>2. \A x \in Logged : x.timestamp <= clock
      BY <1>3 DEF StampsSoFar
    <2> QED
      BY <1>1, <1>2, <2>1, <2>2
  <1>5. Logged' = Logged \cup {e}
    BY DEF e
  <1>6. StampsSoFar'
    <2> SUFFICES ASSUME NEW x \in Logged \cup {e}
                 PROVE  /\ x.timestamp <= clock' /\ x.life <= starts'
                        /\ <<x.type, x.key>> \in sent'
                        /\ x.venue = TRUE => x.sequence = MaxEvents + x.timestamp
                        /\ up' /\ x.venue = FALSE /\ x.life = starts' => x.sequence <= sequence'
      BY <1>5, Zenon DEF StampsSoFar
    <2>1. CASE x = e
      <3>1. <<e.type, e.key>> = kind
        BY <1>1, KindsTold
      <3>2. e.timestamp <= clock + 1 /\ e.life <= starts
        BY <1>1, <1>2
      <3>3. e.venue = TRUE => e.sequence = MaxEvents + e.timestamp
        BY <1>1, <1>2
      <3>4. up' /\ e.venue = FALSE => e.sequence <= sequence'
        BY <1>1, <1>2
      <3> QED
        BY <2>1, <3>1, <3>2, <3>3, <3>4
    <2>2. CASE x \in Logged
      <3>1. /\ x.timestamp <= clock /\ x.life <= starts
            /\ <<x.type, x.key>> \in sent
            /\ x.venue = TRUE => x.sequence = MaxEvents + x.timestamp
            /\ up /\ x.venue = FALSE /\ x.life = starts => x.sequence <= sequence
        BY <1>3, <2>2, Zenon DEF StampsSoFar
      <3>2. Stamped(x)
        BY <1>4, <2>2
      <3>3. x.timestamp <= clock'
        BY <1>2, <3>1, <3>2
      <3>4. up' /\ x.venue = FALSE /\ x.life = starts' => x.sequence <= sequence'
        BY <1>2, <3>1, <3>2
      <3> QED
        BY <3>1, <3>3, <3>4
    <2> QED
      BY <2>1, <2>2
  <1>7. ASSUME NEW x \in Logged
        PROVE  x.sequence < e.sequence \/ Misordered(x, e)
    <2>1. Stamped(x) /\ x.timestamp < e.timestamp
      BY <1>4
    <2>2. CASE venue /\ x.venue = TRUE
      <3>1. x.sequence = MaxEvents + x.timestamp
        BY <1>3, <2>2, Zenon DEF StampsSoFar
      <3> QED
        BY <1>1, <1>2, <2>1, <2>2, <3>1
    <2>3. CASE ~venue /\ x.venue = FALSE /\ x.life = starts
      <3>1. x.sequence <= sequence
        BY <1>3, <2>3, Zenon DEF StampsSoFar
      <3> QED
        BY <1>1, <1>2, <2>1, <2>3, <3>1
    <2> QED
      BY <1>1, <2>1, <2>2, <2>3 DEF Misordered
  <1>8. StampsTellOrder'
    <2> SUFFICES ASSUME NEW a \in Logged \cup {e}, NEW b \in Logged \cup {e}
                 PROVE  /\ a.timestamp = b.timestamp => a = b
                        /\ a.timestamp < b.timestamp => a.sequence < b.sequence
                                                         \/ Misordered(a, b)
      BY <1>5 DEF StampsTellOrder, Misordered
    <2> QED
      BY <1>1, <1>2, <1>3, <1>4, <1>7 DEF StampsTellOrder
  <1>9. OpenedBeforeClosed'
    <2> SUFFICES ASSUME NEW a \in Logged \cup {e}, NEW b \in Logged \cup {e},
                        a.type = "ORDER_OPENED", b.type = "ORDER_CLOSED", a.key = b.key
                 PROVE  a.timestamp < b.timestamp
      BY <1>5 DEF OpenedBeforeClosed
    <2>1. CASE a = e
      <3>1. kind = <<"ORDER_OPENED", e.key>> /\ e.key \in Orders
        BY <1>1, <2>1, KindsTold DEF Fates
      <3>2. b \in Logged /\ <<"ORDER_CLOSED", e.key>> \in sent
        BY <1>1, <1>3, <2>1 DEF StampsSoFar
      <3>3. kind \in sent
        BY <3>1, <3>2 DEF RecoveryInv, SentInOrder
      <3> QED
        BY <3>1, <3>3 DEF Sends
    <2>2. CASE a # e
      BY <1>1, <1>3, <1>4, <2>2 DEF OpenedBeforeClosed
    <2> QED
      BY <2>1, <2>2
  <1>10. EveryPartHasALast'
    <2> SUFFICES ASSUME NEW events \in SUBSET (Logged \cup {e}), events # {}
                 PROVE  HasLast(events)
      BY <1>5 DEF EveryPartHasALast, HasLast, Before
    <2>1. CASE events \ {e} = {}
      BY <2>1 DEF HasLast
    <2>2. CASE events \ {e} # {}
      <3>1. HasLast(events \ {e})
        BY <1>3, <2>2 DEF EveryPartHasALast
      <3>2. PICK l \in events \ {e} : \A f \in (events \ {e}) \ {l} : Before(f, l)
        BY <3>1 DEF HasLast
      <3>3. CASE e \notin events \/ Before(e, l)
        BY <3>2, <3>3 DEF HasLast
      <3>4. CASE e \in events /\ ~Before(e, l)
        <4>1. l.sequence \in Nat /\ e.sequence \in Nat /\ l.timestamp < e.timestamp
          BY <1>1, <1>4 DEF Events
        <4>2. Before(l, e)
          BY <1>1, <1>4, <3>4, <4>1 DEF Before, Events
        <4>3. \A f \in events \ {e} : f.sequence \in Nat /\ f.timestamp \in Nat
          BY <1>4
        <4>4. \A f \in events \ {e} : Before(f, e)
          BY <1>1, <1>4, <3>2, <4>1, <4>2, <4>3 DEF Before, Events
        <4> QED
          BY <3>4, <4>4 DEF HasLast
      <3> QED
        BY <3>3, <3>4
    <2> QED
      BY <2>1, <2>2
  <1> QED
    BY <1>6, <1>8, <1>9, <1>10

(* _apply_event, an order, a fill and a figure at a time.                  *)
LEMMA WhatApplyDoes ==
  ASSUME NEW state \in States, NEW e \in Events, <<e.type, e.key>> \in EventKinds
  PROVE  /\ Apply(state, e) \in States
         /\ \A f \in Fills : f \in Apply(state, e).fills <=>
              f \in state.fills \/ (e.type = "FILL_RECEIVED" /\ e.key = f)
         /\ \A o \in Orders : o \in Apply(state, e).orders <=>
              IF e.type \in Fates /\ e.key = o THEN e.type = "ORDER_OPENED"
              ELSE o \in state.orders
         /\ \A a \in Assets : Apply(state, e).latest[a] =
              IF e.type = "UPDATED" /\ e.key = a THEN e.timestamp ELSE state.latest[a]
  <1>1. \/ e.type \in Fates /\ e.key \in Orders
        \/ e.type = "FILL_RECEIVED" /\ e.key \in Fills
        \/ e.type = "UPDATED" /\ e.key \in Assets
    BY DEF EventKinds, Fates
  <1>2. CASE e.type = "ORDER_OPENED"
    <2>1. Apply(state, e) = [state EXCEPT !.orders = @ \cup {e.key}]
      BY <1>2 DEF Apply
    <2> QED
      BY <1>1, <1>2, <2>1 DEF States, Fates
  <1>3. CASE e.type = "ORDER_CLOSED"
    <2>1. Apply(state, e) = [state EXCEPT !.orders = @ \ {e.key}]
      BY <1>3 DEF Apply
    <2> QED
      BY <1>1, <1>3, <2>1 DEF States, Fates
  <1>4. CASE e.type = "FILL_RECEIVED"
    <2>1. Apply(state, e) = [state EXCEPT !.fills = @ \cup {e.key}]
      BY <1>4 DEF Apply
    <2> QED
      BY <1>1, <1>4, <2>1 DEF States, Fates
  <1>5. CASE e.type = "UPDATED"
    <2>1. Apply(state, e) = [state EXCEPT !.latest[e.key] = e.timestamp]
      BY <1>5 DEF Apply
    <2>2. e.timestamp \in Nat
      BY DEF Events
    <2> QED
      BY <1>1, <1>5, <2>1, <2>2 DEF States, Fates
  <1> QED
    BY <1>1, <1>2, <1>3, <1>4, <1>5 DEF Fates

LEMMA OneMoreTold ==
  ASSUME RecoveryInv, LogReadable,
         NEW kind \in EventKinds, NEW venue \in BOOLEAN, Sends(kind),
         Logged' = Logged \cup {EventOf(kind, venue)},
         truth' = Apply(truth, EventOf(kind, venue)), checkpoint' = checkpoint
  PROVE  TruthIsLogged' /\ CheckpointIsLogged'
  <1> DEFINE e == EventOf(kind, venue)
  <1>1. e \in Events /\ e.type = kind[1] /\ e.key = kind[2] /\ e.timestamp = clock + 1
    BY EventTyped DEF RecoveryInv
  <1>2. truth' = Apply(truth, e) /\ Logged' = Logged \cup {e}
    OBVIOUS
  <1> HIDE DEF e
  <1>3. <<e.type, e.key>> = kind
    BY <1>1, KindsTold
  <1>4. truth \in States /\ clock \in Nat
    BY DEF RecoveryInv, RecoveryTypeOK
  <1>5. StampsSoFar /\ TruthIsLogged /\ CheckpointIsLogged
    BY DEF RecoveryInv, LogFaithful
  <1>6. \A types, k : About(types, k)' =
          About(types, k) \cup (IF e.type \in types /\ e.key = k THEN {e} ELSE {})
    BY <1>2, OneMoreAbout
  <1>7. /\ \A f \in Fills : f \in truth'.fills <=>
             f \in truth.fills \/ (e.type = "FILL_RECEIVED" /\ e.key = f)
        /\ \A o \in Orders : o \in truth'.orders <=>
             IF e.type \in Fates /\ e.key = o THEN e.type = "ORDER_OPENED"
             ELSE o \in truth.orders
        /\ \A a \in Assets : truth'.latest[a] =
             IF e.type = "UPDATED" /\ e.key = a THEN e.timestamp ELSE truth.latest[a]
    BY <1>1, <1>2, <1>3, <1>4, WhatApplyDoes
  <1>8. \A f \in Fills : f \in truth'.fills <=> About({"FILL_RECEIVED"}, f)' # {}
    BY <1>5, <1>6, <1>7 DEF TruthIsLogged
  <1>9. ASSUME NEW o \in Orders
        PROVE  o \in truth'.orders <=> /\ About({"ORDER_OPENED"}, o)' # {}
                                       /\ About({"ORDER_CLOSED"}, o)' = {}
    <2>1. o \in truth.orders <=> /\ About({"ORDER_OPENED"}, o) # {}
                                 /\ About({"ORDER_CLOSED"}, o) = {}
      BY <1>5 DEF TruthIsLogged
    <2>2. CASE e.type = "ORDER_OPENED" /\ e.key = o
      <3>1. kind = <<"ORDER_OPENED", o>> /\ kind \notin sent
        BY <1>3, <2>2 DEF Sends
      <3>2. <<"ORDER_CLOSED", o>> \notin sent
        BY <3>1 DEF RecoveryInv, SentInOrder
      <3>3. About({"ORDER_CLOSED"}, o) = {}
        BY <1>5, <3>2 DEF About, StampsSoFar
      <3> QED
        BY <1>6, <1>7, <2>2, <3>3 DEF Fates
    <2>3. CASE e.type = "ORDER_CLOSED" /\ e.key = o
      BY <1>6, <1>7, <2>3 DEF Fates
    <2>4. CASE ~(e.type \in Fates /\ e.key = o)
      BY <1>6, <1>7, <2>1, <2>4 DEF Fates
    <2> QED
      BY <2>2, <2>3, <2>4 DEF Fates
  <1>10. ASSUME NEW a \in Assets
         PROVE  /\ truth'.latest[a] = 0 => About({"UPDATED"}, a)' = {}
                /\ truth'.latest[a] # 0 =>
                     \E x \in About({"UPDATED"}, a)' : x.timestamp = truth'.latest[a]
                /\ \A x \in About({"UPDATED"}, a)' : x.timestamp <= truth'.latest[a]
    <2>1. /\ truth.latest[a] = 0 => About({"UPDATED"}, a) = {}
          /\ truth.latest[a] # 0 =>
               \E x \in About({"UPDATED"}, a) : x.timestamp = truth.latest[a]
          /\ \A x \in About({"UPDATED"}, a) : x.timestamp <= truth.latest[a]
      BY <1>5 DEF TruthIsLogged
    <2>2. CASE e.type = "UPDATED" /\ e.key = a
      <3>1. truth'.latest[a] = clock + 1 /\ About({"UPDATED"}, a)' = About({"UPDATED"}, a) \cup {e}
        BY <1>1, <1>6, <1>7, <2>2
      <3>2. \A x \in About({"UPDATED"}, a) : x.timestamp <= clock
        BY <1>5 DEF About, StampsSoFar
      <3>3. \A x \in About({"UPDATED"}, a) : x.timestamp \in Nat
        BY LoggedAreEvents DEF About, RecoveryInv, Events
      <3>4. \A x \in About({"UPDATED"}, a) : x.timestamp <= clock + 1
        BY <1>4, <3>2, <3>3
      <3> QED
        BY <1>1, <1>4, <3>1, <3>4
    <2>3. CASE ~(e.type = "UPDATED" /\ e.key = a)
      <3>1. truth'.latest[a] = truth.latest[a] /\ About({"UPDATED"}, a)' = About({"UPDATED"}, a)
        BY <1>6, <1>7, <2>3
      <3> QED
        BY <2>1, <3>1
    <2> QED
      BY <2>2, <2>3
  <1>11. TruthIsLogged'
    BY <1>8, <1>9, <1>10 DEF TruthIsLogged
  <1>12. CheckpointIsLogged'
    BY <1>5, <1>6 DEF CheckpointIsLogged
  <1> QED
    BY <1>11, <1>12

LEMMA OneMoreSent ==
  ASSUME RecoveryInv, NEW kind \in EventKinds, Sends(kind), sent' = sent \cup {kind}
  PROVE  SentInOrder'
  <1> SUFFICES ASSUME NEW o \in Orders, <<"ORDER_CLOSED", o>> \in sent \cup {kind}
               PROVE  <<"ORDER_OPENED", o>> \in sent \cup {kind}
    BY DEF SentInOrder
  <1>1. CASE kind = <<"ORDER_CLOSED", o>>
    BY <1>1 DEF Sends
  <1>2. CASE <<"ORDER_CLOSED", o>> \in sent
    BY <1>2 DEF RecoveryInv, SentInOrder
  <1> QED
    BY <1>1, <1>2

(* With the log as it is, time may pass and a process start or end.        *)
LEMMA NoMoreStamped ==
  ASSUME RecoveryInv, LogReadable, eventLog' = eventLog,
         clock' \in Nat, clock <= clock', sent \subseteq sent',
         starts' \in Nat, starts <= starts',
         up' => starts < starts' \/ (up /\ sequence' = sequence)
  PROVE  StampsSoFar' /\ StampsTellOrder' /\ OpenedBeforeClosed' /\ EveryPartHasALast'
  <1>1. Logged' = Logged
    BY DEF Logged
  <1>2. StampsSoFar /\ StampsTellOrder /\ OpenedBeforeClosed /\ EveryPartHasALast
    BY DEF RecoveryInv, LogFaithful
  <1>3. StampsTellOrder' /\ OpenedBeforeClosed' /\ EveryPartHasALast'
    BY <1>1, <1>2 DEF StampsTellOrder, OpenedBeforeClosed, EveryPartHasALast, HasLast, Before,
                      Misordered
  <1>4. clock \in Nat /\ starts \in Nat /\ Logged \subseteq Events
    BY LoggedAreEvents DEF RecoveryInv, RecoveryTypeOK
  <1>5. StampsSoFar'
    <2> SUFFICES ASSUME NEW x \in Logged
                 PROVE  /\ x.timestamp <= clock' /\ x.life <= starts'
                        /\ <<x.type, x.key>> \in sent'
                        /\ x.venue = TRUE => x.sequence = MaxEvents + x.timestamp
                        /\ up' /\ x.venue = FALSE /\ x.life = starts' => x.sequence <= sequence'
      BY <1>1, Zenon DEF StampsSoFar
    <2>1. /\ x.timestamp <= clock /\ x.life <= starts
          /\ <<x.type, x.key>> \in sent
          /\ x.venue = TRUE => x.sequence = MaxEvents + x.timestamp
          /\ up /\ x.venue = FALSE /\ x.life = starts => x.sequence <= sequence
      BY <1>2, Zenon DEF StampsSoFar
    <2>2. x.timestamp \in Nat /\ x.life \in Nat
      BY <1>4 DEF Events
    <2>3. x.timestamp <= clock' /\ x.life <= starts'
      BY <1>4, <2>1, <2>2
    <2>4. up' /\ x.venue = FALSE /\ x.life = starts' => x.sequence <= sequence'
      <3>1. CASE starts < starts'
        BY <1>4, <2>1, <2>2, <3>1
      <3>2. CASE up /\ sequence' = sequence
        BY <1>4, <2>1, <2>2, <3>2
      <3> QED
        BY <3>1, <3>2
    <2> QED
      BY <2>1, <2>3, <2>4
  <1> QED
    BY <1>3, <1>5

LEMMA NoMoreTold ==
  ASSUME RecoveryInv, LogReadable, eventLog' = eventLog, truth' = truth
  PROVE  TruthIsLogged' /\ (checkpoint' = checkpoint => CheckpointIsLogged')
  <1>1. \A types, k : About(types, k)' = About(types, k)
    BY DEF Logged, About
  <1>2. TruthIsLogged /\ CheckpointIsLogged
    BY DEF RecoveryInv, LogFaithful
  <1> QED
    BY <1>1, <1>2 DEF TruthIsLogged, CheckpointIsLogged

(* A checkpoint is saved of a log that can be read.                        *)
LEMMA SavedIsLogged ==
  ASSUME RecoveryInv, Readable, eventLog' = eventLog, checkpoint' = Recovered
  PROVE  checkpoint' \in States /\ CheckpointIsLogged'
  <1>1. RecoveryTypeOK /\ EveryPartHasALast /\ CheckpointIsLogged
    BY DEF RecoveryInv, LogFaithful, Readable
  <1>2. \A types, k : About(types, k)' = About(types, k)
    BY DEF Logged, About
  <1>3. checkpoint' \in States
    BY <1>1, WhatIsRecovered
  <1>4. \A f \in Fills : f \in Recovered.fills => About({"FILL_RECEIVED"}, f) # {}
    BY <1>1, WhatIsRecovered DEF CheckpointIsLogged
  <1>5. \A a \in Assets : Recovered.latest[a] # 0 => About({"UPDATED"}, a) # {}
    BY <1>1, WhatIsRecovered DEF CheckpointIsLogged
  <1>6. Recovered.fills \subseteq Fills
    BY <1>3 DEF States
  <1> QED
    BY <1>2, <1>3, <1>4, <1>5, <1>6 DEF CheckpointIsLogged

-----------------------------------------------------------------------------
(* The invariant, an action at a time. *)

LEMMA InitInv == RecoveryInit => RecoveryInv
  <1> SUFFICES ASSUME RecoveryInit PROVE RecoveryInv
    OBVIOUS
  <1>1. eventLog = <<>> /\ Logged = {} /\ LogReadable
    BY DEF RecoveryInit, Logged, LogReadable
  <1>2. \A types, k : About(types, k) = {}
    BY <1>1 DEF About
  <1>3. RecoveryTypeOK
    <2>1. EmptyState \in States
      BY DEF EmptyState, States
    <2>2. <<>> \in Seq(Events \cup {Torn}) /\ 0 \in 0 .. MaxStarts /\ 0 \in 0 .. MaxEvents
      BY RecoveryAssumption
    <2> QED
      BY <2>1, <2>2 DEF RecoveryInit, RecoveryTypeOK
  <1>4. NoCheckpoint # Torn /\ NoCheckpoint \notin States
    BY StatesAreNotTorn
  <1>5. SentInOrder /\ CutsExplain
    BY <1>1, <1>4 DEF RecoveryInit, SentInOrder, CutsExplain
  <1>6. StampsSoFar /\ StampsTellOrder /\ OpenedBeforeClosed /\ EveryPartHasALast
    BY <1>1 DEF StampsSoFar, StampsTellOrder, OpenedBeforeClosed, EveryPartHasALast
  <1>7. TruthIsLogged
    BY <1>2 DEF RecoveryInit, TruthIsLogged, EmptyState
  <1>8. CheckpointIsLogged
    BY <1>4 DEF RecoveryInit, CheckpointIsLogged
  <1> QED
    BY <1>3, <1>5, <1>6, <1>7, <1>8 DEF RecoveryInv, LogFaithful

LEMMA StartInv == RecoveryInv /\ StartRuntime => RecoveryInv'
  <1> SUFFICES ASSUME RecoveryInv, StartRuntime PROVE RecoveryInv'
    OBVIOUS
  <1>1. /\ eventLog' = eventLog /\ truth' = truth /\ checkpoint' = checkpoint
        /\ clock' = clock /\ sent' = sent /\ starts' = starts + 1 /\ lineOpen' = lineOpen
        /\ cuts' = cuts /\ up' = TRUE /\ sequence' = 0 /\ starts < MaxStarts
    BY DEF StartRuntime, durable
  <1>2. RecoveryTypeOK'
    BY <1>1, RecoveryAssumption DEF RecoveryInv, RecoveryTypeOK
  <1>3. SentInOrder' /\ CutsExplain' /\ LogReadable' = LogReadable
    BY <1>1 DEF RecoveryInv, SentInOrder, CutsExplain, LogReadable
  <1>4. clock' \in Nat /\ clock <= clock' /\ starts' \in Nat /\ starts < starts' /\ starts <= starts'
    BY <1>1 DEF RecoveryInv, RecoveryTypeOK
  <1>5. LogReadable => LogFaithful'
    BY <1>1, <1>4, NoMoreStamped, NoMoreTold DEF LogFaithful
  <1> QED
    BY <1>2, <1>3, <1>5 DEF RecoveryInv

LEMMA KillInv == RecoveryInv /\ Kill => RecoveryInv'
  <1> SUFFICES ASSUME RecoveryInv, Kill PROVE RecoveryInv'
    OBVIOUS
  <1>1. /\ eventLog' = eventLog /\ truth' = truth /\ checkpoint' = checkpoint
        /\ clock' = clock /\ sent' = sent /\ starts' = starts /\ lineOpen' = lineOpen
        /\ cuts' = cuts /\ up' = FALSE /\ sequence' = sequence
    BY DEF Kill, durable
  <1>2. RecoveryTypeOK'
    BY <1>1 DEF RecoveryInv, RecoveryTypeOK
  <1>3. SentInOrder' /\ CutsExplain' /\ LogReadable' = LogReadable
    BY <1>1 DEF RecoveryInv, SentInOrder, CutsExplain, LogReadable
  <1>4. clock' \in Nat /\ clock <= clock' /\ starts' \in Nat /\ starts <= starts'
    BY <1>1 DEF RecoveryInv, RecoveryTypeOK
  <1>5. LogReadable => LogFaithful'
    BY <1>1, <1>4, NoMoreStamped, NoMoreTold DEF LogFaithful
  <1> QED
    BY <1>2, <1>3, <1>5 DEF RecoveryInv

LEMMA SaveInv == RecoveryInv /\ SaveCheckpoint => RecoveryInv'
  <1> SUFFICES ASSUME RecoveryInv, SaveCheckpoint PROVE RecoveryInv'
    OBVIOUS
  <1>1. /\ eventLog' = eventLog /\ truth' = truth /\ checkpoint' = Recovered /\ Readable
        /\ clock' = clock /\ sent' = sent /\ starts' = starts /\ lineOpen' = lineOpen
        /\ cuts' = cuts /\ up' = up /\ sequence' = sequence
    BY DEF SaveCheckpoint
  <1>2. checkpoint' \in States /\ CheckpointIsLogged' /\ LogReadable
    BY <1>1, SavedIsLogged DEF Readable
  <1>3. RecoveryTypeOK'
    BY <1>1, <1>2 DEF RecoveryInv, RecoveryTypeOK
  <1>4. checkpoint' # Torn
    BY <1>2, StatesAreNotTorn
  <1>5. SentInOrder' /\ CutsExplain' /\ LogReadable' = LogReadable
    BY <1>1, <1>4 DEF RecoveryInv, SentInOrder, CutsExplain, LogReadable
  <1>6. clock' \in Nat /\ clock <= clock' /\ starts' \in Nat /\ starts <= starts'
    BY <1>1 DEF RecoveryInv, RecoveryTypeOK
  <1>7. LogFaithful'
    BY <1>1, <1>2, <1>6, NoMoreStamped, NoMoreTold DEF LogFaithful
  <1> QED
    BY <1>3, <1>5, <1>7 DEF RecoveryInv

LEMMA KillInSaveInv == RecoveryInv /\ KillInSave => RecoveryInv'
  <1> SUFFICES ASSUME RecoveryInv, KillInSave PROVE RecoveryInv'
    OBVIOUS
  <1>1. /\ eventLog' = eventLog /\ truth' = truth /\ checkpoint' = Torn
        /\ clock' = clock /\ sent' = sent /\ starts' = starts /\ lineOpen' = lineOpen
        /\ cuts' = cuts \cup {"save"} /\ up' = FALSE /\ sequence' = sequence
    BY DEF KillInSave
  <1>2. RecoveryTypeOK'
    BY <1>1 DEF RecoveryInv, RecoveryTypeOK
  <1>3. SentInOrder' /\ CutsExplain' /\ LogReadable' = LogReadable
    BY <1>1 DEF RecoveryInv, SentInOrder, CutsExplain, LogReadable
  <1>4. clock' \in Nat /\ clock <= clock' /\ starts' \in Nat /\ starts <= starts'
    BY <1>1 DEF RecoveryInv, RecoveryTypeOK
  <1>5. CheckpointIsLogged'
    BY <1>1, StatesAreNotTorn DEF CheckpointIsLogged
  <1>6. LogReadable => LogFaithful'
    BY <1>1, <1>4, <1>5, NoMoreStamped, NoMoreTold DEF LogFaithful
  <1> QED
    BY <1>2, <1>3, <1>6 DEF RecoveryInv

LEMMA HandleInv ==
  ASSUME RecoveryInv, NEW kind \in EventKinds, NEW venue \in BOOLEAN, HandleEvent(kind, venue)
  PROVE  RecoveryInv'
  <1> DEFINE e == EventOf(kind, venue)
  <1>1. /\ up /\ Sends(kind) /\ clock' = clock + 1 /\ sent' = sent \cup {kind}
        /\ sequence' = sequence + 1 /\ WriteLine(e, TRUE) /\ truth' = Apply(truth, e)
        /\ checkpoint' = checkpoint /\ up' = up /\ starts' = starts /\ cuts' = cuts
    BY DEF HandleEvent
  <1>2. e \in Events /\ <<e.type, e.key>> = kind
    BY EventTyped, KindsTold DEF RecoveryInv
  <1>3. /\ eventLog' \in Seq(Events \cup {Torn}) /\ lineOpen' = FALSE
        /\ LogReadable' => LogReadable /\ Logged' = Logged \cup {e}
        /\ ~LogReadable' => ~LogReadable \/ lineOpen
    <2>1. e # Torn
      BY <1>2, EventsAreNotTorn
    <2> QED
      BY <1>1, <1>2, <2>1, WritesOneEvent DEF RecoveryInv, CutsExplain
  <1>4. RecoveryTypeOK'
    <2>1. truth' \in States
      BY <1>1, <1>2, WhatApplyDoes DEF RecoveryInv, RecoveryTypeOK
    <2>2. clock' \in 0 .. MaxEvents
      BY <1>1, RecoveryAssumption DEF RecoveryInv, RecoveryTypeOK, Sends
    <2>3. sequence' \in Nat /\ sent' \subseteq EventKinds
      BY <1>1 DEF RecoveryInv, RecoveryTypeOK
    <2>4. lineOpen' \in BOOLEAN /\ RecoveryTypeOK
      BY <1>3 DEF RecoveryInv
    <2> HIDE DEF e
    <2> QED
      BY <1>1, <1>3, <2>1, <2>2, <2>3, <2>4 DEF RecoveryTypeOK
  <1>5. SentInOrder'
    BY <1>1, OneMoreSent
  <1>6. CutsExplain'
    BY <1>1, <1>3 DEF RecoveryInv, CutsExplain
  <1>7. LogReadable' => LogFaithful'
    BY <1>1, <1>3, OneMoreStamped, OneMoreTold DEF LogFaithful
  <1> QED
    BY <1>4, <1>5, <1>6, <1>7 DEF RecoveryInv

LEMMA HandleIncompleteInv == RecoveryInv /\ HandleIncomplete => RecoveryInv'
  <1> SUFFICES ASSUME RecoveryInv, HandleIncomplete PROVE RecoveryInv'
    OBVIOUS
  <1>1. /\ clock < MaxEvents /\ clock' = clock + 1 /\ sequence' = sequence + 1
        /\ WriteLine(Torn, TRUE) /\ cuts' = cuts \cup {"incomplete"} /\ truth' = truth
        /\ checkpoint' = checkpoint /\ up' = up /\ starts' = starts /\ sent' = sent
    BY DEF HandleIncomplete
  <1>2. RecoveryTypeOK /\ (lineOpen => eventLog # <<>>)
    BY DEF RecoveryInv, CutsExplain
  <1>3. /\ eventLog' \in Seq(Events \cup {Torn}) /\ lineOpen' = FALSE /\ eventLog' # <<>>
        /\ ~LogReadable'
    BY <1>1, <1>2, WritesOneEvent
  <1>4. clock' \in 0 .. MaxEvents /\ sequence' \in Nat
    BY <1>1, <1>2, RecoveryAssumption DEF RecoveryTypeOK
  <1>5. RecoveryTypeOK'
    <2>1. lineOpen' \in BOOLEAN
      BY <1>3
    <2> QED
      BY <1>1, <1>2, <1>3, <1>4, <2>1 DEF RecoveryTypeOK
  <1>6. SentInOrder' /\ CutsExplain'
    BY <1>1, <1>3 DEF RecoveryInv, SentInOrder, CutsExplain
  <1> QED
    BY <1>3, <1>5, <1>6 DEF RecoveryInv

LEMMA KillInAppendInv ==
  ASSUME RecoveryInv, NEW kind \in EventKinds, NEW venue \in BOOLEAN, KillInAppend(kind, venue)
  PROVE  RecoveryInv'
  <1> DEFINE e == EventOf(kind, venue)
  <1>1. /\ up /\ Sends(kind) /\ clock' = clock + 1 /\ sent' = sent \cup {kind}
        /\ up' = FALSE /\ cuts' = cuts \cup {"append"}
        /\ checkpoint' = checkpoint /\ starts' = starts /\ sequence' = sequence
        /\ \/ WriteLine(e, FALSE) /\ truth' = Apply(truth, e)
           \/ WriteLine(Torn, FALSE) /\ truth' = truth
           \/ eventLog' = eventLog /\ lineOpen' = lineOpen /\ truth' = truth
    BY DEF KillInAppend
  <1>2. e \in Events /\ <<e.type, e.key>> = kind
    BY EventTyped, KindsTold DEF RecoveryInv
  <1>3. RecoveryTypeOK /\ (lineOpen => eventLog # <<>>)
    BY DEF RecoveryInv, CutsExplain
  <1>4. SentInOrder' /\ (checkpoint = Torn => "save" \in cuts)
    BY <1>1, OneMoreSent DEF RecoveryInv, CutsExplain
  <1>5. clock' \in 0 .. MaxEvents /\ clock <= clock' /\ starts' \in Nat /\ starts <= starts'
    BY <1>1, <1>3, RecoveryAssumption DEF RecoveryTypeOK, Sends
  <1>6. CASE WriteLine(e, FALSE) /\ truth' = Apply(truth, e)
    <2>1. /\ eventLog' \in Seq(Events \cup {Torn}) /\ lineOpen' \in BOOLEAN /\ eventLog' # <<>>
          /\ LogReadable' => LogReadable /\ Logged' = Logged \cup {e}
      BY <1>2, <1>3, <1>6, WritesOneEvent
    <2>2. truth' \in States
      BY <1>2, <1>3, <1>6, WhatApplyDoes DEF RecoveryTypeOK
    <2>3. RecoveryTypeOK'
      BY <1>1, <1>3, <1>5, <2>1, <2>2 DEF RecoveryTypeOK
    <2>4. CutsExplain'
      BY <1>1, <1>4, <2>1 DEF CutsExplain
    <2>5. LogReadable' => LogFaithful'
      BY <1>1, <1>6, <2>1, OneMoreStamped, OneMoreTold DEF LogFaithful
    <2> QED
      BY <1>4, <2>3, <2>4, <2>5 DEF RecoveryInv
  <1>7. CASE WriteLine(Torn, FALSE) /\ truth' = truth
    <2>1. /\ eventLog' \in Seq(Events \cup {Torn}) /\ lineOpen' \in BOOLEAN /\ eventLog' # <<>>
          /\ ~LogReadable'
      BY <1>3, <1>7, WritesOneEvent
    <2>2. RecoveryTypeOK'
      BY <1>1, <1>3, <1>5, <1>7, <2>1 DEF RecoveryTypeOK
    <2>3. CutsExplain'
      BY <1>1, <1>4, <2>1 DEF CutsExplain
    <2> QED
      BY <1>4, <2>1, <2>2, <2>3 DEF RecoveryInv
  <1>8. CASE eventLog' = eventLog /\ lineOpen' = lineOpen /\ truth' = truth
    <2>1. RecoveryTypeOK'
      BY <1>1, <1>3, <1>5, <1>8 DEF RecoveryTypeOK
    <2>2. CutsExplain' /\ LogReadable' = LogReadable
      BY <1>1, <1>3, <1>4, <1>8 DEF CutsExplain, LogReadable
    <2>3. LogReadable => LogFaithful'
      BY <1>1, <1>5, <1>8, NoMoreStamped, NoMoreTold DEF LogFaithful
    <2> QED
      BY <1>4, <2>1, <2>2, <2>3 DEF RecoveryInv
  <1> QED
    BY <1>1, <1>6, <1>7, <1>8

LEMMA NextInv == RecoveryInv /\ [RecoveryNext]_recoveryVars => RecoveryInv'
  <1> SUFFICES ASSUME RecoveryInv, [RecoveryNext]_recoveryVars PROVE RecoveryInv'
    OBVIOUS
  <1>1. CASE StartRuntime
    BY <1>1, StartInv
  <1>2. CASE Kill
    BY <1>2, KillInv
  <1>3. CASE \E kind \in EventKinds, venue \in BOOLEAN :
               HandleEvent(kind, venue) \/ KillInAppend(kind, venue)
    BY <1>3, HandleInv, KillInAppendInv
  <1>4. CASE SaveCheckpoint
    BY <1>4, SaveInv
  <1>5. CASE KillInSave
    BY <1>5, KillInSaveInv
  <1>6. CASE HandleIncomplete
    BY <1>6, HandleIncompleteInv
  <1>7. CASE UNCHANGED recoveryVars
    <2>1. /\ eventLog' = eventLog /\ truth' = truth /\ checkpoint' = checkpoint
          /\ clock' = clock /\ sent' = sent /\ starts' = starts /\ lineOpen' = lineOpen
          /\ cuts' = cuts /\ up' = up /\ sequence' = sequence
      BY <1>7 DEF recoveryVars, durable
    <2>2. RecoveryTypeOK'
      BY <2>1 DEF RecoveryInv, RecoveryTypeOK
    <2>3. SentInOrder' /\ CutsExplain' /\ LogReadable' = LogReadable
      BY <2>1 DEF RecoveryInv, SentInOrder, CutsExplain, LogReadable
    <2>4. clock' \in Nat /\ clock <= clock' /\ starts' \in Nat /\ starts <= starts'
      BY <2>1 DEF RecoveryInv, RecoveryTypeOK
    <2>5. LogReadable => LogFaithful'
      BY <2>1, <2>4, NoMoreStamped, NoMoreTold DEF LogFaithful
    <2> QED
      BY <2>2, <2>3, <2>5 DEF RecoveryInv
  <1> QED
    BY <1>1, <1>2, <1>3, <1>4, <1>5, <1>6, <1>7 DEF RecoveryNext

LEMMA RecoveryInvHolds == RecoverySpec => []RecoveryInv
  BY InitInv, NextInv, PTL DEF RecoverySpec

-----------------------------------------------------------------------------
(* Theorems. *)

(* Whatever is sent, killed and saved in whatever order, the files hold    *)
(* lines of events or torn ones, and a checkpoint is a state, none or torn.*)
THEOREM RecoveryTypeCorrect == RecoverySpec => []RecoveryTypeOK
  BY RecoveryInvHolds, PTL DEF RecoveryInv

(* A recovery is blocked by a kill within a write of that file or by an    *)
(* event without its key and nothing else, and no later append, checkpoint *)
(* or restart makes such a log readable again (append, save, recover).     *)
THEOREM BlockedForACause == RecoverySpec => BlockedRecoveryHasACause
  <1> DEFINE A == /\ ~LogReadable' => cuts' \cap {"append", "incomplete"} # {}
                  /\ checkpoint' = Torn => "save" \in cuts'
                  /\ ~LogReadable => ~LogReadable'
  <1>1. RecoveryInv /\ RecoveryInv' /\ [RecoveryNext]_recoveryVars => A
    <2> SUFFICES ASSUME RecoveryInv, RecoveryInv', [RecoveryNext]_recoveryVars
                 PROVE  A
      OBVIOUS
    <2>1. /\ ~LogReadable' => cuts' \cap {"append", "incomplete"} # {}
          /\ checkpoint' = Torn => "save" \in cuts'
      BY DEF RecoveryInv, CutsExplain
    <2>2. LogReadable' => LogReadable
      <3>1. CASE eventLog' = eventLog
        BY <3>1 DEF LogReadable
      <3>2. ASSUME NEW line \in Events \cup {Torn}, NEW ended \in BOOLEAN,
                   WriteLine(line, ended)
            PROVE  LogReadable' => LogReadable
        BY <3>2, WritesOneEvent DEF RecoveryInv, CutsExplain
      <3>3. ASSUME NEW kind \in EventKinds, NEW venue \in BOOLEAN,
                   HandleEvent(kind, venue) \/ KillInAppend(kind, venue)
            PROVE  LogReadable' => LogReadable
        <4>1. EventOf(kind, venue) \in Events
          BY EventTyped DEF RecoveryInv
        <4>2. CASE HandleEvent(kind, venue)
          BY <3>2, <4>1, <4>2 DEF HandleEvent
        <4>3. CASE KillInAppend(kind, venue)
          BY <3>1, <3>2, <4>1, <4>3 DEF KillInAppend
        <4> QED
          BY <3>3, <4>2, <4>3
      <3>4. CASE StartRuntime \/ Kill \/ SaveCheckpoint \/ KillInSave \/ UNCHANGED recoveryVars
        BY <3>1, <3>4 DEF StartRuntime, Kill, SaveCheckpoint, KillInSave, recoveryVars, durable
      <3>5. CASE HandleIncomplete
        BY <3>2, <3>5 DEF HandleIncomplete
      <3> QED
        BY <3>3, <3>4, <3>5 DEF RecoveryNext
    <2> QED
      BY <2>1, <2>2
  <1>2. RecoverySpec => [][A]_recoveryVars
    BY <1>1, RecoveryInvHolds, PTL DEF RecoverySpec
  <1> QED
    BY <1>2 DEF BlockedRecoveryHasACause

LEMMA NothingForgotten == RecoveryInv => RecoveryForgetsNothing
  <1> SUFFICES ASSUME RecoveryInv, Readable
               PROVE  truth.orders \subseteq Recovered.orders /\ truth.fills = Recovered.fills
    BY DEF RecoveryForgetsNothing
  <1>1. RecoveryTypeOK /\ LogFaithful
    BY DEF RecoveryInv, Readable
  <1>2. TruthIsLogged /\ CheckpointIsLogged /\ EveryPartHasALast /\ truth \in States
    BY <1>1 DEF LogFaithful, RecoveryTypeOK
  <1>3. Recovered \in States /\ (checkpoint # NoCheckpoint => checkpoint \in States)
    BY <1>1, <1>2, WhatIsRecovered
  <1>4. ASSUME NEW f \in Fills PROVE f \in truth.fills <=> f \in Recovered.fills
    BY <1>1, <1>2, <1>3, WhatIsRecovered DEF TruthIsLogged, CheckpointIsLogged
  <1>5. ASSUME NEW o \in Orders, o \in truth.orders PROVE o \in Recovered.orders
    <2>1. About({"ORDER_OPENED"}, o) # {} /\ About({"ORDER_CLOSED"}, o) = {}
      BY <1>2, <1>5 DEF TruthIsLogged
    <2>2. About(Fates, o) # {} /\ \A e \in About(Fates, o) : e.type = "ORDER_OPENED"
      BY <2>1 DEF About, Fates
    <2>3. LastOf(About(Fates, o)) \in About(Fates, o)
      BY <1>2, <2>2, LastIsLast DEF EveryPartHasALast, About
    <2> QED
      BY <1>1, <1>2, <2>2, <2>3, WhatIsRecovered
  <1> QED
    BY <1>2, <1>3, <1>4, <1>5 DEF States

LEMMA ErrorsExplained == RecoveryInv => RecoveryErrorsHaveACause
  <1> SUFFICES ASSUME RecoveryInv, Readable
               PROVE  /\ \A o \in Recovered.orders \ truth.orders :
                           \/ checkpoint # NoCheckpoint /\ o \in checkpoint.orders
                           \/ Disputed({"ORDER_OPENED", "ORDER_CLOSED"}, o)
                      /\ \A a \in Assets : Recovered.latest[a] # truth.latest[a]
                                             => Disputed({"UPDATED"}, a)
    BY DEF RecoveryErrorsHaveACause
  <1>1. RecoveryTypeOK /\ LogFaithful /\ Logged \subseteq Events
    BY LoggedAreEvents DEF RecoveryInv, Readable
  <1>2. /\ TruthIsLogged /\ CheckpointIsLogged /\ EveryPartHasALast
        /\ StampsTellOrder /\ OpenedBeforeClosed
    BY <1>1 DEF LogFaithful
  <1>3. \A e \in Logged : e.timestamp \in Nat /\ e.sequence \in Nat /\ e.timestamp # 0
    BY <1>1 DEF Events
  (* Of two events the sort has the wrong way round, the earlier is         *)
  (* misordered.                                                            *)
  <1>4. ASSUME NEW a \in Logged, NEW b \in Logged, a.timestamp < b.timestamp, Before(b, a)
        PROVE  Misordered(a, b)
    <2>1. ~(a.sequence < b.sequence)
      BY <1>3, <1>4 DEF Before
    <2> QED
      BY <1>2, <1>4, <2>1 DEF StampsTellOrder
  <1>5. ASSUME NEW o \in Recovered.orders \ truth.orders,
               ~(checkpoint # NoCheckpoint /\ o \in checkpoint.orders)
        PROVE  Disputed(Fates, o)
    <2>1. o \in Orders
      BY <1>1, <1>2, WhatIsRecovered DEF States
    <2> DEFINE l == LastOf(About(Fates, o))
    <2>2. About(Fates, o) # {} /\ l.type = "ORDER_OPENED"
      BY <1>1, <1>2, <1>5, <2>1, WhatIsRecovered
    <2>3. l \in About(Fates, o) /\ \A f \in About(Fates, o) \ {l} : Before(f, l)
      BY <1>2, <2>2, LastIsLast DEF EveryPartHasALast, About
    <2> HIDE DEF l
    <2>4. l \in About({"ORDER_OPENED"}, o)
      BY <2>2, <2>3 DEF About
    <2>5. PICK c \in About({"ORDER_CLOSED"}, o) : TRUE
      BY <1>2, <1>5, <2>1, <2>4 DEF TruthIsLogged
    <2>6. l.timestamp < c.timestamp /\ c # l
      BY <1>2, <2>4, <2>5 DEF OpenedBeforeClosed, About
    <2>7. Misordered(l, c)
      BY <1>4, <2>3, <2>5, <2>6 DEF About, Fates
    <2> QED
      BY <2>3, <2>5, <2>7 DEF Disputed, About, Fates
  <1>6. ASSUME NEW a \in Assets, Recovered.latest[a] # truth.latest[a]
        PROVE  Disputed({"UPDATED"}, a)
    <2> DEFINE figures == About({"UPDATED"}, a)
    <2> DEFINE l == LastOf(figures)
    <2>1. CASE figures = {}
      <3>1. truth.latest[a] = 0
        BY <1>2, <2>1 DEF TruthIsLogged
      <3>2. Recovered.latest[a] = IF checkpoint # NoCheckpoint THEN checkpoint.latest[a] ELSE 0
        BY <1>1, <1>2, <2>1, WhatIsRecovered
      <3>3. checkpoint # NoCheckpoint => checkpoint.latest[a] = 0
        BY <1>1, <1>2, <2>1, WhatIsRecovered DEF CheckpointIsLogged
      <3> QED
        BY <1>6, <3>1, <3>2, <3>3
    <2>2. CASE figures # {}
      <3>1. l \in figures /\ \A f \in figures \ {l} : Before(f, l)
        BY <1>2, <2>2, LastIsLast DEF EveryPartHasALast, About
      <3>2. Recovered.latest[a] = l.timestamp
        BY <1>1, <1>2, <2>2, WhatIsRecovered
      <3> HIDE DEF l
      <3>3. truth.latest[a] # 0 /\ l.timestamp <= truth.latest[a]
        BY <1>2, <2>2, <3>1 DEF TruthIsLogged
      <3>4. PICK m \in figures : m.timestamp = truth.latest[a]
        BY <1>2, <3>3 DEF TruthIsLogged
      <3>5. l \in Logged /\ m \in Logged
        BY <3>1, <3>4 DEF About
      <3>6. l.timestamp < m.timestamp /\ m # l
        BY <1>3, <1>6, <3>2, <3>3, <3>4, <3>5
      <3>7. Misordered(l, m)
        BY <1>4, <3>1, <3>4, <3>5, <3>6
      <3> QED
        BY <3>1, <3>4, <3>7 DEF Disputed, About
    <2> QED
      BY <2>1, <2>2
  <1> QED
    BY <1>5, <1>6 DEF Fates

(* Whatever is killed when, a recovery that succeeds has every fill and    *)
(* every open order of the events whose append returned, and an order or a *)
(* figure it has wrong comes of an old checkpoint or of two counters that  *)
(* stamped the events (recover, rebuild_from_events, _normalize_event).    *)
THEOREM RecoveryExplained == RecoverySpec => []RecoveryIsExplained
  <1>1. RecoveryInv => RecoveryIsExplained
    BY NothingForgotten, ErrorsExplained DEF RecoveryIsExplained
  <1> QED
    BY <1>1, RecoveryInvHolds, PTL

-----------------------------------------------------------------------------
(* RegistryFile, for any names, any processes and any file they may find.  *)

EntrySpace == Records \cup {Nothing}

(* A registry somebody has saved: nothing unsafe, old or bare is left, and *)
(* only an incomplete record is still under a name the migration changes.  *)
Settled(f) ==
  /\ f.form = "json"
  /\ \A n \in Names :
       \/ f.entries[n].kind \in {"none", "incomplete"}
       \/ f.entries[n].kind \in {"sound", "stale"} /\ NormalName[n] = n

KeptIn(f, call) ==
  LET e == f.entries[NormalName[call.name]] IN e # Nothing /\ call.mark \in e.marks

UnderWay(p) == stage[p] # "idle"

-----------------------------------------------------------------------------
LEMMA NothingIsNone == /\ Nothing.kind = "none"
                       /\ \A e \in EntrySpace : e.kind = "none" => e = Nothing
                       /\ \A e \in Records : e # Nothing
  BY DEF EntrySpace, Records, Kinds, Nothing

(* _normalize_record keeps who has written a record. *)
LEMMA NormalizedRecord ==
  ASSUME NEW e \in Records, Recoverable(e)
  PROVE  /\ Normalized(e) \in Records
         /\ Normalized(e).kind \in {"sound", "stale"}
         /\ Normalized(e).marks = e.marks
  <1>1. CASE e.kind = "old"
    BY <1>1 DEF Normalized, Records, Kinds
  <1>2. CASE e.kind = "stale"
    BY <1>2 DEF Normalized, Records, Kinds
  <1>3. CASE e.kind = "bare"
    BY <1>3 DEF Normalized, Records, Kinds
  <1>4. CASE e.kind = "sound"
    BY <1>4 DEF Normalized, Records, Kinds
  <1> QED
    BY <1>1, <1>2, <1>3, <1>4 DEF Recoverable, Records, Kinds

(* What the migration leaves at a name. *)
LEMMA MigratedEntry ==
  ASSUME NEW entries \in [Names -> EntrySpace], NEW n \in Names
  PROVE  /\ Migrated(entries)[n] \in EntrySpace
         /\ \/ Migrated(entries)[n].kind \in {"none", "incomplete"}
            \/ Migrated(entries)[n].kind \in {"sound", "stale"} /\ NormalName[n] = n
  <1> USE NothingIsNone, RegistryAssumption
  <1>1. CASE MovedTo(n, entries) # {}
    <2> DEFINE m == CHOOSE m \in MovedTo(n, entries) : TRUE
    <2>1. m \in MovedTo(n, entries)
      BY <1>1
    <2>2. m \in Names /\ NormalName[m] = n /\ Recoverable(entries[m])
      BY <2>1 DEF MovedTo
    <2>3. entries[m] \in Records
      BY <2>2 DEF EntrySpace, Recoverable
    <2>4. Migrated(entries)[n] = Normalized(MovedEntry(n, entries))
      BY <1>1 DEF Migrated
    <2>5. MovedEntry(n, entries) = entries[m]
      BY DEF MovedEntry
    <2>6. NormalName[n] = n
      BY <2>2
    <2> HIDE DEF m
    <2> QED
      BY <2>2, <2>3, <2>4, <2>5, <2>6, NormalizedRecord DEF EntrySpace
  <1>2. CASE MovedTo(n, entries) = {} /\ entries[n].kind \in {"none", "unsafe"}
    <2>1. Migrated(entries)[n] = Nothing
      BY <1>2 DEF Migrated
    <2> QED
      BY <2>1 DEF EntrySpace
  <1>3. CASE MovedTo(n, entries) = {} /\ entries[n].kind = "incomplete"
    <2>1. Migrated(entries)[n] = entries[n]
      BY <1>3 DEF Migrated
    <2> QED
      BY <1>3, <2>1
  <1>4. CASE MovedTo(n, entries) = {} /\ Recoverable(entries[n])
    <2>1. Migrated(entries)[n] = IF NormalName[n] = n THEN Normalized(entries[n]) ELSE Nothing
      BY <1>4 DEF Migrated, Recoverable
    <2>2. entries[n] \in Records
      BY <1>4 DEF EntrySpace, Recoverable
    <2> QED
      BY <1>4, <2>1, <2>2, NormalizedRecord DEF EntrySpace
  <1> QED
    BY <1>1, <1>2, <1>3, <1>4 DEF Recoverable

LEMMA LoadedSettles ==
  ASSUME NEW f \in Contents
  PROVE  Loaded(f) \in Contents /\ Settled(Loaded(f))
  <1>1. DefaultState \in Contents /\ Settled(DefaultState)
    BY NothingIsNone DEF DefaultState, Contents, Forms, Settled
  <1>2. CASE f.form \in {"absent", "broken"}
    BY <1>1, <1>2 DEF Loaded
  <1>3. CASE f.form \notin {"absent", "broken"}
    <2>1. f.entries \in [Names -> EntrySpace] /\ f.recovered \in BOOLEAN
          /\ f.quarantined \subseteq Names
      BY DEF Contents, EntrySpace
    <2>2. Migrated(f.entries) = [n \in Names |-> Migrated(f.entries)[n]]
      BY DEF Migrated
    <2>3. Migrated(f.entries) \in [Names -> EntrySpace]
      BY <2>1, <2>2, MigratedEntry
    <2>4. Quarantined(f.entries) \subseteq Names
      BY DEF Quarantined
    <2>5. Loaded(f) = [form |-> "json", recovered |-> f.recovered \/ f.form = "trailing",
                       entries |-> Migrated(f.entries),
                       quarantined |-> f.quarantined \cup Quarantined(f.entries)]
      BY <1>3 DEF Loaded
    <2>6. Loaded(f) \in Contents
      BY <2>1, <2>3, <2>4, <2>5 DEF Contents, Forms, EntrySpace
    <2>7. Settled(Loaded(f))
      BY <2>1, <2>5, MigratedEntry DEF Settled
    <2> QED
      BY <2>6, <2>7
  <1> QED
    BY <1>2, <1>3

(* A load of a settled file drops nobody's upsert. *)
LEMMA LoadedKeeps ==
  ASSUME NEW f \in Contents, Settled(f), NEW call, call.name \in Names, KeptIn(f, call)
  PROVE  KeptIn(Loaded(f), call)
  <1> DEFINE n == NormalName[call.name]
  <1>1. n \in Names /\ f.entries \in [Names -> EntrySpace]
    BY RegistryAssumption DEF Contents, EntrySpace
  <1>2. MovedTo(n, f.entries) = {}
    <2> SUFFICES ASSUME NEW m \in Names \ {n}, NormalName[m] = n, Recoverable(f.entries[m])
                 PROVE  FALSE
      BY DEF MovedTo
    <2> QED
      BY DEF Settled, Recoverable
  <1>3. f.entries[n] \in Records /\ call.mark \in f.entries[n].marks
    BY <1>1 DEF KeptIn, EntrySpace
  <1>4. NormalName[n] = n
    BY RegistryAssumption
  <1>5. Loaded(f).entries = Migrated(f.entries)
    BY DEF Loaded, Settled
  <1>6. CASE f.entries[n].kind = "incomplete"
    <2>1. Migrated(f.entries)[n] = f.entries[n]
      BY <1>1, <1>2, <1>6 DEF Migrated
    <2> QED
      BY <1>3, <1>5, <2>1, NothingIsNone DEF KeptIn
  <1>7. CASE Recoverable(f.entries[n])
    <2>1. Migrated(f.entries)[n] = Normalized(f.entries[n])
      BY <1>1, <1>2, <1>4, <1>7 DEF Migrated, Recoverable
    <2>2. Normalized(f.entries[n]) \in Records /\ Normalized(f.entries[n]).marks = f.entries[n].marks
      BY <1>3, <1>7, NormalizedRecord
    <2> QED
      BY <1>3, <1>5, <2>1, <2>2, NothingIsNone DEF KeptIn
  <1>8. f.entries[n].kind = "incomplete" \/ Recoverable(f.entries[n])
    BY <1>1, <1>3, NothingIsNone DEF Settled, Recoverable, Records, Kinds
  <1> QED
    BY <1>6, <1>7, <1>8

(* The record of an upsert, and the two entries it writes. *)
Merged(f, n, mark, says) ==
  [kind |-> "sound",
   retired |-> \/ f.entries[n].kind = "stale" /\ says # "candidate"
               \/ says = "retired"
               \/ f.entries[n] # Nothing /\ f.entries[n].retired /\ says # "not_retired",
   marks |-> {mark} \cup (IF f.entries[n] = Nothing THEN {} ELSE f.entries[n].marks)]

LEMMA UpsertedFields ==
  ASSUME NEW f \in Contents, NEW n \in Names, NEW mark \in 1 .. MaxCalls, NEW says
  PROVE  /\ Upserted(f, n, mark, says) \in Contents
         /\ Merged(f, n, mark, says) \in Records
         /\ Upserted(f, n, mark, says).form = f.form
         /\ \A m \in Names :
              Upserted(f, n, mark, says).entries[m] =
                IF m = NormalName[n] THEN Merged(f, n, mark, says)
                ELSE IF m = n THEN Nothing ELSE f.entries[m]
  <1> DEFINE k == NormalName[n]
             r == Merged(f, n, mark, says)
  <1>1. k \in Names /\ f.entries \in [Names -> EntrySpace]
    BY RegistryAssumption DEF Contents, EntrySpace
  <1>2. r \in Records
    <2>1. f.entries[n] \in EntrySpace
      BY <1>1
    <2>2. f.entries[n] # Nothing => f.entries[n].marks \subseteq 1 .. MaxCalls
      BY <2>1 DEF EntrySpace, Records
    <2> QED
      BY <2>2 DEF Merged, Records, Kinds
  <1>3. Upserted(f, n, mark, says) = [f EXCEPT !.entries[n] = Nothing, !.entries[k] = r]
    BY DEF Upserted, Merged
  <1> HIDE DEF k, r
  <1>4. /\ [f EXCEPT !.entries[n] = Nothing, !.entries[k] = r]
           = [f EXCEPT !.entries = [[f.entries EXCEPT ![n] = Nothing] EXCEPT ![k] = r]]
    BY <1>1 DEF Contents
  <1>5. [[f.entries EXCEPT ![n] = Nothing] EXCEPT ![k] = r] \in [Names -> EntrySpace]
    BY <1>1, <1>2 DEF EntrySpace
  <1>6. Upserted(f, n, mark, says) \in Contents /\ Upserted(f, n, mark, says).form = f.form
        /\ Upserted(f, n, mark, says).entries = [[f.entries EXCEPT ![n] = Nothing] EXCEPT ![k] = r]
    BY <1>3, <1>4, <1>5 DEF Contents, EntrySpace
  <1>7. \A m \in Names : Upserted(f, n, mark, says).entries[m] =
                           IF m = k THEN r ELSE IF m = n THEN Nothing ELSE f.entries[m]
    BY <1>1, <1>6
  <1> QED
    BY <1>2, <1>6, <1>7 DEF k, r

LEMMA UpsertedSettles ==
  ASSUME NEW f \in Contents, Settled(f), NEW n \in Names, NEW mark \in 1 .. MaxCalls, NEW says
  PROVE  Settled(Upserted(f, n, mark, says))
  <1>1. NormalName[NormalName[n]] = NormalName[n]
    BY RegistryAssumption
  <1>2. Merged(f, n, mark, says).kind = "sound"
    BY DEF Merged
  <1> QED
    BY <1>1, <1>2, UpsertedFields, NothingIsNone DEF Settled

(* An upsert leaves its mark, and drops another's only under a name that   *)
(* normalizes to the other's and is not that one.                          *)
LEMMA UpsertedKeeps ==
  ASSUME NEW f \in Contents, NEW n \in Names, NEW mark \in 1 .. MaxCalls, NEW says
  PROVE  /\ \A call : call.name = n /\ call.mark = mark => KeptIn(Upserted(f, n, mark, says), call)
         /\ \A call : call.name \in Names /\ KeptIn(f, call) =>
              \/ KeptIn(Upserted(f, n, mark, says), call)
              \/ NormalName[n] = NormalName[call.name] /\ n # NormalName[n]
  <1> USE UpsertedFields, NothingIsNone, RegistryAssumption
  <1>1. mark \in Merged(f, n, mark, says).marks
        /\ (f.entries[n] # Nothing => f.entries[n].marks \subseteq Merged(f, n, mark, says).marks)
    BY DEF Merged
  <1>2. ASSUME NEW call, call.name = n, call.mark = mark
        PROVE  KeptIn(Upserted(f, n, mark, says), call)
    BY <1>1, <1>2 DEF KeptIn
  <1>3. ASSUME NEW call, call.name \in Names, KeptIn(f, call),
               ~(NormalName[n] = NormalName[call.name] /\ n # NormalName[n])
        PROVE  KeptIn(Upserted(f, n, mark, says), call)
    <2> DEFINE m == NormalName[call.name]
    <2>1. m \in Names /\ NormalName[m] = m
      BY <1>3
    <2>2. CASE m = NormalName[n]
      <3>1. m = n
        BY <1>3, <2>2
      <3> QED
        BY <1>1, <1>3, <2>1, <2>2, <3>1 DEF KeptIn
    <2>3. CASE m # NormalName[n]
      <3>1. m # n
        BY <2>1, <2>3
      <3>2. \A k \in Names : k # NormalName[n] /\ k # n =>
                             Upserted(f, n, mark, says).entries[k] = f.entries[k]
        OBVIOUS
      <3> HIDE UpsertedFields, NothingIsNone, RegistryAssumption
      <3>3. Upserted(f, n, mark, says).entries[m] = f.entries[m]
        BY <2>1, <2>3, <3>1, <3>2
      <3> QED
        BY <1>3, <3>3 DEF KeptIn
    <2> QED
      BY <2>2, <2>3
  <1> QED
    BY <1>2, <1>3

-----------------------------------------------------------------------------
(* The calls under way and the completed ones bear different numbers. *)
CallsNumbered ==
  /\ \A p \in Processes : UnderWay(p) => doing[p].mark \in 1 .. calls
  /\ \A p \in Processes : stage[p] = "upsert" => doing[p].name \in Names
  /\ \A p, q \in Processes : UnderWay(p) /\ UnderWay(q) /\ p # q => doing[p].mark # doing[q].mark
  /\ \A call \in completed :
       call.mark <= calls /\ \A p \in Processes : UnderWay(p) => doing[p].mark # call.mark

RegistryTyped == RegistryTypeOK /\ CallsNumbered

LEMMA InitTyped == RegistryInit => RegistryTyped
  <1> SUFFICES ASSUME RegistryInit PROVE RegistryTyped
    OBVIOUS
  <1>1. DefaultState \in Contents
    BY DEF DefaultState, Contents, Forms
  <1>2. [name |-> Reader, mark |-> 0] \in [name : Names \cup {Reader}, mark : 0 .. MaxCalls]
        /\ 0 \in 0 .. MaxCalls
    BY RegistryAssumption
  <1>3. RegistryTypeOK
    BY <1>1, <1>2, RegistryAssumption DEF RegistryInit, RegistryTypeOK
  <1>4. CallsNumbered
    BY DEF RegistryInit, CallsNumbered, UnderWay
  <1> QED
    BY <1>3, <1>4 DEF RegistryTyped

(* Where a call goes on after its load. *)
LEMMA AfterLoadTyped ==
  ASSUME RegistryTypeOK, NEW p \in Processes, NEW f \in Contents,
         NEW call \in [name : Names \cup {Reader}, mark : 1 .. MaxCalls], AfterLoad(p, call, f)
  PROVE  /\ held' \in [Processes -> Contents]
         /\ stage' \in [Processes -> {"idle", "load", "upsert"}]
         /\ \A q \in Processes \ {p} : stage'[q] = stage[q] /\ held'[q] = held[q]
         /\ stage'[p] = "upsert" => call.name \in Names
         /\ stage'[p] # "load"
  <1>1. CASE call.name = Reader
    BY <1>1 DEF AfterLoad, RegistryTypeOK
  <1>2. CASE call.name # Reader
    <2>1. \A says \in Sayings : Upserted(f, call.name, call.mark, says) \in Contents
      BY <1>2, UpsertedFields
    <2> QED
      BY <1>2, <2>1 DEF AfterLoad, RegistryTypeOK
  <1> QED
    BY <1>1, <1>2

LEMMA LoadTyped ==
  ASSUME RegistryTyped, NEW p \in Processes, NEW name \in Names \cup {Reader}, Load(p, name)
  PROVE  RegistryTyped'
  <1> DEFINE call == [name |-> name, mark |-> calls + 1]
  <1>1. /\ stage[p] = "idle" /\ calls < MaxCalls /\ calls' = calls + 1
        /\ doing' = [doing EXCEPT ![p] = call]
        /\ outdated' = [outdated EXCEPT ![p] = FALSE]
        /\ UNCHANGED <<registryFile, completed, saved, clobbers>>
    BY DEF Load
  <1>2. calls \in 0 .. MaxCalls /\ MaxCalls \in Nat /\ registryFile \in Contents
    BY RegistryAssumption DEF RegistryTyped, RegistryTypeOK
  <1>3. call \in [name : Names \cup {Reader}, mark : 1 .. MaxCalls]
    BY <1>1, <1>2
  <1>4. Loaded(registryFile) \in Contents
    BY <1>2, LoadedSettles
  <1>5. /\ held' \in [Processes -> Contents]
        /\ stage' \in [Processes -> {"idle", "load", "upsert"}]
        /\ \A q \in Processes \ {p} : stage'[q] = stage[q]
        /\ stage'[p] = "upsert" => call.name \in Names
    <2>1. CASE LoadSaves(registryFile)
      BY <1>4, <2>1 DEF Load, RegistryTyped, RegistryTypeOK
    <2>2. CASE ~LoadSaves(registryFile)
      <3>1. AfterLoad(p, call, Loaded(registryFile))
        BY <2>2 DEF Load
      <3> QED
        BY <1>3, <1>4, <3>1, AfterLoadTyped DEF RegistryTyped
    <2> QED
      BY <2>1, <2>2
  <1> HIDE DEF call
  <1>6. RegistryTypeOK'
    <2>1. doing' \in [Processes -> [name : Names \cup {Reader}, mark : 0 .. MaxCalls]]
      BY <1>1, <1>3 DEF RegistryTyped, RegistryTypeOK
    <2>2. calls' \in 0 .. MaxCalls
      BY <1>1, <1>2
    <2>3. outdated' \in [Processes -> BOOLEAN]
      BY <1>1 DEF RegistryTyped, RegistryTypeOK
    <2> QED
      BY <1>1, <1>5, <2>1, <2>2, <2>3 DEF RegistryTyped, RegistryTypeOK
  <1>7. doing' \in [Processes -> [name : Names \cup {Reader}, mark : 0 .. MaxCalls]]
        /\ doing'[p] = call /\ call.mark = calls + 1
        /\ \A q \in Processes \ {p} : doing'[q] = doing[q]
    BY <1>1, <1>6 DEF RegistryTypeOK, RegistryTyped, call
  <1>8. CallsNumbered'
    <2>1. \A q \in Processes : (stage'[q] # "idle") => q = p \/ UnderWay(q)
      BY <1>5 DEF UnderWay
    <2>2. \A q \in Processes : UnderWay(q)' => doing'[q].mark \in 1 .. calls'
      BY <1>1, <1>2, <1>7, <2>1 DEF RegistryTyped, CallsNumbered, UnderWay
    <2>3. \A q \in Processes : stage'[q] = "upsert" => doing'[q].name \in Names
      BY <1>5, <1>7 DEF RegistryTyped, CallsNumbered
    <2>4. \A q \in Processes \ {p} : UnderWay(q)' => doing'[q].mark < calls + 1
      BY <1>2, <1>7, <2>1 DEF RegistryTyped, CallsNumbered, UnderWay
    <2>5. \A q, r \in Processes :
            UnderWay(q)' /\ UnderWay(r)' /\ q # r => doing'[q].mark # doing'[r].mark
      BY <1>2, <1>7, <2>1, <2>4 DEF RegistryTyped, CallsNumbered, UnderWay
    <2>6. \A c \in completed : c.mark <= calls /\ c.mark \in 1 .. MaxCalls
      BY DEF RegistryTyped, RegistryTypeOK, CallsNumbered
    <2>7. \A c \in completed' :
            c.mark <= calls' /\ \A q \in Processes : UnderWay(q)' => doing'[q].mark # c.mark
      BY <1>1, <1>2, <1>7, <2>1, <2>6 DEF RegistryTyped, CallsNumbered, UnderWay
    <2> QED
      BY <2>2, <2>3, <2>5, <2>7 DEF CallsNumbered
  <1> QED
    BY <1>6, <1>8 DEF RegistryTyped

LEMMA SaveTyped ==
  ASSUME RegistryTypeOK, NEW p \in Processes, UnderWay(p), Save(p)
  PROVE  /\ registryFile' \in Contents /\ outdated' \in [Processes -> BOOLEAN]
         /\ saved' \in BOOLEAN /\ clobbers' \subseteq {"load", "upsert"}
         /\ registryFile' = held[p] /\ saved'
         /\ \A q \in Processes \ {p} : outdated'[q]
         /\ ~outdated'[p] => ~outdated[p]
         /\ clobbers' = {} => clobbers = {} /\ ~outdated[p]
  BY DEF Save, RegistryTypeOK, UnderWay

LEMMA NextTyped == RegistryTyped /\ [RegistryNext]_registryVars => RegistryTyped'
  <1> SUFFICES ASSUME RegistryTyped, [RegistryNext]_registryVars PROVE RegistryTyped'
    OBVIOUS
  <1>1. ASSUME NEW p \in Processes, NEW name \in Names \cup {Reader}, Load(p, name)
        PROVE  RegistryTyped'
    BY <1>1, LoadTyped
  <1>2. ASSUME NEW p \in Processes, SaveLoaded(p) PROVE RegistryTyped'
    <2>1. stage[p] = "load" /\ Save(p) /\ AfterLoad(p, doing[p], held[p])
          /\ UNCHANGED <<doing, calls, completed>>
      BY <1>2 DEF SaveLoaded
    <2>2. UnderWay(p)
      BY <2>1 DEF UnderWay
    <2>3. doing[p] \in [name : Names \cup {Reader}, mark : 1 .. MaxCalls] /\ held[p] \in Contents
      BY <2>2, RegistryAssumption DEF RegistryTyped, RegistryTypeOK, CallsNumbered
    <2>4. RegistryTypeOK'
      BY <2>1, <2>2, <2>3, SaveTyped, AfterLoadTyped DEF RegistryTyped, RegistryTypeOK
    <2>5. \A q \in Processes : UnderWay(q)' => UnderWay(q)
      BY <2>1, <2>2, <2>3, AfterLoadTyped DEF RegistryTyped, UnderWay
    <2>6. \A q \in Processes : stage'[q] = "upsert" => doing[q].name \in Names
      BY <2>1, <2>3, AfterLoadTyped DEF RegistryTyped, CallsNumbered
    <2> QED
      BY <2>1, <2>4, <2>5, <2>6 DEF RegistryTyped, CallsNumbered
  <1>3. ASSUME NEW p \in Processes, SaveUpserted(p) PROVE RegistryTyped'
    <2>1. stage[p] = "upsert" /\ Save(p) /\ completed' = completed \cup {doing[p]}
          /\ stage' = [stage EXCEPT ![p] = "idle"] /\ UNCHANGED <<held, doing, calls>>
      BY <1>3 DEF SaveUpserted
    <2>2. UnderWay(p)
      BY <2>1 DEF UnderWay
    <2>3. doing[p] \in [name : Names, mark : 1 .. MaxCalls] /\ doing[p].mark <= calls
      BY <2>1, <2>2, RegistryAssumption DEF RegistryTyped, RegistryTypeOK, CallsNumbered
    <2>4. RegistryTypeOK'
      BY <2>1, <2>2, <2>3, SaveTyped DEF RegistryTyped, RegistryTypeOK
    <2>5. \A q \in Processes : UnderWay(q)' => UnderWay(q) /\ q # p /\ stage'[q] = stage[q]
      BY <2>1 DEF RegistryTyped, RegistryTypeOK, UnderWay
    <2>6. \A c \in completed' :
            c.mark <= calls /\ \A q \in Processes : UnderWay(q)' => doing[q].mark # c.mark
      BY <2>1, <2>2, <2>3, <2>5 DEF RegistryTyped, CallsNumbered
    <2>7. \A q \in Processes : stage'[q] = "upsert" => stage[q] = "upsert"
      BY <2>1 DEF RegistryTyped, RegistryTypeOK
    <2> QED
      BY <2>1, <2>4, <2>5, <2>6, <2>7 DEF RegistryTyped, CallsNumbered
  <1>4. ASSUME NEW p \in Processes, Die(p) PROVE RegistryTyped'
    <2>1. stage' = [stage EXCEPT ![p] = "idle"] /\ UNCHANGED <<registryFile, held, doing, outdated,
                                                             calls, completed, saved, clobbers>>
      BY <1>4 DEF Die
    <2>2. \A q \in Processes : UnderWay(q)' => UnderWay(q) /\ stage'[q] = stage[q]
      BY <2>1 DEF RegistryTyped, RegistryTypeOK, UnderWay
    <2>3. RegistryTypeOK'
      BY <2>1 DEF RegistryTyped, RegistryTypeOK
    <2>4. \A q \in Processes : stage'[q] = "upsert" => stage[q] = "upsert"
      BY <2>1 DEF RegistryTyped, RegistryTypeOK
    <2> QED
      BY <2>1, <2>2, <2>3, <2>4 DEF RegistryTyped, CallsNumbered
  <1>5. CASE UNCHANGED registryVars
    BY <1>5 DEF registryVars, RegistryTyped, RegistryTypeOK, CallsNumbered, UnderWay
  <1> QED
    BY <1>1, <1>2, <1>3, <1>4, <1>5 DEF RegistryNext

(* The registry and every copy a process holds are registries, the calls   *)
(* stay in their bound, and a completed upsert bears a number of its own:  *)
(* what load_registry, upsert_candidate and save_registry of               *)
(* ver9/registry.py pass to one another.                                   *)
THEOREM RegistryTypeCorrect == RegistrySpec => []RegistryTypeOK
  <1>1. RegistrySpec => []RegistryTyped
    BY InitTyped, NextTyped, PTL DEF RegistrySpec
  <1>2. RegistryTyped => RegistryTypeOK
    BY DEF RegistryTyped
  <1> QED
    BY <1>1, <1>2, PTL

-----------------------------------------------------------------------------
(* Whatever the file was, what a process is about to save, and the file    *)
(* once one has saved, is settled.                                         *)
FilesSettle ==
  /\ saved => Settled(registryFile)
  /\ \A p \in Processes : UnderWay(p) => Settled(held[p])
  /\ completed # {} => saved

LEMMA AfterLoadSettles ==
  ASSUME RegistryTypeOK, NEW p \in Processes, NEW f \in Contents, Settled(f),
         NEW call \in [name : Names \cup {Reader}, mark : 1 .. MaxCalls], AfterLoad(p, call, f)
  PROVE  stage'[p] # "idle" => Settled(held'[p])
  <1>1. CASE call.name = Reader
    BY <1>1 DEF AfterLoad, RegistryTypeOK
  <1>2. CASE call.name # Reader
    <2>1. \A says \in Sayings : Settled(Upserted(f, call.name, call.mark, says))
      BY <1>2, UpsertedSettles
    <2> QED
      BY <1>2, <2>1 DEF AfterLoad, RegistryTypeOK
  <1> QED
    BY <1>1, <1>2

LEMMA NextSettles == RegistryTyped /\ FilesSettle /\ [RegistryNext]_registryVars => FilesSettle'
  <1> SUFFICES ASSUME RegistryTyped, FilesSettle, [RegistryNext]_registryVars
               PROVE  FilesSettle'
    OBVIOUS
  <1>0. RegistryTypeOK /\ registryFile \in Contents
    BY DEF RegistryTyped, RegistryTypeOK
  <1>1. ASSUME NEW p \in Processes, NEW name \in Names \cup {Reader}, Load(p, name)
        PROVE  FilesSettle'
    <2> DEFINE call == [name |-> name, mark |-> calls + 1]
    <2>1. UNCHANGED <<registryFile, completed, saved>>
      BY <1>1 DEF Load
    <2>2. call \in [name : Names \cup {Reader}, mark : 1 .. MaxCalls]
      BY <1>0, <1>1, RegistryAssumption DEF Load, RegistryTypeOK
    <2>3. Loaded(registryFile) \in Contents /\ Settled(Loaded(registryFile))
      BY <1>0, LoadedSettles
    <2>4. \A q \in Processes : stage'[q] # "idle" => Settled(held'[q])
      <3>1. CASE LoadSaves(registryFile)
        <4>1. held' = [held EXCEPT ![p] = Loaded(registryFile)] /\ stage' = [stage EXCEPT ![p] = "load"]
          BY <1>1, <3>1 DEF Load
        <4> QED
          BY <1>0, <2>3, <4>1 DEF FilesSettle, UnderWay, RegistryTypeOK
      <3>2. CASE ~LoadSaves(registryFile)
        <4>1. AfterLoad(p, call, Loaded(registryFile))
          BY <1>1, <3>2 DEF Load
        <4>2. stage'[p] # "idle" => Settled(held'[p])
          BY <1>0, <2>2, <2>3, <4>1, AfterLoadSettles
        <4>3. \A q \in Processes \ {p} : stage'[q] = stage[q] /\ held'[q] = held[q]
          BY <1>0, <2>2, <2>3, <4>1, AfterLoadTyped
        <4> QED
          BY <4>2, <4>3 DEF FilesSettle, UnderWay
      <3> QED
        BY <3>1, <3>2
    <2> QED
      BY <2>1, <2>4 DEF FilesSettle, UnderWay
  <1>2. ASSUME NEW p \in Processes, SaveLoaded(p) PROVE FilesSettle'
    <2>1. stage[p] = "load" /\ Save(p) /\ AfterLoad(p, doing[p], held[p]) /\ UNCHANGED completed
      BY <1>2 DEF SaveLoaded
    <2>2. UnderWay(p) /\ Settled(held[p])
      BY <2>1 DEF UnderWay, FilesSettle
    <2>3. doing[p] \in [name : Names \cup {Reader}, mark : 1 .. MaxCalls] /\ held[p] \in Contents
      BY <2>2, RegistryAssumption DEF RegistryTyped, RegistryTypeOK, CallsNumbered
    <2>4. registryFile' = held[p] /\ saved'
      BY <1>0, <2>1, <2>2, SaveTyped
    <2>5. stage'[p] # "idle" => Settled(held'[p])
      BY <1>0, <2>1, <2>2, <2>3, AfterLoadSettles
    <2>6. \A q \in Processes \ {p} : stage'[q] = stage[q] /\ held'[q] = held[q]
      BY <1>0, <2>1, <2>3, AfterLoadTyped
    <2> QED
      BY <2>2, <2>4, <2>5, <2>6 DEF FilesSettle, UnderWay
  <1>3. ASSUME NEW p \in Processes, SaveUpserted(p) PROVE FilesSettle'
    <2>1. stage[p] = "upsert" /\ Save(p) /\ UNCHANGED held /\ stage' = [stage EXCEPT ![p] = "idle"]
      BY <1>3 DEF SaveUpserted
    <2>2. UnderWay(p) /\ Settled(held[p])
      BY <2>1 DEF UnderWay, FilesSettle
    <2>3. registryFile' = held[p] /\ saved'
      BY <1>0, <2>1, <2>2, SaveTyped
    <2> QED
      BY <1>0, <2>1, <2>2, <2>3 DEF FilesSettle, UnderWay, RegistryTypeOK
  <1>4. ASSUME NEW p \in Processes, Die(p) PROVE FilesSettle'
    BY <1>0, <1>4 DEF Die, FilesSettle, UnderWay, RegistryTypeOK
  <1>5. CASE UNCHANGED registryVars
    BY <1>5 DEF registryVars, FilesSettle, UnderWay
  <1> QED
    BY <1>1, <1>2, <1>3, <1>4, <1>5 DEF RegistryNext

(* A file somebody has saved makes a load write only for the mark of a     *)
(* recovery, an incomplete or a stale record, which the code never cleans; *)
(* any other load of it only reads: load_registry and                      *)
(* _migrate_legacy_entries of ver9/registry.py.                            *)
THEOREM LoadsOnlySettle == RegistrySpec => []LoadsSettle
  <1>1. RegistryInit => FilesSettle
    BY DEF RegistryInit, FilesSettle, UnderWay
  <1>2. RegistrySpec => [](RegistryTyped /\ FilesSettle)
    BY <1>1, InitTyped, NextTyped, NextSettles, PTL DEF RegistrySpec
  <1>3. RegistryTyped /\ FilesSettle => LoadsSettle
    <2> SUFFICES ASSUME RegistryTyped, FilesSettle, saved, LoadSaves(registryFile)
                 PROVE  NeverCleaned(registryFile)
      BY DEF LoadsSettle
    <2>1. Settled(registryFile) /\ registryFile.entries \in [Names -> EntrySpace]
      BY DEF FilesSettle, RegistryTyped, RegistryTypeOK, Contents, EntrySpace
    <2>2. registryFile.recovered \/ Changed(registryFile.entries)
      BY <2>1 DEF LoadSaves, Settled
    <2>3. ASSUME NEW n \in Names, registryFile.entries[n] # Nothing,
                 registryFile.entries[n].kind # "sound" \/ NormalName[n] # n
          PROVE  registryFile.entries[n].kind \in {"incomplete", "stale"}
      BY <2>1, <2>3, NothingIsNone DEF Settled
    <2> QED
      BY <2>2, <2>3 DEF NeverCleaned, Changed
  <1> QED
    BY <1>2, <1>3, PTL

-----------------------------------------------------------------------------
(* The copy of a process whose read nobody has overtaken is what its call  *)
(* makes of the file that is there.                                        *)
CopiesCurrent ==
  \A p \in Processes : ~outdated[p] =>
    /\ stage[p] = "load" => held[p] = Loaded(registryFile)
    /\ stage[p] = "upsert" =>
         \E f \in {registryFile, Loaded(registryFile)}, says \in Sayings :
           held[p] = Upserted(f, doing[p].name, doing[p].mark, says)

LEMMA NextCurrent ==
  RegistryTyped /\ CopiesCurrent /\ [RegistryNext]_registryVars => CopiesCurrent'
  <1> SUFFICES ASSUME RegistryTyped, CopiesCurrent, [RegistryNext]_registryVars
               PROVE  CopiesCurrent'
    OBVIOUS
  <1>0. RegistryTypeOK /\ registryFile \in Contents
    BY DEF RegistryTyped, RegistryTypeOK
  <1>1. ASSUME NEW p \in Processes, NEW name \in Names \cup {Reader}, Load(p, name)
        PROVE  CopiesCurrent'
    <2> DEFINE call == [name |-> name, mark |-> calls + 1]
    <2>1. UNCHANGED registryFile /\ doing' = [doing EXCEPT ![p] = call]
          /\ outdated' = [outdated EXCEPT ![p] = FALSE]
      BY <1>1 DEF Load
    <2>2. call \in [name : Names \cup {Reader}, mark : 1 .. MaxCalls]
      BY <1>0, <1>1, RegistryAssumption DEF Load, RegistryTypeOK
    <2>3. Loaded(registryFile) \in Contents
      BY <1>0, LoadedSettles
    <2>4. /\ \A q \in Processes \ {p} : stage'[q] = stage[q] /\ held'[q] = held[q]
          /\ stage'[p] = "load" => held'[p] = Loaded(registryFile)
          /\ stage'[p] = "upsert" =>
               \E says \in Sayings :
                 held'[p] = Upserted(Loaded(registryFile), call.name, call.mark, says)
      <3>1. CASE LoadSaves(registryFile)
        <4>1. held' = [held EXCEPT ![p] = Loaded(registryFile)] /\ stage' = [stage EXCEPT ![p] = "load"]
          BY <1>1, <3>1 DEF Load
        <4> QED
          BY <1>0, <4>1 DEF RegistryTypeOK
      <3>2. CASE ~LoadSaves(registryFile)
        <4>1. AfterLoad(p, call, Loaded(registryFile))
          BY <1>1, <3>2 DEF Load
        <4>2. \A q \in Processes \ {p} : stage'[q] = stage[q] /\ held'[q] = held[q]
          BY <1>0, <2>2, <2>3, <4>1, AfterLoadTyped
        <4>3. stage'[p] # "load"
          BY <1>0, <2>2, <2>3, <4>1, AfterLoadTyped
        <4>4. stage'[p] = "upsert" =>
                \E says \in Sayings :
                  held'[p] = Upserted(Loaded(registryFile), call.name, call.mark, says)
          BY <1>0, <4>1 DEF AfterLoad, RegistryTypeOK
        <4> QED
          BY <4>2, <4>3, <4>4
      <3> QED
        BY <3>1, <3>2
    <2> HIDE DEF call
    <2>5. doing'[p] = call /\ \A q \in Processes \ {p} : doing'[q] = doing[q] /\ outdated'[q] = outdated[q]
      BY <1>0, <2>1 DEF RegistryTypeOK
    <2> QED
      BY <2>1, <2>4, <2>5 DEF CopiesCurrent
  <1>2. ASSUME NEW p \in Processes, SaveLoaded(p) PROVE CopiesCurrent'
    <2>1. stage[p] = "load" /\ Save(p) /\ AfterLoad(p, doing[p], held[p]) /\ UNCHANGED doing
      BY <1>2 DEF SaveLoaded
    <2>2. UnderWay(p)
      BY <2>1 DEF UnderWay
    <2>3. doing[p] \in [name : Names \cup {Reader}, mark : 1 .. MaxCalls] /\ held[p] \in Contents
      BY <2>2, RegistryAssumption DEF RegistryTyped, RegistryTypeOK, CallsNumbered
    <2>4. registryFile' = held[p] /\ \A q \in Processes \ {p} : outdated'[q]
      BY <1>0, <2>1, <2>2, SaveTyped
    <2>5. stage'[p] # "load"
      BY <1>0, <2>1, <2>3, AfterLoadTyped
    <2>6. stage'[p] = "upsert" =>
            \E says \in Sayings :
              held'[p] = Upserted(held[p], doing[p].name, doing[p].mark, says)
      BY <1>0, <2>1 DEF AfterLoad, RegistryTypeOK
    <2> QED
      BY <2>1, <2>4, <2>5, <2>6 DEF CopiesCurrent
  <1>3. ASSUME NEW p \in Processes, SaveUpserted(p) PROVE CopiesCurrent'
    <2>1. stage[p] = "upsert" /\ Save(p) /\ stage' = [stage EXCEPT ![p] = "idle"]
      BY <1>3 DEF SaveUpserted
    <2>2. \A q \in Processes \ {p} : outdated'[q]
      BY <1>0, <2>1, SaveTyped DEF UnderWay
    <2>3. stage'[p] = "idle"
      BY <1>0, <2>1 DEF RegistryTypeOK
    <2> QED
      BY <2>2, <2>3 DEF CopiesCurrent
  <1>4. ASSUME NEW p \in Processes, Die(p) PROVE CopiesCurrent'
    BY <1>0, <1>4 DEF Die, CopiesCurrent, RegistryTypeOK
  <1>5. CASE UNCHANGED registryVars
    BY <1>5 DEF registryVars, CopiesCurrent
  <1> QED
    BY <1>1, <1>2, <1>3, <1>4, <1>5 DEF RegistryNext

-----------------------------------------------------------------------------
(* As long as no outdated copy was saved. *)
Displaced(call, all) ==
  \E other \in all :
    /\ other.mark # call.mark
    /\ NormalName[other.name] = NormalName[call.name]
    /\ other.name # NormalName[other.name]

UpsertsKept ==
  clobbers = {} => \A call \in completed : KeptIn(registryFile, call) \/ Displaced(call, completed)

LEMMA NextKeeps ==
  ASSUME RegistryTyped, FilesSettle, CopiesCurrent, UpsertsKept, [RegistryNext]_registryVars
  PROVE  UpsertsKept'
  <1>0. RegistryTypeOK /\ registryFile \in Contents
    BY DEF RegistryTyped, RegistryTypeOK
  <1>1. ASSUME UNCHANGED <<registryFile, completed, clobbers>> PROVE UpsertsKept'
    BY <1>1 DEF UpsertsKept
  <1>2. ASSUME NEW p \in Processes, SaveLoaded(p), clobbers' = {}, NEW call \in completed'
        PROVE  KeptIn(registryFile', call) \/ Displaced(call, completed')
    <2>1. stage[p] = "load" /\ Save(p) /\ UNCHANGED completed
      BY <1>2 DEF SaveLoaded
    <2>2. registryFile' = held[p] /\ clobbers = {} /\ ~outdated[p]
      BY <1>0, <1>2, <2>1, SaveTyped DEF UnderWay
    <2>3. registryFile' = Loaded(registryFile)
      BY <2>1, <2>2 DEF CopiesCurrent
    <2>4. call.name \in Names /\ Settled(registryFile)
      BY <1>0, <1>2, <2>1 DEF RegistryTypeOK, FilesSettle
    <2>5. KeptIn(registryFile, call) => KeptIn(registryFile', call)
      BY <1>0, <2>3, <2>4, LoadedKeeps
    <2> QED
      BY <1>2, <2>1, <2>2, <2>5 DEF UpsertsKept
  <1>3. ASSUME NEW p \in Processes, SaveUpserted(p), clobbers' = {}, NEW call \in completed'
        PROVE  KeptIn(registryFile', call) \/ Displaced(call, completed')
    <2>1. stage[p] = "upsert" /\ Save(p) /\ completed' = completed \cup {doing[p]}
      BY <1>3 DEF SaveUpserted
    <2>2. registryFile' = held[p] /\ clobbers = {} /\ ~outdated[p] /\ UnderWay(p)
      BY <1>0, <1>3, <2>1, SaveTyped DEF UnderWay
    <2>3. PICK f \in {registryFile, Loaded(registryFile)}, says \in Sayings :
            held[p] = Upserted(f, doing[p].name, doing[p].mark, says)
      BY <2>1, <2>2 DEF CopiesCurrent
    <2>4. f \in Contents
      BY <1>0, LoadedSettles
    <2>5. doing[p].name \in Names /\ doing[p].mark \in 1 .. MaxCalls
      BY <1>0, <2>1, <2>2, RegistryAssumption DEF RegistryTyped, CallsNumbered, RegistryTypeOK
    <2>6. CASE call = doing[p]
      BY <2>2, <2>3, <2>4, <2>5, <2>6, UpsertedKeeps
    <2>7. CASE call \in completed
      <3>1. call.name \in Names /\ Settled(registryFile) /\ call.mark # doing[p].mark
        BY <1>0, <2>2, <2>7 DEF RegistryTypeOK, FilesSettle, RegistryTyped, CallsNumbered
      <3>2. CASE Displaced(call, completed)
        BY <2>1, <3>2 DEF Displaced
      <3>3. CASE KeptIn(registryFile, call)
        <4>1. KeptIn(f, call)
          BY <1>0, <3>1, <3>3, LoadedKeeps
        <4>2. \/ KeptIn(registryFile', call)
              \/ /\ NormalName[doing[p].name] = NormalName[call.name]
                 /\ doing[p].name # NormalName[doing[p].name]
          BY <2>2, <2>3, <2>4, <2>5, <3>1, <4>1, UpsertedKeeps
        <4> QED
          BY <2>1, <3>1, <4>2 DEF Displaced
      <3> QED
        BY <2>2, <2>7, <3>2, <3>3 DEF UpsertsKept
    <2> QED
      BY <1>3, <2>1, <2>6, <2>7
  <1>4. ASSUME NEW p \in Processes, NEW name \in Names \cup {Reader}, Load(p, name)
        PROVE  UpsertsKept'
    BY <1>1, <1>4 DEF Load
  <1>5. ASSUME NEW p \in Processes, Die(p) PROVE UpsertsKept'
    BY <1>1, <1>5 DEF Die
  <1>6. CASE UNCHANGED registryVars
    BY <1>1, <1>6 DEF registryVars
  <1> QED
    BY <1>2, <1>3, <1>4, <1>5, <1>6 DEF RegistryNext, UpsertsKept

(* An upsert that has returned is in the registry, or an outdated copy was *)
(* saved over it, or a later upsert used a name the migration does not     *)
(* keep and merged into nothing: upsert_candidate of ver9/registry.py.     *)
THEOREM NoUpsertIsLostSilently == RegistrySpec => []LostUpsertsHaveACause
  <1>1. RegistryInit => FilesSettle /\ CopiesCurrent /\ UpsertsKept
    BY DEF RegistryInit, FilesSettle, CopiesCurrent, UpsertsKept, UnderWay
  <1>2. RegistrySpec => [](RegistryTyped /\ FilesSettle /\ CopiesCurrent /\ UpsertsKept)
    BY <1>1, InitTyped, NextTyped, NextSettles, NextCurrent, NextKeeps, PTL DEF RegistrySpec
  <1>3. UpsertsKept => LostUpsertsHaveACause
    BY DEF UpsertsKept, LostUpsertsHaveACause, KeptIn, Kept, Displaced
  <1> QED
    BY <1>2, <1>3, PTL

-----------------------------------------------------------------------------
(* The composition. *)

(* Whichever of the parts a behaviour is of, the log and its checkpoint,   *)
(* the registry and its readers and the session stay of their kinds.       *)
THEOREM TypeCorrect == Spec => []TypeOK
  <1>1. Init => RecoveryInv /\ RegistryTyped /\ SessionTyped
    BY InitInv, InitTyped, InitSession DEF Init
  <1>2. RecoveryInv /\ RegistryTyped /\ SessionTyped /\ [Next]_<<recoveryVars, registryVars, sessionVars, subject>>
          => RecoveryInv' /\ RegistryTyped' /\ SessionTyped'
    <2> SUFFICES ASSUME RecoveryInv, RegistryTyped, SessionTyped,
                        [Next]_<<recoveryVars, registryVars, sessionVars, subject>>
                 PROVE  RecoveryInv' /\ RegistryTyped' /\ SessionTyped'
      OBVIOUS
    <2>1. [RecoveryNext]_recoveryVars /\ [RegistryNext]_registryVars /\ [SessionNext]_sessionVars
      BY DEF Next, Events_, Registry_, Session_
    <2> QED
      BY <2>1, NextInv, NextTyped, NextSession
  <1>3. RecoveryInv /\ RegistryTyped /\ SessionTyped => TypeOK
    BY DEF RecoveryInv, RegistryTyped, SessionTyped, TypeOK
  <1> QED
    BY <1>1, <1>2, <1>3, PTL DEF Spec
=============================================================================
