-------------------------- MODULE OrderExecutionProofs --------------------------
(***************************************************************************)
(* Theorems about OrderExecution, for any number of tasks, any quantities  *)
(* and any bounds on calls and faults.                                     *)
(***************************************************************************)
EXTENDS OrderExecution, TLAPS

(* The statuses the engine assigns. *)
LEMMA StatusType ==
  {"CREATED", "SUBMITTED", "ACKNOWLEDGED", "PARTIALLY_FILLED", "FILLED",
   "CANCEL_PENDING", "CANCELLED"} \subseteq L!Statuses
  BY DEF L!Statuses

(* What a task that retries or raises does. *)
LEMMA RetriesEffect ==
  ASSUME TypeOK, NEW t \in Tasks, task[t] # Idle, Retries(t)
  PROVE  /\ task' \in [Tasks -> Calls \cup {Idle}]
         /\ \/ /\ UNCHANGED <<order, journal, seen>>
               /\ task'[t] # Idle /\ task'[t].kind = task[t].kind
            \/ /\ UNCHANGED <<order, journal>>
               /\ seen' = seen \cup {"raised"} /\ task'[t] = Idle
         /\ \A u \in Tasks \ {t} : task'[u] = task[u]
  <1>1. CASE task[t].attempt < max_attempts
    <2>1. task[t] \in Calls
      BY DEF TypeOK
    <2> DEFINE c == Repeated(t, task[t].attempt + 1)
    <2>2. task' = [task EXCEPT ![t] = c]
      BY <1>1 DEF Retries
    <2>3. c \in Calls /\ c.kind = task[t].kind
      <3>1. task[t].attempt + 1 \in 1 .. max_attempts
        BY <1>1, <2>1, OrderAssumption DEF Calls
      <3>2. quantity \in Quantities
        BY DEF TypeOK
      <3>3. CASE task[t].kind = "submit"
        BY <2>1, <3>1, <3>2, <3>3 DEF Calls, Repeated
      <3>4. CASE task[t].kind # "submit"
        BY <2>1, <3>1, <3>4 DEF Calls, Repeated
      <3> QED
        BY <3>3, <3>4
    <2>4. task'[t] = c /\ \A u \in Tasks \ {t} : task'[u] = task[u]
      BY <2>2 DEF TypeOK
    <2>5. c # Idle
      BY <2>3 DEF Calls, Idle
    <2> HIDE DEF c
    <2> QED
      BY <1>1, <2>2, <2>3, <2>4, <2>5 DEF Retries, TypeOK
  <1>2. CASE ~(task[t].attempt < max_attempts)
    BY <1>2 DEF Retries, Raises, Ends, TypeOK
  <1> QED
    BY <1>1, <1>2

(* A task that sends its first request. *)
LEMMA SendEffect ==
  ASSUME TypeOK, NEW t \in Tasks, NEW kind \in Kinds, NEW q \in Quantities, Send(t, kind, q)
  PROVE  /\ task' \in [Tasks -> Calls \cup {Idle}]
         /\ task'[t] # Idle /\ task'[t].kind = kind /\ task[t] = Idle
         /\ \A u \in Tasks \ {t} : task'[u] = task[u]
         /\ calls' \in Nat
         /\ UNCHANGED <<quantity, filled, journal, market, feed, faults, feedFaults, seen>>
  <1> DEFINE c == [kind |-> kind, at |-> "sent", attempt |-> 1, quantity |-> q]
  <1>1. c \in Calls /\ c # Idle /\ c.kind = kind
    BY OrderAssumption DEF Calls, Idle, Kinds
  <1>2. task' = [task EXCEPT ![t] = c]
    BY DEF Send
  <1> HIDE DEF c
  <1> QED
    BY <1>1, <1>2 DEF Send, TypeOK

(* The exchange answers, and the task goes on awaiting. *)
LEMMA HandleEffect ==
  ASSUME TypeOK, NEW t \in Tasks, Handle(t)
  PROVE  /\ task' \in [Tasks -> Calls \cup {Idle}]
         /\ task'[t] # Idle /\ task'[t].kind = task[t].kind
         /\ \A u \in Tasks \ {t} : task'[u] = task[u]
         /\ seen \subseteq seen' /\ seen' \subseteq seen \cup {"amended", "reopened"}
         /\ UNCHANGED <<order, journal, feed, bounds>>
  <1>1. task[t] \in Calls
    BY DEF Handle, TypeOK
  <1>2. PICK outcome \in {"answered", "refused"} : Handled(t, outcome)
    BY DEF Handle, HandleSubmit, HandleCancel, HandleReplace
  <1> DEFINE c == [task[t] EXCEPT !.at = outcome]
  <1>3. c \in Calls /\ c # Idle /\ c.kind = task[t].kind
    BY <1>1 DEF Calls, Idle
  <1>4. task' = [task EXCEPT ![t] = c]
    BY <1>2 DEF Handled
  <1> HIDE DEF c
  <1>5. /\ task' \in [Tasks -> Calls \cup {Idle}]
        /\ task'[t] = c /\ \A u \in Tasks \ {t} : task'[u] = task[u]
    BY <1>3, <1>4 DEF TypeOK
  <1>6. seen \subseteq seen' /\ seen' \subseteq seen \cup {"amended", "reopened"}
    BY DEF Handle, HandleSubmit, HandleCancel, HandleReplace
  <1> QED
    BY <1>3, <1>5, <1>6 DEF Handle

(* A task that resumes ends its call. *)
LEMMA ResumeEffect ==
  ASSUME TypeOK, NEW t \in Tasks, Resume(t)
  PROVE  /\ task' = [task EXCEPT ![t] = Idle]
         /\ task' \in [Tasks -> Calls \cup {Idle}]
         /\ task'[t] = Idle /\ \A u \in Tasks \ {t} : task'[u] = task[u]
  BY DEF Resume, Acknowledges, Cancels, Replaces, Raises, Ends, TypeOK

(* The exchange's view of the order stays a view of an order. *)
Books == [state : {"none", "open", "executed", "cancelled"},
          quantity : Nat, executed : Nat]

(* What the journal gives for it. *)
Records == [known : BOOLEAN, status : L!Statuses, quantity : Nat, filled : Nat]

LEMMA HandleKeepsBooks ==
  ASSUME TypeOK, NEW t \in Tasks, Handle(t)
  PROVE  exchange' \in Books /\ stray' \in Nat
  <1>1. exchange \in Books /\ stray \in Nat
    BY DEF TypeOK, Books
  <1>2. task[t].quantity \in Nat
    BY OrderAssumption DEF Handle, TypeOK, Calls
  <1>3. CASE HandleSubmit(t)
    <2>1. stray' \in Nat
      BY <1>1, <1>2, <1>3 DEF HandleSubmit, market
    <2>2. \/ exchange' = exchange
          \/ exchange' = [state |-> "open", quantity |-> task[t].quantity, executed |-> 0]
      BY <1>3 DEF HandleSubmit, market
    <2> QED
      BY <1>1, <1>2, <2>1, <2>2 DEF Books
  <1>4. CASE HandleCancel(t)
    <2>1. exchange' = exchange \/ exchange' = [exchange EXCEPT !.state = "cancelled"]
      BY <1>4 DEF HandleCancel
    <2> QED
      BY <1>1, <1>4, <2>1 DEF HandleCancel, Books
  <1>5. CASE HandleReplace(t)
    <2>1. exchange' = exchange \/ exchange' = Amended(task[t].quantity)
      BY <1>5 DEF HandleReplace
    <2>2. Amended(task[t].quantity) \in Books
      BY <1>1, <1>2 DEF Amended, Books
    <2> QED
      BY <1>1, <1>5, <2>1, <2>2 DEF HandleReplace
  <1> QED
    BY <1>3, <1>4, <1>5 DEF Handle

(* What an answered call leaves behind. *)
LEMMA ResumeKeepsOrder ==
  ASSUME TypeOK, NEW t \in Tasks, Resume(t)
  PROVE  /\ status' \in L!Statuses /\ quantity' \in Quantities
         /\ filled' = filled /\ seen' \subseteq Anomalies
         /\ \/ UNCHANGED <<status, quantity, journal>>
            \/ journal' = [known |-> TRUE, status |-> status', quantity |-> quantity',
                           filled |-> filled']
  <1>1. task[t].quantity \in Quantities
    BY DEF Resume, Calls, TypeOK
  <1>2. CASE Acknowledges(t)
    BY <1>2, StatusType DEF Acknowledges, JournalOrder, Raises, order, TypeOK, Anomalies
  <1>3. CASE Cancels(t)
    BY <1>3, StatusType DEF Cancels, JournalOrder, Raises, order, TypeOK, Anomalies
  <1>4. CASE Replaces(t)
    BY <1>1, <1>4 DEF Replaces, JournalOrder, TypeOK
  <1> QED
    BY <1>2, <1>3, <1>4 DEF Resume

-----------------------------------------------------------------------------
LEMMA InitTyped == Init => TypeOK
  BY StatusType, OrderAssumption DEF Init, TypeOK

LEMMA NextTyped == TypeOK /\ [Next]_vars => TypeOK'
  <1> SUFFICES ASSUME TypeOK, [Next]_vars PROVE TypeOK'
    OBVIOUS
  <1> USE DEF order, market, bounds
  <1>1. ASSUME NEW t \in Tasks, BeginSubmit(t) PROVE TypeOK'
    <2>1. Send(t, "submit", quantity) /\ status' = "SUBMITTED"
      BY <1>1 DEF BeginSubmit
    <2> QED
      BY <2>1, SendEffect, StatusType DEF TypeOK, Kinds
  <1>2. ASSUME NEW t \in Tasks, BeginCancel(t) PROVE TypeOK'
    <2>1. Send(t, "cancel", quantity) /\ status' = "CANCEL_PENDING"
      BY <1>2 DEF BeginCancel
    <2> QED
      BY <2>1, SendEffect, StatusType DEF TypeOK, Kinds
  <1>3. ASSUME NEW t \in Tasks, NEW q \in Quantities, BeginReplace(t, q) PROVE TypeOK'
    <2>1. Send(t, "replace", q) /\ UNCHANGED status
      BY <1>3 DEF BeginReplace
    <2> QED
      BY <2>1, SendEffect DEF TypeOK, Kinds
  <1>4. ASSUME NEW t \in Tasks, Handle(t) PROVE TypeOK'
    <2>7. exchange' \in Books /\ stray' \in Nat
      BY <1>4, HandleKeepsBooks
    <2> QED
      BY <1>4, <2>7, HandleEffect DEF TypeOK, Anomalies, Books
  <1>5. ASSUME NEW t \in Tasks, Resume(t) PROVE TypeOK'
    <2>1. /\ status' \in L!Statuses /\ quantity' \in Quantities /\ quantity' \in Nat
          /\ filled' \in Nat /\ seen' \subseteq Anomalies
      BY <1>5, ResumeKeepsOrder, OrderAssumption DEF TypeOK
    <2>2. journal' \in Records
      <3>1. CASE UNCHANGED journal
        BY <3>1 DEF TypeOK, Records
      <3>2. CASE journal' = [known |-> TRUE, status |-> status', quantity |-> quantity',
                             filled |-> filled']
        BY <2>1, <3>2 DEF Records
      <3> QED
        BY <1>5, <3>1, <3>2, ResumeKeepsOrder
    <2>3. UNCHANGED <<market, feed, bounds>>
      BY <1>5 DEF Resume
    <2> QED
      BY <1>5, <2>1, <2>2, <2>3, ResumeEffect DEF TypeOK, Records
  <1>6. ASSUME NEW t \in Tasks, Fault(t) PROVE TypeOK'
    <2>1. task[t] # Idle /\ Retries(t) /\ faults' \in Nat
      BY <1>6 DEF Fault, TypeOK
    <2>2. /\ task' \in [Tasks -> Calls \cup {Idle}]
          /\ UNCHANGED <<order, journal>> /\ seen' \subseteq Anomalies
      BY <2>1, RetriesEffect DEF TypeOK, Anomalies
    <2>3. UNCHANGED <<market, feed, calls, feedFaults>>
      BY <1>6 DEF Fault
    <2> QED
      BY <2>1, <2>2, <2>3 DEF TypeOK
  <1>7. ASSUME NEW t \in Tasks, Refused(t) PROVE TypeOK'
    <2>1. task[t] # Idle /\ Retries(t)
      BY <1>7 DEF Refused
    <2>2. /\ task' \in [Tasks -> Calls \cup {Idle}]
          /\ UNCHANGED <<order, journal>> /\ seen' \subseteq Anomalies
      BY <2>1, RetriesEffect DEF TypeOK, Anomalies
    <2>3. UNCHANGED <<market, feed, bounds>>
      BY <1>7 DEF Refused
    <2> QED
      BY <2>2, <2>3 DEF TypeOK
  <1>8. CASE Executes
    <2>1. exchange' \in Books /\ stray' \in Nat /\ feed' \in Nat
      <3>1. /\ feed' \in Nat
            /\ stray' \in Nat
        BY <1>8 DEF Executes, TypeOK
      <3>2. exchange \in Books /\ exchange.executed + 1 \in Nat
        BY DEF TypeOK, Books
      <3> DEFINE done == exchange.executed + 1
      <3>3. \/ exchange' = exchange
            \/ exchange' = [exchange EXCEPT !.executed = done]
            \/ exchange' = [exchange EXCEPT !.executed = done, !.state = "executed"]
        <4>1. CASE exchange.executed + 1 = exchange.quantity
          BY <1>8, <4>1 DEF Executes
        <4>2. CASE exchange.executed + 1 # exchange.quantity
          <5>1. \/ exchange' = exchange
                \/ exchange' = [exchange EXCEPT !.executed = done, !.state = exchange.state]
            BY <1>8, <4>2 DEF Executes
          <5> QED
            BY <3>2, <5>1 DEF Books
        <4> QED
          BY <4>1, <4>2
      <3>4. done \in Nat
        BY <3>2
      <3> HIDE DEF done
      <3>5. exchange' \in Books
        BY <3>2, <3>3, <3>4 DEF Books
      <3> QED
        BY <3>1, <3>5
    <2> QED
      BY <1>8, <2>1 DEF Executes, TypeOK, Books
  <1>9. CASE Deliver \/ DeliverTwice
    <2>1. /\ status' \in {"FILLED", "PARTIALLY_FILLED"} /\ filled' \in Nat
          /\ journal' = [journal EXCEPT !.status = status', !.filled = @ + 1]
          /\ feed' \in Nat /\ feedFaults' \in Nat /\ seen' \subseteq Anomalies
          /\ UNCHANGED <<quantity, task, market, calls, faults>>
      BY <1>9
      DEF Deliver, DeliverTwice, ApplyFill, FilledStatus, Noticed, TypeOK, Anomalies
    <2>2. journal' \in Records
      <3>1. journal \in Records /\ journal.filled + 1 \in Nat /\ status' \in L!Statuses
        BY <2>1, StatusType DEF TypeOK, Records
      <3> QED
        BY <2>1, <3>1 DEF Records
    <2> QED
      BY <2>1, <2>2, StatusType DEF TypeOK, Records
  <1>10. CASE Drop
    BY <1>10 DEF Drop, TypeOK, Anomalies
  <1>11. CASE UNCHANGED vars
    BY <1>11 DEF vars, TypeOK
  <1> QED
    BY <1>1, <1>2, <1>3, <1>4, <1>5, <1>6, <1>7, <1>8, <1>9, <1>10, <1>11
    DEF Next, Progress

(* The order, the journal and the exchange stay of their kinds. *)
THEOREM TypeCorrect == Spec => []TypeOK
  BY InitTyped, NextTyped, PTL DEF Spec
-----------------------------------------------------------------------------
(* Nothing but a replacement, which changes no status, can be under way    *)
(* before the order has been submitted.                                    *)
UntouchedUntilSubmitted ==
  status = "CREATED" =>
    /\ exchange.state = "none" /\ feed = 0 /\ stray = 0
    /\ \A t \in Tasks : task[t].kind \notin {"submit", "cancel"}

(* CREATED is never a status an order returns to. *)
LEMMA CreatedOnce ==
  ASSUME TypeOK, [Next]_vars, status' = "CREATED"
  PROVE  status = "CREATED" /\ UNCHANGED <<status, filled>>
  <1> USE DEF order
  <1>1. ASSUME NEW t \in Tasks, Resume(t) PROVE status = "CREATED" /\ UNCHANGED <<status, filled>>
    BY <1>1 DEF Resume, Acknowledges, Cancels, Replaces, Raises
  <1>2. ASSUME NEW t \in Tasks, Fault(t) \/ Refused(t)
        PROVE  status = "CREATED" /\ UNCHANGED <<status, filled>>
    BY <1>2 DEF Fault, Refused, Retries, Raises
  <1>3. ASSUME NEW t \in Tasks, Handle(t) PROVE status = "CREATED" /\ UNCHANGED <<status, filled>>
    BY <1>3 DEF Handle
  <1>4. ASSUME NEW t \in Tasks, NEW q \in Quantities, BeginReplace(t, q)
        PROVE  status = "CREATED" /\ UNCHANGED <<status, filled>>
    BY <1>4 DEF BeginReplace, Send
  <1>5. ~ \E t \in Tasks : BeginSubmit(t) \/ BeginCancel(t)
    BY DEF BeginSubmit, BeginCancel
  <1>6. ~ (Deliver \/ DeliverTwice)
    BY DEF Deliver, DeliverTwice, ApplyFill, FilledStatus
  <1>7. CASE Executes \/ Drop \/ UNCHANGED vars
    BY <1>7 DEF Executes, Drop, vars
  <1> QED
    BY <1>1, <1>2, <1>3, <1>4, <1>5, <1>6, <1>7 DEF Next, Progress

LEMMA InitUntouched == Init => UntouchedUntilSubmitted
  BY DEF Init, UntouchedUntilSubmitted, Idle

LEMMA NextUntouched ==
  TypeOK /\ UntouchedUntilSubmitted /\ [Next]_vars => UntouchedUntilSubmitted'
  <1> SUFFICES ASSUME TypeOK, UntouchedUntilSubmitted, [Next]_vars, status' = "CREATED"
               PROVE  /\ exchange'.state = "none" /\ feed' = 0 /\ stray' = 0
                      /\ \A u \in Tasks : task'[u].kind \notin {"submit", "cancel"}
    BY DEF UntouchedUntilSubmitted
  <1> USE DEF market, bounds
  <1>0. /\ exchange.state = "none" /\ feed = 0 /\ stray = 0
        /\ \A u \in Tasks : task[u].kind \notin {"submit", "cancel"}
    BY CreatedOnce DEF UntouchedUntilSubmitted
  <1> DEFINE Goal == /\ exchange'.state = "none" /\ feed' = 0 /\ stray' = 0
                     /\ \A u \in Tasks : task'[u].kind \notin {"submit", "cancel"}
  <1>1. ASSUME NEW t \in Tasks, BeginSubmit(t) \/ BeginCancel(t) PROVE FALSE
    BY <1>1 DEF BeginSubmit, BeginCancel
  <1>2. ASSUME NEW t \in Tasks, NEW q \in Quantities, BeginReplace(t, q) PROVE Goal
    <2>1. Send(t, "replace", q) /\ "replace" \in Kinds
      BY <1>2 DEF BeginReplace, Kinds
    <2> QED
      BY <1>0, <2>1, SendEffect
  <1>3. ASSUME NEW t \in Tasks, Handle(t) PROVE Goal
    <2>1. UNCHANGED <<exchange, stray, feed>>
      BY <1>0, <1>3 DEF Handle, HandleSubmit, HandleCancel, HandleReplace
    <2>2. \A u \in Tasks : task'[u].kind = task[u].kind
      BY <1>3, HandleEffect
    <2> QED
      BY <1>0, <2>1, <2>2
  <1>4. ASSUME NEW t \in Tasks, Resume(t) PROVE Goal
    <2>1. UNCHANGED <<exchange, stray, feed>>
      BY <1>4 DEF Resume
    <2>2. \A u \in Tasks : task'[u].kind \in {task[u].kind, "none"}
      BY <1>4, ResumeEffect DEF Idle
    <2> QED
      BY <1>0, <2>1, <2>2
  <1>5. ASSUME NEW t \in Tasks, Fault(t) \/ Refused(t) PROVE Goal
    <2>1. task[t] # Idle /\ Retries(t) /\ UNCHANGED <<exchange, stray, feed>>
      BY <1>5 DEF Fault, Refused
    <2>2. \A u \in Tasks : task'[u].kind \in {task[u].kind, "none"}
      BY <2>1, RetriesEffect DEF Idle
    <2> QED
      BY <1>0, <2>1, <2>2
  <1>6. CASE Executes \/ Deliver \/ DeliverTwice \/ Drop
    BY <1>0, <1>6 DEF Executes, Deliver, DeliverTwice, Drop
  <1>7. CASE UNCHANGED vars
    BY <1>0, <1>7 DEF vars
  <1> QED
    BY <1>1, <1>2, <1>3, <1>4, <1>5, <1>6, <1>7 DEF Next, Progress

(* Every step is one the lifecycle knows, or none. *)
LEMMA NextIsLifecycle ==
  TypeOK /\ UntouchedUntilSubmitted /\ [Next]_vars => [L!Move \/ L!Fill]_<<status, filled>>
  <1> SUFFICES ASSUME TypeOK, UntouchedUntilSubmitted, [Next]_vars
               PROVE  L!Move \/ L!Fill \/ UNCHANGED <<status, filled>>
    OBVIOUS
  <1> USE DEF order
  <1>1. ASSUME NEW t \in Tasks, BeginSubmit(t) \/ BeginCancel(t) PROVE L!Move
    BY <1>1 DEF BeginSubmit, BeginCancel, Send, L!Move
  <1>2. ASSUME NEW t \in Tasks, NEW q \in Quantities, BeginReplace(t, q)
        PROVE  UNCHANGED <<status, filled>>
    BY <1>2 DEF BeginReplace, Send
  <1>3. ASSUME NEW t \in Tasks, Handle(t) PROVE UNCHANGED <<status, filled>>
    BY <1>3 DEF Handle
  <1>4. ASSUME NEW t \in Tasks, Resume(t) PROVE L!Move \/ UNCHANGED <<status, filled>>
    <2>1. CASE Acknowledges(t)
      BY <2>1 DEF Acknowledges, Raises, L!Move
    <2>2. CASE Cancels(t)
      BY <2>2 DEF Cancels, Raises, L!Move
    <2>3. CASE Replaces(t)
      BY <2>3 DEF Replaces
    <2> QED
      BY <1>4, <2>1, <2>2, <2>3 DEF Resume
  <1>5. ASSUME NEW t \in Tasks, Fault(t) \/ Refused(t) PROVE UNCHANGED <<status, filled>>
    BY <1>5 DEF Fault, Refused, Retries, Raises
  <1>6. CASE Deliver \/ DeliverTwice
    <2>1. feed # 0 /\ feed \in Nat
      BY <1>6 DEF Deliver, DeliverTwice, TypeOK
    <2>2. status # "CREATED"
      BY <2>1 DEF UntouchedUntilSubmitted
    <2> QED
      BY <1>6, <2>2 DEF Deliver, DeliverTwice, ApplyFill, FilledStatus, L!Fill
  <1>7. CASE Executes \/ Drop \/ UNCHANGED vars
    BY <1>7 DEF Executes, Drop, vars
  <1> QED
    BY <1>1, <1>2, <1>3, <1>4, <1>5, <1>6, <1>7 DEF Next, Progress

(* However answers, retries and fills overtake each other, an observer of  *)
(* the order sees a behaviour of OrderLifecycle: the engine moves the      *)
(* status along the table or applies a fill, and no fill is applied before *)
(* the order has been submitted.                                           *)
THEOREM ImplementsLifecycle == Spec => LifecycleSpec
  <1>1. Init => L!Init
    BY DEF Init, L!Init
  <1> QED
    BY <1>1, InitTyped, NextTyped, InitUntouched, NextUntouched, NextIsLifecycle, PTL
    DEF Spec, LifecycleSpec, L!Spec

-----------------------------------------------------------------------------
Under(kind) == \E t \in Tasks : task[t].kind = kind

(* The strengthening of JournalReplaysOrder: while no call has raised, the *)
(* journal lacks the order only until its submission is answered, and is   *)
(* behind only by the pending status of a call still under way.            *)
JournalKeepsUp ==
  "raised" \notin seen =>
    /\ status # "CREATED" => journal.known \/ Under("submit")
    /\ journal.known => journal.quantity = quantity /\ journal.filled = filled
    /\ journal.known => journal.status = status \/ status \in {"SUBMITTED", "CANCEL_PENDING"}
    /\ status = "SUBMITTED" => Under("submit")
    /\ status = "CANCEL_PENDING" => Under("cancel")

LEMMA InitKeepsUp == Init => JournalKeepsUp
  BY DEF Init, JournalKeepsUp

(* A step that leaves order and journal alone and ends no call without     *)
(* raising.                                                                *)
LEMMA KeepsUpUnchanged ==
  ASSUME JournalKeepsUp, UNCHANGED <<order, journal>>, seen \subseteq seen',
         \/ \A u \in Tasks : task[u].kind \in {"submit", "cancel"} =>
                               task'[u].kind = task[u].kind
         \/ "raised" \in seen'
  PROVE  JournalKeepsUp'
  <1>1. CASE "raised" \in seen'
    BY <1>1 DEF JournalKeepsUp
  <1>2. CASE "raised" \notin seen'
    <2>1. /\ Under("submit") => Under("submit")'
          /\ Under("cancel") => Under("cancel")'
      BY <1>2 DEF Under
    <2> QED
      BY <1>2, <2>1 DEF JournalKeepsUp, order
  <1> QED
    BY <1>1, <1>2

LEMMA NextKeepsUp ==
  TypeOK /\ UntouchedUntilSubmitted /\ JournalKeepsUp /\ [Next]_vars => JournalKeepsUp'
  <1> SUFFICES ASSUME TypeOK, UntouchedUntilSubmitted, JournalKeepsUp, [Next]_vars
               PROVE  JournalKeepsUp'
    OBVIOUS
  <1> USE DEF order
  <1>1. ASSUME NEW t \in Tasks, BeginSubmit(t) PROVE JournalKeepsUp'
    <2>1. Send(t, "submit", quantity) /\ status' = "SUBMITTED" /\ "submit" \in Kinds
      BY <1>1 DEF BeginSubmit, Kinds
    <2>2. Under("submit")' /\ UNCHANGED <<quantity, filled, journal, seen>>
      BY <2>1, SendEffect DEF TypeOK, Under
    <2> QED
      BY <2>1, <2>2 DEF JournalKeepsUp
  <1>2. ASSUME NEW t \in Tasks, BeginCancel(t) PROVE JournalKeepsUp'
    <2>1. Send(t, "cancel", quantity) /\ status' = "CANCEL_PENDING" /\ "cancel" \in Kinds
      BY <1>2 DEF BeginCancel, Kinds
    <2>2. status # "CREATED"
      BY <1>2 DEF BeginCancel, L!Allowed
    <2>3. Under("cancel")' /\ UNCHANGED <<quantity, filled, journal, seen>>
      BY <2>1, SendEffect DEF TypeOK, Under
    <2>4. Under("submit") => Under("submit")'
      BY <2>1, SendEffect DEF TypeOK, Under, Idle
    <2> QED
      BY <2>1, <2>2, <2>3, <2>4 DEF JournalKeepsUp
  <1>3. ASSUME NEW t \in Tasks, NEW q \in Quantities, BeginReplace(t, q) PROVE JournalKeepsUp'
    <2>1. Send(t, "replace", q) /\ UNCHANGED status /\ "replace" \in Kinds
      BY <1>3 DEF BeginReplace, Kinds
    <2>2. /\ UNCHANGED <<order, journal, seen>>
          /\ \A u \in Tasks : task[u].kind \in {"submit", "cancel"} =>
                                task'[u].kind = task[u].kind
      BY <2>1, SendEffect DEF TypeOK, Idle
    <2> QED
      BY <2>2, KeepsUpUnchanged
  <1>4. ASSUME NEW t \in Tasks, Handle(t) PROVE JournalKeepsUp'
    <2>1. \A u \in Tasks : task'[u].kind = task[u].kind
      BY <1>4, HandleEffect
    <2>2. UNCHANGED <<order, journal>> /\ seen \subseteq seen'
      BY <1>4, HandleEffect
    <2> QED
      BY <2>1, <2>2, KeepsUpUnchanged
  <1>5. ASSUME NEW t \in Tasks, Resume(t) PROVE JournalKeepsUp'
    <2> USE <1>5
    <2>1. task'[t] = Idle /\ \A u \in Tasks \ {t} : task'[u] = task[u]
      BY ResumeEffect
    <2>2. CASE Raises(t)
      BY <2>2 DEF Raises, JournalKeepsUp
    <2>3. CASE Acknowledges(t) /\ ~Raises(t)
      <3>1. /\ status = "SUBMITTED" /\ status' = "ACKNOWLEDGED"
            /\ journal' = [known |-> TRUE, status |-> status', quantity |-> quantity',
                           filled |-> filled']
        BY <2>3 DEF Acknowledges, JournalOrder, L!Allowed
      <3> QED
        BY <3>1 DEF JournalKeepsUp
    <2>4. CASE Cancels(t) /\ ~Raises(t)
      <3>1. /\ status' = "CANCELLED"
            /\ journal' = [known |-> TRUE, status |-> status', quantity |-> quantity',
                           filled |-> filled']
        BY <2>4 DEF Cancels, JournalOrder
      <3> QED
        BY <3>1 DEF JournalKeepsUp
    <2>5. CASE Replaces(t)
      <3>1. /\ task[t].kind = "replace" /\ UNCHANGED <<status, seen>>
            /\ journal' = [known |-> TRUE, status |-> status', quantity |-> quantity',
                           filled |-> filled']
        BY <2>5 DEF Replaces, JournalOrder
      <3>2. /\ Under("submit") => Under("submit")'
            /\ Under("cancel") => Under("cancel")'
        BY <2>1, <3>1 DEF Under
      <3> QED
        BY <3>1, <3>2 DEF JournalKeepsUp
    <2> QED
      BY <2>2, <2>3, <2>4, <2>5 DEF Resume
  <1>6. ASSUME NEW t \in Tasks, Fault(t) \/ Refused(t) PROVE JournalKeepsUp'
    <2>1. task[t] # Idle /\ Retries(t)
      BY <1>6 DEF Fault, Refused
    <2>2. /\ UNCHANGED <<order, journal>> /\ seen \subseteq seen'
          /\ \/ \A u \in Tasks : task'[u].kind = task[u].kind
             \/ "raised" \in seen'
      BY <2>1, RetriesEffect
    <2> QED
      BY <2>2, KeepsUpUnchanged
  <1>7. CASE Deliver \/ DeliverTwice
    <2>1. /\ status' \in {"FILLED", "PARTIALLY_FILLED"} /\ filled' = filled + 1
          /\ journal' = [journal EXCEPT !.status = status', !.filled = @ + 1]
          /\ seen \subseteq seen' /\ UNCHANGED <<quantity, task>>
      BY <1>7 DEF Deliver, DeliverTwice, ApplyFill, FilledStatus
    <2>2. /\ journal'.known = journal.known /\ journal'.status = status'
          /\ journal'.quantity = journal.quantity /\ journal'.filled = journal.filled + 1
      BY <2>1 DEF TypeOK
    <2>3. CASE "raised" \in seen'
      BY <2>3 DEF JournalKeepsUp
    <2>4. CASE "raised" \notin seen'
      <3>1. status # "CREATED"
        BY <1>7 DEF Deliver, DeliverTwice, UntouchedUntilSubmitted
      <3>2. journal.known \/ Under("submit")
        BY <2>1, <2>4, <3>1 DEF JournalKeepsUp
      <3> QED
        BY <2>1, <2>2, <2>4, <3>2 DEF JournalKeepsUp, Under
    <2> QED
      BY <2>3, <2>4
  <1>8. CASE Executes \/ Drop
    BY <1>8, KeepsUpUnchanged DEF Executes, Drop
  <1>9. CASE UNCHANGED vars
    BY <1>9, KeepsUpUnchanged DEF vars
  <1> QED
    BY <1>1, <1>2, <1>3, <1>4, <1>5, <1>6, <1>7, <1>8, <1>9 DEF Next, Progress

LEMMA KeepsUpSuffices == TypeOK /\ JournalKeepsUp => JournalReplaysOrder
  <1> SUFFICES ASSUME TypeOK, JournalKeepsUp, AllIdle, "raised" \notin seen,
                      status # "CREATED"
               PROVE  journal = [known |-> TRUE, status |-> status, quantity |-> quantity,
                                 filled |-> filled]
    BY DEF JournalReplaysOrder
  <1>1. ~Under("submit") /\ ~Under("cancel")
    BY DEF AllIdle, Under, Idle
  <1>2. /\ journal.known = TRUE /\ journal.status = status
        /\ journal.quantity = quantity /\ journal.filled = filled
    BY <1>1 DEF JournalKeepsUp, TypeOK
  <1> QED
    BY <1>2 DEF TypeOK

(* Unless a call has raised, replaying the journal gives the order as it   *)
(* is in memory whenever no call is in progress.                           *)
THEOREM JournalReplays == Spec => []JournalReplaysOrder
  BY InitTyped, NextTyped, InitUntouched, NextUntouched, InitKeepsUp, NextKeepsUp,
     KeepsUpSuffices, PTL DEF Spec

-----------------------------------------------------------------------------
(* The strengthening of OverfillHasACause.  As long as the feed is exact,  *)
(* no other order was opened and no replacement crossed anything, every    *)
(* fill of the exchange is applied or on its way, and the engine's         *)
(* quantity is behind the exchange's only by a replacement that left       *)
(* something to fill.                                                      *)
Sound == seen \cap {"feed", "amended", "reopened"} = {}

CountsBalance ==
  /\ stray = 0 /\ filled + feed = exchange.executed
  /\ exchange.state = "none" => exchange.executed = 0
  /\ exchange.state \in {"open", "cancelled"} => exchange.executed < exchange.quantity
  /\ exchange.state = "executed" => exchange.executed = exchange.quantity
  /\ filled <= quantity
  /\ Outdated => filled < exchange.quantity

(* What a call under way knows of the quantity. *)
RequestsBalance ==
  \A t \in Tasks :
    /\ task[t].kind = "submit" /\ exchange.state = "none" =>
         task[t].at = "sent" /\ task[t].quantity = quantity
    /\ task[t].kind = "replace" /\ task[t].at = "answered" =>
         exchange.state # "none" /\ task[t].quantity = exchange.quantity

BooksBalance == Sound => CountsBalance /\ RequestsBalance

LEMMA InitBalances == Init => BooksBalance
  BY OrderAssumption DEF Init, BooksBalance, CountsBalance, RequestsBalance, Outdated, Idle

(* The fields the invariants speak of are of their kinds. *)
LEMMA FieldTypes ==
  ASSUME TypeOK
  PROVE  /\ quantity \in Nat /\ quantity > 0 /\ filled \in Nat /\ feed \in Nat /\ stray \in Nat
         /\ exchange.state \in {"none", "open", "executed", "cancelled"}
         /\ exchange.quantity \in Nat /\ exchange.executed \in Nat
         /\ \A t \in Tasks : task[t] # Idle =>
              /\ task[t] \in Calls /\ task[t].quantity \in Quantities
              /\ task[t].quantity \in Nat /\ task[t].quantity > 0
  <1>1. /\ quantity \in Quantities /\ filled \in Nat /\ feed \in Nat /\ stray \in Nat
        /\ exchange.state \in {"none", "open", "executed", "cancelled"}
        /\ exchange.quantity \in Nat /\ exchange.executed \in Nat
    BY DEF TypeOK
  <1>2. \A q \in Quantities : q \in Nat /\ q > 0
    BY OrderAssumption
  <1>3. \A t \in Tasks : task[t] # Idle => task[t] \in Calls /\ task[t].quantity \in Quantities
    BY DEF TypeOK, Calls
  <1> QED
    BY <1>1, <1>2, <1>3

(* The request a task that begins a call has sent. *)
LEMMA SendRequest ==
  ASSUME TypeOK, NEW t \in Tasks, NEW kind, NEW q, Send(t, kind, q)
  PROVE  /\ task'[t].kind = kind /\ task'[t].at = "sent" /\ task'[t].quantity = q
         /\ \A u \in Tasks \ {t} : task'[u] = task[u]
  BY DEF Send, TypeOK

(* A request that is made again: the new quantity of the order for a       *)
(* submission, the old one otherwise.                                      *)
LEMMA RetriesRequest ==
  ASSUME TypeOK, NEW t \in Tasks, task[t] # Idle, Retries(t)
  PROVE  \/ task'[t] = Idle
         \/ /\ task'[t].kind = task[t].kind /\ task'[t].at = "sent"
            /\ task[t].kind = "submit" => task'[t].quantity = quantity
  <1>1. task[t] \in Calls
    BY DEF TypeOK
  <1>2. CASE task[t].attempt < max_attempts
    <2>1. task'[t] = Repeated(t, task[t].attempt + 1)
      BY <1>2 DEF Retries, TypeOK
    <2> QED
      BY <1>1, <2>1 DEF Repeated, Calls
  <1>3. CASE ~(task[t].attempt < max_attempts)
    BY <1>3 DEF Retries, Raises, Ends, TypeOK
  <1> QED
    BY <1>2, <1>3

(* What was seen is not forgotten. *)
LEMMA SeenGrows ==
  ASSUME TypeOK, [Next]_vars
  PROVE  seen \subseteq seen'
  <1>1. ASSUME NEW t \in Tasks, Handle(t) PROVE seen \subseteq seen'
    BY <1>1, HandleEffect
  <1>2. ASSUME NEW t \in Tasks, Fault(t) \/ Refused(t) PROVE seen \subseteq seen'
    BY <1>2, RetriesEffect DEF Fault, Refused
  <1>3. ASSUME NEW t \in Tasks, Resume(t) PROVE seen \subseteq seen'
    BY <1>3 DEF Resume, Acknowledges, Cancels, Replaces, Raises
  <1>4. ASSUME NEW t \in Tasks, BeginSubmit(t) \/ BeginCancel(t) \/
                                \E q \in Quantities : BeginReplace(t, q)
        PROVE  seen \subseteq seen'
    BY <1>4 DEF BeginSubmit, BeginCancel, BeginReplace, Send
  <1>5. CASE Executes \/ Deliver \/ DeliverTwice \/ Drop \/ UNCHANGED vars
    BY <1>5 DEF Executes, Deliver, DeliverTwice, Drop, vars
  <1> QED
    BY <1>1, <1>2, <1>3, <1>4, <1>5 DEF Next, Progress

(* What the exchange makes of a request while nothing untoward is seen. *)
LEMMA HandleBalanced ==
  ASSUME TypeOK, CountsBalance, RequestsBalance, NEW t \in Tasks, Handle(t), Sound'
  PROVE  /\ CountsBalance' /\ RequestsBalance'
  <1> USE DEF order, market
  <1>1. /\ task[t] # Idle /\ task[t] \in Calls /\ task[t].at = "sent"
        /\ UNCHANGED <<order, feed>>
    BY DEF Handle, TypeOK
  <1>2. /\ \A u \in Tasks \ {t} : task'[u] = task[u]
        /\ task'[t].kind = task[t].kind
    BY HandleEffect
  <1>3. ASSUME NEW outcome \in {"answered", "refused"}, Handled(t, outcome)
        PROVE  task'[t].at = outcome /\ task'[t].quantity = task[t].quantity
    BY <1>1, <1>3 DEF Handled, TypeOK, Calls
  <1>4. CASE HandleSubmit(t)
    <2>1. stray' = stray
      BY <1>4 DEF HandleSubmit, Sound
    <2>2. task'[t].at = "answered" /\ task[t].kind = "submit"
      BY <1>3, <1>4 DEF HandleSubmit
    <2>3. CASE exchange' = exchange /\ exchange.state # "none"
      <3>1. CountsBalance'
        BY <1>1, <2>1, <2>3 DEF CountsBalance, Outdated
      <3>2. RequestsBalance'
        BY <1>1, <1>2, <2>2, <2>3 DEF RequestsBalance
      <3> QED
        BY <3>1, <3>2
    <2>4. CASE /\ exchange.state = "none"
               /\ exchange' = [state |-> "open", quantity |-> task[t].quantity, executed |-> 0]
      <3>1. task[t].quantity = quantity
        BY <2>2, <2>4 DEF RequestsBalance
      <3>2. /\ exchange'.state = "open" /\ exchange'.quantity = quantity
            /\ exchange'.executed = 0
        BY <2>4, <3>1
      <3>3. CountsBalance'
        BY <1>1, <2>1, <2>4, <3>2, FieldTypes DEF CountsBalance, Outdated
      <3>4. RequestsBalance'
        BY <1>1, <1>2, <2>2, <2>4, <3>2 DEF RequestsBalance
      <3> QED
        BY <3>3, <3>4
    <2> QED
      BY <1>4, <2>3, <2>4 DEF HandleSubmit, Sound
  <1>5. CASE HandleCancel(t)
    <2>1. task'[t].kind = "cancel" /\ stray' = stray
      BY <1>2, <1>5 DEF HandleCancel
    <2>2. \/ exchange' = exchange
          \/ /\ exchange.state = "open" /\ exchange'.state = "cancelled"
             /\ exchange'.quantity = exchange.quantity
             /\ exchange'.executed = exchange.executed
      BY <1>5 DEF HandleCancel, TypeOK
    <2>3. CountsBalance'
      BY <1>1, <2>1, <2>2 DEF CountsBalance, Outdated
    <2>4. RequestsBalance'
      BY <1>1, <1>2, <2>1, <2>2 DEF RequestsBalance
    <2> QED
      BY <2>3, <2>4
  <1>6. CASE HandleReplace(t)
    <2>1. /\ task[t].kind = "replace" /\ stray' = stray
          /\ ~Replacing /\ ~Outdated /\ task[t].quantity # exchange.executed
      BY <1>6 DEF HandleReplace, Sound
    <2>2. \A u \in Tasks \ {t} : task'[u].kind = "replace" => task'[u].at # "answered"
      BY <1>2, <2>1 DEF Replacing
    <2>3. CASE /\ exchange.state = "open" /\ task[t].quantity >= exchange.executed
               /\ exchange' = Amended(task[t].quantity) /\ Handled(t, "answered")
      <3>1. /\ exchange'.state = "open" /\ exchange'.quantity = task[t].quantity
            /\ exchange'.executed = exchange.executed
        BY <2>1, <2>3 DEF Amended, TypeOK
      <3>2. task[t].quantity > exchange.executed /\ task[t].quantity \in Nat
        BY <1>1, <2>1, <2>3, FieldTypes
      <3>3. CountsBalance'
        BY <1>1, <2>1, <2>3, <3>1, <3>2, FieldTypes DEF CountsBalance, Outdated
      <3>4. RequestsBalance'
        BY <1>1, <1>2, <1>3, <2>1, <2>2, <2>3, <3>1 DEF RequestsBalance
      <3> QED
        BY <3>3, <3>4
    <2>4. CASE exchange' = exchange /\ Handled(t, "refused")
      <3>1. CountsBalance'
        BY <1>1, <2>1, <2>4 DEF CountsBalance, Outdated
      <3>2. RequestsBalance'
        BY <1>1, <1>2, <1>3, <2>1, <2>4 DEF RequestsBalance
      <3> QED
        BY <3>1, <3>2
    <2> QED
      BY <1>6, <2>3, <2>4 DEF HandleReplace
  <1> QED
    BY <1>4, <1>5, <1>6 DEF Handle

(* The exchange executes a unit of the order, as there is no other. *)
LEMMA ExecutesBalanced ==
  ASSUME TypeOK, CountsBalance, Executes
  PROVE  /\ exchange.state = "open" /\ feed' = feed + 1 /\ stray' = stray
         /\ exchange'.quantity = exchange.quantity
         /\ exchange'.executed = exchange.executed + 1
         /\ exchange'.state = IF exchange.executed + 1 = exchange.quantity
                              THEN "executed" ELSE "open"
         /\ UNCHANGED <<order, task>>
  <1>1. /\ exchange.state = "open" /\ feed' = feed + 1 /\ stray' = stray
        /\ UNCHANGED <<order, task>>
        /\ exchange' = [exchange EXCEPT
             !.executed = exchange.executed + 1,
             !.state = IF exchange.executed + 1 = exchange.quantity
                       THEN "executed" ELSE exchange.state]
    BY DEF Executes, CountsBalance
  <1>2. exchange \in Books
    BY DEF TypeOK, Books
  <1> QED
    BY <1>1, <1>2 DEF Books

LEMMA NextBalances == TypeOK /\ BooksBalance /\ [Next]_vars => BooksBalance'
  <1> SUFFICES ASSUME TypeOK, BooksBalance, [Next]_vars, Sound'
               PROVE  CountsBalance' /\ RequestsBalance'
    BY DEF BooksBalance
  <1> USE DEF order, market, bounds
  <1>0. Sound /\ CountsBalance /\ RequestsBalance
    BY SeenGrows DEF BooksBalance, Sound
  <1>1. ASSUME NEW t \in Tasks, BeginSubmit(t) \/ BeginCancel(t) \/
                                \E q \in Quantities : BeginReplace(t, q)
        PROVE  CountsBalance' /\ RequestsBalance'
    <2>1. PICK kind, q : Send(t, kind, q) /\ (kind = "submit" => q = quantity)
      BY <1>1 DEF BeginSubmit, BeginCancel, BeginReplace
    <2>2. UNCHANGED <<quantity, filled, market, feed>>
      BY <2>1 DEF Send
    <2>3. CountsBalance'
      BY <1>0, <2>2 DEF CountsBalance, Outdated
    <2>4. RequestsBalance'
      BY <1>0, <2>1, <2>2, SendRequest DEF RequestsBalance
    <2> QED
      BY <2>3, <2>4
  <1>2. ASSUME NEW t \in Tasks, Handle(t) PROVE CountsBalance' /\ RequestsBalance'
    BY <1>0, <1>2, HandleBalanced
  <1>3. ASSUME NEW t \in Tasks, Resume(t) PROVE CountsBalance' /\ RequestsBalance'
    <2>1. /\ UNCHANGED <<filled, market, feed>> /\ task[t].at = "answered"
          /\ task'[t].kind = "none" /\ \A u \in Tasks \ {t} : task'[u] = task[u]
      BY <1>3, ResumeKeepsOrder, ResumeEffect DEF Resume, Idle
    <2>2. CASE task[t].kind = "replace" /\ quantity' = task[t].quantity
      <3>1. exchange.state # "none" /\ quantity' = exchange.quantity
        BY <1>0, <2>1, <2>2 DEF RequestsBalance
      <3>2. CountsBalance'
        BY <1>0, <2>1, <3>1, FieldTypes DEF CountsBalance, Outdated
      <3>3. RequestsBalance'
        BY <1>0, <2>1, <3>1 DEF RequestsBalance
      <3> QED
        BY <3>2, <3>3
    <2>3. CASE quantity' = quantity
      <3>1. CountsBalance'
        BY <1>0, <2>1, <2>3 DEF CountsBalance, Outdated
      <3>2. RequestsBalance'
        BY <1>0, <2>1, <2>3 DEF RequestsBalance
      <3> QED
        BY <3>1, <3>2
    <2> QED
      BY <1>3, <2>2, <2>3 DEF Resume, Acknowledges, Cancels, Replaces, Raises
  <1>4. ASSUME NEW t \in Tasks, Fault(t) \/ Refused(t) PROVE CountsBalance' /\ RequestsBalance'
    <2>1. task[t] # Idle /\ Retries(t) /\ UNCHANGED <<market, feed>>
      BY <1>4 DEF Fault, Refused
    <2>2. /\ UNCHANGED <<quantity, filled>>
          /\ \A u \in Tasks \ {t} : task'[u] = task[u]
      BY <2>1, RetriesEffect
    <2>3. CountsBalance'
      BY <1>0, <2>1, <2>2 DEF CountsBalance, Outdated
    <2>4. RequestsBalance'
      BY <1>0, <2>1, <2>2, RetriesRequest DEF RequestsBalance, Idle
    <2> QED
      BY <2>3, <2>4
  <1>5. CASE Executes
    <2>1. /\ exchange.state = "open" /\ feed' = feed + 1 /\ stray' = stray
          /\ exchange'.quantity = exchange.quantity
          /\ exchange'.executed = exchange.executed + 1
          /\ exchange'.state = IF exchange.executed + 1 = exchange.quantity
                               THEN "executed" ELSE "open"
          /\ UNCHANGED <<quantity, filled, task>>
      BY <1>0, <1>5, ExecutesBalanced
    <2>2. CountsBalance'
      BY <1>0, <2>1, FieldTypes DEF CountsBalance, Outdated
    <2>3. RequestsBalance'
      BY <1>0, <2>1 DEF RequestsBalance
    <2> QED
      BY <2>2, <2>3
  <1>6. CASE Deliver
    <2>1. /\ feed > 0 /\ feed' = feed - 1 /\ filled' = filled + 1
          /\ UNCHANGED <<quantity, task, market>>
      BY <1>6 DEF Deliver, ApplyFill
    <2>2. ~Outdated
      BY <1>6 DEF Deliver, Noticed, Sound
    <2>3. exchange.state # "none"
      BY <1>0, <2>1, FieldTypes DEF CountsBalance
    <2>4. CountsBalance'
      BY <1>0, <2>1, <2>2, <2>3, FieldTypes DEF CountsBalance, Outdated
    <2>5. RequestsBalance'
      BY <1>0, <2>1 DEF RequestsBalance
    <2> QED
      BY <2>4, <2>5
  <1>7. CASE DeliverTwice \/ Drop
    BY <1>7 DEF DeliverTwice, Drop, Sound
  <1>8. CASE UNCHANGED vars
    BY <1>0, <1>8 DEF vars, CountsBalance, RequestsBalance, Outdated
  <1> QED
    BY <1>1, <1>2, <1>3, <1>4, <1>5, <1>6, <1>7, <1>8 DEF Next, Progress

LEMMA BalanceSuffices == TypeOK /\ BooksBalance => OverfillHasACause
  BY FieldTypes DEF BooksBalance, CountsBalance, OverfillHasACause, Sound

(* An order is filled beyond its quantity only if the feed repeated or     *)
(* lost a fill, a replacement and a fill crossed, or a retried submission  *)
(* opened another order: no interleaving of calls and fills alone does it. *)
THEOREM OverfillExplained == Spec => []OverfillHasACause
  BY InitTyped, NextTyped, InitBalances, NextBalances, BalanceSuffices, PTL DEF Spec

-----------------------------------------------------------------------------
(* The strengthening of SettledOrderAgrees, on top of BooksBalance and     *)
(* JournalKeepsUp.  As long as nothing at all has gone wrong, what the     *)
(* status of the order does not yet say of the exchange is the business of *)
(* a call that is still under way.                                         *)
StatusFollows ==
  /\ exchange.state = "none" => status = "CREATED" \/ Under("submit")
  /\ exchange.state = "cancelled" => status = "CANCELLED" \/ Under("cancel")
  /\ Outdated => Under("replace")
  /\ \A t \in Tasks : task[t].kind = "cancel" /\ task[t].at = "answered" =>
       exchange.state = "cancelled"
  /\ status = "CANCELLED" => exchange.state = "cancelled"

(* ... and it tells how much is filled. *)
StatusCounts ==
  /\ status = "FILLED" => exchange.state = "executed"
  /\ filled = quantity => status = "FILLED"
  /\ filled > 0 => status \notin {"CREATED", "SUBMITTED", "ACKNOWLEDGED"}
  /\ filled = 0 => status # "PARTIALLY_FILLED"
  /\ status \notin {"REJECTED", "FAILED"}

StatusAgrees == seen = {} => StatusFollows /\ StatusCounts

LEMMA InitAgrees == Init => StatusAgrees
  <1> SUFFICES ASSUME Init PROVE StatusFollows /\ StatusCounts
    BY DEF StatusAgrees
  <1>1. quantity \in Nat /\ quantity # 0
    BY OrderAssumption DEF Init
  <1> QED
    BY <1>1 DEF Init, StatusFollows, StatusCounts, Outdated, Idle

LEMMA NextAgrees ==
  TypeOK /\ JournalKeepsUp /\ BooksBalance /\ StatusAgrees /\ [Next]_vars => StatusAgrees'
  <1> SUFFICES ASSUME TypeOK, JournalKeepsUp, BooksBalance, StatusAgrees, [Next]_vars,
                      seen' = {}
               PROVE  StatusFollows' /\ StatusCounts'
    BY DEF StatusAgrees
  <1> USE DEF order, market, bounds
  <1>0. /\ seen = {} /\ CountsBalance /\ RequestsBalance /\ StatusFollows /\ StatusCounts
        /\ status = "SUBMITTED" => Under("submit")
        /\ status = "CANCEL_PENDING" => Under("cancel")
    BY SeenGrows DEF BooksBalance, Sound, StatusAgrees, JournalKeepsUp
  <1> DEFINE Goal == StatusFollows' /\ StatusCounts'
  <1>1. ASSUME NEW t \in Tasks, BeginSubmit(t) \/ BeginCancel(t) PROVE Goal
    <2>1. PICK kind \in {"submit", "cancel"} :
            /\ Send(t, kind, quantity)
            /\ kind = "submit" => status = "CREATED" /\ status' = "SUBMITTED"
            /\ kind = "cancel" => /\ status \in {"ACKNOWLEDGED", "PARTIALLY_FILLED"}
                                  /\ status' = "CANCEL_PENDING"
      BY <1>1 DEF BeginSubmit, BeginCancel, L!Allowed
    <2>2. /\ UNCHANGED <<quantity, filled, market, feed>> /\ task[t].kind = "none"
          /\ task'[t].kind = kind /\ task'[t].at = "sent"
          /\ \A u \in Tasks \ {t} : task'[u] = task[u]
      <3>1. UNCHANGED <<quantity, filled, market, feed>> /\ task[t].kind = "none"
        BY <2>1 DEF Send, Idle
      <3> QED
        BY <2>1, <3>1, SendRequest
    <2>3. /\ Under("submit") => Under("submit")'
          /\ Under("cancel") => Under("cancel")'
          /\ Under("replace") => Under("replace")'
          /\ Under(kind)'
      BY <2>2 DEF Under
    <2>4. StatusFollows'
      BY <1>0, <2>1, <2>2, <2>3 DEF StatusFollows, Outdated
    <2>5. StatusCounts'
      BY <1>0, <2>1, <2>2, FieldTypes DEF StatusCounts
    <2> QED
      BY <2>4, <2>5
  <1>2. ASSUME NEW t \in Tasks, NEW q \in Quantities, BeginReplace(t, q) PROVE Goal
    <2>1. /\ UNCHANGED <<status, quantity, filled, market, feed>> /\ task[t].kind = "none"
          /\ task'[t].kind = "replace"
          /\ \A u \in Tasks \ {t} : task'[u] = task[u]
      <3>1. /\ Send(t, "replace", q) /\ UNCHANGED <<status, quantity, filled, market, feed>>
            /\ task[t].kind = "none"
        BY <1>2 DEF BeginReplace, Send, Idle
      <3> QED
        BY <3>1, SendRequest
    <2>2. /\ Under("submit") => Under("submit")'
          /\ Under("cancel") => Under("cancel")'
          /\ Under("replace")'
      BY <2>1 DEF Under
    <2>3. StatusFollows'
      BY <1>0, <2>1, <2>2 DEF StatusFollows, Outdated
    <2>4. StatusCounts'
      BY <1>0, <2>1 DEF StatusCounts
    <2> QED
      BY <2>3, <2>4
  <1>3. ASSUME NEW t \in Tasks, Handle(t) PROVE Goal
    <2>1. /\ UNCHANGED <<status, quantity, filled, feed>>
          /\ task[t] # Idle /\ task[t] \in Calls
          /\ \A u \in Tasks : task'[u].kind = task[u].kind
          /\ \A u \in Tasks \ {t} : task'[u] = task[u]
      BY <1>3, HandleEffect DEF Handle, TypeOK
    <2>2. /\ Under("submit")' = Under("submit")
          /\ Under("cancel")' = Under("cancel")
          /\ Under("replace")' = Under("replace")
      BY <2>1 DEF Under
    <2>3. CASE HandleSubmit(t)
      <3>1. /\ task[t].kind = "submit"
            /\ \/ exchange' = exchange
               \/ /\ exchange.state = "none" /\ exchange'.state = "open"
                  /\ exchange'.quantity = task[t].quantity
        BY <2>3 DEF HandleSubmit
      <3>2. exchange.state = "none" => task[t].quantity = quantity
        BY <1>0, <3>1 DEF RequestsBalance
      <3>3. StatusFollows'
        BY <1>0, <2>1, <2>2, <3>1, <3>2 DEF StatusFollows, Outdated
      <3>4. StatusCounts'
        BY <1>0, <2>1, <3>1 DEF StatusCounts
      <3> QED
        BY <3>3, <3>4
    <2>4. CASE HandleCancel(t)
      <3>1. /\ task[t].kind = "cancel"
            /\ \/ exchange' = exchange /\ task'[t].at = "refused"
               \/ /\ exchange.state = "open" /\ exchange'.state = "cancelled"
                  /\ exchange'.quantity = exchange.quantity
        BY <2>1, <2>4 DEF HandleCancel, Handled, TypeOK, Calls
      <3>2. Under("cancel")'
        BY <2>1, <3>1 DEF Under
      <3>3. StatusFollows'
        BY <1>0, <2>1, <2>2, <3>1, <3>2 DEF StatusFollows, Outdated
      <3>4. StatusCounts'
        BY <1>0, <2>1, <3>1 DEF StatusCounts
      <3> QED
        BY <3>3, <3>4
    <2>5. CASE HandleReplace(t)
      <3>1. /\ task[t].kind = "replace"
            /\ \/ exchange' = exchange
               \/ /\ exchange.state = "open" /\ exchange' = Amended(task[t].quantity)
                  /\ task[t].quantity # exchange.executed
        BY <2>5 DEF HandleReplace
      <3>2. exchange'.state = exchange.state
        BY <3>1 DEF Amended, TypeOK
      <3>3. Under("replace")'
        BY <2>1, <3>1 DEF Under
      <3>4. StatusFollows'
        BY <1>0, <2>1, <2>2, <3>1, <3>2, <3>3 DEF StatusFollows
      <3>5. StatusCounts'
        BY <1>0, <2>1, <3>2 DEF StatusCounts
      <3> QED
        BY <3>4, <3>5
    <2> QED
      BY <1>3, <2>3, <2>4, <2>5 DEF Handle
  <1>4. ASSUME NEW t \in Tasks, Resume(t) PROVE Goal
    <2>1. /\ UNCHANGED <<filled, market, feed>> /\ task[t].at = "answered"
          /\ task'[t].kind = "none" /\ \A u \in Tasks \ {t} : task'[u] = task[u]
      BY <1>4, ResumeKeepsOrder, ResumeEffect DEF Resume, Idle
    <2>2. ~Raises(t)
      BY DEF Raises
    <2>3. \A kind : kind # task[t].kind /\ Under(kind) => Under(kind)'
      BY <2>1 DEF Under
    <2>4. CASE Acknowledges(t)
      <3>1. /\ task[t].kind = "submit" /\ status = "SUBMITTED" /\ status' = "ACKNOWLEDGED"
            /\ UNCHANGED quantity
        BY <2>2, <2>4 DEF Acknowledges, L!Allowed
      <3>2. exchange.state # "none"
        BY <1>0, <2>1, <3>1 DEF RequestsBalance
      <3>3. StatusFollows'
        BY <1>0, <2>1, <2>3, <3>1, <3>2 DEF StatusFollows, Outdated
      <3>4. StatusCounts'
        BY <1>0, <2>1, <3>1, FieldTypes DEF StatusCounts
      <3> QED
        BY <3>3, <3>4
    <2>5. CASE Cancels(t)
      <3>1. /\ task[t].kind = "cancel" /\ status' = "CANCELLED" /\ UNCHANGED quantity
            /\ status \in {"ACKNOWLEDGED", "PARTIALLY_FILLED", "CANCEL_PENDING"}
        BY <2>2, <2>5 DEF Cancels, L!Allowed
      <3>2. exchange.state = "cancelled"
        BY <1>0, <2>1, <3>1 DEF StatusFollows
      <3>3. StatusFollows'
        BY <1>0, <2>1, <2>3, <3>1, <3>2 DEF StatusFollows, Outdated
      <3>4. StatusCounts'
        BY <1>0, <2>1, <3>1, FieldTypes DEF StatusCounts
      <3> QED
        BY <3>3, <3>4
    <2>6. CASE Replaces(t)
      <3>1. /\ task[t].kind = "replace" /\ UNCHANGED status
            /\ quantity' = task[t].quantity
        BY <2>6 DEF Replaces
      <3>2. exchange.state # "none" /\ quantity' = exchange.quantity
        BY <1>0, <2>1, <3>1 DEF RequestsBalance
      <3>3. StatusFollows'
        BY <1>0, <2>1, <2>3, <3>1, <3>2 DEF StatusFollows, Outdated
      <3>4. StatusCounts'
        BY <1>0, <2>1, <3>1, <3>2, FieldTypes DEF StatusCounts, CountsBalance, Outdated
      <3> QED
        BY <3>3, <3>4
    <2> QED
      BY <1>4, <2>4, <2>5, <2>6 DEF Resume
  <1>5. ASSUME NEW t \in Tasks, Fault(t) \/ Refused(t) PROVE Goal
    <2>1. task[t] # Idle /\ Retries(t) /\ UNCHANGED <<market, feed>>
      BY <1>5 DEF Fault, Refused
    <2>2. task'[t].kind = task[t].kind /\ task'[t].at = "sent" /\ UNCHANGED order
      <3>1. UNCHANGED order /\ task'[t] # Idle
        BY <2>1, RetriesEffect
      <3> QED
        BY <2>1, <3>1, RetriesRequest
    <2>3. \A u \in Tasks \ {t} : task'[u] = task[u]
      BY <2>1, RetriesEffect
    <2>4. \A kind : Under(kind) => Under(kind)'
      BY <2>2, <2>3 DEF Under
    <2>5. StatusFollows'
      BY <1>0, <2>1, <2>2, <2>3, <2>4 DEF StatusFollows, Outdated
    <2>6. StatusCounts'
      BY <1>0, <2>1, <2>2 DEF StatusCounts
    <2> QED
      BY <2>5, <2>6
  <1>6. CASE Executes
    <2>1. /\ exchange.state = "open" /\ exchange'.state \in {"open", "executed"}
          /\ exchange'.quantity = exchange.quantity
          /\ UNCHANGED <<order, task>>
      BY <1>0, <1>6, ExecutesBalanced
    <2>2. StatusFollows'
      BY <1>0, <2>1 DEF StatusFollows, Outdated, Under
    <2>3. StatusCounts'
      BY <1>0, <2>1 DEF StatusCounts
    <2> QED
      BY <2>2, <2>3
  <1>7. CASE Deliver
    <2>1. /\ feed > 0 /\ filled' = filled + 1 /\ status' = FilledStatus(filled + 1)
          /\ UNCHANGED <<quantity, task, market>>
      BY <1>7 DEF Deliver, ApplyFill
    <2>2. ~Outdated /\ status # "CANCELLED"
      BY <1>7 DEF Deliver, Noticed
    <2>3. exchange.state # "none" /\ quantity = exchange.quantity
          /\ filled + 1 <= exchange.executed /\ exchange.executed <= quantity
      BY <1>0, <2>1, <2>2, FieldTypes DEF CountsBalance, Outdated
    <2>4. StatusFollows'
      BY <1>0, <2>1, <2>2, <2>3 DEF StatusFollows, Outdated, Under, FilledStatus
    <2>5. StatusCounts'
      BY <1>0, <2>1, <2>3, FieldTypes DEF StatusCounts, FilledStatus, CountsBalance
    <2> QED
      BY <2>4, <2>5
  <1>8. CASE DeliverTwice \/ Drop
    BY <1>8 DEF DeliverTwice, Drop
  <1>9. CASE UNCHANGED vars
    BY <1>0, <1>9 DEF vars, StatusFollows, StatusCounts, Outdated, Under
  <1> QED
    BY <1>1, <1>2, <1>3, <1>4, <1>5, <1>6, <1>7, <1>8, <1>9 DEF Next, Progress

LEMMA AgreementSuffices ==
  TypeOK /\ UntouchedUntilSubmitted /\ JournalKeepsUp /\ BooksBalance /\ StatusAgrees =>
    SettledOrderAgrees
  <1> SUFFICES ASSUME TypeOK, UntouchedUntilSubmitted, JournalKeepsUp, BooksBalance, StatusAgrees,
                      AllIdle, feed = 0, seen = {}
               PROVE  SettledOrderAgrees
    BY DEF SettledOrderAgrees
  <1>1. ~Under("submit") /\ ~Under("cancel") /\ ~Under("replace")
    BY DEF AllIdle, Under, Idle
  <1>2. /\ CountsBalance /\ StatusFollows /\ StatusCounts
        /\ status \notin {"SUBMITTED", "CANCEL_PENDING"}
    BY <1>1 DEF BooksBalance, Sound, StatusAgrees, JournalKeepsUp
  <1>3. filled = exchange.executed
    BY <1>2, FieldTypes DEF CountsBalance
  <1>4. exchange.state # "none" => quantity = exchange.quantity
    BY <1>1, <1>2 DEF StatusFollows, Outdated
  <1>5. exchange.state = "none" => status = "CREATED"
    BY <1>1, <1>2 DEF StatusFollows
  <1>6. exchange.state = "cancelled" => status = "CANCELLED"
    BY <1>1, <1>2 DEF StatusFollows
  <1>7. exchange.state = "executed" => status = "FILLED"
    BY <1>2, <1>3, <1>4 DEF CountsBalance, StatusCounts
  <1>8. exchange.state = "open" =>
          status = IF filled = 0 THEN "ACKNOWLEDGED" ELSE "PARTIALLY_FILLED"
    <2> SUFFICES ASSUME exchange.state = "open"
                 PROVE  status = IF filled = 0 THEN "ACKNOWLEDGED" ELSE "PARTIALLY_FILLED"
      OBVIOUS
    <2>1. status \notin {"CANCELLED", "FILLED", "REJECTED", "FAILED", "CREATED"}
      BY <1>2 DEF StatusFollows, StatusCounts, UntouchedUntilSubmitted
    <2>2. status \in {"ACKNOWLEDGED", "PARTIALLY_FILLED"}
      BY <1>2, <2>1 DEF TypeOK, L!Statuses
    <2> QED
      BY <1>2, <2>2, FieldTypes DEF StatusCounts
  <1>9. exchange.state \in {"none", "open", "executed", "cancelled"}
    BY FieldTypes
  <1> QED
    BY <1>3, <1>4, <1>5, <1>6, <1>7, <1>8, <1>9 DEF SettledOrderAgrees

(* Once every call has ended and every fill arrived, the engine and the    *)
(* exchange agree on quantity, fills and outcome, however submissions,     *)
(* cancellations, replacements, refusals and fills have crossed.           *)
THEOREM SettledOrdersAgree == Spec => []SettledOrderAgrees
  BY InitTyped, NextTyped, InitUntouched, NextUntouched, InitKeepsUp, NextKeepsUp,
     InitBalances, NextBalances, InitAgrees, NextAgrees, AgreementSuffices, PTL DEF Spec
=============================================================================
