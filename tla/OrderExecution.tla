---------------------------- MODULE OrderExecution ----------------------------
(***************************************************************************)
(* One order in ver9/execution: the calls of ExecutionEngine on it, the    *)
(* retries of ExecutionRetryPolicy, the fills FillReconciliationEngine     *)
(* applies and the records ExecutionJournal keeps.  Two orders share       *)
(* nothing but the journal file, whose records name their order.           *)
(*                                                                         *)
(* Tasks are coroutines of one event loop: what lies between two awaits is *)
(* one step.  Every call awaits the exchange, and meanwhile another task   *)
(* may call, and the feed may deliver a fill.  The exchange and the feed   *)
(* are not part of the repository (ExchangeExecutionAdapter is abstract):  *)
(* a request is handled or not, its answer arrives or not, and the feed    *)
(* delivers fills when it likes, some of them twice or never.              *)
(***************************************************************************)
EXTENDS Naturals

CONSTANTS
  Tasks,
  Quantities,       \* what an order may be created with, or replaced by
  max_attempts,     \* RetryPolicyConfig
  MaxCalls, MaxFaults, MaxFeedFaults   \* bounds of the model

ASSUME OrderAssumption ==
  /\ Quantities \subseteq Nat \ {0}
  /\ max_attempts \in Nat \ {0}
  /\ MaxCalls \in Nat /\ MaxFaults \in Nat /\ MaxFeedFaults \in Nat

VARIABLES
  status, quantity, filled,   \* the ExecutionOrder
  task,        \* the call each task is in
  journal,     \* what replaying the journal gives for the order
  exchange,    \* the order as the exchange has it
  stray,       \* quantity left in orders a repeated submission has opened
  feed,        \* fills executed, but not delivered
  calls, faults, feedFaults,  \* counters for the bounds
  seen         \* history: what has gone wrong so far, see Anomalies

order == <<status, quantity, filled>>
market == <<exchange, stray>>
bounds == <<calls, faults, feedFaults>>
vars == <<order, task, journal, market, feed, bounds, seen>>

L == INSTANCE OrderLifecycle WITH status <- status, filled <- filled

(* raised: a call ended with an exception.                                 *)
(* amended: a replacement left nothing to fill, or after the exchange had  *)
(*   handled it and before the engine knew, a fill was applied or another  *)
(*   replacement handled.                                                  *)
(* late: a fill was applied to an order whose cancellation had been        *)
(*   answered.  feed: the feed has lost or repeated a fill.                *)
(* reopened: a repeated submission has opened another order.               *)
Anomalies == {"raised", "amended", "late", "feed", "reopened"}

Idle == [kind |-> "none"]

Kinds == {"submit", "cancel", "replace"}

(* sent: the exchange has not handled the request.  answered, refused: it  *)
(* has, and the task has not resumed yet.                                  *)
Calls ==
  [kind : Kinds, at : {"sent", "answered", "refused"}, attempt : 1 .. max_attempts,
   quantity : Quantities]

Awaiting(t) == task[t] # Idle

-----------------------------------------------------------------------------
Init ==
  /\ status = "CREATED" /\ quantity \in Quantities /\ filled = 0
  /\ task = [t \in Tasks |-> Idle]
  /\ journal = [known |-> FALSE, status |-> "CREATED", quantity |-> 0, filled |-> 0]
  /\ exchange = [state |-> "none", quantity |-> 0, executed |-> 0]
  /\ stray = 0 /\ feed = 0
  /\ calls = 0 /\ faults = 0 /\ feedFaults = 0
  /\ seen = {}

Send(t, kind, q) ==
  /\ task[t] = Idle /\ calls < MaxCalls
  /\ calls' = calls + 1
  /\ task' = [task EXCEPT ![t] =
       [kind |-> kind, at |-> "sent", attempt |-> 1, quantity |-> q]]
  /\ UNCHANGED <<quantity, filled, journal, market, feed, faults, feedFaults, seen>>

(* Each call starts with the transition to its pending status, and raises  *)
(* before it has done anything if the table does not allow it.             *)
BeginSubmit(t) ==
  /\ "SUBMITTED" \in L!Allowed(status) /\ status' = "SUBMITTED"
  /\ Send(t, "submit", quantity)

BeginCancel(t) ==
  /\ "CANCEL_PENDING" \in L!Allowed(status) /\ status' = "CANCEL_PENDING"
  /\ Send(t, "cancel", quantity)

(* replace_order asks nothing of the status. *)
BeginReplace(t, q) ==
  /\ Send(t, "replace", q)
  /\ UNCHANGED status

-----------------------------------------------------------------------------
(* The exchange. *)

Handled(t, outcome) == task' = [task EXCEPT ![t].at = outcome]

Amended(q) ==
  [exchange EXCEPT !.quantity = q, !.state = IF q = exchange.executed THEN "executed" ELSE @]

(* A repeated submission is recognised by its client_order_id, or is not. *)
HandleSubmit(t) ==
  /\ task[t].kind = "submit"
  /\ Handled(t, "answered")
  /\ \/ /\ exchange.state = "none"
        /\ exchange' = [state |-> "open", quantity |-> task[t].quantity, executed |-> 0]
        /\ UNCHANGED <<stray, seen>>
     \/ /\ exchange.state # "none"
        /\ UNCHANGED <<market, seen>>
     \/ /\ exchange.state # "none"
        /\ stray' = stray + task[t].quantity
        /\ seen' = seen \cup {"reopened"}
        /\ UNCHANGED exchange

HandleCancel(t) ==
  /\ task[t].kind = "cancel"
  /\ IF exchange.state = "open"
     THEN exchange' = [exchange EXCEPT !.state = "cancelled"] /\ Handled(t, "answered")
     ELSE Handled(t, "refused") /\ UNCHANGED exchange
  /\ UNCHANGED <<stray, seen>>

(* A replacement the exchange has handled is still to be answered. *)
Replacing ==
  \E t \in Tasks : task[t].kind = "replace" /\ task[t].at \in {"answered", "refused"}

(* The engine does not know of a replacement. *)
Outdated == exchange.state # "none" /\ quantity # exchange.quantity

HandleReplace(t) ==
  /\ task[t].kind = "replace"
  /\ IF exchange.state = "open" /\ task[t].quantity >= exchange.executed
     THEN exchange' = Amended(task[t].quantity) /\ Handled(t, "answered")
     ELSE Handled(t, "refused") /\ UNCHANGED exchange
  /\ seen' = IF Replacing \/ Outdated \/ task[t].quantity = exchange.executed
             THEN seen \cup {"amended"} ELSE seen
  /\ UNCHANGED stray

Handle(t) ==
  /\ task[t] # Idle /\ task[t].at = "sent"
  /\ HandleSubmit(t) \/ HandleCancel(t) \/ HandleReplace(t)
  /\ UNCHANGED <<order, journal, feed, bounds>>

Executes ==
  /\ feed' = feed + 1
  /\ \/ /\ exchange.state = "open"
        /\ exchange' = [exchange EXCEPT
             !.executed = @ + 1,
             !.state = IF exchange.executed + 1 = exchange.quantity THEN "executed" ELSE @]
        /\ UNCHANGED stray
     \/ /\ stray > 0 /\ stray' = stray - 1
        /\ UNCHANGED exchange
  /\ UNCHANGED <<order, task, journal, bounds, seen>>

-----------------------------------------------------------------------------
(* The task resumes. *)

Ends(t) == task' = [task EXCEPT ![t] = Idle]

(* append_order: the whole order. *)
JournalOrder ==
  journal' = [known |-> TRUE, status |-> status', quantity |-> quantity', filled |-> filled']

Raises(t) ==
  /\ Ends(t)
  /\ seen' = seen \cup {"raised"}
  /\ UNCHANGED <<order, journal>>

(* Faulty: the status is assigned, the table not asked. *)
AcknowledgesUnchecked(t) ==
  /\ task[t].kind = "submit"
  /\ status' = "ACKNOWLEDGED" /\ UNCHANGED <<quantity, filled, seen>>
  /\ JournalOrder /\ Ends(t)

(* Faulty: the fills of the answer are taken over as well. *)
AcknowledgesWithFills(t) ==
  /\ task[t].kind = "submit"
  /\ \/ /\ "ACKNOWLEDGED" \in L!Allowed(status)
        /\ status' = "ACKNOWLEDGED" /\ filled' = exchange.executed
        /\ UNCHANGED <<quantity, seen>>
        /\ JournalOrder /\ Ends(t)
     \/ "ACKNOWLEDGED" \notin L!Allowed(status) /\ Raises(t)

(* A fill that overtook the answer has changed the status, and the         *)
(* transition raises: the order is not journaled.                          *)
Acknowledges(t) ==
  /\ task[t].kind = "submit"
  /\ \/ /\ "ACKNOWLEDGED" \in L!Allowed(status)
        /\ status' = "ACKNOWLEDGED" /\ UNCHANGED <<quantity, filled, seen>>
        /\ JournalOrder /\ Ends(t)
     \/ "ACKNOWLEDGED" \notin L!Allowed(status) /\ Raises(t)

(* Faulty: the answer does not change the status. *)
CancelsNothing(t) ==
  /\ task[t].kind = "cancel"
  /\ UNCHANGED <<order, seen>> /\ JournalOrder /\ Ends(t)

Cancels(t) ==
  /\ task[t].kind = "cancel"
  /\ \/ /\ "CANCELLED" \in L!Allowed(status)
        /\ status' = "CANCELLED" /\ UNCHANGED <<quantity, filled, seen>>
        /\ JournalOrder /\ Ends(t)
     \/ "CANCELLED" \notin L!Allowed(status) /\ Raises(t)

(* Faulty: the new quantity is not journaled. *)
ReplacesUnjournaled(t) ==
  /\ task[t].kind = "replace"
  /\ quantity' = task[t].quantity /\ UNCHANGED <<status, filled, seen>>
  /\ Ends(t) /\ UNCHANGED journal

Replaces(t) ==
  /\ task[t].kind = "replace"
  /\ quantity' = task[t].quantity /\ UNCHANGED <<status, filled, seen>>
  /\ JournalOrder /\ Ends(t)

Resume(t) ==
  /\ task[t] # Idle /\ task[t].at = "answered"
  /\ Acknowledges(t) \/ Cancels(t) \/ Replaces(t)
  /\ UNCHANGED <<market, feed, bounds>>

(* The request is made again, with the order as it is by then. *)
Repeated(t, attempt) ==
  [task[t] EXCEPT !.at = "sent", !.attempt = attempt,
                  !.quantity = IF task[t].kind = "submit" THEN quantity ELSE @]

(* Faulty: the attempts are not counted. *)
RetriesForever(t) ==
  /\ task' = [task EXCEPT ![t] = Repeated(t, task[t].attempt)]
  /\ UNCHANGED <<order, journal, seen>>

(* Faulty: one attempt too many. *)
RetriesOnceMore(t) ==
  IF task[t].attempt <= max_attempts
  THEN /\ task' = [task EXCEPT ![t] = Repeated(t, task[t].attempt + 1)]
       /\ UNCHANGED <<order, journal, seen>>
  ELSE Raises(t)

(* Any exception is met by the same request again, up to max_attempts. *)
Retries(t) ==
  IF task[t].attempt < max_attempts
  THEN /\ task' = [task EXCEPT ![t] = Repeated(t, task[t].attempt + 1)]
       /\ UNCHANGED <<order, journal, seen>>
  ELSE Raises(t)

(* The request or its answer is lost ... *)
Fault(t) ==
  /\ task[t] # Idle /\ task[t].at \in {"sent", "answered"}
  /\ faults < MaxFaults /\ faults' = faults + 1
  /\ Retries(t)
  /\ UNCHANGED <<market, feed, calls, feedFaults>>

(* ... or the exchange refuses. *)
Refused(t) ==
  /\ task[t] # Idle /\ task[t].at = "refused"
  /\ Retries(t)
  /\ UNCHANGED <<market, feed, bounds>>

-----------------------------------------------------------------------------
(* Fills. *)

(* Faulty: the last fill does not complete the order. *)
FilledStatusStrict(total) == IF total > quantity THEN "FILLED" ELSE "PARTIALLY_FILLED"

FilledStatus(total) == IF total >= quantity THEN "FILLED" ELSE "PARTIALLY_FILLED"

Noticed ==
  (IF Outdated THEN {"amended"} ELSE {}) \cup (IF status = "CANCELLED" THEN {"late"} ELSE {})

(* ExecutionEngine.apply_fill: any status, and the journal gets the fill   *)
(* and the status it led to.                                               *)
ApplyFill ==
  /\ filled' = filled + 1
  /\ status' = FilledStatus(filled + 1)
  /\ journal' = [journal EXCEPT !.status = status', !.filled = @ + 1]
  /\ UNCHANGED <<quantity, task, market, calls, faults>>

Deliver ==
  /\ feed > 0 /\ feed' = feed - 1
  /\ ApplyFill
  /\ seen' = seen \cup Noticed
  /\ UNCHANGED feedFaults

DeliverTwice ==
  /\ feed > 0 /\ feedFaults < MaxFeedFaults
  /\ feedFaults' = feedFaults + 1
  /\ ApplyFill
  /\ seen' = seen \cup Noticed \cup {"feed"}
  /\ UNCHANGED feed

Drop ==
  /\ feed > 0 /\ feed' = feed - 1
  /\ feedFaults < MaxFeedFaults /\ feedFaults' = feedFaults + 1
  /\ seen' = seen \cup {"feed"}
  /\ UNCHANGED <<order, task, journal, market, calls, faults>>

Progress(t) == Handle(t) \/ Resume(t) \/ Refused(t)

Next ==
  \/ \E t \in Tasks :
       \/ BeginSubmit(t) \/ BeginCancel(t)
       \/ \E q \in Quantities : BeginReplace(t, q)
       \/ Progress(t) \/ Fault(t)
  \/ Executes
  \/ Deliver \/ DeliverTwice \/ Drop

Spec == Init /\ [][Next]_vars

(* The exchange handles and answers what it is asked, or the adapter raises *)
(* (see Fault), and the event loop resumes a coroutine whose await is over. *)
FairSpec == Spec /\ \A t \in Tasks : WF_vars(Progress(t))
-----------------------------------------------------------------------------
(* Properties. *)

(* The order, the journal's view of it and the exchange's are of the kinds *)
(* order_model.py defines.                                                 *)
TypeOK ==
  /\ status \in L!Statuses /\ quantity \in Quantities /\ filled \in Nat
  /\ task \in [Tasks -> Calls \cup {Idle}]
  /\ journal \in [known : BOOLEAN, status : L!Statuses, quantity : Nat, filled : Nat]
  /\ exchange \in [state : {"none", "open", "executed", "cancelled"},
                   quantity : Nat, executed : Nat]
  /\ stray \in Nat /\ feed \in Nat
  /\ calls \in Nat /\ faults \in Nat /\ feedFaults \in Nat
  /\ seen \subseteq Anomalies

AllIdle == \A t \in Tasks : task[t] = Idle

(* Every step of the engine is one an observer of OrderLifecycle expects:  *)
(* a late answer never overwrites the status a fill has set meanwhile.     *)
LifecycleSpec == L!Spec

(* "recovery source-of-truth": unless a call has raised, whenever no call  *)
(* is in progress replaying the journal gives the order as it is in        *)
(* memory, whatever fills, calls and answers have overtaken each other.    *)
JournalReplaysOrder ==
  AllIdle /\ "raised" \notin seen /\ status # "CREATED" =>
    journal = [known |-> TRUE, status |-> status, quantity |-> quantity, filled |-> filled]

(* Once no call is in progress and every fill delivered, order and         *)
(* exchange agree on quantity, fills and outcome, unless one of the        *)
(* anomalies has been seen.                                                *)
SettledOrderAgrees ==
  AllIdle /\ feed = 0 /\ seen = {} =>
    /\ exchange.state # "none" => quantity = exchange.quantity /\ filled = exchange.executed
    /\ status = CASE exchange.state = "none"      -> "CREATED"
                  [] exchange.state = "cancelled" -> "CANCELLED"
                  [] exchange.state = "executed"  -> "FILLED"
                  [] OTHER -> IF filled = 0 THEN "ACKNOWLEDGED" ELSE "PARTIALLY_FILLED"

(* An order is filled beyond its quantity only if the feed repeated a      *)
(* fill, a replacement and a fill crossed, or an answer was lost and the   *)
(* retry opened another order at the exchange.                             *)
OverfillHasACause ==
  filled > quantity => seen \cap {"feed", "amended", "reopened"} # {}

(* Every call ends: refusals are retried max_attempts times at most. *)
CallsEnd == \A t \in Tasks : Awaiting(t) ~> ~Awaiting(t)

(* A cancellation is not left pending, unless a call has raised. *)
CancellationsResolve ==
  status = "CANCEL_PENDING" ~> (status # "CANCEL_PENDING" \/ "raised" \in seen)

(* "Durable execution journal ... recovery source-of-truth"                *)
(* (execution_journal.py:18): an order that is open at the exchange, and   *)
(* no longer being submitted, is in the journal.                           *)
JournalKnowsOpenOrders ==
  exchange.state = "open" /\ AllIdle => journal.known
=============================================================================
