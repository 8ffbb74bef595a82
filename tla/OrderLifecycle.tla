---------------------------- MODULE OrderLifecycle ----------------------------
(***************************************************************************)
(* What an observer of one order of ver9/execution may rely on: its status *)
(* and how much of it is filled.  The order is submitted before anything   *)
(* else happens to it; every call moves the status along the table of      *)
(* OrderStateMachine; a fill, which does not ask the table, may arrive in  *)
(* any status after that and leaves the order partially filled or filled.  *)
(***************************************************************************)
EXTENDS Naturals

VARIABLES status, filled

Statuses ==
  {"CREATED", "SUBMITTED", "ACKNOWLEDGED", "PARTIALLY_FILLED", "FILLED",
   "CANCEL_PENDING", "CANCELLED", "REJECTED", "FAILED"}

(* OrderStateMachine.VALID_TRANSITIONS *)
Allowed(old) ==
  CASE old = "CREATED"          -> {"SUBMITTED", "REJECTED", "FAILED"}
    [] old = "SUBMITTED"        -> {"ACKNOWLEDGED", "REJECTED", "FAILED"}
    [] old = "ACKNOWLEDGED"     -> {"PARTIALLY_FILLED", "FILLED", "CANCEL_PENDING",
                                    "CANCELLED"}
    [] old = "PARTIALLY_FILLED" -> {"FILLED", "CANCEL_PENDING", "CANCELLED"}
    [] old = "CANCEL_PENDING"   -> {"CANCELLED", "FILLED"}
    [] OTHER                    -> {}

Init == status = "CREATED" /\ filled = 0

Move ==
  /\ status' \in Allowed(status)
  /\ UNCHANGED filled

Fill ==
  /\ status # "CREATED"
  /\ filled' = filled + 1
  /\ status' \in {"PARTIALLY_FILLED", "FILLED"}

Spec == Init /\ [][Move \/ Fill]_<<status, filled>>
=============================================================================
