-------------------------------- MODULE MCLive --------------------------------
(* The runtime that talks to the exchange, for TLC.  LiveRuntime and       *)
(* ExchangeSession share no state: a behaviour is one of theirs.  subject  *)
(* says of which: the whole runtime started once, its stream alone started *)
(* twice, or the session manager.                                          *)
EXTENDS LiveRuntime, ExchangeSession, TLC

CONSTANTS f1, c1, c2

VARIABLE subject

Whole ==
  /\ subject = "whole"
  /\ LiveNext
  /\ starts' <= 1
  /\ UNCHANGED <<sessionVars, subject>>

Stream ==
  /\ subject = "stream"
  /\ Orchestrator \/ StreamStep
  /\ UNCHANGED <<sessionVars, subject>>

Session ==
  /\ subject = "session"
  /\ SessionNext
  /\ UNCHANGED <<liveVars, subject>>

Init == LiveInit /\ SessionInit /\ subject \in {"whole", "stream", "session"}

Next == Whole \/ Stream \/ Session

vars == <<liveVars, sessionVars, subject>>

(* Each part has the fairness of its module. *)
Spec ==
  /\ Init /\ [][Next]_vars
  /\ StreamFairness /\ SessionFairness
  /\ \A r \in Runs :
       WF_<<scheduler, world>>(subject = "whole" /\ (Cycle(r) \/ Corrected(r)))

TypeOK == LiveTypeOK /\ SessionTypeOK
=============================================================================
