------------------------------ MODULE MCRecovery ------------------------------
(* What outlives a process, and the session manager, for TLC: the event    *)
(* log and its recovery, the registry file and the session share no state, *)
(* and a behaviour is one of theirs.  subject says of which.               *)
EXTENDS EventRecovery, RegistryFile, ExchangeSession, TLC

CONSTANTS o1, f1, a1, n1, n2, p1, p2, c1, c2

(* n2 is a legacy name of n1. *)
LegacyNames == n1 :> n1 @@ n2 :> n1

Plain(k) == [kind |-> k, retired |-> FALSE, marks |-> {}]

(* Two records of any kinds, with or without something after them, no file *)
(* and one that cannot be parsed.                                          *)
AnyFile ==
  {[form |-> f, recovered |-> FALSE, entries |-> e, quarantined |-> {}] :
     f \in {"json", "trailing"}, e \in [Names -> {Nothing} \cup {Plain(k) : k \in Kinds}]}
    \cup {[DefaultState EXCEPT !.form = f] : f \in {"absent", "broken"}}

VARIABLE subject

Events_ ==
  /\ subject = "events"
  /\ RecoveryNext
  /\ UNCHANGED <<registryVars, sessionVars, subject>>

Registry_ ==
  /\ subject = "registry"
  /\ RegistryNext
  /\ UNCHANGED <<recoveryVars, sessionVars, subject>>

Session_ ==
  /\ subject = "session"
  /\ SessionNext
  /\ UNCHANGED <<recoveryVars, registryVars, subject>>

Init ==
  /\ RecoveryInit /\ SessionInit
  /\ subject \in {"events", "registry", "session"}
  /\ IF subject = "registry" THEN RegistryInit ELSE RegistryInit /\ registryFile = DefaultState

Next == Events_ \/ Registry_ \/ Session_

Spec == Init /\ [][Next]_<<recoveryVars, registryVars, sessionVars, subject>>

TypeOK == RecoveryTypeOK /\ RegistryTypeOK /\ SessionTypeOK
=============================================================================
