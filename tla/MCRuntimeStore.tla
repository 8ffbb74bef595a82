--------------------------- MODULE MCRuntimeStore ---------------------------
(* Instances of RuntimeStore for TLC. *)
EXTENDS RuntimeStore, TLC

CONSTANTS s1, s2, daemon, operator, w1, w2

Symmetric == Permutations({s1, s2})

SymmetricWorkers == Permutations({s1, s2}) \cup Permutations({w1, w2})

(* One process at a time: it makes every call on the state file. *)
EveryCall == [p \in {daemon} |-> CallKinds \ {"evolve"}]

(* The daemon beside the risk command, which writes both files too, and    *)
(* beside two worker threads of evolve-distributed.                        *)
SideBySide ==
  [p \in {daemon, operator, w1, w2} |->
     CASE p = daemon   -> {"cycle", "quarantine"}
       [] p = operator -> {"drift"}
       [] OTHER        -> {"evolve"}]

(* The daemon persists a cycle and nothing else happens. *)
CycleOnly == [p \in {daemon} |-> {"cycle"}]
=============================================================================
