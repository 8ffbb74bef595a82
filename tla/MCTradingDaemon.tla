--------------------------- MODULE MCTradingDaemon ---------------------------
(* Instances of TradingDaemon for TLC. *)
EXTENDS TradingDaemon, TLC

CONSTANTS s1, s2, daemon, operator

PaperLimit == -150   \* -15.0 percent, in tenths

Health(status, recovery, decay, retired) ==
  [status |-> status, recovery |-> recovery, decay |-> decay, retired |-> retired]

Row(status, multiplier, passed) ==
  [status |-> status, multiplier |-> multiplier, passed |-> passed, tradeable |-> TRUE]

(* A strategy nobody has seen, one fresh from evolve, one on its way back  *)
(* from a quarantine, one in it.                                           *)
AnyPair ==
  {<<NoEntry, Unregistered>>,
   <<NoEntry, Row("deployable", 10, TRUE)>>,
   <<Health("probationary", 0, 0, FALSE), Row("probationary", 10, TRUE)>>,
   <<Health("quarantined", RecoveryThreshold - 1, 0, FALSE), Row("quarantined", 10, TRUE)>>}

(* Rows the optimizer may all allocate, on every rung of the ladder. *)
UsablePairs ==
  {<<NoEntry, Row("deployable", 10, TRUE)>>,
   <<NoEntry, Row("validated", 10, TRUE)>>,
   <<Health("probationary", 1, 0, FALSE), Row("probationary", 5, TRUE)>>,
   <<Health("active", 0, 0, FALSE), Row("active", 10, TRUE)>>,
   <<Health("retired", 0, 65, TRUE), Row("retired", 10, TRUE)>>}

(* A row auto_promote made deployable on its score although its validation *)
(* failed, and one that may be allocated, a rung below.                    *)
MixedPairs ==
  {<<NoEntry, Row("deployable", 10, FALSE)>>, <<NoEntry, Row("validated", 10, TRUE)>>}

(* A row evolve has made deployable. *)
DeployableOnly == {[status |-> "deployable", passed |-> TRUE]}
=============================================================================
