-------------------------------- MODULE MCDesk --------------------------------
(* The paper account, the choice of a basket, the making of candidates and *)
(* the research track, for TLC: they share no state, and a behaviour is    *)
(* one of theirs.  subject says of which.                                  *)
EXTENDS PaperAccount, BasketOptimizer, CandidateEvolution, Backtest

CONSTANTS btc, eth, sol

-----------------------------------------------------------------------------
(* Candidates of the optimizer: three symbols, two families, strong, weak  *)
(* and worse than nothing, fresh and stale, at half and at no capital, and *)
(* one whose validation failed.                                            *)
Row(symbol, family, quality, age, multiplier) ==
  [symbol |-> symbol, family |-> family, regime |-> family, timeframe |-> "1h",
   quality |-> quality, age |-> age, multiplier |-> multiplier,
   tradeable |-> TRUE, passed |-> TRUE, proven |-> TRUE]

RowKinds ==
  <<Row(btc, "mean_reversion", 260, 1, 100), Row(btc, "trend", 200, 10, 100),
    Row(eth, "mean_reversion", 240, 5, 50), Row(eth, "mean_reversion", 30, 40, 100),
    Row(sol, "mean_reversion", 220, 1, 100), Row(sol, "trend", 150, 20, 0),
    Row(eth, "trend", -40, 1, 100),
    [Row(sol, "trend", 300, 1, 100) EXCEPT !.passed = FALSE]>>

(* Four of them in any number; the order tells only equals apart. *)
OfferedRows ==
  {[a \in 1 .. 4 |-> RowKinds[k[a]]] :
     k \in {k \in [1 .. 4 -> DOMAIN RowKinds] : \A a \in 1 .. 3 : k[a] <= k[a + 1]}}

(* With the defaults of portfolio.py, with a fourth position asked for on  *)
(* the command line, and with more asked for than allowed.                 *)
DeskPolicies ==
  {ProbationaryPortfolio(3, 2), StrictPortfolio(3), ProbationaryPortfolio(4, 2),
   ProbationaryPortfolio(1, 2)}

-----------------------------------------------------------------------------
AllFamilies == <<"mean_reversion", "volatility_compression", "trend">>
TwoPairs == <<"BTC/USDT", "SOL/USDT">>

(* Good enough for each status in turn, by a score alone, and for none. *)
Figure(passed, score, tested, factor, drawdown) ==
  [passed |-> passed, score |-> score, robustness |-> 78, tested |-> tested,
   factor |-> factor, drawdown |-> drawdown]

CandidateFigures ==
  {Figure(TRUE, 90, 95, 250, -50), Figure(TRUE, 90, 85, 200, -70),
   Figure(TRUE, 90, 60, 185, -90), Figure(FALSE, 60, 95, 250, -50),
   Figure(FALSE, 30, 95, 250, -50)}

Seen(family, symbol, score) ==
  [family |-> family, symbol |-> symbol, regime |-> family, score |-> score]

HistoryRows ==
  {Seen("trend", "SOL/USDT", 80), Seen("trend", "BTC/USDT", 0),
   Seen("mean_reversion", "BTC/USDT", 60)}

(* The first candle is sold higher, the second lower, the rest too late. *)
FrameCloses == <<100, 110, 90, 120, 105>>

(* Of a first run, and of one over the directory an earlier one has left. *)
StoredExperiments ==
  {<<>>, <<[return |-> 40, drawdown |-> 10, sharpe |-> 80, trades |-> 2]>>}

TradeReturns == {-60, -25, 30}

CallsOfTheCycle ==
  {[command |-> c, iterations |-> 1, history |-> <<>>] : c \in {"evolve", "distributed"}}
    \cup {[command |-> "generate", iterations |-> n, history |-> h] :
            n \in {1, 5}, h \in SeqOf(HistoryRows, 3)}

-----------------------------------------------------------------------------
VARIABLE subject

Paper_ ==
  /\ subject = "paper"
  /\ AccountNext
  /\ UNCHANGED <<optimizerVars, evolutionVars, backtestVars, subject>>

Basket_ ==
  /\ subject = "basket"
  /\ OptimizerNext
  /\ UNCHANGED <<accountVars, evolutionVars, backtestVars, subject>>

Evolution_ ==
  /\ subject = "evolution"
  /\ EvolutionNext
  /\ UNCHANGED <<accountVars, optimizerVars, backtestVars, subject>>

Research_ ==
  /\ subject = "research"
  /\ BacktestNext
  /\ UNCHANGED <<accountVars, optimizerVars, evolutionVars, subject>>

(* The subjects a behaviour is not about start in one state. *)
Init ==
  /\ subject \in {"paper", "basket", "evolution", "research"}
  /\ AccountInit
  /\ subject # "paper" => quotes = [s \in Markets |-> 10000]
  /\ OptimizerInit
  /\ subject # "basket" => offered = [a \in 1 .. 4 |-> RowKinds[1]] /\ policy.max = 4
  /\ EvolutionInit
  /\ subject # "evolution" => cycle.command = "evolve"
  /\ BacktestInit
  /\ subject # "research" => job.call = "walk" /\ experiments = <<>>

Next == Paper_ \/ Basket_ \/ Evolution_ \/ Research_

Spec == Init /\ [][Next]_<<accountVars, optimizerVars, evolutionVars, backtestVars, subject>>

TypeOK == AccountTypeOK /\ OptimizerTypeOK /\ EvolutionTypeOK /\ BacktestTypeOK
=============================================================================
