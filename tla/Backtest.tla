------------------------------- MODULE Backtest -------------------------------
(***************************************************************************)
(* The research track of ver9/research: a grid search whose candidates a   *)
(* PortfolioBacktestEngine replays, the walk-forward windows a             *)
(* BacktestEngine replays, and the RobustnessCoordinator.  A behaviour is  *)
(* one call of one of the three.  Capital is in tenths of a unit, closing  *)
(* prices in hundreds of it, and a Sharpe ratio, which no property is      *)
(* about, is any of a few numbers.                                         *)
(***************************************************************************)
EXTENDS Integers, Sequences, FiniteSets, SequencesExt, FiniteSetsExt

CONSTANTS
  Closes,           \* of the frame, a sequence
  EarlierExperiments,  \* records of earlier searches, sequences of metrics
  Grids,            \* how many combinations a parameter space may have
  MaxSignals,       \* bound: signals of one strategy
  Confidences,      \* of a signal, in percent
  Sharpes,          \* in hundredths
  InitialCapital, RiskPct, MaxPositions, ExposurePct, FeeBps, SlippageBps, HoldingBars,
  MinTrades, MaxDrawdown, MinSharpe, MaxRatio,     \* of the guardrails
  TrainSize, TestSize, StepSize,                   \* of the walk-forward validator
  Returns,          \* of a trade, in percent
  MaxReturns,       \* bound: trades given to one Monte Carlo call
  Variabilities,    \* of the scores of the candidates, in percent
  Simulations       \* bound: paths of one Monte Carlo call, 500 in the code

ASSUME BacktestAssumption ==
  /\ Closes \in Seq(Nat) /\ Grids \subseteq Nat /\ MaxSignals \in Nat
  /\ Confidences \subseteq Int /\ Sharpes \subseteq Int
  /\ InitialCapital \in Nat \ {0} /\ MaxPositions \in Nat /\ HoldingBars \in Nat \ {0}
  /\ RiskPct \in Nat /\ FeeBps \in Nat /\ SlippageBps \in Nat
  /\ EarlierExperiments \subseteq Seq([return : Int, drawdown : Int, sharpe : Int, trades : Int])
  /\ TrainSize \in Nat /\ TestSize \in Nat \ {0} /\ StepSize \in Nat \ {0}
  /\ Returns \subseteq Int /\ MaxReturns \in Nat /\ Variabilities \subseteq Nat
  /\ Simulations \in Nat \ {0}

VARIABLES
  job,          \* the call: "search", "walk" or "robust", with its input
  trial,        \* the backtest that runs: capital, curve, held, trades, signals seen
  candidates,   \* of the search, in the order of the combinations; ranked at its end
  experiments,  \* the records under storage_root, the oldest first
  windows,      \* of the walk, with the result of each
  paths,        \* of the Monte Carlo call
  outcome       \* of the call, the verdict of the coordinator included

backtestVars == <<job, trial, candidates, experiments, windows, paths, outcome>>

Fresh == [capital |-> InitialCapital, curve |-> <<InitialCapital>>, held |-> <<>>,
          trades |-> 0, signals |-> 0]

Jobs ==
  [call : {"search"}, grid : Grids, returns : {<<>>}]
    \cup [call : {"walk"}, grid : {0}, returns : {<<>>}]
    \cup [call : {"robust"}, grid : {0}, returns : SeqOf(Returns, MaxReturns)]

BacktestInit ==
  /\ job \in Jobs
  /\ trial = Fresh
  /\ experiments \in EarlierExperiments
  /\ candidates = <<>> /\ windows = <<>> /\ paths = <<>>
  /\ outcome = "running"

-----------------------------------------------------------------------------
(* PortfolioBacktestEngine *)

Notionals(positions) == FoldSeq(LAMBDA p, sum : sum + p, 0, positions)

(* _current_symbol_exposure: the frame has one symbol *)
Exposure(positions, capital) ==
  IF capital <= 0 THEN 0 ELSE (Notionals(positions) * 100) \div capital

(* _calculate_position_size times the price *)
Notional(capital, confidence, price) ==
  IF price <= 0 THEN 0
  ELSE (((capital * RiskPct) \div 100) * Max({25, Min({100, confidence})})) \div 100

(* Slippage raises the entry price of either side. *)
NetPnl(notional, side, entry, exit) ==
  LET rise == (notional * (exit * 10000 - entry * (10000 + SlippageBps))) \div (entry * 10000)
      fees == (notional * (10000 + SlippageBps) * FeeBps) \div 100000000
  IN (IF side = "buy" THEN rise ELSE 0 - rise) - fees

(* One turn of the loop over the signals.  bar is where the timestamp of   *)
(* the signal is in the frame, 0 when it is not.  The position is opened   *)
(* and removed within the turn.                                            *)
ReplaySignal(bar, side, confidence) ==
  LET entry    == Closes[bar]
      notional == Notional(trial.capital, confidence, entry)
      capital  == trial.capital + NetPnl(notional, side, entry, Closes[bar + HoldingBars])
      opened   == Append(trial.held, notional)
      skipped  == [trial EXCEPT !.signals = @ + 1]
  IN /\ job.call = "search" /\ outcome = "running" /\ Len(candidates) < job.grid
     /\ trial.signals < MaxSignals
     /\ trial' =
          IF \/ Len(trial.held) >= MaxPositions
             \/ bar = 0 \/ bar + HoldingBars > Len(Closes)
             \/ Exposure(trial.held, trial.capital) >= ExposurePct
             \/ notional <= 0
          THEN skipped
          ELSE [skipped EXCEPT !.capital = capital,
                               !.curve = Append(@, capital),
                               !.held = Remove(opened, notional),
                               !.trades = @ + 1]
     /\ UNCHANGED <<job, candidates, experiments, windows, paths, outcome>>

(* Figures of a curve are in hundredths of a percent. *)
Share(part, whole) == (part * 10000) \div whole

(* Faulty: how far the end of the curve is below its peak. *)
FinalFall(curve) == Share(Max(Range(curve)) - Last(curve), Max(Range(curve)))

(* max_drawdown_pct without its sign: from the peak of the whole curve to  *)
(* the lowest point of the whole curve, whichever came first               *)
Drawdown(curve) == Share(Max(Range(curve)) - Min(Range(curve)), Max(Range(curve)))

-----------------------------------------------------------------------------
(* GridSearchOptimizer, ExperimentTracker, OptimizationGuardrails *)

(* _score *)
Composite(m) ==
  35 * m.return + 3500 * m.sharpe - 45 * m.drawdown + 1500 * Min({100, m.trades})

Metrics(sharpe) ==
  [return |-> Share(trial.capital - InitialCapital, InitialCapital),
   drawdown |-> Drawdown(trial.curve), sharpe |-> sharpe, trades |-> trial.trades]

(* create_experiment and save: each record is a file under an id of its own. *)
Save(metrics) == experiments' = Append(experiments, metrics)

(* One combination of the grid is done.  A Sharpe ratio needs two returns. *)
RecordCandidate(sharpe) ==
  /\ job.call = "search" /\ outcome = "running" /\ Len(candidates) < job.grid
  /\ Len(trial.curve) < 3 => sharpe = 0
  /\ LET m == Metrics(sharpe) IN
       /\ candidates' = Append(candidates, [metrics |-> m, score |-> Composite(m),
                                            curve |-> trial.curve, decision |-> "none"])
       /\ Save(m)
  /\ trial' = Fresh
  /\ UNCHANGED <<job, windows, paths, outcome>>

(* Python's sort is stable, reversed or not. *)
Ranked(scores) ==
  CHOOSE order \in Bijection(DOMAIN scores, DOMAIN scores) :
    \A a, b \in DOMAIN scores :
      a < b => \/ scores[order[a]] > scores[order[b]]
               \/ scores[order[a]] = scores[order[b]] /\ order[a] < order[b]

Decision(m) ==
  IF m.trades < MinTrades THEN "insufficient_trade_count"
  ELSE IF m.drawdown > MaxDrawdown THEN "excessive_drawdown"
  ELSE IF m.sharpe < MinSharpe THEN "weak_sharpe_ratio"
  ELSE IF m.drawdown > 0 /\ m.return > MaxRatio * m.drawdown THEN "suspicious_return_profile"
  ELSE "accepted"

(* The end of optimize; the guardrails judge what it returns.  A parameter *)
(* without values leaves no combination, and ranked[0] raises.             *)
RankCandidates ==
  /\ job.call = "search" /\ outcome = "running" /\ Len(candidates) = job.grid
  /\ LET order == Ranked([k \in DOMAIN candidates |-> candidates[k].score])
     IN candidates' = [k \in DOMAIN candidates |->
                         LET c == candidates[order[k]]
                         IN [c EXCEPT !.decision = Decision(c.metrics)]]
  /\ outcome' = IF candidates = <<>> THEN "failed" ELSE "done"
  /\ UNCHANGED <<job, trial, experiments, windows, paths>>

-----------------------------------------------------------------------------
(* WalkForwardValidator and BacktestEngine *)

(* The engine never looks at a later candle: it sells for a fifth of a     *)
(* percent more than the close it buys at.                                 *)
FixedGain(close) ==
  (close * ((20 - SlippageBps) * 10000 - (10000 + SlippageBps) * FeeBps)) \div 100000

(* The equity curve of the engine for signals at these candles. *)
FixedCurve(bars) ==
  LET ordered == SetToSortSeq(bars, <)
  IN FoldLeft(LAMBDA curve, bar : Append(curve, Last(curve) + FixedGain(Closes[bar])),
              <<InitialCapital>>, ordered)

(* Faulty: the candle training ends at is trained on. *)
TrainedUpTo(cursor) == (cursor - TrainSize + 1) .. (cursor + 1)

(* frame.iloc[train_start:train_end] and [test_start:test_end]: the first  *)
(* candle of the frame is 1 here.                                          *)
TrainedBefore(cursor) == (cursor - TrainSize + 1) .. cursor

TestedFrom(cursor) == (cursor + 1) .. (cursor + TestSize)

(* One turn of the loop of validate: the cursor is where testing starts,   *)
(* and only the test candles are given to the strategy.  The engine copies *)
(* the side of a signal into the trade and reckons both alike.             *)
WalkForward(side, signalled) ==
  LET cursor == TrainSize + StepSize * Len(windows)
      curve  == FixedCurve({cursor + k : k \in signalled})
  IN /\ job.call = "walk" /\ outcome = "running"
     /\ cursor + TestSize <= Len(Closes)
     /\ windows' = Append(windows,
          [trained |-> TrainedBefore(cursor), tested |-> TestedFrom(cursor), side |-> side,
           trades |-> Cardinality(signalled),
           wins |-> Cardinality({k \in signalled : FixedGain(Closes[cursor + k]) > 0}),
           return |-> Last(curve) - InitialCapital])
     /\ UNCHANGED <<job, trial, candidates, experiments, paths, outcome>>

EndOfWalk ==
  /\ job.call = "walk" /\ outcome = "running"
  /\ TrainSize + StepSize * Len(windows) + TestSize > Len(Closes)
  /\ outcome' = "done"
  /\ UNCHANGED <<job, trial, candidates, experiments, windows, paths>>

-----------------------------------------------------------------------------
(* MonteCarloValidator and RobustnessCoordinator *)

(* Equity after each trade, in units of 100 ^ -Len(returns): a trade that  *)
(* is done counts for 100 and its return, one that is to come for 100.     *)
EquityPath(returns) ==
  [k \in 1 .. Len(returns) + 1 |->
     FoldFunction(LAMBDA a, b : a * b, 1,
                  [i \in DOMAIN returns |-> IF i < k THEN 100 + returns[i] ELSE 100])]

(* A point of a curve and one that is not before it. *)
Falls(curve) ==
  UNION {{<<curve[i], curve[j]>> : j \in i .. Len(curve)} : i \in DOMAIN curve}

(* _max_drawdown: from the peak so far, in percent *)
RunningDrawdown(curve) ==
  Max({((fall[1] - fall[2]) * 100) \div fall[1] : fall \in Falls(curve)})

(* random.shuffle *)
Shuffled(returns) ==
  {[k \in DOMAIN returns |-> returns[p[k]]] : p \in Bijection(DOMAIN returns, DOMAIN returns)}

(* ruin_threshold_pct: half of the initial capital is lost at this point. *)
Halved(curve, k) == 2 * curve[k] <= curve[1]

Simulate ==
  /\ job.call = "robust" /\ outcome = "running"
  /\ job.returns # <<>> /\ Len(paths) < Simulations
  /\ \E shuffled \in Shuffled(job.returns) :
       LET curve == EquityPath(shuffled)
       IN paths' = Append(paths, [curve |-> curve, drawdown |-> RunningDrawdown(curve),
                                  ruined |-> Halved(curve, Len(curve))])
  /\ UNCHANGED <<job, trial, candidates, experiments, windows, outcome>>

RuinPercent ==
  IF job.returns = <<>> THEN 100
  ELSE (100 * Cardinality({k \in DOMAIN paths : paths[k].ruined})) \div Simulations

Stable(variability) == variability < 35

(* evaluate, when the scores of the candidates vary this much *)
Evaluate(variability) ==
  /\ job.call = "robust" /\ outcome = "running"
  /\ job.returns # <<>> => Len(paths) = Simulations
  /\ LET score == Max({0, 100 - RuinPercent - variability \div 2
                            - (IF Stable(variability) THEN 0 ELSE 15)})
     IN outcome' = IF RuinPercent < 25 /\ Stable(variability) /\ score >= 50
                   THEN "passed" ELSE "refused"
  /\ UNCHANGED <<job, trial, candidates, experiments, windows, paths>>

BacktestNext ==
  \/ \E bar \in 0 .. Len(Closes), side \in {"buy", "sell"}, confidence \in Confidences :
       ReplaySignal(bar, side, confidence)
  \/ \E sharpe \in Sharpes : RecordCandidate(sharpe)
  \/ RankCandidates
  \/ \E side \in {"buy", "sell"}, signalled \in SUBSET (1 .. TestSize) :
       WalkForward(side, signalled)
  \/ EndOfWalk
  \/ Simulate
  \/ \E variability \in Variabilities : Evaluate(variability)

BacktestSpec == BacktestInit /\ [][BacktestNext]_backtestVars

-----------------------------------------------------------------------------
BacktestTypeOK ==
  /\ job \in Jobs
  /\ outcome \in {"running", "done", "failed", "passed", "refused"}
  /\ trial.capital = Last(trial.curve) /\ trial.trades = Len(trial.curve) - 1
  /\ trial.trades <= trial.signals /\ trial.signals <= MaxSignals
  /\ Len(candidates) <= job.grid /\ Len(experiments) >= Len(candidates)
  /\ Len(paths) <= Simulations

(* How far a curve really falls from a peak it has reached before. *)
DeepestFall(curve) ==
  Max({Share(fall[1] - fall[2], fall[1]) : fall \in Falls(curve)})

(* The engine takes the final peak and the lowest point for the drawdown   *)
(* without asking which came first: no candidate falls deeper than that.   *)
DrawdownNotUnderstated ==
  \A k \in DOMAIN candidates :
    DeepestFall(candidates[k].curve) <= candidates[k].metrics.drawdown

(* "Walk-forward validation" (README.md:311): no candle is trained on and  *)
(* tested in one window, all are of the frame, and none is tested by two   *)
(* windows unless the step is shorter than the test.                       *)
WindowsAreApart ==
  \A k \in DOMAIN windows :
    /\ windows[k].trained \cup windows[k].tested \subseteq DOMAIN Closes
    /\ windows[k].trained \cap windows[k].tested = {}
    /\ StepSize >= TestSize =>
         \A l \in DOMAIN windows \ {k} : windows[k].tested \cap windows[l].tested = {}
=============================================================================
