---------------------------- MODULE BasketOptimizer ----------------------------
(***************************************************************************)
(* BasketOptimizer.build of ver9/basket_optimizer, one candidate at a time *)
(* in the order of the scores, then the weights; portfolio.py calls it     *)
(* under three policies.  Scores are in hundredths, weights in hundredths  *)
(* of a percent of the capital; the code has floats.                       *)
(***************************************************************************)
EXTENDS Integers, Sequences, FiniteSets, FiniteSetsExt, SequencesExt

CONSTANTS
  StartRows,   \* sequences of [symbol, family, regime, timeframe, quality, age,
               \* multiplier, tradeable, passed, proven]
  Policies,    \* [max, min, soft] of the three portfolios
  Tolerance    \* of the sum of the weights, in hundredths of a percent

Attributes == {"symbol", "family", "regime", "timeframe"}

ASSUME OptimizerAssumption ==
  /\ \A offer \in StartRows :
       /\ offer \in Seq(Range(offer))
       /\ \A i \in DOMAIN offer :
            offer[i].quality \in Int /\ offer[i].age \in Nat /\ offer[i].multiplier \in 0 .. 100
  /\ \A p \in Policies : p.min \in Nat \ {0} /\ p.max \in Nat \ {0} /\ p.soft \in BOOLEAN
  /\ Tolerance \in Nat

VARIABLES
  offered,     \* the candidates of the call
  policy,
  pass,        \* "strict", "relaxed", "weigh", "clip", "done"
  left,        \* the rows of this pass still to be considered
  selected,
  rejected,    \* [row, reason] in the order they were turned down
  marks,       \* basket_score and pair_penalty as last written to each row
  weights,
  rounds       \* of clipping still to go

optimizerVars ==
  <<offered, policy, pass, left, selected, rejected, marks, weights, rounds>>

-----------------------------------------------------------------------------
(* What the constructor makes of its arguments, and the portfolios of      *)
(* portfolio.py: as asked for, all positions or none, and filled up.       *)

Asked(max, min, soft) == [max |-> Max({1, max}), min |-> Max({1, min}), soft |-> soft]

StrictPortfolio(max) == Asked(max, max, FALSE)

ProbationaryPortfolio(max, min) == Asked(max, min, TRUE)

-----------------------------------------------------------------------------
(* Scores. *)

Freshness(days) ==
  IF days <= 3 THEN 100 ELSE IF days <= 7 THEN 90 ELSE IF days <= 14 THEN 75
  ELSE IF days <= 30 THEN 50 ELSE 20

(* quality is what profit factor, return, robustness, trades, validation,  *)
(* family and regime come to over the drawdown.                            *)
CandidateScore(row) ==
  (row.quality * Freshness(row.age) * row.multiplier) \div 10000

(* A status that is traded, a validation that did not fail, and a score of *)
(* validation or of robustness above zero.                                 *)
IsEligible(row) == row.tradeable /\ row.passed /\ row.proven

Penalty == [symbol |-> 118, family |-> 32, regime |-> 16, timeframe |-> 8]
Bonus   == [symbol |-> 18, family |-> 10, regime |-> 6, timeframe |-> 3]

Shared(i, j) == {a \in Attributes : offered[i][a] = offered[j][a]}

(* In a second pass a row that was selected meets itself here. *)
PairPenalty(i) ==
  SumFunctionOnSet([k \in DOMAIN selected |->
                      SumFunctionOnSet(Penalty, Shared(i, selected[k]))], DOMAIN selected)

DiversityBonus(i) ==
  IF selected = <<>> THEN 15
  ELSE SumFunctionOnSet(Bonus, Attributes \ UNION {Shared(i, j) : j \in Range(selected)})

MarksOf(i) ==
  [penalty |-> PairPenalty(i),
   score   |-> CandidateScore(offered[i]) + DiversityBonus(i) - PairPenalty(i)]

Eligibles == {i \in DOMAIN offered : IsEligible(offered[i])}
SymbolsIn(is) == {offered[i].symbol : i \in is}

(* The next row of `ranked`: the sort is stable. *)
IsNext(i) ==
  \A j \in left \ {i} :
    LET si == CandidateScore(offered[i])
        sj == CandidateScore(offered[j])
    IN si > sj \/ (si = sj /\ i < j)

-----------------------------------------------------------------------------
OptimizerInit ==
  /\ offered \in StartRows /\ policy \in Policies
  /\ pass = "strict" /\ left = Eligibles
  /\ selected = <<>> /\ rejected = <<>>
  /\ marks = [i \in DOMAIN offered |-> [penalty |-> 0, score |-> 0]]
  /\ weights = <<>> /\ rounds = 10

(* What consider() finds wrong with a row, in its order of asking; 20 is   *)
(* min_candidate_score.                                                    *)
Verdict(i) ==
  LET score == MarksOf(i).score
  IN IF i \in Range(selected) THEN "duplicate_strategy"
     ELSE IF pass = "strict" /\ offered[i].symbol \in SymbolsIn(Range(selected))
     THEN "duplicate_symbol"
     ELSE IF pass = "strict" /\ score < 20 /\ Len(selected) >= policy.min
     THEN "score_below_threshold"
     ELSE IF score < 0 /\ selected = <<>> THEN "negative_seed_score"
     ELSE "accepted"

(* consider(row, relaxed): the marks are written before the row is judged. *)
Consider(i) ==
  /\ pass \in {"strict", "relaxed"} /\ Len(selected) < policy.max
  /\ i \in left /\ IsNext(i)
  /\ left' = left \ {i}
  /\ marks' = [marks EXCEPT ![i] = MarksOf(i)]
  /\ IF Verdict(i) = "accepted"
     THEN selected' = Append(selected, i) /\ UNCHANGED rejected
     ELSE /\ rejected' = Append(rejected, [row |-> i, reason |-> Verdict(i)])
          /\ UNCHANGED selected
  /\ UNCHANGED <<offered, policy, pass, weights, rounds>>

FillsUp == policy.soft /\ Len(selected) < policy.min

EndOfPass ==
  /\ pass \in {"strict", "relaxed"}
  /\ left = {} \/ Len(selected) >= policy.max
  /\ IF pass = "strict" /\ FillsUp THEN pass' = "relaxed" /\ left' = Eligibles
     ELSE pass' = "weigh" /\ left' = {}
  /\ UNCHANGED <<offered, policy, selected, rejected, marks, weights, rounds>>

-----------------------------------------------------------------------------
(* Weights. *)

Chosen == Range(selected)

AlikeIn(i, attribute) == {j \in Chosen : offered[j][attribute] = offered[i][attribute]}

(* Faulty: a family is not counted. *)
CapBySymbol(i) ==
  (Max({1800, Min({4000, 7000 \div Cardinality(AlikeIn(i, "symbol"))})})
     * offered[i].multiplier) \div 100

(* _allocation_caps *)
AllocationCap(i) ==
  (Max({1800, Min({4000, 7000 \div Cardinality(AlikeIn(i, "symbol")),
                   6500 \div Cardinality(AlikeIn(i, "family"))})})
     * offered[i].multiplier) \div 100

Capital == 10000

(* basket_score less what correlation takes, and fresh. *)
RawScore(i) ==
  (Max({marks[i].score, 0}) * 10000 * Freshness(offered[i].age))
    \div (10000 + 14 * Max({marks[i].penalty, 0}))

Normalized ==
  LET total == SumFunctionOnSet([i \in Chosen |-> RawScore(i)], Chosen)
  IN [i \in Chosen |-> IF total > 0 THEN (RawScore(i) * Capital) \div total
                       ELSE Capital \div Cardinality(Chosen)]

(* An undersized basket is dropped. *)
Normalize ==
  /\ pass = "weigh"
  /\ IF Len(selected) < policy.min
     THEN pass' = "done" /\ selected' = <<>> /\ UNCHANGED weights
     ELSE pass' = "clip" /\ weights' = Normalized /\ UNCHANGED selected
  /\ UNCHANGED <<offered, policy, left, rejected, marks, rounds>>

(* A round of _build_weights: clip every weight to its cap and every       *)
(* family to 65 percent, and hand out what that freed in proportion to the *)
(* room there is, until nothing is freed, there is no room, or ten rounds  *)
(* have gone by.                                                           *)
Redistribute ==
  LET families   == {offered[i].family : i \in Chosen}
      members(f) == {i \in Chosen : offered[i].family = f}
      Sum(w)     == SumFunctionOnSet(w, Chosen)
      clipped    == [i \in Chosen |-> Min({weights[i], AllocationCap(i)})]
      overflow   == [f \in families |->
                       Max({0, SumFunctionOnSet(clipped, members(f)) - 6500})]
      over       == SumFunctionOnSet(overflow, families)
      part       == [i \in Chosen |-> overflow[offered[i].family]
                                       \div Cardinality(members(offered[i].family))]
      reduced    == [i \in Chosen |-> Max({0, clipped[i] - part[i]})]
      room       == [i \in Chosen |-> AllocationCap(i) - clipped[i] + part[i]]
      excess     == Sum(weights) - Sum(clipped) + over
      roomTotal  == Sum([i \in Chosen |-> AllocationCap(i)]) - Sum(clipped) + over
      ends       == excess = 0 \/ roomTotal = 0
  IN /\ pass = "clip"
     /\ weights' = [i \in Chosen |->
          IF ends THEN reduced[i]
          ELSE Min({AllocationCap(i), reduced[i] + (excess * room[i]) \div roomTotal})]
     /\ rounds' = rounds - 1
     /\ pass' = IF ends \/ rounds = 1 THEN "done" ELSE "clip"
     /\ UNCHANGED <<offered, policy, left, selected, rejected, marks>>

OptimizerNext == (\E i \in left : Consider(i)) \/ EndOfPass \/ Normalize \/ Redistribute

OptimizerSpec == OptimizerInit /\ [][OptimizerNext]_optimizerVars

-----------------------------------------------------------------------------
OptimizerTypeOK ==
  /\ offered \in Seq(Range(offered))
  /\ \A i \in DOMAIN offered :
       offered[i].quality \in Int /\ offered[i].age \in Nat /\ offered[i].multiplier \in 0 .. 100
  /\ policy \in Policies /\ pass \in {"strict", "relaxed", "weigh", "clip", "done"}
  /\ left \subseteq DOMAIN offered
  /\ selected \in Seq(DOMAIN offered) /\ Len(selected) <= policy.max
  /\ rejected \in Seq([row : DOMAIN offered,
                       reason : {"duplicate_strategy", "duplicate_symbol",
                                 "score_below_threshold", "negative_seed_score"}])
  /\ marks \in [DOMAIN offered -> [penalty : Nat, score : Int]]
  /\ weights \in [Chosen -> 0 .. Capital] \cup {<<>>} /\ rounds \in 0 .. 10

(* Passing over, skipping, filling up and ten rounds of clipping decide    *)
(* what BasketChoice says a basket is: within the limits of its policy, of *)
(* single symbols while there are enough, shares within their limits and   *)
(* cash only when all of them are used up.                                 *)
Choice == INSTANCE BasketChoice WITH
            rows    <- offered,
            Score   <- CandidateScore,
            decided <- pass = "done",
            basket  <- IF pass = "done" THEN Chosen ELSE {},
            shares  <- IF pass = "done" THEN weights ELSE <<>>

ChoiceMade == Choice!ChoiceSpec
=============================================================================
