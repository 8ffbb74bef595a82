-------------------------- MODULE CandidateGeneration --------------------------
(***************************************************************************)
(* Which candidates a call of generate_candidates makes: the quotas of     *)
(* diversity.py, tuned by quota_tuner.py to a regime that is read off the  *)
(* candidates of earlier calls, and generation.py's plan over them.        *)
(* Factors are in hundredths.                                              *)
(***************************************************************************)
EXTENDS Integers, Sequences, FiniteSets, FiniteSetsExt, SequencesExt

CONSTANTS
  Families, Symbols    \* DEFAULT_FAMILIES and DEFAULT_SYMBOLS, in their order

ReversionFirst == <<"mean_reversion", "volatility_compression", "trend">>

(* Names in the order of the alphabet, which decides between equals. *)
Alphabet == <<"BTC/USDT", "ETH/USDT", "SOL/USDT", "adaptive", "mean_reversion", "trend",
              "volatility_compression">>

Pairs == {"BTC/USDT", "ETH/USDT", "SOL/USDT"}

ByFamily(reversion, compression, trend) ==
  [mean_reversion |-> reversion, volatility_compression |-> compression, trend |-> trend]

BySymbol(btc, eth, sol) ==
  [s \in Pairs |-> IF s = "BTC/USDT" THEN btc ELSE IF s = "ETH/USDT" THEN eth ELSE sol]

DefaultFamilyQuotas == ByFamily(5, 4, 3)

DefaultSymbolQuotas == BySymbol(4, 4, 3)

RegimeFamilyBias ==
  [trend                  |-> ByFamily(78, 98, 135),
   mean_reversion         |-> ByFamily(135, 105, 72),
   volatility_compression |-> ByFamily(92, 145, 82),
   adaptive               |-> ByFamily(105, 100, 95)]

RegimeSymbolBias ==
  [trend                  |-> BySymbol(110, 105, 108),
   mean_reversion         |-> BySymbol(115, 110, 95),
   volatility_compression |-> BySymbol(100, 118, 112),
   adaptive               |-> BySymbol(100, 100, 100)]

ASSUME GenerationAssumption ==
  /\ Families \in Seq(DOMAIN DefaultFamilyQuotas) /\ Families # <<>>
  /\ Symbols \in Seq(Pairs) /\ Symbols # <<>>

-----------------------------------------------------------------------------
(* A history is the rows of earlier calls. *)
Histories == Seq([family : DOMAIN DefaultFamilyQuotas, symbol : Pairs,
                  regime : DOMAIN RegimeFamilyBias, score : Int])

CountOf(history, field, value) ==
  Cardinality({i \in DOMAIN history : history[i][field] = value})

Place(name) == CHOOSE i \in DOMAIN Alphabet : Alphabet[i] = name

(* The most frequent value, of equals the last in the alphabet. *)
DominantKey(history, field) ==
  LET values == {history[i][field] : i \in DOMAIN history}
  IN CHOOSE v \in values : \A w \in values \ {v} :
       \/ CountOf(history, field, v) > CountOf(history, field, w)
       \/ /\ CountOf(history, field, v) = CountOf(history, field, w)
          /\ Place(v) > Place(w)

(* The first family of the priority that is at most one row behind. *)
PriorityFamily(history) ==
  LET most  == CountOf(history, "family", DominantKey(history, "family"))
      close == {i \in DOMAIN ReversionFirst :
                  LET n == CountOf(history, "family", ReversionFirst[i])
                  IN n > 0 /\ n >= most - 1}
  IN IF close = {} THEN DominantKey(history, "family") ELSE ReversionFirst[Min(close)]

(* The families a history can hold all have a bias, so that its regimes    *)
(* and the counts after them are never asked.                              *)
InferRegime(history, fallback) ==
  IF history = <<>> THEN fallback ELSE PriorityFamily(history)

(* round() takes a half to the even neighbour. *)
WeightedRound(base, factor) ==
  LET whole == (base * factor) \div 100
      rest  == (base * factor) % 100
  IN IF rest > 50 \/ (rest = 50 /\ whole % 2 = 1) THEN whole + 1 ELSE whole

(* The value with the best mean of the positive scores, of equals the more *)
(* frequent and then the last in the alphabet; none without such a score.  *)
BestOf(history, field) ==
  LET scored   == SelectSeq(history, LAMBDA row : row.score > 0)
      values   == {scored[i][field] : i \in DOMAIN scored}
      count(v) == CountOf(scored, field, v)
      total(v) == FoldLeft(LAMBDA sum, row : IF row[field] = v THEN sum + row.score ELSE sum,
                           0, scored)
      beats(v, w) ==
        \/ total(v) * count(w) > total(w) * count(v)
        \/ /\ total(v) * count(w) = total(w) * count(v)
           /\ count(v) > count(w) \/ (count(v) = count(w) /\ Place(v) > Place(w))
  IN {v \in values : \A w \in values \ {v} : beats(v, w)}

(* tune_family_quotas and tune_symbol_quotas: nobody is tuned away. *)
Tuned(quotas, bias, best, gain) ==
  [x \in DOMAIN quotas |->
     Max({1, WeightedRound(quotas[x], bias[x] + (IF x \in best THEN gain ELSE 0))})]

(* build_regime_quota_plan: how many candidates of a family and a symbol *)
Planned(iterations, regime, history) ==
  LET families == Tuned(DefaultFamilyQuotas, RegimeFamilyBias[regime],
                        BestOf(history, "family"), 15)
      symbols  == Tuned(DefaultSymbolQuotas, RegimeSymbolBias[regime],
                        BestOf(history, "symbol"), 10)
  IN [f \in Range(Families) |->
        [s \in Range(Symbols) |-> Min({Max({1, iterations}), families[f], symbols[s]})]]

(* Without a history every family is of its own regime. *)
BuildCandidate(family, symbol, iteration, regime) ==
  [family |-> family, symbol |-> symbol, iteration |-> iteration,
   regime |-> IF regime = "adaptive" THEN family ELSE regime]

(* generate_candidates: family by family, symbol by symbol *)
Generated(iterations, history) ==
  LET regime   == InferRegime(history, "adaptive")
      plan     == Planned(iterations, regime, history)
      of(f, s) == [k \in 1 .. plan[f][s] |-> BuildCandidate(f, s, k - 1, regime)]
      family(f) == FlattenSeq([j \in DOMAIN Symbols |-> of(f, Symbols[j])])
  IN FlattenSeq([i \in DOMAIN Families |-> family(Families[i])])
=============================================================================
