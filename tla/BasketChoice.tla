----------------------------- MODULE BasketChoice -----------------------------
(***************************************************************************)
(* What a basket of ver9/basket_optimizer promises whoever trades it: one  *)
(* decision over the rows it is given, whichever way the rows are ranked,  *)
(* skipped, filled up and weighed.  BasketOptimizer implements it.         *)
(***************************************************************************)
EXTENDS Integers, FiniteSets, FiniteSetsExt, Functions

CONSTANTS
  StartRows,   \* the sequences of candidates that may be offered
  Score(_),    \* of a candidate
  Policies,    \* [max, min, soft]: how many positions, and whether to fill up
  Tolerance    \* what rounding may cost the sum of the shares

VARIABLES rows, policy, decided, basket, shares

choiceVars == <<rows, policy, decided, basket, shares>>

Whole == 10000

Eligible == {i \in DOMAIN rows : rows[i].tradeable /\ rows[i].passed /\ rows[i].proven}
SymbolsOf(is) == {rows[i].symbol : i \in is}

(* Enough to choose from, for a policy that asks for no more than it       *)
(* allows; the first position must be worth its bonus, 15.                 *)
Enough ==
  /\ policy.min <= policy.max
  /\ Cardinality(IF policy.soft THEN Eligible ELSE SymbolsOf(Eligible)) >= policy.min
  /\ \E i \in Eligible : Score(rows[i]) >= -15

(* Two positions in a symbol only where the symbols do not suffice, and no *)
(* better row of a symbol of its own is passed over for a minimal basket.  *)
Acceptable(chosen) ==
  /\ chosen \subseteq Eligible
  /\ IF Enough THEN Cardinality(chosen) \in policy.min .. policy.max ELSE chosen = {}
  /\ Cardinality(SymbolsOf(chosen)) < Cardinality(chosen) =>
       policy.soft /\ Cardinality(SymbolsOf(Eligible)) < policy.min
  /\ \A i \in Eligible \ chosen, j \in chosen :
       Score(rows[i]) > Score(rows[j]) /\ Cardinality(chosen) = policy.min =>
         rows[i].symbol \in SymbolsOf(chosen)

AlikeRows(chosen, i, attribute) == {j \in chosen : rows[j][attribute] = rows[i][attribute]}
Alike(chosen, i, attribute) == Cardinality(AlikeRows(chosen, i, attribute))

(* 40 percent of the capital, an even part of the 70 percent of a symbol   *)
(* and of the 65 of a family, never under 18 percent, and of that what the *)
(* state of the strategy leaves it.                                        *)
Limit(chosen, i) ==
  (Max({1800, Min({4000, 7000 \div Alike(chosen, i, "symbol"),
                   6500 \div Alike(chosen, i, "family")})}) * rows[i].multiplier) \div 100

(* No share is over its limit.  What the positions of a symbol or a family *)
(* add up to stays within its limit while these are so few that the floor  *)
(* of 18 percent is out of play: three.                                    *)
WithinLimits(chosen, w) ==
  \A i \in chosen :
    /\ w[i] \in 0 .. Limit(chosen, i)
    /\ Alike(chosen, i, "symbol") <= 3 =>
         SumFunctionOnSet(w, AlikeRows(chosen, i, "symbol")) <= 7000
    /\ Alike(chosen, i, "family") <= 3 =>
         SumFunctionOnSet(w, AlikeRows(chosen, i, "family")) <= 6500

(* The capital is not exceeded, and cash is left only when all shares are  *)
(* at their limits.                                                        *)
UsesCapital(chosen, w) ==
  LET total    == SumFunctionOnSet(w, chosen)
      possible == SumFunctionOnSet([i \in chosen |-> Limit(chosen, i)], chosen)
  IN /\ total <= Whole
     /\ chosen # {} => total >= Min({Whole, possible}) - Tolerance

ChoiceInit ==
  /\ rows \in StartRows /\ policy \in Policies
  /\ decided = FALSE /\ basket = {} /\ shares = <<>>

Decide ==
  /\ ~decided /\ decided'
  /\ Acceptable(basket')
  /\ DOMAIN shares' = basket' /\ WithinLimits(basket', shares') /\ UsesCapital(basket', shares')
  /\ UNCHANGED <<rows, policy>>

ChoiceSpec == ChoiceInit /\ [][Decide]_choiceVars
=============================================================================
