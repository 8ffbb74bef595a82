----------------------------- MODULE PaperAccount -----------------------------
(***************************************************************************)
(* PaperSession of ver9/execution/simulator: an account that is charged    *)
(* with the fills an ExecutionSimulator makes up.  Prices, cash and fees   *)
(* are in hundredths of a percent of the unit; the code rounds to eight    *)
(* decimals, this module down to that hundredth.                           *)
(***************************************************************************)
EXTENDS Integers, Sequences, SequencesExt

CONSTANTS
  Markets,
  Prices,           \* what a symbol may be quoted at
  Slippages,        \* in hundredths of a percent: 2 to 30 in the code
  Quantities,       \* of an order
  StartingEquity,   \* 10000 units in the code
  FeeRate,          \* in hundredths of a percent: 4 in the code
  MaxOrders,        \* bound: orders submitted
  MaxMoves,         \* bound: moves of the market
  MaxBatch          \* bound: orders of one call

Market == [Markets -> Prices]

ASSUME AccountAssumption ==
  /\ IsFiniteSet(Markets) /\ Prices \subseteq Nat
  /\ Quantities \subseteq Nat \ {0} /\ Slippages \subseteq 0 .. 10000
  /\ StartingEquity \in Nat /\ FeeRate \in Nat /\ MaxOrders \in Nat
  /\ MaxMoves \in Nat /\ MaxBatch \in Nat

VARIABLES
  account,      \* SessionAccountState
  statistics,   \* SessionStatistics
  quotes,       \* the price the caller requests for each symbol
  moves,        \* of the market, counted for the bound
  edge          \* history: what rising quotes added to what was held when they
                \* rose, and what was paid for units that nobody held

accountVars == <<account, statistics, quotes, moves, edge>>

Flat == [quantity |-> 0, average |-> 0]

AccountInit ==
  /\ account = [cash |-> StartingEquity, equity |-> StartingEquity,
                positions |-> [s \in Markets |-> Flat]]
  /\ statistics = [submitted |-> 0, processed |-> 0, rejected |-> 0, fees |-> 0]
  /\ quotes \in Market
  /\ moves = 0 /\ edge = 0

-----------------------------------------------------------------------------
(* ExecutionSimulator *)

SimulatedOrders == [symbol : Markets, side : {"buy", "sell"}, quantity : Quantities]

(* _simulate_fill_quantity: nothing, 30 to 95 percent of it, or all. *)
FillQuantities(n) ==
  {<<0, "rejected">>, <<n, "filled">>}
    \cup {<<q, "partial">> : q \in {k \in 1 .. n : 30 * n <= 100 * k /\ 100 * k <= 95 * n}}

Percent(price, hundredths) == (price * hundredths) \div 10000

(* Faulty: slippage in favour of whoever sells. *)
SellsAbove(order, slippage) ==
  quotes[order.symbol] + Percent(quotes[order.symbol], slippage)

ExecutedPrice(order, slippage) ==
  LET slipped == Percent(quotes[order.symbol], slippage)
  IN IF order.side = "buy" THEN quotes[order.symbol] + slipped
     ELSE quotes[order.symbol] - slipped

(* execute(), for one order *)
SimulatedFills(order) ==
  {[symbol |-> order.symbol, side |-> order.side, quantity |-> f[1], status |-> f[2],
    price |-> ExecutedPrice(order, slippage),
    fees |-> Percent(f[1] * ExecutedPrice(order, slippage), FeeRate)] :
     f \in FillQuantities(order.quantity), slippage \in Slippages}

-----------------------------------------------------------------------------
(* PaperSession *)

(* A buy blends the average; it does not ask whether the cash is there. *)
Bought(position, fill) ==
  LET total == position.quantity + fill.quantity
  IN [quantity |-> total,
      average  |-> (position.quantity * position.average + fill.quantity * fill.price)
                     \div total]

(* Faulty: a position may turn short. *)
SoldShort(position, fill) == [position EXCEPT !.quantity = @ - fill.quantity]

(* A sale of more than is held ends the position and is paid for in full. *)
Sold(position, fill) ==
  IF fill.quantity >= position.quantity THEN Flat
  ELSE [position EXCEPT !.quantity = @ - fill.quantity]

(* _refresh_equity *)
Equity(cash, positions) ==
  cash + SumFunctionOnSet([s \in Markets |-> positions[s].quantity * positions[s].average],
                          Markets)

(* _apply_fill *)
ApplyFillTo(state, fill) ==
  LET gross     == fill.price * fill.quantity
      cash      == IF fill.side = "buy" THEN state.cash - (gross + fill.fees)
                   ELSE state.cash + (gross - fill.fees)
      positions == [state.positions EXCEPT ![fill.symbol] =
                      IF fill.side = "buy" THEN Bought(@, fill) ELSE Sold(@, fill)]
  IN [cash |-> cash, positions |-> positions, equity |-> Equity(cash, positions)]

(* What a sale is paid for units that are not held when its turn comes.    *)
Unheld(position, fill) ==
  IF fill.side = "sell" /\ fill.quantity > position.quantity
  THEN (fill.quantity - position.quantity) * fill.price ELSE 0

(* One turn of the loop over the fills of a batch. *)
ProcessFill(session, fill) ==
  IF fill.status = "rejected" THEN [session EXCEPT !.statistics.rejected = @ + 1]
  ELSE [account    |-> ApplyFillTo(session.account, fill),
        statistics |-> [session.statistics EXCEPT !.processed = @ + 1,
                                                  !.fees = @ + fill.fees],
        edge       |-> session.edge + Unheld(session.account.positions[fill.symbol], fill)]

(* process_orders: the whole batch is simulated before any of it is booked. *)
Submitted(orders) ==
  [account |-> account, edge |-> edge,
   statistics |-> [statistics EXCEPT !.submitted = @ + Len(orders)]]

ProcessOrders(orders) ==
  /\ statistics.submitted + Len(orders) <= MaxOrders
  /\ \E fills \in [DOMAIN orders -> UNION {SimulatedFills(o) : o \in Range(orders)}] :
       LET session == FoldLeft(ProcessFill, Submitted(orders), fills)
       IN /\ \A i \in DOMAIN orders : fills[i] \in SimulatedFills(orders[i])
          /\ account' = session.account
          /\ statistics' = session.statistics
          /\ edge' = session.edge
  /\ UNCHANGED <<quotes, moves>>

(* The market moves. *)
Quote(symbol, price) ==
  /\ quotes[symbol] # price /\ moves < MaxMoves
  /\ moves' = moves + 1
  /\ quotes' = [quotes EXCEPT ![symbol] = price]
  /\ edge' = edge + (IF price <= quotes[symbol] THEN 0
                     ELSE account.positions[symbol].quantity * (price - quotes[symbol]))
  /\ UNCHANGED <<account, statistics>>

AccountNext ==
  \/ \E orders \in SeqOf(SimulatedOrders, MaxBatch) : ProcessOrders(orders)
  \/ \E symbol \in Markets, price \in Prices : Quote(symbol, price)

AccountSpec == AccountInit /\ [][AccountNext]_accountVars

-----------------------------------------------------------------------------
AccountTypeOK ==
  /\ account \in [cash : Int, equity : Int,
                  positions : [Markets -> [quantity : Nat, average : Nat]]]
  /\ statistics \in [submitted : 0 .. MaxOrders, processed : Nat, rejected : Nat, fees : Nat]
  /\ quotes \in Market
  /\ moves \in 0 .. MaxMoves /\ edge \in Nat

(* The session has no edge of its own: through any sequence of batches,    *)
(* partial and rejected fills, re-bought and blended positions, what it    *)
(* reports as equity exceeds what it started with, less the fees, by no    *)
(* more than rising quotes gave to what was held at the time and than      *)
(* _apply_fill paid for units that nobody held.                            *)
NoEdgeOnPaper == account.equity <= StartingEquity - statistics.fees + edge
=============================================================================
