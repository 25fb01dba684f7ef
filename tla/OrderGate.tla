----------------------------- MODULE OrderGate -----------------------------
(***************************************************************************)
(* The checks that decide whether an order is sent and with which size:    *)
(* LiveRiskEngine.checkOrder (src/live/risk_engine/index.js) and, after    *)
(* it, evaluateSlippageAndLiquidity (src/live/execution/slippage.js).      *)
(* Limits on the halt, the number of orders and the input are not here.    *)
(***************************************************************************)
EXTENDS PositionStore, SequencesExt

CONSTANTS
  MaxOrderQty,           \* config risk.maxOrderQty
  MaxOrderNotional,      \* config risk.maxOrderNotional
  MaxPosition,           \* config risk.maxPositionPerMarket
  MaxSlippageBps,        \* config risk.maxSlippageBps, execution.maxSlippageBps
  MinLiquidity           \* config filters.minDepth, execution.minLiquidity

ASSUME LimitsAssumption ==
  /\ {MaxOrderQty, MaxOrderNotional, MaxPosition} \subseteq Nat \ {0}
  /\ {MaxSlippageBps, MinLiquidity} \subseteq Nat

(* A book is [bids, asks]: levels [price, size], the best first. *)
Levels(book, side) == IF side = "BUY" THEN book.asks ELSE book.bids
Touch(book, side)  == Levels(book, side)[1].price
TwiceMid(book)     == Touch(book, "BUY") + Touch(book, "SELL")

-----------------------------------------------------------------------------
(* checkOrder: the size that is left of size, 0 when the order is refused. *)

ByQty(size) == Least(size, MaxOrderQty)

ByNotional(size, price) ==
  IF size * price > MaxOrderNotional THEN MaxOrderNotional \div price ELSE size

(* What the position may still grow by; a size that is too big becomes that. *)
Room(position) == IF Abs(position) > MaxPosition THEN 0 ELSE MaxPosition - Abs(position)

UpToCap(position, side, size) == size                               \* mutant
ByPosition(position, side, size) ==
  IF Abs(position + Signed(side, size)) > MaxPosition THEN Room(position) ELSE size

CheckedSize(position, side, size, price) ==
  ByPosition(position, side, ByNotional(ByQty(size), price))

-----------------------------------------------------------------------------
(* The slippage and liquidity guard *)

(* The cost of size contracts, level after level, and what no level gives. *)
Take(walk, level) ==
  LET n == Least(walk.left, level.size) IN
  [left |-> walk.left - n, cost |-> walk.cost + n * level.price]

estimateExecution(levels, size) == FoldLeft(Take, [left |-> size, cost |-> 0], levels)

checkLiquidity(levels) ==
  FoldLeft(LAMBDA sum, level : sum + level.price * level.size, 0, levels)

(* cost for size contracts is within the tolerance of the middle price. *)
WithinSlippage(cost, size, book) ==
  10000 * Abs(2 * cost - size * TwiceMid(book)) <= MaxSlippageBps * size * TwiceMid(book)

SlippageAllows(book, side, size) ==
  LET walk == estimateExecution(Levels(book, side), size) IN
  /\ checkLiquidity(Levels(book, side)) >= MinLiquidity
  /\ walk.left = 0
  /\ WithinSlippage(walk.cost, size, book)

(* The size an order is sent with, 0 for none. *)
SentSize(book, position, side, size) ==
  LET price   == Touch(book, side)
      checked == CheckedSize(position, side, size, price)
  IN IF /\ checked >= 1
        /\ WithinSlippage(price, 1, book)
        /\ SlippageAllows(book, side, checked)
     THEN checked ELSE 0

=============================================================================
