------------------------------ MODULE PreTrade ------------------------------
(***************************************************************************)
(* How the simulator sizes a recommendation (processSigs,                  *)
(* src/engine/alpha.js 316-363) and how the pre-trade check judges it      *)
(* (preTradeRisk, src/engine/risk.js 48-145).  The two are written apart   *)
(* and share their limits.  Prices and notionals are in cents; how a size  *)
(* is first wished for (Kelly, volatility) is an input.                    *)
(***************************************************************************)
EXTENDS Integers

CONSTANTS
  MaxPos, MaxCatQty,        \* config maxPos, maxCatQty: contracts
  MaxExpNotional,           \* config maxExpNotional, in cents
  HalfOpenMaxNotional,      \* config cbHalfOpenMaxNotional, in cents
  MaxPositionLoss,          \* config maxPositionLossPct of the equity, in cents
  MinLiqRatio,              \* config minLiqRatio
  MinOrderQty,              \* config minOrderQty
  MinOrderNotional,         \* config minOrderNotional, in cents
  MinVerdict                \* the size below which preTradeRisk refuses: 15

ASSUME PreTradeAssumption ==
  /\ {MaxPos, MaxCatQty, MaxExpNotional, HalfOpenMaxNotional, MaxPositionLoss} \subseteq Nat
  /\ {MinLiqRatio, MinOrderQty, MinOrderNotional, MinVerdict} \subseteq Nat \ {0}

Prices == 1..99
States == {"closed", "half_open", "open"}

(* What the two look at: contracts held in the market and in its category, *)
(* the gross exposure that the last tick reported and that of this moment, *)
(* the drawdown scale in percent, the market's volume, and the three       *)
(* checks that only say yes or no.                                         *)
Books ==
  [held : Nat, cat : Nat, gross : Nat, grossNow : Nat, scale : 0..100, adv : Nat,
   quality : BOOLEAN, valid : BOOLEAN, uncorrelated : BOOLEAN]

Recs == [sz : Nat, price : Prices]

Least(a, b) == IF a <= b THEN a ELSE b
Room(limit, used) == IF used >= limit THEN 0 ELSE limit - used

(* While the breaker is half open an order is a probe, capped in cents. *)
Probe(state, size, price) ==
  IF state = "half_open" THEN Least(size, HalfOpenMaxNotional \div price) ELSE size

-----------------------------------------------------------------------------
(* processSigs: the size of a recommendation, or none *)

LossRoom(book, price) ==
  Room((MaxPositionLoss * book.scale) \div 100, book.held * price) \div price

Sized(state, want, price, book) ==
  LET byNotional == Least(want, Room(MaxExpNotional, book.gross) \div price)
      byMarket   == Least(byNotional, Room(MaxPos, book.held))
      byCategory == Least(byMarket, Room(MaxCatQty, book.cat))
      probe      == Probe(state, byCategory, price)
  IN Least(probe, LossRoom(book, price))

WorthIt(size, price) == size >= MinOrderQty /\ size * price >= MinOrderNotional

-----------------------------------------------------------------------------
(* preTradeRisk: the verdict on a recommendation *)

Scaled(size, scale) == (size * scale) \div 100

AllowedCapAsQty(state, rec, book) ==                                \* mutant
  LET probe    == IF state = "half_open" THEN Least(rec.sz, HalfOpenMaxNotional \div 100)
                  ELSE rec.sz
      byMarket == Least(probe, Room(MaxPos, book.held))
      byNotional == Least(byMarket, Room(MaxExpNotional, book.grossNow) \div rec.price)
  IN Least(Scaled(byNotional, book.scale), Room(MaxCatQty, book.cat))
Allowed(state, rec, book) ==
  LET probe      == Probe(state, rec.sz, rec.price)
      byMarket   == Least(probe, Room(MaxPos, book.held))
      byNotional == Least(byMarket, Room(MaxExpNotional, book.grossNow) \div rec.price)
      scaled     == Scaled(byNotional, book.scale)
  IN Least(scaled, Room(MaxCatQty, book.cat))

Liquid(size, adv) == adv >= MinLiqRatio * size

preTradeRisk(state, rec, book) ==
  LET size == Allowed(state, rec, book) IN
  [ok |-> /\ state # "open"
          /\ Liquid(size, book.adv)
          /\ book.quality /\ book.valid /\ book.uncorrelated
          /\ size >= MinVerdict,
   sz |-> size]

=============================================================================
