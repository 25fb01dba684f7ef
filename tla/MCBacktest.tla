---------------------------- MODULE MCBacktest ----------------------------
EXTENDS Backtest

(* Prices in a unit that keeps the averages of several purchases exact. *)
Unit == 36
Level(price, size) == [price |-> price * Unit, size |-> size]

(* A deep one; one whose second bid is too far away; one whose bids all    *)
(* are; one with the same best bid that is near its mid; one without bids. *)
BooksDef ==
  {[bids |-> <<Level(12, 3)>>, asks |-> <<Level(18, 3)>>, mid |-> 15 * Unit],
   [bids |-> <<Level(12, 1), Level(6, 2)>>, asks |-> <<Level(18, 1)>>, mid |-> 15 * Unit],
   [bids |-> <<Level(6, 3)>>, asks |-> <<Level(18, 3)>>, mid |-> 12 * Unit],
   [bids |-> <<Level(6, 3)>>, asks |-> <<Level(12, 3)>>, mid |-> 7 * Unit],
   [bids |-> <<>>, asks |-> <<Level(18, 3)>>, mid |-> 18 * Unit]}

=============================================================================
