--------------------------- MODULE PositionStore ---------------------------
(***************************************************************************)
(* PositionStore.applyFill (src/live/state/positionStore.js) as an         *)
(* operator.  A price is a natural number of the smallest unit the store   *)
(* keeps (round4), a size a positive number of contracts.                  *)
(***************************************************************************)
EXTENDS Integers

Sides == {"BUY", "SELL"}
Positions == [qty : Int, avg : Nat, realized : Int]
emptyPosition == [qty |-> 0, avg |-> 0, realized |-> 0]

Abs(n) == IF n < 0 THEN -n ELSE n
Least(a, b) == IF a <= b THEN a ELSE b
Signed(side, size) == IF side = "BUY" THEN size ELSE -size

(* Math.round of a quotient: the nearest unit, a half upwards. *)
Rounded(a, b) == (2 * a + b) \div (2 * b)

(* The fill goes the way of the position: the average price is weighted. *)
Adds(pos, side) == IF side = "BUY" THEN pos.qty >= 0 ELSE pos.qty <= 0

Increase(pos, side, size, price) ==
  [pos EXCEPT !.qty = @ + Signed(side, size),
              !.avg = Rounded(@ * Abs(pos.qty) + price * size, Abs(pos.qty) + size)]

(***************************************************************************)
(* The fill goes against it: the part that closes realizes its profit, and *)
(* what is left opens a position of the other sign at the fill's price.    *)
(***************************************************************************)
AvgKept(pos, size, price) == IF size = Abs(pos.qty) THEN 0 ELSE pos.avg  \* mutant
AvgAfter(pos, size, price) ==
  CASE size > Abs(pos.qty) -> price
    [] size = Abs(pos.qty) -> 0
    [] OTHER               -> pos.avg

Profit(pos, size, price) ==
  LET closed == Least(size, Abs(pos.qty)) IN
  IF pos.qty > 0 THEN closed * (price - pos.avg) ELSE closed * (pos.avg - price)

Reduce(pos, side, size, price) ==
  [qty      |-> pos.qty + Signed(side, size),
   avg      |-> AvgAfter(pos, size, price),
   realized |-> pos.realized + Profit(pos, size, price)]

Filled(pos, side, size, price) ==
  IF Adds(pos, side) THEN Increase(pos, side, size, price)
                     ELSE Reduce(pos, side, size, price)

(* What a fill costs, and what a position is carried at. *)
Paid(side, size, price) == Signed(side, size) * price
Cost(pos) == pos.qty * pos.avg

=============================================================================
