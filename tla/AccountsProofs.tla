--------------------------- MODULE AccountsProofs ---------------------------
(***************************************************************************)
(* Theorems about the order gate, the position store and Accounts: for any *)
(* limits, books, sizes and positions, and any number of tokens and orders. *)
(***************************************************************************)
EXTENDS Accounts, TLAPS

-----------------------------------------------------------------------------
(* The operators *)

LEMMA RoundedIsNear ==
  ASSUME NEW a \in Int, NEW b \in Nat \ {0}
  PROVE  /\ Rounded(a, b) \in Int
         /\ -b <= 2 * (a - b * Rounded(a, b))
         /\ 2 * (a - b * Rounded(a, b)) <= b
         /\ a >= 0 => Rounded(a, b) \in Nat
<1> DEFINE r == Rounded(a, b)
<1>1. r \in Int /\ 2 * b * r <= 2 * a + b /\ 2 * a + b < 2 * b * r + 2 * b
  BY DEF Rounded
<1>2. 2 * b * r = 2 * (b * r)
  BY <1>1
<1>3. a >= 0 => r \in Nat
  BY DEF Rounded
<1> QED
  BY <1>1, <1>2, <1>3

(***************************************************************************)
(* risk_engine/index.js:165-190: what checkOrder leaves of an order is     *)
(* within every limit, and never more than was asked for.                  *)
(***************************************************************************)
THEOREM GateKeepsLimits ==
  ASSUME LimitsAssumption,
         NEW position \in Int, NEW side \in Sides,
         NEW size \in Nat \ {0}, NEW price \in Nat \ {0},
         NEW sent, sent = CheckedSize(position, side, size, price)
  PROVE  /\ sent \in 0..size
         /\ sent <= MaxOrderQty
         /\ sent * price <= MaxOrderNotional
         /\ sent # 0 => Abs(position + Signed(side, sent)) <= MaxPosition
<1> USE DEF LimitsAssumption
<1> DEFINE q == ByQty(size)
           n == ByNotional(q, price)
<1>1. q \in Nat /\ q <= size /\ q <= MaxOrderQty
  BY DEF ByQty, Least
<1>2. n \in Nat /\ n <= q /\ n * price <= MaxOrderNotional
  <2>1. CASE q * price <= MaxOrderNotional
    BY <1>1, <2>1 DEF ByNotional
  <2>2. CASE q * price > MaxOrderNotional
    <3> DEFINE m == MaxOrderNotional \div price
    <3>1. m \in Nat /\ m * price <= MaxOrderNotional
      OBVIOUS
    <3>2. m <= q
      <4>1. SUFFICES ASSUME m > q PROVE FALSE
        BY <1>1, <3>1
      <4>2. m * price >= q * price
        BY <1>1, <3>1, <4>1
      <4> QED
        BY <1>1, <2>2, <3>1, <4>2
    <3>3. n = m
      BY <1>1, <2>2 DEF ByNotional
    <3> QED
      BY <3>1, <3>2, <3>3
  <2> QED
    BY <1>1, <2>1, <2>2
<1>3. sent \in Nat /\ sent <= n
  BY <1>2 DEF CheckedSize, ByPosition, Room, Abs, Signed, Sides
<1>4. sent # 0 => Abs(position + Signed(side, sent)) <= MaxPosition
  BY <1>2 DEF CheckedSize, ByPosition, Room, Abs, Signed, Sides
<1>5. sent * price <= n * price
  BY <1>2, <1>3
<1>6. sent * price \in Int /\ n * price \in Int
  BY <1>2, <1>3
<1> QED
  BY <1>1, <1>2, <1>3, <1>4, <1>5, <1>6

(* A fill leaves a position that the store can hold. *)
LEMMA FilledIsPosition ==
  ASSUME NEW pos \in Positions, NEW side \in Sides,
         NEW size \in Nat \ {0}, NEW price \in Nat
  PROVE  Filled(pos, side, size, price) \in Positions
<1>1. pos.qty \in Int /\ pos.avg \in Nat /\ pos.realized \in Int
  BY DEF Positions
<1>2. Signed(side, size) \in Int /\ Abs(pos.qty) \in Nat
  BY <1>1 DEF Signed, Abs, Sides
<1>3. Increase(pos, side, size, price) \in Positions
  <2> DEFINE a == pos.avg * Abs(pos.qty) + price * size
             b == Abs(pos.qty) + size
  <2>0. pos.avg * Abs(pos.qty) \in Nat /\ price * size \in Nat
    BY <1>1, <1>2
  <2>1. a \in Int /\ a >= 0 /\ b \in Nat \ {0}
    BY <2>0, <1>2
  <2>3. Increase(pos, side, size, price)
          = [pos EXCEPT !.qty = pos.qty + Signed(side, size), !.avg = Rounded(a, b)]
    BY DEF Increase
  <2> HIDE DEF a, b
  <2>2. Rounded(a, b) \in Nat
    BY <2>1, RoundedIsNear
  <2>4. pos.qty + Signed(side, size) \in Int
    BY <1>1, <1>2
  <2> QED
    BY <2>2, <2>3, <2>4 DEF Positions
<1>4. Reduce(pos, side, size, price) \in Positions
  <2>1. AvgAfter(pos, size, price) \in {price, 0, pos.avg}
    <3>1. CASE size > Abs(pos.qty)
      BY <1>2, <3>1 DEF AvgAfter
    <3>2. CASE size = Abs(pos.qty)
      BY <1>2, <3>2 DEF AvgAfter
    <3>3. CASE ~(size > Abs(pos.qty)) /\ size # Abs(pos.qty)
      BY <3>3 DEF AvgAfter
    <3> QED
      BY <3>1, <3>2, <3>3
  <2>2. Profit(pos, size, price) \in Int
    <3>1. Least(size, Abs(pos.qty)) \in Int
      BY <1>2 DEF Least
    <3> DEFINE closed == Least(size, Abs(pos.qty))
    <3>2. closed * (price - pos.avg) \in Int /\ closed * (pos.avg - price) \in Int
      BY <1>1, <3>1
    <3> HIDE DEF closed
    <3>3. Profit(pos, size, price) = IF pos.qty > 0 THEN closed * (price - pos.avg)
                                                    ELSE closed * (pos.avg - price)
      BY DEF Profit, closed
    <3> QED
      BY <3>2, <3>3
  <2> QED
    BY <1>1, <1>2, <2>1, <2>2 DEF Reduce, Positions
<1> QED
  BY <1>3, <1>4 DEF Filled

(* The price of a fill through zero, of one to zero and of one short of it. *)
LEMMA AvgAfterIs ==
  ASSUME NEW pos \in Positions, NEW size \in Nat \ {0}, NEW price \in Nat
  PROVE  /\ size > Abs(pos.qty) => AvgAfter(pos, size, price) = price
         /\ size < Abs(pos.qty) => AvgAfter(pos, size, price) = pos.avg
<1>1. Abs(pos.qty) \in Nat
  BY DEF Positions, Abs
<1>2. ASSUME size > Abs(pos.qty) PROVE AvgAfter(pos, size, price) = price
  BY <1>1, <1>2 DEF AvgAfter
<1>3. ASSUME size < Abs(pos.qty) PROVE AvgAfter(pos, size, price) = pos.avg
  <2>1. ~(size > Abs(pos.qty)) /\ size # Abs(pos.qty)
    BY <1>1, <1>3
  <2> QED
    BY <2>1 DEF AvgAfter
<1> QED
  BY <1>2, <1>3

(* What the cases below come to. *)
LEMMA ValueIdentities ==
  ASSUME NEW q \in Int, NEW v \in Int, NEW w \in Int, NEW s \in Int, NEW p \in Int
  PROVE  /\ s * p - ((q + s) * w - q * v) = (v * q + p * s) - (q + s) * w
         /\ (-s) * p - ((q + (-s)) * w - q * v) = -((v * (-q) + p * s) - ((-q) + s) * w)
         /\ (-q) * (v - p) + s * p - ((q + s) * p - q * v) = 0
         /\ s * (v - p) + s * p - ((q + s) * v - q * v) = 0
         /\ q * (p - v) + (-s) * p - ((q + (-s)) * p - q * v) = 0
         /\ s * (p - v) + (-s) * p - ((q + (-s)) * v - q * v) = 0
  OBVIOUS

(***************************************************************************)
(* positionStore.js:77: applyFill keeps the value of every position under  *)
(* every fill, exactly when it reduces or reverses the position, and up to *)
(* half a unit per contract, the rounding of the average, when it adds.    *)
(***************************************************************************)
THEOREM EveryFillKeepsValue ==
  ASSUME NEW pos \in Positions, NEW side \in Sides,
         NEW size \in Nat \ {0}, NEW price \in Nat
  PROVE  KeepsValue(pos, Filled(pos, side, size, price), side, size, price)
<1> DEFINE q == pos.qty
           v == pos.avg
           g == pos.realized
           after == Filled(pos, side, size, price)
<1>1. q \in Int /\ v \in Nat /\ g \in Int
  BY DEF Positions
<1>2. CASE Adds(pos, side)
  <2> DEFINE a == v * Abs(q) + price * size
             b == Abs(q) + size
             w == Rounded(a, b)
  <2>1. Abs(q) \in Nat /\ v * Abs(q) \in Int /\ price * size \in Int
    BY <1>1 DEF Abs
  <2>2. a \in Int /\ b \in Nat \ {0}
    BY <2>1
  <2>3. w \in Int /\ 2 * (a - b * w) <= b /\ -b <= 2 * (a - b * w)
    <3> HIDE DEF a, b
    <3> QED
      BY <2>2, RoundedIsNear
  <2>4. after = [pos EXCEPT !.qty = q + Signed(side, size), !.avg = w]
    BY <1>2 DEF Filled, Increase
  <2> HIDE DEF w
  <2>5. after.qty = q + Signed(side, size) /\ after.avg = w /\ after.realized = g
    BY <2>4 DEF Positions
  <2>6. Abs(after.qty) = b
    BY <1>1, <1>2, <2>5 DEF Adds, Abs, Signed, Sides
  <2>7. \/ Paid(side, size, price) - (Cost(after) - Cost(pos)) = a - b * w
        \/ Paid(side, size, price) - (Cost(after) - Cost(pos)) = -(a - b * w)
    <3>1. CASE side = "BUY"
      <4>1. Abs(q) = q /\ Signed(side, size) = size
        BY <1>1, <1>2, <3>1 DEF Adds, Abs, Signed
      <4>2. size * price - ((q + size) * w - q * v) = (v * q + price * size) - (q + size) * w
        BY <1>1, <2>3, ValueIdentities
      <4> QED
        BY <2>5, <4>1, <4>2 DEF Paid, Cost
    <3>2. CASE side = "SELL"
      <4>1. Abs(q) = -q /\ Signed(side, size) = -size
        BY <1>1, <1>2, <3>2 DEF Adds, Abs, Signed
      <4>2. (-size) * price - ((q + (-size)) * w - q * v)
              = -((v * (-q) + price * size) - ((-q) + size) * w)
        <5>1. w \in Int
          BY <2>3
        <5> HIDE DEF q, v
        <5> QED
          BY <1>1, <5>1, ValueIdentities
      <4> QED
        BY <2>5, <4>1, <4>2 DEF Paid, Cost
    <3> QED
      BY <3>1, <3>2 DEF Sides
  <2>8. a - b * w \in Int
    BY <2>2, <2>3
  <2>9. Paid(side, size, price) \in Int /\ Cost(after) \in Int /\ Cost(pos) \in Int
    BY <1>1, <2>3, <2>5 DEF Paid, Cost, Signed
  <2>10. after.realized - pos.realized + Paid(side, size, price) - (Cost(after) - Cost(pos))
           = Paid(side, size, price) - (Cost(after) - Cost(pos))
    BY <1>1, <2>5, <2>9
  <2> DEFINE d == a - b * w
  <2>11. 2 * Abs(d) <= b /\ 2 * Abs(-d) <= b
    <3>1. d \in Int /\ 2 * d <= b /\ -b <= 2 * d /\ b \in Nat
      BY <2>2, <2>3, <2>8
    <3> HIDE DEF d, b
    <3> QED
      BY <3>1 DEF Abs
  <2> QED
    BY <1>2, <2>6, <2>7, <2>10, <2>11 DEF KeepsValue
<1>3. CASE ~Adds(pos, side)
  <2> DEFINE w == AvgAfter(pos, size, price)
             gain == Profit(pos, size, price)
  <2>1. after = Reduce(pos, side, size, price)
    BY <1>3 DEF Filled
  <2> HIDE DEF after
  <2>2. after.qty = q + Signed(side, size) /\ after.avg = w /\ after.realized = g + gain
    BY <2>1 DEF Reduce
  <2>3. gain \in Int /\ gain + Signed(side, size) * price
                          - ((q + Signed(side, size)) * w - q * v) = 0
    <3>1. CASE side = "BUY"
      <4>1. q < 0 /\ Abs(q) = -q /\ Signed(side, size) = size
        BY <1>1, <1>3, <3>1 DEF Adds, Abs, Signed
      <4>2. CASE size > -q
        <5>1. w = price /\ gain = (-q) * (v - price)
          BY <1>1, <4>1, <4>2, AvgAfterIs DEF Profit, Least
        <5> HIDE DEF q, v, w, gain
        <5> QED
          BY <1>1, <4>1, <5>1, ValueIdentities
      <4>3. CASE size = -q
        <5>0. Least(size, Abs(q)) = size
          BY <1>1, <4>1, <4>3 DEF Least
        <5>1. gain = size * (v - price)
          <6>1. ~(q > 0)
            BY <1>1, <4>1
          <6> QED
            BY <5>0, <6>1 DEF Profit
        <5>3. q + size = 0 /\ q = -size
          BY <1>1, <4>3
        <5>2. w \in Int
          BY <1>1, <4>1, <4>3 DEF AvgAfter
        <5> QED
          BY <1>1, <4>1, <5>1, <5>2, <5>3
      <4>4. CASE size < -q
        <5>1. w = v /\ gain = size * (v - price)
          BY <1>1, <4>1, <4>4, AvgAfterIs DEF Profit, Least
        <5> HIDE DEF q, v, w, gain
        <5> QED
          BY <1>1, <4>1, <5>1, ValueIdentities
      <4> QED
        BY <1>1, <4>2, <4>3, <4>4
    <3>2. CASE side = "SELL"
      <4>1. q > 0 /\ Abs(q) = q /\ Signed(side, size) = -size
        BY <1>1, <1>3, <3>2 DEF Adds, Abs, Signed
      <4>2. CASE size > q
        <5>1. w = price /\ gain = q * (price - v)
          BY <1>1, <4>1, <4>2, AvgAfterIs DEF Profit, Least
        <5> HIDE DEF q, v, w, gain
        <5> QED
          BY <1>1, <4>1, <5>1, ValueIdentities
      <4>3. CASE size = q
        <5>1. gain = size * (price - v) /\ q + (-size) = 0 /\ q = size
          BY <1>1, <4>1, <4>3 DEF Profit, Least
        <5>2. w \in Int
          BY <1>1, <4>1, <4>3 DEF AvgAfter
        <5> QED
          BY <1>1, <4>1, <5>1, <5>2
      <4>4. CASE size < q
        <5>1. w = v /\ gain = size * (price - v)
          BY <1>1, <4>1, <4>4, AvgAfterIs DEF Profit, Least
        <5> HIDE DEF q, v, w, gain
        <5> QED
          BY <1>1, <4>1, <5>1, ValueIdentities
      <4> QED
        BY <1>1, <4>2, <4>3, <4>4
    <3> QED
      BY <3>1, <3>2 DEF Sides
  <2>4. after.realized - pos.realized + Paid(side, size, price) - (Cost(after) - Cost(pos)) = 0
    <3> HIDE DEF gain, w
    <3>1. after.realized - pos.realized = gain
      BY <1>1, <2>2, <2>3
    <3> QED
      BY <2>2, <2>3, <3>1 DEF Paid, Cost
  <2> DEFINE d == after.realized - pos.realized + Paid(side, size, price) - (Cost(after) - Cost(pos))
  <2>5. 2 * Abs(d) <= 0
    <3>1. d = 0
      BY <2>4
    <3> HIDE DEF d
    <3> QED
      BY <3>1 DEF Abs
  <2> QED
    BY <1>3, <2>5 DEF KeepsValue, after
<1> QED
  BY <1>2, <1>3

-----------------------------------------------------------------------------
(* The invariant *)

(* A fill that waits to be reported belongs to an order that is not over. *)
PendingKnown == \A f \in pending : IsOrder(f.order)

(* Whoever has seen the limit has halted, and the halt is of today. *)
LossHalts ==
  /\ risk.pnl <= -MaxDailyLoss => risk.halted
  /\ lossSeen => ~newDay /\ risk.halted

AccountsInv == AccountsTypeOK /\ PendingKnown /\ LossHalts

LEMMA NoOrderIsNone == NoOrder \notin Orders
<1>1. "side" \notin DOMAIN NoOrder
  BY DEF NoOrder
<1>2. \A o \in Orders : "side" \in DOMAIN o
  BY DEF Orders
<1> QED
  BY <1>1, <1>2

(* Forgetting what is over keeps the rest, and every order of a waiting fill. *)
LEMMA SettledKeeps ==
  ASSUME NEW os \in [Ids -> Orders \cup {NoOrder}], NEW waiting \in SUBSET Fills,
         \A i \in Ids : os[i] # NoOrder => Sound(os[i]),
         \A f \in waiting : os[f.order] # NoOrder
  PROVE  /\ Settled(os, waiting) \in [Ids -> Orders \cup {NoOrder}]
         /\ \A i \in Ids : Settled(os, waiting)[i] # NoOrder => Sound(Settled(os, waiting)[i])
         /\ \A f \in waiting : Settled(os, waiting)[f.order] # NoOrder
<1> DEFINE new == Settled(os, waiting)
<1>1. new = [s \in Ids |-> IF os[s] # NoOrder /\ Over(os[s], s, waiting) THEN NoOrder ELSE os[s]]
  BY DEF Settled
<1> HIDE DEF new
<1>2. \A s \in Ids : new[s] = os[s] \/ new[s] = NoOrder
  BY <1>1
<1>3. new \in [Ids -> Orders \cup {NoOrder}]
  BY <1>1
<1>4. \A f \in waiting : new[f.order] # NoOrder
  <2> TAKE f \in waiting
  <2>1. f.order \in Ids
    BY DEF Fills
  <2>2. ~Over(os[f.order], f.order, waiting)
    BY DEF Over
  <2> QED
    BY <1>1, <2>1, <2>2
<1> QED
  BY <1>2, <1>3, <1>4 DEF new

(* So does replacing one order by a sound one. *)
LEMMA ReplacedKeeps ==
  ASSUME AccountsTypeOK, NEW i \in Ids, NEW o \in Orders, Sound(o),
         NEW waiting \in SUBSET Fills,
         \A f \in waiting : f.order = i \/ IsOrder(f.order),
         NEW os, os = [orders EXCEPT ![i] = o]
  PROVE  /\ Settled(os, waiting) \in [Ids -> Orders \cup {NoOrder}]
         /\ \A j \in Ids : Settled(os, waiting)[j] # NoOrder => Sound(Settled(os, waiting)[j])
         /\ \A f \in waiting : Settled(os, waiting)[f.order] # NoOrder
<1>1. orders \in [Ids -> Orders \cup {NoOrder}] /\ \A j \in Ids : orders[j] # NoOrder => Sound(orders[j])
  BY DEF AccountsTypeOK, IsOrder
<1>2. os \in [Ids -> Orders \cup {NoOrder}]
  BY <1>1
<1>3. \A j \in Ids : os[j] = IF j = i THEN o ELSE orders[j]
  BY <1>1
<1>4. \A j \in Ids : os[j] # NoOrder => Sound(os[j])
  BY <1>1, <1>3
<1>5. \A f \in waiting : os[f.order] # NoOrder
  <2> TAKE f \in waiting
  <2>1. f.order \in Ids
    BY DEF Fills
  <2> QED
    BY <1>3, <2>1, NoOrderIsNone DEF IsOrder
<1> QED
  BY <1>2, <1>4, <1>5, SettledKeeps

(* The kinds of step: what the orders are after one. *)
OrdersKept == orders' \in [Ids -> Orders \cup {NoOrder}]
              /\ (\A i \in Ids : orders'[i] # NoOrder => Sound(orders'[i]))
              /\ (\A f \in pending' : orders'[f.order] # NoOrder)

LEMMA InvFromParts ==
  ASSUME OrdersKept,
         DOMAIN positions' \subseteq Tokens,
         \A t \in DOMAIN positions' : positions'[t] \in Positions,
         account' \in [Tokens -> Positions],
         risk' \in [pnl : Int, halted : BOOLEAN], newDay' \in BOOLEAN, killed' \in BOOLEAN,
         listed' \subseteq Tokens,
         reading' = NoReading \/ reading' \in [token : Tokens, qty : Int],
         placed' \in 0..MaxOrders, pending' \subseteq Fills,
         lossSeen' \in BOOLEAN, blind' \in [Tokens -> Nat],
         LossHalts'
  PROVE  AccountsInv'
BY DEF OrdersKept, AccountsInv, AccountsTypeOK, PendingKnown, IsOrder

LEMMA GetIsPosition ==
  ASSUME AccountsTypeOK, NEW t
  PROVE  Get(t) \in Positions
<1>1. emptyPosition \in Positions
  BY DEF emptyPosition, Positions
<1> QED
  BY <1>1 DEF AccountsTypeOK, Get, GetFrom

LEMMA TodayIsFine ==
  ASSUME AccountsInv
  PROVE  /\ Today \in [pnl : Int, halted : BOOLEAN]
         /\ Today.pnl <= -MaxDailyLoss => Today.halted
         /\ lossSeen => Today.halted
BY AccountsAssumption DEF Today, AccountsInv, AccountsTypeOK, LossHalts

(* A call of the risk engine that changes nothing else leaves the halts right. *)
LEMMA RollsIsFine ==
  ASSUME AccountsInv, Rolls, lossSeen' = lossSeen
  PROVE  /\ risk' \in [pnl : Int, halted : BOOLEAN] /\ newDay' \in BOOLEAN
         /\ LossHalts'
BY TodayIsFine DEF Rolls, LossHalts

LEMMA EvaluateKeeps ==
  ASSUME AccountsInv, Evaluate
  PROVE  AccountsInv'
<1>1. lossSeen' = lossSeen /\ Rolls /\ killed' \in BOOLEAN
  BY DEF Evaluate, LossReached
<1>2. OrdersKept
  BY DEF Evaluate, OrdersKept, AccountsInv, AccountsTypeOK, PendingKnown, IsOrder
<1>3. UNCHANGED <<positions, listed, reading, placed, account, pending, lossSeen, blind>>
  BY DEF Evaluate
<1> QED
  BY <1>1, <1>2, <1>3, RollsIsFine, InvFromParts DEF AccountsInv, AccountsTypeOK

(* SentSize: none, or a size the gate lets through. *)
LEMMA SentIsSize ==
  ASSUME NEW book \in Books, NEW position \in Int, NEW side \in Sides, NEW size \in Sizes
  PROVE  SentSize(book, position, side, size) \in Nat
<1>1. Touch(book, side) \in Nat \ {0} /\ size \in Nat \ {0}
  BY AccountsAssumption
<1>2. CheckedSize(position, side, size, Touch(book, side)) \in Nat
  BY <1>1, LimitsAssumption, GateKeepsLimits
<1> QED
  BY <1>2 DEF SentSize

LEMMA PlaceOrderKeeps ==
  ASSUME AccountsInv, NEW t \in Tokens, NEW side \in Sides, NEW size \in Sizes,
         NEW book \in Books, PlaceOrder(t, side, size, book)
  PROVE  AccountsInv' /\ ~lossSeen
<1> DEFINE sent == SentSize(book, Get(t).qty, side, size)
           new  == [token |-> t, side |-> side, size |-> sent, price |-> Touch(book, side),
                    filled |-> 0, open |-> TRUE, matched |-> 0, live |-> TRUE]
<1>1. Get(t).qty \in Int
  BY GetIsPosition DEF AccountsInv, Positions
<1>2. sent \in Nat /\ sent > 0
  BY <1>1, SentIsSize DEF PlaceOrder
<1>3. placed \in 0..MaxOrders /\ placed < MaxOrders /\ placed' = placed + 1
  BY DEF PlaceOrder, AccountsInv, AccountsTypeOK
<1>4. placed + 1 \in Ids /\ placed' \in 0..MaxOrders
  BY <1>3, AccountsAssumption DEF Ids
<1>5. orders' = [orders EXCEPT ![placed + 1] = new]
  BY DEF PlaceOrder
<1>6. UNCHANGED <<positions, killed, listed, reading, account, pending, lossSeen>> /\ Rolls
  BY DEF PlaceOrder
<1>7. OrdersKept
  <2>1. new \in Orders /\ Sound(new)
    <3>1. Touch(book, side) \in Nat
      BY AccountsAssumption
    <3> HIDE DEF sent
    <3> QED
      BY <1>2, <3>1 DEF Orders, Sound
  <2> HIDE DEF new
  <2>2. orders \in [Ids -> Orders \cup {NoOrder}] /\ \A j \in Ids : orders[j] # NoOrder => Sound(orders[j])
    BY DEF AccountsInv, AccountsTypeOK, IsOrder
  <2>3. \A j \in Ids : orders'[j] = IF j = placed + 1 THEN new ELSE orders[j]
    BY <1>5, <2>2
  <2>4. \A f \in pending' : f.order \in Ids /\ orders[f.order] # NoOrder
    BY <1>6 DEF AccountsInv, AccountsTypeOK, PendingKnown, IsOrder, Fills
  <2>5. orders' \in [Ids -> Orders \cup {NoOrder}]
    BY <1>4, <1>5, <2>1, <2>2
  <2>6. \A f \in pending' : orders'[f.order] # NoOrder
    BY <2>1, <2>3, <2>4, NoOrderIsNone
  <2> QED
    BY <2>1, <2>2, <2>3, <2>5, <2>6 DEF OrdersKept
<1>8. blind' \in [Tokens -> Nat]
  <2>1. blind' = [blind EXCEPT ![t] = IF Blind(t) THEN @ + sent ELSE @]
    BY DEF PlaceOrder
  <2> HIDE DEF sent
  <2> QED
    BY <1>2, <2>1 DEF AccountsInv, AccountsTypeOK
<1>9. ~lossSeen
  BY TodayIsFine DEF PlaceOrder, Blocked
<1> QED
  BY <1>4, <1>6, <1>7, <1>8, <1>9, RollsIsFine, InvFromParts DEF AccountsInv, AccountsTypeOK

LEMMA OrderReportedKeeps ==
  ASSUME AccountsInv, NEW i \in Ids, IsOrder(i), OrderReported(i)
  PROVE  AccountsInv'
<1> DEFINE new == [orders[i] EXCEPT !.open = FALSE]
<1>1. orders[i] \in Orders /\ Sound(orders[i])
  BY DEF AccountsInv, AccountsTypeOK, IsOrder
<1>2. new \in Orders /\ Sound(new)
  BY <1>1 DEF Orders, Sound
<1>3. orders' = Settled([orders EXCEPT ![i] = new], pending)
  BY DEF OrderReported
<1>4. UNCHANGED <<botVars, placed, account, pending, newDay, lossSeen, blind>>
  BY DEF OrderReported
<1>5. OrdersKept
  <2>1. AccountsTypeOK /\ pending \in SUBSET Fills /\ \A f \in pending : IsOrder(f.order)
    BY DEF AccountsInv, AccountsTypeOK, PendingKnown
  <2> HIDE DEF new
  <2>2. PICK os : os = [orders EXCEPT ![i] = new]
    OBVIOUS
  <2>3. /\ Settled(os, pending) \in [Ids -> Orders \cup {NoOrder}]
        /\ \A j \in Ids : Settled(os, pending)[j] # NoOrder => Sound(Settled(os, pending)[j])
        /\ \A f \in pending : Settled(os, pending)[f.order] # NoOrder
    BY <1>2, <2>1, <2>2, ReplacedKeeps
  <2>4. orders' = Settled(os, pending) /\ pending' = pending
    BY <1>3, <1>4, <2>2
  <2> QED
    BY <2>3, <2>4 DEF OrdersKept
<1> QED
  BY <1>4, <1>5, InvFromParts DEF AccountsInv, AccountsTypeOK, botVars, LossHalts

LEMMA ExchangeClosesKeeps ==
  ASSUME AccountsInv, NEW i \in Ids, IsOrder(i), ExchangeCloses(i)
  PROVE  AccountsInv'
<1> DEFINE new == [orders[i] EXCEPT !.live = FALSE]
<1>1. orders[i] \in Orders /\ Sound(orders[i])
  BY DEF AccountsInv, AccountsTypeOK, IsOrder
<1>2. new \in Orders /\ Sound(new)
  BY <1>1 DEF Orders, Sound
<1>3. orders' = Settled([orders EXCEPT ![i] = new], pending)
  BY DEF ExchangeCloses
<1>4. UNCHANGED <<botVars, placed, account, pending, newDay, lossSeen, blind>>
  BY DEF ExchangeCloses
<1>5. OrdersKept
  <2>1. AccountsTypeOK /\ pending \in SUBSET Fills /\ \A f \in pending : IsOrder(f.order)
    BY DEF AccountsInv, AccountsTypeOK, PendingKnown
  <2> HIDE DEF new
  <2>2. PICK os : os = [orders EXCEPT ![i] = new]
    OBVIOUS
  <2>3. /\ Settled(os, pending) \in [Ids -> Orders \cup {NoOrder}]
        /\ \A j \in Ids : Settled(os, pending)[j] # NoOrder => Sound(Settled(os, pending)[j])
        /\ \A f \in pending : Settled(os, pending)[f.order] # NoOrder
    BY <1>2, <2>1, <2>2, ReplacedKeeps
  <2>4. orders' = Settled(os, pending) /\ pending' = pending
    BY <1>3, <1>4, <2>2
  <2> QED
    BY <2>3, <2>4 DEF OrdersKept
<1> QED
  BY <1>4, <1>5, InvFromParts DEF AccountsInv, AccountsTypeOK, botVars, LossHalts

(* A sound order stays sound when the exchange fills more of it, or a report *)
(* counts more of it as filled, and it ends when that is all.                *)
LEMMA MatchedIsSound ==
  ASSUME NEW order \in Orders, Sound(order),
         NEW m \in 0..order.size, NEW more \in BOOLEAN, m = order.size => ~more
  PROVE  /\ [order EXCEPT !.matched = m, !.live = more] \in Orders
         /\ Sound([order EXCEPT !.matched = m, !.live = more])
<1>1. order.size \in Nat /\ m \in Nat
  BY DEF Orders
<1> QED
  BY <1>1 DEF Orders, Sound

LEMMA FilledIsSound ==
  ASSUME NEW order \in Orders, Sound(order),
         NEW m \in 0..order.size, NEW more \in BOOLEAN, m = order.size => ~more
  PROVE  /\ [order EXCEPT !.filled = m, !.open = more] \in Orders
         /\ Sound([order EXCEPT !.filled = m, !.open = more])
<1>1. order.size \in Nat /\ m \in Nat
  BY DEF Orders
<1> QED
  BY <1>1 DEF Orders, Sound

LEMMA ExchangeFillsKeeps ==
  ASSUME AccountsInv, NEW i \in Ids, IsOrder(i), NEW n \in 1..MaxOrderQty, ExchangeFills(i, n)
  PROVE  AccountsInv'
<1> DEFINE order == orders[i]
           new   == [order EXCEPT !.matched = order.matched + n,
                                  !.live    = order.matched + n < order.size]
           fill  == [order |-> i, from |-> order.matched, size |-> n]
<1>0. n \in Nat \ {0}
  BY LimitsAssumption DEF LimitsAssumption
<1>1. order \in Orders /\ Sound(order) /\ n <= order.size - order.matched
  BY DEF AccountsInv, AccountsTypeOK, IsOrder, ExchangeFills
<1>2. new \in Orders /\ Sound(new)
  <2> DEFINE m    == order.matched + n
             more == m < order.size
  <2> HIDE DEF order
  <2>1. m \in 0..order.size
    BY <1>0, <1>1 DEF Orders, Sound
  <2>2. more \in BOOLEAN
    OBVIOUS
  <2>3. m = order.size => ~more
    BY <1>1, <2>1 DEF Orders
  <2> HIDE DEF m, more
  <2>4. /\ [order EXCEPT !.matched = m, !.live = more] \in Orders
        /\ Sound([order EXCEPT !.matched = m, !.live = more])
    BY <1>1, <2>1, <2>2, <2>3, MatchedIsSound
  <2> QED
    BY <2>4 DEF m, more
<1>3. /\ orders' = Settled([orders EXCEPT ![i] = new], pending')
      /\ pending' = pending \/ pending' = pending \cup {fill}
      /\ account' = [account EXCEPT ![order.token] = Filled(@, order.side, n, order.price)]
      /\ UNCHANGED <<botVars, placed, newDay, lossSeen, blind>>
  BY DEF ExchangeFills
<1>4. account' \in [Tokens -> Positions]
  <2>1. order.token \in Tokens /\ order.side \in Sides /\ order.price \in Nat
    BY <1>1 DEF Orders
  <2>2. account \in [Tokens -> Positions]
    BY DEF AccountsInv, AccountsTypeOK
  <2>3. Filled(account[order.token], order.side, n, order.price) \in Positions
    BY <1>0, <2>1, <2>2, FilledIsPosition
  <2> QED
    BY <1>3, <2>2, <2>3
<1>5. pending' \subseteq Fills /\ \A f \in pending' : f.order = i \/ IsOrder(f.order)
  <2>1. fill \in Fills
    BY <1>0, <1>1 DEF Fills, Sound, Orders
  <2> QED
    BY <1>3, <2>1 DEF AccountsInv, AccountsTypeOK, PendingKnown
<1>6. OrdersKept
  <2> HIDE DEF new
  <2>1. AccountsTypeOK
    BY DEF AccountsInv
  <2>2. PICK os : os = [orders EXCEPT ![i] = new]
    OBVIOUS
  <2>p. PICK waiting : waiting = pending'
    OBVIOUS
  <2>3. /\ Settled(os, waiting) \in [Ids -> Orders \cup {NoOrder}]
        /\ \A j \in Ids : Settled(os, waiting)[j] # NoOrder => Sound(Settled(os, waiting)[j])
        /\ \A f \in waiting : Settled(os, waiting)[f.order] # NoOrder
    <3>1. waiting \in SUBSET Fills /\ \A f \in waiting : f.order = i \/ IsOrder(f.order)
      BY <1>5, <2>p
    <3> QED
      BY <1>2, <2>1, <2>2, <3>1, ReplacedKeeps
  <2>4. orders' = Settled(os, waiting)
    BY <1>3, <2>2, <2>p
  <2> QED
    BY <2>p, <2>3, <2>4 DEF OrdersKept
<1> QED
  BY <1>3, <1>4, <1>5, <1>6, InvFromParts DEF AccountsInv, AccountsTypeOK, botVars, LossHalts

(* The profit of a fill counts for the day: the limit reached is a halt. *)
LEMMA RecordKeepsHalts ==
  ASSUME AccountsInv, NEW delta \in Int, RecordRealizedPnl(delta),
         lossSeen' = (lossSeen \/ Today.pnl + delta <= -MaxDailyLoss)
  PROVE  /\ risk' \in [pnl : Int, halted : BOOLEAN] /\ newDay' \in BOOLEAN
         /\ lossSeen' \in BOOLEAN
         /\ LossHalts'
<1>1. risk \in [pnl : Int, halted : BOOLEAN] /\ newDay \in BOOLEAN /\ lossSeen \in BOOLEAN
      /\ MaxDailyLoss \in Nat \ {0}
  BY AccountsAssumption DEF AccountsInv, AccountsTypeOK
<1>2. CASE delta = 0
  <2>1. UNCHANGED <<risk, newDay>>
    BY <1>2 DEF RecordRealizedPnl
  <2>2. lossSeen' => ~newDay /\ risk.halted
    <3>1. CASE newDay
      BY <1>1, <1>2, <3>1 DEF Today, AccountsInv, LossHalts
    <3>2. CASE ~newDay
      BY <1>1, <1>2, <3>2 DEF Today, AccountsInv, LossHalts
    <3> QED
      BY <3>1, <3>2
  <2> QED
    BY <1>1, <2>1, <2>2 DEF AccountsInv, LossHalts
<1>3. CASE delta # 0
  <2>1. risk' = [pnl |-> Today.pnl + delta,
                 halted |-> Today.halted \/ LossReached(Today.pnl + delta)]
        /\ newDay' = FALSE
    BY <1>3 DEF RecordRealizedPnl
  <2> DEFINE sum     == Today.pnl + delta
             reached == sum <= -MaxDailyLoss
  <2>2. sum \in Int /\ reached \in BOOLEAN /\ Today.halted \in BOOLEAN
    BY TodayIsFine
  <2>3. risk' = [pnl |-> sum, halted |-> Today.halted \/ reached]
    BY <2>1 DEF LossReached
  <2>4. lossSeen' = (lossSeen \/ reached)
    OBVIOUS
  <2>5. lossSeen => Today.halted
    BY TodayIsFine
  <2> HIDE DEF sum
  <2>6. risk'.pnl = sum /\ risk'.halted = (Today.halted \/ reached)
    BY <2>3
  <2> HIDE DEF reached
  <2>7. risk' \in [pnl : Int, halted : BOOLEAN]
    BY <2>2, <2>3
  <2>8. lossSeen' => ~newDay' /\ risk'.halted
    BY <2>1, <2>4, <2>5, <2>6
  <2>9. risk'.pnl <= -MaxDailyLoss => risk'.halted
    BY <2>6 DEF reached
  <2>10. newDay' \in BOOLEAN /\ lossSeen' \in BOOLEAN
    BY <1>1, <2>1, <2>2, <2>4
  <2> QED
    BY <2>7, <2>8, <2>9, <2>10 DEF LossHalts
<1> QED
  BY <1>2, <1>3

LEMMA ApplyFillKeeps ==
  ASSUME AccountsInv, NEW f \in pending, ApplyFill(f)
  PROVE  /\ AccountsInv'
         /\ orders[f.order].open =>
              KeepsValue(Get(orders[f.order].token),
                         GetFrom(positions', orders[f.order].token),
                         orders[f.order].side, f.size, orders[f.order].price)
<1> DEFINE i     == f.order
           order == orders[i]
           t     == order.token
<1>1. f \in Fills /\ i \in Ids /\ f.size \in Nat \ {0}
  BY DEF AccountsInv, AccountsTypeOK, Fills
<1>2. order \in Orders /\ Sound(order)
  BY <1>1 DEF AccountsInv, AccountsTypeOK, PendingKnown, IsOrder
<1>3. UNCHANGED <<killed, listed, reading, placed, account, blind>> /\ pending' = pending \ {f}
  BY DEF ApplyFill
<1>4. pending' \in SUBSET Fills /\ \A g \in pending' : IsOrder(g.order)
  BY <1>3 DEF AccountsInv, AccountsTypeOK, PendingKnown
<1>5. CASE ~order.open
  <2>1. UNCHANGED <<positions, risk, newDay, lossSeen>> /\ orders' = Settled(orders, pending')
    BY <1>3, <1>5 DEF ApplyFill, Dropped
  <2>2. OrdersKept
    <3>1. orders \in [Ids -> Orders \cup {NoOrder}] /\ \A j \in Ids : orders[j] # NoOrder => Sound(orders[j])
      BY DEF AccountsInv, AccountsTypeOK, IsOrder
    <3>2. PICK os, waiting : os = orders /\ waiting = pending'
      OBVIOUS
    <3>3. /\ Settled(os, waiting) \in [Ids -> Orders \cup {NoOrder}]
          /\ \A j \in Ids : Settled(os, waiting)[j] # NoOrder => Sound(Settled(os, waiting)[j])
          /\ \A g \in waiting : Settled(os, waiting)[g.order] # NoOrder
      BY <1>4, <3>1, <3>2, SettledKeeps DEF IsOrder
    <3> QED
      BY <2>1, <3>2, <3>3 DEF OrdersKept
  <2> QED
    BY <1>3, <1>4, <1>5, <2>1, <2>2, InvFromParts DEF AccountsInv, AccountsTypeOK, LossHalts
<1>6. CASE order.open
  <2> DEFINE filled == Filled(Get(t), order.side, f.size, order.price)
             pnl    == filled.realized - Get(t).realized
             new    == [order EXCEPT !.filled = FilledSize(order, f.size),
                                     !.open   = StillOpen(order, f.size)]
  <2>1. /\ positions' = Put(t, filled)
        /\ RecordRealizedPnl(pnl)
        /\ lossSeen' = (lossSeen \/ Today.pnl + pnl <= -MaxDailyLoss)
        /\ orders' = Settled([orders EXCEPT ![i] = new], pending')
    BY <1>3, <1>6 DEF ApplyFill, Account, Fill
  <2>2. t \in Tokens /\ order.side \in Sides /\ order.price \in Nat /\ Get(t) \in Positions
    BY <1>2, GetIsPosition DEF Orders, AccountsInv
  <2>3. filled \in Positions
    BY <1>1, <2>2, FilledIsPosition
  <2>4. pnl \in Int
    <3> HIDE DEF filled
    <3> QED
      BY <2>2, <2>3 DEF Positions
  <2>5. /\ risk' \in [pnl : Int, halted : BOOLEAN] /\ newDay' \in BOOLEAN
        /\ lossSeen' \in BOOLEAN /\ LossHalts'
    <3> HIDE DEF pnl
    <3> QED
      BY <2>1, <2>4, RecordKeepsHalts
  <2>6. DOMAIN positions' \subseteq Tokens /\ \A u \in DOMAIN positions' : positions'[u] \in Positions
    <3> HIDE DEF filled
    <3> QED
      BY <2>1, <2>2, <2>3 DEF Put, AccountsInv, AccountsTypeOK
  <2>7. new \in Orders /\ Sound(new)
    <3> DEFINE m    == FilledSize(order, f.size)
               more == StillOpen(order, f.size)
    <3> HIDE DEF order
    <3>1. m \in 0..order.size
      BY <1>1, <1>2 DEF Orders, Sound, FilledSize, Least
    <3>2. more \in BOOLEAN
      BY DEF StillOpen
    <3>3. m = order.size => ~more
      BY <1>2, <3>1 DEF StillOpen, Orders
    <3> HIDE DEF m, more
    <3>4. /\ [order EXCEPT !.filled = m, !.open = more] \in Orders
          /\ Sound([order EXCEPT !.filled = m, !.open = more])
      BY <1>2, <3>1, <3>2, <3>3, FilledIsSound
    <3> QED
      BY <3>4 DEF m, more
  <2>8. OrdersKept
    <3> HIDE DEF new
    <3>1. AccountsTypeOK
      BY DEF AccountsInv
    <3>2. PICK os, waiting : os = [orders EXCEPT ![i] = new] /\ waiting = pending'
      OBVIOUS
    <3>3. /\ Settled(os, waiting) \in [Ids -> Orders \cup {NoOrder}]
          /\ \A j \in Ids : Settled(os, waiting)[j] # NoOrder => Sound(Settled(os, waiting)[j])
          /\ \A g \in waiting : Settled(os, waiting)[g.order] # NoOrder
      <4>1. waiting \in SUBSET Fills /\ \A g \in waiting : g.order = i \/ IsOrder(g.order)
        BY <1>4, <3>2
      <4>2. i \in Ids /\ os = [orders EXCEPT ![i] = new]
        BY <1>1, <3>2
      <4> HIDE DEF i
      <4> QED
        BY <2>7, <3>1, <4>1, <4>2, ReplacedKeeps
    <3> QED
      BY <2>1, <3>2, <3>3 DEF OrdersKept
  <2>9. GetFrom(positions', t) = filled
    <3> HIDE DEF filled
    <3> QED
      BY <2>1 DEF GetFrom, Put
  <2>10. KeepsValue(Get(t), GetFrom(positions', t), order.side, f.size, order.price)
    BY <1>1, <2>2, <2>9, EveryFillKeepsValue
  <2>11. AccountsInv'
    <3> HIDE DEF filled, new, pnl
    <3> QED
      BY <1>3, <1>4, <2>5, <2>6, <2>8, InvFromParts DEF AccountsInv, AccountsTypeOK
  <2> QED
    BY <2>10, <2>11
<1> QED
  BY <1>2, <1>5, <1>6 DEF Orders

LEMMA BalanceKeeps ==
  ASSUME AccountsInv, NEW t \in Tokens, BalanceAsked(t) \/ BalanceReturns(t)
  PROVE  AccountsInv'
<1>1. OrdersKept
  BY DEF BalanceAsked, BalanceReturns, OrdersKept, AccountsInv, AccountsTypeOK, PendingKnown, IsOrder
<1>2. account \in [Tokens -> Positions] /\ account[t].qty \in Int
  BY DEF AccountsInv, AccountsTypeOK, Positions
<1>3. reading' = NoReading \/ reading' \in [token : Tokens, qty : Int]
  BY <1>2 DEF BalanceAsked, BalanceReturns
<1>4. DOMAIN positions' \subseteq Tokens /\ \A u \in DOMAIN positions' : positions'[u] \in Positions
  <2>1. CASE BalanceReturns(t)
    <3>1. reading.qty \in Int
      BY DEF AccountsInv, AccountsTypeOK, NoReading
    <3>2. Get(t) \in Positions
      BY GetIsPosition DEF AccountsInv
    <3>3. Overwritten(Get(t), reading.qty) \in Positions
      <4> HIDE DEF Get
      <4> QED
        BY <3>1, <3>2 DEF Overwritten, Positions
    <3>4. \/ positions' = positions
          \/ positions' = Put(t, Overwritten(Get(t), reading.qty))
      BY <2>1 DEF BalanceReturns
    <3> QED
      BY <3>3, <3>4 DEF Put, AccountsInv, AccountsTypeOK
  <2>2. CASE BalanceAsked(t)
    BY <2>2 DEF BalanceAsked, AccountsInv, AccountsTypeOK
  <2> QED
    BY <2>1, <2>2
<1>5. UNCHANGED <<risk, killed, listed, placed, account, pending, newDay, lossSeen, blind>>
  BY DEF BalanceAsked, BalanceReturns
<1> QED
  BY <1>1, <1>3, <1>4, <1>5, InvFromParts DEF AccountsInv, AccountsTypeOK, LossHalts

LEMMA WorldKeeps ==
  ASSUME AccountsInv,
         BalanceFails \/ (\E tokens \in SUBSET Tokens : Refresh(tokens)) \/ DayPasses
           \/ UNCHANGED vars
  PROVE  AccountsInv'
<1>1. OrdersKept
  BY DEF BalanceFails, Refresh, DayPasses, vars, botVars, OrdersKept, AccountsInv,
         AccountsTypeOK, PendingKnown, IsOrder
<1>2. CASE BalanceFails
  BY <1>1, <1>2, InvFromParts DEF BalanceFails, AccountsInv, AccountsTypeOK, LossHalts
<1>3. CASE \E tokens \in SUBSET Tokens : Refresh(tokens)
  BY <1>1, <1>3, InvFromParts DEF Refresh, AccountsInv, AccountsTypeOK, LossHalts
<1>4. CASE DayPasses
  BY <1>1, <1>4, InvFromParts DEF DayPasses, botVars, AccountsInv, AccountsTypeOK, LossHalts
<1>5. CASE UNCHANGED vars
  BY <1>1, <1>5, InvFromParts DEF vars, botVars, AccountsInv, AccountsTypeOK, LossHalts
<1> QED
  BY <1>2, <1>3, <1>4, <1>5

-----------------------------------------------------------------------------
(* Theorems *)

LEMMA AccountsInitially == Init => AccountsInv
<1> SUFFICES ASSUME Init PROVE AccountsInv
  OBVIOUS
<1>1. account \in [Tokens -> Positions]
  BY AccountsAssumption DEF Init
<1>2. DOMAIN positions \subseteq Tokens /\ \A t \in DOMAIN positions : positions[t] \in Positions
  BY <1>1 DEF Init
<1>3. orders \in [Ids -> Orders \cup {NoOrder}] /\ \A i \in Ids : ~IsOrder(i)
  BY DEF Init, IsOrder
<1>4. risk.pnl = 0 /\ ~(risk.pnl <= -MaxDailyLoss)
  BY AccountsAssumption DEF Init
<1>5. LossHalts
  BY <1>4 DEF Init, LossHalts
<1>6. PendingKnown
  BY DEF Init, PendingKnown
<1>7. placed \in 0..MaxOrders /\ pending \subseteq Fills /\ blind \in [Tokens -> Nat]
  BY AccountsAssumption DEF Init
<1>8. listed \subseteq Tokens /\ reading = NoReading
  BY DEF Init
<1>9. risk \in [pnl : Int, halted : BOOLEAN]
  BY DEF Init
<1>10. newDay \in BOOLEAN /\ killed \in BOOLEAN /\ lossSeen \in BOOLEAN
  BY Zenon DEF Init
<1> QED
  BY <1>1, <1>2, <1>3, <1>5, <1>6, <1>7, <1>8, <1>9, <1>10 DEF AccountsInv, AccountsTypeOK

LEMMA AccountsStep == AccountsInv /\ [Next]_vars => AccountsInv'
<1> SUFFICES ASSUME AccountsInv, [Next]_vars PROVE AccountsInv'
  OBVIOUS
<1>1. CASE Evaluate
  BY <1>1, EvaluateKeeps
<1>2. ASSUME NEW t \in Tokens,
             \/ \E side \in Sides, size \in Sizes, book \in Books : PlaceOrder(t, side, size, book)
             \/ BalanceAsked(t) \/ BalanceReturns(t)
      PROVE  AccountsInv'
  BY <1>2, PlaceOrderKeeps, BalanceKeeps
<1>3. ASSUME NEW f \in pending, ApplyFill(f) PROVE AccountsInv'
  BY <1>3, ApplyFillKeeps
<1>4. ASSUME NEW i \in Ids, OrderStep(i) PROVE AccountsInv'
  BY <1>4, OrderReportedKeeps, ExchangeClosesKeeps, ExchangeFillsKeeps DEF OrderStep
<1>5. CASE \/ BalanceFails \/ DayPasses \/ UNCHANGED vars
           \/ \E tokens \in SUBSET Tokens : Refresh(tokens)
  BY <1>5, WorldKeeps
<1> QED
  BY <1>1, <1>2, <1>3, <1>4, <1>5 DEF Next

THEOREM AccountsInvariant == Spec => []AccountsInv
<1> QED
  BY AccountsInitially, AccountsStep, PTL DEF Spec

(* The types of Accounts: also that a record never counts more as filled   *)
(* than it has, and closes when it is complete.                            *)
THEOREM AccountsTypeCorrect == Spec => []AccountsTypeOK
<1>1. AccountsInv => AccountsTypeOK
  BY DEF AccountsInv
<1> QED
  BY <1>1, AccountsInvariant, PTL

(***************************************************************************)
(* No fill loses value in the store, whatever the reconciliation has done  *)
(* to the position before it.                                              *)
(***************************************************************************)
THEOREM StoreKeepsValue == Spec => FillsKeepValue
<1> DEFINE Kept == \A f \in pending \ pending' :
              orders[f.order].open =>
                 KeepsValue(Get(orders[f.order].token),
                            GetFrom(positions', orders[f.order].token),
                            orders[f.order].side, f.size, orders[f.order].price)
<1>1. AccountsInv /\ [Next]_vars => [Kept]_vars
  <2> SUFFICES ASSUME AccountsInv, Next, NEW f \in pending \ pending',
                      orders[f.order].open
               PROVE  KeepsValue(Get(orders[f.order].token),
                                 GetFrom(positions', orders[f.order].token),
                                 orders[f.order].side, f.size, orders[f.order].price)
    OBVIOUS
  <2>1. PICK g \in pending : ApplyFill(g)
    BY DEF Next, OrderStep, Evaluate, PlaceOrder, BalanceAsked, BalanceReturns, BalanceFails,
           OrderReported, ExchangeCloses, ExchangeFills, Refresh, DayPasses
  <2>2. f = g
    BY <2>1 DEF ApplyFill
  <2> QED
    BY <2>1, <2>2, ApplyFillKeeps
<1>2. [][Kept]_vars => FillsKeepValue
  BY DEF FillsKeepValue
<1> QED
  BY <1>1, <1>2, AccountsInvariant, PTL DEF Spec

(* No order is placed on a day after its loss has been at the limit. *)
THEOREM LossEndsTheDay == Spec => NoOrderPastLoss
<1>1. AccountsInv /\ [Next]_vars => [placed' # placed => ~lossSeen]_vars
  <2> SUFFICES ASSUME AccountsInv, Next, placed' # placed PROVE ~lossSeen
    OBVIOUS
  <2>1. PICK t \in Tokens, side \in Sides, size \in Sizes, book \in Books :
           PlaceOrder(t, side, size, book)
    BY DEF Next, OrderStep, Evaluate, BalanceAsked, BalanceReturns, BalanceFails, ApplyFill,
           OrderReported, ExchangeCloses, ExchangeFills, Refresh, DayPasses
  <2> QED
    BY <2>1, PlaceOrderKeeps
<1> QED
  BY <1>1, AccountsInvariant, PTL DEF Spec, NoOrderPastLoss

-----------------------------------------------------------------------------
(* The position cap *)

(***************************************************************************)
(* What may still be filled of the orders that rest, order by order; and   *)
(* that it comes to at most bound: s holds the sums of its beginnings.     *)
(***************************************************************************)
LeftOf(order, t, side) ==
  IF order # NoOrder /\ order.token = t /\ order.side = side /\ order.live
    THEN order.size - order.matched ELSE 0
ToCome(os, t, side) == [i \in Ids |-> LeftOf(os[i], t, side)]

FitsIn(r, bound) ==
  \E s \in [0..MaxOrders -> Nat] :
    /\ s[0] = 0
    /\ \A i \in Ids : s[i] = s[i - 1] + r[i]
    /\ \A i, j \in 0..MaxOrders : i <= j => s[i] <= s[j]
    /\ s[MaxOrders] <= bound

(* The position stays within the cap and what was placed blindly, even if *)
(* all that rests on one side is filled.                                  *)
CapRoom(t, side) == MaxPosition + blind[t] - Signed(side, account[t].qty)
CapKnown == \A t \in Tokens, side \in Sides : FitsIn(ToCome(orders, t, side), CapRoom(t, side))

LEMMA FitsNothing ==
  ASSUME NEW r, \A i \in Ids : r[i] = 0, NEW bound \in Int, bound >= 0
  PROVE  FitsIn(r, bound)
<1>1. PICK s : s = [i \in 0..MaxOrders |-> 0]
  OBVIOUS
<1>2. MaxOrders \in Nat
  BY AccountsAssumption
<1>3. \A i \in Ids : i \in 0..MaxOrders /\ i - 1 \in 0..MaxOrders
  BY <1>2 DEF Ids
<1>4. \A i \in 0..MaxOrders : s[i] = 0
  BY <1>1
<1>5. 0 \in 0..MaxOrders /\ MaxOrders \in 0..MaxOrders /\ s \in [0..MaxOrders -> Nat]
  BY <1>1, <1>2
<1> QED
  BY <1>3, <1>4, <1>5 DEF FitsIn

LEMMA FitsChanged ==
  ASSUME NEW r \in [Ids -> Nat], NEW k \in Ids, NEW v \in Nat, NEW a \in Int, NEW b \in Int,
         FitsIn(r, a), b >= a + v - r[k]
  PROVE  FitsIn([r EXCEPT ![k] = v], b)
<1>1. PICK s \in [0..MaxOrders -> Nat] :
        /\ s[0] = 0
        /\ \A i \in Ids : s[i] = s[i - 1] + r[i]
        /\ \A i, j \in 0..MaxOrders : i <= j => s[i] <= s[j]
        /\ s[MaxOrders] <= a
  BY DEF FitsIn
<1>2. PICK n : n = [i \in 0..MaxOrders |-> IF i < k THEN s[i] ELSE s[i] + v - r[k]]
  OBVIOUS
<1>3. PICK new : new = [r EXCEPT ![k] = v]
  OBVIOUS
<1>4. MaxOrders \in Nat /\ k \in Nat /\ k >= 1 /\ k <= MaxOrders
  BY AccountsAssumption DEF Ids
<1>5. /\ \A i \in Ids : i \in 0..MaxOrders /\ i - 1 \in 0..MaxOrders /\ i \in Nat /\ r[i] \in Nat
      /\ \A i \in 0..MaxOrders : i \in Nat /\ s[i] \in Nat
      /\ 0 \in 0..MaxOrders /\ MaxOrders \in 0..MaxOrders /\ r[k] \in Nat
  BY <1>4 DEF Ids
<1>6. s[k] = s[k - 1] + r[k] /\ s[k - 1] \in Nat /\ k - 1 \in 0..MaxOrders
  BY <1>1, <1>5
<1>7. \A i \in 0..MaxOrders : i >= k => s[i] >= s[k - 1] + r[k]
  BY <1>1, <1>5, <1>6
<1>8. \A i \in 0..MaxOrders : n[i] = IF i < k THEN s[i] ELSE s[i] + v - r[k]
  BY <1>2
<1>9. \A i \in 0..MaxOrders : n[i] \in Nat
  <2> TAKE i \in 0..MaxOrders
  <2>1. CASE i < k
    BY <1>5, <1>8, <2>1
  <2>2. CASE ~(i < k)
    <3>1. i >= k /\ s[i] \in Nat /\ r[k] \in Nat /\ n[i] = s[i] + v - r[k]
      BY <1>4, <1>5, <1>8, <2>2
    <3>2. s[i] >= s[k - 1] + r[k]
      BY <1>7, <3>1
    <3> QED
      BY <1>6, <3>1, <3>2
  <2> QED
    BY <2>1, <2>2
<1>10. n \in [0..MaxOrders -> Nat] /\ n[0] = 0
  BY <1>1, <1>2, <1>4, <1>5, <1>8, <1>9
<1>11. \A i \in Ids : n[i] = n[i - 1] + new[i]
  <2> TAKE i \in Ids
  <2>1. new[i] = IF i = k THEN v ELSE r[i]
    BY <1>3
  <2>2. s[i] = s[i - 1] + r[i] /\ s[i - 1] \in Nat /\ r[i] \in Nat /\ i \in Nat
    BY <1>1, <1>5
  <2>3. /\ n[i] = IF i < k THEN s[i] ELSE s[i] + v - r[k]
        /\ n[i - 1] = IF i - 1 < k THEN s[i - 1] ELSE s[i - 1] + v - r[k]
    BY <1>5, <1>8
  <2> QED
    BY <1>4, <1>5, <2>1, <2>2, <2>3
<1>12. \A i, j \in 0..MaxOrders : i <= j => n[i] <= n[j]
  <2> SUFFICES ASSUME NEW i \in 0..MaxOrders, NEW j \in 0..MaxOrders, i <= j
               PROVE  n[i] <= n[j]
    OBVIOUS
  <2>1. s[i] <= s[j] /\ s[i] \in Nat /\ s[j] \in Nat /\ i \in Nat /\ j \in Nat
    BY <1>1, <1>5
  <2>2. /\ n[i] = IF i < k THEN s[i] ELSE s[i] + v - r[k]
        /\ n[j] = IF j < k THEN s[j] ELSE s[j] + v - r[k]
    BY <1>8
  <2>3. CASE i < k /\ j >= k
    <3>1. s[i] <= s[k - 1]
      BY <1>1, <1>4, <1>6, <2>1, <2>3
    <3>2. s[j] >= s[k - 1] + r[k]
      BY <1>7, <2>3
    <3> QED
      BY <1>4, <1>5, <1>6, <2>1, <2>2, <2>3, <3>1, <3>2
  <2>4. CASE ~(i < k /\ j >= k)
    BY <1>4, <1>5, <2>1, <2>2, <2>4
  <2> QED
    BY <2>3, <2>4
<1>13. n[MaxOrders] <= b
  BY <1>1, <1>4, <1>5, <1>8
<1> QED
  BY <1>3, <1>10, <1>11, <1>12, <1>13 DEF FitsIn

(* What fits in a bound leaves it positive. *)
LEMMA FitsBound ==
  ASSUME NEW r, NEW bound \in Int, FitsIn(r, bound)
  PROVE  bound >= 0
<1>1. PICK s \in [0..MaxOrders -> Nat] : s[MaxOrders] <= bound
  BY DEF FitsIn
<1>2. s[MaxOrders] \in Nat
  BY AccountsAssumption
<1> QED
  BY <1>1, <1>2

(* An order that is over rests no more: nothing of it is to come. *)
LEMMA SettledToCome ==
  ASSUME NEW os, NEW waiting, NEW t, NEW side
  PROVE  ToCome(Settled(os, waiting), t, side) = ToCome(os, t, side)
<1>1. PICK new : new = Settled(os, waiting)
  OBVIOUS
<1>2. \A i \in Ids : new[i] = os[i] \/ (new[i] = NoOrder /\ ~os[i].live)
  BY <1>1 DEF Settled, Over
<1>3. \A i \in Ids : LeftOf(new[i], t, side) = LeftOf(os[i], t, side)
  BY <1>2 DEF LeftOf
<1> QED
  BY <1>1, <1>3 DEF ToCome

LEMMA LeftIsNat ==
  ASSUME AccountsTypeOK, NEW i \in Ids, NEW t, NEW side
  PROVE  LeftOf(orders[i], t, side) \in Nat
<1>1. CASE orders[i] = NoOrder
  BY <1>1 DEF LeftOf
<1>2. CASE orders[i] # NoOrder
  <2>1. orders[i] \in Orders /\ Sound(orders[i])
    BY <1>2 DEF AccountsTypeOK, IsOrder
  <2>2. orders[i].size - orders[i].matched \in Nat
    BY <2>1 DEF Orders, Sound
  <2> QED
    BY <2>2 DEF LeftOf
<1> QED
  BY <1>1, <1>2

(* One order changes: what is to come fits as the room does. *)
LEMMA RoomKept ==
  ASSUME AccountsTypeOK, NEW i \in Ids, NEW new, NEW t, NEW side,
         LeftOf(new, t, side) \in Nat,
         NEW a \in Int, NEW b \in Int, FitsIn(ToCome(orders, t, side), a),
         b >= a + LeftOf(new, t, side) - LeftOf(orders[i], t, side)
  PROVE  FitsIn(ToCome([orders EXCEPT ![i] = new], t, side), b)
<1>1. PICK r : r = ToCome(orders, t, side)
  OBVIOUS
<1>2. PICK v : v = LeftOf(new, t, side)
  OBVIOUS
<1>3. r \in [Ids -> Nat] /\ r[i] = LeftOf(orders[i], t, side)
  BY <1>1, LeftIsNat DEF ToCome
<1>4. PICK os : os = [orders EXCEPT ![i] = new]
  OBVIOUS
<1>5. DOMAIN orders = Ids
  BY DEF AccountsTypeOK
<1>6. \A j \in Ids : os[j] = IF j = i THEN new ELSE orders[j]
  BY <1>4, <1>5
<1>7. ToCome(os, t, side) = [r EXCEPT ![i] = v]
  BY <1>1, <1>2, <1>6 DEF ToCome
<1>8. FitsIn([r EXCEPT ![i] = v], b)
  BY <1>1, <1>2, <1>3, FitsChanged
<1> QED
  BY <1>4, <1>7, <1>8

(* A step of order i whose room shrinks by no more than what is to come. *)
LEMMA CapAfter ==
  ASSUME AccountsTypeOK, CapKnown, NEW i \in Ids, NEW new \in Orders, Sound(new),
         NEW waiting,
         \/ orders' = [orders EXCEPT ![i] = new]
         \/ orders' = Settled([orders EXCEPT ![i] = new], waiting),
         NEW t \in Tokens, NEW side \in Sides, CapRoom(t, side) \in Int, CapRoom(t, side)' \in Int,
         CapRoom(t, side)' >= CapRoom(t, side) + LeftOf(new, t, side) - LeftOf(orders[i], t, side)
  PROVE  FitsIn(ToCome(orders, t, side), CapRoom(t, side))'
<1>1. LeftOf(new, t, side) \in Nat
  BY DEF LeftOf, Orders, Sound
<1>2. PICK b : b = CapRoom(t, side)'
  OBVIOUS
<1>3. PICK os : os = [orders EXCEPT ![i] = new]
  OBVIOUS
<1>4. FitsIn(ToCome(os, t, side), b)
  BY <1>1, <1>2, <1>3, RoomKept DEF CapKnown
<1>5. FitsIn(ToCome(Settled(os, waiting), t, side), b)
  BY <1>4, SettledToCome
<1>6. orders' = os \/ orders' = Settled(os, waiting)
  BY <1>3
<1>7. PICK now : now = orders'
  OBVIOUS
<1>8. FitsIn(ToCome(now, t, side), b)
  BY <1>4, <1>5, <1>6, <1>7
<1> QED
  BY <1>2, <1>7, <1>8

LEMMA RoomIsInt ==
  ASSUME AccountsTypeOK, NEW t \in Tokens, NEW side \in Sides
  PROVE  /\ CapRoom(t, side) \in Int /\ account[t].qty \in Int
         /\ blind[t] \in Nat /\ MaxPosition \in Nat
  BY LimitsAssumption DEF LimitsAssumption, AccountsTypeOK, Positions, CapRoom, Signed

(* Neither the accounts nor what was placed blindly change. *)
LEMMA CapSameRoom ==
  ASSUME AccountsTypeOK, CapKnown, UNCHANGED <<account, blind>>,
         NEW i \in Ids, NEW new \in Orders, Sound(new), NEW waiting,
         orders' = Settled([orders EXCEPT ![i] = new], waiting),
         \A t \in Tokens, side \in Sides : LeftOf(new, t, side) <= LeftOf(orders[i], t, side)
  PROVE  CapKnown'
<1> SUFFICES ASSUME NEW t \in Tokens, NEW side \in Sides
             PROVE  FitsIn(ToCome(orders, t, side), CapRoom(t, side))'
  BY DEF CapKnown
<1>1. CapRoom(t, side) \in Int /\ CapRoom(t, side)' = CapRoom(t, side)
  BY RoomIsInt DEF CapRoom
<1>2. LeftOf(new, t, side) \in Nat
  BY DEF LeftOf, Orders, Sound
<1>3. CapRoom(t, side)' >= CapRoom(t, side) + LeftOf(new, t, side) - LeftOf(orders[i], t, side)
  BY <1>1, <1>2, LeftIsNat
<1> QED
  BY <1>1, <1>3, CapAfter

(* Only the orders that are over are forgotten. *)
LEMMA CapSettled ==
  ASSUME CapKnown, UNCHANGED <<account, blind>>, NEW waiting,
         orders' = orders \/ orders' = Settled(orders, waiting)
  PROVE  CapKnown'
<1> SUFFICES ASSUME NEW t \in Tokens, NEW side \in Sides
             PROVE  FitsIn(ToCome(orders, t, side), CapRoom(t, side))'
  BY DEF CapKnown
<1>1. PICK os : os = orders
  OBVIOUS
<1>2. PICK b : b = CapRoom(t, side)
  OBVIOUS
<1>3. FitsIn(ToCome(os, t, side), b) /\ FitsIn(ToCome(Settled(os, waiting), t, side), b)
  BY <1>1, <1>2, SettledToCome DEF CapKnown
<1>4. CapRoom(t, side)' = b
  BY <1>2 DEF CapRoom
<1>5. PICK now : now = orders'
  OBVIOUS
<1>6. FitsIn(ToCome(now, t, side), b)
  BY <1>1, <1>3, <1>5
<1> QED
  BY <1>4, <1>5, <1>6

LEMMA CapReported ==
  ASSUME AccountsInv, CapKnown, NEW i \in Ids, IsOrder(i), OrderReported(i) \/ ExchangeCloses(i)
  PROVE  CapKnown'
<1> DEFINE shut == [orders[i] EXCEPT !.open = FALSE]
           gone == [orders[i] EXCEPT !.live = FALSE]
<1>1. orders[i] \in Orders /\ Sound(orders[i]) /\ AccountsTypeOK
  BY DEF AccountsInv, AccountsTypeOK, IsOrder
<1>2. shut \in Orders /\ Sound(shut) /\ gone \in Orders /\ Sound(gone)
  BY <1>1 DEF Orders, Sound
<1>3. \A t \in Tokens, side \in Sides :
        /\ LeftOf(shut, t, side) <= LeftOf(orders[i], t, side)
        /\ LeftOf(gone, t, side) <= LeftOf(orders[i], t, side)
  BY <1>1, <1>2, NoOrderIsNone DEF LeftOf, Orders, Sound
<1>4. UNCHANGED <<account, blind>>
  BY DEF OrderReported, ExchangeCloses
<1>5. CASE OrderReported(i)
  <2>1. orders' = Settled([orders EXCEPT ![i] = shut], pending)
    BY <1>5 DEF OrderReported
  <2> HIDE DEF shut
  <2> QED
    BY <1>1, <1>2, <1>3, <1>4, <2>1, CapSameRoom
<1>6. CASE ExchangeCloses(i)
  <2>1. orders' = Settled([orders EXCEPT ![i] = gone], pending)
    BY <1>6 DEF ExchangeCloses
  <2> HIDE DEF gone
  <2> QED
    BY <1>1, <1>2, <1>3, <1>4, <2>1, CapSameRoom
<1> QED
  BY <1>5, <1>6

LEMMA CapFillReported ==
  ASSUME AccountsInv, CapKnown, NEW f \in pending, ApplyFill(f)
  PROVE  CapKnown'
<1> DEFINE i   == f.order
           new == [orders[i] EXCEPT !.filled = FilledSize(orders[i], f.size),
                                    !.open   = StillOpen(orders[i], f.size)]
<1>1. i \in Ids /\ f.size \in Nat \ {0} /\ AccountsTypeOK
  BY DEF AccountsInv, AccountsTypeOK, Fills
<1>2. orders[i] \in Orders /\ Sound(orders[i])
  BY <1>1 DEF AccountsInv, AccountsTypeOK, PendingKnown, IsOrder
<1>3. UNCHANGED <<account, blind>>
  BY DEF ApplyFill
<1>4. CASE ~orders[i].open
  <2>1. orders' = Settled(orders, pending \ {f})
    BY <1>4 DEF ApplyFill, Dropped
  <2> QED
    BY <1>3, <2>1, CapSettled
<1>5. CASE orders[i].open
  <2>1. orders' = Settled([orders EXCEPT ![i] = new], pending \ {f})
    BY <1>5 DEF ApplyFill, Account
  <2>2. new \in Orders /\ Sound(new)
    <3> DEFINE m    == FilledSize(orders[i], f.size)
               more == StillOpen(orders[i], f.size)
    <3>1. m \in 0..orders[i].size
      BY <1>1, <1>2 DEF Orders, Sound, FilledSize, Least
    <3>2. more \in BOOLEAN
      BY DEF StillOpen
    <3>3. m = orders[i].size => ~more
      BY <1>2, <3>1 DEF StillOpen, Orders
    <3> HIDE DEF m, more
    <3>4. /\ [orders[i] EXCEPT !.filled = m, !.open = more] \in Orders
          /\ Sound([orders[i] EXCEPT !.filled = m, !.open = more])
      BY <1>2, <3>1, <3>2, <3>3, FilledIsSound
    <3> QED
      BY <3>4 DEF m, more
  <2>3. /\ new.token = orders[i].token /\ new.side = orders[i].side /\ new.live = orders[i].live
        /\ new.size = orders[i].size /\ new.matched = orders[i].matched
    BY <1>2 DEF Orders
  <2> HIDE DEF new
  <2>4. \A t \in Tokens, side \in Sides : LeftOf(new, t, side) <= LeftOf(orders[i], t, side)
    <3> TAKE t \in Tokens, side \in Sides
    <3>1. LeftOf(new, t, side) = LeftOf(orders[i], t, side)
      BY <1>2, <2>2, <2>3, NoOrderIsNone DEF LeftOf
    <3>2. LeftOf(orders[i], t, side) \in Nat
      BY <1>1, LeftIsNat
    <3> QED
      BY <3>1, <3>2
  <2> QED
    BY <1>1, <1>3, <2>1, <2>2, <2>4, CapSameRoom
<1> QED
  BY <1>2, <1>4, <1>5 DEF Orders

LEMMA FilledQty ==
  ASSUME NEW pos \in Positions, NEW side \in Sides, NEW size \in Nat, NEW price \in Nat
  PROVE  Filled(pos, side, size, price).qty = pos.qty + Signed(side, size)
<1>1. Increase(pos, side, size, price).qty = pos.qty + Signed(side, size)
  BY DEF Increase, Positions
<1>2. Reduce(pos, side, size, price).qty = pos.qty + Signed(side, size)
  BY DEF Reduce
<1> QED
  BY <1>1, <1>2 DEF Filled

LEMMA CapFills ==
  ASSUME AccountsInv, CapKnown, NEW i \in Ids, IsOrder(i), NEW n \in 1..MaxOrderQty,
         ExchangeFills(i, n)
  PROVE  CapKnown'
<1>1. PICK order : order = orders[i]
  OBVIOUS
<1>2. /\ order \in Orders /\ Sound(order) /\ order.live /\ n <= order.size - order.matched
      /\ n \in Nat \ {0} /\ AccountsTypeOK
  BY <1>1, LimitsAssumption DEF AccountsInv, AccountsTypeOK, IsOrder, ExchangeFills, LimitsAssumption
<1>3. PICK m : m = order.matched + n
  OBVIOUS
<1> DEFINE more == m < order.size
<1>4. more \in BOOLEAN /\ (more <=> m < order.size)
  OBVIOUS
<1>5. /\ order.token \in Tokens /\ order.side \in Sides /\ order.price \in Nat
      /\ order.size \in Nat /\ order.matched \in Nat /\ m \in 0..order.size
      /\ more \in BOOLEAN /\ (more => m < order.size) /\ (~more => m = order.size)
      /\ m = order.size => ~more
  <2>1. /\ order.token \in Tokens /\ order.side \in Sides /\ order.price \in Nat
        /\ order.size \in Nat /\ order.matched \in Nat
    BY <1>2 DEF Orders
  <2>2. m \in 0..order.size
    BY <1>2, <1>3, <2>1
  <2> HIDE DEF more
  <2> QED
    BY <1>4, <2>1, <2>2
<1>6. PICK new : new = [order EXCEPT !.matched = m, !.live = more]
  OBVIOUS
<1>7. new \in Orders /\ Sound(new)
  <2> HIDE DEF more
  <2> QED
    BY <1>2, <1>5, <1>6, MatchedIsSound
<1>8. /\ orders' = Settled([orders EXCEPT ![i] = new], pending')
      /\ account' = [account EXCEPT ![order.token] = Filled(@, order.side, n, order.price)]
      /\ blind' = blind
  BY <1>1, <1>3, <1>6 DEF ExchangeFills
<1> HIDE DEF more
<1>9. /\ account \in [Tokens -> Positions]
      /\ account'[order.token].qty = account[order.token].qty + Signed(order.side, n)
      /\ \A t \in Tokens : t # order.token => account'[t] = account[t]
  <2>1. account \in [Tokens -> Positions]
    BY <1>2 DEF AccountsTypeOK
  <2>2. Filled(account[order.token], order.side, n, order.price).qty
          = account[order.token].qty + Signed(order.side, n)
    BY <1>2, <1>5, <2>1, FilledQty
  <2> QED
    BY <1>5, <1>8, <2>1, <2>2
<1>10. /\ new.token = order.token /\ new.side = order.side /\ new.size = order.size
       /\ new.matched = m /\ new.live = more
  BY <1>2, <1>5, <1>6 DEF Orders
<1> SUFFICES ASSUME NEW t \in Tokens, NEW side \in Sides
             PROVE  FitsIn(ToCome(orders, t, side), CapRoom(t, side))'
  BY DEF CapKnown
<1>11. /\ CapRoom(t, side) \in Int /\ account[t].qty \in Int /\ blind[t] \in Nat
       /\ MaxPosition \in Nat
  BY <1>2, RoomIsInt
<1>12. /\ CapRoom(t, side)' \in Int
       /\ CapRoom(t, side)' >= CapRoom(t, side) + LeftOf(new, t, side) - LeftOf(order, t, side)
  <2>1. CapRoom(t, side)' = MaxPosition + blind[t] - Signed(side, account'[t].qty)
    BY <1>8 DEF CapRoom
  <2>2. order # NoOrder /\ new # NoOrder
    BY <1>2, <1>7, NoOrderIsNone
  <2>3. CASE t = order.token /\ side = order.side
    <3>1. LeftOf(order, t, side) = order.size - order.matched
      BY <1>2, <2>2, <2>3 DEF LeftOf
    <3>2. LeftOf(new, t, side) = order.size - order.matched - n
      <4>1. CASE new.live
        BY <1>3, <1>5, <1>10, <2>2, <2>3, <4>1 DEF LeftOf
      <4>2. CASE ~new.live
        <5>1. LeftOf(new, t, side) = 0 /\ m = order.size
          BY <1>5, <1>10, <4>2 DEF LeftOf
        <5> QED
          BY <1>2, <1>3, <1>5, <5>1
      <4> QED
        BY <4>1, <4>2
    <3>3. Signed(side, account'[t].qty) = Signed(side, account[t].qty) + n
      BY <1>2, <1>9, <1>11, <2>3 DEF Signed, Sides
    <3> QED
      BY <1>2, <1>5, <1>11, <2>1, <3>1, <3>2, <3>3 DEF CapRoom, Signed
  <2>4. CASE t = order.token /\ side # order.side
    <3>1. LeftOf(order, t, side) = 0 /\ LeftOf(new, t, side) = 0
      BY <1>10, <2>4 DEF LeftOf
    <3>2. Signed(side, account'[t].qty) = Signed(side, account[t].qty) - n
      BY <1>2, <1>5, <1>9, <1>11, <2>4 DEF Signed, Sides
    <3> QED
      BY <1>2, <1>11, <2>1, <3>1, <3>2 DEF CapRoom, Signed
  <2>5. CASE t # order.token
    <3>1. LeftOf(order, t, side) = 0 /\ LeftOf(new, t, side) = 0
      BY <1>10, <2>5 DEF LeftOf
    <3>2. account'[t] = account[t]
      BY <1>9, <2>5
    <3> QED
      BY <1>11, <2>1, <3>1, <3>2 DEF CapRoom, Signed
  <2> QED
    BY <2>3, <2>4, <2>5
<1> QED
  BY <1>1, <1>2, <1>7, <1>8, <1>11, <1>12, CapAfter

(* What the gate lets through stays within the cap of the position it saw. *)
LEMMA SentWithinCap ==
  ASSUME NEW book \in Books, NEW position \in Int, NEW side \in Sides, NEW size \in Sizes,
         NEW sent, sent = SentSize(book, position, side, size), sent # 0
  PROVE  Abs(position + Signed(side, sent)) <= MaxPosition
<1>1. Touch(book, side) \in Nat \ {0} /\ size \in Nat \ {0}
  BY AccountsAssumption
<1>2. sent = CheckedSize(position, side, size, Touch(book, side))
  BY DEF SentSize
<1> QED
  BY <1>1, <1>2, LimitsAssumption, GateKeepsLimits

LEMMA CapPlaced ==
  ASSUME AccountsInv, CapKnown, NEW t \in Tokens, NEW side \in Sides, NEW size \in Sizes,
         NEW book \in Books, PlaceOrder(t, side, size, book)
  PROVE  CapKnown'
<1>1. PICK sent : sent = SentSize(book, Get(t).qty, side, size)
  OBVIOUS
<1>2. PICK price : price = Touch(book, side)
  OBVIOUS
<1>3. PICK new : new = [token |-> t, side |-> side, size |-> sent, price |-> price,
                        filled |-> 0, open |-> TRUE, matched |-> 0, live |-> TRUE]
  OBVIOUS
<1>4. PICK i : i = placed + 1
  OBVIOUS
<1>5. /\ sent > 0 /\ orders' = [orders EXCEPT ![i] = new]
      /\ blind' = [blind EXCEPT ![t] = IF Blind(t) THEN @ + sent ELSE @]
      /\ account' = account /\ placed < MaxOrders
  BY <1>1, <1>2, <1>3, <1>4 DEF PlaceOrder
<1>6. Get(t).qty \in Int /\ AccountsTypeOK
  BY GetIsPosition DEF AccountsInv, Positions
<1>7. sent \in Nat \ {0} /\ price \in Nat /\ Abs(Get(t).qty + Signed(side, sent)) <= MaxPosition
  <2>1. sent \in Nat
    BY <1>1, <1>6, SentIsSize
  <2>2. price \in Nat
    BY <1>2, AccountsAssumption
  <2> QED
    BY <1>1, <1>5, <1>6, <2>1, <2>2, SentWithinCap
<1>8. i \in Ids
  BY <1>4, <1>5, <1>6, AccountsAssumption DEF AccountsTypeOK, Ids
<1>9. new \in Orders /\ Sound(new)
  BY <1>3, <1>7 DEF Orders, Sound
<1>10. \A u, s : LeftOf(new, u, s) = IF u = t /\ s = side THEN sent ELSE 0
  <2>1. new.token = t /\ new.side = side /\ new.live /\ new.size - new.matched = sent
    BY <1>3, <1>7
  <2>2. new # NoOrder
    BY <1>9, NoOrderIsNone
  <2> QED
    BY <2>1, <2>2 DEF LeftOf
<1> SUFFICES ASSUME NEW u \in Tokens, NEW s \in Sides
             PROVE  FitsIn(ToCome(orders, u, s), CapRoom(u, s))'
  BY DEF CapKnown
<1>11. /\ CapRoom(u, s) \in Int /\ account[u].qty \in Int /\ blind[u] \in Nat
       /\ MaxPosition \in Nat /\ LeftOf(orders[i], u, s) \in Nat
  BY <1>6, <1>8, RoomIsInt, LeftIsNat
<1>12. /\ blind'[u] = IF u = t /\ Blind(t) THEN blind[u] + sent ELSE blind[u]
       /\ CapRoom(u, s)' = CapRoom(u, s) + (blind'[u] - blind[u])
       /\ CapRoom(u, s)' \in Int
  <2>1. blind'[u] = IF u = t /\ Blind(t) THEN blind[u] + sent ELSE blind[u]
    BY <1>5, <1>6 DEF AccountsTypeOK
  <2>2. CapRoom(u, s)' = MaxPosition + blind'[u] - Signed(s, account[u].qty)
    BY <1>5 DEF CapRoom
  <2>3. blind'[u] \in Nat
    BY <1>7, <1>11, <2>1
  <2> QED
    BY <1>11, <2>1, <2>2, <2>3 DEF CapRoom, Signed
<1>13. CASE u = t /\ s = side /\ ~Blind(t)
  <2>1. /\ Get(t).qty = account[u].qty
        /\ \A j \in Ids : IsOrder(j) /\ orders[j].token = u => ~orders[j].live
    BY <1>13 DEF Blind
  <2>2. \A j \in Ids : ToCome(orders, u, s)[j] = 0
    BY <2>1 DEF ToCome, LeftOf, IsOrder
  <2>3. FitsIn(ToCome(orders, u, s), 0)
    BY <2>2, FitsNothing
  <2>4. Signed(s, account[u].qty) + sent <= MaxPosition
    BY <1>7, <1>11, <1>13, <2>1 DEF Abs, Signed, Sides
  <2>5. CapRoom(u, s)' >= sent
    BY <1>7, <1>11, <1>12, <1>13, <2>4 DEF CapRoom, Signed
  <2>6. PICK b : b = CapRoom(u, s)'
    OBVIOUS
  <2>7. b >= 0 + LeftOf(new, u, s) - LeftOf(orders[i], u, s) /\ LeftOf(new, u, s) \in Nat
    BY <1>7, <1>10, <1>11, <1>12, <1>13, <2>5, <2>6
  <2>8. FitsIn(ToCome([orders EXCEPT ![i] = new], u, s), b)
    BY <1>6, <1>8, <1>12, <2>3, <2>6, <2>7, RoomKept
  <2>9. PICK now : now = orders'
    OBVIOUS
  <2>10. FitsIn(ToCome(now, u, s), b)
    BY <1>5, <2>8, <2>9
  <2> QED
    BY <2>6, <2>9, <2>10
<1>14. CASE ~(u = t /\ s = side /\ ~Blind(t))
  <2>1. CapRoom(u, s)' >= CapRoom(u, s) + LeftOf(new, u, s) - LeftOf(orders[i], u, s)
    BY <1>7, <1>10, <1>11, <1>12, <1>14
  <2> QED
    BY <1>5, <1>6, <1>8, <1>9, <1>11, <1>12, <2>1, CapAfter
<1> QED
  BY <1>13, <1>14

(* What was there before the start is within the cap. *)
StartsWithinCap == \A pos \in Restored : Abs(pos.qty) <= MaxPosition

LEMMA CapInitially ==
  ASSUME StartsWithinCap, Init
  PROVE  CapKnown
<1> SUFFICES ASSUME NEW t \in Tokens, NEW side \in Sides
             PROVE  FitsIn(ToCome(orders, t, side), CapRoom(t, side))
  BY DEF CapKnown
<1>1. \A i \in Ids : ToCome(orders, t, side)[i] = 0
  BY DEF Init, ToCome, LeftOf
<1>2. account[t].qty \in Int /\ Abs(account[t].qty) <= MaxPosition /\ blind[t] = 0
  BY AccountsAssumption DEF Init, StartsWithinCap, Positions
<1>3. CapRoom(t, side) \in Int /\ CapRoom(t, side) >= 0
  BY <1>2, LimitsAssumption DEF LimitsAssumption, CapRoom, Signed, Abs
<1> QED
  BY <1>1, <1>3, FitsNothing

LEMMA CapStep == AccountsInv /\ CapKnown /\ [Next]_vars => CapKnown'
<1> SUFFICES ASSUME AccountsInv, CapKnown, [Next]_vars PROVE CapKnown'
  OBVIOUS
<1>1. ASSUME NEW t \in Tokens, NEW side \in Sides, NEW size \in Sizes, NEW book \in Books,
             PlaceOrder(t, side, size, book)
      PROVE  CapKnown'
  BY <1>1, CapPlaced
<1>2. CASE \/ \E t \in Tokens : BalanceAsked(t) \/ BalanceReturns(t)
           \/ Evaluate \/ BalanceFails \/ DayPasses \/ UNCHANGED vars
           \/ \E tokens \in SUBSET Tokens : Refresh(tokens)
  <2>1. UNCHANGED <<orders, account, blind>>
    BY <1>2 DEF BalanceAsked, BalanceReturns, Evaluate, BalanceFails, DayPasses, vars, Refresh
  <2> QED
    BY <2>1, CapSettled
<1>3. ASSUME NEW f \in pending, ApplyFill(f) PROVE CapKnown'
  BY <1>3, CapFillReported
<1>4. ASSUME NEW i \in Ids, OrderStep(i) PROVE CapKnown'
  BY <1>4, CapReported, CapFills DEF OrderStep
<1> QED
  BY <1>1, <1>2, <1>3, <1>4 DEF Next

(***************************************************************************)
(* risk_engine/index.js:180-190, the cap on a position: of any number of   *)
(* orders, filled in any order and reported when they may be, the account  *)
(* holds no more than the cap and what was placed while the check could    *)
(* not see everything.                                                     *)
(***************************************************************************)
THEOREM CapHolds == StartsWithinCap => (Spec => []CapPlusBlind)
<1> SUFFICES ASSUME StartsWithinCap PROVE Spec => []CapPlusBlind
  OBVIOUS
<1>1. Init => CapKnown
  BY CapInitially
<1>2. AccountsInv /\ CapKnown => CapPlusBlind
  <2> SUFFICES ASSUME AccountsInv, CapKnown, NEW t \in Tokens
               PROVE  Abs(account[t].qty) <= MaxPosition + blind[t]
    BY DEF CapPlusBlind
  <2>1. AccountsTypeOK /\ "BUY" \in Sides /\ "SELL" \in Sides
    BY DEF AccountsInv, Sides
  <2>2. CapRoom(t, "BUY") >= 0 /\ CapRoom(t, "SELL") >= 0
    BY <2>1, RoomIsInt, FitsBound DEF CapKnown
  <2>3. account[t].qty \in Int /\ blind[t] \in Nat /\ MaxPosition \in Nat
    BY <2>1, RoomIsInt
  <2> QED
    BY <2>2, <2>3 DEF CapRoom, Signed, Abs
<1> QED
  BY <1>1, <1>2, AccountsInvariant, CapStep, PTL DEF Spec

=============================================================================
