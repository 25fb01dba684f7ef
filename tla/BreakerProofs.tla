--------------------------- MODULE BreakerProofs ---------------------------
(***************************************************************************)
(* Theorems about the pre-trade check and the circuit breaker: for any     *)
(* limits, thresholds, windows, recovery time and number of orders.        *)
(***************************************************************************)
EXTENDS Breaker, FiniteSetTheorems, TLAPS

-----------------------------------------------------------------------------
(* The check *)

(* A quotient times its divisor is not more than what was divided. *)
LEMMA Quotient ==
  ASSUME NEW a \in Nat, NEW b \in Nat \ {0}
  PROVE  a \div b \in Nat /\ (a \div b) * b <= a
OBVIOUS

LEMMA Monotone ==
  ASSUME NEW a \in Nat, NEW b \in Nat, NEW c \in Nat, a <= b
  PROVE  a * c <= b * c /\ a * c \in Nat /\ b * c \in Nat
OBVIOUS

LEMMA ScaledIsLess ==
  ASSUME NEW size \in Nat, NEW scale \in 0..100
  PROVE  Scaled(size, scale) \in 0..size
<1>1. size * scale \in Nat /\ size * scale <= size * 100
  OBVIOUS
<1> QED
  BY <1>1 DEF Scaled

(***************************************************************************)
(* risk.js:48-145: an approved size is within every limit at once, though  *)
(* each check only lowers what the one before it left: the position, the   *)
(* category, the gross exposure, the volume, the probe of a breaker that   *)
(* is half open; it is never more than was asked for.                      *)
(***************************************************************************)
THEOREM VerdictKeepsLimits ==
  ASSUME PreTradeAssumption,
         NEW state \in States, NEW rec \in Recs, NEW book \in Books,
         NEW verdict, verdict = preTradeRisk(state, rec, book), verdict.ok
  PROVE  /\ state # "open"
         /\ verdict.sz \in MinVerdict..rec.sz
         /\ book.held + verdict.sz <= MaxPos
         /\ book.cat + verdict.sz <= MaxCatQty
         /\ book.grossNow + verdict.sz * rec.price <= MaxExpNotional
         /\ state = "half_open" => verdict.sz * rec.price <= HalfOpenMaxNotional
         /\ MinLiqRatio * verdict.sz <= book.adv
<1> USE DEF PreTradeAssumption
<1> DEFINE probe      == Probe(state, rec.sz, rec.price)
           byMarket   == Least(probe, Room(MaxPos, book.held))
           left       == Room(MaxExpNotional, book.grossNow)
           byNotional == Least(byMarket, left \div rec.price)
           scaled     == Scaled(byNotional, book.scale)
           size       == Least(scaled, Room(MaxCatQty, book.cat))
<1>1. /\ rec.sz \in Nat /\ rec.price \in Nat \ {0}
      /\ book.held \in Nat /\ book.cat \in Nat /\ book.grossNow \in Nat
      /\ book.scale \in 0..100 /\ book.adv \in Nat
  BY DEF Recs, Books, Prices
<1>2. /\ verdict.sz = size /\ size >= MinVerdict
      /\ state # "open" /\ Liquid(size, book.adv)
  BY DEF preTradeRisk, Allowed
<1>3. /\ probe \in Nat /\ probe <= rec.sz
      /\ state = "half_open" => probe * rec.price <= HalfOpenMaxNotional
  <2> DEFINE cap == HalfOpenMaxNotional \div rec.price
  <2>1. cap \in Nat /\ cap * rec.price <= HalfOpenMaxNotional
    BY <1>1, Quotient
  <2> HIDE DEF cap
  <2>2. probe = IF state = "half_open" THEN Least(rec.sz, cap) ELSE rec.sz
    BY DEF Probe, cap
  <2>3. state = "half_open" => probe \in Nat /\ probe <= cap
    BY <1>1, <2>1, <2>2 DEF Least
  <2>4. state = "half_open" => probe * rec.price <= cap * rec.price /\ probe * rec.price \in Nat
    BY <1>1, <2>1, <2>3, Monotone
  <2> QED
    BY <1>1, <2>1, <2>2, <2>3, <2>4 DEF Least
<1>4. left \in Nat /\ (left > 0 => book.grossNow + left = MaxExpNotional)
  BY <1>1 DEF Room
<1>5. left \div rec.price \in Nat /\ (left \div rec.price) * rec.price <= left
  BY <1>1, <1>4, Quotient
<1> HIDE DEF probe, left
<1>6. /\ byMarket \in Nat /\ byMarket <= probe
      /\ byMarket > 0 => book.held + byMarket <= MaxPos
  BY <1>1, <1>3 DEF Least, Room
<1> HIDE DEF byMarket
<1> DEFINE most == left \div rec.price
<1>7. most \in Nat /\ most * rec.price <= left
  BY <1>5
<1> HIDE DEF most
<1>8. /\ byNotional \in Nat /\ byNotional <= byMarket /\ byNotional <= most
  BY <1>6, <1>7 DEF Least, most
<1> HIDE DEF byNotional
<1>9. scaled \in Nat /\ scaled <= byNotional
  <2>1. byNotional \in Nat /\ book.scale \in 0..100
    BY <1>1, <1>8
  <2>2. Scaled(byNotional, book.scale) \in 0..byNotional
    BY ONLY <2>1, ScaledIsLess
  <2> QED
    BY <2>1, <2>2
<1> HIDE DEF scaled
<1>10. /\ size \in Nat /\ size <= scaled
       /\ size > 0 => book.cat + size <= MaxCatQty
  BY <1>1, <1>9 DEF Least, Room
<1> HIDE DEF size
<1>11. size * rec.price <= most * rec.price /\ size * rec.price <= probe * rec.price
  <2>1. size <= most /\ size <= probe
    BY <1>3, <1>6, <1>7, <1>8, <1>9, <1>10
  <2> QED
    BY <1>1, <1>3, <1>7, <1>10, <2>1, Monotone
<1>12. /\ size * rec.price \in Nat /\ size * rec.price > 0
       /\ most * rec.price \in Nat /\ probe * rec.price \in Nat
  <2>1. size \in Nat \ {0}
    BY <1>2, <1>10
  <2> QED
    BY <1>1, <1>3, <1>7, <2>1
<1>13. book.grossNow + size * rec.price <= MaxExpNotional
  BY <1>1, <1>4, <1>7, <1>11, <1>12
<1>14. state = "half_open" => size * rec.price <= HalfOpenMaxNotional
  BY <1>3, <1>11, <1>12
<1>15. /\ size <= rec.sz /\ size >= MinVerdict
       /\ book.held + size <= MaxPos /\ book.cat + size <= MaxCatQty
  BY <1>1, <1>2, <1>3, <1>6, <1>8, <1>9, <1>10
<1>16. MinLiqRatio * size <= book.adv
  BY <1>2 DEF Liquid
<1> QED
  BY <1>1, <1>2, <1>10, <1>13, <1>14, <1>15, <1>16

-----------------------------------------------------------------------------
(* Sizing and check *)

LEMMA QuotientGrows ==
  ASSUME NEW a \in Nat, NEW b \in Nat, NEW p \in Nat \ {0}, a <= b
  PROVE  a \div p <= b \div p
OBVIOUS

LEMMA LeastIs ==
  ASSUME NEW a \in Nat, NEW b \in Nat
  PROVE  /\ Least(a, b) \in Nat /\ Least(a, b) <= a /\ Least(a, b) <= b
         /\ a <= b => Least(a, b) = a
BY DEF Least

LEMMA LeastOfAll ==
  ASSUME NEW a \in Nat, NEW b \in Nat, NEW c \in Nat, NEW d \in Nat
  PROVE  /\ Least(Least(Least(a, b), c), d) \in Nat
         /\ Least(Least(Least(a, b), c), d) <= b
         /\ Least(Least(Least(a, b), c), d) <= c
         /\ Least(Least(Least(a, b), c), d) <= d
BY DEF Least

LEMMA RoomIsNat ==
  ASSUME NEW a \in Nat, NEW b \in Nat
  PROVE  Room(a, b) \in Nat
BY DEF Room

LEMMA ProbeIs ==
  ASSUME PreTradeAssumption, NEW state, NEW size \in Nat, NEW price \in Nat \ {0}
  PROVE  /\ Probe(state, size, price) \in Nat /\ Probe(state, size, price) <= size
         /\ \A n \in Nat : n <= Probe(state, size, price) => Probe(state, n, price) = n
<1> DEFINE cap == HalfOpenMaxNotional \div price
<1>1. cap \in Nat
  BY Quotient DEF PreTradeAssumption
<1> HIDE DEF cap
<1>2. \A n : Probe(state, n, price) = IF state = "half_open" THEN Least(n, cap) ELSE n
  BY DEF Probe, cap
<1> QED
  BY <1>1, <1>2 DEF Least

(***************************************************************************)
(* alpha.js:316-355 and risk.js:54-113: the check leaves a recommendation  *)
(* as it was sized, without a drawdown and with an exposure that has not   *)
(* grown: the two agree on every limit, whatever the limits are.           *)
(***************************************************************************)
THEOREM CheckKeepsSize ==
  ASSUME PreTradeAssumption,
         NEW state, NEW want \in Nat, NEW price \in Prices, NEW book \in Books,
         book.scale = 100, book.grossNow <= book.gross,
         NEW size, size = Sized(state, want, price, book)
  PROVE  preTradeRisk(state, [sz |-> size, price |-> price], book).sz = size
<1> USE DEF PreTradeAssumption
<1> DEFINE rec   == [sz |-> size, price |-> price]
           mkt   == Room(MaxPos, book.held)
           cat   == Room(MaxCatQty, book.cat)
           was   == Room(MaxExpNotional, book.gross)
           is    == Room(MaxExpNotional, book.grossNow)
           loss  == LossRoom(book, price)
           byNotional == Least(want, was \div price)
           byMarket   == Least(byNotional, mkt)
           byCategory == Least(byMarket, cat)
           probe      == Probe(state, byCategory, price)
<1>1. /\ price \in Nat \ {0}
      /\ book.held \in Nat /\ book.cat \in Nat /\ book.gross \in Nat /\ book.grossNow \in Nat
  BY DEF Books, Prices
<1>2. mkt \in Nat /\ cat \in Nat /\ was \in Nat /\ is \in Nat /\ was <= is
  BY <1>1 DEF Room
<1>3. was \div price \in Nat /\ is \div price \in Nat /\ was \div price <= is \div price
  BY <1>1, <1>2, Quotient, QuotientGrows
<1>4. loss \in Nat
  <2> DEFINE limit == (MaxPositionLoss * book.scale) \div 100
  <2>1. limit \in Nat /\ book.held * price \in Nat
    BY <1>1
  <2>2. Room(limit, book.held * price) \in Nat
    BY <2>1, RoomIsNat
  <2> QED
    BY <1>1, <2>2, Quotient DEF LossRoom
<1>5. size = Least(probe, loss)
  BY DEF Sized
<1>6. preTradeRisk(state, rec, book).sz =
        Least(Scaled(Least(Least(Probe(state, size, price), mkt), is \div price), 100), cat)
  BY DEF preTradeRisk, Allowed
<1> HIDE DEF mkt, cat, was, is, loss
<1> DEFINE p == was \div price
           q == is \div price
<1>7. p \in Nat /\ q \in Nat /\ p <= q
  BY <1>3
<1> HIDE DEF p, q
<1>8. /\ byCategory \in Nat
      /\ byCategory <= mkt /\ byCategory <= cat /\ byCategory <= p
  <2>1. byCategory = Least(Least(Least(want, p), mkt), cat)
    BY DEF p
  <2>2. want \in Nat /\ p \in Nat /\ mkt \in Nat /\ cat \in Nat
    BY <1>2, <1>7
  <2>3. /\ Least(Least(Least(want, p), mkt), cat) \in Nat
        /\ Least(Least(Least(want, p), mkt), cat) <= p
        /\ Least(Least(Least(want, p), mkt), cat) <= mkt
        /\ Least(Least(Least(want, p), mkt), cat) <= cat
    BY ONLY <2>2, LeastOfAll
  <2> QED
    BY <2>1, <2>3
<1> HIDE DEF byCategory
<1>9. probe \in Nat /\ probe <= byCategory
  BY <1>1, <1>8, ProbeIs
<1>10. size \in Nat /\ size <= probe
  BY <1>4, <1>5, <1>9, LeastIs
<1>11. Probe(state, size, price) = size
  BY <1>1, <1>8, <1>10, ProbeIs
<1>12. size <= mkt /\ size <= cat /\ size <= q
  BY <1>2, <1>7, <1>8, <1>9, <1>10
<1>13. Least(Least(size, mkt), q) = size /\ Least(size, cat) = size
  BY <1>2, <1>7, <1>10, <1>12, LeastIs
<1>14. Scaled(size, 100) = size
  BY <1>10 DEF Scaled
<1> QED
  BY <1>6, <1>11, <1>13, <1>14 DEF q

-----------------------------------------------------------------------------
(* Recording, tripping, recovering *)

LEMMA TrimmedFits ==
  ASSUME NEW list \in Seq(Slips), NEW w \in Nat, Len(list) <= w + 1
  PROVE  Trimmed(list, w) \in Seq(Slips) /\ Len(Trimmed(list, w)) <= w
<1>1. CASE Len(list) > w
  <2>1. list # <<>>
    BY <1>1
  <2>2. Tail(list) \in Seq(Slips) /\ Len(Tail(list)) = Len(list) - 1
    BY <2>1
  <2> QED
    BY <1>1, <2>2 DEF Trimmed
<1>2. CASE ~(Len(list) > w)
  BY <1>2 DEF Trimmed
<1> QED
  BY <1>1, <1>2

LEMMA Zeros ==
  ASSUME BreakerAssumption
  PROVE  /\ {"closed", "half_open", "open"} = States
         /\ 0 \in 0..Later /\ Later \in 0..Later /\ 0 \in 0..MinProbeFills /\ <<>> \in SlipLists
         /\ 0 \in 0..RejectWindow /\ 0 \in 0..PoorWindow /\ 0 \in 0..InvalidWindow
<1>1. {RecoveryTicks, MinProbeFills, SlipWindow, RejectWindow, PoorWindow, InvalidWindow} \subseteq Nat
  BY DEF BreakerAssumption
<1>2. <<>> \in Seq(Slips) /\ Len(<<>>) = 0
  OBVIOUS
<1> QED
  BY <1>1, <1>2 DEF Later, SlipLists, States

LEMMA Fields ==
  ASSUME NEW b \in Breakers
  PROVE  /\ b.state \in States /\ b.age \in 0..Later
         /\ b.halfOpenFills \in 0..MinProbeFills
         /\ b.slips \in Seq(Slips) /\ Len(b.slips) <= SlipWindow
         /\ b.rejects \in 0..RejectWindow /\ b.poor \in 0..PoorWindow
         /\ b.invalid \in 0..InvalidWindow
BY DEF Breakers, SlipLists

LEMMA RecordsKeepType ==
  ASSUME BreakerAssumption, NEW b \in Breakers
  PROVE  /\ recordReject(b) \in Breakers
         /\ recordApproval(b) \in Breakers
         /\ recordPoorFill(b) \in Breakers
         /\ \A slip \in Slips : recordSlipEvent(b, slip) \in Breakers
<1>1. /\ b.rejects \in 0..RejectWindow /\ b.poor \in 0..PoorWindow
      /\ SlipWindow \in Nat /\ RejectWindow \in Nat /\ PoorWindow \in Nat
  BY Fields DEF BreakerAssumption
<1>2. Counted(b.rejects, RejectWindow) \in 0..RejectWindow
  BY ONLY <1>1 DEF Counted, Least
<1>3. Counted(b.poor, PoorWindow) \in 0..PoorWindow
  BY ONLY <1>1 DEF Counted, Least
<1>4. Room(b.rejects, 1) \in 0..RejectWindow
  BY <1>1 DEF Room
<1>5. ASSUME NEW slip \in Slips
      PROVE  recordSlipEvent(b, slip) \in Breakers
  <2>1. b.slips \in Seq(Slips) /\ Len(b.slips) <= SlipWindow
    BY Fields
  <2> DEFINE more == Append(b.slips, slip)
  <2>2. more \in Seq(Slips) /\ Len(more) <= SlipWindow + 1
    BY <1>1, <2>1
  <2> HIDE DEF more
  <2>3. Trimmed(more, SlipWindow) \in Seq(Slips) /\ Len(Trimmed(more, SlipWindow)) <= SlipWindow
    BY <1>1, <2>2, TrimmedFits
  <2>4. Trimmed(more, SlipWindow) \in SlipLists
    BY <2>3 DEF SlipLists
  <2>5. recordSlipEvent(b, slip) = [b EXCEPT !.slips = Trimmed(more, SlipWindow)]
    BY DEF recordSlipEvent, more
  <2> QED
    BY <2>4, <2>5 DEF Breakers
<1>6. recordReject(b) \in Breakers
  BY <1>2 DEF recordReject, Breakers
<1>7. recordPoorFill(b) \in Breakers
  BY <1>3 DEF recordPoorFill, Breakers
<1>8. recordApproval(b) \in Breakers
  BY <1>4 DEF recordApproval, Breakers
<1> QED
  BY <1>5, <1>6, <1>7, <1>8

LEMMA HighSlipsIsNat ==
  ASSUME NEW b \in Breakers
  PROVE  HighSlips(b) \in Nat
<1>1. b.slips \in Seq(Slips) /\ Len(b.slips) \in Nat
  BY Fields
<1>2. DOMAIN b.slips = 1..Len(b.slips)
  BY <1>1
<1>3. IsFiniteSet(1..Len(b.slips))
  BY <1>1, FS_Interval
<1>4. IsFiniteSet({i \in DOMAIN b.slips : b.slips[i] = "high"})
  BY <1>2, <1>3, FS_Subset
<1> QED
  BY <1>4, FS_CardinalityType DEF HighSlips

(* What each threshold does with a breaker: it trips it, or leaves it. *)
Trip(b, c) ==
  /\ c \in Breakers
  /\ b.state = "open" => c = b
  /\ c.state # "open" => c = b
  /\ b.state # "open" /\ c.state = "open" => c.age = 0

LEMMA TripsOpen ==
  ASSUME BreakerAssumption, NEW b \in Breakers
  PROVE  /\ tripCB(b) \in Breakers /\ tripCB(b).state = "open" /\ tripCB(b).age = 0
         /\ \A breach \in BOOLEAN : Trip(b, Breached(b, breach))
         /\ Trip(b, Slipped(b)) /\ (Slipped(b).state # "open" => HighSlips(b) < SlipThreshold)
         /\ Trip(b, Rejected(b)) /\ (Rejected(b).state # "open" => b.rejects < RejectThreshold)
         /\ Trip(b, FilledPoorly(b)) /\ (FilledPoorly(b).state # "open" => b.poor < PoorThreshold)
         /\ Trip(b, Misled(b)) /\ (Misled(b).state # "open" => b.invalid < InvalidThreshold)
<1> USE DEF BreakerAssumption
<1>1. tripCB(b) \in Breakers /\ tripCB(b).state = "open" /\ tripCB(b).age = 0
  BY Zeros DEF tripCB, Breakers
<1>2. \A breach \in BOOLEAN : Trip(b, Breached(b, breach))
  BY <1>1 DEF Breached, Trip
<1>3. HighSlips(b) \in Nat /\ b.rejects \in Nat /\ b.poor \in Nat /\ b.invalid \in Nat
  <2>1. b.rejects \in Nat /\ b.poor \in Nat /\ b.invalid \in Nat
    BY Fields
  <2> QED
    BY <2>1, HighSlipsIsNat
<1> DEFINE t == tripCB(b)
<1>4. t \in Breakers /\ t.state = "open" /\ t.age = 0
  BY <1>1
<1> HIDE DEF t
<1>5. /\ [t EXCEPT !.slips = <<>>] \in Breakers
      /\ [t EXCEPT !.slips = <<>>].state = "open" /\ [t EXCEPT !.slips = <<>>].age = 0
  BY <1>4, Zeros DEF Breakers
<1>6. /\ [t EXCEPT !.rejects = 0] \in Breakers
      /\ [t EXCEPT !.rejects = 0].state = "open" /\ [t EXCEPT !.rejects = 0].age = 0
  BY <1>4, Zeros DEF Breakers
<1>7. /\ [t EXCEPT !.poor = 0] \in Breakers
      /\ [t EXCEPT !.poor = 0].state = "open" /\ [t EXCEPT !.poor = 0].age = 0
  BY <1>4, Zeros DEF Breakers
<1>8. /\ [t EXCEPT !.invalid = 0] \in Breakers
      /\ [t EXCEPT !.invalid = 0].state = "open" /\ [t EXCEPT !.invalid = 0].age = 0
  BY <1>4, Zeros DEF Breakers
<1>9. Trip(b, Slipped(b)) /\ (Slipped(b).state # "open" => HighSlips(b) < SlipThreshold)
  <2> DEFINE reached == HighSlips(b) >= SlipThreshold
  <2>1. Slipped(b) = IF b.state # "open" /\ reached THEN [t EXCEPT !.slips = <<>>] ELSE b
    BY DEF Slipped, t
  <2>2. ~reached => HighSlips(b) < SlipThreshold
    BY <1>3
  <2> HIDE DEF reached
  <2>3. CASE b.state # "open" /\ reached
    BY <1>5, <2>1, <2>3 DEF Trip
  <2>4. CASE ~(b.state # "open" /\ reached)
    BY <2>1, <2>2, <2>4 DEF Trip
  <2> QED
    BY <2>3, <2>4
<1>10. Trip(b, Rejected(b)) /\ (Rejected(b).state # "open" => b.rejects < RejectThreshold)
  <2> DEFINE reached == b.rejects >= RejectThreshold
  <2>1. Rejected(b) = IF b.state # "open" /\ reached THEN [t EXCEPT !.rejects = 0] ELSE b
    BY DEF Rejected, t
  <2>2. ~reached => b.rejects < RejectThreshold
    BY <1>3
  <2> HIDE DEF reached
  <2>3. CASE b.state # "open" /\ reached
    BY <1>6, <2>1, <2>3 DEF Trip
  <2>4. CASE ~(b.state # "open" /\ reached)
    BY <2>1, <2>2, <2>4 DEF Trip
  <2> QED
    BY <2>3, <2>4
<1>11. Trip(b, FilledPoorly(b)) /\ (FilledPoorly(b).state # "open" => b.poor < PoorThreshold)
  <2> DEFINE reached == b.poor >= PoorThreshold
  <2>1. FilledPoorly(b) = IF b.state # "open" /\ reached THEN [t EXCEPT !.poor = 0] ELSE b
    BY DEF FilledPoorly, t
  <2>2. ~reached => b.poor < PoorThreshold
    BY <1>3
  <2> HIDE DEF reached
  <2>3. CASE b.state # "open" /\ reached
    BY <1>7, <2>1, <2>3 DEF Trip
  <2>4. CASE ~(b.state # "open" /\ reached)
    BY <2>1, <2>2, <2>4 DEF Trip
  <2> QED
    BY <2>3, <2>4
<1>12. Trip(b, Misled(b)) /\ (Misled(b).state # "open" => b.invalid < InvalidThreshold)
  <2> DEFINE reached == b.invalid >= InvalidThreshold
  <2>1. Misled(b) = IF b.state # "open" /\ reached THEN [t EXCEPT !.invalid = 0] ELSE b
    BY DEF Misled, t
  <2>2. ~reached => b.invalid < InvalidThreshold
    BY <1>3
  <2> HIDE DEF reached
  <2>3. CASE b.state # "open" /\ reached
    BY <1>8, <2>1, <2>3 DEF Trip
  <2>4. CASE ~(b.state # "open" /\ reached)
    BY <2>1, <2>2, <2>4 DEF Trip
  <2> QED
    BY <2>3, <2>4
<1> QED
  BY <1>1, <1>2, <1>9, <1>10, <1>11, <1>12

(***************************************************************************)
(* system.js:113-143: what a tick does to the breaker.  It is left not     *)
(* open only with every list below its threshold; an open one is let go    *)
(* only after its recovery time; and one that trips starts its time anew.  *)
(***************************************************************************)
THEOREM TickLeavesHealthy ==
  ASSUME BreakerAssumption, NEW b \in Breakers, NEW breach \in BOOLEAN,
         NEW c, c = updateCB(b, breach)
  PROVE  /\ c \in Breakers
         /\ c.state # "open" => Healthy(c)
         /\ b.state = "open" /\ c.state # "open" => b.age > RecoveryTicks
         /\ c.state = "open" => c.age = 0 \/ (b.state = "open" /\ c.age = b.age)
<1> USE DEF BreakerAssumption
<1> DEFINE b0 == Recovered(b)
           b1 == Probed(b0)
           b2 == Breached(b1, breach)
           b3 == Slipped(b2)
           b4 == Rejected(b3)
           b5 == FilledPoorly(b4)
           b6 == Misled(b5)
<1>0. c = b6
  BY DEF updateCB
<1>1. /\ b0 \in Breakers
      /\ b.state # "open" => b0 = b
      /\ b.state = "open" /\ b0.state # "open" => b.age > RecoveryTicks
      /\ b0.state = "open" => b0 = b
  <2>1. CASE b.state = "open" /\ b.age > RecoveryTicks
    <3>1. b0 = [b EXCEPT !.state = "half_open", !.halfOpenFills = 0]
      BY <2>1 DEF Recovered
    <3>2. b0 \in Breakers /\ b0.state = "half_open"
      BY <3>1, Zeros DEF Breakers
    <3> QED
      BY <2>1, <3>2
  <2>2. CASE ~(b.state = "open" /\ b.age > RecoveryTicks)
    BY <2>2 DEF Recovered
  <2> QED
    BY <2>1, <2>2
<1> HIDE DEF b0
<1>2. b1 \in Breakers /\ (b0.state = "open" <=> b1.state = "open") /\ (b1.state = "open" => b1 = b0)
  <2>1. CASE Closes(b0)
    <3>1. b1 = [b0 EXCEPT !.state = "closed", !.halfOpenFills = 0]
      BY <2>1 DEF Probed
    <3>2. b1 \in Breakers /\ b1.state = "closed"
      BY <1>1, <3>1, Zeros DEF Breakers
    <3> QED
      BY <2>1, <3>2 DEF Closes
  <2>2. CASE ~Closes(b0)
    BY <1>1, <2>2 DEF Probed
  <2> QED
    BY <2>1, <2>2
<1> HIDE DEF b1
<1>3. Trip(b1, b2)
  BY <1>2, TripsOpen
<1> HIDE DEF b2
<1>4. b2 \in Breakers
  BY <1>3 DEF Trip
<1>5. Trip(b2, b3) /\ (b3.state # "open" => HighSlips(b2) < SlipThreshold)
  BY <1>4, TripsOpen
<1> HIDE DEF b3
<1>6. b3 \in Breakers
  BY <1>5 DEF Trip
<1>7. Trip(b3, b4) /\ (b4.state # "open" => b3.rejects < RejectThreshold)
  BY <1>6, TripsOpen
<1> HIDE DEF b4
<1>8. b4 \in Breakers
  BY <1>7 DEF Trip
<1>9. Trip(b4, b5) /\ (b5.state # "open" => b4.poor < PoorThreshold)
  BY <1>8, TripsOpen
<1> HIDE DEF b5
<1>10. b5 \in Breakers
  BY <1>9 DEF Trip
<1>11. Trip(b5, b6) /\ (b6.state # "open" => b5.invalid < InvalidThreshold)
  BY <1>10, TripsOpen
<1> HIDE DEF b6
<1>12. b6.state # "open" => b6 = b5 /\ b5 = b4 /\ b4 = b3 /\ b3 = b2 /\ b2 = b1 /\ b1.state # "open"
  BY <1>3, <1>5, <1>7, <1>9, <1>11 DEF Trip
<1>13. b6.state # "open" => Healthy(b6)
  BY <1>5, <1>7, <1>9, <1>11, <1>12 DEF Healthy
<1>14. b.state = "open" /\ b6.state # "open" => b.age > RecoveryTicks
  BY <1>1, <1>2, <1>12
<1>15. b6.state = "open" => b6.age = 0 \/ (b1.state = "open" /\ b6 = b1)
  BY <1>3, <1>5, <1>7, <1>9, <1>11 DEF Trip
<1>16. b1.state = "open" => b1 = b
  BY <1>1, <1>2
<1> QED
  BY <1>0, <1>11, <1>13, <1>14, <1>15, <1>16 DEF Trip

-----------------------------------------------------------------------------
(* The machine *)

(* The age of the last trip, which the clock moves on at the start of a    *)
(* tick, is not beyond the time that the breaker has been seen open.       *)
AgeKnown ==
  cb.state = "open" => cb.age <= openFor + (IF phase = "rest" THEN 0 ELSE 1)

BreakerInv == BreakerTypeOK /\ HealthyUnlessOpen /\ AgeKnown

(* What an order reports leaves the state and the age alone. *)
LEMMA ReportIsRecorded ==
  ASSUME BreakerAssumption, BreakerTypeOK, NEW o \in Orders, orders[o] # "gone",
         NEW r \in Results(o)
  PROVE  /\ Reported(o, r) \in Breakers
         /\ Reported(o, r).state = cb.state /\ Reported(o, r).age = cb.age
         /\ SlipOf(o, r) \in Slips \cup {"none"}
<1> USE DEF BreakerAssumption
<1> DEFINE b0 == IF r.dropped THEN recordSlipEvent(cb, "high") ELSE cb
           b1 == AfterSlips(cb, o, r)
           b2 == IF IsRejected(o, r) THEN recordReject(b1) ELSE b1
           b3 == IF r.poor THEN recordPoorFill(b2) ELSE b2
           b4 == AfterFills(b3, r)
           Same(b) == b \in Breakers /\ b.state = cb.state /\ b.age = cb.age
<1>1. /\ cb \in Breakers /\ orders[o] \in Slips \cup {"none"}
      /\ r.fills \in 0..MinProbeFills /\ r.slip \in Slips \cup {"none"}
      /\ (r.fills = 0) <=> (r.slip = "none")
  BY DEF BreakerTypeOK, Results
<1>2. SlipOf(o, r) \in Slips \cup {"none"}
  BY <1>1 DEF SlipOf
<1>3. \A b \in Breakers : Same(b) =>
        /\ Same(recordReject(b)) /\ Same(recordPoorFill(b))
        /\ \A slip \in Slips : Same(recordSlipEvent(b, slip))
  <2> TAKE b \in Breakers
  <2> HAVE Same(b)
  <2>1. /\ recordReject(b) \in Breakers /\ recordPoorFill(b) \in Breakers
        /\ \A slip \in Slips : recordSlipEvent(b, slip) \in Breakers
    BY RecordsKeepType
  <2>2. /\ recordReject(b).state = b.state /\ recordReject(b).age = b.age
        /\ recordPoorFill(b).state = b.state /\ recordPoorFill(b).age = b.age
    BY DEF recordReject, recordPoorFill, Breakers
  <2>3. \A slip \in Slips : /\ recordSlipEvent(b, slip).state = b.state
                            /\ recordSlipEvent(b, slip).age = b.age
    BY DEF recordSlipEvent, Breakers
  <2> QED
    BY <2>1, <2>2, <2>3
<1>4. Same(b0)
  BY <1>1, <1>3 DEF Slips
<1> HIDE DEF b0
<1>5. b1 = IF SlipOf(o, r) # "none" THEN recordSlipEvent(b0, SlipOf(o, r)) ELSE b0
  BY DEF AfterSlips, b0
<1>6. Same(b1)
  BY <1>2, <1>3, <1>4, <1>5
<1> HIDE DEF b1
<1>7. Same(b2)
  BY <1>3, <1>6
<1> HIDE DEF b2
<1>8. Same(b3)
  BY <1>3, <1>7
<1> HIDE DEF b3
<1>9. Same(b4)
  <2>1. CASE b3.state = "half_open"
    <3>1. Least(b3.halfOpenFills + r.fills, MinProbeFills) \in 0..MinProbeFills
      BY <1>1, <1>8 DEF Least, Breakers
    <3>2. b4 = [b3 EXCEPT !.halfOpenFills = Least(b3.halfOpenFills + r.fills, MinProbeFills)]
      BY <2>1 DEF AfterFills
    <3> QED
      BY <1>8, <3>1, <3>2 DEF Breakers
  <2>2. CASE b3.state # "half_open"
    BY <1>8, <2>2 DEF AfterFills
  <2> QED
    BY <2>1, <2>2
<1>10. Reported(o, r) = b4
  BY DEF Reported, b1, b2, b3
<1> QED
  BY <1>2, <1>9, <1>10

LEMMA NoSlips ==
  ASSUME NEW b, b.slips = <<>>
  PROVE  HighSlips(b) = 0
<1>1. DOMAIN b.slips = {}
  <2>1. Len(<<>>) = 0 /\ DOMAIN <<>> = 1..Len(<<>>)
    OBVIOUS
  <2> QED
    BY <2>1
<1>2. {i \in DOMAIN b.slips : b.slips[i] = "high"} = {}
  BY <1>1
<1> QED
  BY <1>2, FS_EmptySet DEF HighSlips

LEMMA BreakerStarts ==
  ASSUME BreakerAssumption, Init
  PROVE  BreakerInv
<1> USE DEF BreakerAssumption
<1>1. cb \in Breakers
  BY Zeros DEF Init, Breakers
<1>2. Healthy(cb)
  <2>1. HighSlips(cb) = 0
    BY NoSlips DEF Init
  <2> QED
    BY <2>1 DEF Init, Healthy
<1>3. BreakerTypeOK
  <2>1. running \in BOOLEAN
    BY Zenon DEF Init
  <2>2. orders \in [Orders -> Slips \cup {"none", "gone"}] /\ todo \subseteq Alive
    BY DEF Init
  <2>3. recs \in 0..MaxRecs /\ openFor \in 0..Later
    BY DEF Init, Later
  <2> QED
    BY <1>1, <2>1, <2>2, <2>3 DEF Init, BreakerTypeOK
<1> QED
  BY <1>2, <1>3 DEF BreakerInv, HealthyUnlessOpen, AgeKnown, Init

LEMMA BreakerKept ==
  ASSUME BreakerAssumption, BreakerInv, [Next]_vars
  PROVE  BreakerInv'
<1> USE DEF BreakerAssumption, BreakerInv
<1> cb \in Breakers /\ orders \in [Orders -> Slips \cup {"none", "gone"}]
  BY DEF BreakerTypeOK
<1>1. CASE BeginTick
  <2>1. PICK n \in 0..MaxInvalid :
          cb' = [cb EXCEPT !.age = Least(cb.age + 1, Later),
                           !.invalid = Least(cb.invalid + n, InvalidWindow)]
    BY <1>1 DEF BeginTick, Breakers
  <2>2. Least(cb.age + 1, Later) \in 0..Later /\ Least(cb.age + 1, Later) <= cb.age + 1
    BY DEF Breakers, Least, Later
  <2>3. Least(cb.invalid + n, InvalidWindow) \in 0..InvalidWindow
    BY DEF Breakers, Least
  <2>4. cb' \in Breakers /\ cb'.state = cb.state /\ cb'.age <= cb.age + 1
    BY <2>1, <2>2, <2>3 DEF Breakers
  <2>5. BreakerTypeOK'
    BY <1>1, <2>4 DEF BeginTick, BreakerTypeOK, Alive
  <2>6. AgeKnown'
    <3>1. openFor' = openFor /\ phase = "rest" /\ phase' = "existing"
      BY <1>1 DEF BeginTick
    <3>2. openFor \in Nat /\ cb.age \in Nat /\ cb'.age \in Nat
      BY <2>4, Fields DEF BreakerTypeOK
    <3>3. cb.state = "open" => cb.age <= openFor
      BY <3>1, <3>2 DEF AgeKnown
    <3> QED
      BY <2>4, <3>1, <3>2, <3>3 DEF AgeKnown
  <2> QED
    BY <1>1, <2>5, <2>6 DEF BeginTick, HealthyUnlessOpen
<1>2. CASE EndPass
  <2>1. BreakerTypeOK'
    BY <1>2 DEF EndPass, BreakerTypeOK, Alive
  <2> QED
    BY <1>2, <2>1 DEF EndPass, HealthyUnlessOpen, AgeKnown
<1>3. CASE Approve
  <2>1. cb' \in Breakers /\ cb'.state = cb.state /\ cb'.age = cb.age
    BY <1>3, RecordsKeepType DEF Approve, recordApproval, Breakers
  <2>2. BreakerTypeOK'
    <3>1. PICK o \in Orders \ Alive : orders' = [orders EXCEPT ![o] = "none"] /\ todo' = todo \cup {o}
      BY <1>3 DEF Approve
    <3>2. orders' \in [Orders -> Slips \cup {"none", "gone"}] /\ todo' \subseteq Alive'
      BY <3>1 DEF BreakerTypeOK, Alive
    <3> QED
      BY <1>3, <2>1, <3>2 DEF Approve, BreakerTypeOK
  <2> QED
    BY <1>3, <2>1, <2>2 DEF Approve, HealthyUnlessOpen, AgeKnown
<1>4. CASE Refuse
  <2>1. cb' \in Breakers /\ cb'.state = cb.state /\ cb'.age = cb.age
    BY <1>4, RecordsKeepType DEF Refuse, recordReject, Breakers
  <2>2. BreakerTypeOK'
    BY <1>4, <2>1 DEF Refuse, BreakerTypeOK, Alive
  <2> QED
    BY <1>4, <2>1, <2>2 DEF Refuse, HealthyUnlessOpen, AgeKnown
<1>5. CASE EndRecs
  <2>1. BreakerTypeOK'
    BY <1>5 DEF EndRecs, BreakerTypeOK, Alive
  <2> QED
    BY <1>5, <2>1 DEF EndRecs, HealthyUnlessOpen, AgeKnown
<1>6. CASE EndTick
  <2>1. PICK breach \in BOOLEAN :
          cb' = updateCB(cb, breach) /\ last' = IF breach THEN "bad" ELSE "other"
    BY <1>6 DEF EndTick
  <2>2. /\ cb' \in Breakers
        /\ cb'.state # "open" => Healthy(cb')
        /\ cb'.state = "open" => cb'.age = 0 \/ (cb.state = "open" /\ cb'.age = cb.age)
    <3>1. PICK c : c = updateCB(cb, breach)
      OBVIOUS
    <3>2. /\ c \in Breakers
          /\ c.state # "open" => Healthy(c)
          /\ c.state = "open" => c.age = 0 \/ (cb.state = "open" /\ c.age = cb.age)
      BY <3>1, TickLeavesHealthy
    <3> QED
      BY <2>1, <3>1, <3>2
  <2>3. openFor' \in 0..Later /\ phase' = "rest"
    BY <1>6 DEF EndTick, BreakerTypeOK, Least, Later
  <2>4. BreakerTypeOK'
    BY <1>6, <2>1, <2>2, <2>3 DEF EndTick, BreakerTypeOK, Alive
  <2>5. HealthyUnlessOpen'
    BY <2>2 DEF HealthyUnlessOpen, Healthy, HighSlips
  <2>6. AgeKnown'
    <3>1. cb.age \in 0..Later /\ cb'.age \in 0..Later /\ openFor \in 0..Later
      BY <2>2 DEF Breakers, BreakerTypeOK
    <3>2. phase = "new" /\ openFor' = IF cb'.state = "open" /\ cb.state = "open"
                                      THEN Least(openFor + 1, Later) ELSE 0
      BY <1>6 DEF EndTick
    <3>3. CASE cb.state = "open" /\ cb'.state = "open" /\ cb'.age = cb.age
      <4>1. cb.age <= openFor + 1
        BY <3>2, <3>3 DEF AgeKnown
      <4> QED
        BY <2>3, <3>1, <3>2, <3>3, <4>1 DEF AgeKnown, Least, Later
    <3>4. CASE cb'.state = "open" /\ cb'.age = 0
      <4>1. openFor' \in Nat /\ cb'.age = 0 /\ phase' = "rest"
        BY <2>3, <3>4
      <4>2. cb'.age <= openFor' + (IF phase' = "rest" THEN 0 ELSE 1)
        <5>1. (IF phase' = "rest" THEN 0 ELSE 1) = 0
          BY <4>1
        <5>2. 0 <= openFor' + 0
          <6>1. \A n \in Nat : 0 <= n + 0
            OBVIOUS
          <6> QED
            BY <4>1, <6>1
        <5> QED
          BY <4>1, <5>1, <5>2
      <4> QED
        BY <4>2 DEF AgeKnown
    <3> QED
      BY <2>2, <3>3, <3>4 DEF AgeKnown
  <2> QED
    BY <2>4, <2>5, <2>6
<1>7. ASSUME NEW o \in Orders, AdvanceOrder(o) PROVE BreakerInv'
  <2>1. PICK r \in Results(o) :
          /\ cb' = Reported(o, r)
          /\ \E left \in IF r.over THEN {"gone", "none"} ELSE {SlipOf(o, r)} :
               orders' = [orders EXCEPT ![o] = left]
          /\ last' = IF IsBad(o, r) THEN "bad" ELSE IF r.fills > 0 THEN "fill" ELSE "other"
    BY <1>7 DEF AdvanceOrder
  <2>2. orders[o] # "gone"
    BY <1>7 DEF AdvanceOrder, BreakerTypeOK, Alive
  <2>3. /\ cb' \in Breakers /\ cb'.state = cb.state /\ cb'.age = cb.age
        /\ SlipOf(o, r) \in Slips \cup {"none"}
    BY <2>1, <2>2, ReportIsRecorded
  <2>4. /\ orders' \in [Orders -> Slips \cup {"none", "gone"}]
        /\ \A q \in Orders \ {o} : orders'[q] = orders[q]
    BY <2>1, <2>3
  <2>5. todo' = todo \ {o} /\ todo' \subseteq Alive'
    BY <1>7, <2>4 DEF AdvanceOrder, BreakerTypeOK, Alive
  <2>6. BreakerTypeOK'
    BY <1>7, <2>1, <2>3, <2>4, <2>5 DEF AdvanceOrder, BreakerTypeOK
  <2> QED
    BY <1>7, <2>3, <2>6 DEF AdvanceOrder, HealthyUnlessOpen, AgeKnown
<1>8. CASE PressButton
  <2>1. cb.state # "open" \/ HighSlips(cb') = 0
    BY <1>8, NoSlips DEF PressButton, Breakers
  <2>2. cb' \in Breakers /\ cb'.state # "open"
    <3>1. CASE cb.state # "open"
      BY <1>8, <3>1 DEF PressButton
    <3>2. CASE cb.state = "open"
      BY <1>8, <3>2, Zeros DEF PressButton, Breakers
    <3> QED
      BY <3>1, <3>2
  <2>3. Healthy(cb')
    <3>1. CASE cb.state # "open"
      BY <1>8, <3>1 DEF PressButton, HealthyUnlessOpen
    <3>2. CASE cb.state = "open"
      BY <1>8, <2>1, <3>2 DEF PressButton, Healthy, Breakers
    <3> QED
      BY <3>1, <3>2
  <2>4. BreakerTypeOK'
    <3>1. running' \in BOOLEAN
      BY <1>8, Zenon DEF PressButton, BreakerTypeOK
    <3> QED
      BY <1>8, <2>2, <3>1 DEF PressButton, BreakerTypeOK, Alive, Later
  <2>5. HealthyUnlessOpen'
    BY <2>3 DEF HealthyUnlessOpen, Healthy, HighSlips
  <2> QED
    BY <2>2, <2>4, <2>5 DEF AgeKnown
<1>9. CASE UNCHANGED vars
  <2>1. BreakerTypeOK'
    BY <1>9 DEF vars, BreakerTypeOK, Alive
  <2> QED
    BY <1>9, <2>1 DEF vars, HealthyUnlessOpen, Healthy, HighSlips, AgeKnown
<1> QED
  BY <1>1, <1>2, <1>3, <1>4, <1>5, <1>6, <1>7, <1>8, <1>9 DEF Next, TickStep

(* The inductive invariant: types, healthy lists, and the age of a trip.   *)
THEOREM BreakerInvariant == ASSUME BreakerAssumption PROVE Spec => []BreakerInv
<1>1. Init => BreakerInv
  BY BreakerStarts
<1>2. BreakerInv /\ [Next]_vars => BreakerInv'
  BY BreakerKept
<1> QED
  BY <1>1, <1>2, PTL DEF Spec

(* The breaker, its lists and the orders stay in their types and windows. *)
THEOREM BreakerTypeCorrect == ASSUME BreakerAssumption PROVE Spec => []BreakerTypeOK
BY BreakerInvariant, PTL DEF BreakerInv

(* system.js:112-141: no tick ends with orders let through and a threshold *)
(* reached, whatever the thresholds and windows.                           *)
THEOREM EndsHealthy == ASSUME BreakerAssumption PROVE Spec => []HealthyUnlessOpen
BY BreakerInvariant, PTL DEF BreakerInv

(* system.js:103-126: for any recovery time, an open breaker lasts it out  *)
(* from its last trip on.                                                  *)
THEOREM PauseIsKept == ASSUME BreakerAssumption PROVE Spec => PauseLasts
<1> USE DEF BreakerAssumption
<1>1. BreakerInv /\ [Next]_vars
        => [cb.state = "open" /\ cb'.state # "open" /\ last' # "button"
              => openFor >= RecoveryTicks]_vars
  <2> SUFFICES ASSUME BreakerInv, [Next]_vars,
                      cb.state = "open", cb'.state # "open", last' # "button"
               PROVE  openFor >= RecoveryTicks
    OBVIOUS
  <2> USE DEF BreakerInv
  <2>0. cb \in Breakers /\ openFor \in 0..Later
    BY DEF BreakerTypeOK
  <2>1. CASE EndTick
    <3>1. PICK breach \in BOOLEAN : cb' = updateCB(cb, breach)
      BY <2>1 DEF EndTick
    <3>2. PICK c : c = updateCB(cb, breach)
      OBVIOUS
    <3>3. cb.state = "open" /\ c.state # "open" => cb.age > RecoveryTicks
      BY <2>0, <3>2, TickLeavesHealthy
    <3>4. cb.age > RecoveryTicks /\ cb.age \in Nat
      BY <2>0, <3>1, <3>2, <3>3 DEF Breakers
    <3>5. cb.age <= openFor + 1
      BY <2>1 DEF EndTick, AgeKnown
    <3> QED
      BY <2>0, <3>4, <3>5
  <2>2. ASSUME NEW o \in Orders, AdvanceOrder(o) PROVE FALSE
    <3>1. PICK r \in Results(o) : cb' = Reported(o, r)
      BY <2>2 DEF AdvanceOrder
    <3>2. orders[o] # "gone"
      BY <2>2 DEF AdvanceOrder, BreakerTypeOK, Alive
    <3> QED
      BY <3>1, <3>2, ReportIsRecorded
  <2>3. CASE BeginTick
    BY <2>0, <2>3 DEF BeginTick, Breakers
  <2>4. CASE EndPass \/ EndRecs \/ UNCHANGED vars
    BY <2>4 DEF EndPass, EndRecs, vars
  <2>5. CASE Approve
    BY <2>0, <2>5 DEF Approve, recordApproval, Breakers
  <2>6. CASE Refuse
    BY <2>0, <2>6 DEF Refuse, recordReject, Breakers
  <2>7. CASE PressButton
    BY <2>7 DEF PressButton
  <2> QED
    BY <2>1, <2>2, <2>3, <2>4, <2>5, <2>6, <2>7 DEF Next, TickStep
<1> QED
  BY <1>1, BreakerInvariant, PTL DEF Spec, PauseLasts

(* alpha.js:316-355 and risk.js:54-113: sizing and check agree, for any    *)
(* limits, sizes, prices and books.                                        *)
THEOREM SizingAndCheckAgree ==
  ASSUME PreTradeAssumption, BreakerAssumption PROVE Spec => []SizingAgrees
<1>1. SizingAgrees
  <2> SUFFICES ASSUME NEW ask \in [want : Wants, price : Asked, book : Seen],
                      ask.book.scale = 100, ask.book.grossNow <= ask.book.gross
               PROVE  Verdict(ask).sz = SizeOf(ask)
    BY DEF SizingAgrees
  <2>1. ask.want \in Nat /\ ask.price \in Prices /\ ask.book \in Books
    BY DEF BreakerAssumption
  <2>2. PICK size : size = Sized(cb.state, ask.want, ask.price, ask.book)
    OBVIOUS
  <2>3. preTradeRisk(cb.state, [sz |-> size, price |-> ask.price], ask.book).sz = size
    BY <2>1, <2>2, CheckKeepsSize
  <2> QED
    BY <2>2, <2>3 DEF Verdict, SizeOf
<1> QED
  BY <1>1, PTL

=============================================================================
