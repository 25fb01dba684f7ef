--------------------------- MODULE BacktestProofs ---------------------------
(***************************************************************************)
(* The replay of a recording, for any tokens, books, sizes and options:    *)
(* a fill takes no more than was asked for and keeps its slippage limit,   *)
(* marks belong to the position that is held, no position that is to be    *)
(* closed is passed over, and the accounts add up.                         *)
(***************************************************************************)
EXTENDS Backtest, FiniteSetTheorems, WellFoundedInduction, TLAPS

-----------------------------------------------------------------------------
(* Induction.  The provers cannot instantiate the library's principle,     *)
(* which is about an operator; this one is about a set.                    *)

(* A set that has 0 and each of its numbers' successors has every natural. *)
LEMMA SetInduction ==
  ASSUME NEW T, 0 \in T, \A n \in Nat : n \in T => n + 1 \in T
  PROVE  Nat \subseteq T
<1> DEFINE Before == {ss \in Nat \X Nat : ss[1] < ss[2]}
           Out == Nat \ T
<1>1. SUFFICES ASSUME Out # {} PROVE FALSE
  OBVIOUS
<1>2. PICK n \in Out : \A m \in Out : <<m, n>> \notin Before
  <2>1. IsWellFoundedOn(Before, Nat)
    BY NatLessThanWellFounded DEF OpToRel
  <2>2. Out \subseteq Nat
    OBVIOUS
  <2> HIDE DEF Out, Before
  <2> QED BY <1>1, <2>1, <2>2, WFMin
<1>3. n # 0 /\ n \in Nat
  BY <1>2
<1>4. n - 1 \in Nat /\ n - 1 \notin T /\ (n - 1) + 1 = n
  BY <1>2, <1>3
<1>5. <<n - 1, n>> \in Before
  BY <1>3, <1>4
<1> QED BY <1>2, <1>4, <1>5

-----------------------------------------------------------------------------
(* The walk over a side of the book *)

Level == [price : Nat, size : Nat]

(* What a walk for size may have come to. *)
Walks(book, side, cap, size) ==
  {walk \in [left : Nat, cost : Nat, size : Nat, over : BOOLEAN] :
     /\ walk.left + walk.size = size
     /\ ~TooFar(book, side, walk.cost, walk.size, cap)}

NewWalk(size) == [left |-> size, cost |-> 0, size |-> 0, over |-> FALSE]

(* A walk that has not begun costs nothing. *)
LEMMA NewWalks ==
  ASSUME NEW book, book.mid \in Nat, NEW side, NEW cap \in Nat, NEW size \in Nat
  PROVE  NewWalk(size) \in Walks(book, side, cap, size)
<1>1. book.mid * 0 = 0 /\ cap * book.mid * 0 = 0
  OBVIOUS
<1> QED BY <1>1 DEF NewWalk, Walks, TooFar

(* A level leaves a walk within its limits, whatever it offers. *)
LEMMA LevelTaken ==
  ASSUME NEW book, NEW side, NEW cap \in Nat, NEW size \in Nat,
         NEW walk \in Walks(book, side, cap, size), NEW level \in Level
  PROVE  TakeLevel(book, side, cap, walk, level) \in Walks(book, side, cap, size)
<1> DEFINE take == Least(walk.left, level.size)
           cost == walk.cost + take * level.price
<1>0. walk.left \in Nat /\ walk.size \in Nat /\ walk.cost \in Nat /\ walk.left + walk.size = size
  BY DEF Walks
<1>1. take \in Nat /\ take <= walk.left
  BY <1>0 DEF Least, Level
<1>2. cost \in Nat
  <2> HIDE DEF take
  <2>1. take * level.price \in Nat
    BY <1>1 DEF Level
  <2> QED BY <1>0, <2>1
<1>3. walk.left - take \in Nat /\ walk.size + take \in Nat
        /\ (walk.left - take) + (walk.size + take) = size
  <2> HIDE DEF take
  <2> QED BY <1>0, <1>1
<1> HIDE DEF take, cost
<1> QED BY <1>0, <1>1, <1>2, <1>3 DEF TakeLevel, Walks, take, cost

(* The function by which FoldLeft walks over the first n levels. *)
Walk(iter, book, side, cap, size, levels, n) ==
  iter = [s \in SUBSET (1..n) |->
            IF s = {} THEN NewWalk(size)
            ELSE TakeLevel(book, side, cap, iter[s \ {Max(s)}], levels[Max(s)])]

LEMMA LastIsMax ==
  ASSUME NEW n \in Nat, NEW s \in SUBSET (1..n+1), n + 1 \in s
  PROVE  Max(s) = n + 1
<1>1. n + 1 \in s /\ \A m \in s : n + 1 >= m
  OBVIOUS
<1>2. \A x \in s : (\A m \in s : x >= m) => x = n + 1
  BY <1>1
<1> QED BY <1>1, <1>2 DEF Max

(* There is such a function: one for n levels gives one for n + 1. *)
LEMMA WalkExists ==
  ASSUME NEW book, NEW side, NEW cap, NEW size, NEW levels, NEW n \in Nat
  PROVE  \E iter : Walk(iter, book, side, cap, size, levels, n)
<1> DEFINE T == {m \in Nat : \E iter : Walk(iter, book, side, cap, size, levels, m)}
<1>1. 0 \in T
  <2> DEFINE none == [s \in SUBSET (1..0) |-> NewWalk(size)]
  <2>1. Walk(none, book, side, cap, size, levels, 0)
    BY DEF Walk
  <2> QED BY <2>1
<1>2. ASSUME NEW m \in Nat, m \in T PROVE m + 1 \in T
  <2>1. PICK iter : Walk(iter, book, side, cap, size, levels, m)
    BY <1>2
  <2> DEFINE more == [s \in SUBSET (1..m+1) |->
                        IF m + 1 \in s
                        THEN TakeLevel(book, side, cap, iter[s \ {m + 1}], levels[m + 1])
                        ELSE iter[s]]
  <2>2. ASSUME NEW s \in SUBSET (1..m+1)
        PROVE  more[s] = IF s = {} THEN NewWalk(size)
                         ELSE TakeLevel(book, side, cap, more[s \ {Max(s)}], levels[Max(s)])
    <3>1. CASE m + 1 \in s
      <4>1. Max(s) = m + 1
        BY <3>1, LastIsMax
      <4>2. s \ {m + 1} \in SUBSET (1..m+1) /\ m + 1 \notin s \ {m + 1}
        OBVIOUS
      <4>3. more[s \ {m + 1}] = iter[s \ {m + 1}]
        BY <4>2
      <4> QED BY <3>1, <4>1, <4>3
    <3>2. CASE m + 1 \notin s
      <4>1. s \in SUBSET (1..m) /\ more[s] = iter[s]
        BY <3>2
      <4>2. iter[s] = IF s = {} THEN NewWalk(size)
                      ELSE TakeLevel(book, side, cap, iter[s \ {Max(s)}], levels[Max(s)])
        BY <2>1, <4>1 DEF Walk
      <4>3. more[s \ {Max(s)}] = iter[s \ {Max(s)}]
        BY <4>1, <3>2
      <4> QED BY <4>1, <4>2, <4>3
    <3> QED BY <3>1, <3>2
  <2>3. Walk(more, book, side, cap, size, levels, m + 1)
    BY <2>2 DEF Walk
  <2> HIDE DEF more
  <2> QED BY <2>3
<1> HIDE DEF T
<1>3. n \in T
  BY <1>1, <1>2, SetInduction
<1> QED BY <1>3 DEF T

(* And each walk that it gives is within its limits. *)
LEMMA WalkStays ==
  ASSUME NEW book, book.mid \in Nat, NEW side, NEW cap \in Nat, NEW size \in Nat,
         NEW n \in Nat, NEW levels \in [1..n -> Level],
         NEW iter, Walk(iter, book, side, cap, size, levels, n)
  PROVE  \A s \in SUBSET (1..n) : iter[s] \in Walks(book, side, cap, size)
<1> DEFINE Good == Walks(book, side, cap, size)
           T == {m \in Nat : m <= n => \A s \in SUBSET (1..m) : iter[s] \in Good}
<1>1. 0 \in T
  <2>1. {} \in SUBSET (1..n) /\ \A s \in SUBSET (1..0) : s = {}
    OBVIOUS
  <2>2. iter[{}] = NewWalk(size)
    BY <2>1 DEF Walk
  <2>3. NewWalk(size) \in Good
    BY NewWalks
  <2> QED BY <2>1, <2>2, <2>3
<1>2. ASSUME NEW m \in Nat, m \in T PROVE m + 1 \in T
  <2> SUFFICES ASSUME m + 1 <= n, NEW s \in SUBSET (1..m+1) PROVE iter[s] \in Good
    OBVIOUS
  <2>1. CASE m + 1 \in s
    <3>1. Max(s) = m + 1
      BY <2>1, LastIsMax
    <3>2. s \in SUBSET (1..n) /\ s # {} /\ levels[m + 1] \in Level
      BY <2>1
    <3>3. iter[s] = TakeLevel(book, side, cap, iter[s \ {m + 1}], levels[m + 1])
      BY <3>1, <3>2 DEF Walk
    <3>4. iter[s \ {m + 1}] \in Good
      <4>1. s \ {m + 1} \in SUBSET (1..m)
        OBVIOUS
      <4> QED BY <4>1, <1>2
    <3> QED BY <3>2, <3>3, <3>4, LevelTaken
  <2>2. CASE m + 1 \notin s
    BY <2>2, <1>2
  <2> QED BY <2>1, <2>2
<1> HIDE DEF T
<1>3. n \in T
  BY <1>1, <1>2, SetInduction
<1> QED BY <1>3 DEF T

Fills(size) == [size : 0..size, notional : Nat, fee : Nat]

(***************************************************************************)
(* A simulated fill takes no more than was asked for, and its average      *)
(* price is no farther from the mid than the limit allows, whatever the    *)
(* levels of the book are (fillModel.js:41-110).                           *)
(***************************************************************************)
THEOREM FillKeepsLimits ==
  ASSUME NEW book \in Books, NEW side \in Sides, NEW size \in Nat, NEW cap \in Nat
  PROVE  LET fill == simulateFill(book, side, size, cap) IN
         fill \in Fills(size) /\ ~TooFar(book, side, fill.notional, fill.size, cap)
<1> DEFINE levels == Levels(book, side)
           n == Len(levels)
           iter == CHOOSE f : Walk(f, book, side, cap, size, levels, n)
           walk == iter[1..n]
<1>1. levels \in Seq(Level)
  BY BacktestAssumption DEF Levels, Sides, Level
<1>2. n \in Nat /\ levels \in [1..n -> Level] /\ DOMAIN levels = 1..n
  BY <1>1
<1>3. Walk(iter, book, side, cap, size, levels, n)
  BY <1>2, WalkExists
<1>4. walk \in Walks(book, side, cap, size)
  <2> HIDE DEF iter, levels, n
  <2>1. book.mid \in Nat
    BY BacktestAssumption
  <2> QED BY <1>2, <1>3, <2>1, WalkStays
<1>5. simulateFill(book, side, size, cap)
        = [size |-> walk.size, notional |-> walk.cost, fee |-> (walk.cost * FeeBps) \div 10000]
  BY <1>2 DEF simulateFill, FoldLeft, MapThenFoldSet, Walk, NewWalk
<1> HIDE DEF walk
<1>6. walk.cost \in Nat /\ walk.size \in 0..size
  BY <1>4 DEF Walks
<1>7. (walk.cost * FeeBps) \div 10000 \in Nat
  <2>1. walk.cost * FeeBps \in Nat
    BY <1>6, BacktestAssumption
  <2> QED BY <2>1
<1> QED BY <1>4, <1>5, <1>6, <1>7 DEF Walks, Fills



-----------------------------------------------------------------------------
(* The inductive invariant *)

(* A position was opened before now. *)
OpenedBefore == \A token \in Tokens : openedAt[token] # None => openedAt[token] <= t

(* What the sweep at the end has looked at is sold, or cannot be. *)
SweepKnown ==
  phase = "flatten" => \A token \in Tokens \ todo :
    qty[token] > 0 /\ latest[token] # None /\ token \notin sold => Closing(token).size = 0

BacktestInv ==
  BacktestTypeOK /\ MarksBelong /\ OpenedBefore /\ SweepKnown /\ ExitsAreTried

(* No number and no failure is None. *)
LEMMA NoneIsNone ==
  None \notin Int /\ None \notin Times /\ None \notin Failures
<1>1. Times \subseteq Nat /\ Times \subseteq Int
  BY BacktestAssumption DEF Times
<1>2. Failures \subseteq [bid : Int, t : Nat]
  BY <1>1 DEF Failures
<1>3. None \notin Int /\ None \notin [bid : Int, t : Nat]
  BY BacktestAssumption
<1>4. None \notin Times
  BY <1>1, <1>3, Zenon
<1>5. None \notin Failures
  BY <1>2, <1>3, Zenon
<1> QED BY <1>3, <1>4, <1>5

(* What the fill model gives the runner. *)
LEMMA EntryFills ==
  ASSUME BacktestTypeOK, NEW token \in Tokens, NEW side \in Sides, NEW want \in Wants
  PROVE  Fill(token, side, want) \in Fills(want)
<1>1. want \in Nat /\ EntrySlippageBps \in Nat
  BY BacktestAssumption
<1>2. CASE latest[token] = None \/ CoolingDown(token, side)
  BY <1>1, <1>2 DEF Fill, Fills
<1>3. CASE ~(latest[token] = None \/ CoolingDown(token, side))
  <2>1. latest[token] \in Books
    BY <1>3 DEF BacktestTypeOK
  <2> QED BY <1>1, <1>3, <2>1, FillKeepsLimits DEF Fill
<1> QED BY <1>2, <1>3

LEMMA ExitFills ==
  ASSUME BacktestTypeOK, NEW token \in Tokens, latest[token] # None
  PROVE  Closing(token) \in Fills(qty[token])
<1>1. latest[token] \in Books /\ qty[token] \in Nat
  BY DEF BacktestTypeOK
<1> QED BY <1>1, FillKeepsLimits, BacktestAssumption DEF Closing, Sides

-----------------------------------------------------------------------------
(* The portfolio *)

BooksTyped ==
  /\ qty \in [Tokens -> Nat] /\ avg \in [Tokens -> Nat]
  /\ cash \in Int /\ realizedPnl \in Int /\ feesPaid \in Nat

OthersStay(token) == \A other \in Tokens \ {token} : qty'[other] = qty[other]

(* A sale leaves less of the token, never less than nothing. *)
LEMMA SellKeeps ==
  ASSUME BooksTyped, NEW token \in Tokens, qty[token] > 0,
         NEW size, NEW fill \in Fills(size), fill.size > 0, size \in Nat, Sell(token, fill)
  PROVE  BooksTyped' /\ OthersStay(token) /\ qty'[token] < qty[token]
<1>1. fill.size \in Nat \ {0} /\ fill.notional \in Nat /\ fill.fee \in Nat
  BY DEF Fills
<1>2. Sold(token, fill) \in 1..qty[token]
  BY <1>1 DEF Sold, Least, BooksTyped
<1>3. fill.notional \div fill.size \in Nat
  BY <1>1
<1>4. /\ Sold(token, fill) * (fill.notional \div fill.size) \in Int
      /\ Profit(token, fill) \in Int
  <2>1. fill.notional \div fill.size - avg[token] \in Int
    BY <1>3 DEF BooksTyped
  <2>2. \A a \in Int, b \in Int : a * b \in Int
    OBVIOUS
  <2> QED BY <1>2, <1>3, <2>1, <2>2 DEF Profit
<1>5. qty[token] - Sold(token, fill) \in Nat /\ qty[token] - Sold(token, fill) < qty[token]
  BY <1>2 DEF BooksTyped
<1>6. qty' \in [Tokens -> Nat] /\ OthersStay(token) /\ qty'[token] < qty[token]
  BY <1>5 DEF Sell, BooksTyped, OthersStay
<1>7. avg' \in [Tokens -> Nat]
  BY DEF Sell, BooksTyped
<1>8. cash' \in Int /\ feesPaid' \in Nat /\ realizedPnl' \in Int
  BY <1>1, <1>4 DEF Sell, Charge, BooksTyped
<1> QED BY <1>6, <1>7, <1>8 DEF BooksTyped

(* A purchase leaves more. *)
LEMMA BuyKeeps ==
  ASSUME BooksTyped, NEW token \in Tokens,
         NEW size, NEW fill \in Fills(size), fill.size > 0, size \in Nat, Buy(token, fill)
  PROVE  BooksTyped' /\ OthersStay(token) /\ qty'[token] > qty[token]
<1>1. fill.size \in Nat \ {0} /\ fill.notional \in Nat /\ fill.fee \in Nat
  BY DEF Fills
<1>2. qty[token] + fill.size \in Nat \ {0} /\ qty[token] + fill.size > qty[token]
  BY <1>1 DEF BooksTyped
<1>3. (qty[token] * avg[token] + fill.notional) \div (qty[token] + fill.size) \in Nat
  <2>1. qty[token] * avg[token] + fill.notional \in Nat
    BY <1>1 DEF BooksTyped
  <2> QED BY <1>2, <2>1
<1>4. qty' \in [Tokens -> Nat] /\ OthersStay(token) /\ qty'[token] > qty[token]
  BY <1>2 DEF Buy, BooksTyped, OthersStay
<1>5. avg' \in [Tokens -> Nat]
  BY <1>3 DEF Buy, BooksTyped
<1>6. cash' \in Int /\ feesPaid' \in Nat /\ realizedPnl' \in Int
  BY <1>1 DEF Buy, Charge, BooksTyped
<1> QED BY <1>4, <1>5, <1>6 DEF BooksTyped

-----------------------------------------------------------------------------
(* The marks of a position *)

MarksTyped ==
  /\ openedAt \in [Tokens -> Times \cup {None}]
  /\ exitFailedAt \in [Tokens -> Failures \cup {None}]

MarksOf(token) ==
  /\ openedAt[token] # None <=> qty[token] > 0
  /\ exitFailedAt[token] # None => qty[token] > 0 /\ exitFailedAt[token].t >= openedAt[token]
  /\ openedAt[token] # None => openedAt[token] <= t

MarksStay(token) ==
  \A other \in Tokens \ {token} :
    openedAt'[other] = openedAt[other] /\ exitFailedAt'[other] = exitFailedAt[other]

LEMMA MarksAre ==
  /\ MarksBelong /\ OpenedBefore <=> \A token \in Tokens : MarksOf(token)
  /\ (MarksBelong /\ OpenedBefore)' <=> \A token \in Tokens : MarksOf(token)'
  BY DEF MarksBelong, OpenedBefore, MarksOf

(* The marks of the other positions stay as they were. *)
LEMMA OneMarkChanges ==
  ASSUME MarksBelong, OpenedBefore, NEW token \in Tokens, t' = t,
         OthersStay(token), MarksStay(token), MarksOf(token)'
  PROVE  MarksBelong' /\ OpenedBefore'
<1>1. ASSUME NEW other \in Tokens \ {token} PROVE MarksOf(other)'
  BY MarksAre, <1>1 DEF OthersStay, MarksStay, MarksOf
<1> QED BY <1>1, MarksAre

(* What _closePosition leaves, whether it sells, fails or does nothing. *)
LEMMA ClosePositionKeeps ==
  ASSUME BacktestTypeOK, MarksBelong, OpenedBefore, NEW token \in Tokens, NEW guarded,
         ClosePosition(token, guarded), t' = t
  PROVE  /\ BooksTyped' /\ MarksTyped' /\ MarksBelong' /\ OpenedBefore'
         /\ OthersStay(token) /\ MarksStay(token)
         /\ \/ qty'[token] < qty[token]
            \/ /\ UNCHANGED <<books, marks>>
               /\ latest[token] = None \/ qty[token] = 0 \/ guarded
            \/ /\ UNCHANGED books /\ Closing(token).size = 0
               /\ exitFailedAt'[token] # None /\ exitFailedAt'[token].t = t
<1>0. BooksTyped /\ MarksTyped /\ t \in Times /\ MarksOf(token)
  BY MarksAre DEF BacktestTypeOK, BooksTyped, MarksTyped
<1>1. CASE UNCHANGED <<books, marks>> /\ (latest[token] = None \/ qty[token] = 0 \/ guarded)
  <2>1. BooksTyped' /\ MarksTyped' /\ OthersStay(token) /\ MarksStay(token) /\ MarksOf(token)'
    BY <1>0, <1>1 DEF BooksTyped, MarksTyped, OthersStay, MarksStay, MarksOf, books, marks
  <2> QED BY <1>1, <2>1, OneMarkChanges
<1>2. CASE /\ latest[token] # None /\ qty[token] > 0 /\ Closing(token).size = 0
           /\ exitFailedAt' = [exitFailedAt EXCEPT ![token] = [bid |-> BestBid(latest[token]), t |-> t]]
           /\ UNCHANGED <<books, openedAt>>
  <2> DEFINE failure == [bid |-> BestBid(latest[token]), t |-> t]
  <2>1. latest[token] \in Books
    BY <1>2 DEF BacktestTypeOK
  <2>2. BestBid(latest[token]) \in Int
    <3> DEFINE bids == latest[token].bids
    <3>1. bids \in Seq(Level)
      BY <2>1, BacktestAssumption DEF Level
    <3> HIDE DEF bids
    <3>2. bids # <<>> => bids[1] \in Level
      BY <3>1
    <3> QED BY <3>2 DEF BestBid, Level, bids
  <2>3. failure \in Failures /\ failure.t = t
    BY <2>2, <1>0 DEF Failures
  <2>4. failure # None
    BY <2>3, NoneIsNone
  <2> HIDE DEF failure
  <2>5. /\ exitFailedAt'[token] = failure /\ MarksTyped' /\ MarksStay(token)
    BY <1>0, <1>2, <2>3 DEF MarksTyped, MarksStay, failure
  <2>6. BooksTyped' /\ OthersStay(token)
    BY <1>0, <1>2 DEF BooksTyped, OthersStay, books
  <2>7. MarksOf(token)'
    BY <1>0, <1>2, <2>3, <2>5 DEF MarksOf, books
  <2> QED BY <1>2, <2>3, <2>4, <2>5, <2>6, <2>7, OneMarkChanges
<1>3. CASE /\ latest[token] # None /\ qty[token] > 0 /\ Closing(token).size > 0
           /\ Sell(token, Closing(token))
           /\ exitFailedAt' = [exitFailedAt EXCEPT ![token] = None]
           /\ Forget(token)
  <2>1. BooksTyped' /\ OthersStay(token) /\ qty'[token] < qty[token]
    BY <1>0, <1>3, ExitFills, SellKeeps DEF BooksTyped
  <2>2. MarksTyped' /\ MarksStay(token)
    BY <1>0, <1>3 DEF Forget, MarksTyped, MarksStay
  <2>3. MarksOf(token)'
    <3>1. exitFailedAt'[token] = None /\ qty'[token] \in Nat
      BY <1>0, <1>3, <2>1 DEF MarksTyped, BooksTyped
    <3>2. openedAt'[token] = IF qty'[token] = 0 THEN None ELSE openedAt[token]
      BY <1>0, <1>3 DEF Forget, MarksTyped
    <3> QED BY <1>0, <1>3, <3>1, <3>2 DEF MarksOf
  <2> QED BY <2>1, <2>2, <2>3, OneMarkChanges
<1> QED BY <1>1, <1>2, <1>3 DEF ClosePosition

-----------------------------------------------------------------------------
(* The steps *)

(* The invariant, as the lemmas of the steps use it. *)
LEMMA InvIs ==
  /\ BacktestTypeOK <=>
       /\ BooksTyped /\ MarksTyped
       /\ latest \in [Tokens -> Books \cup {None}]
       /\ lastFillAt \in [Tokens \X Sides -> Times \cup {None}]
       /\ t \in Times
       /\ phase \in {"events", "hold", "recs", "flatten", "done"}
       /\ todo \subseteq Tokens /\ due \subseteq Tokens /\ sold \subseteq Tokens
  /\ BacktestTypeOK' <=>
       /\ BooksTyped' /\ MarksTyped'
       /\ latest' \in [Tokens -> Books \cup {None}]
       /\ lastFillAt' \in [Tokens \X Sides -> Times \cup {None}]
       /\ t' \in Times
       /\ phase' \in {"events", "hold", "recs", "flatten", "done"}
       /\ todo' \subseteq Tokens /\ due' \subseteq Tokens /\ sold' \subseteq Tokens
  BY DEF BacktestTypeOK, BooksTyped, MarksTyped

(* Steps that leave the portfolio and the marks alone keep what is known of them. *)
LEMMA PortfolioStays ==
  ASSUME BacktestInv, UNCHANGED <<books, marks>>, t' \in Times, t' >= t
  PROVE  BooksTyped' /\ MarksTyped' /\ MarksBelong' /\ OpenedBefore'
<1>1. BooksTyped /\ MarksTyped /\ t \in Times
  BY DEF BacktestInv, BacktestTypeOK, BooksTyped, MarksTyped
<1>2. BooksTyped' /\ MarksTyped' /\ MarksBelong'
  BY <1>1 DEF BacktestInv, BooksTyped, MarksTyped, MarksBelong, books, marks
<1>3. ASSUME NEW token \in Tokens, openedAt'[token] # None PROVE openedAt'[token] <= t'
  <2>1. openedAt[token] # None /\ openedAt[token] \in Times /\ openedAt[token] <= t
    BY <1>1, <1>3 DEF BacktestInv, OpenedBefore, MarksTyped, marks
  <2>2. openedAt[token] \in Nat /\ t \in Nat /\ t' \in Nat
    BY <1>1, <2>1, BacktestAssumption DEF Times
  <2> QED BY <2>1, <2>2 DEF marks
<1> QED BY <1>2, <1>3 DEF OpenedBefore

LEMMA BacktestInit == Init => BacktestInv
<1> SUFFICES ASSUME Init PROVE BacktestInv
  OBVIOUS
<1>1. 0 \in Times /\ InitialEquity \in Int
  BY BacktestAssumption DEF Times
<1>2. BacktestTypeOK
  BY <1>1 DEF Init, BacktestTypeOK
<1> QED BY <1>2 DEF BacktestInv, Init, MarksBelong, OpenedBefore, SweepKnown, ExitsAreTried

(* A book arrives between the ticks. *)
LEMMA BookEventKeeps ==
  ASSUME BacktestInv, NEW token \in Tokens, BookEvent(token) PROVE BacktestInv'
<1>1. BooksTyped' /\ MarksTyped' /\ MarksBelong' /\ OpenedBefore'
  BY PortfolioStays DEF BookEvent, BacktestInv, BacktestTypeOK, Times
<1>2. latest' \in [Tokens -> Books \cup {None}]
  BY DEF BookEvent, BacktestInv, BacktestTypeOK
<1>3. BacktestTypeOK'
  BY <1>1, <1>2, InvIs DEF BookEvent, BacktestInv
<1> QED BY <1>1, <1>3 DEF BookEvent, BacktestInv, SweepKnown, ExitsAreTried

(* The clock goes on: every position that is due is still to be tried. *)
LEMMA TickEventKeeps ==
  ASSUME BacktestInv, TickEvent PROVE BacktestInv'
<1>1. t' \in Times /\ t' >= t
  BY BacktestAssumption DEF TickEvent, BacktestInv, BacktestTypeOK, Times
<1>2. BooksTyped' /\ MarksTyped' /\ MarksBelong' /\ OpenedBefore'
  BY <1>1, PortfolioStays DEF TickEvent
<1>3. BacktestTypeOK'
  BY <1>1, <1>2, InvIs DEF TickEvent, BacktestInv
<1> QED BY <1>2, <1>3 DEF TickEvent, BacktestInv, SweepKnown, ExitsAreTried

(* The recommendations of a tick begin and end, the recording ends, the sweep ends. *)
LEMMA PhaseKeeps ==
  ASSUME BacktestInv, Decide \/ EndTick \/ EndOfRecording \/ Finish PROVE BacktestInv'
<1>0. UNCHANGED <<books, marks>> /\ t' = t
  BY DEF Decide, EndTick, EndOfRecording, Finish
<1>1. BooksTyped' /\ MarksTyped' /\ MarksBelong' /\ OpenedBefore'
  BY <1>0, PortfolioStays DEF BacktestInv, BacktestTypeOK, Times
<1>2. BacktestTypeOK'
  BY <1>1, InvIs DEF Decide, EndTick, EndOfRecording, Finish, BacktestInv, Held
<1>3. CASE Decide \/ EndTick
  BY <1>1, <1>2, <1>3 DEF Decide, EndTick, BacktestInv, SweepKnown, ExitsAreTried
<1>4. CASE EndOfRecording
  <2>1. \A token \in Tokens \ todo' : ~(qty'[token] > 0)
    BY <1>4 DEF EndOfRecording, Held, books
  <2> QED BY <1>1, <1>2, <1>4, <2>1 DEF EndOfRecording, BacktestInv, SweepKnown, ExitsAreTried
<1>5. CASE Finish
  <2>1. \A token \in Tokens : qty'[token] = qty[token] /\ latest'[token] = latest[token]
                               /\ Closing(token)' = Closing(token)
    BY <1>5 DEF Finish, Closing, books
  <2>2. ExitsAreTried' /\ SweepKnown'
    BY <1>5, <2>1 DEF Finish, BacktestInv, SweepKnown, ExitsAreTried
  <2> QED BY <1>1, <1>2, <2>2 DEF BacktestInv
<1> QED BY <1>3, <1>4, <1>5

(* What a position that is not touched is tried for stays as it was. *)
LEMMA UntouchedStays ==
  ASSUME NEW token \in Tokens, OthersStay(token), MarksStay(token), UNCHANGED <<latest, t, due>>,
         NEW other \in Tokens \ {token}
  PROVE  /\ qty'[other] = qty[other] /\ exitFailedAt'[other] = exitFailedAt[other]
         /\ latest'[other] = latest[other] /\ Closing(other)' = Closing(other)
  BY DEF OthersStay, MarksStay, Closing

(* The time stop tries a position, and marks it when it cannot be sold. *)
LEMMA MaxHoldKeeps ==
  ASSUME BacktestInv, NEW token \in Tokens, ApplyMaxHold(token) PROVE BacktestInv'
<1> DEFINE guarded == latest[token] # None /\ Guarded(token)
<1>1. /\ BooksTyped' /\ MarksTyped' /\ MarksBelong' /\ OpenedBefore'
      /\ OthersStay(token) /\ MarksStay(token)
      /\ \/ qty'[token] < qty[token]
         \/ /\ UNCHANGED <<books, marks>>
            /\ latest[token] = None \/ qty[token] = 0 \/ guarded
         \/ /\ UNCHANGED books /\ Closing(token).size = 0
            /\ exitFailedAt'[token] # None /\ exitFailedAt'[token].t = t
  BY ClosePositionKeeps DEF BacktestInv, ApplyMaxHold
<1>2. BacktestTypeOK'
  BY <1>1, InvIs DEF ApplyMaxHold, BacktestInv
<1>3. SweepKnown'
  BY DEF ApplyMaxHold, SweepKnown
<1>4. ASSUME NEW other \in Tokens \ todo', qty'[other] > 0, latest'[other] # None,
             other \notin sold', other \in due'
      PROVE  exitFailedAt'[other] # None /\ t' - exitFailedAt'[other].t < ExitRetry
  <2>1. CASE other # token
    <3>1. other \in Tokens \ todo /\ other \notin sold /\ other \in due /\ t' = t /\ phase = "hold"
      BY <1>4, <2>1 DEF ApplyMaxHold
    <3>2. qty'[other] = qty[other] /\ exitFailedAt'[other] = exitFailedAt[other] /\ latest'[other] = latest[other]
      BY <1>1, <2>1, UntouchedStays DEF ApplyMaxHold
    <3> QED BY <1>4, <3>1, <3>2 DEF BacktestInv, ExitsAreTried
  <2>2. CASE other = token
    <3>1. ~(qty'[token] < qty[token]) /\ latest[token] # None /\ t' = t
      BY <1>4, <2>2 DEF ApplyMaxHold
    <3>2. CASE UNCHANGED <<books, marks>> /\ (latest[token] = None \/ qty[token] = 0 \/ guarded)
      <4>1. Guarded(token) /\ exitFailedAt'[token] = exitFailedAt[token]
        BY <1>4, <2>2, <3>1, <3>2 DEF books, marks, BacktestInv, BacktestTypeOK
      <4> QED BY <2>2, <3>1, <4>1 DEF Guarded
    <3>3. CASE exitFailedAt'[token] # None /\ exitFailedAt'[token].t = t
      <4>1. t \in Nat /\ ExitRetry \in Nat \ {0}
        BY BacktestAssumption DEF BacktestInv, BacktestTypeOK, Times
      <4> QED BY <2>2, <3>1, <3>3, <4>1
    <3> QED BY <1>1, <3>1, <3>2, <3>3
  <2> QED BY <2>1, <2>2
<1>5. ExitsAreTried'
  BY <1>4 DEF ApplyMaxHold, ExitsAreTried
<1> QED BY <1>1, <1>2, <1>3, <1>5 DEF BacktestInv

(* The sweep sells a position, or its book can take nothing. *)
LEMMA FlattenKeeps ==
  ASSUME BacktestInv, NEW token \in Tokens, FlattenAtEnd(token) PROVE BacktestInv'
<1>1. /\ BooksTyped' /\ MarksTyped' /\ MarksBelong' /\ OpenedBefore'
      /\ OthersStay(token) /\ MarksStay(token)
      /\ \/ qty'[token] < qty[token]
         \/ /\ UNCHANGED <<books, marks>>
            /\ latest[token] = None \/ qty[token] = 0
         \/ UNCHANGED books /\ Closing(token).size = 0
  BY ClosePositionKeeps DEF BacktestInv, FlattenAtEnd
<1>2. BacktestTypeOK'
  BY <1>1, InvIs DEF FlattenAtEnd, BacktestInv
<1>3. ExitsAreTried'
  BY DEF FlattenAtEnd, ExitsAreTried
<1>4. ASSUME NEW other \in Tokens \ todo', qty'[other] > 0, latest'[other] # None,
             other \notin sold'
      PROVE  Closing(other)'.size = 0
  <2>1. CASE other # token
    <3>1. other \in Tokens \ todo /\ other \notin sold /\ phase = "flatten"
      BY <1>4, <2>1 DEF FlattenAtEnd
    <3>2. qty'[other] = qty[other] /\ latest'[other] = latest[other] /\ Closing(other)' = Closing(other)
      BY <1>1, <2>1, UntouchedStays DEF FlattenAtEnd
    <3> QED BY <1>4, <3>1, <3>2 DEF BacktestInv, SweepKnown
  <2>2. CASE other = token
    <3>1. ~(qty'[token] < qty[token]) /\ latest[token] # None /\ latest' = latest
      BY <1>4, <2>2 DEF FlattenAtEnd
    <3>2. qty[token] # 0 \/ qty' # qty
      BY <1>4, <2>2
    <3>3. qty' = qty /\ Closing(token).size = 0
      BY <1>1, <3>1, <3>2 DEF books
    <3> QED BY <2>2, <3>1, <3>3 DEF Closing
  <2> QED BY <2>1, <2>2
<1>5. SweepKnown'
  BY <1>4 DEF FlattenAtEnd, SweepKnown
<1> QED BY <1>1, <1>2, <1>3, <1>5 DEF BacktestInv

(* A purchase opens the position, or adds to it. *)
LEMMA RecBuyKeeps ==
  ASSUME BacktestInv, NEW token \in Tokens, RecBuy(token) PROVE BacktestInv'
<1>1. PICK want \in Wants :
        Fill(token, "BUY", want).size > 0 /\ Buy(token, Fill(token, "BUY", want))
  BY DEF RecBuy
<1>0. BooksTyped /\ MarksTyped /\ t \in Times /\ t \in Nat /\ want \in Nat
  BY BacktestAssumption DEF BacktestInv, BacktestTypeOK, BooksTyped, MarksTyped, Times
<1>2. Fill(token, "BUY", want) \in Fills(want)
  BY EntryFills DEF BacktestInv, Sides
<1>3. BooksTyped' /\ OthersStay(token) /\ qty'[token] > qty[token]
  BY <1>0, <1>1, <1>2, BuyKeeps
<1>4. /\ openedAt' = [openedAt EXCEPT ![token] = IF @ = None THEN t ELSE @]
      /\ exitFailedAt' = exitFailedAt /\ t' = t
  BY DEF RecBuy
<1>5. MarksTyped' /\ MarksStay(token)
  BY <1>0, <1>4 DEF MarksTyped, MarksStay
<1>6. MarksOf(token)'
  <2>1. qty'[token] \in Nat /\ qty[token] \in Nat
    BY <1>0, <1>3 DEF BooksTyped
  <2>2. openedAt'[token] = IF openedAt[token] = None THEN t ELSE openedAt[token]
    BY <1>0, <1>4 DEF MarksTyped
  <2>3. MarksOf(token)
    BY MarksAre DEF BacktestInv
  <2> QED BY <1>0, <1>3, <1>4, <2>1, <2>2, <2>3, NoneIsNone DEF MarksOf
<1>7. MarksBelong' /\ OpenedBefore'
  BY <1>3, <1>4, <1>5, <1>6, OneMarkChanges DEF BacktestInv
<1>8. lastFillAt' \in [Tokens \X Sides -> Times \cup {None}]
  BY <1>0 DEF RecBuy, BacktestInv, BacktestTypeOK
<1>9. BacktestTypeOK'
  BY <1>3, <1>5, <1>8, InvIs DEF RecBuy, BacktestInv
<1> QED BY <1>7, <1>9 DEF RecBuy, BacktestInv, SweepKnown, ExitsAreTried

(* A sale ends the position, with its marks, or leaves some of it. *)
LEMMA RecSellKeeps ==
  ASSUME BacktestInv, NEW token \in Tokens, RecSell(token) PROVE BacktestInv'
<1>1. PICK want \in Wants :
        Fill(token, "SELL", want).size > 0 /\ Sell(token, Fill(token, "SELL", want))
  BY DEF RecSell
<1>0. BooksTyped /\ MarksTyped /\ t \in Times /\ t \in Nat /\ want \in Nat
  BY BacktestAssumption DEF BacktestInv, BacktestTypeOK, BooksTyped, MarksTyped, Times
<1>2. Fill(token, "SELL", want) \in Fills(want)
  BY EntryFills DEF BacktestInv, Sides
<1>3. BooksTyped' /\ OthersStay(token) /\ qty'[token] < qty[token]
  BY <1>0, <1>1, <1>2, SellKeeps DEF RecSell
<1>4. Forget(token) /\ exitFailedAt' = ForgetFailure(token) /\ t' = t
  BY DEF RecSell
<1>5. MarksTyped' /\ MarksStay(token)
  BY <1>0, <1>4 DEF MarksTyped, MarksStay, Forget, ForgetFailure
<1>6. MarksOf(token)'
  <2>1. qty'[token] \in Nat /\ qty[token] \in Nat
    BY <1>0, <1>3 DEF BooksTyped
  <2>2. /\ openedAt'[token] = IF qty'[token] = 0 THEN None ELSE openedAt[token]
        /\ exitFailedAt'[token] = IF qty'[token] = 0 THEN None ELSE exitFailedAt[token]
    BY <1>0, <1>4 DEF Forget, ForgetFailure, MarksTyped
  <2>3. MarksOf(token)
    BY MarksAre DEF BacktestInv
  <2> QED BY <1>0, <1>3, <1>4, <2>1, <2>2, <2>3 DEF MarksOf
<1>7. MarksBelong' /\ OpenedBefore'
  BY <1>3, <1>4, <1>5, <1>6, OneMarkChanges DEF BacktestInv
<1>8. lastFillAt' \in [Tokens \X Sides -> Times \cup {None}]
  BY <1>0 DEF RecSell, BacktestInv, BacktestTypeOK
<1>9. BacktestTypeOK'
  BY <1>3, <1>5, <1>8, InvIs DEF RecSell, BacktestInv
<1> QED BY <1>7, <1>9 DEF RecSell, BacktestInv, SweepKnown, ExitsAreTried

-----------------------------------------------------------------------------
(* The theorems *)

LEMMA BacktestStep == BacktestInv /\ [Next]_vars => BacktestInv'
<1> SUFFICES ASSUME BacktestInv, [Next]_vars PROVE BacktestInv'
  OBVIOUS
<1>1. CASE UNCHANGED vars
  <2>1. /\ BacktestTypeOK' <=> BacktestTypeOK
        /\ MarksBelong' <=> MarksBelong
        /\ OpenedBefore' <=> OpenedBefore
        /\ SweepKnown' <=> SweepKnown
        /\ ExitsAreTried' <=> ExitsAreTried
    BY <1>1 DEF vars, books, marks, BacktestTypeOK, MarksBelong, OpenedBefore, SweepKnown,
       ExitsAreTried, Closing
  <2> QED BY <2>1 DEF BacktestInv
<1>2. CASE Next
  BY <1>2, BookEventKeeps, TickEventKeeps, PhaseKeeps, MaxHoldKeeps, FlattenKeeps,
     RecBuyKeeps, RecSellKeeps DEF Next
<1> QED BY <1>1, <1>2

(* The inductive invariant of the replay (runner.js, portfolio.js). *)
THEOREM BacktestInvariant == Spec => []BacktestInv
  BY BacktestInit, BacktestStep, PTL DEF Spec

(* Every variable of the replay stays in its type: no position is ever     *)
(* short, whatever is sold (portfolio.js:45-59).                           *)
THEOREM BacktestTypes == Spec => []BacktestTypeOK
  BY BacktestInvariant, PTL DEF BacktestInv

(* A position has a time of opening exactly while it is held, and a failed *)
(* exit on record is of the position held now (runner.js:165-172, 229-243).*)
THEOREM MarksAreOfThePosition == Spec => []MarksBelong
  BY BacktestInvariant, PTL DEF BacktestInv

(* No position that is to be closed is passed over (runner.js:191-281).    *)
THEOREM NoExitIsPassedOver == Spec => []ExitsAreTried
  BY BacktestInvariant, PTL DEF BacktestInv

-----------------------------------------------------------------------------
(* What positions cost: sums over tokens *)

Worth(q, a, i) == q[i] * a[i]
CostOf(q, a, S) == MapThenSumSet(LAMBDA i : Worth(q, a, i), S)

(* The function by which MapThenSumSet adds the costs, and which it takes next. *)
Some(s) == CHOOSE i \in s : TRUE
Adds(iter, q, a, Sets) ==
  iter = [s \in Sets |-> IF s = {} THEN 0 ELSE Worth(q, a, Some(s)) + iter[s \ {Some(s)}]]
AddsOn(iter, q, a, S) == Adds(iter, q, a, SUBSET S)

LEMMA CostIs ==
  ASSUME NEW q, NEW a, NEW S
  PROVE  CostOf(q, a, S) = (CHOOSE iter : AddsOn(iter, q, a, S))[S]
  BY DEF CostOf, MapThenSumSet, MapThenFoldSet, AddsOn, Adds, Some

(* Sets without the element that is taken are smaller. *)
LEMMA OneLess ==
  ASSUME NEW S, IsFiniteSet(S), NEW s \in SUBSET S, s # {}
  PROVE  /\ Some(s) \in s /\ s \ {Some(s)} \in SUBSET S
         /\ IsFiniteSet(s) /\ Cardinality(s) \in Nat \ {0}
         /\ \A x \in s : IsFiniteSet(s \ {x}) /\ Cardinality(s \ {x}) = Cardinality(s) - 1
<1>1. IsFiniteSet(s)
  BY FS_Subset
<1>2. Cardinality(s) \in Nat /\ Cardinality(s) # 0
  BY <1>1, FS_CardinalityType, FS_EmptySet
<1>3. Some(s) \in s
  BY DEF Some
<1>4. \A x \in s : IsFiniteSet(s \ {x}) /\ Cardinality(s \ {x}) = Cardinality(s) - 1
  BY <1>1, FS_RemoveElement
<1> QED BY <1>1, <1>2, <1>3, <1>4

LEMMA AddsExists ==
  ASSUME NEW q, NEW a, NEW S, IsFiniteSet(S)
  PROVE  \E iter : AddsOn(iter, q, a, S)
<1> DEFINE UpTo(m) == {s \in SUBSET S : Cardinality(s) <= m}
           T == {m \in Nat : \E iter : Adds(iter, q, a, UpTo(m))}
<1>0. \A s \in SUBSET S : s = {} => Cardinality(s) = 0
  BY FS_EmptySet
<1>1. 0 \in T
  <2>1. \A s \in UpTo(0) : s = {}
    BY OneLess
  <2> DEFINE zero == [s \in UpTo(0) |-> 0]
  <2>2. Adds(zero, q, a, UpTo(0))
    BY <2>1 DEF Adds
  <2> HIDE DEF zero, UpTo
  <2> QED BY <2>2
<1>2. ASSUME NEW m \in Nat, m \in T PROVE m + 1 \in T
  <2>1. PICK iter : Adds(iter, q, a, UpTo(m))
    BY <1>2
  <2> DEFINE more == [s \in UpTo(m + 1) |->
                        IF s = {} THEN 0 ELSE Worth(q, a, Some(s)) + iter[s \ {Some(s)}]]
  <2>2. ASSUME NEW s \in UpTo(m + 1), s # {}
        PROVE  more[s \ {Some(s)}] = iter[s \ {Some(s)}]
    <3> DEFINE r == s \ {Some(s)}
    <3>1. r \in UpTo(m) /\ r \in UpTo(m + 1)
      BY <2>2, OneLess
    <3>2. iter[r] = IF r = {} THEN 0 ELSE Worth(q, a, Some(r)) + iter[r \ {Some(r)}]
      BY <2>1, <3>1 DEF Adds
    <3> HIDE DEF r, UpTo
    <3>3. more[r] = IF r = {} THEN 0 ELSE Worth(q, a, Some(r)) + iter[r \ {Some(r)}]
      BY <3>1
    <3> QED BY <3>2, <3>3 DEF r
  <2>3. Adds(more, q, a, UpTo(m + 1))
    <3> HIDE DEF UpTo
    <3>1. \A s \in UpTo(m + 1) :
            more[s] = IF s = {} THEN 0 ELSE Worth(q, a, Some(s)) + more[s \ {Some(s)}]
      BY <2>2
    <3>2. more = [s \in UpTo(m + 1) |-> more[s]]
      OBVIOUS
    <3> HIDE DEF more
    <3> QED BY <3>1, <3>2 DEF Adds
  <2> HIDE DEF more, UpTo
  <2> QED BY <2>3
<1> HIDE DEF T
<1>3. Cardinality(S) \in T
  BY <1>1, <1>2, SetInduction, FS_CardinalityType
<1>4. UpTo(Cardinality(S)) = SUBSET S
  BY FS_Subset
<1> HIDE DEF UpTo
<1> QED BY <1>3, <1>4 DEF T, AddsOn

(* Two of them agree on a set that both add up. *)
LEMMA AddsAgree ==
  \A q, a, S, R, f, g :
    /\ IsFiniteSet(S) /\ R \subseteq S
    /\ AddsOn(f, q, a, S) /\ AddsOn(g, q, a, R)
    => f[R] = g[R]
<1> SUFFICES ASSUME NEW q, NEW a, NEW S, NEW R, NEW f, NEW g, IsFiniteSet(S), R \subseteq S,
                    AddsOn(f, q, a, S), AddsOn(g, q, a, R)
             PROVE  f[R] = g[R]
  OBVIOUS
<1> DEFINE T == {m \in Nat : \A s \in SUBSET R : Cardinality(s) = m => f[s] = g[s]}
<1>1. ASSUME NEW s \in SUBSET R
      PROVE  /\ s \in SUBSET S /\ IsFiniteSet(s) /\ Cardinality(s) \in Nat
             /\ f[s] = IF s = {} THEN 0 ELSE Worth(q, a, Some(s)) + f[s \ {Some(s)}]
             /\ g[s] = IF s = {} THEN 0 ELSE Worth(q, a, Some(s)) + g[s \ {Some(s)}]
  BY FS_Subset, FS_CardinalityType DEF AddsOn, Adds
<1>2. 0 \in T
  <2> SUFFICES ASSUME NEW s \in SUBSET R, Cardinality(s) = 0 PROVE f[s] = g[s]
    OBVIOUS
  <2>1. s = {}
    BY <1>1, FS_EmptySet
  <2> QED BY <1>1, <2>1
<1>3. ASSUME NEW m \in Nat, m \in T PROVE m + 1 \in T
  <2> SUFFICES ASSUME NEW s \in SUBSET R, Cardinality(s) = m + 1 PROVE f[s] = g[s]
    OBVIOUS
  <2>1. s # {}
    <3>1. m + 1 # 0 /\ Cardinality({}) = 0
      BY FS_EmptySet
    <3> QED BY <3>1
  <2>2. s \ {Some(s)} \in SUBSET R /\ Cardinality(s \ {Some(s)}) = m
    BY <1>1, <2>1, OneLess
  <2> QED BY <1>1, <1>3, <2>1, <2>2
<1> HIDE DEF T
<1>4. Nat \subseteq T
  BY <1>2, <1>3, SetInduction
<1> QED BY <1>1, <1>4 DEF T

Counted(q, a, S) == \A i \in S : Worth(q, a, i) \in Nat

(* A sum of costs is a cost. *)
LEMMA AddsNat ==
  ASSUME NEW q, NEW a, NEW S, IsFiniteSet(S), Counted(q, a, S), NEW f, AddsOn(f, q, a, S)
  PROVE  \A s \in SUBSET S : f[s] \in Nat
<1> DEFINE T == {m \in Nat : \A s \in SUBSET S : Cardinality(s) = m => f[s] \in Nat}
<1>1. ASSUME NEW s \in SUBSET S
      PROVE  /\ IsFiniteSet(s) /\ Cardinality(s) \in Nat
             /\ f[s] = IF s = {} THEN 0 ELSE Worth(q, a, Some(s)) + f[s \ {Some(s)}]
  BY FS_Subset, FS_CardinalityType DEF AddsOn, Adds
<1>2. 0 \in T
  <2> SUFFICES ASSUME NEW s \in SUBSET S, Cardinality(s) = 0 PROVE f[s] \in Nat
    OBVIOUS
  <2>1. s = {}
    BY <1>1, FS_EmptySet
  <2> QED BY <1>1, <2>1
<1>3. ASSUME NEW m \in Nat, m \in T PROVE m + 1 \in T
  <2> SUFFICES ASSUME NEW s \in SUBSET S, Cardinality(s) = m + 1 PROVE f[s] \in Nat
    OBVIOUS
  <2>1. s # {}
    <3>1. m + 1 # 0 /\ Cardinality({}) = 0
      BY FS_EmptySet
    <3> QED BY <3>1
  <2>2. Some(s) \in S /\ s \ {Some(s)} \in SUBSET S /\ Cardinality(s \ {Some(s)}) = m
    BY <2>1, OneLess
  <2>3. f[s \ {Some(s)}] \in Nat /\ Worth(q, a, Some(s)) \in Nat
    BY <1>3, <2>2 DEF Counted
  <2> QED BY <1>1, <2>1, <2>3
<1> HIDE DEF T
<1>4. Nat \subseteq T
  BY <1>2, <1>3, SetInduction
<1> QED BY <1>1, <1>4 DEF T

(* The order in which they are added does not matter. *)
LEMMA AddsAny ==
  ASSUME NEW q, NEW a, NEW S, IsFiniteSet(S), Counted(q, a, S), NEW f, AddsOn(f, q, a, S)
  PROVE  \A s \in SUBSET S : \A x \in s : f[s] = Worth(q, a, x) + f[s \ {x}]
<1> DEFINE Right(s) == \A x \in s : f[s] = Worth(q, a, x) + f[s \ {x}]
           T == {m \in Nat : \A s \in SUBSET S : Cardinality(s) = m => Right(s)}
<1>1. ASSUME NEW s \in SUBSET S
      PROVE  /\ IsFiniteSet(s) /\ Cardinality(s) \in Nat /\ f[s] \in Nat
             /\ f[s] = IF s = {} THEN 0 ELSE Worth(q, a, Some(s)) + f[s \ {Some(s)}]
  <2>1. f[s] = IF s = {} THEN 0 ELSE Worth(q, a, Some(s)) + f[s \ {Some(s)}]
    BY DEF AddsOn, Adds
  <2> QED BY <2>1, FS_Subset, FS_CardinalityType, AddsNat
<1>2. 0 \in T
  <2> SUFFICES ASSUME NEW s \in SUBSET S, Cardinality(s) = 0 PROVE Right(s)
    OBVIOUS
  <2>1. s = {}
    BY <1>1, FS_EmptySet
  <2> QED BY <2>1
<1>3. ASSUME NEW m \in Nat, m \in T PROVE m + 1 \in T
  <2> SUFFICES ASSUME NEW s \in SUBSET S, Cardinality(s) = m + 1, NEW x \in s
               PROVE  f[s] = Worth(q, a, x) + f[s \ {x}]
    OBVIOUS
  <2> DEFINE y == Some(s)
             r == (s \ {x}) \ {y}
  <2>1. y \in s /\ f[s] = Worth(q, a, y) + f[s \ {y}]
    BY <1>1, OneLess
  <2> HIDE DEF y
  <2>2. ASSUME NEW z \in s PROVE Right(s \ {z})
    <3>1. s \ {z} \in SUBSET S /\ Cardinality(s \ {z}) = m
      BY OneLess
    <3> QED BY <1>3, <3>1
  <2>3. CASE x # y
    <3>1. r = (s \ {y}) \ {x} /\ x \in s \ {y} /\ y \in s \ {x} /\ r \in SUBSET S
      BY <2>1, <2>3
    <3>2. f[s \ {y}] = Worth(q, a, x) + f[r]
      BY <2>1, <2>2, <3>1
    <3>3. f[s \ {x}] = Worth(q, a, y) + f[r]
      BY <2>2, <3>1
    <3>4. f[r] \in Nat /\ Worth(q, a, x) \in Nat /\ Worth(q, a, y) \in Nat
      BY <1>1, <2>1, <3>1 DEF Counted
    <3> HIDE DEF r
    <3> QED BY <2>1, <3>2, <3>3, <3>4
  <2> QED BY <2>1, <2>3
<1> HIDE DEF T
<1>4. Nat \subseteq T
  BY <1>2, <1>3, SetInduction
<1> QED BY <1>1, <1>4 DEF T

(* What the costs of a set of positions come to. *)
LEMMA CostFacts ==
  ASSUME NEW q, NEW a, NEW S, IsFiniteSet(S), Counted(q, a, S)
  PROVE  /\ CostOf(q, a, S) \in Nat
         /\ S = {} => CostOf(q, a, S) = 0
         /\ \A x \in S : CostOf(q, a, S) = Worth(q, a, x) + CostOf(q, a, S \ {x})
<1>1. PICK f : AddsOn(f, q, a, S) /\ CostOf(q, a, S) = f[S]
  BY AddsExists, CostIs
<1>2. CostOf(q, a, S) \in Nat
  BY <1>1, AddsNat
<1>3. S = {} => CostOf(q, a, S) = 0
  BY <1>1 DEF AddsOn, Adds
<1>4. ASSUME NEW x \in S PROVE CostOf(q, a, S) = Worth(q, a, x) + CostOf(q, a, S \ {x})
  <2>1. PICK R \in SUBSET S : R = S \ {x}
    OBVIOUS
  <2>2. IsFiniteSet(R)
    BY FS_Subset
  <2>3. PICK g : AddsOn(g, q, a, R) /\ CostOf(q, a, R) = g[R]
    BY <2>2, AddsExists, CostIs
  <2>4. f[R] = g[R]
    <3>1. AddsOn(f, q, a, S) /\ AddsOn(g, q, a, R) /\ R \subseteq S /\ IsFiniteSet(S)
      BY <1>1, <2>3
    <3> QED BY <3>1, AddsAgree
  <2>5. f[S] = Worth(q, a, x) + f[S \ {x}]
    BY <1>1, AddsAny
  <2> QED BY <1>1, <2>1, <2>3, <2>4, <2>5
<1> QED BY <1>2, <1>3, <1>4

(* Positions of the same costs cost the same. *)
LEMMA SameCost ==
  ASSUME NEW q, NEW a, NEW p, NEW b, NEW U, IsFiniteSet(U), Counted(q, a, U),
         \A i \in U : Worth(p, b, i) = Worth(q, a, i)
  PROVE  CostOf(p, b, U) = CostOf(q, a, U)
<1> DEFINE T == {m \in Nat : \A S \in SUBSET U :
                               Cardinality(S) = m => CostOf(p, b, S) = CostOf(q, a, S)}
<1>1. ASSUME NEW S \in SUBSET U
      PROVE  /\ IsFiniteSet(S) /\ Counted(q, a, S) /\ Counted(p, b, S)
             /\ S = {} => CostOf(q, a, S) = 0 /\ CostOf(p, b, S) = 0
             /\ \A x \in S : /\ CostOf(q, a, S) = Worth(q, a, x) + CostOf(q, a, S \ {x})
                             /\ CostOf(p, b, S) = Worth(p, b, x) + CostOf(p, b, S \ {x})
  <2>1. IsFiniteSet(S) /\ Counted(q, a, S) /\ Counted(p, b, S)
    BY FS_Subset DEF Counted
  <2> QED BY <2>1, CostFacts
<1>2. 0 \in T
  BY <1>1, FS_EmptySet
<1>3. ASSUME NEW m \in Nat, m \in T PROVE m + 1 \in T
  <2> SUFFICES ASSUME NEW S \in SUBSET U, Cardinality(S) = m + 1
               PROVE  CostOf(p, b, S) = CostOf(q, a, S)
    OBVIOUS
  <2>1. S # {}
    <3>1. m + 1 # 0 /\ Cardinality({}) = 0
      BY FS_EmptySet
    <3> QED BY <3>1
  <2>2. PICK x \in S : TRUE
    BY <2>1
  <2>3. PICK R \in SUBSET U : R = S \ {x}
    OBVIOUS
  <2>4. CostOf(p, b, R) = CostOf(q, a, R)
    <3>1. IsFiniteSet(S)
      BY <1>1
    <3>2. Cardinality(R) = (m + 1) - 1
      BY <2>3, <3>1, FS_RemoveElement
    <3>3. Cardinality(R) = m
      BY <3>2
    <3> QED BY <1>3, <3>3
  <2> QED BY <1>1, <2>3, <2>4
<1> HIDE DEF T
<1>4. Nat \subseteq T
  BY <1>2, <1>3, SetInduction
<1> QED BY <1>4, FS_CardinalityType DEF T

-----------------------------------------------------------------------------
(* What is earned and what is paid *)

LEMMA CostIsCostOf == Cost = CostOf(qty, avg, Tokens)
  BY DEF Cost, CostOf, Worth

LEMMA CostIsCostOfNext == (Cost = CostOf(qty, avg, Tokens))'
  BY CostIsCostOf, PTL

LEMMA SameBooksCostTheSame == UNCHANGED <<qty, avg>> => Cost' = Cost
<1> SUFFICES ASSUME UNCHANGED <<qty, avg>> PROVE Cost' = Cost
  OBVIOUS
<1>1. Cost' = CostOf(qty', avg', Tokens)
  BY CostIsCostOfNext
<1> QED BY <1>1, CostIsCostOf

(* The cost of the others stays when one position changes. *)
LEMMA OneCostChanges ==
  ASSUME BooksTyped, BooksTyped', NEW token \in Tokens,
         \A other \in Tokens \ {token} : qty'[other] = qty[other] /\ avg'[other] = avg[other]
  PROVE  /\ Cost \in Nat /\ Cost' \in Nat
         /\ Cost' - qty'[token] * avg'[token] = Cost - qty[token] * avg[token]
<1>1. PICK p : p = qty'
  OBVIOUS
<1>2. PICK b : b = avg'
  OBVIOUS
<1>3. PICK Others : Others = Tokens \ {token}
  OBVIOUS
<1>4. Counted(qty, avg, Tokens) /\ Counted(p, b, Tokens)
  BY <1>1, <1>2 DEF Counted, Worth, BooksTyped
<1>5. Counted(qty, avg, Others) /\ IsFiniteSet(Tokens) /\ IsFiniteSet(Others)
  BY <1>3, <1>4, BacktestAssumption, FS_Subset DEF Counted
<1>6. Cost = CostOf(qty, avg, Tokens) /\ Cost' = CostOf(p, b, Tokens)
  <2>1. Cost' = CostOf(qty', avg', Tokens)
    BY CostIsCostOfNext
  <2> QED BY <1>1, <1>2, <2>1, CostIsCostOf
<1>7. /\ CostOf(qty, avg, Tokens) \in Nat
      /\ CostOf(qty, avg, Tokens) = Worth(qty, avg, token) + CostOf(qty, avg, Others)
  BY <1>3, <1>4, <1>5, CostFacts
<1>8. /\ CostOf(p, b, Tokens) \in Nat
      /\ CostOf(p, b, Tokens) = Worth(p, b, token) + CostOf(p, b, Others)
  BY <1>3, <1>4, <1>5, CostFacts
<1>9. CostOf(p, b, Others) = CostOf(qty, avg, Others)
  <2>1. \A i \in Others : Worth(p, b, i) = Worth(qty, avg, i)
    BY <1>1, <1>2, <1>3 DEF Worth
  <2> QED BY <1>5, <2>1, SameCost
<1>10. CostOf(qty, avg, Others) \in Nat
  BY <1>5, CostFacts
<1>11. /\ Worth(qty, avg, token) = qty[token] * avg[token]
       /\ Worth(p, b, token) = qty'[token] * avg'[token]
       /\ Worth(qty, avg, token) \in Nat /\ Worth(p, b, token) \in Nat
  BY <1>1, <1>2, <1>4 DEF Worth, Counted
<1> QED BY <1>6, <1>7, <1>8, <1>9, <1>10, <1>11

(* What the profit and the fees do not explain, in the integers of the model. *)
Rounded == (InitialEquity + realizedPnl) - (feesPaid + cash + Cost)

(* What was paid for contracts in this step, and what their average leaves. *)
Paid == (cash + feesPaid) - (cash' + feesPaid')
Remainder(token) == (qty[token] * avg[token] + Paid) % qty'[token]

(* Sales add up: at whatever price, and of more than is held. *)
LEMMA SellAddsUp ==
  ASSUME BooksTyped, NEW token \in Tokens, qty[token] > 0,
         NEW size \in Nat, NEW fill \in Fills(size), fill.size > 0, Sell(token, fill)
  PROVE  Rounded' = Rounded
<1>1. BooksTyped' /\ fill.size \in Nat \ {0} /\ fill.notional \in Nat /\ fill.fee \in Nat
  BY SellKeeps DEF Fills
<1>2. PICK q \in Nat, a \in Nat : q = qty[token] /\ a = avg[token]
  BY DEF BooksTyped
<1>3. PICK px \in Nat : px = fill.notional \div fill.size
  BY <1>1
<1>4. PICK s \in 1..q : s = Sold(token, fill)
  BY <1>1, <1>2 DEF Sold, Least
<1>5. /\ cash' = cash + s * px - fill.fee /\ feesPaid' = feesPaid + fill.fee
      /\ realizedPnl' = realizedPnl + s * (px - a)
      /\ qty'[token] = q - s /\ avg'[token] = IF q - s = 0 THEN 0 ELSE a
      /\ \A other \in Tokens \ {token} : qty'[other] = qty[other] /\ avg'[other] = avg[other]
  BY <1>2, <1>3, <1>4 DEF Sell, Charge, Profit, BooksTyped
<1>6. qty'[token] * avg'[token] = q * a - s * a
  <2>1. qty'[token] * avg'[token] = (q - s) * a
    BY <1>5
  <2>2. s \in Int /\ q \in Int /\ a \in Int
    BY <1>2, <1>4
  <2>3. (q - s) * a = q * a - s * a
    BY ONLY <2>2
  <2> QED BY <2>1, <2>3
<1>7. s * (px - a) = s * px - s * a
  <2>1. s \in Int /\ px \in Int /\ a \in Int
    BY <1>2, <1>3, <1>4
  <2> QED BY ONLY <2>1
<1>8. PICK sold1 \in Int, cost1 \in Int : sold1 = s * px /\ cost1 = s * a
  BY <1>2, <1>3, <1>4
<1>9. /\ Cost \in Nat /\ Cost' \in Nat
      /\ Cost' - qty'[token] * avg'[token] = Cost - q * a
  BY <1>1, <1>2, <1>5, OneCostChanges
<1>10. PICK held \in Int : held = q * a
  BY <1>2
<1>11. Cost' = Cost - cost1
  BY <1>6, <1>8, <1>9, <1>10
<1>12. cash' = cash + sold1 - fill.fee /\ realizedPnl' = realizedPnl + (sold1 - cost1)
  BY <1>5, <1>7, <1>8
<1>13. cash \in Int /\ feesPaid \in Int /\ realizedPnl \in Int /\ InitialEquity \in Int
  BY BacktestAssumption DEF BooksTyped
<1>14. feesPaid' = feesPaid + fill.fee /\ fill.fee \in Int /\ Cost \in Int
  BY <1>1, <1>5, <1>9
<1>15. (InitialEquity + realizedPnl') - (feesPaid' + cash' + Cost')
         = (InitialEquity + realizedPnl) - (feesPaid + cash + Cost)
  BY ONLY <1>8, <1>11, <1>12, <1>13, <1>14
<1> QED BY <1>15 DEF Rounded

(* A purchase leaves what its average rounds off, and nothing else. *)
LEMMA BuyRounds ==
  ASSUME BooksTyped, NEW token \in Tokens,
         NEW size \in Nat, NEW fill \in Fills(size), fill.size > 0, Buy(token, fill)
  PROVE  /\ qty'[token] > qty[token] /\ Remainder(token) \in Nat
         /\ Rounded' = Rounded + Remainder(token)
<1>1. /\ BooksTyped' /\ qty'[token] > qty[token]
      /\ fill.size \in Nat \ {0} /\ fill.notional \in Nat /\ fill.fee \in Nat
  BY BuyKeeps DEF Fills
<1>2. PICK q \in Nat, a \in Nat : q = qty[token] /\ a = avg[token]
  BY DEF BooksTyped
<1>3. PICK more \in Nat \ {0} : more = q + fill.size
  BY <1>1
<1>4. PICK held \in Nat : held = q * a
  BY <1>2
<1>5. PICK whole \in Nat : whole = held + fill.notional
  BY <1>1
<1>6. /\ cash' = cash - fill.notional - fill.fee /\ feesPaid' = feesPaid + fill.fee
      /\ realizedPnl' = realizedPnl
      /\ qty'[token] = more /\ avg'[token] = whole \div more
      /\ \A other \in Tokens \ {token} : qty'[other] = qty[other] /\ avg'[other] = avg[other]
  BY <1>1, <1>2, <1>3, <1>4, <1>5 DEF Buy, Charge, BooksTyped
<1>7. PICK rest \in Nat : rest = whole % more
  OBVIOUS
<1>8. more * (whole \div more) = whole - rest
  BY <1>7
<1>9. cash \in Int /\ feesPaid \in Int /\ realizedPnl \in Int /\ InitialEquity \in Int
  BY BacktestAssumption DEF BooksTyped
<1>10. Paid = fill.notional
  BY <1>1, <1>6, <1>9 DEF Paid
<1>11. Remainder(token) = rest
  BY <1>2, <1>4, <1>5, <1>6, <1>7, <1>10 DEF Remainder
<1>12. Cost \in Nat /\ Cost' \in Nat /\ Cost' - qty'[token] * avg'[token] = Cost - held
  BY <1>1, <1>2, <1>4, <1>6, OneCostChanges
<1>13. Cost' = Cost + fill.notional - rest
  <2>1. Cost' - (whole - rest) = Cost - held
    BY <1>6, <1>8, <1>12
  <2> QED BY <1>1, <1>5, <1>12, <2>1
<1>14. Rounded' = Rounded + rest
  BY <1>1, <1>6, <1>9, <1>12, <1>13 DEF Rounded
<1> QED BY <1>1, <1>11, <1>14

(***************************************************************************)
(* Every step explains the equity, but for what the average price of a     *)
(* purchase is rounded by.                                                 *)
(***************************************************************************)
RoundsInBuys ==
  \/ Rounded' = Rounded
  \/ \E token \in Tokens :
       /\ qty'[token] > qty[token] /\ Remainder(token) \in Nat
       /\ Rounded' = Rounded + Remainder(token)

LEMMA RoundsStep == BacktestInv /\ [Next]_vars => RoundsInBuys
<1> SUFFICES ASSUME BacktestInv, [Next]_vars PROVE RoundsInBuys
  OBVIOUS
<1>1. BooksTyped /\ BacktestTypeOK /\ \A token \in Tokens : qty[token] \in Nat
  BY DEF BacktestInv, BacktestTypeOK, BooksTyped
<1>2. CASE UNCHANGED books
  BY <1>2, SameBooksCostTheSame DEF RoundsInBuys, Rounded, books
<1>3. ASSUME NEW token \in Tokens, NEW guarded, ClosePosition(token, guarded)
      PROVE  RoundsInBuys
  <2>1. CASE /\ latest[token] # None /\ qty[token] > 0 /\ Closing(token).size > 0
             /\ Sell(token, Closing(token))
    <3>1. Closing(token) \in Fills(qty[token])
      BY <1>1, <2>1, ExitFills
    <3> QED BY <1>1, <2>1, <3>1, SellAddsUp DEF RoundsInBuys
  <2> QED BY <1>2, <1>3, <2>1 DEF ClosePosition
<1>4. ASSUME NEW token \in Tokens, RecBuy(token) PROVE RoundsInBuys
  <2>1. PICK want \in Wants :
          Fill(token, "BUY", want).size > 0 /\ Buy(token, Fill(token, "BUY", want))
    BY <1>4 DEF RecBuy
  <2>2. Fill(token, "BUY", want) \in Fills(want) /\ want \in Nat
    BY <1>1, EntryFills, BacktestAssumption DEF Sides
  <2> QED BY <1>1, <2>1, <2>2, BuyRounds DEF RoundsInBuys
<1>5. ASSUME NEW token \in Tokens, RecSell(token) PROVE RoundsInBuys
  <2>1. PICK want \in Wants :
          Fill(token, "SELL", want).size > 0 /\ Sell(token, Fill(token, "SELL", want))
    BY <1>5 DEF RecSell
  <2>2. Fill(token, "SELL", want) \in Fills(want) /\ want \in Nat
    BY <1>1, EntryFills, BacktestAssumption DEF Sides
  <2>3. qty[token] > 0
    BY <1>5 DEF RecSell
  <2> QED BY <1>1, <2>1, <2>2, <2>3, SellAddsUp DEF RoundsInBuys
<1>6. CASE \E token \in Tokens : ApplyMaxHold(token) \/ FlattenAtEnd(token)
  BY <1>3, <1>6 DEF ApplyMaxHold, FlattenAtEnd
<1>7. CASE \/ \E token \in Tokens : BookEvent(token)
           \/ TickEvent \/ Decide \/ EndTick \/ EndOfRecording \/ Finish \/ UNCHANGED vars
  BY <1>2, <1>7 DEF BookEvent, TickEvent, Decide, EndTick, EndOfRecording, Finish, vars
<1> QED BY <1>4, <1>5, <1>6, <1>7 DEF Next

LEMMA RoundedIsInt == BacktestInv => Rounded \in Int
<1> SUFFICES ASSUME BacktestInv PROVE Rounded \in Int
  OBVIOUS
<1>1. /\ qty \in [Tokens -> Nat] /\ avg \in [Tokens -> Nat]
      /\ cash \in Int /\ realizedPnl \in Int /\ feesPaid \in Int /\ InitialEquity \in Int
  BY BacktestAssumption DEF BacktestInv, BacktestTypeOK
<1>2. Counted(qty, avg, Tokens)
  BY <1>1 DEF Counted, Worth
<1>3. CostOf(qty, avg, Tokens) \in Nat
  BY <1>2, CostFacts, BacktestAssumption
<1>4. Cost \in Int
  BY <1>3, CostIsCostOf
<1> QED BY <1>1, <1>4 DEF Rounded

LEMMA RoundedInit == Init => Rounded = 0
<1> SUFFICES ASSUME Init PROVE Rounded = 0
  OBVIOUS
<1>1. /\ qty = [token \in Tokens |-> 0] /\ avg = [token \in Tokens |-> 0]
      /\ cash = InitialEquity /\ realizedPnl = 0 /\ feesPaid = 0 /\ InitialEquity \in Int
  BY BacktestAssumption DEF Init
<1>2. \A S \in SUBSET Tokens : IsFiniteSet(S) /\ Counted(qty, avg, S)
  BY <1>1, BacktestAssumption, FS_Subset DEF Counted, Worth
<1>3. \A i \in Tokens : Worth(qty, avg, i) = 0
  BY <1>1 DEF Worth
<1> DEFINE T == {m \in Nat : \A S \in SUBSET Tokens :
                               Cardinality(S) = m => CostOf(qty, avg, S) = 0}
<1>4. 0 \in T
  BY <1>2, CostFacts, FS_EmptySet
<1>5. ASSUME NEW m \in Nat, m \in T PROVE m + 1 \in T
  <2> SUFFICES ASSUME NEW S \in SUBSET Tokens, Cardinality(S) = m + 1
               PROVE  CostOf(qty, avg, S) = 0
    OBVIOUS
  <2>1. PICK x \in S : TRUE
    <3>1. m + 1 # 0 /\ Cardinality({}) = 0
      BY FS_EmptySet
    <3> QED BY <3>1
  <2>2. PICK R \in SUBSET Tokens : R = S \ {x}
    OBVIOUS
  <2>3. Cardinality(R) = (m + 1) - 1
    BY <1>2, <2>2, FS_RemoveElement
  <2>4. CostOf(qty, avg, R) = 0
    BY <1>5, <2>3
  <2>5. CostOf(qty, avg, S) = Worth(qty, avg, x) + CostOf(qty, avg, R)
    BY <1>2, <2>2, CostFacts
  <2> QED BY <1>3, <2>4, <2>5
<1> HIDE DEF T
<1>6. Nat \subseteq T
  BY <1>4, <1>5, SetInduction
<1>7. CostOf(qty, avg, Tokens) = 0
  BY <1>6, FS_CardinalityType, BacktestAssumption DEF T
<1>8. Cost = 0
  BY <1>7, CostIsCostOf
<1> QED BY <1>1, <1>8 DEF Rounded

(***************************************************************************)
(* portfolio.js:32-92: sales, fees, failed exits and the clamp of a sale   *)
(* of more than is held leave nothing unexplained; in the integers of the  *)
(* model a purchase leaves the remainder of its average, and only that.    *)
(***************************************************************************)
THEOREM OnlyAveragesRound == Spec => [][RoundsInBuys]_vars
<1>1. BacktestInv /\ [Next]_vars => [RoundsInBuys]_vars
  BY RoundsStep
<1> QED BY <1>1, BacktestInvariant, PTL DEF Spec

(***************************************************************************)
(* portfolio.js:32-92: so no equity comes from nowhere, whatever the       *)
(* averages are rounded by.                                                *)
(***************************************************************************)
THEOREM NoEquityFromNowhere == Spec => [](Rounded >= 0)
<1>1. Init => Rounded >= 0
  BY RoundedInit
<1>2. BacktestInv /\ BacktestInv' /\ Rounded >= 0 /\ [Next]_vars => (Rounded >= 0)'
  <2> SUFFICES ASSUME BacktestInv, BacktestInv', Rounded >= 0, [Next]_vars PROVE Rounded' >= 0
    OBVIOUS
  <2>1. Rounded \in Int
    BY RoundedIsInt
  <2> QED BY <2>1, RoundsStep DEF RoundsInBuys
<1> QED BY <1>1, <1>2, BacktestInvariant, PTL DEF Spec

(* The averages of the purchases come out even, as fractions do.           *)
AveragesAreEven ==
  \A token \in Tokens : qty'[token] > qty[token] => Remainder(token) = 0

(***************************************************************************)
(* portfolio.js:32-92: with averages that need no rounding (the code keeps *)
(* fractions), cash and the cost of the positions are what the profit and  *)
(* the fees say, at every moment of every replay.                          *)
(***************************************************************************)
THEOREM EquityAddsUp == Spec /\ [][AveragesAreEven]_vars => []EquityExplained
<1>1. Init => Rounded = 0
  BY RoundedInit
<1>2. BacktestInv /\ Rounded = 0 /\ [Next]_vars /\ [AveragesAreEven]_vars => (Rounded = 0)'
  <2> SUFFICES ASSUME BacktestInv, Rounded = 0, [Next]_vars, [AveragesAreEven]_vars
               PROVE  Rounded' = 0
    OBVIOUS
  <2>1. CASE UNCHANGED vars
    BY <2>1, SameBooksCostTheSame DEF vars, books, Rounded
  <2>2. CASE AveragesAreEven
    BY <2>2, RoundsStep DEF RoundsInBuys, AveragesAreEven
  <2> QED BY <2>1, <2>2
<1>3. BacktestInv /\ Rounded = 0 => EquityExplained
  <2> SUFFICES ASSUME BacktestInv, Rounded = 0 PROVE EquityExplained
    OBVIOUS
  <2>1. /\ qty \in [Tokens -> Nat] /\ avg \in [Tokens -> Nat]
        /\ cash \in Int /\ realizedPnl \in Int /\ feesPaid \in Int /\ InitialEquity \in Int
    BY BacktestAssumption DEF BacktestInv, BacktestTypeOK
  <2>2. Counted(qty, avg, Tokens)
    BY <2>1 DEF Counted, Worth
  <2>3. CostOf(qty, avg, Tokens) \in Nat
    BY <2>2, CostFacts, BacktestAssumption
  <2>4. Cost \in Int
    BY <2>3, CostIsCostOf
  <2> QED BY <2>1, <2>4 DEF Rounded, EquityExplained
<1> QED BY <1>1, <1>2, <1>3, BacktestInvariant, PTL DEF Spec

=============================================================================
