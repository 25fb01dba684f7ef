------------------------------ MODULE Backtest ------------------------------
(***************************************************************************)
(* The replay of a recording (src/backtest/runner.js) with its fill model  *)
(* (fillModel.js) and its portfolio (portfolio.js): recorded books arrive, *)
(* at each tick positions that are held for too long are closed, then the  *)
(* recommendations are filled against the last books; at the end what is   *)
(* left is sold.  One thread; what varies is the recording.                *)
(* The clock counts ticks.  Prices and amounts are integers, chosen so     *)
(* that no division leaves a remainder.  What metrics.js computes for the  *)
(* report is left out.                                                     *)
(***************************************************************************)
EXTENDS Integers, FiniteSetsExt, SequencesExt

CONSTANTS
  Tokens,
  Books,             \* bound: books that may be recorded
  Wants,             \* bound: sizes of the recommendations
  MaxHeld,           \* bound: contracts of one token
  MaxTicks,          \* bound: length of the recording
  InitialEquity,     \* opts.initialEquity
  EntrySlippageBps,  \* opts.fill.maxSlippagePct
  ExitSlippageBps,   \* opts.exitMaxSlippagePct
  FeeBps,            \* opts.fill.feeBps
  WarmupTicks, Cooldown, MaxHold, ExitRetry,  \* opts, the last three in ticks
  None

ASSUME BacktestAssumption ==
  /\ IsFiniteSet(Tokens)
  /\ Wants \subseteq Nat \ {0}
  /\ {MaxHeld, MaxTicks, InitialEquity, EntrySlippageBps, ExitSlippageBps, FeeBps} \subseteq Nat
  /\ {WarmupTicks, Cooldown} \subseteq Nat
  /\ {MaxHold, ExitRetry} \subseteq Nat \ {0}
  /\ \A book \in Books : /\ book.mid \in Nat
                         /\ {book.bids, book.asks} \subseteq Seq([price : Nat, size : Nat])
  /\ None \notin Int /\ None \notin [bid : Int, t : Nat]

Sides == {"BUY", "SELL"}
Times == 0..MaxTicks

VARIABLES
  latest,        \* latestBooks[token], or None
  qty, avg,      \* positions: contracts held of each token, their average price
  cash, realizedPnl, feesPaid,
  openedAt,      \* openedAt[token]: when the position was opened, or None
  exitFailedAt,  \* [bid, t] of the exit that failed last, or None
  lastFillAt,    \* lastFillAt[<<token, side>>], or None
  t,             \* ticks so far
  phase,         \* what the runner is doing
  todo,          \* tokens that this phase has still to look at
  due,           \* tokens that the time stop found due at this tick (history variable)
  sold           \* tokens of which this time stop or final sweep sold (history variable)

books == <<qty, avg, cash, realizedPnl, feesPaid>>
marks == <<openedAt, exitFailedAt>>
vars  == <<latest, books, marks, lastFillAt, t, phase, todo, due, sold>>

Failures == [bid : Int, t : Times]

(* Every variable stays in its type: no position is short. *)
BacktestTypeOK ==
  /\ latest \in [Tokens -> Books \cup {None}]
  /\ qty \in [Tokens -> Nat] /\ avg \in [Tokens -> Nat]
  /\ cash \in Int /\ realizedPnl \in Int /\ feesPaid \in Nat
  /\ openedAt \in [Tokens -> Times \cup {None}]
  /\ exitFailedAt \in [Tokens -> Failures \cup {None}]
  /\ lastFillAt \in [Tokens \X Sides -> Times \cup {None}]
  /\ t \in Times
  /\ phase \in {"events", "hold", "recs", "flatten", "done"}
  /\ todo \subseteq Tokens /\ due \subseteq Tokens /\ sold \subseteq Tokens

-----------------------------------------------------------------------------
(* The fill model *)

Least(a, b) == IF a <= b THEN a ELSE b

Levels(book, side) == IF side = "BUY" THEN book.asks ELSE book.bids

(* How far an average cost / size is from the mid, to the taker's loss.    *)
TooFar(book, side, cost, size, cap) ==
  LET loss == IF side = "BUY" THEN cost - book.mid * size ELSE book.mid * size - cost
  IN loss * 10000 > cap * book.mid * size

(* Take what the next level has, unless the walk is over or the average    *)
(* would be too far from the mid.                                          *)
TakeLevel(book, side, cap, walk, level) ==
  LET take == Least(walk.left, level.size)
      cost == walk.cost + take * level.price
      size == walk.size + take
  IN IF walk.over \/ take = 0 THEN walk
     ELSE IF TooFar(book, side, cost, size, cap) THEN [walk EXCEPT !.over = TRUE]
     ELSE [walk EXCEPT !.cost = cost, !.size = size, !.left = walk.left - take]

simulateFill(book, side, size, cap) ==
  LET Step(walk, level) == TakeLevel(book, side, cap, walk, level)
      walk == FoldLeft(Step, [left |-> size, cost |-> 0, size |-> 0, over |-> FALSE],
                       Levels(book, side))
  IN [size |-> walk.size, notional |-> walk.cost, fee |-> (walk.cost * FeeBps) \div 10000]

BestBid(book) == IF book.bids = <<>> THEN 0 ELSE book.bids[1].price

-----------------------------------------------------------------------------
(* The portfolio *)

Held == {token \in Tokens : qty[token] > 0}

Charge(fill, amount) ==
  /\ cash' = cash + amount - fill.fee
  /\ feesPaid' = feesPaid + fill.fee

Buy(token, fill) ==
  LET more == qty[token] + fill.size IN
  /\ qty' = [qty EXCEPT ![token] = more]
  /\ avg' = [avg EXCEPT ![token] = (qty[token] * @ + fill.notional) \div more]
  /\ Charge(fill, -fill.notional)
  /\ UNCHANGED realizedPnl

(* No more is sold than is held, at the average price of the whole fill;   *)
(* the fee is that of the whole fill.                                      *)
SoldAll(token, fill) == fill.size                                   \* mutant
Sold(token, fill) == Least(fill.size, qty[token])

ProfitOfAll(token, fill) ==                                         \* mutant
  fill.notional - fill.size * avg[token]
Profit(token, fill) ==
  Sold(token, fill) * (fill.notional \div fill.size - avg[token])

Sell(token, fill) ==
  LET left == qty[token] - Sold(token, fill) IN
  /\ qty' = [qty EXCEPT ![token] = left]
  /\ avg' = [avg EXCEPT ![token] = IF left = 0 THEN 0 ELSE @]
  /\ Charge(fill, Sold(token, fill) * (fill.notional \div fill.size))
  /\ realizedPnl' = realizedPnl + Profit(token, fill)

-----------------------------------------------------------------------------
(* The runner *)

(* A book that has a mid and was recorded for the token. *)
BookEvent(token) ==
  /\ phase = "events"
  /\ \E book \in Books : latest' = [latest EXCEPT ![token] = book]
  /\ UNCHANGED <<books, marks, lastFillAt, t, phase, todo, due, sold>>

Due(token) == openedAt[token] # None /\ t' - openedAt[token] >= MaxHold

TickEvent ==
  /\ phase = "events" /\ t < MaxTicks
  /\ t' = t + 1
  /\ phase' = "hold"
  /\ due' = {token \in Tokens : Due(token)}
  /\ todo' = due' /\ sold' = {}
  /\ UNCHANGED <<latest, books, marks, lastFillAt>>

(* The exit that failed last is not tried again at its price for a while.  *)
GuardNoTime(token) ==                                               \* mutant
  exitFailedAt[token] # None /\ exitFailedAt[token].bid = BestBid(latest[token])
Guarded(token) ==
  /\ exitFailedAt[token] # None
  /\ exitFailedAt[token].bid = BestBid(latest[token])
  /\ t - exitFailedAt[token].t < ExitRetry

Closing(token) == simulateFill(latest[token], "SELL", qty[token], ExitSlippageBps)

Forget(token) == openedAt' = [openedAt EXCEPT ![token] = IF qty'[token] = 0 THEN None ELSE @]

(* _closePosition *)
ClosePosition(token, guarded) ==
  \/ /\ latest[token] = None \/ qty[token] = 0 \/ guarded
     /\ UNCHANGED <<books, marks>>
  \/ /\ latest[token] # None /\ qty[token] > 0 /\ ~guarded
     /\ Closing(token).size = 0
     /\ exitFailedAt' = [exitFailedAt EXCEPT ![token] = [bid |-> BestBid(latest[token]), t |-> t]]
     /\ UNCHANGED <<books, openedAt>>
  \/ /\ latest[token] # None /\ qty[token] > 0 /\ ~guarded
     /\ Closing(token).size > 0
     /\ Sell(token, Closing(token))
     /\ exitFailedAt' = [exitFailedAt EXCEPT ![token] = None]
     /\ Forget(token)

(* The time stop, for one token that is due. *)
ApplyMaxHold(token) ==
  /\ phase = "hold" /\ token \in todo
  /\ ClosePosition(token, latest[token] # None /\ Guarded(token))
  /\ sold' = IF qty'[token] < qty[token] THEN sold \cup {token} ELSE sold
  /\ todo' = todo \ {token}
  /\ UNCHANGED <<latest, lastFillAt, t, phase, due>>

(* Then the recommendations, except in the warm-up: at most one a token. *)
Decide ==
  /\ phase = "hold" /\ todo = {}
  /\ phase' = IF t <= WarmupTicks THEN "events" ELSE "recs"
  /\ todo' = IF t <= WarmupTicks THEN {} ELSE Tokens
  /\ due' = {}
  /\ UNCHANGED <<latest, books, marks, lastFillAt, t, sold>>

CoolingDown(token, side) ==
  lastFillAt[<<token, side>>] # None /\ t - lastFillAt[<<token, side>>] < Cooldown

(* _handleRec, as far as a fill. *)
Fill(token, side, want) ==
  IF latest[token] = None \/ CoolingDown(token, side)
  THEN [size |-> 0, notional |-> 0, fee |-> 0]
  ELSE simulateFill(latest[token], side, want, EntrySlippageBps)

RecBuy(token) ==
  /\ phase = "recs" /\ token \in todo
  /\ \E want \in Wants :
       LET fill == Fill(token, "BUY", want) IN
       /\ fill.size > 0 /\ qty[token] + fill.size <= MaxHeld
       /\ Buy(token, fill)
  /\ openedAt' = [openedAt EXCEPT ![token] = IF @ = None THEN t ELSE @]
  /\ lastFillAt' = [lastFillAt EXCEPT ![<<token, "BUY">>] = t]
  /\ todo' = todo \ {token}
  /\ UNCHANGED <<latest, exitFailedAt, t, phase, due, sold>>

KeepFailure(token) == exitFailedAt                                  \* mutant
ForgetFailure(token) ==
  [exitFailedAt EXCEPT ![token] = IF qty'[token] = 0 THEN None ELSE @]

RecSell(token) ==
  /\ phase = "recs" /\ token \in todo /\ qty[token] > 0
  /\ \E want \in Wants :
       LET fill == Fill(token, "SELL", want) IN
       /\ fill.size > 0
       /\ Sell(token, fill)
  /\ Forget(token)
  /\ exitFailedAt' = ForgetFailure(token)
  /\ lastFillAt' = [lastFillAt EXCEPT ![<<token, "SELL">>] = t]
  /\ todo' = todo \ {token}
  /\ UNCHANGED <<latest, t, phase, due, sold>>

(* No recommendation is left, or none that can be filled. *)
EndTick ==
  /\ phase = "recs"
  /\ phase' = "events" /\ todo' = {}
  /\ UNCHANGED <<latest, books, marks, lastFillAt, t, due, sold>>

(* The recording ends; with flattenAtEnd everything held is to be sold. *)
EndOfRecording ==
  /\ phase = "events"
  /\ phase' = "flatten" /\ todo' = Held /\ sold' = {}
  /\ UNCHANGED <<latest, books, marks, lastFillAt, t, due>>

(* The failure is forgotten first, so that nothing holds this exit back. *)
FlattenAtEnd(token) ==
  /\ phase = "flatten" /\ token \in todo
  /\ ClosePosition(token, FALSE)
  /\ sold' = IF qty'[token] < qty[token] THEN sold \cup {token} ELSE sold
  /\ todo' = todo \ {token}
  /\ UNCHANGED <<latest, lastFillAt, t, phase, due>>

Finish ==
  /\ phase = "flatten" /\ todo = {}
  /\ phase' = "done"
  /\ UNCHANGED <<latest, books, marks, lastFillAt, t, todo, due, sold>>

Init ==
  /\ latest = [token \in Tokens |-> None]
  /\ qty = [token \in Tokens |-> 0]
  /\ avg = [token \in Tokens |-> 0]
  /\ cash = InitialEquity /\ realizedPnl = 0 /\ feesPaid = 0
  /\ openedAt = [token \in Tokens |-> None]
  /\ exitFailedAt = [token \in Tokens |-> None]
  /\ lastFillAt = [x \in Tokens \X Sides |-> None]
  /\ t = 0 /\ phase = "events" /\ todo = {} /\ due = {} /\ sold = {}

Next ==
  \/ \E token \in Tokens :
       \/ BookEvent(token) \/ ApplyMaxHold(token)
       \/ RecBuy(token) \/ RecSell(token) \/ FlattenAtEnd(token)
  \/ TickEvent \/ Decide \/ EndTick \/ EndOfRecording \/ Finish

Spec == Init /\ [][Next]_vars

-----------------------------------------------------------------------------
(* Properties *)

Cost == MapThenSumSet(LAMBDA token : qty[token] * avg[token], Tokens)

(* portfolio.js:32-92: what the report is made of adds up: cash and what   *)
(* the positions cost are the initial equity, the realized profit and the  *)
(* fees, also when a recommendation sells more than is held.               *)
EquityExplained == cash + Cost = InitialEquity + realizedPnl - feesPaid

(* runner.js:165-172, 229-243: a position has a time of opening exactly    *)
(* while it is held, and a failed exit on record belongs to the position   *)
(* that is held now, never to an earlier one in the same token.            *)
MarksBelong ==
  \A token \in Tokens :
    /\ openedAt[token] # None <=> qty[token] > 0
    /\ exitFailedAt[token] # None
         => qty[token] > 0 /\ exitFailedAt[token].t >= openedAt[token]

(* runner.js:191-281: a position that is to be closed is tried, however    *)
(* the recorded prices move and whatever failed before: after the time     *)
(* stop, if it has a book at all, part of it was sold just now or an exit  *)
(* has failed within the retry time; after the sweep at the end part of it *)
(* was sold or its last book could take nothing.                           *)
ExitsAreTried ==
  \A token \in Tokens \ todo :
    qty[token] > 0 /\ latest[token] # None /\ token \notin sold =>
      /\ phase = "hold" /\ token \in due =>
           exitFailedAt[token] # None /\ t - exitFailedAt[token].t < ExitRetry
      /\ phase = "done" => Closing(token).size = 0

=============================================================================
