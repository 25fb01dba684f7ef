------------------------------ MODULE Accounts ------------------------------
(***************************************************************************)
(* What the live bot knows of its positions and of its profit, beside what *)
(* the exchange knows: orders with sizes that pass the order gate, fills   *)
(* and the events that report them (LiveExecutionEngine.applyFill), the    *)
(* position pass of a reconciliation (src/live/sync/reconciliation.js),    *)
(* the realized loss of the day and the halts it causes.                   *)
(*                                                                         *)
(* An order is accepted or refused at once here and its states are reduced *)
(* to open and not: ExecutionEngine has the rest.  A fill has the price of *)
(* its order.                                                              *)
(***************************************************************************)
EXTENDS OrderGate

CONSTANTS
  Tokens,
  Sizes, Books,   \* the sizes of recommendations, the order books there may be
  MaxDailyLoss,   \* config risk.maxDailyLoss
  FillEvents,     \* BOOLEAN: somebody calls applyFill for the fills of the exchange
  Restored,       \* positions from before the start; the snapshot may have them
  MaxOrders       \* bound: how many orders are placed

ASSUME AccountsAssumption ==
  /\ Sizes \subseteq Nat \ {0}
  /\ \A book \in Books, side \in Sides : Touch(book, side) \in Nat \ {0}
  /\ Restored \subseteq Positions
  /\ MaxDailyLoss \in Nat \ {0}
  /\ FillEvents \in BOOLEAN
  /\ MaxOrders \in Nat

VARIABLES
  positions,  \* positionStore._byToken: a function of the tokens it has
  risk,       \* realizedPnlToday and halted of the risk engine
  killed,     \* killSwitch._halted, by the loss of the day
  listed,     \* marketScanner.activeTokens
  reading,    \* the getPositionBalance in flight, with its answer, or none
  orders,     \* the orders that are not over: record and exchange
  placed,     \* how many there have been
  account,    \* the positions as the exchange's fills make them
  pending,    \* fills that wait to be reported
  newDay,     \* the day has changed since the risk engine last looked (its day)
  (* of the run *)
  lossSeen,   \* the store's profit of the day has been at the limit
  blind       \* the sizes of the orders whose position check did not know everything

botVars == <<positions, risk, killed, listed, reading>>
vars    == <<botVars, orders, placed, account, pending, newDay, lossSeen, blind>>

Orders ==
  [token : Tokens, side : Sides, size : Nat \ {0}, price : Nat,
   filled  : Nat,      \* filledSize of the record
   open    : BOOLEAN,  \* the record is in no terminal state
   matched : Nat,      \* what the exchange filled
   live    : BOOLEAN]  \* it rests at the exchange

Ids   == 1..MaxOrders
Fills == [order : Ids, from : Nat, size : Nat \ {0}]
NoReading == [token |-> "none", qty |-> 0]

(* An order is over when its record is closed, the exchange has it no longer
   and no fill of it waits. *)
NoOrder == [token |-> "none"]
Over(order, s, waiting) ==
  ~order.open /\ ~order.live /\ \A f \in waiting : f.order # s
Settled(os, waiting) ==
  [s \in Ids |-> IF os[s] # NoOrder /\ Over(os[s], s, waiting) THEN NoOrder ELSE os[s]]
IsOrder(s) == orders[s] # NoOrder

(* get: a token without a record is an empty position. *)
GetFrom(store, t) == IF t \in DOMAIN store THEN store[t] ELSE emptyPosition
Get(t) == GetFrom(positions, t)

Sound(order) ==
  /\ order.filled \in 0..order.size
  /\ order.matched \in 0..order.size
  /\ order.filled = order.size => ~order.open
  /\ order.matched = order.size => ~order.live

AccountsTypeOK ==
  /\ DOMAIN positions \subseteq Tokens
  /\ \A t \in DOMAIN positions : positions[t] \in Positions
  /\ account \in [Tokens -> Positions]
  /\ risk \in [pnl : Int, halted : BOOLEAN] /\ newDay \in BOOLEAN
  /\ killed \in BOOLEAN
  /\ listed \subseteq Tokens
  /\ reading = NoReading \/ reading \in [token : Tokens, qty : Int]
  /\ orders \in [Ids -> Orders \cup {NoOrder}] /\ placed \in 0..MaxOrders
  /\ \A i \in Ids : IsOrder(i) => Sound(orders[i])
  /\ pending \subseteq Fills
  /\ lossSeen \in BOOLEAN
  /\ blind \in [Tokens -> Nat]

-----------------------------------------------------------------------------
(* The risk engine and the kill switch *)

(* _maybeRollDay, which every call of the risk engine begins with. *)
Today == IF newDay THEN [pnl |-> 0, halted |-> FALSE] ELSE risk
Rolls == risk' = Today /\ newDay' = FALSE

(* recordRealizedPnl; a halt stays for the day. *)
LossPassed(pnl)  == pnl < -MaxDailyLoss                             \* mutant
LossReached(pnl) == pnl <= -MaxDailyLoss

RecordRealizedPnl(delta) ==
  IF delta = 0 THEN UNCHANGED <<risk, newDay>>
  ELSE /\ risk' = [pnl    |-> Today.pnl + delta,
                   halted |-> Today.halted \/ LossReached(Today.pnl + delta)]
       /\ newDay' = FALSE

Blocked == killed \/ Today.halted

(* evaluate, at the beginning of a tick. *)
Evaluate ==
  /\ ~killed
  /\ reading = NoReading
  /\ Rolls
  /\ killed' = LossReached(Today.pnl)
  /\ UNCHANGED <<positions, listed, reading, orders, placed, account, pending, lossSeen, blind>>

-----------------------------------------------------------------------------
(* Orders *)

(* Whether the position the gate sees is not all there is to come. *)
Blind(t) ==
  \/ Get(t).qty # account[t].qty
  \/ \E i \in Ids : IsOrder(i) /\ orders[i].token = t /\ orders[i].live

(* The tick's thread: no order is placed while a reconciliation runs. *)
PlaceOrder(t, side, size, book) ==
  LET sent == SentSize(book, Get(t).qty, side, size) IN
  /\ placed < MaxOrders
  /\ placed' = placed + 1
  /\ reading = NoReading
  /\ t \in listed
  /\ ~Blocked
  /\ sent > 0
  /\ Rolls
  /\ orders' = [orders EXCEPT ![placed + 1] =
       [token |-> t, side |-> side, size |-> sent, price |-> Touch(book, side),
        filled |-> 0, open |-> TRUE, matched |-> 0, live |-> TRUE]]
  /\ blind' = [blind EXCEPT ![t] = IF Blind(t) THEN @ + sent ELSE @]
  /\ UNCHANGED <<positions, killed, listed, reading, account, pending, lossSeen>>

(* An answer says that the order is over; its record becomes FILLED or CANCELLED. *)
OrderReported(i) ==
  /\ orders[i].open
  /\ ~orders[i].live
  /\ orders' = Settled([orders EXCEPT ![i].open = FALSE], pending)
  /\ UNCHANGED <<botVars, placed, account, pending, newDay, lossSeen, blind>>

(***************************************************************************)
(* applyFill: nothing is done for a record in a terminal state.            *)
(***************************************************************************)
Fill(f) == Filled(Get(orders[f.order].token), orders[f.order].side, f.size, orders[f.order].price)

(* The size is the most a record counts as filled; it closes then. *)
FilledSize(order, n) == Least(order.size, order.filled + n)
StaysOpen(order, n) == FilledSize(order, n) <= order.size           \* mutant
StillOpen(order, n) == FilledSize(order, n) < order.size

Put(t, pos) == [u \in DOMAIN positions \cup {t} |-> IF u = t THEN pos ELSE positions[u]]

Account(f) ==
  LET order == orders[f.order]
      t     == order.token
      pnl   == Fill(f).realized - Get(t).realized
  IN
  /\ positions' = Put(t, Fill(f))
  /\ RecordRealizedPnl(pnl)
  /\ lossSeen' = (lossSeen \/ Today.pnl + pnl <= -MaxDailyLoss)
  /\ orders' = Settled([orders EXCEPT ![f.order].filled = FilledSize(order, f.size),
                                      ![f.order].open   = StillOpen(order, f.size)],
                       pending \ {f})

Dropped(f) ==
  UNCHANGED <<positions, risk, newDay, lossSeen>> /\ orders' = Settled(orders, pending \ {f})

ApplyFill(f) ==
  /\ f \in pending
  /\ pending' = pending \ {f}
  /\ IF orders[f.order].open THEN Account(f) ELSE Dropped(f)
  /\ UNCHANGED <<killed, listed, reading, placed, account, blind>>

-----------------------------------------------------------------------------
(* The position pass of a reconciliation *)

(* The exchange answers with the balance it has now. *)
BalanceAsked(t) ==
  /\ reading = NoReading
  /\ ~Blocked
  /\ t \in listed \cup DOMAIN positions
  /\ reading' = [token |-> t, qty |-> account[t].qty]
  /\ UNCHANGED <<positions, risk, killed, listed, orders, placed, account, pending, newDay, lossSeen, blind>>

(* The store takes the quantity over; what it cost is not known. *)
OnlyHeld(pos, qty) == IF qty = 0 THEN pos ELSE [pos EXCEPT !.qty = qty]  \* mutant
Overwritten(pos, qty) == [pos EXCEPT !.qty = qty, !.avg = IF qty = 0 THEN 0 ELSE @]

BalanceReturns(t) ==
  /\ reading.token = t
  /\ reading' = NoReading
  /\ positions' = IF Get(t).qty = reading.qty THEN positions
                  ELSE Put(t, Overwritten(Get(t), reading.qty))
  /\ UNCHANGED <<risk, killed, listed, orders, placed, account, pending, newDay, lossSeen, blind>>

BalanceFails ==
  /\ reading # NoReading
  /\ reading' = NoReading
  /\ UNCHANGED <<positions, risk, killed, listed, orders, placed, account, pending, newDay, lossSeen, blind>>

-----------------------------------------------------------------------------
(* The world *)

ExchangeFills(i, n) ==
  LET order == orders[i] IN
  /\ order.live
  /\ n <= order.size - order.matched
  /\ account' = [account EXCEPT ![order.token] = Filled(@, order.side, n, order.price)]
  /\ pending' = IF FillEvents
                  THEN pending \cup {[order |-> i, from |-> order.matched, size |-> n]}
                  ELSE pending
  /\ orders' = Settled([orders EXCEPT ![i].matched = @ + n,
                                      ![i].live    = order.matched + n < order.size], pending')
  /\ UNCHANGED <<botVars, placed, newDay, lossSeen, blind>>

ExchangeCloses(i) ==
  /\ orders[i].live
  /\ orders' = Settled([orders EXCEPT ![i].live = FALSE], pending)
  /\ UNCHANGED <<botVars, placed, account, pending, newDay, lossSeen, blind>>

(* refreshActiveTokens *)
Refresh(tokens) ==
  /\ listed' = tokens
  /\ UNCHANGED <<positions, risk, killed, reading, orders, placed, account, pending, newDay, lossSeen, blind>>

DayPasses ==
  /\ newDay' = TRUE
  /\ lossSeen' = FALSE
  /\ UNCHANGED <<botVars, orders, placed, account, pending, blind>>

-----------------------------------------------------------------------------
(* Specification *)

Init ==
  /\ account \in [Tokens -> Restored]
  /\ \E known \in SUBSET {t \in Tokens : account[t].qty # 0} :
        positions = [t \in known |-> account[t]]
  /\ risk = [pnl |-> 0, halted |-> FALSE] /\ newDay = FALSE
  /\ killed = FALSE
  /\ listed = Tokens
  /\ reading = NoReading
  /\ orders = [s \in Ids |-> NoOrder] /\ placed = 0
  /\ pending = {}
  /\ lossSeen = FALSE
  /\ blind = [t \in Tokens |-> 0]

OrderStep(i) ==
  /\ IsOrder(i)
  /\ \/ OrderReported(i)
     \/ ExchangeCloses(i)
     \/ \E n \in 1..MaxOrderQty : ExchangeFills(i, n)

Next ==
  \/ Evaluate
  \/ \E t \in Tokens :
       \/ \E side \in Sides, size \in Sizes, book \in Books : PlaceOrder(t, side, size, book)
       \/ BalanceAsked(t) \/ BalanceReturns(t)
  \/ BalanceFails
  \/ \E f \in pending : ApplyFill(f)
  \/ \E i \in Ids : OrderStep(i)
  \/ \E tokens \in SUBSET Tokens : Refresh(tokens)
  \/ DayPasses

Spec == Init /\ [][Next]_vars

(***************************************************************************)
(* The loop goes on with its passes, and not every request fails.          *)
(***************************************************************************)
FairSpec ==
  /\ Spec
  /\ \A t \in Tokens : WF_vars(BalanceAsked(t)) /\ SF_vars(BalanceReturns(t))
  /\ WF_vars(\E f \in pending : ApplyFill(f))

-----------------------------------------------------------------------------
(* Properties *)

(***************************************************************************)
(* positionStore.js, applyFill: whatever fill meets whatever position, also *)
(* through zero and after a reconciliation has overwritten the quantity,    *)
(* what it realizes is what it brings in less the change of what the        *)
(* position cost, up to the rounding of the average when it adds.           *)
(***************************************************************************)
KeepsValue(before, after, side, size, price) ==
  2 * Abs(after.realized - before.realized + Paid(side, size, price)
            - (Cost(after) - Cost(before)))
    <= IF Adds(before, side) THEN Abs(after.qty) ELSE 0

FillsKeepValue ==
  [][\A f \in pending \ pending' :
       LET order == orders[f.order] IN
       order.open => KeepsValue(Get(order.token), GetFrom(positions', order.token),
                                   order.side, f.size, order.price)]_vars

(***************************************************************************)
(* risk_engine/index.js:92 and killSwitch.js:118: once the profit the      *)
(* store has realized in a day has been at the limit no order is placed    *)
(* that day, also when a later fill brings it back above.                  *)
(***************************************************************************)
NoOrderPastLoss == [][placed' # placed => ~lossSeen]_vars

(***************************************************************************)
(* maxPositionPerMarket bounds what is held, except for orders whose check *)
(* could not see everything: placed while another order of the token       *)
(* rested, or on a quantity that the exchange had left behind.             *)
(***************************************************************************)
CapPlusBlind == \A t \in Tokens : Abs(account[t].qty) <= MaxPosition + blind[t]

(***************************************************************************)
(* Fills that are reported late, twice (by an event and by a balance), or  *)
(* never, and balances that are old when they arrive: as long as the bot   *)
(* goes on and the scanner or the store has the token, the store agrees    *)
(* with the exchange in the end.                                           *)
(***************************************************************************)
PositionsConverge ==
  \A t \in Tokens :
    <>[](~Blocked /\ t \in listed \cup DOMAIN positions)
      => <>[](Get(t).qty = account[t].qty)

(***************************************************************************)
(* CHANGELOG.md:284 says that the kill switch trips when the daily loss    *)
(* exceeds config.risk.maxDailyLoss.  So no order is placed on a day on    *)
(* which the account's own fills have lost that much, at the latest when   *)
(* reconciliation has brought the store's quantities up to date.  (For     *)
(* runs of one day.)                                                       *)
(***************************************************************************)
UpToDate == \A t \in Tokens : Get(t).qty = account[t].qty
RealizedProfit == FoldFunction(LAMBDA pos, sum : sum + pos.realized, 0, account)

LossStopsTrading ==
  [][placed' # placed /\ UpToDate => RealizedProfit > -MaxDailyLoss]_vars

=============================================================================
