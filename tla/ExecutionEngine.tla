-------------------------- MODULE ExecutionEngine --------------------------
(***************************************************************************)
(* LiveExecutionEngine (src/live/execution_engine/index.js) with the order *)
(* store, the signal deduper, the part of the risk engine and of the kill  *)
(* switch it drives, and the exchange it talks to.                         *)
(*                                                                         *)
(* The engine runs on one JavaScript thread: code between two awaits is    *)
(* one step, and every await is a point where other callers, the exchange  *)
(* and the clock may move.  A call in progress is a record in `calls`; its *)
(* op names the await it is suspended at.                                  *)
(***************************************************************************)
EXTENDS OrderStateMachine, Naturals, FiniteSets

CONSTANTS
  Callers,        \* activities that can be inside an engine call
  Keys,           \* signal keys (buildSignalKey results)
  OrderIds,       \* internal order ids
  ExtIds,         \* ids the exchange gives to accepted orders
  MaxConcurrent,  \* config.risk.maxConcurrentOrders
  MaxRejects,     \* config.risk.maxDailyRejects
  MaxErrors,      \* config.monitoring.maxConsecutiveErrors
  ApiMayFail,     \* BOOLEAN: exchange requests may end in an error
  None            \* null: no key, no order, no external id

ASSUME NoneAssumption == None \notin Keys \cup OrderIds \cup ExtIds
ASSUME IdsAssumption  == OrderIds \cap ExtIds = {}
ASSUME LimitsAssumption ==
  /\ MaxConcurrent \in Nat \ {0}
  /\ MaxRejects \in Nat \ {0}
  /\ MaxErrors \in Nat \ {0}
  /\ ApiMayFail \in BOOLEAN

VARIABLES
  (* order store: the three maps of OrderStore *)
  orders,      \* orders[id]: [state, key, ext]
  latest,      \* latest[key]: the id last created for the key (_bySignalKey)
  extIndex,    \* extIndex[ext]: the id the external id is wired to (_byExternalId)
  (* signal deduper: the keys with an entry that has not expired *)
  marked,
  (* risk engine *)
  tracked,     \* openOrderIds
  rejects,     \* rejectsToday, counted up to MaxRejects
  riskHalted,
  (* kill switch *)
  apiErrors,   \* _consecutiveErrors, counted up to MaxErrors
  killed,      \* _halted
  (* calls in progress *)
  calls,
  (* the exchange: requests on their way, and its order book *)
  wire,        \* submissions that may still arrive
  exchange     \* exchange[ext]: [st, by]

storeVars    == <<orders, latest, extIndex>>
riskVars     == <<tracked, rejects, riskHalted>>
switchVars   == <<apiErrors, killed>>
exchangeVars == <<wire, exchange>>
engineVars   == <<orders, latest, extIndex, marked, tracked, rejects, riskHalted,
                  apiErrors, killed, calls, wire, exchange>>

-----------------------------------------------------------------------------
(* Types *)

OrderRecords == [state : States, key : Keys \cup {None}, ext : ExtIds \cup {None}]
NoOrder      == [state |-> Absent, key |-> None, ext |-> None]

(***************************************************************************)
(* The awaits: "book" and "submit" in placeOrder, "cancel" in cancelOrder, *)
(* "cancelAll" and "openOrders" in their methods, "status" in              *)
(* refreshOrderStatus; "stale" is between two cancels of cancelStaleOrders.*)
(***************************************************************************)
Ops == {"idle", "book", "submit", "cancel", "orphan", "stale", "cancelAll",
        "openOrders", "status"}

CallRecords ==
  [op    : Ops,
   key   : Keys \cup {None},
   id    : OrderIds \cup {None},
   ext   : ExtIds \cup {None},    \* order.externalOrderId read before the await
   queue : SUBSET OrderIds,       \* orders cancelStaleOrders still has to cancel
   done  : BOOLEAN,               \* the exchange has acted on the request
   seen  : SUBSET ExtIds,         \* answer of getOpenOrders
   reply : {"none", "open", "filled", "cancelled"}]   \* answer of getOrderStatus

Call(op, key, id, ext, queue) ==
  [op |-> op, key |-> key, id |-> id, ext |-> ext, queue |-> queue,
   done |-> FALSE, seen |-> {}, reply |-> "none"]

(* The call once the exchange has acted on its request and answered it. *)
Answer(call, seen, reply) ==
  [op |-> call.op, key |-> call.key, id |-> call.id, ext |-> call.ext,
   queue |-> call.queue, done |-> TRUE, seen |-> seen, reply |-> reply]

IdleCall == Call("idle", None, None, None, {})

ExchangeRecords == [st : {"free", "open", "filled", "cancelled"},
                    by : OrderIds \cup {None}]

TypeOK ==
  /\ orders \in [OrderIds -> OrderRecords]
  /\ latest \in [Keys -> OrderIds \cup {None}]
  /\ extIndex \in [ExtIds -> OrderIds \cup {None}]
  /\ marked \subseteq Keys
  /\ tracked \subseteq ExtIds \cup OrderIds
  /\ rejects \in 0..MaxRejects
  /\ riskHalted \in BOOLEAN
  /\ apiErrors \in 0..MaxErrors
  /\ killed \in BOOLEAN
  /\ calls \in [Callers -> CallRecords]
  /\ wire \subseteq OrderIds
  /\ exchange \in [ExtIds -> ExchangeRecords]

-----------------------------------------------------------------------------
(* Order store helpers *)

IsWorking(id) == orders[id].state \in Working
IsOpenOrder(id) == orders[id].state \in Open

HasWorkingKey(key) == latest[key] # None /\ IsWorking(latest[key])   \* mutant
HasSignalKey(key) == latest[key] # None /\ IsOpenOrder(latest[key])

(* The external-id index, updated when an order learns its external id. *)
ForgetExternalId(ext, id) == extIndex' = extIndex              \* mutant
IndexExternalId(ext, id) ==
  extIndex' = IF ext # None THEN [extIndex EXCEPT ![ext] = id] ELSE extIndex

(* The name an order goes by in the risk engine: externalOrderId || orderId. *)
RiskName(id) == IF orders[id].ext # None THEN orders[id].ext ELSE id

Moved(order, to)     == [order EXCEPT !.state = TransitionOrder(@, to)]
Transitioned(id, to) == [orders EXCEPT ![id] = Moved(@, to)]

-----------------------------------------------------------------------------
(* Risk engine and kill switch counters, saturating at the value tested for. *)

UpTo(limit, n) == IF n > limit THEN limit ELSE n

RecordRejects(n) ==
  /\ rejects' = UpTo(MaxRejects, rejects + n)
  /\ riskHalted' = (riskHalted \/ rejects + n >= MaxRejects)

(* The open-order set, and the limit checkOrder puts on it. *)
ForgetOrder(name) == tracked' = tracked                             \* mutant
TrackOrder(name)  == tracked' = tracked \cup {name}

AtOrderLimit    == Cardinality(tracked) <= MaxConcurrent            \* mutant
BelowOrderLimit == Cardinality(tracked) < MaxConcurrent

RecordApiFailure == apiErrors' = UpTo(MaxErrors, apiErrors + 1)
RecordApiSuccess == apiErrors' = 0

-----------------------------------------------------------------------------
(* placeOrder *)

Idle(c) == calls[c].op = "idle"
At(c, op) == calls[c].op = op
SetCall(c, call) == calls' = [calls EXCEPT ![c] = call]
Return(c) == SetCall(c, IdleCall)

(* The request a call waits for has been answered. *)
NotAwaited(c) == TRUE                                               \* mutant
Answered(c)   == calls[c].done

(***************************************************************************)
(* The gates in front of the first await: halted kill switch, deduper,     *)
(* open order of the same key.  A call that fails one returns at once and  *)
(* changes nothing.                                                        *)
(***************************************************************************)
PlaceBegin(c, key) ==
  /\ Idle(c)
  /\ ~killed
  /\ key \notin marked
  /\ ~HasSignalKey(key)
  /\ SetCall(c, Call("book", key, None, None, {}))
  /\ UNCHANGED <<storeVars, marked, riskVars, switchVars, exchangeVars>>

(***************************************************************************)
(* After the order book: the risk check or the slippage guard refuses the  *)
(* order.  Prices, sizes and books are not modelled, so a refusal is       *)
(* always possible.  Input that checkOrder finds malformed is counted      *)
(* twice, once by checkOrder and once by placeOrder.                       *)
(***************************************************************************)
PlaceRefused(c, malformed) ==
  /\ At(c, "book")
  /\ RecordRejects(IF malformed THEN 2 ELSE 1)
  /\ marked' = marked \cup {calls[c].key}
  /\ Return(c)
  /\ UNCHANGED <<storeVars, tracked, switchVars, exchangeVars>>

(* OrderStore.create finds an open order of the key made since the gate. *)
PlaceDuplicate(c) ==
  /\ At(c, "book")
  /\ ~riskHalted
  /\ BelowOrderLimit
  /\ HasSignalKey(calls[c].key)
  /\ Return(c)
  /\ UNCHANGED <<storeVars, marked, riskVars, switchVars, exchangeVars>>

(* The order is registered, marked in the deduper and submitted. *)
PlaceSubmit(c, id) ==
  LET key == calls[c].key IN
  /\ At(c, "book")
  /\ ~riskHalted
  /\ BelowOrderLimit
  /\ ~HasSignalKey(key)
  /\ orders[id] = NoOrder
  /\ orders' = [orders EXCEPT ![id] = [state |-> TransitionOrder(Absent, SignalDetected),
                                       key |-> key, ext |-> None]]
  /\ latest' = [latest EXCEPT ![key] = id]
  /\ marked' = marked \cup {key}
  /\ wire' = wire \cup {id}
  /\ SetCall(c, Call("submit", key, id, None, {}))
  /\ UNCHANGED <<extIndex, riskVars, switchVars, exchange>>

(***************************************************************************)
(* The exchange answered: with the id of the order it accepted, or with a  *)
(* response that names no id (ext = None).  Should the state machine       *)
(* refuse the transition, the order is cancelled at the exchange.          *)
(***************************************************************************)
PlaceAccepted(c, ext) ==
  LET id == calls[c].id IN
  /\ At(c, "submit")
  /\ IF ext # None THEN exchange[ext].by = id
                   ELSE id \notin wire /\ \A e \in ExtIds : exchange[e].by # id
  /\ RecordApiSuccess
  /\ IF CanTransition(orders[id].state, OrderPlaced)
       THEN /\ orders' = [Transitioned(id, OrderPlaced) EXCEPT ![id].ext = ext]
            /\ IndexExternalId(ext, id)
            /\ TrackOrder(IF ext # None THEN ext ELSE id)
            /\ Return(c)
       ELSE /\ SetCall(c, IF ext = None THEN IdleCall
                          ELSE Call("orphan", None, None, ext, {}))
            /\ UNCHANGED <<orders, extIndex, tracked>>
  /\ UNCHANGED <<latest, marked, rejects, riskHalted, killed, exchangeVars>>

(***************************************************************************)
(* client.placeOrder threw.  The submission may have been accepted all the *)
(* same, or may still be on its way.                                       *)
(***************************************************************************)
PlaceError(c) ==
  /\ ApiMayFail
  /\ At(c, "submit")
  /\ RecordApiFailure
  /\ RecordRejects(1)
  /\ orders' = Transitioned(calls[c].id, Failed)
  /\ Return(c)
  /\ UNCHANGED <<latest, extIndex, marked, tracked, killed, exchangeVars>>

-----------------------------------------------------------------------------
(* cancelOrder and cancelStaleOrders *)

(* A call with these orders still to cancel; none left: the call is over. *)
StillToCancel(queue) ==
  IF queue = {} THEN IdleCall ELSE Call("stale", None, None, None, queue)

(* An order the exchange never named is cancelled locally, without an await. *)
CancelSynthetic(id) ==
  /\ orders[id].ext = None
  /\ tracked' = tracked \ {id}
  /\ orders' = Transitioned(id, Cancelled)

CancelRequest(c, id, rest) ==
  /\ orders[id].ext # None
  /\ SetCall(c, Call("cancel", None, id, orders[id].ext, rest))
  /\ UNCHANGED <<orders, tracked>>

CancelBegin(c, id) ==
  /\ Idle(c)
  /\ orders[id] # NoOrder
  /\ \/ CancelSynthetic(id) /\ UNCHANGED calls
     \/ CancelRequest(c, id, {})
  /\ UNCHANGED <<latest, extIndex, marked, rejects, riskHalted, switchVars, exchangeVars>>

(* An id the store does not know is still cancelled at the exchange. *)
CancelOrphan(c, ext) ==
  /\ Idle(c)
  /\ extIndex[ext] = None
  /\ SetCall(c, Call("orphan", None, None, ext, {}))
  /\ UNCHANGED <<storeVars, marked, riskVars, switchVars, exchangeVars>>

(* The answer does not say whether the order was still there to cancel. *)
CancelReturn(c) ==
  LET id == calls[c].id IN
  /\ At(c, "cancel")
  /\ Answered(c)
  /\ tracked' = tracked \ {calls[c].ext}
  /\ orders' = Transitioned(id, Cancelled)
  /\ SetCall(c, StillToCancel(calls[c].queue))
  /\ UNCHANGED <<latest, extIndex, marked, rejects, riskHalted, switchVars, exchangeVars>>

(* The attempts of withRetry are exhausted, or an orphan cancel is over. *)
CancelEnds(c) ==
  /\ (At(c, "cancel") /\ ApiMayFail) \/ At(c, "orphan")
  /\ SetCall(c, StillToCancel(calls[c].queue))
  /\ UNCHANGED <<storeVars, marked, riskVars, switchVars, exchangeVars>>

(***************************************************************************)
(* The working orders older than orderTimeoutMs are collected, then        *)
(* cancelled one after the other.  Any working order may be that old.      *)
(***************************************************************************)
CancelStaleBegin(c, stale) ==
  /\ Idle(c)
  /\ stale # {} /\ \A id \in stale : IsWorking(id)
  /\ SetCall(c, StillToCancel(stale))
  /\ UNCHANGED <<storeVars, marked, riskVars, switchVars, exchangeVars>>

(* The list is not read again: an order may have closed since it was made. *)
CancelStaleNext(c, id) ==
  LET rest == calls[c].queue \ {id} IN
  /\ At(c, "stale")
  /\ id \in calls[c].queue
  /\ \/ CancelSynthetic(id) /\ SetCall(c, StillToCancel(rest))
     \/ CancelRequest(c, id, rest)
  /\ UNCHANGED <<latest, extIndex, marked, rejects, riskHalted, switchVars, exchangeVars>>

-----------------------------------------------------------------------------
(* cancelAllOrders *)

(***************************************************************************)
(* Both users of cancelAllOrders halt first, in the same step: the tick    *)
(* whose kill switch has tripped, and the shutdown handler, which also     *)
(* stops the risk engine (emergency).                                      *)
(***************************************************************************)
HaltAndCancelAll(c, emergency) ==
  /\ Idle(c)
  /\ killed' = TRUE
  /\ riskHalted' = (riskHalted \/ emergency)
  /\ SetCall(c, Call("cancelAll", None, None, None, {}))
  /\ UNCHANGED <<storeVars, marked, tracked, rejects, apiErrors, exchangeVars>>

(* Every order open in the store when the answer comes is closed. *)
CancelAllReturn(c) ==
  /\ At(c, "cancelAll")
  /\ Answered(c)
  /\ tracked' = {}
  /\ orders' = [id \in OrderIds |-> Moved(orders[id], Cancelled)]
  /\ Return(c)
  /\ UNCHANGED <<latest, extIndex, marked, rejects, riskHalted, switchVars, exchangeVars>>

CancelAllError(c) ==
  /\ ApiMayFail
  /\ At(c, "cancelAll")
  /\ Return(c)
  /\ UNCHANGED <<storeVars, marked, riskVars, switchVars, exchangeVars>>

-----------------------------------------------------------------------------
(* getOpenOrders (live mode) *)

OpenOrdersBegin(c) ==
  /\ Idle(c)
  /\ SetCall(c, Call("openOrders", None, None, None, {}))
  /\ UNCHANGED <<storeVars, marked, riskVars, switchVars, exchangeVars>>

(* The ids of the listed orders. *)
MisnamedIds(c) == IF calls[c].seen = {} THEN {} ELSE {None}         \* mutant
ListedIds(c)   == calls[c].seen

OpenOrdersReturn(c) ==
  /\ At(c, "openOrders")
  /\ Answered(c)
  /\ tracked' = ListedIds(c)
  /\ Return(c)
  /\ UNCHANGED <<storeVars, marked, rejects, riskHalted, switchVars, exchangeVars>>

OpenOrdersError(c) ==
  /\ ApiMayFail
  /\ At(c, "openOrders")
  /\ Return(c)
  /\ UNCHANGED <<storeVars, marked, riskVars, switchVars, exchangeVars>>

-----------------------------------------------------------------------------
(* refreshOrderStatus *)

StatusBegin(c, id) ==
  /\ Idle(c)
  /\ orders[id].ext # None
  /\ IsOpenOrder(id)
  /\ SetCall(c, Call("status", None, id, orders[id].ext, {}))
  /\ UNCHANGED <<storeVars, marked, riskVars, switchVars, exchangeVars>>

(***************************************************************************)
(* The status map knows final statuses only.  The transition is checked    *)
(* against the order as it is now, not as it was before the await.         *)
(***************************************************************************)
StatusReturn(c) ==
  LET id == calls[c].id
      mapped == IF calls[c].reply = "filled" THEN Filled ELSE Cancelled
  IN
  /\ At(c, "status")
  /\ Answered(c)
  /\ IF calls[c].reply # "open" /\ CanTransition(orders[id].state, mapped)
       THEN /\ orders' = Transitioned(id, mapped)
            /\ tracked' = tracked \ {calls[c].ext}
       ELSE UNCHANGED <<orders, tracked>>
  /\ Return(c)
  /\ UNCHANGED <<latest, extIndex, marked, rejects, riskHalted, switchVars, exchangeVars>>

StatusError(c) ==
  /\ ApiMayFail
  /\ At(c, "status")
  /\ Return(c)
  /\ UNCHANGED <<storeVars, marked, riskVars, switchVars, exchangeVars>>

-----------------------------------------------------------------------------
(***************************************************************************)
(* applyFill: a fill the exchange made is reported.  Sizes and prices are  *)
(* not modelled: whole says whether the fill completes the order, loss     *)
(* whether the profit it realizes makes the risk engine halt.  A           *)
(* transition the state machine rejects ends the call.                     *)
(***************************************************************************)
ApplyFill(id, whole, loss) ==
  LET to == IF whole THEN Filled ELSE PartialFill IN
  /\ orders[id].ext # None
  /\ whole => exchange[orders[id].ext].st = "filled"
  /\ CanTransition(orders[id].state, to)
  /\ orders' = Transitioned(id, to)
  /\ tracked' = IF whole THEN tracked \ {RiskName(id)} ELSE tracked
  /\ riskHalted' = (riskHalted \/ loss)
  /\ UNCHANGED <<latest, extIndex, marked, rejects, switchVars, calls, exchangeVars>>

-----------------------------------------------------------------------------
(* The clock *)

(* An entry of the deduper outlives its ttl. *)
KeyExpires(key) ==
  /\ key \in marked
  /\ marked' = marked \ {key}
  /\ UNCHANGED <<storeVars, riskVars, switchVars, calls, exchangeVars>>

(* The first risk call of a new UTC day: _maybeRollDay. *)
DayRolls ==
  /\ rejects # 0 \/ riskHalted
  /\ rejects' = 0
  /\ riskHalted' = FALSE
  /\ UNCHANGED <<storeVars, marked, tracked, switchVars, calls, exchangeVars>>

-----------------------------------------------------------------------------
(* The exchange *)

ExchangeStep == UNCHANGED <<storeVars, marked, riskVars, switchVars>>

Closed(e, st) == [st |-> st, by |-> exchange[e].by]
Book(e, st)   == [exchange EXCEPT ![e] = Closed(e, st)]

ExchangeAccepts(id, e) ==
  /\ id \in wire
  /\ exchange[e].st = "free"
  /\ exchange' = [exchange EXCEPT ![e] = [st |-> "open", by |-> id]]
  /\ wire' = wire \ {id}
  /\ ExchangeStep /\ UNCHANGED calls

(* Refused by the exchange, or lost on the way. *)
ExchangeDrops(id) ==
  /\ id \in wire
  /\ wire' = wire \ {id}
  /\ ExchangeStep /\ UNCHANGED <<calls, exchange>>

(* Filled by the market; closed by the user, an expiry or the market's end. *)
ExchangeCloses(e, st) ==
  /\ exchange[e].st = "open"
  /\ exchange' = Book(e, st)
  /\ ExchangeStep /\ UNCHANGED <<calls, wire>>

(* One attempt of a cancel request arrives; a retry may arrive again. *)
ExchangeCancels(c) ==
  LET e == calls[c].ext IN
  /\ At(c, "cancel") \/ At(c, "orphan")
  /\ exchange' = IF exchange[e].st = "open" THEN Book(e, "cancelled") ELSE exchange
  /\ SetCall(c, Answer(calls[c], {}, "none"))
  /\ ExchangeStep /\ UNCHANGED wire

ExchangeCancelsAll(c) ==
  /\ At(c, "cancelAll")
  /\ exchange' = [e \in ExtIds |-> IF exchange[e].st = "open"
                                   THEN Closed(e, "cancelled")
                                   ELSE exchange[e]]
  /\ SetCall(c, Answer(calls[c], {}, "none"))
  /\ ExchangeStep /\ UNCHANGED wire

ExchangeLists(c) ==
  /\ At(c, "openOrders")
  /\ SetCall(c, Answer(calls[c], {e \in ExtIds : exchange[e].st = "open"}, "none"))
  /\ ExchangeStep /\ UNCHANGED exchangeVars

ExchangeReports(c) ==
  /\ At(c, "status")
  /\ SetCall(c, Answer(calls[c], {}, exchange[calls[c].ext].st))
  /\ ExchangeStep /\ UNCHANGED exchangeVars

-----------------------------------------------------------------------------
(* Specification *)

Init ==
  /\ orders = [id \in OrderIds |-> NoOrder]
  /\ latest = [key \in Keys |-> None]
  /\ extIndex = [e \in ExtIds |-> None]
  /\ marked = {} /\ tracked = {} /\ rejects = 0 /\ riskHalted = FALSE
  /\ apiErrors = 0 /\ killed = FALSE
  /\ calls = [c \in Callers |-> IdleCall]
  /\ wire = {}
  /\ exchange = [e \in ExtIds |-> [st |-> "free", by |-> None]]

(* A call is made. *)
Begin(c) ==
  \/ \E key \in Keys : PlaceBegin(c, key)
  \/ \E id \in OrderIds : CancelBegin(c, id) \/ StatusBegin(c, id)
  \/ \E e \in ExtIds : CancelOrphan(c, e)
  \/ \E stale \in SUBSET OrderIds : CancelStaleBegin(c, stale)
  \/ \E emergency \in BOOLEAN : HaltAndCancelAll(c, emergency)
  \/ OpenOrdersBegin(c)

(* A suspended call runs on, to its next await or to its end. *)
Continue(c) ==
  \/ \E malformed \in BOOLEAN : PlaceRefused(c, malformed)
  \/ PlaceDuplicate(c)
  \/ \E id \in OrderIds : PlaceSubmit(c, id)
  \/ \E ext \in ExtIds \cup {None} : PlaceAccepted(c, ext)
  \/ PlaceError(c)
  \/ CancelReturn(c) \/ CancelEnds(c)
  \/ \E id \in OrderIds : CancelStaleNext(c, id)
  \/ CancelAllReturn(c) \/ CancelAllError(c)
  \/ OpenOrdersReturn(c) \/ OpenOrdersError(c)
  \/ StatusReturn(c) \/ StatusError(c)

Respond(c) ==
  \/ ExchangeCancels(c) \/ ExchangeCancelsAll(c)
  \/ ExchangeLists(c) \/ ExchangeReports(c)

Exchange ==
  \/ \E id \in OrderIds, e \in ExtIds : ExchangeAccepts(id, e)
  \/ \E id \in OrderIds : ExchangeDrops(id)
  \/ \E e \in ExtIds, st \in {"filled", "cancelled"} : ExchangeCloses(e, st)
  \/ \E c \in Callers : Respond(c)

Clock ==
  \/ \E key \in Keys : KeyExpires(key)
  \/ DayRolls

Next ==
  \/ \E c \in Callers : Begin(c) \/ Continue(c)
  \/ \E id \in OrderIds, whole \in BOOLEAN, loss \in BOOLEAN : ApplyFill(id, whole, loss)
  \/ Exchange
  \/ Clock

Spec == Init /\ [][Next]_engineVars

-----------------------------------------------------------------------------
(* Properties *)

(***************************************************************************)
(* However calls interleave, at most one order of a signal key is open in  *)
(* the store: the duplicate check of OrderStore.create is made in the step *)
(* that registers the order, after the awaits of placeOrder.               *)
(***************************************************************************)
OneOpenOrderPerSignal ==
  \A i, j \in OrderIds :
    IsOpenOrder(i) /\ IsOpenOrder(j) /\ orders[i].key = orders[j].key => i = j

(***************************************************************************)
(* An order in SIGNAL_DETECTED belongs to exactly one placeOrder call that *)
(* still waits for the exchange, and nothing moves it meanwhile.  So the   *)
(* post_submit_transition_failed branch of placeOrder is never taken, and  *)
(* no order is left in SIGNAL_DETECTED by a call that is over.             *)
(***************************************************************************)
InFlightOwned ==
  /\ \A c \in Callers : At(c, "submit") =>
        /\ calls[c].id \in OrderIds
        /\ orders[calls[c].id].state = SignalDetected
        /\ \A d \in Callers : At(d, "submit") /\ calls[d].id = calls[c].id => d = c
  /\ \A id \in OrderIds : orders[id].state = SignalDetected =>
        \E c \in Callers : At(c, "submit") /\ calls[c].id = id

(***************************************************************************)
(* The store and the exchange agree on who is who.  An order is submitted  *)
(* once, so the exchange holds at most one order for it; an external id in *)
(* the store is the one the exchange gave to that very order, and the      *)
(* index leads back from it; an order the exchange holds and the store has *)
(* no external id for is still in flight or was reported FAILED.           *)
(***************************************************************************)
StoreMatchesExchange ==
  /\ \A e, f \in ExtIds :
        exchange[e].by # None /\ exchange[e].by = exchange[f].by => e = f
  /\ \A id \in OrderIds : orders[id].ext # None =>
        /\ exchange[orders[id].ext].by = id
        /\ extIndex[orders[id].ext] = id
  /\ \A e \in ExtIds : exchange[e].by # None =>
        LET o == orders[exchange[e].by] IN
        o.ext = e \/ (o.ext = None /\ o.state \in {SignalDetected, Failed})

(***************************************************************************)
(* Until the kill switch trips, an order the store holds for cancelled or  *)
(* filled rests on the exchange no longer: cancelOrder and                 *)
(* refreshOrderStatus record an outcome only after the exchange produced   *)
(* it.  (FAILED carries no such promise: the submission is uncertain.)     *)
(***************************************************************************)
CancelledMeansGone ==
  ~killed => \A e \in ExtIds :
    exchange[e].st = "open" => orders[exchange[e].by].state \notin {Filled, Cancelled}

(***************************************************************************)
(* Until the kill switch trips, the exchange never works two orders of one *)
(* signal key, unless the submission of one of them was answered with an   *)
(* error: neither the expiry of a deduper entry nor concurrent callers     *)
(* double an exposure.                                                     *)
(***************************************************************************)
AtMostOneLiveOrder ==
  ~killed => \A e, f \in ExtIds :
    LET i == exchange[e].by
        j == exchange[f].by
    IN
    /\ exchange[e].st = "open" /\ orders[i].state # Failed
    /\ exchange[f].st = "open" /\ orders[j].state # Failed
    /\ orders[i].key = orders[j].key
    => e = f

(***************************************************************************)
(* The engine implements the order ledger: an order is entered once, under *)
(* a signal with no other open order, and once closed stays closed, however*)
(* late cancels, statuses and fills arrive.                                *)
(***************************************************************************)
StatusOf(state) ==
  IF state \in Terminal THEN "closed"
  ELSE IF state \in Working THEN "working"
  ELSE IF state = SignalDetected THEN "pending"
  ELSE "absent"

LedgerStatus == [id \in OrderIds |-> StatusOf(orders[id].state)]
LedgerSignal == [id \in OrderIds |-> orders[id].key]

Ledger == INSTANCE OrderLedger WITH status <- LedgerStatus, signal <- LedgerSignal

ImplementsLedger == Ledger!Spec

-----------------------------------------------------------------------------
(***************************************************************************)
(* The inductive invariant behind the properties above.                    *)
(***************************************************************************)

(* The latest order of a key is the only one that may be open. *)
LatestIsOpen ==
  \A id \in OrderIds :
    /\ IsOpenOrder(id) => orders[id].key \in Keys /\ latest[orders[id].key] = id
    /\ orders[id].state = Absent => orders[id] = NoOrder

(* Who may be on the wire, and which exchange orders are free. *)
WireAndBook ==
  /\ \A id \in wire : /\ orders[id].state \in {SignalDetected, Failed}
                      /\ orders[id].ext = None
                      /\ \A e \in ExtIds : exchange[e].by # id
  /\ \A e \in ExtIds : exchange[e].by = None <=> exchange[e].st = "free"

(***************************************************************************)
(* What a suspended call knows: a key and, with a cancel or a status       *)
(* request, the external id of its order; an answer in hand is not         *)
(* overtaken, because the exchange never reopens an order.  A cancel-all   *)
(* in progress means the kill switch has tripped.                          *)
(***************************************************************************)
CallKnows(call) ==
  /\ call.op \in {"book", "submit"} => call.key \in Keys
  /\ call.op = "submit" => call.id \in OrderIds
  /\ call.op \in {"cancel", "status"} =>
       /\ call.id \in OrderIds /\ call.ext \in ExtIds
       /\ orders[call.id].ext = call.ext
  /\ call.op = "orphan" => call.ext \in ExtIds
  /\ call.op = "cancel" /\ call.done => exchange[call.ext].st # "open"
  /\ call.op = "status" /\ call.done => call.reply \in {"open", exchange[call.ext].st}
  /\ call.op = "cancelAll" => killed

CallsKnow == \A c \in Callers : CallKnows(calls[c])

(* Name of the inductive invariant; the properties above are among its parts. *)
EngineInv ==
  /\ TypeOK
  /\ LatestIsOpen
  /\ InFlightOwned
  /\ StoreMatchesExchange
  /\ WireAndBook
  /\ CallsKnow
  /\ CancelledMeansGone

=============================================================================
