----------------------- MODULE ExecutionEngineProofs -----------------------
(***************************************************************************)
(* Proofs about ExecutionEngine, for any callers, keys, ids and limits.    *)
(*                                                                         *)
(* EngineInv is inductive.  Most actions belong to one of two families:    *)
(* they move a call and leave orders and exchange alone (CallMoves), or    *)
(* they close or partly fill working orders (OrdersClose).  The others     *)
(* are proved one by one.  The refinement of OrderLedger comes last.       *)
(***************************************************************************)
EXTENDS ExecutionEngine, TLAPS

USE NoneAssumption, IdsAssumption, LimitsAssumption
USE DEF Absent, SignalDetected, OrderPlaced, PartialFill, Filled, Cancelled, Failed,
        Terminal, Working, Open, States

-----------------------------------------------------------------------------
(* Operators *)

(***************************************************************************)
(* What transition requests do: only a working order is filled or          *)
(* cancelled, and no request leaves the states of the machine.             *)
(***************************************************************************)
LEMMA TransitionFacts ==
  /\ \A from, to \in States : TransitionOrder(from, to) \in States
  /\ TransitionOrder(Absent, SignalDetected) = SignalDetected
  /\ TransitionOrder(SignalDetected, OrderPlaced) = OrderPlaced
  /\ TransitionOrder(SignalDetected, Failed) = Failed
  /\ \A from \in States, to \in {PartialFill, Filled, Cancelled} :
       TransitionOrder(from, to) = IF from \in Working THEN to ELSE from
  BY DEF TransitionOrder, CanTransition, Allowed

(* A transition changes the state of an order, and nothing else of it. *)
LEMMA MovedFacts ==
  ASSUME NEW order \in OrderRecords, NEW to \in States
  PROVE  /\ Moved(order, to) \in OrderRecords
         /\ Moved(order, to).state = TransitionOrder(order.state, to)
         /\ Moved(order, to).key = order.key
         /\ Moved(order, to).ext = order.ext
<1>1. TransitionOrder(order.state, to) \in States
  BY TransitionFacts DEF OrderRecords
<1> QED BY <1>1 DEF Moved, OrderRecords

(* The order asked for is the only one that a transition changes. *)
LEMMA TransitionedFacts ==
  ASSUME TypeOK, NEW id \in OrderIds, NEW to \in States
  PROVE  /\ Transitioned(id, to) \in [OrderIds -> OrderRecords]
         /\ Transitioned(id, to)[id].state = TransitionOrder(orders[id].state, to)
         /\ Transitioned(id, to)[id].key = orders[id].key
         /\ Transitioned(id, to)[id].ext = orders[id].ext
         /\ \A other \in OrderIds : other # id =>
              Transitioned(id, to)[other] = orders[other]
<1>1. orders[id] \in OrderRecords
  BY DEF TypeOK
<1> QED BY <1>1, MovedFacts DEF Transitioned, TypeOK

(* A caller that is in no call knows nothing. *)
LEMMA IdleCallFacts == IdleCall \in CallRecords /\ CallKnows(IdleCall) /\ IdleCall.op = "idle"
  BY DEF IdleCall, Call, CallRecords, Ops, CallKnows

(* The saturating counters stay in their range. *)
LEMMA UpToFacts ==
  ASSUME NEW limit \in Nat, NEW n \in Nat PROVE UpTo(limit, n) \in 0..limit
  BY DEF UpTo

-----------------------------------------------------------------------------
(* The two families of steps *)

(* A call other than a submission goes on; orders and exchange do not change. *)
LEMMA CallMoves ==
  ASSUME EngineInv, NEW c \in Callers, NEW call \in CallRecords,
         SetCall(c, call), calls[c].op # "submit", call.op # "submit",
         CallKnows(call)',
         UNCHANGED <<orders, latest, extIndex, wire, exchange>>,
         killed' \in BOOLEAN, killed => killed',
         marked' \subseteq Keys, tracked' \subseteq ExtIds \cup OrderIds,
         rejects' \in 0..MaxRejects, riskHalted' \in BOOLEAN, apiErrors' \in 0..MaxErrors
  PROVE  EngineInv'
<1>1. TypeOK'
  BY DEF EngineInv, TypeOK, SetCall
<1>2. LatestIsOpen'
  BY DEF EngineInv, LatestIsOpen, IsOpenOrder
<1>3. InFlightOwned'
  BY DEF EngineInv, TypeOK, InFlightOwned, SetCall, At
<1>4. StoreMatchesExchange'
  BY DEF EngineInv, StoreMatchesExchange
<1>5. WireAndBook'
  BY DEF EngineInv, WireAndBook
<1>6. CallsKnow'
  <2> SUFFICES ASSUME NEW d \in Callers PROVE CallKnows(calls[d])'
    BY DEF CallsKnow
  <2>1. CASE d = c
    BY <2>1 DEF EngineInv, TypeOK, SetCall, CallKnows
  <2>2. CASE d # c
    BY <2>2 DEF EngineInv, TypeOK, SetCall, CallsKnow, CallKnows
  <2> QED BY <2>1, <2>2
<1>7. CancelledMeansGone'
  BY DEF EngineInv, CancelledMeansGone
<1> QED BY <1>1, <1>2, <1>3, <1>4, <1>5, <1>6, <1>7 DEF EngineInv

(***************************************************************************)
(* Working orders close or are partly filled, and the call that does so    *)
(* goes on.                                                                *)
(***************************************************************************)
LEMMA OrdersClose ==
  ASSUME EngineInv,
         orders' \in [OrderIds -> OrderRecords],
         \A id \in OrderIds :
           /\ orders'[id].key = orders[id].key
           /\ orders'[id].ext = orders[id].ext
           /\ \/ orders'[id] = orders[id]
              \/ orders[id].state \in Working /\ orders'[id].state \in {PartialFill, Filled, Cancelled},
         CancelledMeansGone',
         calls' \in [Callers -> CallRecords],
         \A c \in Callers : \/ calls'[c] = calls[c]
                            \/ /\ calls[c].op # "submit" /\ calls'[c].op # "submit"
                               /\ CallKnows(calls[c])',
         UNCHANGED <<latest, extIndex, marked, rejects, apiErrors, killed, wire, exchange>>,
         riskHalted' \in BOOLEAN, tracked' \subseteq ExtIds \cup OrderIds
  PROVE  EngineInv'
<1>1. TypeOK'
  BY DEF EngineInv, TypeOK
<1>2. LatestIsOpen'
  BY DEF EngineInv, TypeOK, OrderRecords, LatestIsOpen, IsOpenOrder
<1>3. InFlightOwned'
  BY DEF EngineInv, TypeOK, InFlightOwned, At
<1>4. StoreMatchesExchange'
  <2>1. ASSUME NEW e \in ExtIds, exchange[e].by # None
        PROVE  LET o == orders'[exchange[e].by] IN
               o.ext = e \/ (o.ext = None /\ o.state \in {SignalDetected, Failed})
    <3>1. PICK id \in OrderIds : id = exchange[e].by
      BY <2>1 DEF EngineInv, TypeOK, ExchangeRecords
    <3>2. \/ orders[id].ext = e
          \/ orders[id].ext = None /\ orders[id].state \notin Working
      BY <2>1, <3>1 DEF EngineInv, StoreMatchesExchange
    <3> QED BY <2>1, <3>1, <3>2 DEF EngineInv, StoreMatchesExchange
  <2> QED BY <2>1 DEF EngineInv, StoreMatchesExchange
<1>5. WireAndBook'
  <2>1. \A id \in wire : id \in OrderIds /\ orders'[id] = orders[id]
    BY DEF EngineInv, TypeOK, WireAndBook
  <2> QED BY <2>1 DEF EngineInv, WireAndBook
<1>6. CallsKnow'
  BY DEF EngineInv, TypeOK, CallsKnow, CallKnows
<1> QED BY <1>1, <1>2, <1>3, <1>4, <1>5, <1>6 DEF EngineInv

-----------------------------------------------------------------------------
(* placeOrder *)

(* placeOrder, up to the request for the order book. *)
LEMMA PlaceBeginKeeps ==
  ASSUME EngineInv, NEW c \in Callers, NEW key \in Keys, PlaceBegin(c, key)
  PROVE  EngineInv'
<1> DEFINE call == Call("book", key, None, None, {})
<1>1. call \in CallRecords /\ CallKnows(call)' /\ call.op # "submit"
  BY DEF Call, CallRecords, Ops, CallKnows
<1> QED
  BY <1>1, CallMoves DEF EngineInv, TypeOK, PlaceBegin, Idle, storeVars, riskVars,
                         switchVars, exchangeVars

(* placeOrder refused by the risk check or the slippage guard. *)
LEMMA PlaceRefusedKeeps ==
  ASSUME EngineInv, NEW c \in Callers, NEW malformed \in BOOLEAN, PlaceRefused(c, malformed)
  PROVE  EngineInv'
<1>1. CallKnows(IdleCall)'
  BY DEF IdleCall, Call, CallKnows
<1>2. calls[c].key \in Keys /\ calls[c].op = "book"
  BY DEF EngineInv, CallsKnow, CallKnows, PlaceRefused, At
<1>3. rejects' \in 0..MaxRejects /\ riskHalted' \in BOOLEAN
  BY DEF EngineInv, TypeOK, PlaceRefused, RecordRejects, UpTo
<1> QED
  BY <1>1, <1>2, <1>3, IdleCallFacts, CallMoves
  DEF EngineInv, TypeOK, PlaceRefused, Return, storeVars, switchVars, exchangeVars

(* placeOrder that finds an order of its key when it comes to create one. *)
LEMMA PlaceDuplicateKeeps ==
  ASSUME EngineInv, NEW c \in Callers, PlaceDuplicate(c)
  PROVE  EngineInv'
<1>1. CallKnows(IdleCall)'
  BY DEF IdleCall, Call, CallKnows
<1> QED
  BY <1>1, IdleCallFacts, CallMoves
  DEF EngineInv, TypeOK, PlaceDuplicate, At, Return, storeVars, riskVars, switchVars,
      exchangeVars

(* placeOrder, up to the submission: the new order takes over its key. *)
LEMMA PlaceSubmitKeeps ==
  ASSUME EngineInv, NEW c \in Callers, NEW id \in OrderIds, PlaceSubmit(c, id)
  PROVE  EngineInv'
<1>0. PICK key \in Keys : key = calls[c].key
  BY DEF EngineInv, CallsKnow, CallKnows, PlaceSubmit, At
<1> DEFINE call == Call("submit", key, id, None, {})
<1>1. /\ call \in CallRecords /\ CallKnows(call)'
      /\ calls' = [calls EXCEPT ![c] = call]
      /\ calls[c].op = "book" /\ call.op = "submit" /\ call.id = id
  BY <1>0 DEF EngineInv, CallKnows, PlaceSubmit, SetCall, At, Call, CallRecords, Ops
<1>2. /\ orders[id].state = Absent /\ orders[id].ext = None
      /\ orders' = [orders EXCEPT ![id] = [state |-> SignalDetected, key |-> key,
                                           ext |-> None]]
  <2>1. TransitionOrder(Absent, SignalDetected) = SignalDetected
    BY TransitionFacts
  <2>2. orders[id].state = Absent /\ orders[id].ext = None
    BY DEF PlaceSubmit, NoOrder
  <2>3. orders' = [orders EXCEPT ![id] = [state |-> SignalDetected, key |-> key, ext |-> None]]
    BY <1>0, <2>1 DEF PlaceSubmit
  <2> QED BY <2>2, <2>3
<1> USE <1>0, <1>1, <1>2 DEF PlaceSubmit, riskVars, switchVars
<1> HIDE DEF call
<1>3. TypeOK'
  BY DEF EngineInv, TypeOK, OrderRecords
<1>4. LatestIsOpen'
  BY DEF EngineInv, TypeOK, LatestIsOpen, HasSignalKey, IsOpenOrder
<1>5. InFlightOwned'
  BY DEF EngineInv, TypeOK, InFlightOwned, At
<1>6. StoreMatchesExchange'
  BY DEF EngineInv, TypeOK, ExchangeRecords, StoreMatchesExchange
<1>7. WireAndBook'
  BY DEF EngineInv, TypeOK, ExchangeRecords, StoreMatchesExchange, WireAndBook
<1>8. CallsKnow'
  <2>1. calls'[c] = call
    BY DEF EngineInv, TypeOK
  <2>2. CallKnows(calls[c])'
    BY <2>1 DEF CallKnows
  <2>3. ASSUME NEW d \in Callers, d # c PROVE CallKnows(calls[d])'
    BY <2>3 DEF EngineInv, TypeOK, CallsKnow, CallKnows
  <2> QED BY <2>2, <2>3 DEF CallsKnow
<1>9. CancelledMeansGone'
  BY DEF EngineInv, TypeOK, ExchangeRecords, CancelledMeansGone
<1> QED BY <1>3, <1>4, <1>5, <1>6, <1>7, <1>8, <1>9 DEF EngineInv

(***************************************************************************)
(* The order of a submission is still in SIGNAL_DETECTED when the answer   *)
(* comes, so the state machine accepts the transition.                     *)
(***************************************************************************)
LEMMA PlaceAcceptedKeeps ==
  ASSUME EngineInv, NEW c \in Callers, NEW ext \in ExtIds \cup {None}, PlaceAccepted(c, ext)
  PROVE  EngineInv'
<1> DEFINE id == calls[c].id
<1>1. id \in OrderIds /\ orders[id].state = SignalDetected /\ calls[c].op = "submit"
  BY DEF EngineInv, InFlightOwned, PlaceAccepted, At
<1>2. CanTransition(orders[id].state, OrderPlaced)
  BY <1>1 DEF CanTransition, Allowed
<1>3. /\ orders' \in [OrderIds -> OrderRecords]
      /\ orders'[id].state = OrderPlaced
      /\ orders'[id].key = orders[id].key /\ orders'[id].ext = ext
      /\ \A other \in OrderIds : other # id => orders'[other] = orders[other]
  <2> DEFINE t == Transitioned(id, OrderPlaced)
  <2>1. /\ t \in [OrderIds -> OrderRecords]
        /\ t[id].state = OrderPlaced /\ t[id].key = orders[id].key
        /\ \A other \in OrderIds : other # id => t[other] = orders[other]
    BY <1>1, TransitionFacts, TransitionedFacts DEF EngineInv
  <2>2. orders' = [t EXCEPT ![id].ext = ext]
    BY <1>2 DEF PlaceAccepted
  <2> HIDE DEF t
  <2> QED BY <1>1, <2>1, <2>2 DEF OrderRecords
<1>4. /\ extIndex' = IF ext # None THEN [extIndex EXCEPT ![ext] = id] ELSE extIndex
      /\ tracked' = tracked \cup {IF ext # None THEN ext ELSE id}
      /\ calls' = [calls EXCEPT ![c] = IdleCall]
      /\ apiErrors' = 0
      /\ IF ext # None THEN exchange[ext].by = id
                       ELSE id \notin wire /\ \A e \in ExtIds : exchange[e].by # id
      /\ UNCHANGED <<latest, marked, rejects, riskHalted, killed, wire, exchange>>
  BY <1>2 DEF PlaceAccepted, IndexExternalId, TrackOrder, Return, SetCall,
              RecordApiSuccess, exchangeVars
<1> USE <1>1, <1>3, <1>4, IdleCallFacts
<1> HIDE DEF id
<1>5. TypeOK'
  BY DEF EngineInv, TypeOK, OrderRecords
<1>6. LatestIsOpen'
  BY DEF EngineInv, TypeOK, LatestIsOpen, IsOpenOrder
<1>7. InFlightOwned'
  BY DEF EngineInv, TypeOK, InFlightOwned, At, id
<1>8. StoreMatchesExchange'
  BY DEF EngineInv, TypeOK, ExchangeRecords, StoreMatchesExchange
<1>9. WireAndBook'
  BY DEF EngineInv, TypeOK, StoreMatchesExchange, WireAndBook
<1>10. CallsKnow'
  <2> SUFFICES ASSUME NEW d \in Callers, d # c PROVE CallKnows(calls[d])'
    BY DEF CallsKnow, CallKnows, EngineInv, TypeOK
  <2> QED BY DEF EngineInv, TypeOK, StoreMatchesExchange, CallsKnow, CallKnows
<1>11. CancelledMeansGone'
  BY DEF EngineInv, TypeOK, ExchangeRecords, WireAndBook, CancelledMeansGone
<1> QED BY <1>5, <1>6, <1>7, <1>8, <1>9, <1>10, <1>11 DEF EngineInv

(* placeOrder whose submission threw: the order is FAILED, maybe on the wire. *)
LEMMA PlaceErrorKeeps ==
  ASSUME EngineInv, NEW c \in Callers, PlaceError(c)
  PROVE  EngineInv'
<1> DEFINE id == calls[c].id
<1>1. id \in OrderIds /\ orders[id].state = SignalDetected /\ calls[c].op = "submit"
  BY DEF EngineInv, InFlightOwned, PlaceError, At
<1>2. /\ orders' \in [OrderIds -> OrderRecords]
      /\ orders'[id].state = Failed
      /\ orders'[id].key = orders[id].key /\ orders'[id].ext = orders[id].ext
      /\ \A other \in OrderIds : other # id => orders'[other] = orders[other]
  BY <1>1, TransitionFacts, TransitionedFacts DEF PlaceError, EngineInv
<1>3. /\ rejects' \in 0..MaxRejects /\ riskHalted' \in BOOLEAN /\ apiErrors' \in 0..MaxErrors
      /\ calls' = [calls EXCEPT ![c] = IdleCall]
      /\ UNCHANGED <<latest, extIndex, marked, tracked, killed, wire, exchange>>
  BY DEF PlaceError, RecordRejects, RecordApiFailure, UpTo, Return, SetCall, exchangeVars,
         EngineInv, TypeOK
<1> USE <1>1, <1>2, <1>3, IdleCallFacts
<1> HIDE DEF id
<1>5. TypeOK'
  BY DEF EngineInv, TypeOK, OrderRecords
<1>6. LatestIsOpen'
  BY DEF EngineInv, TypeOK, LatestIsOpen, IsOpenOrder
<1>7. InFlightOwned'
  BY DEF EngineInv, TypeOK, InFlightOwned, At, id
<1>8. StoreMatchesExchange'
  BY DEF EngineInv, TypeOK, ExchangeRecords, StoreMatchesExchange
<1>9. WireAndBook'
  BY DEF EngineInv, TypeOK, WireAndBook
<1>10. CallsKnow'
  BY DEF EngineInv, TypeOK, CallsKnow, CallKnows
<1>11. CancelledMeansGone'
  BY DEF EngineInv, TypeOK, ExchangeRecords, WireAndBook, CancelledMeansGone
<1> QED BY <1>5, <1>6, <1>7, <1>8, <1>9, <1>10, <1>11 DEF EngineInv

-----------------------------------------------------------------------------
(* Closing orders *)

(***************************************************************************)
(* One order is filled, partly filled or cancelled.  If it is closed, the  *)
(* exchange does not hold it any more, or never named it.                  *)
(***************************************************************************)
LEMMA ClosesOne ==
  ASSUME EngineInv, NEW id \in OrderIds, NEW to \in {PartialFill, Filled, Cancelled},
         orders' = Transitioned(id, to),
         to # PartialFill => orders[id].ext = None \/ exchange[orders[id].ext].st # "open",
         UNCHANGED <<killed, exchange>>
  PROVE  /\ orders' \in [OrderIds -> OrderRecords]
         /\ \A other \in OrderIds :
              /\ orders'[other].key = orders[other].key
              /\ orders'[other].ext = orders[other].ext
              /\ \/ orders'[other] = orders[other]
                 \/ /\ orders[other].state \in Working
                    /\ orders'[other].state \in {PartialFill, Filled, Cancelled}
         /\ CancelledMeansGone'
<1>1. /\ orders' \in [OrderIds -> OrderRecords]
      /\ orders'[id].key = orders[id].key /\ orders'[id].ext = orders[id].ext
      /\ \A other \in OrderIds : other # id => orders'[other] = orders[other]
      /\ orders'[id].state = IF orders[id].state \in Working THEN to ELSE orders[id].state
  <2>1. orders[id].state \in States
    BY DEF EngineInv, TypeOK, OrderRecords
  <2>2. TransitionOrder(orders[id].state, to)
          = IF orders[id].state \in Working THEN to ELSE orders[id].state
    BY <2>1, TransitionFacts
  <2> QED BY <2>2, TransitionedFacts DEF EngineInv
<1>2. orders[id].state \notin Working => orders'[id] = orders[id]
  BY <1>1 DEF EngineInv, TypeOK, OrderRecords
<1>3. CancelledMeansGone'
  <2> SUFFICES ASSUME ~killed, NEW e \in ExtIds, exchange[e].st = "open"
               PROVE  orders'[exchange[e].by].state \notin {Filled, Cancelled}
    BY DEF CancelledMeansGone
  <2>1. /\ exchange[e].by \in OrderIds
        /\ orders[exchange[e].by].state \notin {Filled, Cancelled}
    BY DEF EngineInv, TypeOK, ExchangeRecords, WireAndBook, CancelledMeansGone
  <2>2. CASE exchange[e].by = id
    <3>1. orders[id].ext = e \/ orders[id].state \in {SignalDetected, Failed}
      BY <2>1, <2>2 DEF EngineInv, StoreMatchesExchange
    <3> QED BY <1>1, <2>1, <2>2, <3>1
  <2>3. CASE exchange[e].by # id
    BY <1>1, <2>1, <2>3
  <2> QED BY <2>2, <2>3
<1> QED BY <1>1, <1>2, <1>3

(* Where cancelStaleOrders goes on, or that it is over. *)
LEMMA StillToCancelFacts ==
  ASSUME NEW queue \in SUBSET OrderIds
  PROVE  LET call == StillToCancel(queue) IN
         call \in CallRecords /\ call.op # "submit" /\ CallKnows(call) /\ CallKnows(call)'
  BY DEF StillToCancel, IdleCall, Call, CallRecords, Ops, CallKnows

(* A call other than a submission goes on: what the other calls are does not change. *)
LEMMA GoesOnFacts ==
  ASSUME TypeOK, NEW c \in Callers, NEW call \in CallRecords, SetCall(c, call),
         calls[c].op # "submit", call.op # "submit", CallKnows(call)'
  PROVE  /\ calls' \in [Callers -> CallRecords]
         /\ \A d \in Callers : \/ calls'[d] = calls[d]
                                \/ /\ calls[d].op # "submit" /\ calls'[d].op # "submit"
                                   /\ CallKnows(calls[d])'
<1>1. /\ calls' \in [Callers -> CallRecords] /\ calls'[c] = call
      /\ \A d \in Callers : d # c => calls'[d] = calls[d]
  BY DEF TypeOK, SetCall
<1>2. CallKnows(calls[c])'
  BY <1>1 DEF CallKnows
<1> QED BY <1>1, <1>2

(* The local cancel of an order without an external id, by a call c that goes on. *)
LEMMA CancelSyntheticKeeps ==
  ASSUME EngineInv, NEW id \in OrderIds, CancelSynthetic(id),
         NEW c \in Callers, NEW queue \in SUBSET OrderIds,
         UNCHANGED calls \/ (SetCall(c, StillToCancel(queue)) /\ calls[c].op # "submit"),
         UNCHANGED <<latest, extIndex, marked, rejects, riskHalted, switchVars, exchangeVars>>
  PROVE  EngineInv'
<1>1. /\ orders' = Transitioned(id, Cancelled) /\ orders[id].ext = None
      /\ tracked' \subseteq ExtIds \cup OrderIds
      /\ riskHalted' \in BOOLEAN
      /\ UNCHANGED <<killed, exchange, apiErrors, wire>>
  BY DEF CancelSynthetic, EngineInv, TypeOK, switchVars, exchangeVars
<1>2. /\ calls' \in [Callers -> CallRecords]
      /\ \A d \in Callers : \/ calls'[d] = calls[d]
                             \/ /\ calls[d].op # "submit" /\ calls'[d].op # "submit"
                                /\ CallKnows(calls[d])'
  BY StillToCancelFacts, GoesOnFacts DEF EngineInv, TypeOK
<1> QED BY <1>1, <1>2, ClosesOne, OrdersClose

(* A cancel is requested for an order with an external id. *)
LEMMA CancelRequestKeeps ==
  ASSUME EngineInv, NEW c \in Callers, NEW id \in OrderIds, NEW queue \in SUBSET OrderIds,
         CancelRequest(c, id, queue), calls[c].op # "submit",
         UNCHANGED <<latest, extIndex, marked, rejects, riskHalted, switchVars, exchangeVars>>
  PROVE  EngineInv'
<1>1. PICK ext \in ExtIds : ext = orders[id].ext
  BY DEF CancelRequest, EngineInv, TypeOK, OrderRecords
<1> DEFINE call == Call("cancel", None, id, ext, queue)
<1>2. /\ call \in CallRecords /\ call.op # "submit" /\ SetCall(c, call)
      /\ UNCHANGED <<orders, tracked>>
  BY <1>1 DEF Call, CallRecords, Ops, CancelRequest
<1>3. CallKnows(call)'
  BY <1>1, <1>2 DEF Call, CallKnows
<1> QED
  BY <1>2, <1>3, CallMoves DEF EngineInv, TypeOK, switchVars, exchangeVars

(* cancelOrder of an order the store knows, up to its request. *)
LEMMA CancelBeginKeeps ==
  ASSUME EngineInv, NEW c \in Callers, NEW id \in OrderIds, CancelBegin(c, id)
  PROVE  EngineInv'
  BY CancelSyntheticKeeps, CancelRequestKeeps DEF CancelBegin, Idle

(* cancelOrder of an id the store does not know, up to its request. *)
LEMMA CancelOrphanKeeps ==
  ASSUME EngineInv, NEW c \in Callers, NEW ext \in ExtIds, CancelOrphan(c, ext)
  PROVE  EngineInv'
<1> DEFINE call == Call("orphan", None, None, ext, {})
<1>1. call \in CallRecords /\ CallKnows(call)' /\ call.op # "submit"
  BY DEF Call, CallRecords, Ops, CallKnows
<1> QED
  BY <1>1, CallMoves DEF EngineInv, TypeOK, CancelOrphan, Idle, storeVars, riskVars,
                         switchVars, exchangeVars

(* cancelOrder with the answer in hand: the exchange holds the order no more. *)
LEMMA CancelReturnKeeps ==
  ASSUME EngineInv, NEW c \in Callers, CancelReturn(c)
  PROVE  EngineInv'
<1>1. PICK id \in OrderIds, queue \in SUBSET OrderIds :
        id = calls[c].id /\ queue = calls[c].queue
  BY DEF EngineInv, TypeOK, CallRecords, CallsKnow, CallKnows, CancelReturn, At
<1>2. /\ orders' = Transitioned(id, Cancelled)
      /\ exchange[orders[id].ext].st # "open"
      /\ calls[c].op # "submit" /\ SetCall(c, StillToCancel(queue))
      /\ tracked' \subseteq ExtIds \cup OrderIds
      /\ riskHalted' \in BOOLEAN
      /\ UNCHANGED <<latest, extIndex, marked, rejects, apiErrors, killed, wire, exchange>>
  BY <1>1 DEF EngineInv, TypeOK, CallsKnow, CallKnows, CancelReturn, At, Answered,
              switchVars, exchangeVars
<1> QED
  BY <1>2, StillToCancelFacts, GoesOnFacts, ClosesOne, OrdersClose DEF EngineInv

(* cancelOrder whose request failed. *)
LEMMA CancelEndsKeeps ==
  ASSUME EngineInv, NEW c \in Callers, CancelEnds(c)
  PROVE  EngineInv'
<1>1. PICK queue \in SUBSET OrderIds : queue = calls[c].queue
  BY DEF EngineInv, TypeOK, CallRecords
<1> QED
  BY <1>1, StillToCancelFacts, CallMoves
  DEF EngineInv, TypeOK, CancelEnds, At, storeVars, riskVars, switchVars, exchangeVars

(* cancelStaleOrders collects its list. *)
LEMMA CancelStaleBeginKeeps ==
  ASSUME EngineInv, NEW c \in Callers, NEW stale \in SUBSET OrderIds,
         CancelStaleBegin(c, stale)
  PROVE  EngineInv'
  BY StillToCancelFacts, CallMoves
  DEF EngineInv, TypeOK, CancelStaleBegin, Idle, storeVars, riskVars, switchVars, exchangeVars

(* cancelStaleOrders goes on to the next order of its list. *)
LEMMA CancelStaleNextKeeps ==
  ASSUME EngineInv, NEW c \in Callers, NEW id \in OrderIds, CancelStaleNext(c, id)
  PROVE  EngineInv'
<1>1. PICK queue \in SUBSET OrderIds : queue = calls[c].queue \ {id}
  BY DEF EngineInv, TypeOK, CallRecords
<1> QED
  BY <1>1, CancelSyntheticKeeps, CancelRequestKeeps DEF CancelStaleNext, At

-----------------------------------------------------------------------------
(* cancelAllOrders, getOpenOrders, refreshOrderStatus *)

(* The kill switch halts, and cancel-all is requested. *)
LEMMA HaltAndCancelAllKeeps ==
  ASSUME EngineInv, NEW c \in Callers, NEW emergency \in BOOLEAN,
         HaltAndCancelAll(c, emergency)
  PROVE  EngineInv'
<1> DEFINE call == Call("cancelAll", None, None, None, {})
<1>1. call \in CallRecords /\ call.op # "submit"
  BY DEF Call, CallRecords, Ops
<1>2. CallKnows(call)'
  BY DEF Call, CallKnows, HaltAndCancelAll
<1> QED
  BY <1>1, <1>2, CallMoves
  DEF EngineInv, TypeOK, HaltAndCancelAll, Idle, storeVars, exchangeVars

(* cancelAllOrders with the answer in hand, which closes every working order. *)
LEMMA CancelAllReturnKeeps ==
  ASSUME EngineInv, NEW c \in Callers, CancelAllReturn(c)
  PROVE  EngineInv'
<1>1. /\ calls[c].op = "cancelAll" /\ killed /\ tracked' = {}
      /\ SetCall(c, IdleCall)
      /\ riskHalted' \in BOOLEAN
      /\ UNCHANGED <<latest, extIndex, marked, rejects, apiErrors, killed, wire, exchange>>
  BY DEF EngineInv, TypeOK, CallsKnow, CallKnows, CancelAllReturn, At, Return,
         switchVars, exchangeVars
<1>2. orders' = [id \in OrderIds |-> Moved(orders[id], Cancelled)]
  BY DEF CancelAllReturn
<1>3. \A id \in OrderIds :
        /\ orders[id] \in OrderRecords
        /\ TransitionOrder(orders[id].state, Cancelled)
             = IF orders[id].state \in Working THEN Cancelled ELSE orders[id].state
  BY TransitionFacts DEF EngineInv, TypeOK, OrderRecords
<1>4. \A id \in OrderIds :
        /\ orders'[id] \in OrderRecords
        /\ orders'[id].key = orders[id].key
        /\ orders'[id].ext = orders[id].ext
        /\ \/ orders'[id] = orders[id]
           \/ orders[id].state \in Working /\ orders'[id].state \in {PartialFill, Filled, Cancelled}
  <2> SUFFICES ASSUME NEW id \in OrderIds
               PROVE  LET moved == Moved(orders[id], Cancelled) IN
                      /\ moved \in OrderRecords
                      /\ moved.key = orders[id].key /\ moved.ext = orders[id].ext
                      /\ \/ moved = orders[id]
                         \/ orders[id].state \in Working /\ moved.state = Cancelled
    BY <1>2
  <2> QED BY <1>3, MovedFacts DEF OrderRecords
<1>5. orders' \in [OrderIds -> OrderRecords]
  BY <1>2, <1>4
<1>6. CancelledMeansGone'
  BY <1>1 DEF CancelledMeansGone
<1>7. CallKnows(IdleCall)'
  BY DEF IdleCall, Call, CallKnows
<1> QED
  BY <1>1, <1>4, <1>5, <1>6, <1>7, IdleCallFacts, GoesOnFacts, OrdersClose DEF EngineInv

(* getOpenOrders, up to its request. *)
LEMMA OpenOrdersBeginKeeps ==
  ASSUME EngineInv, NEW c \in Callers, OpenOrdersBegin(c)
  PROVE  EngineInv'
<1> DEFINE call == Call("openOrders", None, None, None, {})
<1>1. call \in CallRecords /\ call.op # "submit" /\ CallKnows(call)'
  BY DEF Call, CallRecords, Ops, CallKnows
<1> QED
  BY <1>1, CallMoves DEF EngineInv, TypeOK, OpenOrdersBegin, Idle, storeVars, riskVars,
                         switchVars, exchangeVars

(* A call that is over, and at most what the risk engine tracks changes. *)
LEMMA CallEndsKeeps ==
  ASSUME EngineInv, NEW c \in Callers, Return(c), calls[c].op # "submit",
         UNCHANGED <<storeVars, marked, rejects, riskHalted, switchVars, exchangeVars>>,
         tracked' \subseteq ExtIds \cup OrderIds
  PROVE  EngineInv'
<1>1. CallKnows(IdleCall)'
  BY DEF IdleCall, Call, CallKnows
<1> QED
  BY <1>1, IdleCallFacts, CallMoves
  DEF EngineInv, TypeOK, Return, storeVars, switchVars, exchangeVars

(* The calls that end without a change to any order. *)
LEMMA CallEndsSteps ==
  ASSUME EngineInv, NEW c \in Callers,
         \/ CancelAllError(c) \/ OpenOrdersReturn(c) \/ OpenOrdersError(c) \/ StatusError(c)
  PROVE  EngineInv'
<1>1. tracked \subseteq ExtIds \cup OrderIds /\ calls[c].seen \subseteq ExtIds
  BY DEF EngineInv, TypeOK, CallRecords
<1> QED
  BY <1>1, CallEndsKeeps
  DEF CancelAllError, OpenOrdersReturn, OpenOrdersError, StatusError, ListedIds, At, riskVars

(* refreshOrderStatus, up to its request. *)
LEMMA StatusBeginKeeps ==
  ASSUME EngineInv, NEW c \in Callers, NEW id \in OrderIds, StatusBegin(c, id)
  PROVE  EngineInv'
<1>1. PICK ext \in ExtIds : ext = orders[id].ext
  BY DEF StatusBegin, EngineInv, TypeOK, OrderRecords
<1> DEFINE call == Call("status", None, id, ext, {})
<1>2. call \in CallRecords /\ call.op # "submit" /\ SetCall(c, call)
  BY <1>1 DEF Call, CallRecords, Ops, StatusBegin
<1>3. CallKnows(call)'
  BY <1>1, <1>2 DEF Call, CallKnows, StatusBegin, storeVars
<1> QED
  BY <1>2, <1>3, CallMoves DEF EngineInv, TypeOK, StatusBegin, Idle, storeVars, riskVars,
                               switchVars, exchangeVars

(* refreshOrderStatus with the answer in hand: a final status is still the exchange's. *)
LEMMA StatusReturnKeeps ==
  ASSUME EngineInv, NEW c \in Callers, StatusReturn(c)
  PROVE  EngineInv'
<1> DEFINE id == calls[c].id
           mapped == IF calls[c].reply = "filled" THEN Filled ELSE Cancelled
<1>1. /\ calls[c].op = "status" /\ Return(c)
      /\ UNCHANGED <<latest, extIndex, marked, rejects, riskHalted, switchVars, exchangeVars>>
  BY DEF StatusReturn, At
<1>2. CASE UNCHANGED <<orders, tracked>>
  BY <1>1, <1>2, CallEndsKeeps DEF EngineInv, TypeOK, storeVars
<1>3. CASE calls[c].reply # "open" /\ CanTransition(orders[id].state, mapped)
  <2>1. PICK i \in OrderIds, to \in {Filled, Cancelled} : i = id /\ to = mapped
    BY <1>1 DEF EngineInv, CallsKnow, CallKnows
  <2>2. /\ orders' = Transitioned(i, to) /\ tracked' \subseteq tracked
        /\ exchange[orders[i].ext].st # "open"
    BY <1>1, <1>3, <2>1
    DEF StatusReturn, Answered, EngineInv, TypeOK, ExchangeRecords, CallRecords,
        CallsKnow, CallKnows
  <2>3. CallKnows(IdleCall)' /\ SetCall(c, IdleCall)
    BY <1>1 DEF IdleCall, Call, CallKnows, Return
  <2>4. /\ UNCHANGED <<latest, extIndex, marked, rejects, apiErrors, killed, wire, exchange>>
        /\ riskHalted' \in BOOLEAN
        /\ tracked' \subseteq ExtIds \cup OrderIds
    BY <1>1, <2>2 DEF EngineInv, TypeOK, switchVars, exchangeVars
  <2> QED
    BY <1>1, <2>2, <2>3, <2>4, IdleCallFacts, GoesOnFacts, ClosesOne, OrdersClose DEF EngineInv
<1> QED BY <1>2, <1>3 DEF StatusReturn

-----------------------------------------------------------------------------
(* Fills and the clock *)

(* A fill is applied; a whole one only of an order the exchange has filled. *)
LEMMA ApplyFillKeeps ==
  ASSUME EngineInv, NEW id \in OrderIds, NEW whole \in BOOLEAN, NEW loss \in BOOLEAN,
         ApplyFill(id, whole, loss)
  PROVE  EngineInv'
<1>1. PICK to \in {Filled, PartialFill} : to = IF whole THEN Filled ELSE PartialFill
  OBVIOUS
<1>2. /\ orders' = Transitioned(id, to)
      /\ to # PartialFill => exchange[orders[id].ext].st # "open"
      /\ tracked' \subseteq ExtIds \cup OrderIds
      /\ riskHalted' \in BOOLEAN
      /\ UNCHANGED <<latest, extIndex, marked, rejects, apiErrors, killed,
                     calls, wire, exchange>>
  BY <1>1 DEF ApplyFill, EngineInv, TypeOK, switchVars, exchangeVars
<1> QED BY <1>2, ClosesOne, OrdersClose DEF EngineInv, TypeOK

(* Nothing but deduper entries and risk counters changes. *)
LEMMA CountersKeep ==
  ASSUME EngineInv, marked' \subseteq Keys, rejects' \in 0..MaxRejects, riskHalted' \in BOOLEAN,
         UNCHANGED <<storeVars, tracked, switchVars, calls, exchangeVars>>
  PROVE  EngineInv'
  BY DEF EngineInv, TypeOK, LatestIsOpen, IsOpenOrder, InFlightOwned, At,
         StoreMatchesExchange, WireAndBook, CallsKnow, CallKnows, CancelledMeansGone,
         storeVars, switchVars, exchangeVars

(* An entry of the deduper expires, or the day changes. *)
LEMMA ClockKeeps ==
  ASSUME EngineInv, Clock
  PROVE  EngineInv'
<1>1. TypeOK
  BY DEF EngineInv
<1>2. CASE \E key \in Keys : KeyExpires(key)
  <2>1. PICK key \in Keys : KeyExpires(key)
    BY <1>2
  <2>2. marked' \subseteq Keys /\ UNCHANGED <<tracked, rejects, riskHalted>>
    BY <1>1, <2>1 DEF KeyExpires, TypeOK, riskVars
  <2> QED BY <1>1, <2>1, <2>2, CountersKeep DEF KeyExpires, TypeOK
<1>3. CASE DayRolls
  <2>1. rejects' = 0 /\ riskHalted' = FALSE
    BY <1>3 DEF DayRolls
  <2>2. 0 \in 0..MaxRejects
    OBVIOUS
  <2>3. rejects' \in 0..MaxRejects /\ riskHalted' \in BOOLEAN
    BY <2>1, <2>2, Zenon
  <2> QED BY <1>1, <1>3, <2>3, CountersKeep DEF DayRolls, TypeOK
<1> QED BY <1>2, <1>3 DEF Clock

-----------------------------------------------------------------------------
(* The exchange *)

(* A submission becomes an order of the exchange. *)
LEMMA ExchangeAcceptsKeeps ==
  ASSUME EngineInv, NEW id \in OrderIds, NEW e \in ExtIds, ExchangeAccepts(id, e)
  PROVE  EngineInv'
<1>1. /\ id \in wire /\ wire' = wire \ {id}
      /\ exchange[e].st = "free"
      /\ exchange' = [exchange EXCEPT ![e] = [st |-> "open", by |-> id]]
      /\ UNCHANGED <<orders, latest, extIndex, marked, tracked, rejects, riskHalted,
                     apiErrors, killed, calls>>
  BY DEF ExchangeAccepts, ExchangeStep, storeVars, riskVars, switchVars
<1>2. exchange[e].by = None
  BY <1>1 DEF EngineInv, TypeOK, WireAndBook
<1>3. /\ orders[id].state \in {SignalDetected, Failed} /\ orders[id].ext = None
      /\ \A f \in ExtIds : exchange[f].by # id
  BY <1>1 DEF EngineInv, WireAndBook
<1>4. \A i \in OrderIds : orders[i].ext # e
  BY <1>2 DEF EngineInv, StoreMatchesExchange
<1> USE <1>1, <1>2, <1>3, <1>4
<1>5. TypeOK'
  BY DEF EngineInv, TypeOK, ExchangeRecords
<1>6. LatestIsOpen'
  BY DEF EngineInv, LatestIsOpen, IsOpenOrder
<1>7. InFlightOwned'
  BY DEF EngineInv, InFlightOwned, At
<1>8. StoreMatchesExchange'
  BY DEF EngineInv, TypeOK, ExchangeRecords, StoreMatchesExchange
<1>9. WireAndBook'
  BY DEF EngineInv, TypeOK, ExchangeRecords, WireAndBook
<1>10. CallsKnow'
  BY DEF EngineInv, TypeOK, CallsKnow, CallKnows
<1>11. CancelledMeansGone'
  BY DEF EngineInv, TypeOK, ExchangeRecords, CancelledMeansGone
<1> QED BY <1>5, <1>6, <1>7, <1>8, <1>9, <1>10, <1>11 DEF EngineInv

(***************************************************************************)
(* Any other exchange step: open orders may close, a submission may be     *)
(* lost, and one call learns something true.                               *)
(***************************************************************************)
LEMMA ExchangeOnlyCloses ==
  ASSUME EngineInv,
         UNCHANGED <<storeVars, marked, riskVars, switchVars>>,
         wire' \subseteq wire,
         exchange' \in [ExtIds -> ExchangeRecords],
         \A e \in ExtIds :
           /\ exchange'[e].by = exchange[e].by
           /\ \/ exchange'[e].st = exchange[e].st
              \/ exchange[e].st = "open" /\ exchange'[e].st \in {"filled", "cancelled"},
         calls' \in [Callers -> CallRecords],
         \A c \in Callers : \/ calls'[c] = calls[c]
                            \/ /\ calls[c].op # "submit" /\ calls'[c].op # "submit"
                               /\ CallKnows(calls[c])'
  PROVE  EngineInv'
<1> USE DEF storeVars, riskVars, switchVars
<1>1. TypeOK'
  BY DEF EngineInv, TypeOK
<1>2. LatestIsOpen'
  BY DEF EngineInv, LatestIsOpen, IsOpenOrder
<1>3. InFlightOwned'
  BY DEF EngineInv, InFlightOwned, At
<1>4. StoreMatchesExchange'
  BY DEF EngineInv, TypeOK, OrderRecords, StoreMatchesExchange
<1>5. WireAndBook'
  BY DEF EngineInv, WireAndBook
<1>6. CallsKnow'
  BY DEF EngineInv, TypeOK, CallsKnow, CallKnows
<1>7. CancelledMeansGone'
  BY DEF EngineInv, CancelledMeansGone
<1> QED BY <1>1, <1>2, <1>3, <1>4, <1>5, <1>6, <1>7 DEF EngineInv

(* A submission is refused or lost. *)
LEMMA ExchangeDropsKeeps ==
  ASSUME EngineInv, NEW id \in OrderIds, ExchangeDrops(id)
  PROVE  EngineInv'
  BY ExchangeOnlyCloses DEF ExchangeDrops, ExchangeStep, EngineInv, TypeOK

(* The market fills an order, or it ends otherwise. *)
LEMMA ExchangeClosesKeeps ==
  ASSUME EngineInv, NEW e \in ExtIds, NEW st \in {"filled", "cancelled"}, ExchangeCloses(e, st)
  PROVE  EngineInv'
<1>1. /\ exchange' \in [ExtIds -> ExchangeRecords]
      /\ \A f \in ExtIds :
           /\ exchange'[f].by = exchange[f].by
           /\ \/ exchange'[f].st = exchange[f].st
              \/ exchange[f].st = "open" /\ exchange'[f].st \in {"filled", "cancelled"}
  BY DEF ExchangeCloses, Book, Closed, EngineInv, TypeOK, ExchangeRecords
<1> QED BY <1>1, ExchangeOnlyCloses DEF ExchangeCloses, ExchangeStep, EngineInv, TypeOK

(***************************************************************************)
(* An answer reaches a call.  It is true when given, and stays true.       *)
(***************************************************************************)
LEMMA AnswerKeeps ==
  ASSUME EngineInv, NEW c \in Callers, NEW call \in CallRecords, calls[c] = call,
         call.op \in {"cancel", "orphan", "cancelAll", "openOrders", "status"},
         NEW seen \in SUBSET ExtIds,
         NEW reply \in {"none", "open", "filled", "cancelled"},
         SetCall(c, Answer(call, seen, reply)),
         call.op = "cancel" => exchange'[call.ext].st # "open",
         call.op = "status" => reply = exchange'[call.ext].st,
         exchange' \in [ExtIds -> ExchangeRecords],
         \A e \in ExtIds :
           /\ exchange'[e].by = exchange[e].by
           /\ \/ exchange'[e].st = exchange[e].st
              \/ exchange[e].st = "open" /\ exchange'[e].st \in {"filled", "cancelled"},
         ExchangeStep, UNCHANGED wire
  PROVE  EngineInv'
<1> DEFINE answered == Answer(call, seen, reply)
<1>1. answered \in CallRecords /\ answered.op = call.op
  BY DEF Answer, CallRecords
<1>2. UNCHANGED <<orders, killed>>
  BY DEF ExchangeStep, storeVars, switchVars
<1>3. CallKnows(answered)'
  BY <1>2 DEF EngineInv, CallsKnow, CallKnows, Answer
<1>4. /\ calls' \in [Callers -> CallRecords]
      /\ \A d \in Callers : \/ calls'[d] = calls[d]
                             \/ /\ calls[d].op # "submit" /\ calls'[d].op # "submit"
                                /\ CallKnows(calls[d])'
  BY <1>1, <1>3, GoesOnFacts DEF EngineInv
<1> QED BY <1>4, ExchangeOnlyCloses DEF ExchangeStep

(* A cancel request arrives. *)
LEMMA ExchangeCancelsKeeps ==
  ASSUME EngineInv, NEW c \in Callers, ExchangeCancels(c)
  PROVE  EngineInv'
<1>1. PICK call \in CallRecords, e \in ExtIds :
        /\ call = calls[c] /\ e = call.ext
        /\ call.op \in {"cancel", "orphan"}
  BY DEF EngineInv, TypeOK, CallsKnow, CallKnows, ExchangeCancels, At
<1>2. /\ exchange' \in [ExtIds -> ExchangeRecords]
      /\ \A f \in ExtIds :
           /\ exchange'[f].by = exchange[f].by
           /\ \/ exchange'[f].st = exchange[f].st
              \/ exchange[f].st = "open" /\ exchange'[f].st \in {"filled", "cancelled"}
      /\ exchange'[e].st # "open"
  BY <1>1 DEF ExchangeCancels, Book, Closed, EngineInv, TypeOK, ExchangeRecords
<1> QED BY <1>1, <1>2, AnswerKeeps DEF ExchangeCancels

(* A cancel-all request arrives. *)
LEMMA ExchangeCancelsAllKeeps ==
  ASSUME EngineInv, NEW c \in Callers, ExchangeCancelsAll(c)
  PROVE  EngineInv'
<1>1. PICK call \in CallRecords : call = calls[c] /\ call.op = "cancelAll"
  BY DEF EngineInv, TypeOK, ExchangeCancelsAll, At
<1>2. /\ exchange' \in [ExtIds -> ExchangeRecords]
      /\ \A f \in ExtIds :
           /\ exchange'[f].by = exchange[f].by
           /\ \/ exchange'[f].st = exchange[f].st
              \/ exchange[f].st = "open" /\ exchange'[f].st \in {"filled", "cancelled"}
  BY DEF ExchangeCancelsAll, Closed, EngineInv, TypeOK, ExchangeRecords
<1> QED BY <1>1, <1>2, AnswerKeeps DEF ExchangeCancelsAll

(* The open orders are listed. *)
LEMMA ExchangeListsKeeps ==
  ASSUME EngineInv, NEW c \in Callers, ExchangeLists(c)
  PROVE  EngineInv'
<1>1. PICK call \in CallRecords, seen \in SUBSET ExtIds :
        /\ call = calls[c] /\ call.op = "openOrders"
        /\ seen = {e \in ExtIds : exchange[e].st = "open"}
  BY DEF EngineInv, TypeOK, ExchangeLists, At
<1> QED BY <1>1, AnswerKeeps DEF ExchangeLists, exchangeVars, EngineInv, TypeOK

(* The status of an order is reported. *)
LEMMA ExchangeReportsKeeps ==
  ASSUME EngineInv, NEW c \in Callers, ExchangeReports(c)
  PROVE  EngineInv'
<1>1. PICK call \in CallRecords : call = calls[c] /\ call.op = "status"
  BY DEF EngineInv, TypeOK, ExchangeReports, At
<1>2. call.ext \in ExtIds /\ exchange[call.ext].by # None
  BY <1>1 DEF EngineInv, TypeOK, CallsKnow, CallKnows, StoreMatchesExchange
<1>3. PICK st \in {"open", "filled", "cancelled"} : st = exchange[call.ext].st
  BY <1>2 DEF EngineInv, TypeOK, ExchangeRecords, WireAndBook
<1> QED BY <1>1, <1>3, AnswerKeeps DEF ExchangeReports, exchangeVars, EngineInv, TypeOK

-----------------------------------------------------------------------------
(* The invariant *)

(* The invariant holds at the start. *)
LEMMA InitInv == Init => EngineInv
<1> SUFFICES ASSUME Init PROVE EngineInv
  OBVIOUS
<1> USE DEF Init, NoOrder
<1>1. TypeOK
  <2>1. riskHalted \in BOOLEAN /\ killed \in BOOLEAN
    BY Zenon
  <2> QED BY <2>1, IdleCallFacts DEF TypeOK, OrderRecords, ExchangeRecords
<1>2. LatestIsOpen
  BY DEF LatestIsOpen, IsOpenOrder
<1>3. InFlightOwned
  BY IdleCallFacts DEF InFlightOwned, At
<1>4. StoreMatchesExchange
  BY DEF StoreMatchesExchange
<1>5. WireAndBook
  BY DEF WireAndBook
<1>6. CallsKnow
  BY IdleCallFacts DEF CallsKnow
<1>7. CancelledMeansGone
  BY DEF CancelledMeansGone
<1> QED BY <1>1, <1>2, <1>3, <1>4, <1>5, <1>6, <1>7 DEF EngineInv

(* Every call that is made keeps the invariant. *)
LEMMA BeginKeeps ==
  ASSUME EngineInv, NEW c \in Callers, Begin(c) PROVE EngineInv'
  BY PlaceBeginKeeps, CancelBeginKeeps, StatusBeginKeeps, CancelOrphanKeeps,
     CancelStaleBeginKeeps, HaltAndCancelAllKeeps, OpenOrdersBeginKeeps DEF Begin

(* Every call that goes on keeps the invariant. *)
LEMMA ContinueKeeps ==
  ASSUME EngineInv, NEW c \in Callers, Continue(c) PROVE EngineInv'
  BY PlaceRefusedKeeps, PlaceDuplicateKeeps, PlaceSubmitKeeps, PlaceAcceptedKeeps,
     PlaceErrorKeeps, CancelReturnKeeps, CancelEndsKeeps, CancelStaleNextKeeps,
     CancelAllReturnKeeps, CallEndsSteps, StatusReturnKeeps DEF Continue

(* Every step of the exchange keeps the invariant. *)
LEMMA ExchangeKeeps ==
  ASSUME EngineInv, Exchange PROVE EngineInv'
  BY ExchangeAcceptsKeeps, ExchangeDropsKeeps, ExchangeClosesKeeps, ExchangeCancelsKeeps,
     ExchangeCancelsAllKeeps, ExchangeListsKeeps, ExchangeReportsKeeps DEF Exchange, Respond

(* A step that changes no variable keeps the invariant. *)
LEMMA StutterKeeps ==
  ASSUME EngineInv, UNCHANGED engineVars PROVE EngineInv'
  BY DEF engineVars, EngineInv, TypeOK, LatestIsOpen, IsOpenOrder, InFlightOwned, At,
         StoreMatchesExchange, WireAndBook, CallsKnow, CallKnows, CancelledMeansGone

(* Every step keeps the invariant. *)
LEMMA StepKeeps == EngineInv /\ [Next]_engineVars => EngineInv'
  BY BeginKeeps, ContinueKeeps, ApplyFillKeeps, ExchangeKeeps, ClockKeeps, StutterKeeps
  DEF Next

(* The conjunction of everything the engine keeps true, step by step. *)
THEOREM EngineInvariant == Spec => []EngineInv
  BY InitInv, StepKeeps, PTL DEF Spec

(***************************************************************************)
(* At most one order of a signal key is open: of two open orders with one  *)
(* key, each would be the latest of that key.                              *)
(***************************************************************************)
LEMMA OneOpenFromInv == EngineInv => OneOpenOrderPerSignal
  BY DEF EngineInv, LatestIsOpen, OneOpenOrderPerSignal, IsOpenOrder

(* One signal never has two open orders. *)
THEOREM OneOpenOrder == Spec => []OneOpenOrderPerSignal
  BY EngineInvariant, OneOpenFromInv, PTL

(* Of two live orders of one key neither is FAILED or closed, so both are open. *)
LEMMA AtMostOneFromInv == EngineInv => AtMostOneLiveOrder
<1> SUFFICES ASSUME EngineInv, ~killed, NEW e \in ExtIds, NEW f \in ExtIds,
                    exchange[e].st = "open", orders[exchange[e].by].state # Failed,
                    exchange[f].st = "open", orders[exchange[f].by].state # Failed,
                    orders[exchange[e].by].key = orders[exchange[f].by].key
             PROVE  e = f
  BY DEF AtMostOneLiveOrder
<1>1. ASSUME NEW x \in ExtIds, exchange[x].st = "open", orders[exchange[x].by].state # Failed
      PROVE  /\ exchange[x].by \in OrderIds
             /\ orders[exchange[x].by].state \in Open
  <2>1. exchange[x].by \in OrderIds
    BY <1>1 DEF EngineInv, TypeOK, ExchangeRecords, WireAndBook
  <2>2. orders[exchange[x].by].state \in States \ {Filled, Cancelled}
    BY <1>1, <2>1 DEF EngineInv, TypeOK, OrderRecords, CancelledMeansGone
  <2>3. orders[exchange[x].by].state # Absent
    BY <2>1 DEF EngineInv, LatestIsOpen, StoreMatchesExchange, NoOrder
  <2> QED BY <1>1, <2>1, <2>2, <2>3
<1>2. exchange[e].by = exchange[f].by
  BY <1>1, OneOpenFromInv DEF OneOpenOrderPerSignal, IsOpenOrder
<1> QED BY <1>1, <1>2 DEF EngineInv, StoreMatchesExchange

(* Until the kill switch trips, one signal never has two live orders. *)
THEOREM OneLiveOrder == Spec => []AtMostOneLiveOrder
  BY EngineInvariant, AtMostOneFromInv, PTL

(* The parts of the invariant that are properties in their own right. *)
LEMMA InvParts ==
  EngineInv => TypeOK /\ InFlightOwned /\ StoreMatchesExchange /\ CancelledMeansGone
  BY DEF EngineInv

(* Every variable stays in its type. *)
THEOREM TypeCorrect == Spec => []TypeOK
  BY EngineInvariant, InvParts, PTL

(* An order in SIGNAL_DETECTED always has the one call that waits for it. *)
THEOREM InFlightOrdersOwned == Spec => []InFlightOwned
  BY EngineInvariant, InvParts, PTL

(* The store and the exchange always agree on who is who. *)
THEOREM StoreAgrees == Spec => []StoreMatchesExchange
  BY EngineInvariant, InvParts, PTL

(* Until the kill switch trips, what the store holds for closed is closed. *)
THEOREM ClosedIsClosed == Spec => []CancelledMeansGone
  BY EngineInvariant, InvParts, PTL

-----------------------------------------------------------------------------
(***************************************************************************)
(* The engine implements the order ledger: a step of the engine enters one *)
(* order, settles one, closes some working ones, or is a stutter of the    *)
(* ledger.                                                                 *)
(***************************************************************************)

(* What the ledger calls each state of the state machine. *)
LEMMA StatusFacts ==
  /\ StatusOf(Absent) = "absent"
  /\ StatusOf(SignalDetected) = "pending"
  /\ \A s \in Working : StatusOf(s) = "working"
  /\ \A s \in Terminal : StatusOf(s) = "closed"
  BY DEF StatusOf

(* Statuses and signals of two states of the ledger. *)
LEMMA LedgerFacts ==
  ASSUME NEW id \in OrderIds
  PROVE  /\ LedgerStatus[id] = StatusOf(orders[id].state)
         /\ LedgerStatus'[id] = StatusOf(orders'[id].state)
         /\ LedgerSignal[id] = orders[id].key
         /\ LedgerSignal'[id] = orders'[id].key
  BY DEF LedgerStatus, LedgerSignal

(* The engine starts with an empty ledger. *)
LEMMA LedgerInit == Init => Ledger!Init
  BY StatusFacts DEF Init, NoOrder, LedgerStatus, LedgerSignal, Ledger!Init

(***************************************************************************)
(* How a step changes the orders: one is entered, one is settled, some     *)
(* working ones change state, or none changes.                             *)
(***************************************************************************)
OthersStay(id) == \A other \in OrderIds : other # id => orders'[other] = orders[other]

Enters(id, key) ==
  /\ orders[id].state = Absent /\ ~HasSignalKey(key)
  /\ orders'[id].state = SignalDetected /\ orders'[id].key = key
  /\ OthersStay(id)

Settles(id, to) ==
  /\ orders[id].state = SignalDetected
  /\ orders'[id].state = to /\ orders'[id].key = orders[id].key
  /\ OthersStay(id)

Closes ==
  \A id \in OrderIds :
    /\ orders'[id].key = orders[id].key
    /\ \/ orders'[id].state = orders[id].state
       \/ orders[id].state \in Working /\ orders'[id].state \in {PartialFill, Filled, Cancelled}

(* A step that enters an order is a step Enter of the ledger. *)
LEMMA EntersLedger ==
  ASSUME EngineInv, EngineInv', NEW id \in OrderIds, NEW key \in Keys, Enters(id, key)
  PROVE  Ledger!Enter(id, key)
<1>1. LedgerStatus[id] = "absent"
  BY LedgerFacts, StatusFacts DEF Enters
<1>2. ASSUME NEW other \in OrderIds, Ledger!IsOpen(other) PROVE LedgerSignal[other] # key
  <2>1. IsOpenOrder(other)
    BY <1>2, LedgerFacts, StatusFacts DEF Ledger!IsOpen, IsOpenOrder, EngineInv, TypeOK, OrderRecords
  <2> QED BY <2>1, LedgerFacts
          DEF Enters, HasSignalKey, EngineInv, LatestIsOpen
<1>3. LedgerStatus' = [LedgerStatus EXCEPT ![id] = "pending"]
  BY StatusFacts DEF Enters, OthersStay, LedgerStatus
<1>4. LedgerSignal' = [LedgerSignal EXCEPT ![id] = key]
  BY DEF Enters, OthersStay, LedgerSignal
<1> QED BY <1>1, <1>2, <1>3, <1>4 DEF Ledger!Enter

(* A step that settles a submission is a step Settle of the ledger. *)
LEMMA SettlesLedger ==
  ASSUME NEW id \in OrderIds, NEW to \in {OrderPlaced, Failed}, Settles(id, to)
  PROVE  \E outcome \in {"working", "closed"} : Ledger!Settle(id, outcome)
<1>1. LedgerStatus[id] = "pending"
  BY LedgerFacts, StatusFacts DEF Settles
<1>2. LedgerStatus' = [LedgerStatus EXCEPT ![id] = StatusOf(to)]
  BY DEF Settles, OthersStay, LedgerStatus
<1>3. LedgerSignal' = LedgerSignal
  BY DEF Settles, OthersStay, LedgerSignal
<1>4. StatusOf(to) \in {"working", "closed"}
  BY StatusFacts
<1> QED BY <1>1, <1>2, <1>3, <1>4 DEF Ledger!Settle

(* A step that closes or partly fills working orders is a step Close of the ledger. *)
LEMMA ClosesLedger ==
  ASSUME EngineInv, Closes
  PROVE  \E ids \in SUBSET OrderIds : Ledger!Close(ids)
<1> DEFINE ids == {id \in OrderIds : orders[id].state \in Working
                                      /\ orders'[id].state \in Terminal}
<1>1. \A id \in ids : LedgerStatus[id] = "working"
  BY LedgerFacts, StatusFacts
<1>2. LedgerStatus' = [id \in OrderIds |-> IF id \in ids THEN "closed" ELSE LedgerStatus[id]]
  BY StatusFacts DEF Closes, LedgerStatus
<1>3. LedgerSignal' = LedgerSignal
  BY DEF Closes, LedgerSignal
<1> QED BY <1>1, <1>2, <1>3 DEF Ledger!Close

-----------------------------------------------------------------------------
(* Every step of the engine has one of these forms. *)

(* A transition asked for by a cancel, a status or a fill closes at most a working order. *)
LEMMA TransitionCloses ==
  ASSUME EngineInv, NEW id \in OrderIds, NEW to \in {PartialFill, Filled, Cancelled},
         orders' = Transitioned(id, to)
  PROVE  Closes
<1>1. orders[id].state \in States
  BY DEF EngineInv, TypeOK, OrderRecords
<1>2. TransitionOrder(orders[id].state, to)
        = IF orders[id].state \in Working THEN to ELSE orders[id].state
  BY <1>1, TransitionFacts
<1> QED BY <1>2, TransitionedFacts DEF EngineInv, Closes

(* Cancel-all closes working orders only. *)
LEMMA SweepCloses ==
  ASSUME EngineInv, orders' = [id \in OrderIds |-> Moved(orders[id], Cancelled)]
  PROVE  Closes
<1> SUFFICES ASSUME NEW id \in OrderIds
             PROVE  LET moved == Moved(orders[id], Cancelled) IN
                    /\ moved.key = orders[id].key
                    /\ \/ moved.state = orders[id].state
                       \/ orders[id].state \in Working /\ moved.state = Cancelled
  BY DEF Closes
<1>1. orders[id] \in OrderRecords /\ orders[id].state \in States
  BY DEF EngineInv, TypeOK, OrderRecords
<1>2. TransitionOrder(orders[id].state, Cancelled)
        = IF orders[id].state \in Working THEN Cancelled ELSE orders[id].state
  BY <1>1, TransitionFacts
<1> QED BY <1>1, <1>2, MovedFacts

(* placeOrder enters an order when it submits it. *)
LEMMA SubmitEnters ==
  ASSUME EngineInv, NEW c \in Callers, NEW id \in OrderIds, PlaceSubmit(c, id)
  PROVE  \E key \in Keys : Enters(id, key)
<1>1. PICK key \in Keys : key = calls[c].key
  BY DEF EngineInv, CallsKnow, CallKnows, PlaceSubmit, At
<1>2. TransitionOrder(Absent, SignalDetected) = SignalDetected
  BY TransitionFacts
<1>3. orders[id].state = Absent
  BY DEF PlaceSubmit, NoOrder
<1>4. orders' = [orders EXCEPT ![id] = [state |-> SignalDetected, key |-> key, ext |-> None]]
  BY <1>1, <1>2 DEF PlaceSubmit
<1>5. ~HasSignalKey(key)
  BY <1>1 DEF PlaceSubmit
<1> QED BY <1>3, <1>4, <1>5 DEF Enters, OthersStay, EngineInv, TypeOK

(* placeOrder settles the order when the exchange answers or fails. *)
LEMMA AnswerSettles ==
  ASSUME EngineInv, NEW c \in Callers,
         PlaceError(c) \/ \E ext \in ExtIds \cup {None} : PlaceAccepted(c, ext)
  PROVE  \E id \in OrderIds, to \in {OrderPlaced, Failed} : Settles(id, to)
<1>1. PICK id \in OrderIds : id = calls[c].id /\ orders[id].state = SignalDetected
  <2>1. At(c, "submit")
    BY DEF PlaceAccepted, PlaceError
  <2> QED BY <2>1 DEF EngineInv, InFlightOwned
<1>2. CASE PlaceError(c)
  <2>1. orders' = Transitioned(id, Failed)
    BY <1>1, <1>2 DEF PlaceError
  <2>2. TypeOK
    BY DEF EngineInv
  <2>3. /\ orders'[id].state = TransitionOrder(orders[id].state, Failed)
        /\ orders'[id].key = orders[id].key /\ OthersStay(id)
    BY <2>1, <2>2, TransitionedFacts DEF OthersStay
  <2> QED BY <1>1, <2>3, TransitionFacts DEF Settles
<1>3. ASSUME NEW ext \in ExtIds \cup {None}, PlaceAccepted(c, ext)
      PROVE  Settles(id, OrderPlaced)
  <2> DEFINE t == Transitioned(id, OrderPlaced)
  <2>1. /\ t \in [OrderIds -> OrderRecords]
        /\ t[id].state = OrderPlaced /\ t[id].key = orders[id].key
        /\ \A other \in OrderIds : other # id => t[other] = orders[other]
    BY <1>1, TransitionFacts, TransitionedFacts DEF EngineInv
  <2>2. orders' = [t EXCEPT ![id].ext = ext]
    BY <1>1, <1>3 DEF PlaceAccepted, CanTransition, Allowed
  <2> HIDE DEF t
  <2> QED BY <1>1, <2>1, <2>2 DEF OrderRecords, Settles, OthersStay
<1> QED BY <1>2, <1>3

Submits    == \E c \in Callers, id \in OrderIds : PlaceSubmit(c, id)
OrdersMove == \/ Submits
              \/ \E id \in OrderIds, to \in {OrderPlaced, Failed} : Settles(id, to)
              \/ Closes

(* A call that is made moves no order, or closes one that has no external id. *)
LEMMA BeginMoves ==
  ASSUME EngineInv, NEW c \in Callers, Begin(c) PROVE Closes
<1>1. CASE UNCHANGED orders
  BY <1>1 DEF Closes
<1>2. CASE \E id \in OrderIds : orders' = Transitioned(id, Cancelled)
  BY <1>2, TransitionCloses
<1> QED
  BY <1>1, <1>2 DEF Begin, PlaceBegin, CancelBegin, CancelSynthetic, CancelRequest,
     StatusBegin, CancelOrphan, CancelStaleBegin, HaltAndCancelAll, OpenOrdersBegin, storeVars

(* A call that goes on enters, settles or closes orders. *)
LEMMA ContinueMoves ==
  ASSUME EngineInv, NEW c \in Callers, Continue(c) PROVE OrdersMove
<1>1. CASE UNCHANGED orders
  BY <1>1 DEF OrdersMove, Closes
<1>2. CASE \E id \in OrderIds : PlaceSubmit(c, id)
  BY <1>2 DEF OrdersMove, Submits
<1>3. CASE PlaceError(c) \/ \E ext \in ExtIds \cup {None} : PlaceAccepted(c, ext)
  BY <1>3, AnswerSettles DEF OrdersMove
<1>4. CASE CancelReturn(c) \/ \E id \in OrderIds : CancelStaleNext(c, id)
  <2>1. CASE CancelReturn(c)
    BY <2>1, TransitionCloses
    DEF OrdersMove, CancelReturn, At, EngineInv, CallsKnow, CallKnows
  <2>2. CASE \E id \in OrderIds : CancelStaleNext(c, id)
    BY <1>1, <2>2, TransitionCloses
    DEF OrdersMove, CancelStaleNext, CancelSynthetic, CancelRequest
  <2> QED BY <1>4, <2>1, <2>2
<1>5. CASE CancelAllReturn(c)
  BY <1>5, SweepCloses DEF OrdersMove, CancelAllReturn
<1>6. CASE StatusReturn(c)
  BY <1>1, <1>6, TransitionCloses
  DEF OrdersMove, StatusReturn, At, EngineInv, CallsKnow, CallKnows
<1>7. CASE \/ \E malformed \in BOOLEAN : PlaceRefused(c, malformed)
           \/ PlaceDuplicate(c) \/ CancelEnds(c) \/ CancelAllError(c)
           \/ OpenOrdersReturn(c) \/ OpenOrdersError(c) \/ StatusError(c)
  BY <1>1, <1>7 DEF PlaceRefused, PlaceDuplicate, CancelEnds, CancelAllError,
     OpenOrdersReturn, OpenOrdersError, StatusError, storeVars
<1> QED BY <1>2, <1>3, <1>4, <1>5, <1>6, <1>7 DEF Continue

(* Every step enters, settles or closes orders, or leaves them alone. *)
LEMMA StepMoves ==
  ASSUME EngineInv, [Next]_engineVars PROVE OrdersMove
<1>1. CASE UNCHANGED orders
  BY <1>1 DEF OrdersMove, Closes
<1>2. CASE \E id \in OrderIds, whole \in BOOLEAN, loss \in BOOLEAN : ApplyFill(id, whole, loss)
  BY <1>2, TransitionCloses DEF OrdersMove, ApplyFill
<1>3. CASE Exchange
  BY <1>1, <1>3 DEF Exchange, Respond, ExchangeAccepts, ExchangeDrops, ExchangeCloses,
     ExchangeCancels, ExchangeCancelsAll, ExchangeLists, ExchangeReports, ExchangeStep, storeVars
<1>4. CASE Clock
  BY <1>1, <1>4 DEF Clock, KeyExpires, DayRolls, storeVars
<1>5. CASE UNCHANGED engineVars
  BY <1>1, <1>5 DEF engineVars
<1>6. CASE \E c \in Callers : Begin(c)
  BY <1>6, BeginMoves DEF OrdersMove
<1> QED BY <1>2, <1>3, <1>4, <1>5, <1>6, ContinueMoves DEF Next

(* Every step of the engine is a step of the ledger or a stutter. *)
LEMMA StepImplements ==
  ASSUME EngineInv, EngineInv', [Next]_engineVars
  PROVE  [Ledger!Next]_(Ledger!ledgerVars)
  BY StepMoves, SubmitEnters, EntersLedger, SettlesLedger, ClosesLedger
  DEF OrdersMove, Submits, Ledger!Next

(* Every behaviour of the engine is one of the order ledger. *)
THEOREM EngineImplementsLedger == Spec => ImplementsLedger
  BY LedgerInit, StepImplements, EngineInvariant, PTL DEF Spec, ImplementsLedger, Ledger!Spec

=============================================================================
