--------------------------- MODULE RecoveryProofs ---------------------------
(***************************************************************************)
(* What survives a crash, for any keys, ids, limits and number of starts:  *)
(* the types, that a recovery forgets no open order, and that no record    *)
(* of a resting order says it is closed.                                   *)
(*                                                                         *)
(* The engine's own invariant does not hold here: a restart brings back    *)
(* stale records, orders of the exchange that no record names, and two     *)
(* records of one order.  What holds of the records whatever their age is  *)
(* RecordsKnown, and it holds of the store, the file and the draft alike.  *)
(***************************************************************************)
EXTENDS Recovery, ExecutionEngineProofs

USE NoneAssumption, IdsAssumption, LimitsAssumption, TickAssumption, RecoveryAssumption
USE DEF Absent, SignalDetected, OrderPlaced, PartialFill, Filled, Cancelled, Failed,
        Terminal, Working, Open, States

-----------------------------------------------------------------------------
(* The inductive invariant *)

(* The external ids that the exchange has given to an order. *)
Given == {e \in ExtIds : exchange[e].st # "free"}

(***************************************************************************)
(* What is true of records in the store, in the file and in the draft:     *)
(* they have a key; an external id in a record was given by the exchange;  *)
(* a record that a recovery made has the external id its key came from;    *)
(* and of the records with one recovery key at most one is not over.       *)
(***************************************************************************)
RecordsKnown(book, given, keyOf) ==
  /\ \A id \in OrderIds : book[id].key = None => book[id] = NoOrder
  /\ \A id \in OrderIds : book[id].ext # None => book[id].ext \in given
  /\ \A id \in OrderIds : book[id].key \in RecoveredKeys =>
       /\ book[id].ext # None /\ keyOf[book[id].ext] = book[id].key
       /\ book[id].state \notin {Absent, SignalDetected}
  /\ \A i, j \in OrderIds :
       /\ book[i].key \in RecoveredKeys /\ book[i].key = book[j].key
       /\ book[i].state \notin Terminal /\ book[j].state \notin Terminal
       => i = j

AllRecordsKnown ==
  /\ RecordsKnown(orders, Given, recKey)
  /\ RecordsKnown(file, Given, recKey)
  /\ RecordsKnown(draft, Given, recKey)

(* The exchange, and the index that leads from its ids to the records. *)
BookKnown ==
  /\ \A e \in ExtIds : exchange[e].by = None <=> exchange[e].st = "free"
  /\ found \subseteq Given
IndexKnown == \A e \in ExtIds : extIndex[e] # None => orders[extIndex[e]].ext = e

(***************************************************************************)
(* The indexes as the snapshot leaves them to the recovery: they lead to   *)
(* records of their keys, and to the record an earlier recovery made.      *)
(***************************************************************************)
RestoredKnown ==
  phase = "recovery" =>
    /\ \A key \in Keys : latest[key] # None => orders[latest[key]].key = key
    /\ \A id \in OrderIds : orders[id].key \in RecoveredKeys =>
         extIndex[orders[id].ext] = id /\ latest[orders[id].key] = id

(* The request of each phase; a process is down or in recovery before it has recovered. *)
PhaseKnown ==
  /\ phase \in {"down", "positions"} => Idle(Tick)
  /\ phase \in {"recovery", "listing"} => At(Tick, "openOrders")
  /\ phase = "checking" => Idle(Tick) \/ At(Tick, "status")
  /\ phase = "tick" => ~At(Tick, "status")
  /\ phase \in {"down", "recovery"} => ~recovered
  /\ phase = "down" => boots < MaxBoots

(***************************************************************************)
(* What the process knows in a call: besides what every call knows, it     *)
(* places orders for signals only, a submission is of an order without an  *)
(* external id, a listed order was accepted, and an order to be checked    *)
(* has an external id.                                                     *)
(***************************************************************************)
TickKnows(call) ==
  /\ CallKnows(call)
  /\ call.op # "orphan"
  /\ call.op = "book" => call.key \in SignalKeys
  /\ call.op = "submit" => orders[call.id].state = SignalDetected /\ orders[call.id].ext = None
  /\ call.seen \subseteq Given
  /\ phase = "checking" => \A id \in call.queue : orders[id].ext # None

RecoveryInv ==
  /\ RecoveryTypeOK
  /\ AllRecordsKnown /\ BookKnown /\ IndexKnown /\ RestoredKnown /\ PhaseKnown
  /\ TickKnows(calls[Tick])
  /\ KnownAfterRecovery /\ ClosedRecordsAreGone

-----------------------------------------------------------------------------
(* Records *)

(* What is known of records stays known while the exchange gives more ids. *)
LEMMA RecordsStay ==
  ASSUME NEW book, NEW given, NEW keyOf, RecordsKnown(book, given, keyOf),
         NEW more, given \subseteq more
  PROVE  RecordsKnown(book, more, keyOf)
  BY DEF RecordsKnown

(* An empty book. *)
LEMMA NoRecords ==
  ASSUME NEW given, NEW keyOf
  PROVE  /\ NoOrders \in [OrderIds -> SavedRecords] /\ NoOrders \in [OrderIds -> OrderRecords]
         /\ RecordsKnown(NoOrders, given, keyOf)
<1>1. NoOrder \in SavedRecords /\ NoOrder \in OrderRecords
  BY DEF NoOrder, SavedRecords, OrderRecords
<1>2. \A id \in OrderIds : NoOrders[id] = NoOrder
  BY DEF NoOrders
<1>3. NoOrder.key = None /\ NoOrder.ext = None /\ None \notin RecoveredKeys
  BY DEF NoOrder
<1>4. RecordsKnown(NoOrders, given, keyOf)
  BY <1>2, <1>3 DEF RecordsKnown
<1> QED
  BY <1>1, <1>4 DEF NoOrders

(* Records that close, or fail, stay known. *)
LEMMA ClosingRecords ==
  ASSUME NEW book, NEW after, NEW given, NEW keyOf, RecordsKnown(book, given, keyOf),
         \A id \in OrderIds :
           /\ after[id].key = book[id].key /\ after[id].ext = book[id].ext
           /\ \/ after[id] = book[id]
              \/ after[id].state \in Terminal /\ book[id] # NoOrder
  PROVE  RecordsKnown(after, given, keyOf)
  BY DEF RecordsKnown

(* The process's call is the one it sets. *)
LEMMA CallSet ==
  ASSUME TypeOK, NEW call \in CallRecords, SetCall(Tick, call)
  PROVE  calls' \in [Callers -> CallRecords] /\ calls'[Tick] = call
  BY DEF TypeOK, SetCall

(* The call that is not one. *)
LEMMA IdleKnows ==
  /\ IdleCall \in CallRecords /\ IdleCall.op = "idle"
  /\ TickKnows(IdleCall) /\ TickKnows(IdleCall)'
  BY DEF IdleCall, Call, CallRecords, Ops, TickKnows, CallKnows

-----------------------------------------------------------------------------
(* The families of steps *)

(* Nothing of orders and exchange changes, and the process's call goes on. *)
LEMMA CallGoesOn ==
  ASSUME RecoveryInv, NEW call \in CallRecords, SetCall(Tick, call), TickKnows(call)',
         UNCHANGED <<orders, latest, extIndex, exchange, wire, diskVars, draft, found, boots,
                     recovered>>,
         issued' \in [OrderIds -> Keys \cup {None}],
         marked' \subseteq Keys, tracked' \subseteq ExtIds \cup OrderIds,
         rejects' \in 0..MaxRejects, riskHalted' \in BOOLEAN, apiErrors' \in 0..MaxErrors,
         killed' \in BOOLEAN, killed => killed',
         writer' \in {"off", "idle", "writing"}, remote' \subseteq ExtIds,
         phase' \in Phases, phase' = "recovery" => phase = "recovery", PhaseKnown'
  PROVE  RecoveryInv'
<1> USE DEF diskVars
<1>1. RecoveryTypeOK'
  <2>1. TypeOK'
    BY CallSet DEF RecoveryInv, RecoveryTypeOK, TypeOK
  <2> QED
    BY <2>1 DEF RecoveryInv, RecoveryTypeOK
<1>2. Given' = Given
  BY DEF Given
<1>3. AllRecordsKnown' /\ BookKnown'
  BY <1>2 DEF RecoveryInv, AllRecordsKnown, BookKnown
<1>4. IndexKnown' /\ RestoredKnown'
  BY DEF RecoveryInv, IndexKnown, RestoredKnown
<1>5. TickKnows(calls[Tick])'
  <2>1. calls'[Tick] = call
    BY CallSet DEF RecoveryInv, RecoveryTypeOK
  <2> QED
    BY <2>1 DEF TickKnows, CallKnows
<1>6. KnownAfterRecovery' /\ ClosedRecordsAreGone'
  BY DEF RecoveryInv, KnownAfterRecovery, IsWorking, ClosedRecordsAreGone
<1> QED
  BY <1>1, <1>3, <1>4, <1>5, <1>6 DEF RecoveryInv

(***************************************************************************)
(* Records close, or the record of a failed submission fails, and the call *)
(* goes on.  A record closes because the exchange works its order no more, *)
(* because it has no external id, or after the kill switch tripped.        *)
(***************************************************************************)
MovesOn(id) ==
  /\ orders'[id].key = orders[id].key /\ orders'[id].ext = orders[id].ext
  /\ \/ orders'[id] = orders[id]
     \/ /\ orders[id].state \in Working /\ orders'[id].state \in {Filled, Cancelled}
        /\ orders[id].ext # None => killed \/ exchange[orders[id].ext].st # "open"
     \/ orders[id].state = SignalDetected /\ orders'[id].state = Failed

LEMMA OrdersSettle ==
  ASSUME RecoveryInv, phase # "recovery", orders' \in [OrderIds -> OrderRecords],
         \A id \in OrderIds : MovesOn(id),
         NEW call \in CallRecords, SetCall(Tick, call), TickKnows(call)',
         UNCHANGED <<latest, extIndex, marked, killed, exchangeVars, diskVars, draft, writer,
                     found, boots, phase, recovered, remote>>,
         issued' \in [OrderIds -> Keys \cup {None}],
         tracked' \subseteq ExtIds \cup OrderIds,
         rejects' \in 0..MaxRejects, riskHalted' \in BOOLEAN, apiErrors' \in 0..MaxErrors,
         PhaseKnown'
  PROVE  RecoveryInv'
<1> USE DEF diskVars, exchangeVars
<1>1. RecoveryTypeOK'
  <2>1. TypeOK'
    BY CallSet DEF RecoveryInv, RecoveryTypeOK, TypeOK
  <2> QED
    BY <2>1 DEF RecoveryInv, RecoveryTypeOK
<1>2. Given' = Given
  BY DEF Given
<1>3. \A id \in OrderIds :
        /\ orders'[id].key = orders[id].key /\ orders'[id].ext = orders[id].ext
        /\ \/ orders'[id] = orders[id]
           \/ orders'[id].state \in Terminal /\ orders[id] # NoOrder
  BY DEF MovesOn, NoOrder
<1>4. AllRecordsKnown'
  <2>1. RecordsKnown(orders, Given, recKey)
    BY DEF RecoveryInv, AllRecordsKnown
  <2>2. RecordsKnown(orders', Given, recKey)
    BY ONLY <1>3, <2>1, ClosingRecords
  <2> QED
    BY <1>2, <2>2 DEF RecoveryInv, AllRecordsKnown
<1>5. BookKnown'
  BY <1>2 DEF RecoveryInv, BookKnown
<1>6. IndexKnown' /\ RestoredKnown'
  <2>1. \A e \in ExtIds : extIndex[e] \in OrderIds \cup {None}
    BY DEF RecoveryInv, RecoveryTypeOK, TypeOK
  <2> QED
    BY <1>3, <2>1 DEF RecoveryInv, IndexKnown, RestoredKnown
<1>7. TickKnows(calls[Tick])'
  <2>1. calls'[Tick] = call
    BY CallSet DEF RecoveryInv, RecoveryTypeOK
  <2> QED
    BY <2>1 DEF TickKnows, CallKnows
<1>8. ClosedRecordsAreGone'
  <2> SUFFICES ASSUME ~killed, NEW id \in OrderIds,
                      orders'[id].state \in {Filled, Cancelled}, orders'[id].ext # None
               PROVE  exchange[orders'[id].ext].st # "open"
    BY DEF ClosedRecordsAreGone
  <2>1. MovesOn(id)
    OBVIOUS
  <2>2. CASE orders'[id] = orders[id]
    BY <2>2 DEF RecoveryInv, ClosedRecordsAreGone
  <2>3. CASE orders'[id] # orders[id]
    BY <2>1, <2>3 DEF MovesOn
  <2> QED
    BY <2>2, <2>3
<1>9. KnownAfterRecovery'
  <2> SUFFICES ASSUME recovered, ~killed, NEW e \in found, exchange[e].st = "open",
                      \A f \in ExtIds \ {e} : recKey[f] # recKey[e]
               PROVE  extIndex[e] # None /\ orders'[extIndex[e]].state \in Working
    BY DEF KnownAfterRecovery, IsWorking
  <2>1. e \in ExtIds
    BY DEF RecoveryInv, RecoveryTypeOK
  <2>2. extIndex[e] # None /\ orders[extIndex[e]].state \in Working
    BY DEF RecoveryInv, KnownAfterRecovery, IsWorking
  <2>3. PICK id \in OrderIds : id = extIndex[e]
    BY <2>1, <2>2 DEF RecoveryInv, RecoveryTypeOK, TypeOK
  <2>4. orders[id].ext = e /\ MovesOn(id)
    BY <2>1, <2>2, <2>3 DEF RecoveryInv, IndexKnown
  <2>5. orders'[id] = orders[id]
    BY <2>1, <2>2, <2>3, <2>4 DEF MovesOn
  <2> QED
    BY <2>2, <2>3, <2>5
<1> QED
  BY <1>1, <1>4, <1>5, <1>6, <1>7, <1>8, <1>9 DEF RecoveryInv

(***************************************************************************)
(* A step of the exchange: it gives an id to a submission or closes an     *)
(* order, and the process's call learns something true.                    *)
(***************************************************************************)
LEMMA ExchangeGoesOn ==
  ASSUME RecoveryInv, ExchangeStep,
         UNCHANGED <<diskVars, processVars, writerVars, ghostVars>>,
         wire' \subseteq wire, exchange' \in [ExtIds -> ExchangeRecords],
         \A e \in ExtIds :
           \/ exchange'[e] = exchange[e]
           \/ exchange[e].st = "free" /\ exchange'[e].st = "open" /\ exchange'[e].by # None
           \/ /\ exchange[e].st = "open" /\ exchange'[e].st \in {"filled", "cancelled"}
              /\ exchange'[e].by = exchange[e].by,
         NEW call \in CallRecords, SetCall(Tick, call), call.op = calls[Tick].op,
         TickKnows(call)'
  PROVE  RecoveryInv'
<1> USE DEF ExchangeStep, storeVars, riskVars, switchVars, diskVars, processVars, writerVars,
            ghostVars
<1>1. RecoveryTypeOK'
  <2>1. TypeOK'
    BY CallSet DEF RecoveryInv, RecoveryTypeOK, TypeOK
  <2> QED
    BY <2>1 DEF RecoveryInv, RecoveryTypeOK
<1>2. Given \subseteq Given'
  BY DEF Given
<1>3. AllRecordsKnown'
  <2>1. /\ RecordsKnown(orders, Given', recKey) /\ RecordsKnown(file, Given', recKey)
        /\ RecordsKnown(draft, Given', recKey)
    BY <1>2, RecordsStay DEF RecoveryInv, AllRecordsKnown
  <2> QED
    BY <2>1 DEF AllRecordsKnown
<1>4. BookKnown'
  BY <1>2 DEF RecoveryInv, BookKnown
<1>5. IndexKnown' /\ RestoredKnown'
  BY DEF RecoveryInv, IndexKnown, RestoredKnown
<1>6. calls'[Tick] = call
  BY CallSet DEF RecoveryInv, RecoveryTypeOK
<1>7. PhaseKnown'
  BY <1>6 DEF RecoveryInv, PhaseKnown, At, Idle
<1>8. TickKnows(calls[Tick])'
  BY <1>6 DEF TickKnows, CallKnows
<1>9. KnownAfterRecovery'
  <2>1. found \subseteq ExtIds /\ \A e \in found : exchange[e].st # "free"
    BY DEF RecoveryInv, BookKnown, Given
  <2> QED
    BY <2>1 DEF RecoveryInv, KnownAfterRecovery, IsWorking
<1>10. ClosedRecordsAreGone'
  <2>1. \A id \in OrderIds : orders[id].ext # None =>
          orders[id].ext \in ExtIds /\ exchange[orders[id].ext].st # "free"
    BY DEF RecoveryInv, AllRecordsKnown, RecordsKnown, Given
  <2> QED
    BY <2>1 DEF RecoveryInv, ClosedRecordsAreGone
<1> QED
  BY <1>1, <1>3, <1>4, <1>5, <1>7, <1>8, <1>9, <1>10 DEF RecoveryInv

-----------------------------------------------------------------------------
(* The tick *)

(* What a step of the tick leaves alone. *)
InTick ==
  /\ phase = "tick" /\ Issues
  /\ UNCHANGED <<diskVars, processVars, writerVars, found, boots>>

(* What is recorded of new orders stays in its type. *)
LEMMA IssuedStays ==
  ASSUME RecoveryInv, Issues, orders' \in [OrderIds -> OrderRecords]
  PROVE  issued' \in [OrderIds -> Keys \cup {None}]
<1>1. \A id \in OrderIds : orders'[id].key \in Keys \cup {None}
                             /\ issued[id] \in Keys \cup {None}
  BY DEF OrderRecords, RecoveryInv, RecoveryTypeOK
<1> QED
  BY <1>1 DEF Issues

(* A call of the tick goes on, and leaves orders and exchange alone. *)
LEMMA TickGoesOn ==
  ASSUME RecoveryInv, InTick, NEW call \in CallRecords, SetCall(Tick, call),
         TickKnows(call)', call.op # "status",
         UNCHANGED <<storeVars, exchangeVars>>,
         marked' \subseteq Keys, tracked' \subseteq ExtIds \cup OrderIds,
         rejects' \in 0..MaxRejects, riskHalted' \in BOOLEAN, apiErrors' \in 0..MaxErrors,
         killed' \in BOOLEAN, killed => killed'
  PROVE  RecoveryInv'
<1>1. orders' \in [OrderIds -> OrderRecords]
  BY DEF RecoveryInv, RecoveryTypeOK, TypeOK, storeVars
<1>2. issued' \in [OrderIds -> Keys \cup {None}]
  BY <1>1, IssuedStays DEF InTick
<1>3. calls'[Tick] = call
  BY CallSet DEF RecoveryInv, RecoveryTypeOK
<1>4. PhaseKnown'
  BY <1>3 DEF InTick, processVars, PhaseKnown, At
<1>5. /\ phase' \in Phases /\ phase' # "recovery" /\ remote' \subseteq ExtIds
      /\ writer' \in {"off", "idle", "writing"}
      /\ UNCHANGED <<orders, latest, extIndex, exchange, wire, diskVars, draft, found, boots,
                     recovered>>
  BY DEF InTick, processVars, writerVars, storeVars, exchangeVars, RecoveryInv, RecoveryTypeOK
<1> QED
  BY <1>2, <1>4, <1>5, CallGoesOn

(* Records settle in a step of the tick. *)
LEMMA TickSettles ==
  ASSUME RecoveryInv, InTick, orders' \in [OrderIds -> OrderRecords],
         \A id \in OrderIds : MovesOn(id),
         NEW call \in CallRecords, SetCall(Tick, call), TickKnows(call)', call.op # "status",
         UNCHANGED <<latest, extIndex, marked, killed, exchangeVars>>,
         tracked' \subseteq ExtIds \cup OrderIds,
         rejects' \in 0..MaxRejects, riskHalted' \in BOOLEAN, apiErrors' \in 0..MaxErrors
  PROVE  RecoveryInv'
<1>1. issued' \in [OrderIds -> Keys \cup {None}]
  BY IssuedStays DEF InTick
<1>2. calls'[Tick] = call
  BY CallSet DEF RecoveryInv, RecoveryTypeOK
<1>3. PhaseKnown'
  BY <1>2 DEF InTick, processVars, PhaseKnown, At
<1>4. /\ phase # "recovery"
      /\ UNCHANGED <<latest, extIndex, marked, killed, exchangeVars, diskVars, draft, writer,
                     found, boots, phase, recovered, remote>>
  BY DEF InTick, processVars, writerVars
<1> QED
  BY <1>1, <1>3, <1>4, OrdersSettle

(* A request of the tick, and what it is known to be about. *)
LEMMA Requests ==
  ASSUME NEW op \in {"openOrders", "cancelAll"}
  PROVE  LET call == Call(op, None, None, None, {}) IN
         /\ call \in CallRecords /\ call.op = op
         /\ (op = "cancelAll" => killed') => TickKnows(call)'
  BY DEF Call, CallRecords, Ops, TickKnows, CallKnows

(* cancelStaleOrders knows nothing that could be overtaken. *)
LEMMA StillKnows ==
  ASSUME NEW queue \in SUBSET OrderIds, phase' = "tick"
  PROVE  /\ StillToCancel(queue) \in CallRecords
         /\ StillToCancel(queue).op \in {"idle", "stale"}
         /\ TickKnows(StillToCancel(queue))'
  BY DEF StillToCancel, IdleCall, Call, CallRecords, Ops, TickKnows, CallKnows

(* The calls that the tick makes. *)
LEMMA TickCallsKeep ==
  ASSUME RecoveryInv, InTick, TickCalls
  PROVE  RecoveryInv'
<1>1. TypeOK /\ phase' = "tick"
  BY DEF RecoveryInv, RecoveryTypeOK, InTick, processVars
<1>2. CASE \E key \in SignalKeys : PlaceBegin(Tick, key)
  <2>1. PICK key \in SignalKeys : PlaceBegin(Tick, key)
    BY <1>2
  <2> DEFINE call == Call("book", key, None, None, {})
  <2>2. key \in Keys
    BY DEF SignalKeys
  <2>3. call \in CallRecords /\ call.op = "book" /\ TickKnows(call)'
    BY <2>2 DEF Call, CallRecords, Ops, TickKnows, CallKnows
  <2> QED
    BY <1>1, <2>1, <2>3, TickGoesOn DEF PlaceBegin, TypeOK, storeVars, riskVars, switchVars
<1>3. CASE \E stale \in SUBSET OrderIds : CancelStaleBegin(Tick, stale)
  <2>1. PICK stale \in SUBSET OrderIds : CancelStaleBegin(Tick, stale)
    BY <1>3
  <2> QED
    BY <1>1, <2>1, StillKnows, TickGoesOn DEF CancelStaleBegin, TypeOK, storeVars, riskVars, switchVars
<1>4. CASE OpenOrdersBegin(Tick)
  BY <1>1, <1>4, Requests, TickGoesOn DEF OpenOrdersBegin, TypeOK, storeVars, riskVars, switchVars
<1>5. CASE HaltAndCancelAll(Tick, FALSE)
  <2>1. killed' = TRUE /\ (riskHalted' <=> riskHalted) /\ riskHalted' \in BOOLEAN
    BY <1>1, <1>5, Zenon DEF HaltAndCancelAll, TypeOK
  <2> QED
    BY <1>1, <1>5, <2>1, Requests, TickGoesOn DEF HaltAndCancelAll, TypeOK, storeVars
<1> QED
  BY <1>2, <1>3, <1>4, <1>5 DEF TickCalls

(* A call of the tick is over, and at most counters and what is tracked change. *)
LEMMA TickReturns ==
  ASSUME RecoveryInv, InTick, Return(Tick),
         UNCHANGED <<storeVars, exchangeVars, killed>>,
         marked' \subseteq Keys, tracked' \subseteq ExtIds \cup OrderIds,
         rejects' \in 0..MaxRejects, riskHalted' \in BOOLEAN, apiErrors' \in 0..MaxErrors
  PROVE  RecoveryInv'
<1>1. killed' \in BOOLEAN /\ (killed => killed')
  BY DEF RecoveryInv, RecoveryTypeOK, TypeOK
<1> QED
  BY <1>1, IdleKnows, TickGoesOn DEF Return

(* A placement is refused, or finds an order of its key. *)
LEMMA PlaceEndsKeep ==
  ASSUME RecoveryInv, InTick,
         (\E malformed \in BOOLEAN : PlaceRefused(Tick, malformed)) \/ PlaceDuplicate(Tick)
  PROVE  RecoveryInv'
<1>1. TypeOK
  BY DEF RecoveryInv, RecoveryTypeOK
<1>2. CASE \E malformed \in BOOLEAN : PlaceRefused(Tick, malformed)
  <2>1. PICK malformed \in BOOLEAN : PlaceRefused(Tick, malformed)
    BY <1>2
  <2>2. calls[Tick].key \in Keys
    BY <2>1 DEF PlaceRefused, At, RecoveryInv, TickKnows, CallKnows
  <2>3. rejects' \in 0..MaxRejects /\ riskHalted' \in BOOLEAN
    BY <1>1, <2>1 DEF TypeOK, PlaceRefused, RecordRejects, UpTo
  <2> QED
    BY <1>1, <2>1, <2>2, <2>3, TickReturns DEF PlaceRefused, TypeOK, switchVars
<1>3. CASE PlaceDuplicate(Tick)
  BY <1>1, <1>3, TickReturns DEF PlaceDuplicate, TypeOK, switchVars, riskVars
<1> QED
  BY <1>2, <1>3

(* A placement is submitted: a new record, and no recovered one. *)
LEMMA SubmitKeeps ==
  ASSUME RecoveryInv, InTick, NEW id \in OrderIds, PlaceSubmit(Tick, id)
  PROVE  RecoveryInv'
<1>1. PICK key : key = calls[Tick].key
  OBVIOUS
<1>2. key \in SignalKeys /\ key \in Keys /\ key \notin RecoveredKeys
  BY <1>1 DEF PlaceSubmit, At, RecoveryInv, TickKnows, SignalKeys
<1>3. PICK new : new = [state |-> SignalDetected, key |-> key, ext |-> None]
  OBVIOUS
<1>4. /\ new \in OrderRecords /\ new.key = key /\ new.ext = None /\ new.state = SignalDetected
  BY <1>2, <1>3 DEF OrderRecords
<1>5. PICK call : call = Call("submit", key, id, None, {})
  OBVIOUS
<1>6. call \in CallRecords /\ call.op = "submit" /\ call.id = id /\ call.key = key
      /\ call.seen = {} /\ call.queue = {}
  BY <1>2, <1>5 DEF Call, CallRecords, Ops
<1>7. /\ orders[id] = NoOrder
      /\ orders' = [orders EXCEPT ![id] = new]
      /\ latest' = [latest EXCEPT ![key] = id]
      /\ marked' = marked \cup {key}
      /\ wire' = wire \cup {id}
      /\ SetCall(Tick, call)
      /\ UNCHANGED <<extIndex, tracked, rejects, riskHalted, apiErrors, killed, exchange>>
  BY <1>1, <1>3, <1>5, TransitionFacts DEF PlaceSubmit, riskVars, switchVars
<1>8. /\ phase = "tick"
      /\ UNCHANGED <<file, recKey, phase, recovered, remote, writer, draft, found, boots>>
  BY DEF InTick, diskVars, processVars, writerVars
<1>9. TypeOK /\ orders[id].ext = None
  BY <1>7 DEF RecoveryInv, RecoveryTypeOK, NoOrder
<1>10. /\ orders' \in [OrderIds -> OrderRecords] /\ orders'[id] = new
       /\ \A other \in OrderIds \ {id} : orders'[other] = orders[other]
  BY <1>4, <1>7, <1>9 DEF TypeOK
<1>11. calls' \in [Callers -> CallRecords] /\ calls'[Tick] = call
  BY <1>6, <1>7, <1>9, CallSet
<1>12. RecoveryTypeOK'
  <2>1. TypeOK'
    BY <1>2, <1>7, <1>9, <1>10, <1>11 DEF TypeOK
  <2>2. issued' \in [OrderIds -> Keys \cup {None}]
    BY <1>10, IssuedStays DEF InTick
  <2> QED
    BY <1>8, <2>1, <2>2 DEF RecoveryInv, RecoveryTypeOK
<1>13. Given' = Given
  BY <1>7 DEF Given
<1>14. AllRecordsKnown'
  <2>1. RecordsKnown(orders, Given, recKey)
    BY DEF RecoveryInv, AllRecordsKnown
  <2>2. RecordsKnown(orders', Given, recKey)
    BY <1>2, <1>4, <1>10, <2>1 DEF RecordsKnown
  <2> QED
    BY <1>8, <1>13, <2>2 DEF RecoveryInv, AllRecordsKnown
<1>15. BookKnown'
  BY <1>7, <1>8, <1>13 DEF RecoveryInv, BookKnown
<1>16. \A e \in ExtIds : extIndex[e] # None =>
         extIndex[e] \in OrderIds \ {id} /\ orders'[extIndex[e]] = orders[extIndex[e]]
  <2> SUFFICES ASSUME NEW e \in ExtIds, extIndex[e] # None
               PROVE  extIndex[e] \in OrderIds \ {id}
    BY <1>10
  <2>1. extIndex[e] \in OrderIds /\ orders[extIndex[e]].ext = e
    BY <1>9 DEF TypeOK, RecoveryInv, IndexKnown
  <2> QED
    BY <1>9, <2>1
<1>17. IndexKnown' /\ RestoredKnown'
  BY <1>7, <1>8, <1>16 DEF RecoveryInv, IndexKnown, RestoredKnown
<1>18. PhaseKnown'
  BY <1>6, <1>8, <1>11 DEF PhaseKnown, At
<1>19. TickKnows(calls[Tick])'
  <2>1. CallKnows(call)'
    BY <1>2, <1>6 DEF CallKnows
  <2> QED
    BY <1>4, <1>6, <1>8, <1>10, <1>11, <2>1 DEF TickKnows, CallKnows
<1>20. KnownAfterRecovery'
  <2>1. found \subseteq ExtIds
    BY DEF RecoveryInv, RecoveryTypeOK
  <2> QED
    BY <1>7, <1>8, <1>16, <2>1 DEF RecoveryInv, KnownAfterRecovery, IsWorking
<1>21. ClosedRecordsAreGone'
  BY <1>4, <1>7, <1>10 DEF RecoveryInv, ClosedRecordsAreGone
<1> QED
  BY <1>12, <1>14, <1>15, <1>17, <1>18, <1>19, <1>20, <1>21 DEF RecoveryInv

(* A submission is answered: the record gets its external id. *)
LEMMA AcceptedKeeps ==
  ASSUME RecoveryInv, InTick, NEW ext \in ExtIds \cup {None}, PlaceAccepted(Tick, ext)
  PROVE  RecoveryInv'
<1>1. PICK id : id = calls[Tick].id
  OBVIOUS
<1>2. TypeOK /\ id \in OrderIds /\ orders[id].state = SignalDetected /\ orders[id].ext = None
  BY <1>1 DEF PlaceAccepted, At, RecoveryInv, RecoveryTypeOK, TickKnows, CallKnows
<1>3. CanTransition(orders[id].state, OrderPlaced)
  BY <1>2 DEF CanTransition, Allowed
<1>4. /\ orders' \in [OrderIds -> OrderRecords]
      /\ orders'[id].state = OrderPlaced
      /\ orders'[id].key = orders[id].key /\ orders'[id].ext = ext
      /\ \A other \in OrderIds \ {id} : orders'[other] = orders[other]
  <2>1. PICK t : t = Transitioned(id, OrderPlaced)
    OBVIOUS
  <2>2. /\ t \in [OrderIds -> OrderRecords]
        /\ t[id].state = OrderPlaced /\ t[id].key = orders[id].key
        /\ \A other \in OrderIds : other # id => t[other] = orders[other]
    BY <1>2, <2>1, TransitionFacts, TransitionedFacts
  <2>3. orders' = [t EXCEPT ![id].ext = ext]
    BY <1>1, <1>3, <2>1 DEF PlaceAccepted
  <2> QED
    BY <1>2, <2>2, <2>3 DEF OrderRecords
<1>5. /\ extIndex' = IF ext # None THEN [extIndex EXCEPT ![ext] = id] ELSE extIndex
      /\ tracked' = tracked \cup {IF ext # None THEN ext ELSE id}
      /\ SetCall(Tick, IdleCall)
      /\ apiErrors' = 0
      /\ ext # None => exchange[ext].by = id
      /\ UNCHANGED <<latest, marked, rejects, riskHalted, killed, wire, exchange>>
  BY <1>1, <1>3 DEF PlaceAccepted, IndexExternalId, TrackOrder, Return, RecordApiSuccess,
                    exchangeVars
<1>6. /\ phase = "tick"
      /\ UNCHANGED <<file, recKey, phase, recovered, remote, writer, draft, found, boots>>
  BY DEF InTick, diskVars, processVars, writerVars
<1>7. calls' \in [Callers -> CallRecords] /\ calls'[Tick] = IdleCall
  BY <1>2, <1>5, IdleKnows, CallSet
<1>8. RecoveryTypeOK'
  <2>1. TypeOK'
    BY <1>2, <1>4, <1>5, <1>7 DEF TypeOK
  <2>2. issued' \in [OrderIds -> Keys \cup {None}]
    BY <1>4, IssuedStays DEF InTick
  <2> QED
    BY <1>6, <2>1, <2>2 DEF RecoveryInv, RecoveryTypeOK
<1>9. Given' = Given
  BY <1>5 DEF Given
<1>10. ext # None => ext \in Given
  BY <1>2, <1>5 DEF RecoveryInv, BookKnown, Given
<1>11. AllRecordsKnown'
  <2>1. RecordsKnown(orders, Given, recKey)
    BY DEF RecoveryInv, AllRecordsKnown
  <2>2. orders[id].key \notin RecoveredKeys
    BY <1>2, <2>1 DEF RecordsKnown
  <2>3. orders[id].key # None
    BY <1>2, <2>1 DEF RecordsKnown, NoOrder
  <2>4. RecordsKnown(orders', Given, recKey)
    BY <1>2, <1>4, <1>10, <2>1, <2>2, <2>3 DEF RecordsKnown
  <2> QED
    BY <1>6, <1>9, <2>4 DEF RecoveryInv, AllRecordsKnown
<1>12. BookKnown'
  BY <1>5, <1>6, <1>9 DEF RecoveryInv, BookKnown
<1>13. \A e \in ExtIds : extIndex'[e] # None /\ e # ext =>
         /\ extIndex'[e] = extIndex[e] /\ extIndex[e] \in OrderIds \ {id}
         /\ orders'[extIndex[e]] = orders[extIndex[e]]
  <2> SUFFICES ASSUME NEW e \in ExtIds, extIndex'[e] # None, e # ext
               PROVE  extIndex'[e] = extIndex[e] /\ extIndex[e] \in OrderIds \ {id}
    BY <1>4
  <2>1. extIndex'[e] = extIndex[e]
    BY <1>2, <1>5 DEF TypeOK
  <2>2. extIndex[e] \in OrderIds /\ orders[extIndex[e]].ext = e
    BY <1>2, <2>1 DEF TypeOK, RecoveryInv, IndexKnown
  <2> QED
    BY <1>2, <2>1, <2>2
<1>14. ext # None => extIndex'[ext] = id
  BY <1>2, <1>5 DEF TypeOK
<1>15. IndexKnown'
  BY <1>4, <1>13, <1>14 DEF RecoveryInv, IndexKnown
<1>16. RestoredKnown'
  BY <1>6 DEF RestoredKnown
<1>17. PhaseKnown'
  BY <1>6, <1>7, IdleKnows DEF PhaseKnown, At
<1>18. TickKnows(calls[Tick])'
  BY <1>7 DEF TickKnows, CallKnows, IdleCall, Call
<1>19. KnownAfterRecovery'
  <2> SUFFICES ASSUME recovered, ~killed, NEW e \in found, exchange[e].st = "open",
                      \A f \in ExtIds \ {e} : recKey[f] # recKey[e]
               PROVE  extIndex'[e] # None /\ orders'[extIndex'[e]].state \in Working
    BY <1>5, <1>6 DEF KnownAfterRecovery, IsWorking
  <2>1. e \in ExtIds
    BY DEF RecoveryInv, RecoveryTypeOK
  <2>2. CASE e = ext
    BY <1>2, <1>4, <1>14, <2>1, <2>2
  <2>3. CASE e # ext
    <3>1. extIndex[e] # None /\ orders[extIndex[e]].state \in Working
      BY <2>1 DEF RecoveryInv, KnownAfterRecovery, IsWorking
    <3>2. extIndex'[e] = extIndex[e]
      BY <1>2, <1>5, <2>1, <2>3 DEF TypeOK
    <3> QED
      BY <1>13, <2>1, <2>3, <3>1, <3>2
  <2> QED
    BY <2>2, <2>3
<1>20. ClosedRecordsAreGone'
  BY <1>4, <1>5 DEF RecoveryInv, ClosedRecordsAreGone
<1> QED
  BY <1>8, <1>11, <1>12, <1>15, <1>16, <1>17, <1>18, <1>19, <1>20 DEF RecoveryInv

(* One record settles, and the others stay as they are. *)
LEMMA OneSettles ==
  ASSUME TypeOK, NEW id \in OrderIds, NEW to \in {Filled, Cancelled},
         orders' = Transitioned(id, to),
         orders[id].ext # None => killed \/ exchange[orders[id].ext].st # "open"
  PROVE  orders' \in [OrderIds -> OrderRecords] /\ \A other \in OrderIds : MovesOn(other)
<1>1. /\ orders' \in [OrderIds -> OrderRecords]
      /\ orders'[id].key = orders[id].key /\ orders'[id].ext = orders[id].ext
      /\ \A other \in OrderIds : other # id => orders'[other] = orders[other]
      /\ orders'[id].state = IF orders[id].state \in Working THEN to ELSE orders[id].state
  <2>1. orders[id].state \in States
    BY DEF TypeOK, OrderRecords
  <2>2. TransitionOrder(orders[id].state, to)
          = IF orders[id].state \in Working THEN to ELSE orders[id].state
    BY <2>1, TransitionFacts
  <2> QED
    BY <2>2, TransitionedFacts
<1>2. orders[id].state \notin Working => orders'[id] = orders[id]
  BY <1>1 DEF TypeOK, OrderRecords
<1> QED
  BY <1>1, <1>2 DEF MovesOn

(* A submission threw: its record fails. *)
LEMMA PlaceErrorKeepsKnown ==
  ASSUME RecoveryInv, InTick, PlaceError(Tick)
  PROVE  RecoveryInv'
<1>1. PICK id : id = calls[Tick].id
  OBVIOUS
<1>2. TypeOK /\ id \in OrderIds /\ orders[id].state = SignalDetected
  BY <1>1 DEF PlaceError, At, RecoveryInv, RecoveryTypeOK, TickKnows, CallKnows
<1>3. orders' \in [OrderIds -> OrderRecords] /\ \A other \in OrderIds : MovesOn(other)
  <2>1. /\ orders' \in [OrderIds -> OrderRecords]
        /\ orders'[id].state = Failed
        /\ orders'[id].key = orders[id].key /\ orders'[id].ext = orders[id].ext
        /\ \A other \in OrderIds : other # id => orders'[other] = orders[other]
    BY <1>1, <1>2, TransitionFacts, TransitionedFacts DEF PlaceError
  <2> QED
    BY <1>2, <2>1 DEF MovesOn
<1>4. /\ rejects' \in 0..MaxRejects /\ riskHalted' \in BOOLEAN /\ apiErrors' \in 0..MaxErrors
      /\ SetCall(Tick, IdleCall)
      /\ UNCHANGED <<latest, extIndex, marked, tracked, killed, exchangeVars>>
  BY <1>2 DEF PlaceError, RecordRejects, RecordApiFailure, UpTo, Return, TypeOK
<1>5. tracked' \subseteq ExtIds \cup OrderIds
  BY <1>2, <1>4 DEF TypeOK
<1> QED
  BY <1>3, <1>4, <1>5, IdleKnows, TickSettles

(* A record without an external id is cancelled locally. *)
LEMMA SyntheticSettles ==
  ASSUME TypeOK, NEW id \in OrderIds, CancelSynthetic(id)
  PROVE  /\ orders' \in [OrderIds -> OrderRecords] /\ \A other \in OrderIds : MovesOn(other)
         /\ tracked' \subseteq ExtIds \cup OrderIds
<1>1. Cancelled \in {Filled, Cancelled} /\ orders[id].ext = None
      /\ orders' = Transitioned(id, Cancelled)
  BY DEF CancelSynthetic
<1>2. orders' \in [OrderIds -> OrderRecords] /\ \A other \in OrderIds : MovesOn(other)
  BY <1>1, OneSettles
<1> QED
  BY <1>2 DEF CancelSynthetic, TypeOK

(* cancelStaleOrders goes on. *)
LEMMA StaleNextKeeps ==
  ASSUME RecoveryInv, InTick, NEW id \in OrderIds, CancelStaleNext(Tick, id)
  PROVE  RecoveryInv'
<1>1. TypeOK /\ phase' = "tick"
  BY DEF RecoveryInv, RecoveryTypeOK, InTick, processVars
<1>2. PICK rest \in SUBSET OrderIds : rest = calls[Tick].queue \ {id}
  BY <1>1 DEF TypeOK, CallRecords
<1>3. /\ UNCHANGED <<latest, extIndex, marked, rejects, riskHalted, apiErrors, killed, exchangeVars>>
      /\ marked \subseteq Keys /\ rejects \in 0..MaxRejects /\ riskHalted \in BOOLEAN
      /\ apiErrors \in 0..MaxErrors /\ killed \in BOOLEAN /\ tracked \subseteq ExtIds \cup OrderIds
  BY <1>1 DEF CancelStaleNext, switchVars, TypeOK
<1>4. CASE CancelSynthetic(id) /\ SetCall(Tick, StillToCancel(rest))
  BY <1>1, <1>3, <1>4, SyntheticSettles, StillKnows, TickSettles
<1>5. CASE CancelRequest(Tick, id, rest)
  <2>1. PICK ext \in ExtIds : ext = orders[id].ext
    BY <1>1, <1>5 DEF CancelRequest, TypeOK, OrderRecords
  <2>2. PICK call : call = Call("cancel", None, id, ext, rest)
    OBVIOUS
  <2>3. /\ call \in CallRecords /\ call.op = "cancel" /\ call.id = id /\ call.ext = ext
        /\ call.seen = {} /\ call.done = FALSE
    BY <2>2 DEF Call, CallRecords, Ops
  <2>4. SetCall(Tick, call) /\ UNCHANGED <<orders, tracked>>
    BY <1>5, <2>1, <2>2 DEF CancelRequest
  <2>5. TickKnows(call)'
    BY <1>1, <2>1, <2>3, <2>4 DEF TickKnows, CallKnows
  <2> QED
    BY <1>3, <2>3, <2>4, <2>5, TickGoesOn DEF storeVars
<1> QED
  BY <1>2, <1>4, <1>5 DEF CancelStaleNext

(* A cancel is answered, or its attempts are exhausted. *)
LEMMA CancelsKeep ==
  ASSUME RecoveryInv, InTick, CancelReturn(Tick) \/ CancelEnds(Tick)
  PROVE  RecoveryInv'
<1>1. TypeOK /\ phase' = "tick" /\ TickKnows(calls[Tick])
  BY DEF RecoveryInv, RecoveryTypeOK, InTick, processVars
<1>2. PICK queue \in SUBSET OrderIds : queue = calls[Tick].queue
  BY <1>1 DEF TypeOK, CallRecords
<1>3. /\ marked \subseteq Keys /\ rejects \in 0..MaxRejects /\ riskHalted \in BOOLEAN
      /\ apiErrors \in 0..MaxErrors /\ killed \in BOOLEAN /\ tracked \subseteq ExtIds \cup OrderIds
  BY <1>1 DEF TypeOK
<1>4. CASE CancelReturn(Tick)
  <2>1. PICK id : id = calls[Tick].id
    OBVIOUS
  <2>2. id \in OrderIds /\ exchange[orders[id].ext].st # "open"
    BY <1>1, <1>4, <2>1 DEF CancelReturn, At, Answered, TickKnows, CallKnows
  <2>3. orders' = Transitioned(id, Cancelled) /\ Cancelled \in {Filled, Cancelled}
    BY <1>4, <2>1 DEF CancelReturn
  <2>4. orders' \in [OrderIds -> OrderRecords] /\ \A other \in OrderIds : MovesOn(other)
    BY <1>1, <2>2, <2>3, OneSettles
  <2>5. /\ SetCall(Tick, StillToCancel(queue)) /\ tracked' \subseteq tracked
        /\ UNCHANGED <<latest, extIndex, marked, rejects, riskHalted, apiErrors, killed, exchangeVars>>
    BY <1>2, <1>4 DEF CancelReturn, switchVars
  <2> QED
    BY <1>1, <1>3, <2>4, <2>5, StillKnows, TickSettles
<1>5. CASE CancelEnds(Tick)
  BY <1>1, <1>2, <1>3, <1>5, StillKnows, TickGoesOn
  DEF CancelEnds, riskVars, switchVars
<1> QED
  BY <1>4, <1>5

(* cancel-all is answered: every working record closes, and the kill switch has tripped. *)
LEMMA AllCancelledKeeps ==
  ASSUME RecoveryInv, InTick, CancelAllReturn(Tick)
  PROVE  RecoveryInv'
<1>1. TypeOK /\ killed
  BY DEF CancelAllReturn, At, RecoveryInv, RecoveryTypeOK, TickKnows, CallKnows
<1>2. orders' = [id \in OrderIds |-> Moved(orders[id], Cancelled)]
  BY DEF CancelAllReturn
<1>3. \A id \in OrderIds : orders'[id] \in OrderRecords /\ MovesOn(id)
  <2> SUFFICES ASSUME NEW id \in OrderIds
               PROVE  orders'[id] \in OrderRecords /\ MovesOn(id)
    OBVIOUS
  <2>1. PICK was \in OrderRecords : was = orders[id]
    BY <1>1 DEF TypeOK
  <2>2. PICK now : now = Moved(was, Cancelled)
    OBVIOUS
  <2>3. now \in OrderRecords /\ now.key = was.key /\ now.ext = was.ext
        /\ now.state = TransitionOrder(was.state, Cancelled)
    BY <2>2, MovedFacts
  <2>4. was.state \in States
    BY DEF OrderRecords
  <2>5. now.state = IF was.state \in Working THEN Cancelled ELSE was.state
    BY <2>3, <2>4, TransitionFacts
  <2>6. was.state \notin Working => now = was
    BY <2>3, <2>5 DEF OrderRecords
  <2>7. orders'[id] = now
    BY <1>2, <2>1, <2>2
  <2> QED
    BY <1>1, <2>1, <2>3, <2>5, <2>6, <2>7 DEF MovesOn
<1>4. orders' \in [OrderIds -> OrderRecords]
  BY <1>2, <1>3
<1>5. /\ SetCall(Tick, IdleCall) /\ tracked' = {}
      /\ UNCHANGED <<latest, extIndex, marked, rejects, riskHalted, apiErrors, killed, exchangeVars>>
      /\ rejects \in 0..MaxRejects /\ riskHalted \in BOOLEAN /\ apiErrors \in 0..MaxErrors
  BY <1>1 DEF CancelAllReturn, Return, switchVars, TypeOK
<1> QED
  BY <1>3, <1>4, <1>5, IdleKnows, TickSettles

(* The tick's suspended call runs on. *)
LEMMA TickContinues ==
  ASSUME RecoveryInv, InTick, Continue(Tick)
  PROVE  RecoveryInv'
<1>1. TypeOK /\ ~At(Tick, "status") /\ calls[Tick].seen \subseteq ExtIds
  BY DEF InTick, RecoveryInv, RecoveryTypeOK, PhaseKnown, TypeOK, CallRecords
<1>2. CASE CancelAllError(Tick) \/ OpenOrdersReturn(Tick) \/ OpenOrdersError(Tick)
  BY <1>1, <1>2, TickReturns
  DEF CancelAllError, OpenOrdersReturn, OpenOrdersError, ListedIds, TypeOK, riskVars, switchVars,
      storeVars
<1>3. CASE StatusReturn(Tick) \/ StatusError(Tick)
  BY <1>1, <1>3 DEF StatusReturn, StatusError
<1> QED
  BY <1>2, <1>3, PlaceEndsKeep, SubmitKeeps, AcceptedKeeps, PlaceErrorKeepsKnown, CancelsKeep,
     StaleNextKeeps, AllCancelledKeeps DEF Continue

(* Every step of the tick keeps the invariant. *)
LEMMA TickStepKeeps ==
  ASSUME RecoveryInv, TickStep
  PROVE  RecoveryInv'
<1>1. InTick
  BY DEF TickStep, InTick
<1> QED
  BY <1>1, TickCallsKeep, TickContinues DEF TickStep

-----------------------------------------------------------------------------
(* The exchange *)

(* The process's call is known while the exchange gives ids and closes orders. *)
LEMMA KnowsOn ==
  ASSUME RecoveryInv, NEW call, TickKnows(call),
         UNCHANGED <<orders, killed, phase>>,
         \A e \in ExtIds :
           \/ exchange'[e] = exchange[e]
           \/ exchange[e].st = "free"
           \/ exchange[e].st = "open" /\ exchange'[e].st \in {"filled", "cancelled"},
         Given \subseteq Given'
  PROVE  TickKnows(call)'
<1>1. call.op \in {"cancel", "status"} =>
        call.ext \in ExtIds /\ exchange[call.ext].st # "free"
  BY DEF RecoveryInv, AllRecordsKnown, RecordsKnown, Given, TickKnows, CallKnows
<1>2. CallKnows(call)'
  BY <1>1 DEF TickKnows, CallKnows
<1> QED
  BY <1>2 DEF TickKnows

(* A submission is accepted or lost, or an order is closed by others. *)
LEMMA OrdersAtExchange ==
  ASSUME RecoveryInv,
         \/ \E id \in OrderIds, e \in ExtIds : ExchangeAccepts(id, e)
         \/ \E id \in OrderIds : ExchangeDrops(id)
         \/ \E e \in ExtIds, st \in Closings : ExchangeCloses(e, st),
         UNCHANGED <<diskVars, processVars, writerVars, ghostVars>>
  PROVE  RecoveryInv'
<1>1. TypeOK /\ calls[Tick] \in CallRecords /\ TickKnows(calls[Tick])
  BY DEF RecoveryInv, RecoveryTypeOK, TypeOK
<1>2. /\ ExchangeStep /\ UNCHANGED calls
      /\ wire' \subseteq wire /\ exchange' \in [ExtIds -> ExchangeRecords]
      /\ \A e \in ExtIds :
           \/ exchange'[e] = exchange[e]
           \/ exchange[e].st = "free" /\ exchange'[e].st = "open" /\ exchange'[e].by # None
           \/ /\ exchange[e].st = "open" /\ exchange'[e].st \in {"filled", "cancelled"}
              /\ exchange'[e].by = exchange[e].by
  <2>1. CASE \E id \in OrderIds, e \in ExtIds : ExchangeAccepts(id, e)
    BY <1>1, <2>1 DEF ExchangeAccepts, TypeOK, ExchangeRecords
  <2>2. CASE \E id \in OrderIds : ExchangeDrops(id)
    BY <1>1, <2>2 DEF ExchangeDrops, TypeOK
  <2>3. CASE \E e \in ExtIds, st \in Closings : ExchangeCloses(e, st)
    BY <1>1, <2>3 DEF ExchangeCloses, Book, Closed, TypeOK, ExchangeRecords
  <2> QED
    BY <2>1, <2>2, <2>3
<1>3. SetCall(Tick, calls[Tick])
  BY <1>1, <1>2 DEF SetCall, TypeOK
<1>4. TickKnows(calls[Tick])'
  <2>1. PICK call : call = calls[Tick]
    OBVIOUS
  <2>2. UNCHANGED <<orders, killed, phase>> /\ Given \subseteq Given'
    BY <1>2 DEF ExchangeStep, storeVars, switchVars, processVars, Given
  <2>3. TickKnows(call)'
    BY <1>1, <1>2, <2>1, <2>2, KnowsOn
  <2> QED
    BY <1>2, <2>1, <2>3 DEF TickKnows, CallKnows
<1>5. PICK call \in CallRecords : call = calls[Tick]
  BY <1>1
<1>6. TickKnows(call)' /\ SetCall(Tick, call) /\ call.op = calls[Tick].op
  BY <1>2, <1>3, <1>4, <1>5 DEF TickKnows, CallKnows
<1> QED
  BY <1>2, <1>6, ExchangeGoesOn

(* An answer reaches the process's call. *)
LEMMA AnswerKeepsKnown ==
  ASSUME RecoveryInv, NEW call \in CallRecords, call = calls[Tick],
         NEW seen \in SUBSET Given, NEW reply \in {"none", "open", "filled", "cancelled"},
         SetCall(Tick, Answer(call, seen, reply)),
         call.op = "cancel" => exchange'[call.ext].st # "open",
         call.op = "status" => reply = exchange'[call.ext].st,
         exchange' \in [ExtIds -> ExchangeRecords],
         \A e \in ExtIds :
           \/ exchange'[e] = exchange[e]
           \/ /\ exchange[e].st = "open" /\ exchange'[e].st \in {"filled", "cancelled"}
              /\ exchange'[e].by = exchange[e].by,
         ExchangeStep, UNCHANGED wire,
         UNCHANGED <<diskVars, processVars, writerVars, ghostVars>>
  PROVE  RecoveryInv'
<1>1. PICK answered : answered = Answer(call, seen, reply)
  OBVIOUS
<1>2. /\ answered \in CallRecords
      /\ answered.op = call.op /\ answered.key = call.key /\ answered.id = call.id
      /\ answered.ext = call.ext /\ answered.queue = call.queue /\ answered.seen = seen
      /\ answered.reply = reply
  BY <1>1 DEF Answer, CallRecords, Given
<1>3. UNCHANGED <<orders, killed, phase>> /\ Given \subseteq Given'
  BY DEF ExchangeStep, storeVars, switchVars, processVars, Given
<1>4. TickKnows(call)'
  BY <1>3, KnowsOn DEF RecoveryInv
<1>5. TickKnows(answered)'
  BY <1>2, <1>3, <1>4 DEF TickKnows, CallKnows
<1>6. SetCall(Tick, answered) /\ answered.op = calls[Tick].op
  BY <1>1, <1>2
<1> QED
  BY <1>2, <1>5, <1>6, ExchangeGoesOn

(* The exchange answers a request of the process. *)
LEMMA RespondKeeps ==
  ASSUME RecoveryInv, Respond(Tick), UNCHANGED <<diskVars, processVars, writerVars, ghostVars>>
  PROVE  RecoveryInv'
<1>1. TypeOK /\ TickKnows(calls[Tick])
  BY DEF RecoveryInv, RecoveryTypeOK
<1>2. PICK call \in CallRecords : call = calls[Tick]
  BY <1>1 DEF TypeOK
<1>3. {} \in SUBSET Given /\ "none" \in {"none", "open", "filled", "cancelled"}
  OBVIOUS
<1>4. CASE ExchangeCancels(Tick)
  <2>1. call.op = "cancel" /\ call.ext \in ExtIds
    BY <1>1, <1>2, <1>4 DEF ExchangeCancels, At, TickKnows, CallKnows
  <2>2. /\ exchange' \in [ExtIds -> ExchangeRecords]
        /\ \A f \in ExtIds :
             \/ exchange'[f] = exchange[f]
             \/ /\ exchange[f].st = "open" /\ exchange'[f].st \in {"filled", "cancelled"}
                /\ exchange'[f].by = exchange[f].by
        /\ exchange'[call.ext].st # "open"
    BY <1>1, <1>2, <1>4, <2>1 DEF ExchangeCancels, Book, Closed, TypeOK, ExchangeRecords
  <2> QED
    BY <1>2, <1>3, <1>4, <2>1, <2>2, AnswerKeepsKnown DEF ExchangeCancels
<1>5. CASE ExchangeCancelsAll(Tick)
  <2>1. call.op = "cancelAll"
    BY <1>2, <1>5 DEF ExchangeCancelsAll, At
  <2>2. /\ exchange' \in [ExtIds -> ExchangeRecords]
        /\ \A f \in ExtIds :
             \/ exchange'[f] = exchange[f]
             \/ /\ exchange[f].st = "open" /\ exchange'[f].st \in {"filled", "cancelled"}
                /\ exchange'[f].by = exchange[f].by
    BY <1>1, <1>5 DEF ExchangeCancelsAll, Closed, TypeOK, ExchangeRecords
  <2> QED
    BY <1>2, <1>3, <1>5, <2>1, <2>2, AnswerKeepsKnown DEF ExchangeCancelsAll
<1>6. CASE ExchangeLists(Tick)
  <2>1. PICK seen : seen = {e \in ExtIds : exchange[e].st = "open"}
    OBVIOUS
  <2>2. seen \in SUBSET Given /\ call.op = "openOrders"
    BY <1>2, <1>6, <2>1 DEF ExchangeLists, At, Given
  <2>3. SetCall(Tick, Answer(call, seen, "none")) /\ ExchangeStep /\ UNCHANGED <<wire, exchange>>
    BY <1>2, <1>6, <2>1 DEF ExchangeLists, exchangeVars
  <2>4. exchange' \in [ExtIds -> ExchangeRecords]
    BY <1>1, <2>3 DEF TypeOK
  <2> QED
    BY <1>2, <1>3, <2>2, <2>3, <2>4, AnswerKeepsKnown
<1>7. CASE ExchangeReports(Tick)
  <2>1. call.op = "status" /\ call.ext \in Given /\ call.ext \in ExtIds
    BY <1>1, <1>2, <1>7
    DEF ExchangeReports, At, TickKnows, CallKnows, RecoveryInv, AllRecordsKnown, RecordsKnown
  <2>2. PICK reply \in {"none", "open", "filled", "cancelled"} : reply = exchange[call.ext].st
    BY <1>1, <2>1 DEF Given, TypeOK, ExchangeRecords
  <2>3. SetCall(Tick, Answer(call, {}, reply)) /\ ExchangeStep /\ UNCHANGED <<wire, exchange>>
    BY <1>2, <1>7, <2>2 DEF ExchangeReports, exchangeVars
  <2>4. exchange' \in [ExtIds -> ExchangeRecords]
    BY <1>1, <2>3 DEF TypeOK
  <2> QED
    BY <1>2, <1>3, <2>1, <2>2, <2>3, <2>4, AnswerKeepsKnown
<1> QED
  BY <1>4, <1>5, <1>6, <1>7 DEF Respond

(* Every step of the exchange keeps the invariant. *)
LEMMA ExchangeMovesKeeps ==
  ASSUME RecoveryInv, ExchangeMoves
  PROVE  RecoveryInv'
  BY OrdersAtExchange, RespondKeeps DEF ExchangeMoves

-----------------------------------------------------------------------------
(* The snapshot *)

(* Only the file or the draft changes, to records that are known. *)
LEMMA WriterKeeps ==
  ASSUME RecoveryInv, UNCHANGED <<engineVars, recKey, processVars, ghostVars>>,
         file' \in [OrderIds -> SavedRecords], draft' \in [OrderIds -> SavedRecords],
         RecordsKnown(file', Given, recKey), RecordsKnown(draft', Given, recKey),
         writer' \in {"off", "idle", "writing"}
  PROVE  RecoveryInv'
<1> USE DEF engineVars, processVars, ghostVars
<1>1. RecoveryTypeOK'
  BY DEF RecoveryInv, RecoveryTypeOK, TypeOK
<1>2. Given' = Given
  BY DEF Given
<1>3. AllRecordsKnown' /\ BookKnown' /\ IndexKnown' /\ RestoredKnown'
  BY <1>2 DEF RecoveryInv, AllRecordsKnown, BookKnown, IndexKnown, RestoredKnown
<1>4. PhaseKnown'
  BY DEF RecoveryInv, PhaseKnown, At, Idle
<1>5. TickKnows(calls[Tick])'
  BY <1>2 DEF RecoveryInv, TickKnows, CallKnows
<1>6. KnownAfterRecovery' /\ ClosedRecordsAreGone'
  BY DEF RecoveryInv, KnownAfterRecovery, IsWorking, ClosedRecordsAreGone
<1> QED
  BY <1>1, <1>3, <1>4, <1>5, <1>6 DEF RecoveryInv

(* The open records of a known book are known, and can be saved. *)
LEMMA SnapshotKnown ==
  ASSUME TypeOK, RecordsKnown(orders, Given, recKey)
  PROVE  Snapshot \in [OrderIds -> SavedRecords] /\ RecordsKnown(Snapshot, Given, recKey)
<1>1. PICK snap : snap = Snapshot
  OBVIOUS
<1>2. NoOrder \in SavedRecords /\ NoOrder.key = None /\ NoOrder.ext = None
      /\ None \notin RecoveredKeys
  BY DEF NoOrder, SavedRecords, OrderRecords
<1>3. \A id \in OrderIds : snap[id] = IF orders[id].state \in Open THEN orders[id] ELSE NoOrder
  BY <1>1 DEF Snapshot, IsOpenOrder
<1>4. \A id \in OrderIds : snap[id] \in SavedRecords
  BY <1>2, <1>3 DEF TypeOK, SavedRecords
<1>5. snap \in [OrderIds -> SavedRecords]
  BY <1>1, <1>4 DEF Snapshot
<1>6. RecordsKnown(snap, Given, recKey)
  BY <1>2, <1>3 DEF RecordsKnown
<1> QED
  BY <1>1, <1>5, <1>6

(* A write of the snapshot begins, succeeds or fails. *)
LEMMA SnapshotWritten ==
  ASSUME RecoveryInv, WriteBegins \/ \E ok \in BOOLEAN : WriteEnds(ok)
  PROVE  RecoveryInv'
<1>1. /\ TypeOK /\ file \in [OrderIds -> SavedRecords] /\ draft \in [OrderIds -> SavedRecords]
      /\ RecordsKnown(orders, Given, recKey) /\ RecordsKnown(file, Given, recKey)
      /\ RecordsKnown(draft, Given, recKey)
  BY DEF RecoveryInv, RecoveryTypeOK, AllRecordsKnown
<1>2. CASE WriteBegins
  BY <1>1, <1>2, SnapshotKnown, WriterKeeps DEF WriteBegins, diskVars
<1>3. CASE \E ok \in BOOLEAN : WriteEnds(ok)
  <2>1. PICK ok \in BOOLEAN : WriteEnds(ok)
    BY <1>3
  <2>2. /\ NoOrders \in [OrderIds -> SavedRecords] /\ RecordsKnown(NoOrders, Given, recKey)
    BY NoRecords
  <2>3. draft' = NoOrders /\ (file' = draft \/ file' = file) /\ writer' = "idle"
        /\ UNCHANGED <<engineVars, recKey, processVars, ghostVars>>
    BY <2>1 DEF WriteEnds
  <2> QED
    BY <1>1, <2>2, <2>3, WriterKeeps
<1> QED
  BY <1>2, <1>3

-----------------------------------------------------------------------------
(* Crash and boot *)

(* The process crashes: what it knew is lost, what is on disk is not. *)
LEMMA CrashKeeps ==
  ASSUME RecoveryInv, Crash
  PROVE  RecoveryInv'
<1>1. /\ boots < MaxBoots /\ phase' = "down" /\ recovered' = FALSE /\ remote' = {}
      /\ orders' = NoOrders /\ draft' = NoOrders /\ writer' = "off" /\ killed' = FALSE
      /\ SetCall(Tick, IdleCall)
      /\ UNCHANGED <<wire, exchange, file, recKey, issued, found, boots>>
  BY DEF Crash, SetCall, exchangeVars, diskVars, ghostVars
<1>2. /\ latest' = [key \in Keys |-> None] /\ extIndex' = [e \in ExtIds |-> None]
      /\ marked' = {} /\ tracked' = {} /\ rejects' = 0 /\ riskHalted' = FALSE /\ apiErrors' = 0
  BY DEF Crash
<1>3. calls' \in [Callers -> CallRecords] /\ calls'[Tick] = IdleCall /\ IdleCall.op = "idle"
  BY <1>1, IdleKnows, CallSet DEF RecoveryInv, RecoveryTypeOK
<1>4. RecoveryTypeOK'
  <2>1. 0 \in 0..MaxRejects /\ 0 \in 0..MaxErrors
    OBVIOUS
  <2>2. rejects' \in 0..MaxRejects /\ apiErrors' \in 0..MaxErrors
    BY <1>2, <2>1
  <2>3. riskHalted' \in BOOLEAN /\ killed' \in BOOLEAN /\ recovered' \in BOOLEAN
    BY <1>1, <1>2, Zenon
  <2>4. orders' \in [OrderIds -> OrderRecords] /\ draft' \in [OrderIds -> SavedRecords]
    BY <1>1, NoRecords
  <2>5. /\ latest' \in [Keys -> OrderIds \cup {None}]
        /\ extIndex' \in [ExtIds -> OrderIds \cup {None}]
    BY <1>2
  <2>6. wire' \subseteq OrderIds /\ exchange' \in [ExtIds -> ExchangeRecords]
    BY <1>1 DEF RecoveryInv, RecoveryTypeOK, TypeOK
  <2>7. TypeOK'
    BY <1>2, <1>3, <2>2, <2>3, <2>4, <2>5, <2>6 DEF TypeOK
  <2>8. /\ file' \in [OrderIds -> SavedRecords] /\ found' \subseteq ExtIds
        /\ recKey' \in [ExtIds -> RecoveredKeys] /\ issued' \in [OrderIds -> Keys \cup {None}]
        /\ boots' \in 0..MaxBoots
    BY <1>1 DEF RecoveryInv, RecoveryTypeOK
  <2> QED
    BY <1>1, <2>3, <2>4, <2>7, <2>8 DEF RecoveryTypeOK, Phases
<1>5. Given' = Given
  BY <1>1 DEF Given
<1>6. AllRecordsKnown'
  <2>1. RecordsKnown(NoOrders, Given, recKey)
    BY NoRecords
  <2> QED
    BY <1>1, <1>5, <2>1 DEF RecoveryInv, AllRecordsKnown
<1>7. BookKnown' /\ IndexKnown' /\ RestoredKnown'
  BY <1>1, <1>2, <1>5 DEF RecoveryInv, BookKnown, IndexKnown, RestoredKnown
<1>8. PhaseKnown'
  BY <1>1, <1>3 DEF PhaseKnown, Idle, At
<1>9. TickKnows(calls[Tick])'
  BY <1>3, <1>1 DEF TickKnows, CallKnows, IdleCall, Call
<1>10. KnownAfterRecovery'
  BY <1>1 DEF KnownAfterRecovery
<1>11. ClosedRecordsAreGone'
  BY <1>1 DEF ClosedRecordsAreGone, NoOrders, NoOrder
<1> QED
  BY <1>4, <1>6, <1>7, <1>8, <1>9, <1>10, <1>11 DEF RecoveryInv

(* Of the records with a key or an external id the last restored is one. *)
LEMMA LastRestoredIs ==
  ASSUME NEW ids, ids # {}, ids \subseteq OrderIds
  PROVE  /\ LastRestored(ids) \in ids
         /\ \/ file[LastRestored(ids)].key \in RecoveredKeys
            \/ \A other \in ids : file[other].key \notin RecoveredKeys
<1>1. \E id \in ids : file[id].key \in RecoveredKeys
                        \/ \A other \in ids : file[other].key \notin RecoveredKeys
  OBVIOUS
<1> QED
  BY <1>1 DEF LastRestored

(* A key leads to the last restored of its records. *)
LEMMA RestoredAtKey ==
  ASSUME NEW key
  PROVE  LET ids == {id \in RestoredIds : file[id].key = key} IN
         RestoredAt("key", key) = IF ids = {} THEN None ELSE LastRestored(ids)
  BY DEF RestoredAt

(* So does an external id. *)
LEMMA RestoredAtExt ==
  ASSUME NEW e
  PROVE  LET ids == {id \in RestoredIds : file[id].ext = e} IN
         RestoredAt("ext", e) = IF ids = {} THEN None ELSE LastRestored(ids)
  BY DEF RestoredAt

(***************************************************************************)
(* Both indexes lead from a record that a recovery made back to it: there  *)
(* is one of its key in the file, and its external id has that key.        *)
(***************************************************************************)
LEMMA RestoredIndexes ==
  ASSUME file \in [OrderIds -> SavedRecords], RecordsKnown(file, Given, recKey)
  PROVE  /\ \A key \in Keys :
              /\ RestoredAt("key", key) \in OrderIds \cup {None}
              /\ RestoredAt("key", key) # None => file[RestoredAt("key", key)].key = key
         /\ \A e \in ExtIds :
              /\ RestoredAt("ext", e) \in OrderIds \cup {None}
              /\ RestoredAt("ext", e) # None => file[RestoredAt("ext", e)].ext = e
         /\ \A id \in OrderIds : file[id].key \in RecoveredKeys =>
              RestoredAt("ext", file[id].ext) = id /\ RestoredAt("key", file[id].key) = id
<1>1. RestoredIds \subseteq OrderIds
  BY DEF RestoredIds
<1>2. ASSUME NEW key \in Keys
      PROVE  /\ RestoredAt("key", key) \in OrderIds \cup {None}
             /\ RestoredAt("key", key) # None => file[RestoredAt("key", key)].key = key
  <2>1. PICK ids : ids = {id \in RestoredIds : file[id].key = key}
    OBVIOUS
  <2>2. RestoredAt("key", key) = IF ids = {} THEN None ELSE LastRestored(ids)
    BY <2>1, RestoredAtKey
  <2>3. ids \subseteq OrderIds /\ (ids # {} => LastRestored(ids) \in ids)
    BY <1>1, <2>1, LastRestoredIs
  <2> QED
    BY <2>1, <2>2, <2>3
<1>3. ASSUME NEW e \in ExtIds
      PROVE  /\ RestoredAt("ext", e) \in OrderIds \cup {None}
             /\ RestoredAt("ext", e) # None => file[RestoredAt("ext", e)].ext = e
  <2>1. PICK ids : ids = {id \in RestoredIds : file[id].ext = e}
    OBVIOUS
  <2>2. RestoredAt("ext", e) = IF ids = {} THEN None ELSE LastRestored(ids)
    BY <2>1, RestoredAtExt
  <2>3. ids \subseteq OrderIds /\ (ids # {} => LastRestored(ids) \in ids)
    BY <1>1, <2>1, LastRestoredIs
  <2> QED
    BY <2>1, <2>2, <2>3
<1>4. ASSUME NEW id \in OrderIds, file[id].key \in RecoveredKeys
      PROVE  RestoredAt("ext", file[id].ext) = id /\ RestoredAt("key", file[id].key) = id
  <2>1. id \in RestoredIds
    BY <1>4 DEF RestoredIds, NoOrder
  <2>2. \A i, j \in OrderIds : file[i].key \in RecoveredKeys /\ file[i].key = file[j].key => i = j
    BY DEF RecordsKnown, SavedRecords
  <2>3. \A i \in OrderIds : file[i].key \in RecoveredKeys => recKey[file[i].ext] = file[i].key
    BY DEF RecordsKnown
  <2>4. RestoredAt("ext", file[id].ext) = id
    <3>1. PICK e : e = file[id].ext
      OBVIOUS
    <3>2. PICK ids : ids = {i \in RestoredIds : file[i].ext = e}
      OBVIOUS
    <3>3. id \in ids /\ ids # {} /\ ids \subseteq OrderIds
      BY <1>1, <2>1, <3>1, <3>2
    <3>4. PICK last : last = LastRestored(ids)
      OBVIOUS
    <3>5. last \in ids /\ file[last].key \in RecoveredKeys
      BY <1>4, <3>3, <3>4, LastRestoredIs
    <3>6. last = id
      BY <1>4, <2>2, <2>3, <3>1, <3>2, <3>3, <3>5
    <3> QED
      BY <3>1, <3>2, <3>3, <3>4, <3>6, RestoredAtExt
  <2>5. RestoredAt("key", file[id].key) = id
    <3>1. PICK key : key = file[id].key
      OBVIOUS
    <3>2. PICK ids : ids = {i \in RestoredIds : file[i].key = key}
      OBVIOUS
    <3>3. id \in ids /\ ids # {} /\ ids \subseteq OrderIds
      BY <1>1, <2>1, <3>1, <3>2
    <3>4. PICK last : last = LastRestored(ids)
      OBVIOUS
    <3>5. last \in ids
      BY <3>3, <3>4, LastRestoredIs
    <3>6. last = id
      BY <1>4, <2>2, <3>1, <3>2, <3>3, <3>5
    <3> QED
      BY <3>1, <3>2, <3>3, <3>4, <3>6, RestoredAtKey
  <2> QED
    BY <2>4, <2>5
<1> QED
  BY <1>2, <1>3, <1>4

(* The process starts from the file, however old it is. *)
LEMMA BootKeeps ==
  ASSUME RecoveryInv, Boot
  PROVE  RecoveryInv'
<1>1. /\ TypeOK /\ file \in [OrderIds -> SavedRecords] /\ RecordsKnown(file, Given, recKey)
      /\ recKey \in [ExtIds -> RecoveredKeys] /\ boots \in 0..MaxBoots /\ boots < MaxBoots
      /\ recovered = FALSE
  BY DEF RecoveryInv, RecoveryTypeOK, AllRecordsKnown, PhaseKnown, Boot
<1>2. PICK call : call = Call("openOrders", None, None, None, {})
  OBVIOUS
<1>3. call \in CallRecords /\ call.op = "openOrders" /\ call.seen = {} /\ call.queue = {}
  BY <1>2 DEF Call, CallRecords, Ops
<1>4. /\ orders' = file /\ boots' = boots + 1 /\ phase' = "recovery" /\ SetCall(Tick, call)
      /\ latest' = [key \in Keys |-> RestoredAt("key", key)]
      /\ extIndex' = [e \in ExtIds |-> RestoredAt("ext", e)]
      /\ marked' = {file[id].key : id \in RestoredIds}
      /\ UNCHANGED <<tracked, rejects, riskHalted, apiErrors, killed, wire, exchange, file, recKey,
                     recovered, remote, writer, draft, issued, found>>
  BY <1>2 DEF Boot, riskVars, switchVars, exchangeVars, diskVars, writerVars
<1>5. calls' \in [Callers -> CallRecords] /\ calls'[Tick] = call
  BY <1>1, <1>3, <1>4, CallSet
<1>6. RecoveryTypeOK'
  <2>1. /\ latest' \in [Keys -> OrderIds \cup {None}]
        /\ extIndex' \in [ExtIds -> OrderIds \cup {None}]
    BY <1>1, <1>4, RestoredIndexes
  <2>2. marked' \subseteq Keys
    <3>1. \A order \in OrderRecords : order.key # None => order.key \in Keys
      BY DEF OrderRecords
    <3>2. \A id \in RestoredIds : id \in OrderIds /\ file[id] \in OrderRecords /\ file[id] # NoOrder
      BY <1>1 DEF RestoredIds, SavedRecords
    <3>3. \A id \in RestoredIds : file[id].key # None
      BY <1>1, <3>2 DEF RecordsKnown
    <3>4. \A id \in RestoredIds : file[id].key \in Keys
      BY <3>1, <3>2, <3>3
    <3> QED
      BY <1>4, <3>4
  <2>3. orders' \in [OrderIds -> OrderRecords]
    BY <1>1, <1>4 DEF SavedRecords
  <2>4. TypeOK'
    BY <1>1, <1>4, <1>5, <2>1, <2>2, <2>3 DEF TypeOK
  <2>5. boots' \in 0..MaxBoots
    BY <1>1, <1>4
  <2> QED
    BY <1>1, <1>4, <2>4, <2>5 DEF RecoveryInv, RecoveryTypeOK, Phases
<1>7. Given' = Given
  BY <1>4 DEF Given
<1>8. AllRecordsKnown' /\ BookKnown'
  BY <1>4, <1>7 DEF RecoveryInv, AllRecordsKnown, BookKnown
<1>9. IndexKnown'
  BY <1>1, <1>4, RestoredIndexes DEF IndexKnown
<1>10. RestoredKnown'
  <2>1. \A id \in OrderIds : file[id].key \in RecoveredKeys =>
          file[id].ext \in ExtIds /\ file[id].key \in Keys
    BY <1>1 DEF RecordsKnown, Given
  <2> QED
    BY <1>1, <1>4, <2>1, RestoredIndexes DEF RestoredKnown
<1>11. PhaseKnown'
  BY <1>1, <1>3, <1>4, <1>5 DEF PhaseKnown, At
<1>12. TickKnows(calls[Tick])'
  BY <1>3, <1>4, <1>5 DEF TickKnows, CallKnows
<1>13. KnownAfterRecovery'
  BY <1>1, <1>4 DEF KnownAfterRecovery
<1>14. ClosedRecordsAreGone'
  BY <1>1, <1>4 DEF ClosedRecordsAreGone, SavedRecords
<1> QED
  BY <1>6, <1>8, <1>9, <1>10, <1>11, <1>12, <1>13, <1>14 DEF RecoveryInv

-----------------------------------------------------------------------------
(* The startup recovery *)

(***************************************************************************)
(* What the recovery makes of the list: a record for each order it names,  *)
(* and the others as they were.                                            *)
(***************************************************************************)
LEMMA RecoveredRecords ==
  ASSUME TypeOK, recKey \in [ExtIds -> RecoveredKeys],
         NEW names \in [ExtIds -> OrderIds \cup {None}],
         NEW ok \in BOOLEAN, RecoveryReturns(names, ok)
  PROVE  /\ \A e \in Named(names) :
              /\ orders'[names[e]] = [state |-> OrderPlaced, key |-> recKey[e], ext |-> e]
              /\ orders[names[e]] = NoOrder /\ names[e] \in OrderIds
         /\ \A id \in OrderIds :
              (\A e \in Named(names) : names[e] # id) => orders'[id] = orders[id]
         /\ orders' \in [OrderIds -> OrderRecords]
<1>1. Named(names) \subseteq ExtIds /\ \A e \in Named(names) : names[e] \in OrderIds
  BY DEF Named
<1>2. /\ \A e, f \in Named(names) : names[e] = names[f] => e = f
      /\ \A e \in Named(names) : orders[names[e]] = NoOrder
  BY DEF RecoveryReturns, Names, Fresh
<1>3. \A id \in OrderIds :
        orders'[id] = IF {e \in Named(names) : names[e] = id} = {} THEN orders[id]
                      ELSE LET e == CHOOSE e \in {f \in Named(names) : names[f] = id} : TRUE IN
                           [state |-> OrderPlaced, key |-> recKey[e], ext |-> e]
  BY DEF RecoveryReturns
<1>4. ASSUME NEW e \in Named(names)
      PROVE  orders'[names[e]] = [state |-> OrderPlaced, key |-> recKey[e], ext |-> e]
  <2>1. {f \in Named(names) : names[f] = names[e]} = {e}
    BY <1>2
  <2>2. (CHOOSE f \in {e} : TRUE) = e
    OBVIOUS
  <2>3. names[e] \in OrderIds
    BY <1>1
  <2> QED
    BY <1>3, <2>1, <2>2, <2>3
<1>5. ASSUME NEW id \in OrderIds, \A e \in Named(names) : names[e] # id
      PROVE  orders'[id] = orders[id]
  <2>1. {e \in Named(names) : names[e] = id} = {}
    BY <1>5
  <2> QED
    BY <1>3, <2>1
<1>6. \A id \in OrderIds : orders'[id] \in OrderRecords
  <2> SUFFICES ASSUME NEW id \in OrderIds PROVE orders'[id] \in OrderRecords
    OBVIOUS
  <2>1. CASE \E e \in Named(names) : names[e] = id
    <3>1. PICK e \in Named(names) : names[e] = id
      BY <2>1
    <3>2. PICK key : key = recKey[e]
      OBVIOUS
    <3>3. key \in Keys /\ e \in ExtIds
      BY <1>1, <3>2
    <3>4. [state |-> OrderPlaced, key |-> key, ext |-> e] \in OrderRecords
      BY <3>3 DEF OrderRecords
    <3>5. orders'[id] = [state |-> OrderPlaced, key |-> key, ext |-> e]
      BY <1>4, <3>1, <3>2
    <3> QED
      BY <3>4, <3>5
  <2>2. CASE \A e \in Named(names) : names[e] # id
    BY <1>5, <2>2 DEF TypeOK
  <2> QED
    BY <2>1, <2>2
<1>7. orders' \in [OrderIds -> OrderRecords]
  <2>1. orders' = [id \in OrderIds |-> orders'[id]]
    BY DEF RecoveryReturns
  <2> QED
    BY <1>6, <2>1
<1> QED
  BY <1>1, <1>2, <1>4, <1>5, <1>7

(* The recovery enters the orders of the list that no record names. *)
LEMMA RecoveryReturnsKeeps ==
  ASSUME RecoveryInv, NEW names \in [ExtIds -> OrderIds \cup {None}],
         NEW ok \in BOOLEAN, RecoveryReturns(names, ok)
  PROVE  RecoveryInv'
<1>1. /\ TypeOK /\ recKey \in [ExtIds -> RecoveredKeys] /\ issued \in [OrderIds -> Keys \cup {None}]
      /\ RecordsKnown(orders, Given, recKey)
  BY DEF RecoveryInv, RecoveryTypeOK, AllRecordsKnown
<1>2. PICK new : new = Named(names)
  OBVIOUS
<1>3. PICK listed : listed = calls[Tick].seen
  OBVIOUS
<1>4. /\ phase = "recovery" /\ phase' = "positions" /\ SetCall(Tick, IdleCall)
      /\ recovered' = ok /\ found' = listed /\ tracked' = listed /\ apiErrors' = 0
      /\ extIndex' = [e \in ExtIds |-> IF names[e] # None THEN names[e] ELSE extIndex[e]]
      /\ marked' = marked \cup {recKey[e] : e \in new}
      /\ Names(listed, names)
      /\ UNCHANGED <<rejects, riskHalted, killed, wire, exchange, file, recKey, remote,
                     writer, draft, boots>>
  BY <1>2, <1>3 DEF RecoveryReturns, Return, RecordApiSuccess, exchangeVars, diskVars, writerVars
<1>5. /\ new \subseteq listed /\ listed \subseteq Given /\ listed \subseteq ExtIds
      /\ \A e \in new : ~HasSignalKey(recKey[e])
      /\ \A e, f \in new : recKey[e] = recKey[f] => e = f
      /\ \A e \in listed \ new :
           HasSignalKey(recKey[e]) \/ \E f \in new : recKey[f] = recKey[e]
      /\ \A e \in ExtIds : e \in new <=> names[e] # None
  <2>1. listed \subseteq Given
    BY <1>3 DEF RecoveryInv, TickKnows
  <2>2. \A e \in ExtIds : e \in new <=> names[e] # None
    BY <1>2 DEF Named
  <2> QED
    BY <1>2, <1>4, <2>1, <2>2 DEF Names, Given
<1>6. /\ \A e \in new :
           /\ orders'[names[e]].state = OrderPlaced /\ orders'[names[e]].key = recKey[e]
           /\ orders'[names[e]].ext = e
           /\ orders[names[e]] = NoOrder /\ names[e] \in OrderIds
      /\ \A id \in OrderIds : (\A e \in new : names[e] # id) => orders'[id] = orders[id]
      /\ orders' \in [OrderIds -> OrderRecords]
  <2>1. /\ \A e \in new :
             /\ orders'[names[e]] = [state |-> OrderPlaced, key |-> recKey[e], ext |-> e]
             /\ orders[names[e]] = NoOrder /\ names[e] \in OrderIds
        /\ \A id \in OrderIds : (\A e \in new : names[e] # id) => orders'[id] = orders[id]
        /\ orders' \in [OrderIds -> OrderRecords]
    BY <1>1, <1>2, RecoveredRecords
  <2>2. ASSUME NEW e \in new
        PROVE  /\ orders'[names[e]].state = OrderPlaced /\ orders'[names[e]].key = recKey[e]
               /\ orders'[names[e]].ext = e
    <3>1. orders'[names[e]] = [state |-> OrderPlaced, key |-> recKey[e], ext |-> e]
      BY <2>1
    <3> QED
      BY ONLY <3>1
  <2> QED
    BY <2>1, <2>2
<1>7. \A id \in OrderIds : orders[id] # NoOrder => orders'[id] = orders[id]
  BY <1>6
<1>8. /\ \A key \in Keys : latest[key] # None => orders[latest[key]].key = key
      /\ \A id \in OrderIds : orders[id].key \in RecoveredKeys =>
           extIndex[orders[id].ext] = id /\ latest[orders[id].key] = id
  BY <1>4 DEF RecoveryInv, RestoredKnown
<1>9. calls' \in [Callers -> CallRecords] /\ calls'[Tick] = IdleCall /\ IdleCall.op = "idle"
  BY <1>1, <1>4, IdleKnows, CallSet
<1>10. RecoveryTypeOK'
  <2>1. latest' \in [Keys -> OrderIds \cup {None}]
    <3>1. ASSUME NEW key \in Keys, NEW hits, hits = {e \in new : recKey[e] = key}
          PROVE  (IF hits = {} THEN latest[key] ELSE names[CHOOSE e \in hits : TRUE])
                    \in OrderIds \cup {None}
      <4>1. latest[key] \in OrderIds \cup {None}
        BY <1>1 DEF TypeOK
      <4>2. hits # {} => (CHOOSE e \in hits : TRUE) \in new
        BY <3>1
      <4> QED
        BY <1>6, <4>1, <4>2
    <3>2. latest' = [key \in Keys |->
            LET hits == {e \in new : recKey[e] = key} IN
            IF hits = {} THEN latest[key] ELSE names[CHOOSE e \in hits : TRUE]]
      BY <1>2 DEF RecoveryReturns
    <3> QED
      BY <3>1, <3>2
  <2>2. extIndex' \in [ExtIds -> OrderIds \cup {None}]
    BY <1>1, <1>4 DEF TypeOK
  <2>3. marked' \subseteq Keys
    BY <1>1, <1>4, <1>5 DEF TypeOK
  <2>4. issued' \in [OrderIds -> Keys \cup {None}]
    <3>1. \A id \in OrderIds : orders'[id].key \in Keys \cup {None}
                                 /\ issued[id] \in Keys \cup {None}
      BY <1>1, <1>6 DEF OrderRecords
    <3>2. issued' = [id \in OrderIds |-> IF {e \in Named(names) : names[e] = id} = {}
                                         THEN issued[id] ELSE orders'[id].key]
      BY DEF RecoveryReturns
    <3> QED
      BY <3>1, <3>2
  <2>5. TypeOK'
    BY <1>1, <1>4, <1>5, <1>6, <1>9, <2>1, <2>2, <2>3 DEF TypeOK
  <2> QED
    BY <1>4, <1>5, <2>4, <2>5 DEF RecoveryInv, RecoveryTypeOK, Phases
<1>11. Given' = Given
  BY <1>4 DEF Given
<1>12. RecordsKnown(orders', Given, recKey)
  <2>1. ASSUME NEW id \in OrderIds, NEW e \in new, names[e] = id
        PROVE  /\ orders'[id].key = recKey[e] /\ orders'[id].ext = e /\ e \in Given
               /\ orders'[id].key # None /\ recKey[e] \in RecoveredKeys
               /\ orders'[id].state = OrderPlaced
    BY <1>1, <1>5, <1>6, <2>1
  <2>2. ASSUME NEW id \in OrderIds, orders[id].key \in RecoveredKeys, orders[id].state \notin Terminal,
               NEW e \in new
        PROVE  orders[id].key # recKey[e]
    <3>1. latest[orders[id].key] = id /\ orders[id].state \in Open
      BY <1>1, <1>8, <2>2 DEF RecordsKnown, TypeOK, OrderRecords
    <3> QED
      BY <1>5, <3>1 DEF HasSignalKey, IsOpenOrder
  <2>3. ASSUME NEW i \in OrderIds, NEW j \in OrderIds,
               orders'[i].key \in RecoveredKeys, orders'[i].key = orders'[j].key,
               orders'[i].state \notin Terminal, orders'[j].state \notin Terminal
        PROVE  i = j
    <3>1. CASE \E e \in new : names[e] = i
      <4>1. PICK e \in new : names[e] = i
        BY <3>1
      <4>2. CASE \E f \in new : names[f] = j
        BY <1>5, <2>1, <2>3, <4>1, <4>2
      <4>3. CASE \A f \in new : names[f] # j
        BY <1>6, <2>1, <2>2, <2>3, <4>1, <4>3
      <4> QED
        BY <4>2, <4>3
    <3>2. CASE \A e \in new : names[e] # i
      <4>1. CASE \E f \in new : names[f] = j
        BY <1>6, <2>1, <2>2, <2>3, <3>2, <4>1
      <4>2. CASE \A f \in new : names[f] # j
        BY <1>1, <1>6, <2>3, <3>2, <4>2 DEF RecordsKnown
      <4> QED
        BY <4>1, <4>2
    <3> QED
      BY <3>1, <3>2
  <2>4. ASSUME NEW id \in OrderIds
        PROVE  /\ orders'[id].key = None => orders'[id] = NoOrder
               /\ orders'[id].ext # None => orders'[id].ext \in Given
               /\ orders'[id].key \in RecoveredKeys =>
                    /\ orders'[id].ext # None /\ recKey[orders'[id].ext] = orders'[id].key
                    /\ orders'[id].state \notin {Absent, SignalDetected}
    <3>1. CASE \E e \in new : names[e] = id
      BY <1>5, <2>1, <3>1
    <3>2. CASE \A e \in new : names[e] # id
      BY <1>1, <1>6, <3>2 DEF RecordsKnown
    <3> QED
      BY <3>1, <3>2
  <2> QED
    BY <2>3, <2>4 DEF RecordsKnown
<1>13. AllRecordsKnown' /\ BookKnown'
  BY <1>4, <1>5, <1>11, <1>12 DEF RecoveryInv, AllRecordsKnown, BookKnown
<1>14. IndexKnown'
  <2> SUFFICES ASSUME NEW e \in ExtIds, extIndex'[e] # None PROVE orders'[extIndex'[e]].ext = e
    BY DEF IndexKnown
  <2>1. CASE names[e] # None
    BY <1>4, <1>5, <1>6, <2>1
  <2>2. CASE names[e] = None
    <3>1. extIndex'[e] = extIndex[e] /\ extIndex[e] \in OrderIds
      BY <1>1, <1>4, <2>2 DEF TypeOK
    <3>2. orders[extIndex[e]].ext = e /\ orders[extIndex[e]] # NoOrder
      BY <3>1 DEF RecoveryInv, IndexKnown, NoOrder
    <3> QED
      BY <1>7, <3>1, <3>2
  <2> QED
    BY <2>1, <2>2
<1>15. RestoredKnown' /\ PhaseKnown'
  BY <1>4, <1>9 DEF RestoredKnown, PhaseKnown, Idle, At
<1>16. TickKnows(calls[Tick])'
  BY <1>9 DEF TickKnows, CallKnows, IdleCall, Call
<1>17. KnownAfterRecovery'
  <2> SUFFICES ASSUME NEW e \in listed, exchange[e].st = "open",
                      \A f \in ExtIds \ {e} : recKey[f] # recKey[e]
               PROVE  extIndex'[e] # None /\ orders'[extIndex'[e]].state \in Working
    BY <1>4 DEF KnownAfterRecovery, IsWorking
  <2>1. CASE e \in new
    BY <1>4, <1>5, <1>6, <2>1
  <2>2. CASE e \notin new
    <3>1. HasSignalKey(recKey[e])
      BY <1>5, <2>2
    <3>2. PICK id \in OrderIds : id = latest[recKey[e]] /\ orders[id].state \in Open
      BY <1>1, <1>5, <3>1 DEF HasSignalKey, IsOpenOrder, TypeOK
    <3>3. orders[id].key = recKey[e] /\ recKey[e] \in RecoveredKeys
      BY <1>1, <1>5, <1>8, <3>2
    <3>4. /\ orders[id].ext \in ExtIds /\ recKey[orders[id].ext] = recKey[e]
          /\ orders[id].state \in Working /\ orders[id] # NoOrder
      BY <1>1, <3>2, <3>3 DEF RecordsKnown, Given, NoOrder
    <3>5. orders[id].ext = e
      BY <3>4
    <3>6. extIndex[e] = id
      BY <1>8, <3>3, <3>5
    <3>7. extIndex'[e] = id
      BY <1>4, <1>5, <2>2, <3>6
    <3> QED
      BY <1>7, <3>4, <3>7
  <2> QED
    BY <2>1, <2>2
<1>18. ClosedRecordsAreGone'
  <2> SUFFICES ASSUME ~killed, NEW id \in OrderIds, orders'[id].state \in {Filled, Cancelled},
                      orders'[id].ext # None
               PROVE  exchange[orders'[id].ext].st # "open"
    BY <1>4 DEF ClosedRecordsAreGone
  <2>1. \A e \in new : names[e] # id
    BY <1>6
  <2>2. orders'[id] = orders[id]
    BY <1>6, <2>1
  <2> QED
    BY <2>2 DEF RecoveryInv, ClosedRecordsAreGone
<1> QED
  BY <1>10, <1>13, <1>14, <1>15, <1>16, <1>17, <1>18 DEF RecoveryInv

(* getOpenOrders threw in the recovery. *)
LEMMA RecoveryFailsKeeps ==
  ASSUME RecoveryInv, RecoveryFails
  PROVE  RecoveryInv'
<1>1. /\ phase' = "positions" /\ SetCall(Tick, IdleCall) /\ tracked' = {}
      /\ apiErrors' = UpTo(MaxErrors, apiErrors + 1) /\ ~recovered
      /\ UNCHANGED <<orders, latest, extIndex, marked, rejects, riskHalted, killed, wire, exchange,
                     diskVars, recovered, remote, writer, draft, issued, found, boots>>
  BY DEF RecoveryFails, Return, RecordApiFailure, storeVars, exchangeVars, writerVars,
         RecoveryInv, PhaseKnown
<1>2. TypeOK /\ apiErrors \in Nat
  BY DEF RecoveryInv, RecoveryTypeOK, TypeOK
<1>3. apiErrors' \in 0..MaxErrors
  BY <1>1, <1>2, UpToFacts
<1>4. calls'[Tick] = IdleCall
  BY <1>1, <1>2, IdleKnows, CallSet
<1>5. PhaseKnown'
  BY <1>1, <1>4, IdleKnows DEF PhaseKnown, Idle
<1> QED
  BY <1>1, <1>2, <1>3, <1>5, IdleKnows, CallGoesOn DEF RecoveryInv, RecoveryTypeOK, TypeOK, Phases

-----------------------------------------------------------------------------
(* Reconciliation *)

(* A step of the pass that leaves orders and exchange alone. *)
LEMMA PassGoesOn ==
  ASSUME RecoveryInv, NEW call \in CallRecords, SetCall(Tick, call), TickKnows(call)',
         UNCHANGED <<storeVars, marked, riskHalted, rejects, killed, exchangeVars, diskVars, draft,
                     ghostVars, recovered>>,
         tracked' \subseteq ExtIds \cup OrderIds, apiErrors' \in 0..MaxErrors,
         writer' \in {"off", "idle", "writing"}, remote' \subseteq ExtIds,
         \/ phase' = "listing" /\ call.op = "openOrders"
         \/ phase' = "checking" /\ call.op \in {"idle", "status"}
         \/ phase' = "tick" /\ call.op = "idle"
  PROVE  RecoveryInv'
<1>1. calls'[Tick] = call
  BY CallSet DEF RecoveryInv, RecoveryTypeOK
<1>2. PhaseKnown' /\ phase' \in Phases /\ phase' # "recovery"
  BY <1>1 DEF PhaseKnown, Idle, At, Phases
<1>3. /\ UNCHANGED <<orders, latest, extIndex, exchange, wire, diskVars, draft, found, boots,
                     recovered>>
      /\ issued' \in [OrderIds -> Keys \cup {None}]
      /\ marked' \subseteq Keys /\ rejects' \in 0..MaxRejects /\ riskHalted' \in BOOLEAN
      /\ killed' \in BOOLEAN /\ (killed => killed')
  BY DEF storeVars, exchangeVars, ghostVars, RecoveryInv, RecoveryTypeOK, TypeOK
<1> QED
  BY <1>2, <1>3, CallGoesOn

(* A pass asks for the open orders. *)
LEMMA ReconcileBeginsKeeps ==
  ASSUME RecoveryInv, ReconcileBegins
  PROVE  RecoveryInv'
<1>1. PICK call : call = Call("openOrders", None, None, None, {})
  OBVIOUS
<1>2. call \in CallRecords /\ call.op = "openOrders" /\ TickKnows(call)'
  BY <1>1, Requests
<1>3. TypeOK /\ writer \in {"off", "idle", "writing"} /\ remote \subseteq ExtIds
  BY DEF RecoveryInv, RecoveryTypeOK
<1>4. /\ SetCall(Tick, call) /\ phase' = "listing"
      /\ tracked' \subseteq ExtIds \cup OrderIds /\ apiErrors' \in 0..MaxErrors
      /\ writer' \in {"off", "idle", "writing"} /\ remote' \subseteq ExtIds
      /\ UNCHANGED <<storeVars, marked, riskHalted, rejects, killed, exchangeVars, diskVars, draft,
                     ghostVars, recovered>>
  BY <1>1, <1>3 DEF ReconcileBegins, TypeOK, riskVars, switchVars, writerVars
<1> QED
  BY <1>2, <1>4, PassGoesOn

(* The list has come, or the request for it threw. *)
LEMMA ListedKeeps ==
  ASSUME RecoveryInv, ReconcileListed \/ ReconcileUnlisted
  PROVE  RecoveryInv'
<1>1. TypeOK /\ writer \in {"off", "idle", "writing"} /\ calls[Tick].seen \subseteq ExtIds
      /\ apiErrors \in Nat /\ 0 \in 0..MaxErrors
  BY DEF RecoveryInv, RecoveryTypeOK, TypeOK, CallRecords
<1>2. PICK listed \in SUBSET ExtIds : StartChecks(listed)
  BY <1>1 DEF ReconcileListed, ReconcileUnlisted
<1>3. apiErrors' \in 0..MaxErrors
  BY <1>1, UpToFacts DEF ReconcileListed, ReconcileUnlisted, RecordApiSuccess, RecordApiFailure
<1>4. PICK call : call = [IdleCall EXCEPT !.queue = Unlisted(listed)]
  OBVIOUS
<1>5. /\ call \in CallRecords /\ call.op = "idle" /\ call.seen = {}
      /\ call.queue = Unlisted(listed)
  <2>1. Unlisted(listed) \subseteq OrderIds
    BY DEF Unlisted
  <2> QED
    BY <1>4, <2>1 DEF IdleCall, Call, CallRecords, Ops
<1>6. /\ SetCall(Tick, call) /\ phase' = "checking" /\ remote' = listed
      /\ UNCHANGED <<storeVars, marked, riskVars, rejects, killed, exchangeVars, diskVars,
                     recovered, writerVars, ghostVars>>
  BY <1>2, <1>4 DEF StartChecks
<1>7. TickKnows(call)'
  <2>1. UNCHANGED orders
    BY <1>6 DEF storeVars
  <2>2. \A id \in call.queue : orders[id].ext # None
    BY <1>5 DEF Unlisted
  <2> QED
    BY <1>5, <2>1, <2>2 DEF TickKnows, CallKnows
<1>8. /\ tracked' \subseteq ExtIds \cup OrderIds
      /\ writer' \in {"off", "idle", "writing"} /\ remote' \subseteq ExtIds
      /\ UNCHANGED <<storeVars, marked, riskHalted, rejects, killed, exchangeVars, diskVars, draft,
                     ghostVars, recovered>>
  BY <1>1, <1>6 DEF TypeOK, riskVars, writerVars
<1> QED
  BY <1>3, <1>5, <1>6, <1>7, <1>8, PassGoesOn

(* The next order of the pass is asked for. *)
LEMMA CheckNextKeeps ==
  ASSUME RecoveryInv, NEW id \in OrderIds, CheckNext(id)
  PROVE  RecoveryInv'
<1>1. /\ TypeOK /\ writer \in {"off", "idle", "writing"} /\ remote \subseteq ExtIds
      /\ phase = "checking" /\ id \in calls[Tick].queue
      /\ \A i \in calls[Tick].queue : orders[i].ext # None
  BY DEF RecoveryInv, RecoveryTypeOK, TickKnows, CheckNext
<1>2. PICK queue \in SUBSET OrderIds : queue = calls[Tick].queue \ {id}
  BY <1>1 DEF TypeOK, CallRecords
<1>3. PICK ext \in ExtIds : ext = orders[id].ext
  BY <1>1 DEF TypeOK, OrderRecords
<1>4. PICK call : call = Call("status", None, id, ext, queue)
  OBVIOUS
<1>5. /\ call \in CallRecords /\ call.op = "status" /\ call.id = id /\ call.ext = ext
      /\ call.queue = queue /\ call.seen = {} /\ call.done = FALSE
  BY <1>4 DEF Call, CallRecords, Ops
<1>6. /\ SetCall(Tick, call) /\ phase' = "checking" /\ UNCHANGED <<orders, tracked>>
      /\ tracked' \subseteq ExtIds \cup OrderIds /\ apiErrors' \in 0..MaxErrors
      /\ writer' \in {"off", "idle", "writing"} /\ remote' \subseteq ExtIds
      /\ UNCHANGED <<storeVars, marked, riskHalted, rejects, killed, exchangeVars, diskVars, draft,
                     ghostVars, recovered>>
  BY <1>1, <1>2, <1>3, <1>4
  DEF CheckNext, TypeOK, storeVars, riskVars, switchVars, processVars, writerVars
<1>7. TickKnows(call)'
  BY <1>1, <1>2, <1>3, <1>5, <1>6 DEF TickKnows, CallKnows
<1> QED
  BY <1>5, <1>6, <1>7, PassGoesOn

(* What is left to check is what was. *)
LEMMA NextCheckKnows ==
  ASSUME RecoveryInv, phase = "checking", phase' = "checking",
         \A id \in OrderIds : orders'[id].ext = orders[id].ext,
         NEW call, call = [IdleCall EXCEPT !.queue = calls[Tick].queue]
  PROVE  call \in CallRecords /\ call.op = "idle" /\ TickKnows(call)'
<1>1. PICK queue \in SUBSET OrderIds : queue = calls[Tick].queue
  BY DEF RecoveryInv, RecoveryTypeOK, TypeOK, CallRecords
<1>2. call = [IdleCall EXCEPT !.queue = queue]
  BY <1>1
<1>3. call \in CallRecords /\ call.op = "idle" /\ call.seen = {} /\ call.queue = queue
  BY <1>2 DEF IdleCall, Call, CallRecords, Ops
<1>4. \A id \in queue : orders'[id].ext # None
  BY <1>1 DEF RecoveryInv, TickKnows
<1>5. TickKnows(call)'
  BY <1>3, <1>4 DEF TickKnows, CallKnows
<1> QED
  BY <1>3, <1>5

(* A status is answered: a final one closes the record. *)
LEMMA CheckReturnsKeeps ==
  ASSUME RecoveryInv, CheckReturns
  PROVE  RecoveryInv'
<1>1. /\ TypeOK /\ writer \in {"off", "idle", "writing"} /\ remote \subseteq ExtIds
      /\ TickKnows(calls[Tick]) /\ issued \in [OrderIds -> Keys \cup {None}]
      /\ phase = "checking" /\ 0 \in 0..MaxErrors
  BY DEF RecoveryInv, RecoveryTypeOK, CheckReturns
<1>2. PICK id : id = calls[Tick].id
  OBVIOUS
<1>3. PICK reply : reply = calls[Tick].reply
  OBVIOUS
<1>4. /\ id \in OrderIds /\ orders[id].ext \in ExtIds
      /\ reply \in {"open", exchange[orders[id].ext].st}
  BY <1>1, <1>2, <1>3 DEF CheckReturns, At, Answered, TickKnows, CallKnows
<1>5. PICK call : call = [IdleCall EXCEPT !.queue = calls[Tick].queue]
  OBVIOUS
<1>6. /\ SetCall(Tick, call) /\ apiErrors' = 0 /\ phase' = "checking"
      /\ tracked' \subseteq tracked
      /\ UNCHANGED <<latest, extIndex, marked, rejects, riskHalted, killed, exchangeVars,
                     diskVars, phase, recovered, remote, writer, draft, ghostVars>>
  BY <1>1, <1>5 DEF CheckReturns, NextCheck, RecordApiSuccess, processVars, writerVars
<1>7. CASE UNCHANGED orders
  <2>1. call \in CallRecords /\ call.op = "idle" /\ TickKnows(call)'
    BY <1>1, <1>5, <1>6, <1>7, NextCheckKnows
  <2>2. /\ tracked' \subseteq ExtIds \cup OrderIds /\ apiErrors' \in 0..MaxErrors
        /\ writer' \in {"off", "idle", "writing"} /\ remote' \subseteq ExtIds
        /\ UNCHANGED <<storeVars, marked, riskHalted, rejects, killed, exchangeVars, diskVars, draft,
                       ghostVars, recovered>>
    BY <1>1, <1>6, <1>7 DEF TypeOK, storeVars
  <2> QED
    BY <1>6, <2>1, <2>2, PassGoesOn
<1>8. CASE reply # "open" /\ orders' = Transitioned(id, StateOf(reply))
  <2>1. PICK to \in {Filled, Cancelled} : to = StateOf(reply)
    BY DEF StateOf
  <2>2. exchange[orders[id].ext].st # "open"
    BY <1>4, <1>8
  <2>3. orders' \in [OrderIds -> OrderRecords] /\ \A other \in OrderIds : MovesOn(other)
    BY <1>1, <1>4, <1>8, <2>1, <2>2, OneSettles
  <2>4. call \in CallRecords /\ call.op = "idle" /\ TickKnows(call)'
    BY <1>1, <1>5, <1>6, <2>3, NextCheckKnows DEF MovesOn
  <2>5. calls'[Tick] = call
    BY <1>1, <1>6, <2>4, CallSet
  <2>6. PhaseKnown'
    BY <1>6, <2>4, <2>5 DEF PhaseKnown, Idle
  <2>7. /\ tracked' \subseteq ExtIds \cup OrderIds /\ rejects' \in 0..MaxRejects
        /\ riskHalted' \in BOOLEAN /\ apiErrors' \in 0..MaxErrors
        /\ issued' \in [OrderIds -> Keys \cup {None}] /\ phase # "recovery"
        /\ UNCHANGED <<latest, extIndex, marked, killed, exchangeVars, diskVars, draft, writer,
                       found, boots, phase, recovered, remote>>
    BY <1>1, <1>6 DEF TypeOK, ghostVars
  <2> QED
    BY <1>6, <2>3, <2>4, <2>6, <2>7, OrdersSettle
<1> QED
  BY <1>2, <1>3, <1>7, <1>8 DEF CheckReturns, FinalReply

(* A status request threw. *)
LEMMA CheckFailsKeeps ==
  ASSUME RecoveryInv, CheckFails
  PROVE  RecoveryInv'
<1>1. /\ TypeOK /\ writer \in {"off", "idle", "writing"} /\ remote \subseteq ExtIds
      /\ phase = "checking" /\ apiErrors \in Nat
  BY DEF RecoveryInv, RecoveryTypeOK, TypeOK, CheckFails
<1>2. PICK call : call = [IdleCall EXCEPT !.queue = calls[Tick].queue]
  OBVIOUS
<1>3. /\ SetCall(Tick, call) /\ phase' = "checking" /\ UNCHANGED orders
      /\ apiErrors' = UpTo(MaxErrors, apiErrors + 1)
      /\ tracked' \subseteq ExtIds \cup OrderIds
      /\ writer' \in {"off", "idle", "writing"} /\ remote' \subseteq ExtIds
      /\ UNCHANGED <<storeVars, marked, riskHalted, rejects, killed, exchangeVars, diskVars, draft,
                     ghostVars, recovered>>
  BY <1>1, <1>2
  DEF CheckFails, NextCheck, RecordApiFailure, TypeOK, storeVars, riskVars, processVars, writerVars
<1>4. apiErrors' \in 0..MaxErrors
  BY <1>1, <1>3, UpToFacts
<1>5. call \in CallRecords /\ call.op = "idle" /\ TickKnows(call)'
  BY <1>1, <1>2, <1>3, NextCheckKnows
<1> QED
  BY <1>3, <1>4, <1>5, PassGoesOn

(* The pass is over. *)
LEMMA ReconcileEndsKeeps ==
  ASSUME RecoveryInv, ReconcileEnds
  PROVE  RecoveryInv'
<1>1. /\ TypeOK /\ writer \in {"off", "idle", "writing"} /\ remote \subseteq ExtIds
      /\ TickKnows(calls[Tick])
  BY DEF RecoveryInv, RecoveryTypeOK
<1>2. PICK call \in CallRecords : call = calls[Tick]
  BY <1>1 DEF TypeOK
<1>3. /\ phase' = "tick" /\ UNCHANGED <<orders, exchange, killed, calls>> /\ call.op = "idle"
      /\ tracked' = remote /\ remote' = {} /\ apiErrors' = apiErrors
      /\ writer' = IF writer = "off" THEN "idle" ELSE writer
      /\ UNCHANGED <<storeVars, marked, riskHalted, rejects, killed, exchangeVars, diskVars, draft,
                     ghostVars, recovered>>
  BY <1>2 DEF ReconcileEnds, Idle, storeVars, exchangeVars, switchVars
<1>4. SetCall(Tick, call)
  BY <1>1, <1>2, <1>3 DEF SetCall, TypeOK
<1>5. TickKnows(call)'
  <2>1. call.seen \subseteq Given /\ Given' = Given
    BY <1>1, <1>2, <1>3 DEF TickKnows, Given
  <2> QED
    BY <1>3, <2>1 DEF TickKnows, CallKnows
<1>6. /\ tracked' \subseteq ExtIds \cup OrderIds /\ apiErrors' \in 0..MaxErrors
      /\ writer' \in {"off", "idle", "writing"} /\ remote' \subseteq ExtIds
  BY <1>1, <1>3 DEF TypeOK
<1> QED
  BY <1>3, <1>4, <1>5, <1>6, PassGoesOn

-----------------------------------------------------------------------------
(* The invariant of the specification *)

(* The invariant holds before the first start. *)
LEMMA RecoveryInitInv ==
  ASSUME RecoveryInit
  PROVE  RecoveryInv
<1>1. EngineInv
  BY InitInv DEF RecoveryInit
<1>2. /\ orders = NoOrders /\ extIndex = [e \in ExtIds |-> None] /\ killed = FALSE
      /\ calls = [c \in Callers |-> IdleCall]
      /\ file = NoOrders /\ draft = NoOrders /\ writer = "off" /\ phase = "down"
      /\ recovered = FALSE /\ remote = {} /\ recKey \in [ExtIds -> RecoveredKeys]
      /\ issued = [id \in OrderIds |-> None] /\ found = {} /\ boots = 0
  BY DEF RecoveryInit, Init, NoOrders
<1>3. recovered \in BOOLEAN
  BY <1>2, Zenon
<1>4. boots \in 0..MaxBoots /\ boots < MaxBoots
  BY <1>2
<1>5. RecoveryTypeOK
  BY <1>1, <1>2, <1>3, <1>4, NoRecords DEF EngineInv, RecoveryTypeOK, Phases
<1>6. AllRecordsKnown
  BY <1>2, NoRecords DEF AllRecordsKnown
<1>7. BookKnown
  BY <1>1, <1>2 DEF EngineInv, WireAndBook, BookKnown
<1>8. IndexKnown /\ RestoredKnown
  BY <1>2 DEF IndexKnown, RestoredKnown
<1>9. calls[Tick] = IdleCall /\ Idle(Tick)
  BY <1>2, IdleKnows DEF Idle
<1>10. PhaseKnown /\ TickKnows(calls[Tick])
  BY <1>2, <1>4, <1>9, IdleKnows DEF PhaseKnown
<1>11. KnownAfterRecovery
  BY <1>2 DEF KnownAfterRecovery
<1>12. ClosedRecordsAreGone
  BY <1>2 DEF ClosedRecordsAreGone, NoOrders, NoOrder
<1> QED
  BY <1>5, <1>6, <1>7, <1>8, <1>10, <1>11, <1>12 DEF RecoveryInv

(* A step that changes no variable keeps the invariant. *)
LEMMA RecoveryStutters ==
  ASSUME RecoveryInv, UNCHANGED vars
  PROVE  RecoveryInv'
<1>1. /\ file \in [OrderIds -> SavedRecords] /\ draft \in [OrderIds -> SavedRecords]
      /\ RecordsKnown(file, Given, recKey) /\ RecordsKnown(draft, Given, recKey)
      /\ writer \in {"off", "idle", "writing"}
  BY DEF RecoveryInv, RecoveryTypeOK, AllRecordsKnown
<1> QED
  BY <1>1, WriterKeeps DEF vars, diskVars, writerVars

(* Every step keeps the invariant. *)
LEMMA RecoveryStepKeeps == RecoveryInv /\ [RecoveryNext]_vars => RecoveryInv'
<1> SUFFICES ASSUME RecoveryInv, [RecoveryNext]_vars PROVE RecoveryInv'
  OBVIOUS
<1>1. CASE Boot \/ Crash
  BY <1>1, BootKeeps, CrashKeeps
<1>2. CASE RecoveryStep
  BY <1>2, RecoveryReturnsKeeps, RecoveryFailsKeeps DEF RecoveryStep
<1>3. CASE ReconcileBegins \/ ReconcileStep
  BY <1>3, ReconcileBeginsKeeps, ListedKeeps, CheckNextKeeps, CheckReturnsKeeps,
     CheckFailsKeeps, ReconcileEndsKeeps DEF ReconcileStep
<1>4. CASE TickStep \/ ExchangeMoves
  BY <1>4, TickStepKeeps, ExchangeMovesKeeps
<1>5. CASE WriteBegins \/ \E ok \in BOOLEAN : WriteEnds(ok)
  BY <1>5, SnapshotWritten
<1>6. CASE UNCHANGED vars
  BY <1>6, RecoveryStutters
<1> QED
  BY <1>1, <1>2, <1>3, <1>4, <1>5, <1>6 DEF RecoveryNext

(* Everything that holds across crashes, step by step. *)
THEOREM RecoveryInvariant == RecoverySpec => []RecoveryInv
  BY RecoveryInitInv, RecoveryStepKeeps, PTL DEF RecoverySpec

(* The properties are parts of the invariant. *)
LEMMA RecoveryParts ==
  RecoveryInv => RecoveryTypeOK /\ KnownAfterRecovery /\ ClosedRecordsAreGone
  BY DEF RecoveryInv

(* Every variable of the process, the file and the exchange stays in its type. *)
THEOREM RecoveryTypes == RecoverySpec => []RecoveryTypeOK
  BY RecoveryInvariant, RecoveryParts, PTL

(***************************************************************************)
(* However often the process crashes, and however old the snapshot it      *)
(* starts from: an order that was open when a recovery asked, and still    *)
(* is, has a working record, unless another order shares its recovery key. *)
(***************************************************************************)
THEOREM RecoveryForgetsNone == RecoverySpec => []KnownAfterRecovery
  BY RecoveryInvariant, RecoveryParts, PTL

(* Until the kill switch trips, no record of a resting order says it is closed. *)
THEOREM NoRestingOrderIsClosed == RecoverySpec => []ClosedRecordsAreGone
  BY RecoveryInvariant, RecoveryParts, PTL

=============================================================================
